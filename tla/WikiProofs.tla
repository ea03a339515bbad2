----------------------------- MODULE WikiProofs -----------------------------
(***************************************************************************)
(* Theorems about Wiki for any paths, texts, links, clients and bounds.    *)
(***************************************************************************)
EXTENDS Wiki, TLAPS

USE WikiAssumption

-----------------------------------------------------------------------------
(* The two transactions that change the tables.                            *)

Tables ==
  /\ page \in [Paths -> Documents \cup {Gone}]
  /\ fts \subseteq Paths \X Documents
  /\ links \subseteq Paths \X Paths

LEMMA GoneIsNoDocument == Gone \notin Documents /\ Gone \notin Files
  BY DEF Gone, Documents, Files

LEMMA LinksArePaths == \A d \in Documents : LinksOf(d) \subseteq Paths
  BY DEF LinksOf, Documents

\* What a transaction about page p with document d leaves of the tables.
FtsDone(p, d) == {e \in fts : e[1] # p} \cup (IF d = Gone THEN {} ELSE {<<p, d>>})
LinksDone(p, d) ==
  {e \in links : e[1] # p} \cup (IF d = Gone THEN {} ELSE {<<p, t>> : t \in LinksOf(d)})

SavePage(p, d) ==
  /\ page' = [page EXCEPT ![p] = d]
  /\ fts' = {e \in fts : e[1] # p} \cup {<<p, d>>}
  /\ links' = {e \in links : e[1] # p} \cup {<<p, t>> : t \in LinksOf(d)}
DeletePage(p) ==
  /\ page' = [page EXCEPT ![p] = Gone]
  /\ fts' = {e \in fts : e[1] # p}
  /\ links' = {e \in links : e[1] # p}

\* Saving a page keeps the index and the links in line with the pages.
LEMMA SaveKeepsIndexes ==
    ASSUME Tables, IndexesFollowPages, NEW p \in Paths, NEW d \in Documents, SavePage(p, d)
    PROVE  Tables' /\ IndexesFollowPages'
  <1>1. page' = [page EXCEPT ![p] = d] /\ d # Gone
    BY GoneIsNoDocument DEF SavePage
  <1>2. page' \in [Paths -> Documents \cup {Gone}]
    BY <1>1 DEF Tables
  <1>3. page'[p] = d /\ \A q \in Paths \ {p} : page'[q] = page[q]
    BY <1>1 DEF Tables
  <1>4. fts' = {e \in fts : e[1] # p} \cup {<<p, d>>}
    BY DEF SavePage
  <1>5. links' = {e \in links : e[1] # p} \cup {<<p, t>> : t \in LinksOf(d)}
    BY DEF SavePage
  <1>6. fts' = {<<q, page'[q]>> : q \in {r \in Paths : page'[r] # Gone}}
    BY <1>1, <1>3, <1>4 DEF IndexesFollowPages
  <1>7. links' = {e \in Paths \X Paths : page'[e[1]] # Gone /\ e[2] \in LinksOf(page'[e[1]])}
    <2>1. links = {e \in Paths \X Paths : page[e[1]] # Gone /\ e[2] \in LinksOf(page[e[1]])}
      BY DEF IndexesFollowPages
    <2>2. \A q, t \in Paths : <<q, t>> \in links'
                                <=> page'[q] # Gone /\ t \in LinksOf(page'[q])
      <3>1. TAKE q, t \in Paths
      <3>2. CASE q = p
        BY <1>1, <1>3, <1>5, <3>2
      <3>3. CASE q # p
        BY <1>3, <1>5, <2>1, <3>3
      <3>4. QED
        BY <3>2, <3>3
    <2>3. links' \subseteq Paths \X Paths
      BY <1>5, LinksArePaths DEF Tables
    <2>4. QED
      BY <2>2, <2>3
  <1>8. fts' \subseteq Paths \X Documents /\ links' \subseteq Paths \X Paths
    BY <1>4, <1>7 DEF Tables
  <1>9. QED
    BY <1>2, <1>6, <1>7, <1>8 DEF Tables, IndexesFollowPages

\* So does deleting one.
LEMMA DeleteKeepsIndexes ==
    ASSUME Tables, IndexesFollowPages, NEW p \in Paths, DeletePage(p)
    PROVE  Tables' /\ IndexesFollowPages'
  <1>1. page' = [page EXCEPT ![p] = Gone]
    BY DEF DeletePage
  <1>2. page' \in [Paths -> Documents \cup {Gone}]
    BY <1>1 DEF Tables
  <1>3. page'[p] = Gone /\ \A q \in Paths \ {p} : page'[q] = page[q]
    BY <1>1 DEF Tables
  <1>4. fts' = {e \in fts : e[1] # p} /\ links' = {e \in links : e[1] # p}
    BY DEF DeletePage
  <1>5. fts' = {<<q, page'[q]>> : q \in {r \in Paths : page'[r] # Gone}}
    BY <1>3, <1>4 DEF IndexesFollowPages
  <1>6. links' = {e \in Paths \X Paths : page'[e[1]] # Gone /\ e[2] \in LinksOf(page'[e[1]])}
    <2>1. links = {e \in Paths \X Paths : page[e[1]] # Gone /\ e[2] \in LinksOf(page[e[1]])}
      BY DEF IndexesFollowPages
    <2>2. \A e \in Paths \X Paths :
            e \in links' <=> page'[e[1]] # Gone /\ e[2] \in LinksOf(page'[e[1]])
      BY <1>3, <1>4, <2>1
    <2>3. links' \subseteq Paths \X Paths
      BY <1>4 DEF Tables
    <2>4. QED
      BY <2>2, <2>3
  <1>7. QED
    BY <1>2, <1>4, <1>5, <1>6 DEF Tables, IndexesFollowPages

-----------------------------------------------------------------------------
(* Type correctness, with what handlers and the sync hold at each point,   *)
(* and how far the open transaction has come.                              *)

\* What is about to be saved is a document, for a path of the wiki.
HandlersInv ==
  /\ client \in [Clients -> ClientState]
  /\ \A c \in Clients :
       /\ client[c].pc # "idle" => client[c].path \in Paths
       /\ client[c].pc \in {"look up", "save"} => client[c].doc \in Documents
SyncHands ==
  /\ sync \in SyncState
  /\ sync.pc \in {"read", "save"} => sync.path \in Markdown
  /\ sync.pc = "save" => sync.read \in Documents

\* The copy a transaction writes: the tables, but for what it has done so far.
TxInv ==
  /\ tx.at # None =>
       /\ tx.path \in Paths
       /\ tx.new.page = [page EXCEPT ![tx.path] = tx.doc]
       /\ tx.at \in {"index", "link"} => tx.doc # Gone
       /\ tx.at = "unindex" => tx.new.fts = fts
       /\ tx.at = "index" => tx.new.fts = {e \in fts : e[1] # tx.path}
       /\ tx.at \in {"unlink", "link", "commit"} => tx.new.fts = FtsDone(tx.path, tx.doc)
       /\ tx.at \in {"unindex", "index", "unlink"} => tx.new.links = links
       /\ tx.at = "link" => tx.new.links = {e \in links : e[1] # tx.path}
       /\ tx.at = "commit" => tx.new.links = LinksDone(tx.path, tx.doc)
\* One of the sync's is about the page the sync is at.
SyncTx ==
  tx.by = "sync" => \/ sync.pc = "save" /\ tx.path = sync.path /\ tx.doc = sync.read
                    \/ sync.pc = "purge" /\ tx.path \in sync.todo /\ tx.doc = Gone

StoreInv ==
  /\ Tables /\ tx \in TxState /\ reader \in ReaderState
  /\ before \in [Paths -> Documents \cup {Gone}]
  /\ IndexesFollowPages /\ TxInv
DiskInv == file \in [Paths -> Files \cup {Gone}]

WikiInv == DiskInv /\ StoreInv /\ HandlersInv /\ SyncHands /\ SyncTx

LEMMA InitWiki == Init => WikiInv
  <1> SUFFICES ASSUME Init PROVE WikiInv
    OBVIOUS
  <1>0. DiskInv
    BY DEF Init, DiskInv, Files
  <1>1. HandlersInv
    <2>1. Idle \in ClientState /\ Idle.pc = "idle"
      BY DEF ClientState, Idle
    <2>2. QED
      BY <2>1 DEF Init, HandlersInv
  <1>2. SyncHands /\ SyncTx
    BY DEF Init, SyncHands, SyncTx, SyncState, NoSync, NoTx, None
  <1>3. Tables /\ IndexesFollowPages /\ before \in [Paths -> Documents \cup {Gone}]
    BY DEF Init, Tables, IndexesFollowPages
  <1>4. tx \in TxState /\ TxInv
    BY DEF Init, TxInv, TxState, TableState, NoTx, NoTables
  <1>5. reader \in ReaderState
    BY DEF Init, ReaderState, NoReader
  <1>6. QED
    BY <1>0, <1>1, <1>2, <1>3, <1>4, <1>5 DEF WikiInv, StoreInv

\* A handler that takes up a page.
LEMMA EnterState ==
    ASSUME HandlersInv, NEW c \in Clients, NEW p \in Paths, NEW d \in Documents \cup {Gone},
           NEW pc \in {"look up", "save", "unlink"}, NEW e \in {None, "created", "updated", "deleted"},
           pc # "unlink" => d \in Documents, Enter(c, pc, p, d, e)
    PROVE  HandlersInv'
  <1> DEFINE new == [pc |-> pc, path |-> p, doc |-> d, event |-> e]
  <1>1. new \in ClientState
    BY DEF ClientState
  <1>2. client' = [client EXCEPT ![c] = new]
    BY DEF Enter
  <1>3. client' \in [Clients -> ClientState]
    BY <1>1, <1>2 DEF HandlersInv
  <1>4. /\ client'[c] = new
        /\ \A k \in Clients \ {c} : client'[k] = client[k]
    BY <1>2 DEF HandlersInv
  <1>5. new.pc = pc /\ new.path = p /\ new.doc = d
    OBVIOUS
  <1> HIDE DEF new
  <1>6. QED
    BY <1>3, <1>4, <1>5 DEF HandlersInv

\* A handler that goes on to what no longer needs its document, or ends.
LEMMA StepState ==
    ASSUME HandlersInv, NEW c \in Clients, NEW from \in {"save", "publish", "unlink", "delete"},
           NEW to \in {"idle", "publish", "delete"}, Step(c, from, to)
    PROVE  client[c].path \in Paths /\ HandlersInv'
  <1> DEFINE new == IF to = "idle" THEN Idle ELSE [client[c] EXCEPT !.pc = to]
  <1>1. client[c] \in ClientState /\ client[c].path \in Paths
    BY DEF HandlersInv, Step
  <1>2. new \in ClientState /\ (to # "idle" => new.path = client[c].path) /\ new.pc = to
    BY <1>1 DEF ClientState, Idle
  <1>3. client' = [client EXCEPT ![c] = new]
    BY DEF Step, HandlersInv
  <1> HIDE DEF new
  <1>4. client' \in [Clients -> ClientState]
    BY <1>2, <1>3 DEF HandlersInv
  <1>5. \A k \in Clients : client'[k] = IF k = c THEN new ELSE client[k]
    BY <1>3 DEF HandlersInv
  <1>6. QED
    BY <1>1, <1>2, <1>4, <1>5 DEF HandlersInv

-----------------------------------------------------------------------------
(* The steps of a transaction.                                             *)

LEMMA StoreUnchanged ==
    ASSUME StoreInv, UNCHANGED store, before' \in {before, page}
    PROVE  StoreInv'
  BY DEF StoreInv, store, tables, Tables, IndexesFollowPages, TxInv, FtsDone, LinksDone

LEMMA OpenStep ==
    ASSUME StoreInv, NEW who \in Clients \cup {"sync"}, NEW p \in Paths,
           NEW d \in Documents \cup {Gone}, Open(who, p, d), UNCHANGED <<tables, reader, before>>
    PROVE  /\ StoreInv'
           /\ tx'.by = who /\ tx'.path = p /\ tx'.doc = d
  <1> DEFINE new == [page |-> [page EXCEPT ![p] = d], fts |-> fts, links |-> links]
  <1>1. new \in TableState
    BY DEF StoreInv, Tables, TableState
  <1>2. tx' = [by |-> who, path |-> p, doc |-> d, at |-> "unindex", new |-> new]
    BY DEF Open
  <1>3. new.page = [page EXCEPT ![p] = d] /\ new.fts = fts /\ new.links = links
    OBVIOUS
  <1> HIDE DEF new
  <1>4. /\ tx'.by = who /\ tx'.path = p /\ tx'.doc = d /\ tx'.at = "unindex"
        /\ tx'.new = new /\ tx' \in TxState
    BY <1>1, <1>2 DEF TxState
  <1>5. TxInv'
    BY <1>3, <1>4 DEF TxInv, tables
  <1>6. QED
    BY <1>4, <1>5 DEF StoreInv, Tables, IndexesFollowPages, tables

\* One more statement: it changes neither whose the transaction is nor its page.
LEMMA StatementStep ==
    ASSUME StoreInv, Statement
    PROVE  StoreInv' /\ tx'.by = tx.by /\ tx'.path = tx.path /\ tx'.doc = tx.doc
  <1>1. /\ tx \in TxState /\ tx.at # None /\ TxInv /\ Tables
        /\ UNCHANGED <<page, fts, links, reader, before>>
    BY DEF StoreInv, Statement, None, tables
  <1>2. ASSUME NEW f, NEW l, NEW next \in {"index", "unlink", "link", "commit"},
               f \subseteq Paths \X Documents, l \subseteq Paths \X Paths,
               Becomes(f, l, next)
        PROVE  /\ tx' \in TxState /\ tx'.by = tx.by /\ tx'.path = tx.path /\ tx'.doc = tx.doc
               /\ tx'.at = next /\ tx'.new.page = tx.new.page
               /\ tx'.new.fts = f /\ tx'.new.links = l
    <2>1. [page |-> tx.new.page, fts |-> f, links |-> l] \in TableState
      BY <1>1, <1>2 DEF TxState, TableState
    <2>2. QED
      BY <1>1, <1>2, <2>1 DEF Becomes, TxState
  <1>3. /\ tx.new.fts \subseteq Paths \X Documents /\ tx.new.links \subseteq Paths \X Paths
        /\ tx.path \in Paths /\ tx.doc \in Documents \cup {Gone}
    BY <1>1 DEF TxState, TableState, TxInv
  <1>4. CASE tx.at = "unindex"
    <2>1. {e \in tx.new.fts : e[1] # tx.path} \subseteq Paths \X Documents
      BY <1>3
    <2>2. Becomes({e \in tx.new.fts : e[1] # tx.path}, tx.new.links,
                  IF tx.doc = Gone THEN "unlink" ELSE "index")
      BY <1>4 DEF Statement
    <2>3. /\ tx' \in TxState /\ tx'.by = tx.by /\ tx'.path = tx.path /\ tx'.doc = tx.doc
          /\ tx'.at = (IF tx.doc = Gone THEN "unlink" ELSE "index")
          /\ tx'.new.page = tx.new.page
          /\ tx'.new.fts = {e \in tx.new.fts : e[1] # tx.path} /\ tx'.new.links = tx.new.links
      BY <1>2, <1>3, <2>1, <2>2
    <2>4. TxInv'
      BY <1>1, <1>4, <2>3 DEF TxInv, FtsDone
    <2>5. QED
      BY <1>1, <2>3, <2>4 DEF StoreInv, Tables, IndexesFollowPages
  <1>5. CASE tx.at = "index"
    <2>1. tx.doc \in Documents
      BY <1>1, <1>3, <1>5 DEF TxInv
    <2>2. tx.new.fts \cup {<<tx.path, tx.doc>>} \subseteq Paths \X Documents
      BY <1>3, <2>1
    <2>3. Becomes(tx.new.fts \cup {<<tx.path, tx.doc>>}, tx.new.links, "unlink")
      BY <1>5 DEF Statement
    <2>4. /\ tx' \in TxState /\ tx'.by = tx.by /\ tx'.path = tx.path /\ tx'.doc = tx.doc
          /\ tx'.at = "unlink" /\ tx'.new.page = tx.new.page
          /\ tx'.new.fts = tx.new.fts \cup {<<tx.path, tx.doc>>} /\ tx'.new.links = tx.new.links
      BY <1>2, <1>3, <2>2, <2>3
    <2>5. TxInv'
      BY <1>1, <1>5, <2>4 DEF TxInv, FtsDone
    <2>6. QED
      BY <1>1, <2>4, <2>5 DEF StoreInv, Tables, IndexesFollowPages
  <1>6. CASE tx.at = "unlink"
    <2>1. {e \in tx.new.links : e[1] # tx.path} \subseteq Paths \X Paths
      BY <1>3
    <2>2. Becomes(tx.new.fts, {e \in tx.new.links : e[1] # tx.path},
                  IF tx.doc = Gone THEN "commit" ELSE "link")
      BY <1>6 DEF Statement
    <2>3. /\ tx' \in TxState /\ tx'.by = tx.by /\ tx'.path = tx.path /\ tx'.doc = tx.doc
          /\ tx'.at = (IF tx.doc = Gone THEN "commit" ELSE "link")
          /\ tx'.new.page = tx.new.page /\ tx'.new.fts = tx.new.fts
          /\ tx'.new.links = {e \in tx.new.links : e[1] # tx.path}
      BY <1>2, <1>3, <2>1, <2>2
    <2>4. TxInv'
      BY <1>1, <1>6, <2>3 DEF TxInv, FtsDone, LinksDone
    <2>5. QED
      BY <1>1, <2>3, <2>4 DEF StoreInv, Tables, IndexesFollowPages
  <1>7. CASE tx.at = "link"
    <2>1. tx.doc \in Documents
      BY <1>1, <1>3, <1>7 DEF TxInv
    <2>2. tx.new.links \cup {<<tx.path, t>> : t \in LinksOf(tx.doc)} \subseteq Paths \X Paths
      BY <1>3, <2>1, LinksArePaths
    <2>3. Becomes(tx.new.fts, tx.new.links \cup {<<tx.path, t>> : t \in LinksOf(tx.doc)}, "commit")
      BY <1>7 DEF Statement
    <2>4. /\ tx' \in TxState /\ tx'.by = tx.by /\ tx'.path = tx.path /\ tx'.doc = tx.doc
          /\ tx'.at = "commit" /\ tx'.new.page = tx.new.page /\ tx'.new.fts = tx.new.fts
          /\ tx'.new.links = tx.new.links \cup {<<tx.path, t>> : t \in LinksOf(tx.doc)}
      BY <1>2, <1>3, <2>2, <2>3
    <2>5. TxInv'
      BY <1>1, <1>7, <2>4 DEF TxInv, FtsDone, LinksDone
    <2>6. QED
      BY <1>1, <2>4, <2>5 DEF StoreInv, Tables, IndexesFollowPages
  <1>8. QED
    BY <1>4, <1>5, <1>6, <1>7 DEF Statement

\* A commit saves or deletes the page as one.
LEMMA CommitStep ==
    ASSUME StoreInv, NEW who, Commit(who), before' = before
    PROVE  /\ StoreInv' /\ tx' = NoTx /\ tx.path \in Paths
           /\ page' = [page EXCEPT ![tx.path] = tx.doc]
  <1>1. /\ tx \in TxState /\ tx.at = "commit" /\ TxInv /\ Tables /\ reader \in ReaderState
    BY DEF StoreInv, Commit
  <1>2. /\ tx.path \in Paths /\ tx.doc \in Documents \cup {Gone}
        /\ page' = [page EXCEPT ![tx.path] = tx.doc]
        /\ fts' = FtsDone(tx.path, tx.doc) /\ links' = LinksDone(tx.path, tx.doc)
    BY <1>1 DEF Commit, TxInv, TxState, None
  <1>3. Tables' /\ IndexesFollowPages'
    <2>1. CASE tx.doc = Gone
      <3>1. DeletePage(tx.path)
        BY <1>2, <2>1 DEF DeletePage, FtsDone, LinksDone
      <3>2. QED
        BY <1>2, <3>1, DeleteKeepsIndexes DEF StoreInv
    <2>2. CASE tx.doc \in Documents
      <3>1. SavePage(tx.path, tx.doc)
        BY <1>2, <2>2, GoneIsNoDocument DEF SavePage, FtsDone, LinksDone
      <3>2. QED
        BY <1>2, <2>2, <3>1, SaveKeepsIndexes DEF StoreInv
    <2>3. QED
      BY <1>2, <2>1, <2>2
  <1>4. tx' = NoTx /\ NoTx \in TxState /\ TxInv'
    BY DEF Commit, NoTx, NoTables, TxState, TableState, TxInv
  <1>5. reader' \in ReaderState
    BY <1>1 DEF Commit, ReaderState
  <1>6. QED
    BY <1>2, <1>3, <1>4, <1>5 DEF StoreInv

\* One that is dropped leaves the tables as they were.
LEMMA RollbackStep ==
    ASSUME StoreInv, NEW who \in Clients \cup {"sync"}, Rollback(who), before' = before
    PROVE  StoreInv' /\ tx' \in {tx, NoTx} /\ tx'.by # who
  <1>1. NoTx \in TxState /\ NoTx.at = None /\ NoTx.by = None /\ None # who
    BY DEF NoTx, NoTables, TxState, TableState, None
  <1>2. tx' \in {tx, NoTx} /\ tx'.by # who /\ UNCHANGED <<page, fts, links, reader>>
    BY <1>1 DEF Rollback, tables
  <1>3. TxInv'
    <2>1. CASE tx' = tx
      BY <1>2, <2>1 DEF StoreInv, TxInv, FtsDone, LinksDone
    <2>2. CASE tx' = NoTx
      BY <1>1, <2>2 DEF TxInv
    <2>3. QED
      BY <1>2, <2>1, <2>2
  <1>4. QED
    BY <1>1, <1>2, <1>3 DEF StoreInv, Tables, IndexesFollowPages

\* A search that begins, and one that goes on, reads and changes nothing else.
LEMMA ReaderTypes ==
    ASSUME StoreInv, Search \/ FetchLinks
    PROVE  StoreInv'
  <1>1. UNCHANGED <<page, fts, links, tx, before>> /\ reader \in ReaderState /\ Tables
    BY DEF StoreInv, Search, FetchLinks, tables
  <1>2. reader' \in ReaderState
    <2>1. CASE Search
      <3>1. PICK x \in Texts \cup {None} :
              reader' = [NoReader EXCEPT !.query = x, !.left = Found(x),
                           !.docs = [p \in Paths |-> IF p \in Found(x) THEN page[p] ELSE Gone]]
        BY <2>1 DEF Search
      <3>2. Found(x) \subseteq Paths
        BY DEF Found
      <3>3. [p \in Paths |-> IF p \in Found(x) THEN page[p] ELSE Gone]
              \in [Paths -> Documents \cup {Gone}]
        BY <1>1 DEF Tables
      <3>4. QED
        BY <3>1, <3>2, <3>3 DEF ReaderState, NoReader
    <2>2. CASE FetchLinks
      <3>1. PICK p \in reader.left :
              reader' = [reader EXCEPT !.left = @ \ {p}, !.links = @ \cup ReadLinks(p)]
        BY <2>2 DEF FetchLinks
      <3>2. ReadLinks(p) \in SUBSET (Paths \X Paths)
        BY <1>1 DEF ReadLinks, Tables
      <3>3. /\ reader.links \cup ReadLinks(p) \in SUBSET (Paths \X Paths)
            /\ reader.left \ {p} \in SUBSET Paths
        BY <1>1, <3>2 DEF ReaderState
      <3>4. QED
        BY <1>1, <3>1, <3>3 DEF ReaderState
    <2>3. QED
      BY <2>1, <2>2
  <1>3. QED
    BY <1>1, <1>2 DEF StoreInv, Tables, IndexesFollowPages, TxInv, FtsDone, LinksDone

-----------------------------------------------------------------------------
(* One step of the specification.                                          *)

LEMMA HandlerStep ==
    ASSUME WikiInv, NEW c \in Clients,
           \/ WriteFile(c) \/ LookUp(c) \/ OpenWrite(c) \/ CommitWrite(c)
           \/ PublishEvent(c) \/ LookUpDeleted(c) \/ Unlink(c) \/ Abandon(c)
    PROVE  WikiInv'
  <1>0. DiskInv /\ StoreInv /\ HandlersInv /\ SyncHands /\ SyncTx
    BY DEF WikiInv
  <1>s. ASSUME UNCHANGED sync PROVE SyncHands'
    BY <1>0, <1>s DEF SyncHands
  <1>t. ASSUME UNCHANGED sync, tx' \in {tx, NoTx} \/ tx'.by # "sync" PROVE SyncTx'
    BY <1>0, <1>t DEF SyncTx, NoTx, None
  <1>d. ASSUME UNCHANGED file PROVE DiskInv'
    BY <1>0, <1>d DEF DiskInv
  <1>k. ASSUME UNCHANGED <<store, before>> PROVE StoreInv' /\ tx' = tx
    BY <1>0, <1>k, StoreUnchanged DEF store
  <1>1. CASE WriteFile(c)
    <2>1. PICK p \in Paths, x \in Valid :
            /\ file' = [file EXCEPT ![p] = Serialize(Serialize(<<x, 0>>))]
            /\ Enter(c, "look up", p, Serialize(<<x, 0>>), None)
      BY <1>1 DEF WriteFile
    <2>2. Serialize(<<x, 0>>) \in Documents /\ Serialize(Serialize(<<x, 0>>)) \in Files
      BY DEF Serialize, Documents, Files
    <2>3. DiskInv'
      BY <1>0, <2>1, <2>2 DEF DiskInv
    <2>4. HandlersInv'
      BY <1>0, <2>1, <2>2, EnterState
    <2>5. QED
      BY <1>1, <1>s, <1>t, <1>k, <2>3, <2>4 DEF WriteFile, WikiInv
  <1>2. CASE LookUp(c)
    <2>1. client[c].path \in Paths /\ client[c].doc \in Documents
      BY <1>0, <1>2 DEF LookUp, HandlersInv
    <2>2. PICK e \in {"created", "updated"} :
            Enter(c, "save", client[c].path, client[c].doc, e)
      BY <1>2 DEF LookUp
    <2>3. HandlersInv'
      BY <1>0, <2>1, <2>2, EnterState
    <2>4. QED
      BY <1>2, <1>s, <1>t, <1>k, <1>d, <2>3 DEF LookUp, WikiInv
  <1>3. CASE OpenWrite(c)
    <2>1. client[c].path \in Paths /\ client[c].doc \in Documents \cup {Gone}
      BY <1>0, <1>3 DEF OpenWrite, HandlersInv, ClientState
    <2>2. StoreInv' /\ tx'.by = c
      BY <1>0, <1>3, <2>1, OpenStep DEF OpenWrite
    <2>3. HandlersInv'
      BY <1>0, <1>3 DEF OpenWrite, HandlersInv
    <2>4. QED
      BY <1>3, <1>s, <1>t, <1>d, <2>2, <2>3 DEF OpenWrite, WikiInv
  <1>4. CASE CommitWrite(c)
    <2>1. StoreInv' /\ tx' = NoTx
      BY <1>0, <1>4, CommitStep DEF CommitWrite
    <2>2. HandlersInv'
      BY <1>0, <1>4, StepState DEF CommitWrite
    <2>3. QED
      BY <1>4, <1>s, <1>t, <1>d, <2>1, <2>2 DEF CommitWrite, WikiInv
  <1>5. CASE PublishEvent(c)
    <2>1. HandlersInv'
      BY <1>0, <1>5, StepState DEF PublishEvent
    <2>2. QED
      BY <1>5, <1>s, <1>t, <1>k, <1>d, <2>1 DEF PublishEvent, WikiInv
  <1>6. CASE LookUpDeleted(c)
    <2>1. PICK p \in Paths : Enter(c, "unlink", p, Gone, "deleted")
      BY <1>6 DEF LookUpDeleted
    <2>2. HandlersInv'
      BY <1>0, <2>1, EnterState
    <2>3. QED
      BY <1>6, <1>s, <1>t, <1>k, <1>d, <2>2 DEF LookUpDeleted, WikiInv
  <1>7. CASE Unlink(c)
    <2>1. HandlersInv'
      BY <1>0, <1>7, StepState DEF Unlink
    <2>2. DiskInv'
      BY <1>0, <1>7 DEF Unlink, DiskInv
    <2>3. QED
      BY <1>7, <1>s, <1>t, <1>k, <2>1, <2>2 DEF Unlink, WikiInv
  <1>8. CASE Abandon(c)
    <2>1. StoreInv' /\ tx' \in {tx, NoTx}
      BY <1>0, <1>8, RollbackStep DEF Abandon
    <2>2. Idle \in ClientState /\ Idle.pc = "idle"
      BY DEF Idle, ClientState
    <2>3. client' \in [Clients -> ClientState]
           /\ \A k \in Clients : client'[k] = IF k = c THEN Idle ELSE client[k]
      BY <1>0, <1>8, <2>2 DEF Abandon, HandlersInv
    <2>4. HandlersInv'
      BY <1>0, <2>2, <2>3 DEF HandlersInv
    <2>5. QED
      BY <1>8, <1>s, <1>t, <1>d, <2>1, <2>4 DEF Abandon, WikiInv
  <1>9. QED
    BY <1>1, <1>2, <1>3, <1>4, <1>5, <1>6, <1>7, <1>8

LEMMA SyncsStep ==
    ASSUME WikiInv,
           \/ Begin \/ Scan \/ ReadFile \/ OpenScanned \/ CommitScanned \/ List
           \/ OpenPurge \/ CommitPurge \/ SyncFails \/ EndSync
    PROVE  WikiInv'
  <1>0. DiskInv /\ StoreInv /\ HandlersInv /\ SyncHands /\ SyncTx /\ sync \in SyncState
    BY DEF WikiInv, SyncHands
  <1>a. ASSUME UNCHANGED <<file, client>> PROVE DiskInv' /\ HandlersInv'
    BY <1>0, <1>a DEF DiskInv, HandlersInv
  <1>k. ASSUME UNCHANGED <<file, client, store>>, before' \in {before, page},
               SyncHands', tx.by # "sync"
        PROVE  WikiInv'
    BY <1>0, <1>a, <1>k, StoreUnchanged DEF store, SyncTx, WikiInv
  <1>1. CASE Begin
    BY <1>0, <1>1, <1>k DEF Begin, NoSync, SyncState, SyncHands, SyncTx
  <1>2. CASE Scan
    <2>1. PICK p \in sync.todo :
            sync' = IF file[p] # Gone /\ p \in Markdown
                    THEN [sync EXCEPT !.todo = @ \ {p}, !.scanned = @ \cup {p},
                                      !.pc = "read", !.path = p]
                    ELSE [sync EXCEPT !.todo = @ \ {p}]
      BY <1>2 DEF Scan
    <2>2. tx.by # "sync"
      BY <1>0, <1>2 DEF Scan, SyncTx
    <2>3. CASE file[p] # Gone /\ p \in Markdown
      BY <1>0, <1>2, <1>k, <2>1, <2>2, <2>3 DEF Scan, SyncState, SyncHands
    <2>4. CASE ~(file[p] # Gone /\ p \in Markdown)
      BY <1>0, <1>2, <1>k, <2>1, <2>2, <2>4 DEF Scan, SyncState, SyncHands
    <2>5. QED
      BY <2>3, <2>4
  <1>3. CASE ReadFile
    <2>1. sync.path \in Markdown /\ file[sync.path] \in Files \cup {Gone}
      BY <1>0, <1>3 DEF ReadFile, SyncHands, DiskInv
    <2>2. tx.by # "sync"
      BY <1>0, <1>3 DEF ReadFile, SyncTx
    <2>3. SyncHands'
      BY <1>0, <1>3, <2>1 DEF ReadFile, Parses, SyncState, SyncHands
    <2>4. QED
      BY <1>3, <1>k, <2>2, <2>3 DEF ReadFile
  <1>4. CASE OpenScanned
    <2>1. sync.path \in Paths /\ sync.read \in Documents \cup {Gone}
      BY <1>0, <1>4 DEF OpenScanned, SyncHands
    <2>2. /\ StoreInv' /\ tx'.by = "sync" /\ tx'.path = sync.path /\ tx'.doc = sync.read
          /\ UNCHANGED <<file, client, sync>> /\ sync.pc = "save"
      BY <1>0, <1>4, <2>1, OpenStep DEF OpenScanned
    <2>3. SyncHands' /\ SyncTx'
      BY <1>0, <2>2 DEF SyncHands, SyncTx
    <2>4. QED
      BY <1>a, <2>2, <2>3 DEF WikiInv
  <1>5. CASE CommitScanned
    <2>1. StoreInv' /\ tx' = NoTx /\ UNCHANGED <<file, client>>
      BY <1>0, <1>5, CommitStep DEF CommitScanned
    <2>2. SyncHands'
      BY <1>0, <1>5 DEF CommitScanned, SyncState, SyncHands
    <2>3. QED
      BY <1>a, <2>1, <2>2 DEF WikiInv, SyncTx, NoTx, None
  <1>6. CASE List
    BY <1>0, <1>6, <1>k DEF List, SyncState, SyncHands, SyncTx
  <1>7. CASE OpenPurge
    <2>1. PICK p \in sync.todo : Open("sync", p, Gone)
      BY <1>7 DEF OpenPurge
    <2>2. p \in Paths
      BY <1>0 DEF SyncState
    <2>3. /\ StoreInv' /\ tx'.by = "sync" /\ tx'.path = p /\ tx'.doc = Gone
          /\ UNCHANGED <<file, client, sync>> /\ sync.pc = "purge"
      BY <1>0, <1>7, <2>1, <2>2, OpenStep DEF OpenPurge
    <2>4. SyncHands' /\ SyncTx'
      BY <1>0, <2>1, <2>3 DEF SyncHands, SyncTx
    <2>5. QED
      BY <1>a, <2>3, <2>4 DEF WikiInv
  <1>8. CASE CommitPurge
    <2>1. StoreInv' /\ tx' = NoTx /\ UNCHANGED <<file, client>>
      BY <1>0, <1>8, CommitStep DEF CommitPurge
    <2>2. SyncHands'
      BY <1>0, <1>8 DEF CommitPurge, SyncState, SyncHands
    <2>3. QED
      BY <1>a, <2>1, <2>2 DEF WikiInv, SyncTx, NoTx, None
  <1>9. CASE SyncFails
    <2>1. StoreInv' /\ tx'.by # "sync" /\ UNCHANGED <<file, client>>
      BY <1>0, <1>9, RollbackStep DEF SyncFails
    <2>2. SyncHands'
      <3>1. CASE sync' = NoSync
        BY <3>1 DEF SyncHands, NoSync, SyncState
      <3>2. CASE sync' = [sync EXCEPT !.pc = "scan"]
        BY <1>0, <3>2 DEF SyncHands, SyncState
      <3>3. ASSUME sync.pc = "purge", NEW rest \in SUBSET sync.todo,
                   sync' = [sync EXCEPT !.todo = rest]
            PROVE  SyncHands'
        BY <1>0, <3>3 DEF SyncHands, SyncState
      <3>4. QED
        BY <1>9, <3>1, <3>2, <3>3 DEF SyncFails
    <2>3. QED
      BY <1>a, <2>1, <2>2 DEF WikiInv, SyncTx
  <1>10. CASE EndSync
    BY <1>0, <1>10, <1>k DEF EndSync, SyncState, SyncHands
  <1>11. QED
    BY <1>1, <1>2, <1>3, <1>4, <1>5, <1>6, <1>7, <1>8, <1>9, <1>10

LEMMA WikiStep == WikiInv /\ [Next]_vars => WikiInv'
  <1> SUFFICES ASSUME WikiInv, [Next]_vars PROVE WikiInv'
    OBVIOUS
  <1>0. DiskInv /\ StoreInv /\ HandlersInv /\ SyncHands /\ SyncTx
    BY DEF WikiInv
  <1>a. ASSUME UNCHANGED <<client, sync>> PROVE HandlersInv' /\ SyncHands'
    BY <1>0, <1>a DEF HandlersInv, SyncHands
  <1>1. CASE UNCHANGED vars
    <2>1. UNCHANGED <<file, store, tx, client, sync, before>>
      BY <1>1 DEF vars, store
    <2>2. QED
      BY <1>0, <1>a, <2>1, StoreUnchanged DEF WikiInv, DiskInv, SyncTx
  <1>2. CASE Edit
    <2>1. DiskInv'
      BY <1>0, <1>2 DEF Edit, DiskInv, Files
    <2>2. UNCHANGED <<store, tx, client, sync, before>>
      BY <1>2 DEF Edit, store
    <2>3. QED
      BY <1>0, <1>a, <2>1, <2>2, StoreUnchanged DEF WikiInv, SyncTx
  <1>3. CASE Statement
    <2>1. StoreInv' /\ tx'.by = tx.by /\ tx'.path = tx.path /\ tx'.doc = tx.doc
      BY <1>0, <1>3, StatementStep
    <2>2. UNCHANGED <<file, client, sync>>
      BY <1>3 DEF Statement
    <2>3. SyncTx' /\ DiskInv'
      BY <1>0, <2>1, <2>2 DEF SyncTx, DiskInv
    <2>4. QED
      BY <1>a, <2>1, <2>2, <2>3 DEF WikiInv
  <1>4. CASE Search \/ FetchLinks
    <2>1. StoreInv'
      BY <1>0, <1>4, ReaderTypes
    <2>2. UNCHANGED <<file, tx, client, sync>>
      BY <1>4 DEF Search, FetchLinks
    <2>3. SyncTx' /\ DiskInv'
      BY <1>0, <2>2 DEF SyncTx, DiskInv
    <2>4. QED
      BY <1>a, <2>1, <2>2, <2>3 DEF WikiInv
  <1>5. QED
    BY <1>1, <1>2, <1>3, <1>4, HandlerStep, SyncsStep DEF Next

-----------------------------------------------------------------------------
(* The readers. A page a search has found and nobody has changed since is  *)
(* the page it will read the links of.                                     *)

Told(p) == {t \in Paths : <<p, t>> \in reader.links}
ReaderInv ==
  \A p \in Paths :
    /\ p \in reader.left => /\ reader.docs[p] # Gone /\ Told(p) = {}
                            /\ p \notin reader.changed => page[p] = reader.docs[p]
    /\ reader.docs[p] # Gone =>
         /\ reader.query \in {None, reader.docs[p][1]}
         /\ p \notin reader.left \cup reader.changed => Told(p) = LinksOf(reader.docs[p])

LEMMA PagesHaveTheirLinks ==
    ASSUME WikiInv, NEW p \in Paths, page[p] # Gone
    PROVE  {t \in Paths : <<p, t>> \in links} = LinksOf(page[p])
  <1>1. page[p] \in Documents
    BY DEF WikiInv, StoreInv, Tables
  <1>2. LinksOf(page[p]) \subseteq Paths
    BY <1>1, LinksArePaths
  <1>3. links = {e \in Paths \X Paths : page[e[1]] # Gone /\ e[2] \in LinksOf(page[e[1]])}
    BY DEF WikiInv, StoreInv, IndexesFollowPages
  <1>4. \A t \in Paths : <<p, t>> \in links <=> t \in LinksOf(page[p])
    BY <1>3
  <1>5. QED
    BY <1>2, <1>4

LEMMA SearchStep ==
    ASSUME WikiInv, Search
    PROVE  ReaderInv'
  <1>1. PICK x \in Texts \cup {None} :
          reader' = [NoReader EXCEPT !.query = x, !.left = Found(x),
                       !.docs = [p \in Paths |-> IF p \in Found(x) THEN page[p] ELSE Gone]]
    BY DEF Search
  <1>2. /\ reader'.query = x /\ reader'.left = Found(x)
        /\ reader'.links = {} /\ reader'.changed = {} /\ page' = page
        /\ reader'.docs = [p \in Paths |-> IF p \in Found(x) THEN page[p] ELSE Gone]
    BY <1>1 DEF NoReader, Search, tables
  <1>3. ASSUME NEW p \in Found(x)
        PROVE  p \in Paths /\ page[p] # Gone /\ x \in {None, page[p][1]}
    <2>1. \A e \in fts : e[1] = p => e[2] = page[p]
      BY DEF WikiInv, StoreInv, IndexesFollowPages
    <2>2. QED
      BY <2>1 DEF Found
  <1>4. QED
    BY <1>2, <1>3 DEF ReaderInv, Told

LEMMA FetchStep ==
    ASSUME WikiInv, ReaderInv, FetchLinks
    PROVE  ReaderInv'
  <1>1. PICK p \in reader.left :
          reader' = [reader EXCEPT !.left = @ \ {p}, !.links = @ \cup ReadLinks(p)]
    BY DEF FetchLinks
  <1>2. reader \in ReaderState /\ p \in Paths /\ page' = page
    BY DEF WikiInv, StoreInv, ReaderState, FetchLinks, tables
  <1>3. /\ reader'.query = reader.query /\ reader'.docs = reader.docs
        /\ reader'.left = reader.left \ {p} /\ reader'.changed = reader.changed
        /\ reader'.links = reader.links \cup {e \in links : e[1] = p}
    BY <1>1, <1>2 DEF ReaderState, ReadLinks
  <1>4. ASSUME NEW q \in Paths, q # p PROVE Told(q)' = Told(q)
    BY <1>3, <1>4 DEF Told
  <1>5. Told(p)' = {t \in Paths : <<p, t>> \in links}
    BY <1>2, <1>3 DEF Told, ReaderInv
  <1>6. p \notin reader.changed => Told(p)' = LinksOf(reader.docs[p])
    BY <1>2, <1>5, PagesHaveTheirLinks DEF ReaderInv
  <1>7. QED
    BY <1>2, <1>3, <1>4, <1>6 DEF ReaderInv

LEMMA CommitLeavesReader ==
    ASSUME WikiInv, ReaderInv, NEW who, Commit(who), before' = before
    PROVE  ReaderInv'
  <1>1. tx.path \in Paths /\ page' = [page EXCEPT ![tx.path] = tx.doc]
    BY CommitStep DEF WikiInv
  <1>2. reader \in ReaderState /\ page \in [Paths -> Documents \cup {Gone}]
    BY DEF WikiInv, StoreInv, Tables
  <1>3. /\ reader'.query = reader.query /\ reader'.docs = reader.docs
        /\ reader'.left = reader.left /\ reader'.links = reader.links
        /\ reader'.changed = reader.changed \cup ({tx.path} \cap reader.left)
    BY <1>2 DEF Commit, ReaderState
  <1>4. \A q \in Paths : q # tx.path => page'[q] = page[q]
    BY <1>1, <1>2
  <1>5. \A q \in Paths : Told(q)' = Told(q)
    BY <1>3 DEF Told
  <1>6. QED
    BY <1>3, <1>4, <1>5 DEF ReaderInv

LEMMA ReaderStep == WikiInv /\ ReaderInv /\ [Next]_vars => ReaderInv'
  <1> SUFFICES ASSUME WikiInv, ReaderInv, [Next]_vars PROVE ReaderInv'
    OBVIOUS
  <1>1. ASSUME UNCHANGED <<page, reader>> PROVE ReaderInv'
    BY <1>1 DEF ReaderInv, Told
  <1>2. ASSUME NEW c \in Clients, CommitWrite(c) PROVE ReaderInv'
    BY <1>2, CommitLeavesReader DEF CommitWrite
  <1>3. CASE CommitScanned \/ CommitPurge
    BY <1>3, CommitLeavesReader DEF CommitScanned, CommitPurge
  <1>4. ASSUME NEW c \in Clients,
               \/ WriteFile(c) \/ LookUp(c) \/ OpenWrite(c)
               \/ PublishEvent(c) \/ LookUpDeleted(c) \/ Unlink(c) \/ Abandon(c)
        PROVE  ReaderInv'
    BY <1>1, <1>4 DEF WriteFile, LookUp, OpenWrite, PublishEvent, LookUpDeleted, Unlink,
       Abandon, Rollback, store, tables
  <1>5. CASE \/ UNCHANGED vars \/ Edit \/ Statement \/ Begin \/ Scan \/ ReadFile
             \/ OpenScanned \/ List \/ OpenPurge \/ SyncFails \/ EndSync
    BY <1>1, <1>5 DEF vars, Edit, Statement, Begin, Scan, ReadFile, OpenScanned, List,
       OpenPurge, SyncFails, EndSync, Rollback, store, tables
  <1>6. QED
    BY <1>2, <1>3, <1>4, <1>5, SearchStep, FetchStep DEF Next

\* Whoever reads a page, searches or draws the graph is told of each page what is
\* of one text, unless it was written while they were reading, for any number of
\* pages and writers. (wiki_store.rs:89-204)
THEOREM ReadersAreRightlyTold == Spec => []ReadersAreTold
  <1>1. Init => ReaderInv
    BY DEF Init, ReaderInv, NoReader
  <1>2. WikiInv /\ ReaderInv => ReadersAreTold
    <2>1. SUFFICES ASSUME WikiInv, ReaderInv PROVE ReadersAreTold
      OBVIOUS
    <2>2. \A p \in Paths : page[p] # Gone => GetPage(p).links = LinksOf(GetPage(p).doc)
      <3>1. SUFFICES ASSUME NEW p \in Paths, page[p] # Gone
                     PROVE  GetPage(p).links = LinksOf(GetPage(p).doc)
        OBVIOUS
      <3>2. {t \in Paths : <<p, t>> \in links} = LinksOf(page[p])
        BY <2>1, <3>1, PagesHaveTheirLinks
      <3>3. QED
        BY <3>2 DEF GetPage
    <2>3. \A p \in Paths : reader.docs[p] # Gone =>
            /\ reader.query \in {None, reader.docs[p][1]}
            /\ p \notin reader.left \cup reader.changed =>
                 {t \in Paths : <<p, t>> \in reader.links} = LinksOf(reader.docs[p])
      BY <2>1 DEF ReaderInv, Told
    <2>4. QED
      BY <2>2, <2>3 DEF ReadersAreTold
  <1>3. QED
    BY <1>1, <1>2, InitWiki, WikiStep, ReaderStep, PTL DEF Spec

\* Search index and link graph tell of exactly the pages there are, and readers of
\* one text of each page they read undisturbed, for any number of writers, deletions,
\* readers and syncs, between whichever of its statements each of them fails or
\* stops. (wiki_store.rs:6-204)
THEOREM TablesAgree == Spec => []IndexInv
  <1>1. WikiInv => TypeOK
    BY DEF WikiInv, DiskInv, StoreInv, Tables, HandlersInv, SyncHands, TypeOK
  <1>2. WikiInv /\ ReadersAreTold => IndexInv
    BY <1>1 DEF WikiInv, StoreInv, IndexInv
  <1>3. QED
    BY <1>2, InitWiki, WikiStep, ReadersAreRightlyTold, PTL DEF Spec

-----------------------------------------------------------------------------
(* The sync. While nothing disturbs it, its own steps alone change pages,  *)
(* and it is known at each of them which pages it has dealt with.          *)

\* A markdown file that is there, and what its page is to be.
Present(p) == p \in Markdown /\ file[p] # Gone
Due(p) == IF Parses(file[p]) THEN file[p] ELSE before[p]

\* During the walk: the file it is at is seen and not dealt with; every other
\* file seen is its page, and what was not reached is as it was.
AtHand(p) == sync.pc \in {"read", "save"} /\ p = sync.path
WalkInv ==
  /\ sync.scanned = {p \in Paths \ sync.todo : Present(p)}
  /\ sync.pc \in {"read", "save"} => sync.path \in sync.scanned
  /\ sync.pc = "save" => sync.read = file[sync.path] /\ Parses(sync.read)
  /\ \A p \in Paths :
       page[p] = IF p \in sync.scanned /\ ~AtHand(p) THEN Due(p) ELSE before[p]

\* After it: what is there is its page, any other page is to be purged.
PurgeInv ==
  /\ \A p \in Paths : IF Present(p) THEN p \notin sync.todo /\ page[p] = Due(p)
                                    ELSE page[p] = Gone \/ p \in sync.todo
  /\ sync.pc = "done" => sync.todo = {}

SyncInv ==
  ~disturbed => /\ sync.pc \in {"scan", "read", "save"} => WalkInv
                /\ sync.pc \in {"purge", "done"} => PurgeInv

\* A step that leaves files, pages and the sync alone.
LEMMA OthersLeaveTheSync ==
    ASSUME SyncInv, disturbed' = TRUE \/ UNCHANGED <<file, page, sync, disturbed, before>>
    PROVE  SyncInv'
  <1>1. CASE disturbed' = TRUE
    BY <1>1 DEF SyncInv
  <1>2. CASE UNCHANGED <<file, page, sync, disturbed, before>>
    BY <1>2 DEF SyncInv, WalkInv, PurgeInv, Present, Due, AtHand
  <1>3. QED
    BY <1>1, <1>2

\* The next entry of a directory.
LEMMA ScanStep == WikiInv /\ SyncInv /\ Scan => SyncInv'
  <1>0. Scan => disturbed' = disturbed
    BY DEF Scan
  <1> SUFFICES ASSUME WikiInv, SyncInv, Scan, ~disturbed PROVE SyncInv'
    BY <1>0 DEF SyncInv
  <1> USE DEF Scan
  <1>1. sync \in SyncState /\ WalkInv /\ UNCHANGED <<file, page, disturbed, before>>
    BY DEF WikiInv, SyncHands, SyncInv, store, tables
  <1>2. PICK p \in sync.todo :
          sync' = IF file[p] # Gone /\ p \in Markdown
                  THEN [sync EXCEPT !.todo = @ \ {p}, !.scanned = @ \cup {p},
                                    !.pc = "read", !.path = p]
                  ELSE [sync EXCEPT !.todo = @ \ {p}]
    OBVIOUS
  <1>3. p \in Paths /\ p \notin sync.scanned
    BY <1>1 DEF SyncState, WalkInv
  <1>4. CASE Present(p)
    <2>1. /\ sync'.pc = "read" /\ sync'.path = p
          /\ sync'.todo = sync.todo \ {p} /\ sync'.scanned = sync.scanned \cup {p}
      BY <1>1, <1>2, <1>4 DEF Present, SyncState
    <2>2. sync'.scanned = {q \in Paths \ sync'.todo : Present(q)'}
      BY <1>1, <1>3, <1>4, <2>1 DEF WalkInv, Present
    <2>3. \A q \in Paths :
            page'[q] = IF q \in sync'.scanned /\ ~AtHand(q)' THEN Due(q)' ELSE before'[q]
      BY <1>1, <1>3, <2>1 DEF WalkInv, AtHand, Due
    <2>4. QED
      BY <2>1, <2>2, <2>3 DEF SyncInv, WalkInv
  <1>5. CASE ~Present(p)
    <2>1. /\ sync'.pc = "scan"
          /\ sync'.todo = sync.todo \ {p} /\ sync'.scanned = sync.scanned
      BY <1>1, <1>2, <1>5 DEF Present, SyncState
    <2>2. sync'.scanned = {q \in Paths \ sync'.todo : Present(q)'}
      BY <1>1, <1>3, <1>5, <2>1 DEF WalkInv, Present
    <2>3. \A q \in Paths :
            page'[q] = IF q \in sync'.scanned /\ ~AtHand(q)' THEN Due(q)' ELSE before'[q]
      BY <1>1, <2>1 DEF WalkInv, AtHand, Due
    <2>4. QED
      BY <2>1, <2>2, <2>3 DEF SyncInv, WalkInv
  <1>6. QED
    BY <1>4, <1>5

\* The file is read: one that does not parse is passed over.
LEMMA ReadStep == WikiInv /\ SyncInv /\ ReadFile => SyncInv'
  <1> SUFFICES ASSUME WikiInv, SyncInv, ReadFile, ~disturbed PROVE SyncInv'
    BY DEF SyncInv, ReadFile
  <1> USE DEF ReadFile
  <1>1. sync \in SyncState /\ WalkInv /\ UNCHANGED <<file, page, disturbed, before>>
    BY DEF WikiInv, SyncHands, SyncInv, store, tables
  <1>2. /\ sync'.pc = IF Parses(file[sync.path]) THEN "save" ELSE "scan"
        /\ sync'.read = file[sync.path] /\ sync'.path = sync.path
        /\ sync'.todo = sync.todo /\ sync'.scanned = sync.scanned
    BY <1>1 DEF SyncState
  <1>3. sync'.scanned = {q \in Paths \ sync'.todo : Present(q)'}
    BY <1>1, <1>2 DEF WalkInv, Present
  <1>4. \A q \in Paths :
          page'[q] = IF q \in sync'.scanned /\ ~AtHand(q)' THEN Due(q)' ELSE before'[q]
    <2>1. ~Parses(file[sync.path]) => Due(sync.path) = before[sync.path]
      BY DEF Due
    <2>2. QED
      BY <1>1, <1>2, <2>1 DEF WalkInv, AtHand, Due
  <1>5. sync'.pc = "save" => sync'.read = file'[sync'.path] /\ Parses(sync'.read)
    BY <1>1, <1>2
  <1>6. sync'.pc \in {"read", "save"} => sync'.path \in sync'.scanned
    BY <1>1, <1>2 DEF WalkInv
  <1>7. QED
    BY <1>2, <1>3, <1>4, <1>5, <1>6 DEF SyncInv, WalkInv, Parses

\* The page is saved as it was read.
LEMMA SaveStep == WikiInv /\ SyncInv /\ CommitScanned => SyncInv'
  <1> SUFFICES ASSUME WikiInv, SyncInv, CommitScanned, ~disturbed PROVE SyncInv'
    BY DEF SyncInv, CommitScanned
  <1> USE DEF CommitScanned
  <1>1. sync \in SyncState /\ WalkInv /\ UNCHANGED <<file, disturbed, before>>
    BY DEF WikiInv, SyncHands, SyncInv
  <1>2. /\ sync'.pc = "scan" /\ sync'.path = sync.path
        /\ sync'.todo = sync.todo /\ sync'.scanned = sync.scanned
    BY <1>1 DEF SyncState
  <1>3. sync.path \in sync.scanned /\ sync.read = Due(sync.path)
    BY <1>1 DEF WalkInv, Due
  <1>4. \A q \in Paths : page'[q] = IF q = sync.path THEN sync.read ELSE page[q]
    <2>1. tx.by = "sync" /\ sync.pc = "save" /\ Commit("sync") /\ before' = before
      BY DEF Commit
    <2>2. /\ tx.path \in Paths /\ page' = [page EXCEPT ![tx.path] = tx.doc]
          /\ page \in [Paths -> Documents \cup {Gone}]
      BY <2>1, CommitStep DEF WikiInv, StoreInv, Tables
    <2>3. tx.path = sync.path /\ tx.doc = sync.read
      BY <2>1 DEF WikiInv, SyncTx
    <2>4. QED
      BY <2>2, <2>3
  <1>5. sync'.scanned = {q \in Paths \ sync'.todo : Present(q)'}
    BY <1>1, <1>2 DEF WalkInv, Present
  <1>6. \A q \in Paths :
          page'[q] = IF q \in sync'.scanned /\ ~AtHand(q)' THEN Due(q)' ELSE before'[q]
    BY <1>1, <1>2, <1>3, <1>4 DEF WalkInv, AtHand, Due
  <1>7. QED
    BY <1>2, <1>5, <1>6 DEF SyncInv, WalkInv

\* The walk is over: every file there was seen, so what was not is to be purged.
LEMMA ListStep == WikiInv /\ SyncInv /\ List => SyncInv'
  <1> SUFFICES ASSUME WikiInv, SyncInv, List, ~disturbed PROVE SyncInv'
    BY DEF SyncInv, List
  <1> USE DEF List
  <1>1. sync \in SyncState /\ WalkInv /\ UNCHANGED <<file, page, disturbed, before>>
    BY DEF WikiInv, SyncHands, SyncInv, store, tables
  <1>2. /\ sync'.pc = "purge"
        /\ sync'.todo = {p \in Paths : page[p] # Gone} \ sync.scanned
    BY <1>1 DEF SyncState
  <1>3. \A p \in Paths : Present(p) <=> p \in sync.scanned
    BY <1>1 DEF WalkInv
  <1>4. \A p \in Paths : p \in sync.scanned => page[p] = Due(p)
    BY <1>1 DEF WalkInv, AtHand
  <1>5. \A p \in Paths : Present(p)' = Present(p) /\ Due(p)' = Due(p)
    BY <1>1 DEF Present, Due
  <1>6. PurgeInv'
    BY <1>1, <1>2, <1>3, <1>4, <1>5 DEF PurgeInv
  <1>7. QED
    BY <1>2, <1>6 DEF SyncInv

\* A page without its file is deleted.
LEMMA PurgeStep == WikiInv /\ SyncInv /\ CommitPurge => SyncInv'
  <1>0. CommitPurge => disturbed' = disturbed
    BY DEF CommitPurge
  <1> SUFFICES ASSUME WikiInv, SyncInv, CommitPurge, ~disturbed PROVE SyncInv'
    BY <1>0 DEF SyncInv
  <1> USE DEF CommitPurge
  <1>1. sync \in SyncState /\ PurgeInv /\ UNCHANGED <<file, disturbed, before>>
    BY DEF WikiInv, SyncHands, SyncInv
  <1>2. tx.by = "sync" /\ tx.path \in sync.todo /\ tx.doc = Gone
    BY DEF Commit, WikiInv, SyncTx
  <1>3. sync'.pc = "purge" /\ sync'.todo = sync.todo \ {tx.path}
    BY <1>1 DEF SyncState
  <1>4. \A q \in Paths : page'[q] = IF q = tx.path THEN Gone ELSE page[q]
    <2>1. /\ page' = [page EXCEPT ![tx.path] = tx.doc]
          /\ page \in [Paths -> Documents \cup {Gone}]
      BY CommitStep DEF WikiInv, StoreInv, Tables
    <2>2. QED
      BY <1>2, <2>1
  <1>5. \A q \in Paths : Present(q)' = Present(q) /\ Due(q)' = Due(q)
    BY <1>1 DEF Present, Due
  <1>6. PurgeInv'
    <2>1. \A q \in Paths : IF Present(q) THEN q \notin sync.todo /\ page[q] = Due(q)
                                         ELSE page[q] = Gone \/ q \in sync.todo
      BY <1>1 DEF PurgeInv
    <2>2. \A q \in Paths : IF Present(q) THEN q \notin sync'.todo /\ page'[q] = Due(q)
                                         ELSE page'[q] = Gone \/ q \in sync'.todo
      BY <1>2, <1>3, <1>4, <2>1
    <2>3. QED
      BY <1>3, <1>5, <2>2 DEF PurgeInv
  <1>7. QED
    BY <1>3, <1>6 DEF SyncInv

LEMMA SyncStep == WikiInv /\ SyncInv /\ [Next]_vars => SyncInv'
  <1> SUFFICES ASSUME WikiInv, SyncInv, [Next]_vars PROVE SyncInv'
    OBVIOUS
  <1>1. ASSUME NEW c \in Clients,
               \/ WriteFile(c) \/ LookUp(c) \/ OpenWrite(c) \/ CommitWrite(c)
               \/ PublishEvent(c) \/ LookUpDeleted(c) \/ Unlink(c) \/ Abandon(c)
        PROVE  SyncInv'
    BY <1>1, OthersLeaveTheSync DEF WriteFile, LookUp, OpenWrite, CommitWrite, PublishEvent,
       LookUpDeleted, Unlink, Abandon, Rollback, Disturb, store, tables
  <1>2. CASE \/ Edit \/ Statement \/ Search \/ FetchLinks \/ OpenScanned \/ OpenPurge
             \/ SyncFails \/ UNCHANGED vars
    BY <1>2, OthersLeaveTheSync DEF Edit, Statement, Search, FetchLinks, OpenScanned,
       OpenPurge, SyncFails, Disturb, vars, store, tables
  <1>3. CASE Begin
    <2>1. /\ sync'.pc = "scan" /\ sync'.todo = Paths /\ sync'.scanned = {}
          /\ page' = page /\ before' = page
      BY <1>3 DEF Begin, NoSync, store, tables
    <2>2. QED
      BY <2>1 DEF SyncInv, WalkInv
  <1>4. CASE EndSync
    <2>1. /\ sync'.pc = "done" /\ sync'.todo = sync.todo /\ sync.todo = {}
          /\ sync.pc = "purge" /\ UNCHANGED <<file, page, disturbed, before>>
      BY <1>4 DEF EndSync, WikiInv, SyncHands, SyncState, store, tables
    <2>2. QED
      BY <2>1 DEF SyncInv, PurgeInv, Present, Due
  <1>5. QED
    BY <1>1, <1>2, <1>3, <1>4, ScanStep, ReadStep, SaveStep, ListStep, PurgeStep DEF Next

\* A sync that nothing disturbed leaves the pages as the files say, for any
\* number of paths and syncs, whatever went before it. (wiki_sync.rs:43-111)
THEOREM SyncBringsPagesInLine == Spec => []SyncConverges
  <1>1. Init => SyncInv
    BY DEF Init, SyncInv
  <1>2. SyncInv => SyncConverges
    BY DEF SyncInv, PurgeInv, Present, Due, SyncConverges
  <1>3. QED
    BY <1>1, <1>2, InitWiki, WikiStep, SyncStep, PTL DEF Spec
=============================================================================
