---- MODULE Wiki ----
(* A wiki: markdown files in a directory, the pages of it in the database     *)
(* with their text index and links, the handlers that write and delete both   *)
(* (handlers/wiki.rs), and the sync that brings the database in line with the *)
(* directory (wiki_sync.rs) after people have edited the files themselves.    *)
(* A document is a model value with the number of blank lines before its      *)
(* body: serialize_okf puts one there and parse_okf_string keeps it.          *)
EXTENDS Naturals, FiniteSets

CONSTANTS Paths, Markdown,   \* page paths, and those that end in .md
          Texts, Valid,      \* texts of a file, and those that are OKF
          Targets,           \* text -> the paths it links to
          Clients,
          MaxSyncs, MaxOps   \* bounds on syncs and on operations, searches and edits

None == "none"

ASSUME WikiAssumption ==
  /\ Markdown \subseteq Paths /\ Valid \subseteq Texts
  /\ Targets \in [Texts -> SUBSET Paths]
  /\ None \notin Texts \cup Clients /\ "sync" \notin Clients

Gone == <<None, 0>>         \* no file, no page
Files == Texts \X (0..2)    \* a payload has no blank line, and is serialised twice
Documents == Valid \X (0..2)

(* okf.rs: parsing keeps the text, or refuses it; links to .md are read off it.*)
Serialize(d) == <<d[1], d[2] + 1>>
Parses(f) == f \in Documents
LinksOf(d) == Targets[d[1]] \cap Markdown

VARIABLES
  file,      \* path -> what is on disk, or Gone
  page,      \* table wiki_pages: path -> document, or Gone
  fts,       \* table wiki_pages_fts: <<path, document>>
  links,     \* table wiki_links: <<source, target>>
  tx,        \* the transaction being written: whose, what it is about and has done
  reader,    \* a search or graph being read, or the last one read
  client,    \* a handler: where it stands, its path, document and event
  sync,      \* the sync: where it stands, what it has left, scanned and read
  syncs, ops,
  disturbed, \* history: a file or page changed, or a call failed, since the sync began
  before     \* history: the pages when the sync began

tables == <<page, fts, links>>
store == <<tables, tx, reader>>
vars == <<file, store, client, sync, syncs, ops, disturbed, before>>

NoTables == [page |-> [p \in Paths |-> Gone], fts |-> {}, links |-> {}]
NoTx == [by |-> None, path |-> None, doc |-> Gone, at |-> None, new |-> NoTables]
NoReader == [query |-> None, docs |-> [p \in Paths |-> Gone], left |-> {}, links |-> {},
             changed |-> {}]
NoSync == [pc |-> "idle", todo |-> {}, scanned |-> {}, path |-> None, read |-> Gone]
Idle == [pc |-> "idle", path |-> None, doc |-> Gone, event |-> None]

Init ==
  /\ file \in [Paths -> (Texts \X {0}) \cup {Gone}]
  /\ page = [p \in Paths |-> Gone] /\ fts = {} /\ links = {}
  /\ tx = NoTx /\ reader = NoReader
  /\ client = [c \in Clients |-> Idle] /\ sync = NoSync
  /\ syncs = 0 /\ ops = 0 /\ disturbed = TRUE
  /\ before = page

----
(* wiki_store.rs. Saving and deleting a page are each one transaction, written *)
(* statement by statement: one at a time, on a copy nobody else reads. What   *)
(* it leaves out of a page that is deleted are the insertions.                *)

Open(who, p, d) ==
  /\ tx = NoTx
  /\ tx' = [by |-> who, path |-> p, doc |-> d, at |-> "unindex",
            new |-> [page |-> [page EXCEPT ![p] = d], fts |-> fts, links |-> links]]

Becomes(f, l, next) ==
  tx' = [tx EXCEPT !.at = next, !.new = [page |-> tx.new.page, fts |-> f, links |-> l]]
Statement ==
  LET new == tx.new
      p == tx.path
  IN  /\ \/ tx.at = "unindex" /\ Becomes({e \in new.fts : e[1] # p}, new.links,
                                         IF tx.doc = Gone THEN "unlink" ELSE "index")
         \/ tx.at = "index" /\ Becomes(new.fts \cup {<<p, tx.doc>>}, new.links, "unlink")
         \/ tx.at = "unlink" /\ Becomes(new.fts, {e \in new.links : e[1] # p},
                                        IF tx.doc = Gone THEN "commit" ELSE "link")
         \/ /\ tx.at = "link"
            /\ Becomes(new.fts, new.links \cup {<<p, t>> : t \in LinksOf(tx.doc)}, "commit")
      /\ UNCHANGED <<file, tables, reader, client, sync, syncs, ops, disturbed, before>>

Commit(who) ==
  /\ tx.by = who /\ tx.at = "commit" /\ tx' = NoTx
  /\ page' = tx.new.page /\ fts' = tx.new.fts /\ links' = tx.new.links
  /\ reader' = [reader EXCEPT !.changed = @ \cup ({tx.path} \cap reader.left)]

\* A transaction dropped before its commit, by an error or with the daemon.
RollbackKeeps(who) ==
  IF tx.by # who THEN UNCHANGED store
  ELSE page' = tx.new.page /\ fts' = tx.new.fts /\ links' = tx.new.links
       /\ tx' = NoTx /\ UNCHANGED reader
Rollback(who) ==
  /\ UNCHANGED <<tables, reader>>
  /\ tx' = IF tx.by = who THEN NoTx ELSE tx

Count == ops < MaxOps /\ ops' = ops + 1

\* get_wiki_page reads the links while its statement on the page is open: one
\* state of the database.
GetPage(p) == [doc |-> page[p], links |-> {t \in Paths : <<p, t>> \in links}]

\* search_wiki: the pages in one statement, by their indexed text or all of them
\* (list_wiki_pages, the graph); then the links of each in one of its own.
Found(x) == {p \in Paths : page[p] # Gone /\ (x = None \/ \E e \in fts : e[1] = p /\ e[2][1] = x)}
Search ==
  /\ reader.left = {} /\ Count
  /\ \E x \in Texts \cup {None} :
       reader' = [NoReader EXCEPT !.query = x, !.left = Found(x),
                    !.docs = [p \in Paths |-> IF p \in Found(x) THEN page[p] ELSE Gone]]
  /\ UNCHANGED <<file, tables, tx, client, sync, syncs, disturbed, before>>

ReadAllLinks(p) == {<<p, e[2]>> : e \in links}
ReadLinks(p) == {e \in links : e[1] = p}
FetchLinks ==
  /\ \E p \in reader.left :
       reader' = [reader EXCEPT !.left = @ \ {p}, !.links = @ \cup ReadLinks(p)]
  /\ UNCHANGED <<file, tables, tx, client, sync, syncs, ops, disturbed, before>>

Disturb == disturbed' = TRUE

(* write_page: the file, then whether the page exists, then the page, then    *)
(* the event. A path or wiki that is refused changes nothing.                 *)

Enter(c, pc, p, d, e) ==
  client' = [client EXCEPT ![c] = [pc |-> pc, path |-> p, doc |-> d, event |-> e]]
Step(c, from, to) == /\ client[c].pc = from
                     /\ client' = [client EXCEPT ![c] = IF to = "idle" THEN Idle
                                                        ELSE [@ EXCEPT !.pc = to]]

\* The payload is serialised and parsed, and the document serialised again.
WriteFile(c) ==
  /\ client[c].pc = "idle" /\ Count
  /\ \E p \in Paths, x \in Valid :
       LET doc == Serialize(<<x, 0>>)
       IN  file' = [file EXCEPT ![p] = Serialize(doc)] /\ Enter(c, "look up", p, doc, None)
  /\ Disturb /\ UNCHANGED <<store, sync, syncs, before>>

LookUp(c) ==
  /\ client[c].pc = "look up"
  /\ LET p == client[c].path
     IN  Enter(c, "save", p, client[c].doc, IF page[p] = Gone THEN "created" ELSE "updated")
  /\ UNCHANGED <<file, store, sync, syncs, ops, disturbed, before>>

\* The page is saved, or deleted, by a transaction of its own.
OpenWrite(c) ==
  /\ client[c].pc \in {"save", "delete"} /\ Open(c, client[c].path, client[c].doc)
  /\ UNCHANGED <<file, tables, reader, client, sync, syncs, ops, disturbed, before>>

CommitWrite(c) ==
  /\ \/ Step(c, "save", "publish")
     \/ Step(c, "delete", "publish")
  /\ Commit(c) /\ Disturb /\ UNCHANGED <<file, sync, syncs, ops, before>>

\* handle_publish(_wiki.<wiki>.page.<event>): MessagePipeline and Publish have it.
PublishEvent(c) ==
  /\ Step(c, "publish", "idle")
  /\ UNCHANGED <<file, store, sync, syncs, ops, disturbed, before>>

(* delete_page: only a page that is in the database; the file, then the page. *)

LookUpDeleted(c) ==
  /\ client[c].pc = "idle" /\ Count
  /\ \E p \in Paths : page[p] # Gone /\ Enter(c, "unlink", p, Gone, "deleted")
  /\ UNCHANGED <<file, store, sync, syncs, disturbed, before>>

Unlink(c) ==
  /\ Step(c, "unlink", "delete") /\ file' = [file EXCEPT ![client[c].path] = Gone]
  /\ Disturb /\ UNCHANGED <<store, sync, syncs, ops, before>>

\* A handler fails, or the daemon stops, between two of its steps.
Abandon(c) ==
  /\ client[c].pc # "idle" /\ client' = [client EXCEPT ![c] = Idle] /\ Rollback(c)
  /\ UNCHANGED <<file, sync, syncs, ops, disturbed, before>>

\* Somebody edits, adds or removes a file.
Edit ==
  /\ Count
  /\ \E p \in Paths, x \in (Texts \X {0}) \cup {Gone} :
       file[p] # x /\ file' = [file EXCEPT ![p] = x]
  /\ Disturb /\ UNCHANGED <<store, client, sync, syncs, before>>

----
(* sync_wiki: visit_dirs over the files, then the pages that were not seen.   *)

Begin ==
  /\ sync.pc \in {"idle", "done"} /\ syncs < MaxSyncs /\ syncs' = syncs + 1
  /\ sync' = [NoSync EXCEPT !.pc = "scan", !.todo = Paths]
  /\ disturbed' = FALSE /\ before' = page
  /\ UNCHANGED <<file, store, client, ops>>

\* The next directory entry: a markdown file counts as seen before it is read.
Scan ==
  /\ sync.pc = "scan"
  /\ \E p \in sync.todo :
       sync' = IF file[p] # Gone /\ p \in Markdown
               THEN [sync EXCEPT !.todo = @ \ {p}, !.scanned = @ \cup {p},
                                 !.pc = "read", !.path = p]
               ELSE [sync EXCEPT !.todo = @ \ {p}]
  /\ UNCHANGED <<file, store, client, syncs, ops, disturbed, before>>

ReadThenCount ==
  /\ sync.pc = "read"
  /\ sync' = IF Parses(file[sync.path])
             THEN [sync EXCEPT !.read = file[sync.path], !.pc = "save"]
             ELSE [sync EXCEPT !.scanned = @ \ {sync.path}, !.pc = "scan"]
  /\ UNCHANGED <<file, store, client, syncs, ops, disturbed, before>>
ReadFile ==
  /\ sync.pc = "read"
  /\ sync' = [sync EXCEPT !.read = file[sync.path],
                          !.pc = IF Parses(file[sync.path]) THEN "save" ELSE "scan"]
  /\ UNCHANGED <<file, store, client, syncs, ops, disturbed, before>>

OpenScanned ==
  /\ sync.pc = "save" /\ Open("sync", sync.path, sync.read)
  /\ UNCHANGED <<file, tables, reader, client, sync, syncs, ops, disturbed, before>>

CommitScanned ==
  /\ sync.pc = "save" /\ Commit("sync") /\ sync' = [sync EXCEPT !.pc = "scan"]
  /\ UNCHANGED <<file, client, syncs, ops, disturbed, before>>

\* The pages are listed once; those not scanned are deleted one by one.
List ==
  /\ sync.pc = "scan" /\ sync.todo = {}
  /\ sync' = [sync EXCEPT !.pc = "purge",
                          !.todo = {p \in Paths : page[p] # Gone} \ sync.scanned]
  /\ UNCHANGED <<file, store, client, syncs, ops, disturbed, before>>

OpenPurge ==
  /\ sync.pc = "purge" /\ \E p \in sync.todo : Open("sync", p, Gone)
  /\ UNCHANGED <<file, tables, reader, client, sync, syncs, ops, disturbed, before>>

CommitPurge ==
  /\ sync.pc = "purge" /\ Commit("sync") /\ sync' = [sync EXCEPT !.todo = @ \ {tx.path}]
  /\ UNCHANGED <<file, client, syncs, ops, disturbed, before>>

\* A failing call, or the daemon stops: the sync is given up, a page is passed
\* over (the error is logged), or some or all of what is to be purged is not.
SyncFails ==
  /\ \/ sync.pc \in {"scan", "read", "save", "purge"} /\ sync' = NoSync
     \/ sync.pc = "save" /\ sync' = [sync EXCEPT !.pc = "scan"]
     \/ sync.pc = "purge" /\ \E rest \in SUBSET sync.todo : sync' = [sync EXCEPT !.todo = rest]
  /\ Rollback("sync") /\ disturbed' = TRUE
  /\ UNCHANGED <<file, client, syncs, ops, before>>

EndSync ==
  /\ sync.pc = "purge" /\ sync.todo = {} /\ tx.by # "sync" /\ sync' = [sync EXCEPT !.pc = "done"]
  /\ UNCHANGED <<file, store, client, syncs, ops, disturbed, before>>

Next == \/ \E c \in Clients : \/ WriteFile(c) \/ LookUp(c) \/ OpenWrite(c) \/ CommitWrite(c)
                              \/ PublishEvent(c) \/ LookUpDeleted(c) \/ Unlink(c) \/ Abandon(c)
        \/ Edit \/ Statement \/ Search \/ FetchLinks \/ Begin \/ Scan \/ ReadFile
        \/ OpenScanned \/ CommitScanned \/ List \/ OpenPurge \/ CommitPurge \/ SyncFails
        \/ EndSync

Spec == Init /\ [][Next]_vars

----
ClientState == [pc : {"idle", "look up", "save", "publish", "unlink", "delete"},
                path : Paths \cup {None}, doc : Documents \cup {Gone},
                event : {None, "created", "updated", "deleted"}]
SyncState == [pc : {"idle", "scan", "read", "save", "purge", "done"},
              todo : SUBSET Paths, scanned : SUBSET Markdown,
              path : Paths \cup {None}, read : Files \cup {Gone}]

TableState == [page : [Paths -> Documents \cup {Gone}], fts : SUBSET (Paths \X Documents),
               links : SUBSET (Paths \X Paths)]
TxState == [by : Clients \cup {"sync", None}, path : Paths \cup {None},
            doc : Documents \cup {Gone}, new : TableState,
            at : {"unindex", "index", "unlink", "link", "commit", None}]
ReaderState == [query : Texts \cup {None}, docs : [Paths -> Documents \cup {Gone}],
                left : SUBSET Paths, links : SUBSET (Paths \X Paths), changed : SUBSET Paths]

\* The wiki's state is of its types. (wiki_store.rs:6, wiki_sync.rs:33)
TypeOK ==
  /\ file \in [Paths -> Files \cup {Gone}]
  /\ page \in [Paths -> Documents \cup {Gone}]
  /\ fts \in SUBSET (Paths \X Documents) /\ links \in SUBSET (Paths \X Paths)
  /\ tx \in TxState /\ reader \in ReaderState
  /\ client \in [Clients -> ClientState] /\ sync \in SyncState
  /\ before \in [Paths -> Documents \cup {Gone}]

\* The search index and the link graph always tell of exactly the pages there
\* are, however the statements of writes, deletions and syncs interleave, fail
\* and stop half-way. (wiki_store.rs:6-87)
IndexesFollowPages ==
  /\ fts = {<<p, page[p]>> : p \in {q \in Paths : page[q] # Gone}}
  /\ links = {e \in Paths \X Paths : page[e[1]] # Gone /\ e[2] \in LinksOf(page[e[1]])}

\* What readers are told: a page has the links of its text; a search finds a
\* page by the text it returns; and, of every page it returns, the links of that
\* text, unless the page was saved or deleted after the search found it and
\* before its links were read. (wiki_store.rs:89-204, handlers/wiki.rs:322)
ReadersAreTold ==
  /\ \A p \in Paths : page[p] # Gone => GetPage(p).links = LinksOf(GetPage(p).doc)
  /\ \A p \in Paths : reader.docs[p] # Gone =>
       /\ reader.query \in {None, reader.docs[p][1]}
       /\ p \notin reader.left \cup reader.changed =>
            {t \in Paths : <<p, t>> \in reader.links} = LinksOf(reader.docs[p])

\* The types, the tables that go together, and what is read from them.
IndexInv == TypeOK /\ IndexesFollowPages /\ ReadersAreTold

\* A sync nothing disturbed leaves the pages as the files say: a markdown file
\* that parses is its page, one that does not keeps the page it had, and there
\* is no other page, whatever half-finished writes and deletions, edits and
\* failed syncs went before. (wiki_sync.rs:43-111)
SyncConverges ==
  sync.pc = "done" /\ ~disturbed =>
    \A p \in Paths : page[p] = IF file[p] = Gone \/ p \notin Markdown THEN Gone
                              ELSE IF Parses(file[p]) THEN file[p] ELSE before[p]

\* "Detect deleted files": a page the sync deletes is one whose file is gone.
\* The code deletes those it did not see. (wiki_sync.rs:98)
\* Not kept by the code: see README, "Statements that do not hold".
PurgedPagesAreDeletedFiles ==
  [][CommitPurge => \A p \in Paths : page[p] # Gone /\ page'[p] = Gone => file[p] = Gone]_vars

\* A search or a graph shows its pages as they were together at some moment.
\* Not kept by the code: see README, "Statements that do not hold".
SearchIsOneState ==
  \A p \in Paths : reader.docs[p] # Gone /\ p \notin reader.left =>
    {t \in Paths : <<p, t>> \in reader.links} = LinksOf(reader.docs[p])
====
