---------------------------- MODULE AccessProofs ----------------------------
(***************************************************************************)
(* Theorems about Access for any tokens and daemons, with or without       *)
(* authentication, any replay window and any number of faults.             *)
(***************************************************************************)
EXTENDS Access, TLAPS

USE AccessAssumption

-----------------------------------------------------------------------------
(* The inductive invariant.                                                *)

First == Bootstrapping \cup {"owner file"}
Minting == First \cup {"token", "key", "config"}

\* One daemon has the port, and the connectors run in one that is up.
PortInv ==
    /\ \A d, e \in Daemons : pc[d] \in Listening /\ pc[e] \in Listening => d = e
    /\ client # None => \E d \in Daemons : pc[d] = "up"
    /\ ~RequireAuth => \A d \in Daemons : pc[d] \notin {"retire", "token", "key", "config"}

\* A daemon that mints a token has one to itself, and the tables hold of it what
\* the statements executed so far have put there; so for a call.
OwnToken(d) ==
    /\ pc[d] \in Minting => fresh[d] \in Tokens
    /\ pc[d] \in {"owner token", "token"} => row[fresh[d]] = "none"
    /\ pc[d] \in {"owner key", "owner config", "owner file"} => principal[fresh[d]] = "owner"
    /\ pc[d] \in {"key", "config"} => principal[fresh[d]] = "connectors"
    /\ pc[d] \in {"owner config", "owner file", "config"} => fresh[d] \in keys

FreshDistinct == \A d, e \in Daemons : fresh[d] # None /\ fresh[d] = fresh[e] => d = e

CallInv ==
    call.st \in {"key", "reply"} => /\ call.new \in Tokens
                                    /\ principal[call.new] \in {"owner", "agent"}

MintInv == (\A d \in Daemons : OwnToken(d)) /\ FreshDistinct /\ CallInv

\* What is told or current is in the tables. Of the connectors' tokens that were
\* told, only the current one may be live, but for what slipped; and once its
\* revocation is through, only while it runs.
RotationInv ==
    /\ \A t \in told \cup ({connectors} \ {None}) : row[t] # "none"
    /\ \A t \in told : principal[t] = "connectors" =>
         row[t] = "revoked" \/ t \in slipped \/ t = connectors
    /\ \A d \in Daemons : pc[d] \in {"token", "key", "config", "up"} /\ connectors # None =>
         connectors = client \/ row[connectors] = "revoked" \/ connectors \in slipped
    /\ ~RequireAuth => connectors = None /\ \A t \in Tokens : principal[t] # "connectors"

\* The first start is one daemon's, unless something slipped: it finds no file,
\* and writes one at most.
OwnerInv ==
    /\ file # None => principal[file] = "owner" /\ file \in keys
    /\ "owner" \notin slipped =>
         /\ file # None => owner
         /\ \A d \in Daemons : /\ pc[d] \in Bootstrapping => ~owner /\ file = None
                               /\ pc[d] = "owner file" => owner /\ file = None
         /\ \A d, e \in Daemons : pc[d] \in First /\ pc[e] \in First => d = e

\* An envelope is accepted near its time stamp only.
ReplayInv == \A e \in Envelopes : \A t \in ran[e] : t - e.ts <= Window /\ e.ts - t <= Window

AccessInv == /\ TypeOK /\ PortInv /\ MintInv /\ RotationInv /\ OwnerInv /\ ReplayInv
             /\ ConnectorsRunCurrent

LEMMA InitAccess == Init => AccessInv
  <1> SUFFICES ASSUME Init PROVE AccessInv
    OBVIOUS
  <1>1. call \in Calls
    BY DEF Init, Idle, Calls
  <1>2. pc \in [Daemons -> Places] /\ \A d \in Daemons : pc[d] = "down"
    BY DEF Init, Places
  <1>3. /\ now \in 0 .. MaxTime /\ faults \in 0 .. MaxFaults
        /\ ran \in [Envelopes -> SUBSET (0 .. MaxTime)]
    BY DEF Init
  <1>4. TypeOK
    BY <1>1, <1>2, <1>3 DEF Init, TypeOK
  <1>5. PortInv
    BY <1>2 DEF Init, PortInv, Listening
  <1>6. MintInv
    BY <1>2 DEF Init, MintInv, OwnToken, FreshDistinct, CallInv, Minting, First, Bootstrapping, Idle
  <1>7. RotationInv
    BY <1>2 DEF Init, RotationInv, None
  <1>8. OwnerInv
    BY <1>2 DEF Init, OwnerInv, First, Bootstrapping
  <1>9. ReplayInv /\ ConnectorsRunCurrent
    BY DEF Init, ReplayInv, ConnectorsRunCurrent
  <1>10. QED
    BY <1>4, <1>5, <1>6, <1>7, <1>8, <1>9 DEF AccessInv

-----------------------------------------------------------------------------
(* The tables.                                                             *)

\* The two writers of the table of tokens: one fills an unused row, the other
\* revokes a used one.
LEMMA Inserted ==
    ASSUME TypeOK, NEW t \in Tokens, NEW p \in Principals, row[t] = "none", InsertToken(t, p)
    PROVE  /\ row' \in [Tokens -> {"none", "live", "revoked"}]
           /\ principal' \in [Tokens -> Principals \cup {None}]
           /\ \A u \in Tokens : row'[u] = "none" <=> principal'[u] = None
           /\ row'[t] = "live" /\ principal'[t] = p
           /\ \A u \in Tokens \ {t} : row'[u] = row[u] /\ principal'[u] = principal[u]
  BY DEF InsertToken, TypeOK, Principals, None

LEMMA Revoked ==
    ASSUME TypeOK, NEW t \in Tokens, RevokeToken(t)
    PROVE  /\ row' \in [Tokens -> {"none", "live", "revoked"}]
           /\ \A u \in Tokens : row'[u] = "none" <=> row[u] = "none"
           /\ \A u \in Tokens : row[u] = "revoked" => row'[u] = "revoked"
           /\ row[t] # "none" => row'[t] = "revoked"
  BY DEF RevokeToken, TypeOK

\* A fresh token is nobody else's and has no row.
LEMMA Minted ==
    ASSUME TypeOK, NEW t \in Unused
    PROVE  t \in Tokens /\ row[t] = "none" /\ \A d \in Daemons : fresh[d] # t
  BY DEF Unused, TypeOK, Range

\* What every step leaves of the tables: a token keeps its principal, and what
\* is revoked stays so, as do keys and what slipped.
TablesKept ==
    /\ row' \in [Tokens -> {"none", "live", "revoked"}]
    /\ principal' \in [Tokens -> Principals \cup {None}]
    /\ \A t \in Tokens : row'[t] = "none" <=> principal'[t] = None
    /\ \A t \in Tokens : row[t] # "none" => row'[t] # "none" /\ principal'[t] = principal[t]
    /\ \A t \in Tokens : row[t] = "revoked" => row'[t] = "revoked"
    /\ keys \subseteq keys' /\ slipped \subseteq slipped'

LEMMA TablesStep == AccessInv /\ [Next]_vars => TablesKept
  <1> SUFFICES ASSUME AccessInv, [Next]_vars PROVE TablesKept
    OBVIOUS
  <1> TypeOK
    BY DEF AccessInv
  <1>1. ASSUME UNCHANGED <<row, principal>>, keys \subseteq keys', slipped \subseteq slipped'
        PROVE  TablesKept
    BY <1>1 DEF TablesKept, TypeOK
  <1>2. ASSUME NEW t \in Tokens, NEW p \in Principals, row[t] = "none", InsertToken(t, p),
               UNCHANGED <<keys, slipped>>
        PROVE  TablesKept
    BY <1>2, Inserted DEF TablesKept, TypeOK
  <1>3. ASSUME NEW t \in Tokens, RevokeToken(t), UNCHANGED <<principal, keys, slipped>>
        PROVE  TablesKept
    BY <1>3, Revoked DEF TablesKept, TypeOK
  <1>4. CASE UNCHANGED vars
    BY <1>1, <1>4 DEF vars, tables
  <1>5. ASSUME NEW d \in Daemons,
               \/ SpawnDaemon(d) \/ Boot(d) \/ BootAfterFailedRead(d) \/ RegisterOwnerKey(d)
               \/ SetOwner(d) \/ WriteOwnerFile(d) \/ BootstrapFails(d) \/ Bind(d)
               \/ RegisterConnectorsKey(d) \/ SetConnectors(d) \/ MintingFails(d)
               \/ Crash(d) \/ Shutdown(d)
        PROVE  TablesKept
    <2>1. UNCHANGED <<row, principal>>
      BY <1>5 DEF SpawnDaemon, Boot, BootAfterFailedRead, RegisterOwnerKey, SetOwner,
                  WriteOwnerFile, BootstrapFails, Bind, RegisterConnectorsKey, SetConnectors,
                  MintingFails, Crash, Shutdown, tables
    <2>2. keys \subseteq keys'
      BY <1>5 DEF SpawnDaemon, Boot, BootAfterFailedRead, RegisterOwnerKey, SetOwner,
                  WriteOwnerFile, BootstrapFails, Bind, RegisterConnectorsKey, SetConnectors,
                  MintingFails, Crash, Shutdown, tables, RegisterKey
    <2>3. slipped \subseteq slipped'
      BY <1>5 DEF SpawnDaemon, Boot, BootAfterFailedRead, RegisterOwnerKey, SetOwner,
                  WriteOwnerFile, BootstrapFails, Bind, RegisterConnectorsKey, SetConnectors,
                  MintingFails, Crash, Shutdown, tables
    <2>4. QED
      BY <1>1, <2>1, <2>2, <2>3
  <1>6. ASSUME NEW d \in Daemons, InsertOwnerToken(d) \/ InsertConnectorsToken(d)
        PROVE  TablesKept
    <2>1. fresh[d] \in Tokens /\ row[fresh[d]] = "none"
      BY <1>6 DEF AccessInv, MintInv, OwnToken, Minting, First, Bootstrapping, InsertOwnerToken,
                  InsertConnectorsToken
    <2>2. QED
      BY <1>2, <1>6, <2>1 DEF InsertOwnerToken, InsertConnectorsToken, Principals
  <1>7. ASSUME NEW d \in Daemons, Retire(d) PROVE TablesKept
    <2>1. connectors \in Tokens \cup {None}
      BY DEF TypeOK
    <2>2. CASE UNCHANGED row
      BY <1>1, <1>7, <2>2 DEF Retire
    <2>3. CASE connectors # None /\ RevokeToken(connectors) /\ UNCHANGED slipped
      BY <1>3, <1>7, <2>1, <2>3 DEF Retire
    <2>4. QED
      BY <1>7, <2>2, <2>3 DEF Retire, RetireConnectors
  <1>8. CASE CreateToken
    BY <1>2, <1>8, Minted DEF CreateToken, Principals
  <1>9. CASE RevokeCall
    BY <1>3, <1>9 DEF RevokeCall
  <1>10. CASE \/ ForceKill \/ (\E t \in Tokens \cup {None} : Middleware(t)) \/ KeyOfCreated
              \/ ReplyCreated \/ OtherCall \/ (\E e \in Envelopes : Seal(e) \/ OpenEnvelope(e))
              \/ Dispatch \/ Tick
    BY <1>1, <1>10 DEF ForceKill, Middleware, KeyOfCreated, ReplyCreated, OtherCall, Seal,
                       OpenEnvelope, Dispatch, Tick, tables, RegisterKey
  <1>11. QED
    BY <1>4, <1>5, <1>6, <1>7, <1>8, <1>9, <1>10 DEF Next

-----------------------------------------------------------------------------
(* Type correctness.                                                       *)

\* A token that is minted is one, and one that is done with is none.
LEMMA FreshType ==
    ASSUME TypeOK, NEW d \in Daemons, Mint(d) \/ Done(d)
    PROVE  fresh' \in [Daemons -> Tokens \cup {None}]
  BY DEF TypeOK, Mint, Done, Unused

\* A fault is one of those that may happen.
LEMMA FaultType ==
    ASSUME TypeOK, faults < MaxFaults, faults' = faults + 1
    PROVE  faults' \in 0 .. MaxFaults
  BY DEF TypeOK

LEMMA TypeStep == AccessInv /\ [Next]_vars => TypeOK'
  <1> SUFFICES ASSUME AccessInv, [Next]_vars PROVE TypeOK'
    OBVIOUS
  <1> TypeOK /\ TablesKept
    BY TablesStep DEF AccessInv
  <1>1. pc' \in [Daemons -> Places]
    <2>1. ASSUME NEW d \in Daemons, NEW l \in Places, Goto(d, l) PROVE pc' \in [Daemons -> Places]
      BY <2>1 DEF TypeOK, Goto
    <2> USE DEF Places, Bootstrapping, Listening
    <2>2. ASSUME NEW d \in Daemons,
                 \/ SpawnDaemon(d) \/ Boot(d) \/ BootAfterFailedRead(d) \/ InsertOwnerToken(d)
                 \/ RegisterOwnerKey(d) \/ SetOwner(d) \/ WriteOwnerFile(d)
          PROVE  \E l \in Places : Goto(d, l)
      BY <2>2 DEF SpawnDaemon, Boot, BootAfterFailedRead, InsertOwnerToken,
                  RegisterOwnerKey, SetOwner, WriteOwnerFile
    <2>3. ASSUME NEW d \in Daemons,
                 \/ BootstrapFails(d) \/ Bind(d) \/ Retire(d) \/ InsertConnectorsToken(d)
                 \/ RegisterConnectorsKey(d) \/ SetConnectors(d) \/ MintingFails(d)
                 \/ Crash(d) \/ Shutdown(d)
          PROVE  \E l \in Places : Goto(d, l)
      BY <2>3 DEF BootstrapFails, Bind, Retire, InsertConnectorsToken,
                  RegisterConnectorsKey, SetConnectors, MintingFails, Crash, Shutdown, Stop
    <2>4. CASE ForceKill
      BY <2>4 DEF ForceKill
    <2>5. CASE UNCHANGED pc
      BY <2>5 DEF TypeOK
    <2>6. QED
      BY <2>1, <2>2, <2>3, <2>4, <2>5 DEF Next, vars, daemon, Middleware, CreateToken,
         KeyOfCreated, ReplyCreated, RevokeCall, OtherCall, Seal, OpenEnvelope, Dispatch, Tick
  <1>2. fresh' \in [Daemons -> Tokens \cup {None}]
    <2>1. ASSUME NEW d \in Daemons,
                 \/ Boot(d) \/ BootAfterFailedRead(d) \/ WriteOwnerFile(d) \/ BootstrapFails(d)
                 \/ Retire(d) \/ SetConnectors(d) \/ MintingFails(d) \/ Crash(d) \/ Shutdown(d)
          PROVE  fresh' \in [Daemons -> Tokens \cup {None}]
      BY <2>1, FreshType DEF Boot, BootAfterFailedRead, WriteOwnerFile, BootstrapFails, Retire,
                             SetConnectors, MintingFails, Crash, Shutdown, Stop, TypeOK
    <2>2. CASE ForceKill
      BY <2>2 DEF ForceKill
    <2>3. CASE UNCHANGED fresh
      BY <2>3 DEF TypeOK
    <2>4. QED
      BY <2>1, <2>2, <2>3 DEF Next, vars, daemon, SpawnDaemon, InsertOwnerToken, RegisterOwnerKey,
         SetOwner, Bind, InsertConnectorsToken, RegisterConnectorsKey, Middleware, CreateToken,
         KeyOfCreated, ReplyCreated, RevokeCall, OtherCall, Seal, OpenEnvelope, Dispatch, Tick
  <1>3. call' \in Calls
    <2>1. Idle \in Calls
      BY DEF Idle, Calls
    <2>2. \A t \in Tokens \cup {None}, st \in {"opened", "admitted"} :
            [Idle EXCEPT !.st = st, !.token = t] \in Calls
      BY <2>1 DEF Calls
    <2>3. CASE \E d \in Daemons : Crash(d) \/ Shutdown(d)
      BY <2>1, <2>3 DEF Crash, Shutdown, Stop, TypeOK
    <2>4. ASSUME NEW t \in Tokens \cup {None}, Middleware(t) PROVE call' \in Calls
      BY <2>2, <2>4 DEF Middleware
    <2>5. ASSUME NEW e \in Envelopes, OpenEnvelope(e) PROVE call' \in Calls
      <3>1. e.token \in Tokens
        BY DEF Envelopes
      <3>2. QED
        BY <2>2, <2>5, <3>1 DEF OpenEnvelope
    <2>6. CASE CreateToken
      <3>1. PICK t \in Unused : call' = [call EXCEPT !.st = "key", !.new = t]
        BY <2>6 DEF CreateToken
      <3>2. call \in Calls /\ t \in Tokens
        BY Minted DEF TypeOK
      <3>3. QED
        BY <3>1, <3>2 DEF Calls
    <2>7. CASE KeyOfCreated \/ Dispatch
      <3>1. \A st \in {"reply", "admitted"} : [call EXCEPT !.st = st] \in Calls
        BY DEF TypeOK, Calls
      <3>2. QED
        BY <2>1, <2>7, <3>1 DEF KeyOfCreated, Dispatch
    <2>8. CASE UNCHANGED call \/ call' = Idle
      BY <2>1, <2>8 DEF TypeOK
    <2>9. QED
      BY <2>3, <2>4, <2>5, <2>6, <2>7, <2>8 DEF Next, vars, daemon, SpawnDaemon, Boot, BootAfterFailedRead,
         InsertOwnerToken, RegisterOwnerKey, SetOwner, WriteOwnerFile, BootstrapFails, Bind, Retire,
         InsertConnectorsToken, RegisterConnectorsKey, SetConnectors, MintingFails, ForceKill,
         ReplyCreated, RevokeCall, OtherCall, Seal, Tick
  <1>4. /\ connectors' \in Tokens \cup {None} /\ file' \in Tokens \cup {None}
        /\ client' \in Tokens \cup {None} /\ told' \subseteq Tokens /\ owner' \in BOOLEAN
    <2>1. ASSUME NEW d \in Daemons, WriteOwnerFile(d) \/ SetConnectors(d)
          PROVE  fresh[d] \in Tokens
      BY <2>1 DEF WriteOwnerFile, SetConnectors, AccessInv, MintInv, OwnToken, Minting, First, Bootstrapping
    <2>2. ASSUME NEW d \in Daemons, WriteOwnerFile(d) \/ SetConnectors(d) \/ SetOwner(d)
          PROVE  /\ connectors' \in Tokens \cup {None} /\ file' \in Tokens \cup {None}
                 /\ client' \in Tokens \cup {None} /\ told' \subseteq Tokens /\ owner' \in BOOLEAN
      <3>1. CASE WriteOwnerFile(d)
        BY <2>1, <3>1 DEF WriteOwnerFile, TypeOK, tables
      <3>2. CASE SetConnectors(d)
        BY <2>1, <3>2 DEF SetConnectors, TypeOK
      <3>3. CASE SetOwner(d)
        BY <3>3 DEF SetOwner, TypeOK
      <3>4. QED
        BY <2>2, <3>1, <3>2, <3>3
    <2>3. CASE ReplyCreated
      BY <2>3 DEF ReplyCreated, AccessInv, MintInv, CallInv, TypeOK, tables
    <2>4. CASE /\ UNCHANGED <<connectors, file, told, owner>>
               /\ UNCHANGED client \/ client' = None
      BY <2>4 DEF TypeOK
    <2>5. QED
      BY <2>2, <2>3, <2>4 DEF Next, vars, tables, daemon, SpawnDaemon, Boot, BootAfterFailedRead,
         InsertOwnerToken, RegisterOwnerKey, BootstrapFails, Bind, Retire,
         InsertConnectorsToken, RegisterConnectorsKey, MintingFails, NoClientToken, Crash, Shutdown,
         Stop, ForceKill, Middleware, CreateToken, KeyOfCreated, RevokeCall, OtherCall,
         Seal, OpenEnvelope, Dispatch, Tick
  <1>5. keys' \subseteq Tokens
    <2>1. ASSUME NEW d \in Daemons, RegisterOwnerKey(d) \/ RegisterConnectorsKey(d)
          PROVE  fresh[d] \in Tokens
      BY <2>1 DEF RegisterOwnerKey, RegisterConnectorsKey, AccessInv, MintInv, OwnToken, Minting, First,
                  Bootstrapping
    <2>2. ASSUME NEW t \in Tokens, RegisterKey(t) PROVE keys' \subseteq Tokens
      BY <2>2 DEF RegisterKey, TypeOK
    <2>3. CASE KeyOfCreated
      <3>1. call.new \in Tokens
        BY <2>3 DEF KeyOfCreated, AccessInv, MintInv, CallInv
      <3>2. QED
        BY <2>2, <2>3, <3>1 DEF KeyOfCreated, TypeOK
    <2>4. ASSUME NEW d \in Daemons, RegisterOwnerKey(d) \/ RegisterConnectorsKey(d)
          PROVE  keys' \subseteq Tokens
      BY <2>1, <2>2, <2>4 DEF RegisterOwnerKey, RegisterConnectorsKey
    <2>5. CASE UNCHANGED keys
      BY <2>5 DEF TypeOK
    <2>6. QED
      BY <2>3, <2>4, <2>5 DEF Next, vars, tables, SpawnDaemon, Boot, BootAfterFailedRead,
         InsertOwnerToken, SetOwner, WriteOwnerFile, BootstrapFails, Bind, Retire,
         InsertConnectorsToken, SetConnectors, MintingFails, Crash, Shutdown, ForceKill, Middleware,
         CreateToken, ReplyCreated, RevokeCall, OtherCall, Seal, OpenEnvelope, Dispatch, Tick
  <1>6. faults' \in 0 .. MaxFaults
    BY FaultType DEF TypeOK, Next, vars, SpawnDaemon, Boot, BootAfterFailedRead,
         InsertOwnerToken, RegisterOwnerKey, SetOwner, WriteOwnerFile, BootstrapFails, Bind, Retire,
         InsertConnectorsToken, RegisterConnectorsKey, SetConnectors, MintingFails, Crash, Shutdown,
         ForceKill, Middleware, CreateToken, KeyOfCreated, ReplyCreated, RevokeCall, OtherCall,
         Seal, OpenEnvelope, Dispatch, Tick
  <1>7. slipped' \subseteq Tokens \cup {"owner"}
    <2>1. ASSUME NEW d \in Daemons, Boot(d) \/ BootAfterFailedRead(d) \/ Retire(d)
          PROVE  slipped' \subseteq Tokens \cup {"owner"}
      <3>1. slipped' \in {slipped, slipped \cup {"owner"}, slipped \cup ({connectors} \ {None})}
        BY <2>1 DEF Boot, BootAfterFailedRead, Retire
      <3>2. QED
        BY <3>1 DEF TypeOK
    <2>2. CASE UNCHANGED slipped
      BY <2>2 DEF TypeOK
    <2>3. QED
      BY <2>1, <2>2 DEF Next, vars, SpawnDaemon, InsertOwnerToken, RegisterOwnerKey, SetOwner,
         WriteOwnerFile, BootstrapFails, Bind, InsertConnectorsToken, RegisterConnectorsKey,
         SetConnectors, MintingFails, Crash, Shutdown, ForceKill, Middleware, CreateToken,
         KeyOfCreated, ReplyCreated, RevokeCall, OtherCall, Seal, OpenEnvelope, Dispatch, Tick
  <1>8. /\ sealed' \subseteq Envelopes /\ now' \in 0 .. MaxTime
        /\ ran' \in [Envelopes -> SUBSET (0 .. MaxTime)]
    <2>1. CASE \E e \in Envelopes : Seal(e) \/ OpenEnvelope(e)
      BY <2>1 DEF Seal, OpenEnvelope, TypeOK
    <2>2. CASE Tick
      BY <2>2 DEF Tick, TypeOK
    <2>3. CASE UNCHANGED <<sealed, now, ran>>
      BY <2>3 DEF TypeOK
    <2>4. QED
      BY <2>1, <2>2, <2>3 DEF Next, vars, SpawnDaemon, Boot, BootAfterFailedRead,
         InsertOwnerToken, RegisterOwnerKey, SetOwner, WriteOwnerFile, BootstrapFails, Bind, Retire,
         InsertConnectorsToken, RegisterConnectorsKey, SetConnectors, MintingFails, Crash, Shutdown,
         ForceKill, Middleware, CreateToken, KeyOfCreated, ReplyCreated, RevokeCall, OtherCall,
         Dispatch
  <1>9. QED
    BY <1>1, <1>2, <1>3, <1>4, <1>5, <1>6, <1>7, <1>8 DEF TypeOK, TablesKept

-----------------------------------------------------------------------------
(* One daemon has the port.                                                *)

\* A daemon that moves among the places of one that listens, or gives them up.
LEMMA PortStep == AccessInv /\ [Next]_vars => PortInv'
  <1> SUFFICES ASSUME AccessInv, [Next]_vars PROVE PortInv'
    OBVIOUS
  <1> TypeOK /\ PortInv
    BY DEF AccessInv
  <1> USE DEF PortInv, Listening
  <1>1. ASSUME NEW d \in Daemons, NEW l \in Places, Goto(d, l), UNCHANGED client,
               l \in Listening => pc[d] \in Listening, pc[d] # "up",
               l \in {"retire", "token", "key", "config"} => RequireAuth
        PROVE  PortInv'
    BY <1>1 DEF Goto, TypeOK
  <1>2. ASSUME NEW d \in Daemons, SpawnDaemon(d) \/ Boot(d) \/ BootAfterFailedRead(d)
        PROVE  PortInv'
    BY <1>1, <1>2 DEF SpawnDaemon, Boot, BootAfterFailedRead, Places, Bootstrapping
  <1>3. ASSUME NEW d \in Daemons,
               \/ InsertOwnerToken(d) \/ RegisterOwnerKey(d) \/ SetOwner(d) \/ WriteOwnerFile(d)
               \/ BootstrapFails(d)
        PROVE  PortInv'
    BY <1>1, <1>3 DEF InsertOwnerToken, RegisterOwnerKey, SetOwner, WriteOwnerFile, BootstrapFails,
                      Places, Bootstrapping
  <1>4. ASSUME NEW d \in Daemons, Bind(d) PROVE PortInv'
    <2>1. CASE \E e \in Daemons : pc[e] \in Listening
      BY <1>1, <1>4, <2>1 DEF Bind, Places
    <2>2. CASE \A e \in Daemons : pc[e] \notin Listening
      BY <1>4, <2>2 DEF Bind, Goto, TypeOK
    <2>3. QED
      BY <2>1, <2>2
  <1>5. ASSUME NEW d \in Daemons, Retire(d) \/ InsertConnectorsToken(d) \/ RegisterConnectorsKey(d)
        PROVE  PortInv'
    <2>1. RequireAuth
      BY <1>5 DEF Retire, InsertConnectorsToken, RegisterConnectorsKey
    <2>2. QED
      BY <1>1, <1>5, <2>1 DEF Retire, InsertConnectorsToken, RegisterConnectorsKey, Places
  <1>6. ASSUME NEW d \in Daemons, SetConnectors(d) \/ MintingFails(d) PROVE PortInv'
    <2>1. pc[d] \in {"token", "key", "config"} /\ Goto(d, "up")
      BY <1>6 DEF SetConnectors, MintingFails
    <2>2. QED
      BY <2>1 DEF Goto, TypeOK
  <1>7. ASSUME NEW d \in Daemons, Stop(d) PROVE PortInv'
    BY <1>7 DEF Stop, Goto, TypeOK
  <1>8. CASE ForceKill
    BY <1>8 DEF ForceKill
  <1>9. CASE UNCHANGED <<pc, client>>
    BY <1>9
  <1>10. QED
    BY <1>2, <1>3, <1>4, <1>5, <1>6, <1>7, <1>8, <1>9 DEF Next, vars, daemon, Crash, Shutdown,
       Middleware, CreateToken, KeyOfCreated, ReplyCreated, RevokeCall, OtherCall, Seal, OpenEnvelope,
       Dispatch, Tick

-----------------------------------------------------------------------------
(* What a daemon and a call hold of the token they are minting.            *)

\* A daemon that a step passes by: what it has executed stays in the tables.
LEMMA OthersKeepToken ==
    ASSUME AccessInv, TablesKept, NEW d \in Daemons, pc'[d] = pc[d], fresh'[d] = fresh[d],
           fresh[d] \in Tokens /\ row[fresh[d]] = "none" => row'[fresh[d]] = "none"
    PROVE  OwnToken(d)'
  <1>1. OwnToken(d) /\ TypeOK
    BY DEF AccessInv, MintInv
  <1>2. pc[d] \in Minting => fresh[d] \in Tokens
    BY <1>1 DEF OwnToken
  <1>3. \A t \in Tokens : principal[t] \in {"owner", "connectors"} => principal'[t] = principal[t]
    BY <1>1 DEF TypeOK, TablesKept, None
  <1>4. \A t \in keys : t \in keys'
    BY DEF TablesKept
  <1>5. QED
    BY <1>1, <1>2, <1>3, <1>4 DEF OwnToken, Minting, First, Bootstrapping

\* A call that goes on.
LEMMA CallsGoOn ==
    ASSUME AccessInv, TablesKept, UNCHANGED call \/ call'.st \notin {"key", "reply"}
    PROVE  CallInv'
  <1>1. CallInv /\ TypeOK
    BY DEF AccessInv, MintInv
  <1>2. \A t \in Tokens : principal[t] \in {"owner", "agent"} => principal'[t] = principal[t]
    BY <1>1 DEF TypeOK, TablesKept, None
  <1>3. QED
    BY <1>1, <1>2 DEF CallInv

LEMMA MintStep == AccessInv /\ [Next]_vars => MintInv'
  <1> SUFFICES ASSUME AccessInv, [Next]_vars PROVE MintInv'
    OBVIOUS
  <1> TypeOK /\ MintInv /\ TablesKept
    BY TablesStep DEF AccessInv
  <1>1. FreshDistinct'
    <2>1. ASSUME NEW d \in Daemons, Mint(d) PROVE FreshDistinct'
      <3>1. PICK t \in Unused : fresh' = [fresh EXCEPT ![d] = t]
        BY <2>1 DEF Mint
      <3>2. \A e \in Daemons : fresh[e] # t
        BY Minted
      <3>3. QED
        BY <3>1, <3>2 DEF FreshDistinct, MintInv, TypeOK
    <2>2. ASSUME NEW d \in Daemons, Done(d) PROVE FreshDistinct'
      BY <2>2 DEF Done, FreshDistinct, MintInv, TypeOK
    <2>3. CASE ForceKill
      BY <2>3 DEF ForceKill, FreshDistinct
    <2>4. CASE UNCHANGED fresh
      BY <2>4 DEF FreshDistinct, MintInv
    <2>5. QED
      BY <2>1, <2>2, <2>3, <2>4 DEF Next, vars, daemon, SpawnDaemon, Boot, BootAfterFailedRead,
         InsertOwnerToken, RegisterOwnerKey, SetOwner, WriteOwnerFile, BootstrapFails, Bind, Retire,
         InsertConnectorsToken, RegisterConnectorsKey, SetConnectors, MintingFails, Crash, Shutdown,
         Stop, Middleware, CreateToken, KeyOfCreated, ReplyCreated, RevokeCall, OtherCall, Seal,
         OpenEnvelope, Dispatch, Tick
  <1>2. CallInv'
    <2>1. CASE CreateToken
      <3>1. PICK t \in Unused, p \in {"owner", "agent"} :
              InsertToken(t, p) /\ call' = [call EXCEPT !.st = "key", !.new = t]
        BY <2>1 DEF CreateToken
      <3>2. t \in Tokens /\ principal'[t] = p
        BY <3>1, Minted, Inserted DEF Principals
      <3>3. call'.new = t
        BY <3>1 DEF TypeOK, Calls
      <3>4. QED
        BY <3>2, <3>3 DEF CallInv
    <2>2. CASE KeyOfCreated
      <3>1. call'.new = call.new /\ call.st = "key" /\ UNCHANGED principal
        BY <2>2 DEF KeyOfCreated, TypeOK, Calls
      <3>2. QED
        BY <3>1 DEF CallInv, MintInv
    <2>3. CASE \E t \in Tokens \cup {None} : Middleware(t)
      BY <2>3, CallsGoOn DEF Middleware, Idle
    <2>4. CASE (\E e \in Envelopes : OpenEnvelope(e)) \/ Dispatch
      <3>1. CASE Dispatch
        <4>1. call'.st \in {"idle", "admitted"}
          BY <3>1 DEF Dispatch, Idle, TypeOK, Calls
        <4>2. QED
          BY <4>1, CallsGoOn
      <3>2. CASE \E e \in Envelopes : OpenEnvelope(e)
        BY <3>2, CallsGoOn DEF OpenEnvelope, Idle
      <3>3. QED
        BY <2>4, <3>1, <3>2
    <2>5. CASE UNCHANGED call \/ call' = Idle
      BY <2>5, CallsGoOn DEF Idle
    <2>6. QED
      BY <2>1, <2>2, <2>3, <2>4, <2>5 DEF Next, vars, daemon, SpawnDaemon, Boot, BootAfterFailedRead,
         InsertOwnerToken, RegisterOwnerKey, SetOwner, WriteOwnerFile, BootstrapFails, Bind, Retire,
         InsertConnectorsToken, RegisterConnectorsKey, SetConnectors, MintingFails, Crash, Shutdown,
         Stop, ForceKill, ReplyCreated, RevokeCall, OtherCall, Seal, Tick
  <1>3. \A d \in Daemons : OwnToken(d)'
    <2> USE DEF Minting, First, Bootstrapping
    <2>1. ASSUME NEW d \in Daemons, Mint(d), UNCHANGED keys, UNCHANGED principal,
                 \A t \in Tokens : row'[t] = "none" <=> row[t] = "none",
                 \/ Goto(d, "owner token") \/ Goto(d, "token")
          PROVE  \A e \in Daemons : OwnToken(e)'
      <3>1. PICK t \in Unused : fresh' = [fresh EXCEPT ![d] = t]
        BY <2>1 DEF Mint
      <3>2. t \in Tokens /\ row'[t] = "none"
        BY <2>1, Minted
      <3>3. OwnToken(d)'
        BY <2>1, <3>1, <3>2 DEF OwnToken, Goto, TypeOK
      <3>4. ASSUME NEW e \in Daemons \ {d} PROVE OwnToken(e)'
        <4>1. pc'[e] = pc[e] /\ fresh'[e] = fresh[e]
          BY <2>1, <3>1 DEF Goto, TypeOK
        <4>2. QED
          BY <2>1, <4>1, OthersKeepToken
      <3>5. QED
        BY <3>3, <3>4
    <2>2. ASSUME NEW d \in Daemons, NEW p \in Principals, pc[d] \in {"owner token", "token"},
                 InsertToken(fresh[d], p),
                 UNCHANGED fresh,
                 \/ p = "owner" /\ Goto(d, "owner key")
                 \/ p = "connectors" /\ Goto(d, "key")
          PROVE  \A e \in Daemons : OwnToken(e)'
      <3>1. fresh[d] \in Tokens /\ row[fresh[d]] = "none"
        BY <2>2 DEF MintInv, OwnToken
      <3>2. principal'[fresh[d]] = p /\ \A u \in Tokens \ {fresh[d]} : row'[u] = row[u]
        BY <2>2, <3>1, Inserted
      <3>3. OwnToken(d)'
        <4>1. fresh'[d] = fresh[d] /\ pc'[d] = IF p = "owner" THEN "owner key" ELSE "key"
          BY <2>2 DEF Goto, TypeOK
        <4>2. p \in {"owner", "connectors"}
          BY <2>2
        <4>3. QED
          BY <3>1, <3>2, <4>1, <4>2 DEF OwnToken
      <3>4. ASSUME NEW e \in Daemons \ {d} PROVE OwnToken(e)'
        <4>1. pc'[e] = pc[e] /\ fresh'[e] = fresh[e]
          BY <2>2 DEF Goto, TypeOK
        <4>2. fresh[e] # fresh[d]
          BY <3>1 DEF MintInv, FreshDistinct
        <4>3. QED
          BY <3>2, <4>1, <4>2, OthersKeepToken
      <3>5. QED
        BY <3>3, <3>4
    <2>3. ASSUME NEW d \in Daemons, UNCHANGED <<row, principal>>,
                 \A e \in Daemons \ {d} : pc'[e] = pc[e] /\ fresh'[e] = fresh[e], OwnToken(d)'
          PROVE  \A e \in Daemons : OwnToken(e)'
      <3>1. ASSUME NEW e \in Daemons \ {d} PROVE OwnToken(e)'
        BY <2>3, OthersKeepToken
      <3>2. QED
        BY <2>3, <3>1
    <2>4. ASSUME UNCHANGED <<pc, fresh>>,
                 \A e \in Daemons : fresh[e] \in Tokens /\ row[fresh[e]] = "none" => row'[fresh[e]] = "none"
          PROVE  \A e \in Daemons : OwnToken(e)'
      BY <2>4, OthersKeepToken
    <2>5. ASSUME NEW d \in Daemons, NEW l \in Places \ Minting, Goto(d, l),
                 UNCHANGED <<row, principal>>,
                 \A e \in Daemons \ {d} : fresh'[e] = fresh[e]
          PROVE  \A e \in Daemons : OwnToken(e)'
      <3>1. pc'[d] = l /\ \A e \in Daemons \ {d} : pc'[e] = pc[e]
        BY <2>5 DEF Goto, TypeOK
      <3>2. OwnToken(d)'
        BY <3>1 DEF OwnToken
      <3>3. QED
        BY <2>3, <2>5, <3>1, <3>2
    <2>6. ASSUME NEW d \in Daemons, Boot(d) \/ BootAfterFailedRead(d) PROVE \A e \in Daemons : OwnToken(e)'
      <3>1. UNCHANGED <<row, principal, keys>>
        BY <2>6 DEF Boot, BootAfterFailedRead, tables
      <3>2. CASE Goto(d, "owner token") /\ Mint(d)
        BY <2>1, <3>1, <3>2
      <3>3. CASE Goto(d, "bind") /\ UNCHANGED fresh
        BY <2>5, <3>1, <3>3 DEF Places
      <3>4. QED
        BY <2>6, <3>2, <3>3 DEF Boot, BootAfterFailedRead
    <2>7. ASSUME NEW d \in Daemons, InsertOwnerToken(d) \/ InsertConnectorsToken(d)
          PROVE  \A e \in Daemons : OwnToken(e)'
      BY <2>2, <2>7 DEF InsertOwnerToken, InsertConnectorsToken, Principals
    <2>8. ASSUME NEW d \in Daemons, RegisterOwnerKey(d) \/ RegisterConnectorsKey(d) \/ SetOwner(d)
          PROVE  \A e \in Daemons : OwnToken(e)'
      <3>1. /\ UNCHANGED <<row, principal, fresh>>
            /\ \A e \in Daemons \ {d} : pc'[e] = pc[e]
        BY <2>8 DEF RegisterOwnerKey, RegisterConnectorsKey, SetOwner, Goto, TypeOK
      <3>2. OwnToken(d)
        BY DEF MintInv
      <3>3. CASE RegisterOwnerKey(d)
        <4>1. pc[d] = "owner key" /\ pc'[d] = "owner config" /\ fresh[d] \in keys'
          BY <3>3 DEF RegisterOwnerKey, RegisterKey, Goto, TypeOK
        <4>2. OwnToken(d)'
          BY <3>1, <3>2, <4>1 DEF OwnToken
        <4>3. QED
          BY <2>3, <3>1, <4>2
      <3>4. CASE RegisterConnectorsKey(d)
        <4>1. pc[d] = "key" /\ pc'[d] = "config" /\ fresh[d] \in keys'
          BY <3>4 DEF RegisterConnectorsKey, RegisterKey, Goto, TypeOK
        <4>2. OwnToken(d)'
          BY <3>1, <3>2, <4>1 DEF OwnToken
        <4>3. QED
          BY <2>3, <3>1, <4>2
      <3>5. CASE SetOwner(d)
        <4>1. pc[d] = "owner config" /\ pc'[d] = "owner file" /\ keys' = keys
          BY <3>5 DEF SetOwner, Goto, TypeOK
        <4>2. OwnToken(d)'
          BY <3>1, <3>2, <4>1 DEF OwnToken
        <4>3. QED
          BY <2>3, <3>1, <4>2
      <3>6. QED
        BY <2>8, <3>3, <3>4, <3>5
    <2>9. ASSUME NEW d \in Daemons, Done(d) \/ UNCHANGED fresh
          PROVE  \A e \in Daemons \ {d} : fresh'[e] = fresh[e]
      BY <2>9 DEF Done, TypeOK
    <2>10. ASSUME NEW d \in Daemons,
                  \/ SpawnDaemon(d) \/ WriteOwnerFile(d) \/ BootstrapFails(d) \/ Bind(d)
                  \/ SetConnectors(d) \/ MintingFails(d) \/ Crash(d) \/ Shutdown(d)
           PROVE  \A e \in Daemons : OwnToken(e)'
      <3>1. UNCHANGED <<row, principal>> /\ (Done(d) \/ UNCHANGED fresh)
        BY <2>10 DEF SpawnDaemon, WriteOwnerFile, BootstrapFails, Bind, SetConnectors, MintingFails,
                     Crash, Shutdown, Stop, tables
      <3>2. \E l \in Places \ Minting : Goto(d, l)
        BY <2>10 DEF SpawnDaemon, WriteOwnerFile, BootstrapFails, Bind, SetConnectors, MintingFails,
                     Crash, Shutdown, Stop, Places, Listening
      <3>3. QED
        BY <2>5, <2>9, <3>1, <3>2
    <2>11. ASSUME NEW d \in Daemons, Retire(d) PROVE \A e \in Daemons : OwnToken(e)'
      <3>1. \A t \in Tokens : row'[t] = "none" <=> row[t] = "none"
        <4>1. CASE UNCHANGED row
          BY <4>1
        <4>2. CASE connectors # None /\ RevokeToken(connectors)
          BY <4>2, Revoked DEF TypeOK
        <4>3. QED
          BY <2>11, <4>1, <4>2 DEF Retire, RetireConnectors
      <3>2. QED
        BY <2>1, <2>11, <3>1 DEF Retire
    <2>12. CASE ForceKill
      BY <2>12 DEF ForceKill, OwnToken
    <2>13. CASE CreateToken
      <3>1. PICK t \in Unused, p \in {"owner", "agent"} : InsertToken(t, p)
        BY <2>13 DEF CreateToken
      <3>2. /\ t \in Tokens /\ row[t] = "none" /\ \A e \in Daemons : fresh[e] # t
            /\ \A u \in Tokens \ {t} : row'[u] = row[u]
        BY <3>1, Minted, Inserted DEF Principals
      <3>3. QED
        BY <2>4, <2>13, <3>2 DEF CreateToken
    <2>14. CASE RevokeCall
      BY <2>4, <2>14, Revoked DEF RevokeCall
    <2>15. CASE UNCHANGED <<pc, fresh, row>>
      BY <2>4, <2>15
    <2>16. QED
      BY <2>6, <2>7, <2>8, <2>10, <2>11, <2>12, <2>13, <2>14, <2>15 DEF Next, vars, tables, daemon,
         Middleware, KeyOfCreated, ReplyCreated, OtherCall, Seal, OpenEnvelope, Dispatch, Tick
  <1>4. QED
    BY <1>1, <1>2, <1>3 DEF MintInv

-----------------------------------------------------------------------------
(* The rotation of the connectors' token.                                  *)

LEMMA RotationStep == AccessInv /\ [Next]_vars => RotationInv'
  <1> SUFFICES ASSUME AccessInv, [Next]_vars PROVE RotationInv'
    OBVIOUS
  <1> TypeOK /\ PortInv /\ MintInv /\ RotationInv /\ TablesKept
    BY TablesStep DEF AccessInv
  <1>1. \A t \in Tokens : /\ row[t] # "none" => principal'[t] = principal[t] /\ row'[t] # "none"
                          /\ row[t] = "revoked" => row'[t] = "revoked"
                          /\ t \in slipped => t \in slipped'
    BY DEF TablesKept
  <1>2. connectors \in Tokens \cup {None} /\ told \subseteq Tokens
    BY DEF TypeOK
  \* Nothing new is told, and nothing new is up.
  <1>3. ASSUME UNCHANGED <<connectors, told>>,
               \A t \in Tokens : row[t] = "none" /\ ~RequireAuth => principal'[t] # "connectors",
               \A d \in Daemons : pc'[d] \in {"token", "key", "config", "up"} =>
                 /\ pc[d] \in {"token", "key", "config", "up"}
                 /\ client' = client \/ client # connectors
        PROVE  RotationInv'
    <2>1. \A t \in told \cup ({connectors} \ {None}) : row'[t] # "none"
      BY <1>1, <1>2 DEF RotationInv
    <2>2. \A t \in told : principal'[t] = "connectors" =>
            row'[t] = "revoked" \/ t \in slipped' \/ t = connectors
      BY <1>1, <1>2 DEF RotationInv
    <2>3. \A d \in Daemons : pc'[d] \in {"token", "key", "config", "up"} /\ connectors # None =>
            connectors = client' \/ row'[connectors] = "revoked" \/ connectors \in slipped'
      BY <1>1, <1>2, <1>3 DEF RotationInv
    <2>4. ~RequireAuth => connectors = None /\ \A t \in Tokens : principal'[t] # "connectors"
      BY <1>1, <1>3 DEF RotationInv
    <2>5. QED
      BY <1>3, <2>1, <2>2, <2>3, <2>4 DEF RotationInv
  <1>4. ASSUME UNCHANGED <<row, principal, connectors, told, client>>,
               \A d \in Daemons : pc'[d] \in {"token", "key", "config", "up"} =>
                 pc[d] \in {"token", "key", "config", "up"}
        PROVE  RotationInv'
    BY <1>3, <1>4 DEF RotationInv
  <1>5. ASSUME NEW d \in Daemons,
               \/ SpawnDaemon(d) \/ Boot(d) \/ BootAfterFailedRead(d)
               \/ RegisterOwnerKey(d) \/ SetOwner(d) \/ BootstrapFails(d)
        PROVE  RotationInv'
    <2>1. UNCHANGED <<row, principal, connectors, told, client>>
      BY <1>5 DEF SpawnDaemon, Boot, BootAfterFailedRead, RegisterOwnerKey, SetOwner,
                  BootstrapFails, tables
    <2>2. \/ Goto(d, "starting") \/ Goto(d, "owner token") \/ Goto(d, "bind")
          \/ Goto(d, "owner config") \/ Goto(d, "owner file")
      BY <1>5 DEF SpawnDaemon, Boot, BootAfterFailedRead, RegisterOwnerKey, SetOwner, BootstrapFails
    <2>3. \A e \in Daemons : pc'[e] \in {"token", "key", "config", "up"} => pc'[e] = pc[e]
      BY <2>2 DEF Goto, TypeOK
    <2>4. QED
      BY <1>4, <2>1, <2>3
  <1>6. ASSUME NEW d \in Daemons, RegisterConnectorsKey(d) \/ MintingFails(d) PROVE RotationInv'
    BY <1>4, <1>6 DEF RegisterConnectorsKey, MintingFails, NoClientToken, Goto, tables, TypeOK
  <1>7. ASSUME NEW d \in Daemons, InsertOwnerToken(d) \/ InsertConnectorsToken(d)
        PROVE  RotationInv'
    <2>1. fresh[d] \in Tokens /\ row[fresh[d]] = "none"
      BY <1>7 DEF MintInv, OwnToken, Minting, First, Bootstrapping, InsertOwnerToken,
                  InsertConnectorsToken
    <2>2. UNCHANGED <<connectors, told, client>>
      BY <1>7 DEF InsertOwnerToken, InsertConnectorsToken
    <2>3. \A e \in Daemons : pc'[e] \in {"token", "key", "config", "up"} =>
            pc[e] \in {"token", "key", "config", "up"}
      BY <1>7 DEF InsertOwnerToken, InsertConnectorsToken, Goto, TypeOK
    <2>4. ASSUME ~RequireAuth, NEW t \in Tokens PROVE principal'[t] # "connectors"
      <3>1. InsertToken(fresh[d], "owner")
        BY <1>7, <2>4 DEF InsertOwnerToken, InsertConnectorsToken, PortInv
      <3>2. principal[t] # "connectors"
        BY <2>4 DEF RotationInv
      <3>3. QED
        BY <2>1, <3>1, <3>2, Inserted DEF Principals
    <2>5. QED
      BY <1>3, <2>2, <2>3, <2>4
  <1>8. ASSUME NEW d \in Daemons, WriteOwnerFile(d) PROVE RotationInv'
    <2>1. /\ told' = told \cup {fresh[d]} /\ UNCHANGED <<row, principal, connectors, client, slipped>>
          /\ \A e \in Daemons : pc'[e] \in {"token", "key", "config", "up"} => pc'[e] = pc[e]
      BY <1>8 DEF WriteOwnerFile, Goto, tables, TypeOK
    <2>2. fresh[d] \in Tokens /\ principal[fresh[d]] = "owner"
      BY <1>8 DEF WriteOwnerFile, MintInv, OwnToken, Minting, First
    <2>3. row[fresh[d]] # "none"
      BY <2>2 DEF TypeOK, None
    <2>4. QED
      BY <2>1, <2>2, <2>3 DEF RotationInv
  <1>9. ASSUME NEW d \in Daemons, Bind(d) PROVE RotationInv'
    <2>1. UNCHANGED <<row, principal, connectors, told, client, slipped>>
      BY <1>9 DEF Bind, tables
    <2>2. CASE RequireAuth
      BY <1>4, <1>9, <2>1, <2>2 DEF Bind, Goto, TypeOK
    <2>3. CASE ~RequireAuth
      BY <2>1, <2>3 DEF RotationInv
    <2>4. QED
      BY <2>2, <2>3
  <1>10. ASSUME NEW d \in Daemons, Retire(d) PROVE RotationInv'
    <2>1. /\ pc[d] = "retire" /\ RequireAuth
          /\ UNCHANGED <<principal, connectors, told, client>>
      BY <1>10 DEF Retire, PortInv
    <2>2. \A t \in told \cup ({connectors} \ {None}) : row'[t] # "none"
      BY <1>1, <1>2 DEF RotationInv
    <2>3. \A t \in told : principal'[t] = "connectors" =>
            row'[t] = "revoked" \/ t \in slipped' \/ t = connectors
      BY <1>1, <1>2, <2>1 DEF RotationInv
    <2>4. connectors # None => row'[connectors] = "revoked" \/ connectors \in slipped'
      <3>1. connectors # None => connectors \in Tokens /\ row[connectors] # "none"
        BY <1>2 DEF RotationInv
      <3>2. QED
        BY <1>10, <3>1, Revoked DEF Retire, RetireConnectors
    <2>5. QED
      BY <2>1, <2>2, <2>3, <2>4 DEF RotationInv
  <1>11. ASSUME NEW d \in Daemons, SetConnectors(d) PROVE RotationInv'
    <2>1. /\ pc[d] = "config" /\ connectors' = fresh[d] /\ client' = fresh[d]
          /\ told' = told \cup {fresh[d]} /\ UNCHANGED <<row, principal, slipped>>
      BY <1>11 DEF SetConnectors
    <2>2. fresh[d] \in Tokens /\ principal[fresh[d]] = "connectors"
      BY <2>1 DEF MintInv, OwnToken, Minting
    <2>3. row[fresh[d]] # "none" /\ RequireAuth
      BY <2>1, <2>2 DEF TypeOK, None, PortInv
    <2>4. client = None
      BY <2>1 DEF PortInv, Listening
    <2>5. connectors # None => row[connectors] = "revoked" \/ connectors \in slipped
      BY <2>1, <2>4 DEF RotationInv
    <2>6. \A t \in told' \cup ({connectors'} \ {None}) : row'[t] # "none"
      BY <2>1, <2>3 DEF RotationInv
    <2>7. \A t \in told' : principal'[t] = "connectors" =>
            row'[t] = "revoked" \/ t \in slipped' \/ t = connectors'
      <3>1. \A t \in told : t = connectors /\ connectors # None => row[t] = "revoked" \/ t \in slipped
        BY <2>5
      <3>2. \A t \in told : t # None
        BY <1>2
      <3>3. QED
        BY <2>1, <3>1, <3>2 DEF RotationInv
    <2>8. QED
      BY <2>1, <2>3, <2>6, <2>7 DEF RotationInv
  <1>12. ASSUME NEW d \in Daemons, Crash(d) \/ Shutdown(d) PROVE RotationInv'
    <2>1. Stop(d) /\ UNCHANGED <<row, principal, connectors, told, slipped>>
      BY <1>12 DEF Crash, Shutdown, tables
    <2>2. \A e \in Daemons : e # d => pc'[e] = pc[e]
      BY <2>1 DEF Stop, Goto, TypeOK
    <2>3. pc'[d] = "down"
      BY <2>1 DEF Stop, Goto, TypeOK
    <2>4. CASE pc[d] \in Listening
      <3>1. \A e \in Daemons : pc'[e] \notin Listening
        BY <2>2, <2>3, <2>4 DEF PortInv, Listening
      <3>2. QED
        BY <2>1, <3>1 DEF RotationInv, Listening
    <2>5. CASE pc[d] \notin Listening
      BY <1>4, <2>1, <2>2, <2>3, <2>5 DEF Stop
    <2>6. QED
      BY <2>4, <2>5
  <1>13. CASE ForceKill
    <2>1. UNCHANGED <<row, principal, connectors, told, slipped>> /\ \A d \in Daemons : pc'[d] = "down"
      BY <1>13 DEF ForceKill, tables
    <2>2. QED
      BY <2>1 DEF RotationInv
  <1>14. CASE CreateToken
    <2>1. PICK t \in Unused, p \in {"owner", "agent"} : InsertToken(t, p)
      BY <1>14 DEF CreateToken
    <2>2. t \in Tokens /\ principal'[t] = p /\ \A u \in Tokens \ {t} : principal'[u] = principal[u]
      BY <2>1, Minted, Inserted DEF Principals
    <2>3. ~RequireAuth => \A u \in Tokens : principal'[u] # "connectors"
      BY <2>2 DEF RotationInv
    <2>4. QED
      BY <1>3, <1>14, <2>3 DEF CreateToken
  <1>15. CASE RevokeCall
    BY <1>3, <1>15 DEF RevokeCall, RotationInv
  <1>16. CASE ReplyCreated
    <2>1. call.new \in Tokens /\ principal[call.new] \in {"owner", "agent"}
      BY <1>16 DEF ReplyCreated, MintInv, CallInv
    <2>2. row[call.new] # "none"
      BY <2>1 DEF TypeOK, None
    <2>3. QED
      BY <1>16, <2>1, <2>2 DEF ReplyCreated, RotationInv, tables
  <1>17. CASE UNCHANGED <<row, principal, connectors, told, client, pc>>
    BY <1>4, <1>17
  <1>18. QED
    BY <1>5, <1>6, <1>7, <1>8, <1>9, <1>10, <1>11, <1>12, <1>13, <1>14, <1>15, <1>16, <1>17
    DEF Next, vars, tables, daemon, Middleware, KeyOfCreated, OtherCall, Seal, OpenEnvelope, Dispatch, Tick

-----------------------------------------------------------------------------
(* The owner's token.                                                      *)

\* The file holds the first token that was written to it, unless something slipped.
FileKept == file' # file => file = None \/ "owner" \in slipped

LEMMA OwnerStep == AccessInv /\ [Next]_vars => OwnerInv' /\ FileKept
  <1> SUFFICES ASSUME AccessInv, [Next]_vars PROVE OwnerInv' /\ FileKept
    OBVIOUS
  <1> TypeOK /\ MintInv /\ OwnerInv /\ TablesKept
    BY TablesStep DEF AccessInv
  <1>1. ASSUME UNCHANGED file PROVE FileKept /\ (file' # None => principal'[file'] = "owner" /\ file' \in keys')
    <2>1. CASE file = None
      BY <1>1, <2>1 DEF FileKept
    <2>2. CASE file # None
      <3>1. file \in Tokens /\ row[file] # "none"
        BY <2>2 DEF TypeOK, OwnerInv, None
      <3>2. QED
        BY <1>1, <3>1 DEF FileKept, OwnerInv, TablesKept
    <2>3. QED
      BY <2>1, <2>2
  \* The daemons that were in their first start are those that are.
  <1>2. ASSUME UNCHANGED <<file, owner>>,
               \A d \in Daemons : pc'[d] \in First =>
                 \/ pc'[d] = pc[d]
                 \/ pc[d] \in Bootstrapping /\ pc'[d] \in Bootstrapping
        PROVE  OwnerInv' /\ FileKept
    <2>1. "owner" \notin slipped' => "owner" \notin slipped
      BY DEF TablesKept
    <2>2. \A d \in Daemons : pc'[d] \in First => pc[d] \in First
      BY <1>2 DEF First
    <2>3. \A d \in Daemons : /\ pc'[d] \in Bootstrapping => pc[d] \in Bootstrapping
                             /\ pc'[d] = "owner file" => pc[d] = "owner file"
      BY <1>2 DEF First, Bootstrapping
    <2>4. ASSUME "owner" \notin slipped'
          PROVE  /\ file # None => owner
                 /\ \A d \in Daemons : /\ pc'[d] \in Bootstrapping => ~owner /\ file = None
                                       /\ pc'[d] = "owner file" => owner /\ file = None
                 /\ \A d, e \in Daemons : pc'[d] \in First /\ pc'[e] \in First => d = e
      <3>1. file # None => owner
        BY <2>1, <2>4 DEF OwnerInv
      <3>2. ASSUME NEW d \in Daemons
            PROVE  /\ pc'[d] \in Bootstrapping => ~owner /\ file = None
                   /\ pc'[d] = "owner file" => owner /\ file = None
        <4>1. /\ pc[d] \in Bootstrapping => ~owner /\ file = None
              /\ pc[d] = "owner file" => owner /\ file = None
          BY <2>1, <2>4 DEF OwnerInv
        <4>2. QED
          BY <2>3, <4>1
      <3>3. \A d, e \in Daemons : pc'[d] \in First /\ pc'[e] \in First => d = e
        BY <2>1, <2>2, <2>4 DEF OwnerInv
      <3>4. QED
        BY <3>1, <3>2, <3>3
    <2>5. QED
      <3>1. file' = file /\ owner' = owner
        BY <1>2
      <3>2. QED
        BY <1>1, <2>4, <3>1 DEF OwnerInv
  <1>3. ASSUME NEW d \in Daemons, Boot(d) \/ BootAfterFailedRead(d) PROVE OwnerInv' /\ FileKept
    <2>1. UNCHANGED <<file, owner>> /\ \A e \in Daemons : e # d => pc'[e] = pc[e]
      BY <1>3 DEF Boot, BootAfterFailedRead, Goto, tables, TypeOK
    <2>2. CASE pc'[d] = "bind"
      BY <1>2, <2>1, <2>2 DEF First, Bootstrapping
    <2>3. CASE "owner" \in slipped'
      BY <1>1, <2>1, <2>3 DEF OwnerInv
    <2>4. CASE /\ pc'[d] = "owner token" /\ ~owner /\ "owner" \notin slipped
               /\ \A e \in Daemons : pc[e] \notin Bootstrapping
      <3>1. \A e \in Daemons : e # d => pc'[e] \notin First
        BY <2>1, <2>4 DEF OwnerInv, First
      <3>2. file = None
        BY <2>4 DEF OwnerInv
      <3>3. QED
        BY <1>1, <2>1, <2>4, <3>1, <3>2 DEF OwnerInv, First
    <2>5. QED
      <3>1. CASE BootAfterFailedRead(d)
        BY <2>3, <3>1 DEF BootAfterFailedRead
      <3>2. CASE Boot(d) /\ owner
        <4>1. pc'[d] = "bind"
          BY <3>2 DEF Boot, BootstrapNeeded, Goto, TypeOK
        <4>2. QED
          BY <2>2, <4>1
      <3>3. CASE Boot(d) /\ ~owner
        <4>1. pc'[d] = "owner token"
          BY <3>3 DEF Boot, BootstrapNeeded, Goto, TypeOK
        <4>2. \/ "owner" \in slipped'
              \/ slipped' = slipped /\ \A e \in Daemons : pc[e] \notin Bootstrapping
          BY <3>3 DEF Boot, BootstrapNeeded
        <4>3. QED
          BY <2>3, <2>4, <3>3, <4>1, <4>2
      <3>4. QED
        BY <1>3, <3>1, <3>2, <3>3
  <1>4. ASSUME NEW d \in Daemons, InsertOwnerToken(d) \/ RegisterOwnerKey(d)
        PROVE  OwnerInv' /\ FileKept
    <2>1. /\ UNCHANGED <<file, owner>> /\ \A e \in Daemons : e # d => pc'[e] = pc[e]
          /\ pc[d] \in Bootstrapping /\ pc'[d] \in Bootstrapping
      BY <1>4 DEF InsertOwnerToken, RegisterOwnerKey, Goto, TypeOK, Bootstrapping
    <2>2. QED
      BY <1>2, <2>1
  <1>5. ASSUME NEW d \in Daemons, SetOwner(d) PROVE OwnerInv' /\ FileKept
    <2>1. /\ UNCHANGED <<file, slipped>> /\ owner' /\ \A e \in Daemons : e # d => pc'[e] = pc[e]
          /\ pc[d] = "owner config" /\ pc'[d] = "owner file"
      BY <1>5 DEF SetOwner, Goto, TypeOK
    <2>2. CASE "owner" \in slipped
      BY <1>1, <2>1, <2>2 DEF OwnerInv
    <2>3. CASE "owner" \notin slipped
      <3>1. file = None /\ \A e \in Daemons : e # d => pc'[e] \notin First
        BY <2>1, <2>3 DEF OwnerInv, First, Bootstrapping
      <3>2. pc'[d] \notin Bootstrapping
        BY <2>1 DEF Bootstrapping
      <3>3. QED
        BY <1>1, <2>1, <3>1, <3>2 DEF OwnerInv, First
    <2>4. QED
      BY <2>2, <2>3
  <1>6. ASSUME NEW d \in Daemons, WriteOwnerFile(d) PROVE OwnerInv' /\ FileKept
    <2>1. /\ file' = fresh[d] /\ UNCHANGED <<slipped, owner, principal, keys>>
          /\ \A e \in Daemons : e # d => pc'[e] = pc[e]
          /\ pc[d] = "owner file" /\ pc'[d] = "bind"
      BY <1>6 DEF WriteOwnerFile, Goto, TypeOK, tables
    <2>2. principal[fresh[d]] = "owner" /\ fresh[d] \in keys
      BY <2>1 DEF MintInv, OwnToken
    <2>3. ASSUME "owner" \notin slipped
          PROVE  file = None /\ owner /\ \A e \in Daemons : pc'[e] \notin First
      BY <2>1, <2>3 DEF OwnerInv, First, Bootstrapping
    <2>4. QED
      BY <2>1, <2>2, <2>3 DEF OwnerInv, FileKept, First
  <1>7. ASSUME NEW d \in Daemons,
               \/ SpawnDaemon(d) \/ BootstrapFails(d) \/ Bind(d) \/ Retire(d)
               \/ InsertConnectorsToken(d) \/ RegisterConnectorsKey(d) \/ SetConnectors(d)
               \/ MintingFails(d) \/ Crash(d) \/ Shutdown(d)
        PROVE  OwnerInv' /\ FileKept
    <2>1. UNCHANGED <<file, owner>>
      BY <1>7 DEF SpawnDaemon, BootstrapFails, Bind, Retire, InsertConnectorsToken,
                  RegisterConnectorsKey, SetConnectors, MintingFails, Crash, Shutdown, tables
    <2>2. \E l \in Places \ First : Goto(d, l)
      BY <1>7 DEF SpawnDaemon, BootstrapFails, Bind, Retire, InsertConnectorsToken,
                  RegisterConnectorsKey, SetConnectors, MintingFails, Crash, Shutdown, Stop,
                  Places, Listening, First, Bootstrapping
    <2>3. \A e \in Daemons : pc'[e] \in First => pc'[e] = pc[e]
      BY <2>2 DEF Goto, TypeOK
    <2>4. QED
      BY <1>2, <2>1, <2>3
  <1>8. CASE ForceKill
    <2>1. UNCHANGED <<file, owner>> /\ \A d \in Daemons : pc'[d] \notin First
      BY <1>8 DEF ForceKill, First, Bootstrapping, tables
    <2>2. QED
      BY <1>2, <2>1
  <1>9. CASE UNCHANGED <<file, owner, pc>>
    BY <1>2, <1>9
  <1>10. QED
    BY <1>3, <1>4, <1>5, <1>6, <1>7, <1>8, <1>9 DEF Next, vars, tables, daemon, Middleware,
       CreateToken, KeyOfCreated, ReplyCreated, RevokeCall, OtherCall, Seal, OpenEnvelope, Dispatch, Tick

-----------------------------------------------------------------------------
(* Replays, the connectors' current token, and the whole.                  *)

LEMMA ReplayStep == AccessInv /\ [Next]_vars => ReplayInv'
  <1> SUFFICES ASSUME AccessInv, [Next]_vars PROVE ReplayInv'
    OBVIOUS
  <1> TypeOK /\ ReplayInv
    BY DEF AccessInv
  <1>1. ASSUME NEW e \in Envelopes, OpenEnvelope(e) PROVE ReplayInv'
    <2>1. now \in Nat /\ e.ts \in Nat
      BY DEF TypeOK, Envelopes
    <2>2. now - e.ts <= Window /\ e.ts - now <= Window
      BY <1>1, <2>1 DEF OpenEnvelope, Opens, InWindow, Distance
    <2>3. ran' = [ran EXCEPT ![e] = @ \cup {now}]
      BY <1>1 DEF OpenEnvelope
    <2>4. QED
      BY <2>2, <2>3 DEF ReplayInv, TypeOK
  <1>2. CASE UNCHANGED ran
    BY <1>2 DEF ReplayInv
  <1>3. QED
    BY <1>1, <1>2 DEF Next, vars, SpawnDaemon, Boot, BootAfterFailedRead,
       InsertOwnerToken, RegisterOwnerKey, SetOwner, WriteOwnerFile, BootstrapFails, Bind, Retire,
       InsertConnectorsToken, RegisterConnectorsKey, SetConnectors, MintingFails, Crash, Shutdown,
       ForceKill, Middleware, CreateToken, KeyOfCreated, ReplyCreated, RevokeCall, OtherCall,
       Seal, Dispatch, Tick

LEMMA CurrentStep == AccessInv /\ [Next]_vars => ConnectorsRunCurrent'
  <1> SUFFICES ASSUME AccessInv, [Next]_vars PROVE ConnectorsRunCurrent'
    OBVIOUS
  <1> TypeOK /\ MintInv /\ ConnectorsRunCurrent /\ TablesKept
    BY TablesStep DEF AccessInv
  <1>1. ASSUME NEW d \in Daemons, SetConnectors(d) PROVE ConnectorsRunCurrent'
    BY <1>1 DEF SetConnectors, MintInv, OwnToken, ConnectorsRunCurrent
  <1>2. CASE UNCHANGED connectors /\ (client' = client \/ client' = None)
    BY <1>2 DEF ConnectorsRunCurrent, TablesKept
  <1>3. QED
    BY <1>1, <1>2 DEF Next, vars, tables, daemon, SpawnDaemon, Boot, BootAfterFailedRead,
       InsertOwnerToken, RegisterOwnerKey, SetOwner, WriteOwnerFile, BootstrapFails, Bind, Retire,
       InsertConnectorsToken, RegisterConnectorsKey, MintingFails, NoClientToken, Crash, Shutdown, Stop,
       ForceKill, Middleware, CreateToken, KeyOfCreated, ReplyCreated, RevokeCall, OtherCall,
       Seal, OpenEnvelope, Dispatch, Tick

LEMMA AccessInvariant == Spec => []AccessInv
  <1>1. AccessInv /\ [Next]_vars => AccessInv'
    BY TypeStep, PortStep, MintStep, RotationStep, OwnerStep, ReplayStep, CurrentStep DEF AccessInv
  <1>2. QED
    BY InitAccess, <1>1, PTL DEF Spec

-----------------------------------------------------------------------------
(* The theorems.                                                           *)

\* Wherever starts are interrupted, however many daemons start, and whatever the
\* owner revokes meanwhile: once requests are served, no token that connectors
\* ran with earlier is live, unless its revocation failed; and the one they run
\* with is the one the database names. (main.rs, auth_store.rs)
THEOREM ConnectorsTokenIsRotated == Spec => []ConnectorsInv
  <1>1. ASSUME TypeOK, RotationInv PROVE OldConnectorsAreDead
    <2> SUFFICES ASSUME NEW d \in Daemons, pc[d] = "up",
                        NEW t \in told, principal[t] = "connectors", t # client
                 PROVE  row[t] = "revoked" \/ t \in slipped
      BY DEF OldConnectorsAreDead, Serving
    <2>1. t # None
      BY <1>1 DEF TypeOK
    <2>2. row[t] = "revoked" \/ t \in slipped \/ t = connectors
      BY <1>1 DEF RotationInv
    <2>3. connectors # None => connectors = client \/ row[connectors] = "revoked" \/ connectors \in slipped
      BY <1>1 DEF RotationInv
    <2>4. QED
      BY <2>1, <2>2, <2>3
  <1>2. AccessInv => ConnectorsInv
    BY <1>1 DEF AccessInv, ConnectorsInv
  <1>3. QED
    BY <1>2, AccessInvariant, PTL

\* The bootstrap hands out one owner token, and it works. (auth.rs:339-410)
THEOREM OneOwnerToken == Spec => BootstrapHandsOutOne
  <1>1. AccessInv /\ [Next]_vars => [file' # file => file = None \/ "owner" \in slipped]_vars
    BY OwnerStep DEF FileKept
  <1>2. AccessInv => (file # None => principal[file] = "owner" /\ file \in keys)
    BY DEF AccessInv, OwnerInv
  <1>3. QED
    BY <1>1, <1>2, AccessInvariant, PTL DEF Spec, BootstrapHandsOutOne

\* A recorded envelope is accepted again within two windows at most, for every
\* window and however far the sender's clock is off. (e2e handler)
THEOREM ReplaysEnd == Spec => []ReplaysAreBounded
  <1>1. ASSUME TypeOK, ReplayInv PROVE ReplaysAreBounded
    <2> SUFFICES ASSUME NEW e \in sealed, NEW a \in ran[e], NEW b \in ran[e]
                 PROVE  a - b <= 2 * Window
      BY DEF ReplaysAreBounded
    <2>1. e \in Envelopes /\ ran[e] \subseteq 0 .. MaxTime
      BY <1>1 DEF TypeOK
    <2>2. e.ts \in Nat /\ a \in Nat /\ b \in Nat
      BY <2>1 DEF Envelopes
    <2>3. a - e.ts <= Window /\ e.ts - b <= Window
      BY <1>1, <2>1 DEF ReplayInv
    <2>4. QED
      BY <2>2, <2>3
  <1>2. AccessInv => ReplaysAreBounded
    BY <1>1 DEF AccessInv
  <1>3. QED
    BY <1>2, AccessInvariant, PTL
=============================================================================
