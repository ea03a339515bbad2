---- MODULE Access ----
(* Tokens and authentication (auth.rs, auth_store.rs, the start of main.rs):  *)
(* the owner's bootstrap, the connectors' token that is rotated at each boot, *)
(* the administration of tokens, the middleware every request passes, and     *)
(* sealed requests. Every statement is a commit of its own, and the daemon    *)
(* may stop between two of them. A token stands for its plaintext, its hash   *)
(* and the end-to-end key derived from it. Scopes are the subject of Matching.*)
EXTENDS Integers, FiniteSets, Functions

CONSTANTS Tokens,      \* the fresh tokens of a behaviour (bound)
          Daemons,     \* the processes that may run mellowmeshd on the database
          RequireAuth,
          Window,      \* REPLAY_WINDOW_SECS
          MaxTime,     \* bound on the clock
          MaxSealed,   \* bound on the envelopes
          MaxFaults    \* bound on crashes, kills and failing statements

None == "none"

ASSUME AccessAssumption == /\ None \notin Tokens
                           /\ RequireAuth \in BOOLEAN /\ Window \in Nat
                           /\ MaxTime \in Nat
                           /\ MaxSealed \in Nat /\ MaxFaults \in Nat

VARIABLES
  row,          \* table tokens: "none", "live" or "revoked"
  principal,    \* table tokens: whom a token authenticates
  keys,         \* table e2e_keys
  owner,        \* app_config: owner_principal is set
  connectors,   \* app_config: connectors_token_id, or None
  file,         \* the token in owner.token (or, if that failed, in the log)
  pc,           \* where the main of each daemon stands
  fresh,        \* the token it is minting
  client,       \* the token the connectors run with
  call,         \* the request in flight
  sealed,       \* envelopes ever sealed; any may arrive again
  now, faults,
  told,         \* history: tokens whose plaintext was handed out
  ran,          \* history: when an envelope was accepted
  slipped       \* history: what a failing read or revocation at a start let through

tables == <<row, principal, keys, owner, connectors>>
daemon == <<pc, fresh, client, call>>
vars == <<tables, daemon, file, sealed, now, faults, told, ran, slipped>>

Principals == {"owner", "connectors", "agent"}
Idle == [st |-> "idle", token |-> None, new |-> None]
Unused == {t \in Tokens : row[t] = "none" /\ t \notin Range(fresh) /\ call.new # t}
Bootstrapping == {"owner token", "owner key", "owner config"}
Listening == {"retire", "token", "key", "config", "up"}
Places == {"down", "starting", "owner file", "bind"} \cup Bootstrapping \cup Listening
Calls == [st : {"idle", "opened", "admitted", "key", "reply"},
          token : Tokens \cup {None}, new : Tokens \cup {None}]
Serving == \E d \in Daemons : pc[d] = "up"
Envelopes == [token : Tokens, ts : 0..MaxTime]

TypeOK ==
  /\ row \in [Tokens -> {"none", "live", "revoked"}]
  /\ principal \in [Tokens -> Principals \cup {None}]
  /\ \A t \in Tokens : row[t] = "none" <=> principal[t] = None
  /\ keys \subseteq Tokens /\ owner \in BOOLEAN
  /\ connectors \in Tokens \cup {None} /\ file \in Tokens \cup {None}
  /\ pc \in [Daemons -> Places]
  /\ fresh \in [Daemons -> Tokens \cup {None}] /\ client \in Tokens \cup {None}
  /\ call \in Calls
  /\ sealed \subseteq Envelopes
  /\ now \in 0..MaxTime /\ faults \in 0..MaxFaults
  /\ told \subseteq Tokens /\ slipped \subseteq Tokens \cup {"owner"}
  /\ ran \in [Envelopes -> SUBSET (0..MaxTime)]

Init ==
  /\ row = [t \in Tokens |-> "none"] /\ principal = [t \in Tokens |-> None]
  /\ keys = {} /\ owner = FALSE /\ connectors = None /\ file = None
  /\ pc = [d \in Daemons |-> "down"] /\ fresh = [d \in Daemons |-> None] /\ client = None /\ call = Idle
  /\ sealed = {} /\ now = 0 /\ faults = 0 /\ told = {} /\ slipped = {}
  /\ ran = [e \in Envelopes |-> {}]

----
(* Tables (auth_store.rs)                                                     *)

InsertToken(t, p) == /\ row' = [row EXCEPT ![t] = "live"]
                     /\ principal' = [principal EXCEPT ![t] = p]
RevokeToken(t) == row' = [row EXCEPT ![t] = IF @ = "none" THEN @ ELSE "revoked"]
RegisterKey(t) == keys' = keys \cup {t}

(* The start of a daemon: bootstrap_owner, the port, then the connectors'      *)
(* token. The principals are upserted with the token's row: nothing reads     *)
(* them before.                                                               *)

Goto(d, l) == pc' = [pc EXCEPT ![d] = l]
Mint(d) == \E t \in Unused : fresh' = [fresh EXCEPT ![d] = t]
Done(d) == fresh' = [fresh EXCEPT ![d] = None]

\* A client that finds nobody on the port starts a daemon; two clients may.
SpawnDaemon(d) ==
  /\ pc[d] = "down" /\ \A e \in Daemons : pc[e] \notin Listening
  /\ Goto(d, "starting")
  /\ UNCHANGED <<tables, fresh, client, call, file, sealed, now, faults, told, ran, slipped>>

BootstrapAlways == TRUE
BootstrapNeeded == ~owner

\* Two daemons that start at once both find that they are the first.
Boot(d) ==
  /\ pc[d] = "starting"
  /\ IF BootstrapNeeded
     THEN /\ Goto(d, "owner token") /\ Mint(d)
          /\ slipped' = IF ~owner /\ \E e \in Daemons : pc[e] \in Bootstrapping
                        THEN slipped \cup {"owner"} ELSE slipped
     ELSE Goto(d, "bind") /\ UNCHANGED <<fresh, slipped>>
  /\ UNCHANGED <<tables, client, call, file, sealed, now, faults, told, ran>>

\* A stored owner that cannot be read is as good as none.
BootAfterFailedRead(d) ==
  /\ pc[d] = "starting" /\ owner /\ faults < MaxFaults
  /\ faults' = faults + 1 /\ slipped' = slipped \cup {"owner"}
  /\ Goto(d, "owner token") /\ Mint(d)
  /\ UNCHANGED <<tables, client, call, file, sealed, now, told, ran>>

InsertOwnerToken(d) ==
  /\ pc[d] = "owner token" /\ InsertToken(fresh[d], "owner") /\ Goto(d, "owner key")
  /\ UNCHANGED <<keys, owner, connectors, fresh, client, call, file, sealed, now, faults, told, ran, slipped>>

RegisterOwnerKey(d) ==
  /\ pc[d] = "owner key" /\ RegisterKey(fresh[d]) /\ Goto(d, "owner config")
  /\ UNCHANGED <<row, principal, owner, connectors, fresh, client, call, file, sealed, now,
                 faults, told, ran, slipped>>

SetOwner(d) ==
  /\ pc[d] = "owner config" /\ owner' = TRUE /\ Goto(d, "owner file")
  /\ UNCHANGED <<row, principal, keys, connectors, fresh, client, call, file, sealed, now,
                 faults, told, ran, slipped>>

WriteOwnerFile(d) ==
  /\ pc[d] = "owner file" /\ file' = fresh[d] /\ told' = told \cup {fresh[d]}
  /\ Done(d) /\ Goto(d, "bind")
  /\ UNCHANGED <<tables, client, call, sealed, now, faults, ran, slipped>>

\* A failing statement ends the bootstrap; the daemon starts all the same.
BootstrapFails(d) ==
  /\ pc[d] \in Bootstrapping /\ faults < MaxFaults
  /\ faults' = faults + 1 /\ Done(d) /\ Goto(d, "bind")
  /\ UNCHANGED <<tables, client, call, file, sealed, now, told, ran, slipped>>

\* The port goes to one daemon; another that asks for it ends.
Bind(d) ==
  /\ pc[d] = "bind"
  /\ Goto(d, IF \E e \in Daemons : pc[e] \in Listening THEN "down"
             ELSE IF RequireAuth THEN "retire" ELSE "up")
  /\ UNCHANGED <<tables, fresh, client, call, file, sealed, now, faults, told, ran, slipped>>

RetireNothing == UNCHANGED row
RetireConnectors == IF connectors = None THEN UNCHANGED row ELSE RevokeToken(connectors)

\* The connectors' last token is revoked, and a new one minted. Whether the
\* revocation works is not looked at.
Retire(d) ==
  /\ pc[d] = "retire" /\ Goto(d, "token") /\ Mint(d)
  /\ \/ RetireConnectors /\ UNCHANGED <<faults, slipped>>
     \/ /\ connectors # None /\ faults < MaxFaults /\ faults' = faults + 1
        /\ slipped' = slipped \cup {connectors} /\ UNCHANGED row
  /\ UNCHANGED <<principal, keys, owner, connectors, client, call, file, sealed, now, told, ran>>

InsertConnectorsToken(d) ==
  /\ pc[d] = "token" /\ InsertToken(fresh[d], "connectors") /\ Goto(d, "key")
  /\ UNCHANGED <<keys, owner, connectors, fresh, client, call, file, sealed, now, faults, told, ran, slipped>>

RegisterConnectorsKey(d) ==
  /\ pc[d] = "key" /\ RegisterKey(fresh[d]) /\ Goto(d, "config")
  /\ UNCHANGED <<row, principal, owner, connectors, fresh, client, call, file, sealed, now,
                 faults, told, ran, slipped>>

SetConnectors(d) ==
  /\ pc[d] = "config" /\ connectors' = fresh[d] /\ client' = fresh[d]
  /\ told' = told \cup {fresh[d]} /\ Done(d) /\ Goto(d, "up")
  /\ UNCHANGED <<row, principal, keys, owner, call, file, sealed, now, faults, ran, slipped>>

\* A failing statement leaves the connectors without a token.
NoClientToken == client

MintingFails(d) ==
  /\ pc[d] \in {"token", "key", "config"} /\ faults < MaxFaults
  /\ faults' = faults + 1 /\ Done(d) /\ client' = NoClientToken /\ Goto(d, "up")
  /\ UNCHANGED <<tables, call, file, sealed, now, told, ran, slipped>>

\* The connectors and the requests belong to the daemon that has the port.
Stop(d) == /\ Goto(d, "down") /\ Done(d)
           /\ IF pc[d] \in Listening THEN client' = None /\ call' = Idle
              ELSE UNCHANGED <<client, call>>

Crash(d) ==
  /\ pc[d] # "down" /\ faults < MaxFaults
  /\ Stop(d) /\ faults' = faults + 1
  /\ UNCHANGED <<tables, file, sealed, now, told, ran, slipped>>

\* The command line's last resort, when the one on the port does not stop: every
\* mellowmeshd is killed, one that is still starting as well.
ForceKill ==
  /\ \E d \in Daemons : pc[d] \in Listening
  /\ faults < MaxFaults /\ faults' = faults + 1
  /\ pc' = [d \in Daemons |-> "down"] /\ fresh' = [d \in Daemons |-> None]
  /\ client' = None /\ call' = Idle
  /\ UNCHANGED <<tables, file, sealed, now, told, ran, slipped>>

----
(* Requests: the middleware, then a handler of the token endpoints.           *)

Live(t) == t # None /\ row[t] = "live"

\* A bearer token that is not live is refused, and no token is only enough in
\* open mode.
Admits(t) == Live(t) \/ (t = None /\ ~RequireAuth)

Middleware(t) ==
  /\ Serving /\ call.st = "idle" /\ (t = None \/ t \in told)
  /\ Admits(t) /\ call' = [Idle EXCEPT !.st = "admitted", !.token = t]
  /\ UNCHANGED <<tables, pc, fresh, client, file, sealed, now, faults, told, ran, slipped>>

IsAdmin == IF call.token = None THEN ~RequireAuth ELSE principal[call.token] = "owner"

\* create_token: the row, then the key, whose failure is ignored, then the reply.
CreateToken ==
  /\ call.st = "admitted" /\ IsAdmin
  /\ \E t \in Unused, p \in {"owner", "agent"} :
       InsertToken(t, p) /\ call' = [call EXCEPT !.st = "key", !.new = t]
  /\ UNCHANGED <<keys, owner, connectors, pc, fresh, client, file, sealed, now, faults, told, ran, slipped>>

KeyOfCreated ==
  /\ call.st = "key" /\ call' = [call EXCEPT !.st = "reply"]
  /\ \/ RegisterKey(call.new) /\ UNCHANGED faults
     \/ faults < MaxFaults /\ faults' = faults + 1 /\ UNCHANGED keys
  /\ UNCHANGED <<row, principal, owner, connectors, pc, fresh, client, file, sealed, now, told, ran, slipped>>

ReplyCreated ==
  /\ call.st = "reply" /\ call' = Idle /\ told' = told \cup {call.new}
  /\ UNCHANGED <<tables, pc, fresh, client, file, sealed, now, faults, ran, slipped>>

RevokeCall ==
  /\ call.st = "admitted" /\ IsAdmin /\ call' = Idle
  /\ \E t \in Tokens : row[t] # "none" /\ RevokeToken(t)
  /\ UNCHANGED <<principal, keys, owner, connectors, pc, fresh, client, file, sealed, now,
                 faults, told, ran, slipped>>

\* Any other endpoint, or a refusal of the two above.
OtherCall ==
  /\ call.st = "admitted" /\ call' = Idle
  /\ UNCHANGED <<tables, pc, fresh, client, file, sealed, now, faults, told, ran, slipped>>

\* shutdown_handler: the server stops when the requests in flight are through.
Shutdown(d) ==
  /\ pc[d] = "up" /\ call.st = "admitted" /\ Stop(d)
  /\ UNCHANGED <<tables, file, sealed, now, faults, told, ran, slipped>>

----
(* Sealed requests: e2e_request of the client, handle_e2e_request.            *)

\* A client, whose clock may be off, seals a request with its token.
Seal(e) ==
  /\ Cardinality(sealed) < MaxSealed /\ e \notin sealed /\ e.token \in told
  /\ sealed' = sealed \cup {e}
  /\ UNCHANGED <<tables, daemon, file, now, faults, told, ran, slipped>>

Distance(a, b) == IF a > b THEN a - b ELSE b - a
NotTooOld(e) == now - e.ts <= Window
InWindow(e) == Distance(now, e.ts) <= Window

\* The middleware opens a subscription's sealed proof, and the endpoint a sealed
\* request, if the key is stored and the time is right.
Opens(e) == e.token \in keys /\ InWindow(e)

\* The envelope is opened, ...
OpenEnvelope(e) ==
  /\ Serving /\ call.st = "idle" /\ e \in sealed /\ Opens(e)
  /\ call' = [Idle EXCEPT !.st = "opened", !.token = e.token]
  /\ ran' = [ran EXCEPT ![e] = @ \cup {now}]
  /\ UNCHANGED <<tables, pc, fresh, client, file, sealed, now, faults, told, slipped>>

\* ... and the request goes through the middleware with the token inside.
Dispatch ==
  /\ call.st = "opened"
  /\ IF Admits(call.token) THEN call' = [call EXCEPT !.st = "admitted"] ELSE call' = Idle
  /\ UNCHANGED <<tables, pc, fresh, client, file, sealed, now, faults, told, ran, slipped>>

\* Only envelopes look at the clock: it starts with the first.
Tick == /\ sealed # {} /\ now < MaxTime /\ now' = now + 1
        /\ UNCHANGED <<tables, daemon, file, sealed, faults, told, ran, slipped>>

Next == \/ \E d \in Daemons : \/ SpawnDaemon(d) \/ Boot(d) \/ BootAfterFailedRead(d)
                              \/ InsertOwnerToken(d) \/ RegisterOwnerKey(d) \/ SetOwner(d)
                              \/ WriteOwnerFile(d) \/ BootstrapFails(d) \/ Bind(d) \/ Retire(d)
                              \/ InsertConnectorsToken(d) \/ RegisterConnectorsKey(d)
                              \/ SetConnectors(d) \/ MintingFails(d) \/ Crash(d) \/ Shutdown(d)
        \/ ForceKill
        \/ \E t \in Tokens \cup {None} : Middleware(t)
        \/ CreateToken \/ KeyOfCreated \/ ReplyCreated \/ RevokeCall \/ OtherCall
        \/ \E e \in Envelopes : Seal(e) \/ OpenEnvelope(e)
        \/ Dispatch \/ Tick

Spec == Init /\ [][Next]_vars

----
(* Properties                                                                 *)

\* However often the first start is interrupted and repeated, the bootstrap
\* hands out one owner token, unless a start fails to read that it ran or two
\* daemons start at once, and even then what owner.token holds is the owner's
\* and has its key: it works plainly and sealed until it is revoked.
\* (auth.rs:339-410, autostart.rs:15-52)
BootstrapHandsOutOne ==
  /\ [][file' # file => file = None \/ "owner" \in slipped]_vars
  /\ [](file # None => principal[file] = "owner" /\ file \in keys)

\* Every token that connectors of an earlier start ran with is revoked by the
\* time the daemon serves requests, wherever a start was interrupted, but for
\* one whose revocation failed: the next start does not know of it.
OldConnectorsAreDead ==
  Serving => \A t \in told : principal[t] = "connectors" /\ t # client
                                 => row[t] = "revoked" \/ t \in slipped

\* The connectors' token is never revoked under them by a start of the daemon,
\* only by its owner: what runs is what the database says is current.
ConnectorsRunCurrent == client # None => client = connectors /\ client \in keys

\* The tables have their types, and hold what the two statements above say of
\* the connectors' tokens.
ConnectorsInv == TypeOK /\ OldConnectorsAreDead /\ ConnectorsRunCurrent

\* An envelope that arrives again is accepted over a span of two windows at
\* most, whatever its sender's clock showed.
ReplaysAreBounded ==
  \A e \in sealed : \A a, b \in ran[e] : a - b <= 2 * Window

\* "On first run the daemon creates the owner principal and a full-access owner
\* token, written next to the database as owner.token" (docs/security.md:19).
\* Not kept by the code: see README, "Statements that do not hold".
OwnerCanLogIn == Serving /\ owner => file # None
====
