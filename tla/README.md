# MellowMesh in TLA+

MellowMesh is a local message fabric for software agents: a daemon that accepts
messages over HTTP, delivers them live over WebSockets, stores them in SQLite,
keeps a board of tasks that agents claim under leases, asks people for decisions
through chat connectors, and links to other daemons and to a public relay. This
directory holds TLA+ models of its parts, TLC configurations that check them on
small instances, and TLAPS proofs that hold for every instance. All source paths
below are relative to `src/crates/` unless they begin with `src/`.

Contents: [inventory](#inventory), [modules](#the-modules),
[runs](#the-runs), [fairness](#fairness), [proofs](#the-proofs),
[statements that do not hold](#statements-that-do-not-hold),
[observations](#observations), [abstractions](#abstractions),
[not modelled](#not-modelled), [plan](#plan).

## Inventory

| Component | State | Operations | Hard behaviour | What makes it correct | Module |
|---|---|---|---|---|---|
| Task claims and leases (`mellowmesh-store/src/task_store.rs`, daemon `handlers/task.rs`) | table `tasks` | create, claim (one UPDATE and, if refused, a second look), heartbeat, complete | timestamps are taken before the statement that uses them; no transactions; agents crash | one live claimant at a time; a live lease is not taken away; finished stays finished | `TaskLease` |
| Lease sweep (daemon `sweeper.rs`) | the list it selected | select, reopen row by row, announce | rows change after the select; a statement fails in the middle; the daemon dies before it announces; an announcement is refused | reopens only what has expired; announces what it reopened or logs why not; a crashed agent's claim ends | `TaskLease` |
| Persistence pipeline (daemon `pipeline.rs`) | two bounded queues, two `Notify` permits, two workers | push under an overflow policy, pop a batch, retry | check-then-wait without the lock, one wake-up for a batch, cancelled handlers | no lost wake-up, no stranded publisher, order kept | `MessagePipeline` |
| Message store (`mellowmesh-store/src/message_store.rs`, `persistence_impl.rs`) | tables `messages`, `messages_fts` | write a batch, index a batch, purge, history, context with lineage | purge, writer and indexer run side by side; a context is read in many statements; replaced ids; parents that loop or are gone | order kept; what is read back is exactly what there is to read | `MessagePipeline`, `Reads` |
| Publish path (daemon `handlers/message.rs`) | none of its own | registry events, mentions, heartbeat, schema, trace check, broadcast, queueing | side effects before the last check; broadcast before persistence | each stage does its own part whatever the others do | in the module of what each stage changes |
| Subscriptions (daemon `subscription.rs`, `server.rs`) | registry, a queue per subscriber, two tasks per socket | register, broadcast, send, receive, end | overflow, either task ends first, clients vanish | ordered delivery without gaps; nothing leaks | `Subscriptions` |
| Relay and its link (`mellowmesh-relay/src/lib.rs`, daemon `relay_link.rs`) | linked hubs, pending requests, streams, bridges | link, forward, answer, time out, open and close streams | relink races the old link's cleanup; late answers; a close that overtakes the open; no keepalive: an end may never notice that the other is gone | a newer link is left alone; "offline" means nothing was run; orphan bridges stop and replaced links close, unless an end is half open | `Relay` |
| Decisions (`mellowmesh-store/src/decision_store.rs`, daemon `handlers/decision.rs`) | table `decisions` | create and announce, respond | people answer in two chats and over HTTP; programs create decisions | answers come by the endpoint for people (not all do: [statements that do not hold](#statements-that-do-not-hold)); a card follows its decision | `Decisions` |
| Connectors (`mellowmesh-connectors/src/lib.rs`) | last post, offset, batch, subscriptions, all in memory | poll Discord and Telegram, forward the forum, announce, relay answers | restarts poll again; the offset moves before the update is handled; the order of a batch is Discord's | none passed over between restarts, no echo, every update handled | `Decisions` |
| Peers and registries (daemon `peer.rs`, `handlers/named_topic.rs`, `handlers/message.rs`) | table `named_topics`, links | forward to peers, apply registry messages, copy mentions | cycles, links that are down or full, messages refused after they were applied, copies with ids of their own | no message circulates, none is held back but where it or its original has been; registries agree | `Mesh` |
| Trace sessions (daemon `trace_mgr.rs`) | table `trace_sessions`, rate counters | enable, disable, check | checks of several publishers race expiry and disabling | nothing passes without an open session; the rate is bounded | `Traces` |
| Wiki (daemon `wiki_sync.rs`, `handlers/wiki.rs`, store `wiki_store.rs`) | files, tables `wiki_pages`, `_fts`, `wiki_links` | write, delete, search, graph, sync | a sync against writers; handlers and transactions that stop half-way; searches in several statements | the three tables agree; a search shows the links of the text it shows, but for pages that change under it; a quiet sync makes pages and files agree | `Wiki` |
| Tokens and authentication (daemon `auth.rs`, `main.rs`, store `auth_store.rs`) | tables `tokens`, `e2e_keys`, `app_config`, `owner.token` | bootstrap, rotate, create, revoke, authenticate, open a sealed request | a stop between any two statements; two daemons starting at once; replays | one owner token is handed out; old connector tokens die; replays end | `Access` |
| Topic matching, policies (`mellowmesh-core/src/topic.rs`, `persistence.rs`) | none | match, resolve | `**` anywhere and twice, the order of the rules | agrees with a declarative definition; inboxes are kept | `TopicMatching`, `TopicRoutes` |
| Mentions (`mellowmesh-core/src/mentions.rs`) | position in the text, what was found | parse | names that begin alike, brackets that do not close, padding | the first reading at each place, each link once | `Mentions` |
| Schemas (`mellowmesh-store/src/sqlite.rs`, daemon `handlers/schema.rs`) | table `topic_schemas` | add, pause, remove, choose | replacing reactivates; several versions | no message on a topic with a schema goes unchecked | `Reads` |
| Autostart, command line (`mellowmesh-client/src/autostart.rs`, `mellowmesh-cli/src/commands.rs`) | none | start, stop, kill the daemon | two clients start one each | see tokens | `Access` |
| Identity mappings, hot buffer, WASM coordinator, MCP server, metrics and notifications | | | | | see [not modelled](#not-modelled) |

How they interact: an HTTP handler of the daemon runs the *publish path*, which
applies registry events, routes mentions, renews *leases*, asks the *trace
manager*, calls `SubscriptionRegistry::broadcast` (shared memory, under a mutex)
and pushes on the *pipeline*. The pipeline's workers and the *sweeper* share the
*store* with the handlers, each on a pooled SQLite connection, so the only
atomic unit is one SQL statement (or an explicit transaction, as in
`persist_batch` and `save_wiki_page`). The sweeper calls the publish path to
announce reopened tasks. Relay link, peers and connectors are tasks of their own
that use the daemon's HTTP interface, or subscribe to it, like any other client;
every request passes the *middleware* first.

`PROJECT.json` lists the hazards found in this code, each at its line with the
properties that watch it.

## The modules

| Module | Models | Relation to others |
|---|---|---|
| `TaskBoard` | the promise of the task table, without clocks or requests | refined by `TaskLease` |
| `TaskLease` | the table `tasks`, claim handlers, heartbeats, the sweep, crashes | |
| `MessagePipeline` | handlers at the queues, both workers, the two tables, the purge, daemon stops | |
| `Subscriptions` | registry, broadcast, socket handlers, clients | |
| `Relay` | relay, daemon and remote clients around one hub id | composes `mellowmesh-relay` with the daemon's end of the link |
| `Decisions` | decisions, connectors and the two chat services | composes the table, its handlers and the connectors |
| `Mesh` | daemons that listen to each other, registry and mention copies | composes the publish path with the links of several daemons |
| `Traces` | sessions, counters, publishers that check | |
| `Wiki` | directory, tables, page handlers, sync | composes handlers, store and sync |
| `Access` | start of the daemon, tokens, middleware, sealed requests | composes autostart, `main`, token handlers and store |
| `TopicMatching` | patterns, scopes, the policy of a topic: functions, no state | extended by `TopicRoutes` and `Reads` |
| `TopicRoutes` | every pattern and every topic, grown segment by segment | |
| `Reads` | what is stored, purged and read back: contexts, schemas | |
| `Mentions` | the parser of a message's text | |
| `MC...` | values for TLC: posted rows, patterns, links, symmetry | extend their module; `MCReads` extends the last three |
| `...Proofs` | theorems | extend their module; `TaskLeaseProofs` also `Decisions`, `SubscriptionsProofs` also `TopicRoutes`, `MessagePipelineProofs` also `Reads` and `Mentions` |

### TaskLease

One SQL statement is one step. `claim_task` is three: `ClaimRequest` takes the
timestamps (`Utc::now` before the UPDATE, task_store.rs:124-125),
`ClaimGranted`/`ClaimRefused` is the UPDATE, `ClaimAnswered` the second look at
the row. The sweep takes its timestamp (`SweepTick`), selects (`SweepSelect`),
reopens one row per step under the condition of the UPDATE (`SweepRelease`),
then announces every row it had *selected* (`AnnounceReclaimed`). An announcement
is published (`Published`) or an error that is logged and not tried again
(`PublishErr`: a task id that makes no topic, a schema on `_task.**`, a lookup
that fails). `Progress` is
the heartbeat of `handle_publish`. `CompleteTask` has no condition on status or
caller, because the UPDATE has none. The `status` values are those the store's
statements distinguish.

Time is in whole seconds, the resolution of the text in the table. Comparison
is that of text: `ChronoText` and `StrftimeText` say what becomes of an instant
after the year 9999 (`Horizon`), where chrono writes a leading `+` and SQLite's
`strftime` returns NULL. The expiry of a claim comes from a clock read a few
instructions after `now`; the two reads are one here.

`told` records what the last granted claim told the agent. It is the agent's
view, and `ToldLeasesExclusive` is about that view rather than about the row.
`owed` and `refused` are history variables for the announcements: what was
reopened and not published, and what the daemon refused to publish.

`TaskBoard` has phases, a holder and a flag `live`. Its `Take` allows an agent
to take an open task, its own, or one whose hold has lapsed; `Reopen` needs a
lapsed hold. `ImplementsBoard` maps the row to it (`BoardPhase`, `BoardHolder`,
`BoardLive`); the passing of time is `Lapse`.

### MessagePipeline

Every message has its handler: `Publish` reaches `queue_message`; `Enqueue`,
`EvictOldest` and `FindFull` are the three outcomes of `BoundedQueue::push`
under the queue's mutex. `FindFull` releases it, and `AwaitRoom` begins to wait,
as `notify_tx.notified().await` does after the lock is dropped. `HangUp` is the
client that disconnects: the server drops the future where it waits, and a
`Notified` that has been notified already hands the notification on. The
persistence worker is `PopBatch`/`FindEmpty`/`AwaitMessages`/`WriteBatch`/
`WriteFails`. A `Notify` is one Boolean permit plus the waiters; `notify_one`
may wake any waiter (tokio wakes the first: the model allows more).

`Decisions` are messages on `_decision.` and `_control.` topics, whose policy is
`BlockPublisher`; all others drop the oldest entry. Both use the one queue. The
index worker has the same kind of queue; its sleep is a guard, because the same
two-step sleep is already examined on the persistence queue. `PurgeIndex` and
`PurgeRows` are the two DELETE statements of `delete_messages_before`, under one
cutoff. `DaemonStop` is a crash and a graceful shutdown alike: `main` does not
drain the queues before it exits.

### Subscriptions

`Upgrade` (the client has its response) precedes `Register` (`handle_socket`
begins). `Broadcast` runs under the registry's mutex: it serves every entry
whose pattern matches, and removes those whose queue is full. The sending task
is `Pop`/`FindEmpty`/`AwaitMessages`/`Send`/`SendFails`; scopes are applied in
`Pop`, as in the code, not in the broadcast. The receiving task ends with
`ReadClose` or `ReadEnd` and unregisters. `Select` is `tokio::select!`; after it
the other task is aborted, but a task that runs on another thread ends only at
its next suspension, so `AbortSender` and `AbortReceiver` are steps of their own
and the tasks may act until then. `Remove` is the handler's own unregistration.

Messages carry the number of their broadcast, so order and gaps can be read off
`sent`, `held` and `queue`. `since` and `until` are history variables.

### Relay

One hub id, several links dialled one after another; a link's relay-side
handler goes through `registering`, `up`, `closing`, `clearing`, `done`. The
end of a link is not one step: `ReaderEnds`/`WriterEnds` (whichever
`tokio::select!` sees first), `WriterDropped` (the aborted writer and its
receiver), `Unregister` (which looks at whether the registered channel is
*closed*, lib.rs:203-211, and so may find the newer link's), `ClearStreams`. A
channel is open while its receiver exists (`writer`). The link's key may differ
from one dial to the next when the stored key is not read (`Reject`); a link whose
connection ends before its register frame is read is `NoRegister`.

The two ends of a connection fail apart (`RelayLoses`, `DaemonLoses`), and of
the frames that were sent the first few arrive (`Arrived`). Neither side pings
or limits its wait for the next frame (relay_link.rs:123, relay lib.rs:162), so
an end may stay open for ever after the other has gone. The daemon that dials
again then meets a relay whose handler for the older link is still `up`, and
replaces it in the hub: that handler's writer ends once nobody holds the replaced
hub any more (`Held`, `WriterEnds`).

A forwarded request is `Forward`, `SendRequest`, then `Timeout`/`Expire` or an
answer read by `RelayReads`; `HangUp` is a client that goes while its handler
waits. On the daemon, an executor (`Execute`, `Reply`) and, for a stream, a
bridge task (`BridgeSends`, `BridgeEnds`, `BridgeCloses`); `DaemonReads` spawns
the bridge and `StoreHandle` stores its abort handle in a later step.

### Decisions

The table, and the connectors' loops around two external histories: `channel`
(Discord) and `updates` (Telegram, which hands out the oldest that is not
confirmed by an offset). `PollDiscord`/`ProcessPost` keep `last_message_id`;
`PollTelegram`/`TakeUpdate`/`HandleUpdate`/`EditCard` advance the offset before
the update is handled. `Subscribe`, `Forward`, `StreamEnds` are the forwarder,
which never subscribes again. `Restart` forgets everything that is in memory.

A poll without `after` returns the newest posts, newest first. How Discord sorts
the answer to a poll *with* `after` is not to be seen in this repository: the
comment at connectors lib.rs:213-214 says "oldest first", and the code reverses
the answer all the same (line 216), as it would have to if it were newest first.
So `order` is a constant of each behaviour that the model leaves open. If it is
"oldest", a batch is worked off from its newest post down (`InHand`), the
connector's `last_message_id` ends at the batch's oldest, and the next poll
brings the others again: posts are relayed and approvals recorded more than once.
`NonePassedOver` holds either way; that no post is taken twice is claimed for
"newest" alone (`DiscordInOrder`).

`CreateDecision` stores the caller's record as it is. `RecordAnswer` overwrites,
as the UPDATE does. The field `by` records who answered (history), `taken` which
posts the poller has processed since the connector began.

### Mesh

`handle_publish` at a daemon is two steps. `Intercept` takes in the registry's
events (`TakeIn`; the table may fail, and the event goes on all the same) and
spawns the copy for a mentioned agent; whether a daemon knows the agent is left
open. `Broadcast` is the rest, unless the message is refused after it was taken
in (`Refuse`: a topic that is none, a schema, a trace nobody asked for). A link's
task receives, checks the loop, marks the message and publishes it before it
reads the next (`Receive`). `forwarded_by` is written in two places, the link
(peer.rs:109) and the handler (message.rs:243-257), and the model has both.
`Disconnect` loses what was sent and not read.

A copy has an id of its own wherever one is made (message.rs:117), and inherits
the marks of the message it was made of. `CopyOf` names it after the forum
message and the way that had come, so two daemons' copies are two messages. The
inherited marks stop it at daemons it has never passed; these had the forum
message itself (`HadOriginal`), and made a copy of their own if they know the
agent.

A table row is that of the name as the API was given it; an event's "remove" is
trimmed (`Trim`, `Apply`), so names with blanks are in the model. `missed` and
`calm` are history variables that say when agreement can be expected.

### Traces

A check reads the list of sessions and the time once (`Begin`) and walks over
the rows in any order: `Expire`, `RateLimit` or `Charge` per row, under the
manager's mutex for the counters; other publishers, `Enable`, `Disable` and the
clock run in between. `CountOf` is the record of the limits map with its
window. `spent` is the running total of what was charged before each tick.

The limit counts per second of the session's own clock, which starts with a
message. A second of the wall clock meets two such counts at most, and never the
first message of the older one if it has all of the newer one: the bound is twice
the rate less one, and the run reaches it.

### Wiki

Saving and deleting a page are transactions over the three tables, written one
statement per step on a copy that becomes the tables with the commit (`Open`,
`Statement`, `Commit`); an error or a stop between two of them is `Rollback`. File
and database are separate steps (`WriteFile`, `LookUp`, `OpenWrite`,
`CommitWrite`; `LookUpDeleted`, `Unlink`), and a handler may stop between them
(`Abandon`). The sync walks (`Scan`, `ReadFile`, `OpenScanned`, `CommitScanned`),
lists (`List`) and purges page by page (`OpenPurge`, `CommitPurge`), with a
failing call at each place. A document is a text and the number of blank lines in
front of it: `serialize_okf` adds one each time and `parse_okf_string` keeps them.

`search_wiki`, behind search, list and graph, reads the pages in one statement
and the links of each in one of its own (`Search`, `FetchLinks`), outside any
transaction; `reader.changed` are the pages that were saved or deleted in
between. `get_wiki_page` reads the links while its statement on the page is open,
which in SQLite is one state of the database (`GetPage`).

### Access

The daemon's `main` statement by statement: `Boot` (is there an owner?), the
owner's token row, key, config entry and file, `Bind` (the port, which one of
two daemons gets), then the connectors' token: `Retire`, row, key, config.
`Crash`, `ForceKill` (the command line's `pkill`), `Shutdown` and a failing
statement may come between any two. `SpawnDaemon` is a client's autostart: two
clients may both find nobody on the port. The middleware and the token
endpoints are steps of a request in flight; `OpenEnvelope` and `Dispatch` are a
sealed request's way through the same middleware. `slipped` records failures
that the code does not look at.

### TopicMatching and TopicRoutes

`match_segments` recurses over the segments that are left of the pattern, with
the rest of the topic; `MatchedFrom` is that recursion as a recursive function,
from a position of the pattern to the set of positions of the topic from which
the rest matches. `Rests` is the loop over what `**` may take. `Rules` are the
defaults `main` configures, in their order, and `Resolve` takes the first that
matches. `TopicRoutes` lets a pattern and a topic grow, and says what they must
decide: a pattern covers a topic if the topic can be cut into one stretch per
segment (`Covers`).

### Reads

Messages are stored (`Store`; a message with an id that is there replaces it)
and purged (`DeleteBefore`) while a context is read: `get_context` selects the
newest messages about a topic in one statement (`Select`) and then looks up one
parent per statement (`Follow`, `NextChain`, `Answer`), outside any transaction.
`rows` is kept in the order of the timestamps, which are the senders' own.
`races` and `cut` are history variables: how many writes came in between, and
whether a chain was left at the depth limit. A schema gets its `created_at` before it gets to the table
(`AddSchema`, `InsertSchema`), so additions may overtake each other.

### Mentions

`ParseNext` is one turn of the loop of `parse_mentions`: at an `@` or a `#` it
tries the bracketed name, then the bare one, agents before their owners, and
goes on behind what it took, or by one character. The definition it is held
against does not know the loop: a reading is a name, and where the text goes on
behind it (`Readings`), and one reading precedes another if it is in brackets,
or of an agent, or longer (`Precedes`).

## The runs

| Run | Instance | States | What it shows |
|---|---|---|---|
| `lease_race` | 2 agents, 1 task, leases of 0 and 1 s, clock to 4, 1 fault, open and imported rows | 461 000 | types; exclusive leases; live leases kept; finished stays; `TaskLease` implements `TaskBoard` |
| `lease_sweep` | 1 agent, 2 tasks, clock to 3, 1 fault, fairness | 196 000 | a sweep of several rows announces all it reopened, but for what is refused; a crashed agent's claim ends |
| `pipeline_queue` | 5 messages (4 decisions, 1 queryable and perishable event), capacity 2, batches of 2, 2 attempts, 2 faults | 447 000 | types and capacity; no stranded publisher; the worker does not oversleep; order; what was purged stays away |
| `pipeline_live` | 4 decisions, capacity 2, batches of 2, 1 attempt, 1 fault, fairness | 103 000 | a blocked publish returns; a queued message is settled |
| `subs_delivery` | 1 connection, 2 topics of which it may read one, 4 messages, a queue of 2, a socket of 1, fairness | 47 000 | types and capacity; order; no gap; the sender does not oversleep; no leftover entry; queued arrives; closed is released |
| `relay` | 2 links, 2 keys, a request or a stream, 1 message per bridge, ends that fail apart, fairness | 182 000 | cleanup spares the newer link; "offline" means not executed; maps and bridges are consistent; orphan bridges stop; replaced links close |
| `access` | 2 daemons, 3 tokens, 1 envelope, window 1, clock to 3, 1 fault | 809 000 | one owner token is handed out; connectors' tokens; replays end |
| `wiki` | a markdown path and another, 3 texts, 2 clients, 2 operations (writes, deletions, searches, edits), 2 syncs | 1 571 000 | the tables agree wherever a transaction stops; readers are told rightly; a quiet sync converges |
| `decisions` | 1 decision, polls of 2 in either order, 4 posts, updates, forum messages and restarts in all (2 updates and 1 restart at the most), fairness on Telegram's poller | 967 000 | no echo; nothing forgotten unhandled; no card ahead of its decision; no post passed over, and posts in order if sorted newest first; every update handled |
| `mesh` | 3 daemons in two cycles, queues of 2, 2 messages, a name and the same with a blank, 1 fault, fairness | 1 514 000 | simple paths; nothing held back; registries agree after changes that follow one another; the mesh comes to rest |
| `traces` | 2 sessions, 2 publishers, 2 levels, a second of 2 ticks, rate 2, sessions of 1 and 2 ticks, clock to 2 | 2 483 000 | nothing passes without an open session; no counter passes the rate; a second costs three messages at most |
| `reads` | patterns and topics of 3 segments; 3 stored messages, depth 2, limits of 0 and 2, or 2 messages and 1 write in between; 3 additions of a schema; texts of 6 characters | 398 000 | the matcher agrees with cutting topics; inboxes are kept; context and schema are exact; mentions are the readings that come first |

Why these bounds. *Leases*: the races need two claimants (or one claimant and
the sweep) on one row, and a clock that can pass a lease between a timestamp
and its statement; a lease of zero makes that reachable within three ticks, a
lease of one leaves an instant at which it still runs. Two tasks matter only to
the loops of the sweep. *Pipeline*: one notification wakes one publisher and a
batch frees two places, so four blocked decisions are more than a batch frees
twice over; the fifth message is the one that evicts instead of blocking. The
code's capacity of 10000 and batches of 100 differ in size, not in shape, and
the proofs cover them. *Subscriptions*: an overflow needs one message more than
the queue, the sender and the socket hold; connections do not interact except
through the broadcast's mutex, and the proofs cover any number of them.
*Relay*: the races are between one link and its successor, and between one
request or stream and the link it came by; the second link may come while the
relay still holds the first. *Access*: two daemons that may start
at once, and an owner's token with two starts of the connectors, or with one
start and a token that is created. *Wiki*: one writer against another, a
deletion or a search, then a second sync after whatever the first left.
*Decisions*: two updates, of which a restart may meet one handled and one not;
four posts are two batches, each of which has an order, or a batch behind which
more are waiting than one poll returns. *Mesh*: a cycle of three and one of two
share a daemon, so a message reaches it on two ways. *Traces*: the race needs two
publishers and two sessions; for the rate, a second of two ticks and a rate of
two let the counter be used up over two ticks, so that the next one begins while
messages of the first are less than a second old. *Reads*: its four
subjects (`subject` in `MCReads`) share no variable and are explored one at a
time. `**` at either end, twice, or before a `>` needs three segments; a lineage
of depth two over three messages has cycles, chains that meet, missing parents
and one chain that is too long; a write between two statements matters with two
messages and a replacement; a padded name in brackets needs six characters. The
proofs cover all sizes.

Bounds are named in the modules: `MaxTime`, `MaxFaults`, `MaxMessages`,
`MaxLinks`, `MaxData`, `Parties`, `MaxSyncs`, `MaxOps`, `MaxTraffic`,
`MaxUpdates`, `MaxRestarts`, `MaxSealed`, `MaxPattern`,
`MaxTopic`, `MaxBody`, `MaxRaces`, `MaxSchemas`, and the constant sets. In most modules
every message or operation comes once, so the model comes to rest when all are
through; those configurations say `CHECK_DEADLOCK FALSE` for that reason. In
`TaskLease` (the sweep never rests) and `Traces` deadlock is checked.
Symmetry is used in safety runs only (agents in `lease_race`, decisions in
`pipeline_queue`, sessions and publishers in `traces`, tokens and daemons in `access`, handlers in `wiki`).

The properties whose names end in `Inv` are the type invariant of the module
together with the invariants that are named beside it (`LeaseInv`, for one, is
`TypeOK` and `ToldLeasesExclusive`). Every property of a run has a mutant, a plausible bug in a mapped definition
under which the same run fails; mutants stand in the modules just before the
definition they replace, marked as such or named for what they forget
(`NotTooOld`, `ForgetNothing`, `ReadThenCount`, ...).

## Fairness

- `TaskLease`: the clock runs; a claim that the daemon has begun is finished,
  since the runtime polls every handler to its end; the sweeper's `loop` never
  ends, and its tick is periodic. Agents owe nothing: they need not report,
  complete or come back.
- `MessagePipeline`: a handler or worker that can take a step takes one. There
  is no fairness on publishing, hanging up, failing or purging. A blocked
  publisher is let through *because* each message is published once: the code
  does not exclude that newcomers keep a woken publisher from finding room, and
  no property claims it.
- `Subscriptions`: tasks and handlers that can go on do, aborted tasks are
  dropped, a close frame arrives, and a client that stays reads. That a client
  is gone without a close frame may never be noticed (`ReadEnd` and `SendFails`
  are not fair).
- `Relay`: every spawned task that can take a step takes one, timers fire,
  aborted tasks are dropped, and the two readers read what is there. What was
  sent is delivered or, since TCP waits for acknowledgements, the sender's end
  fails (`DownMoves`, `UpMoves`). That the other end is gone is *not* assumed to
  be noticed: `RelayLoses` and `DaemonLoses` are not fair of their own. Nothing
  makes clients come, links drop or the daemon dial again. `OrphanBridgeStops`
  therefore leaves out a daemon whose connection only the relay has given up
  (`HalfOpen`); requests over a link that only the relay takes to be open get a
  504 after their timeout.
- `Decisions`: the Telegram poller's loop goes on, its polls are answered in the
  end and each of its awaits returns. The code does not make sure of that: its
  HTTP client has no timeout, so a connection that hangs stops the loop. The rest
  (people, Discord, the forwarder) is not fair. A handled update need not be a
  recorded answer: a failing call is not repeated by the code, and
  `EveryUpdateIsHandled` does not claim it.
- `Mesh`: the runtime goes on with some call or link that has work to do (weak
  fairness of their disjunction); links need not come back.
- `Traces`, `Wiki`, `Access`, `TopicRoutes`, `Reads`, `Mentions`: safety only.

## The proofs

The modules named `...Proofs` are checked by TLAPS. Every safety invariant and
every action property that a run checks is a theorem, and so is the refinement
of the task board. The theorems rest on the constants' assumptions alone, except
for two that state a hypothesis of their own. TLC finds no violation of their
inductive invariants on the instances of the runs either (`MeshInv` with the
quantifiers over `Messages` cut down to those on their way).

**Leases.** `LeaseExclusion` has the first hypothesis, `NoFarLeases`: no lease
reaches past the year 9999. [Below](#statements-that-do-not-hold) is what happens
otherwise.
`ToldLeasesExclusive` is not inductive, since it speaks of what agents were told
and not of the rows. The strengthening is `ToldInv`: as long as an agent's
instant has not passed, the row is that agent's claim, its expiry is no sooner,
*and* a heartbeat now would not move it before that instant; with `StampsPast`,
that timestamps held by requests and by the sweep are not in the future. So an
UPDATE with an old timestamp cannot find the row expired. `LiveLeaseIsKept`,
`FinishedIsFinal` and `TableImplementsBoard` (the step simulation, row by row:
`BoardRow`) need `StampsPast` only, and no assumption on leases.
`ReopenedTasksAreAnnounced` is by `OwedInv`, which follows the sweep through its
phases: in the last one, what is owed is still to be announced or was refused.
The theorem leaves out the sweeps that a crash or a failing statement cuts short;
what those reopened nobody announces.

**Pipeline.** `NoPublisherIsStranded` is the argument that one `notify_one` per
batch is enough: a woken publisher either fills a place, which keeps the queue
non-empty so that the worker will notify again, or finds the queue full, which
means the same. `WakeupInv` adds that a permit is kept only while nobody waits.
`WriterDoesNotOversleep` is inductive as it stands. `MessagesPersistInOrder` is
by `OrderInv`: entries are distinct, a handler that has not pushed is not in the
queue, the queue lists entries in order, and whatever the worker holds entered
before whatever is queued. `PurgedStayAway` is by `PlacesInv`: a message waits to be
pushed, is on its way or has been in the table, and never two of these.

**Subscriptions.** `MessagesArriveInOrder` and `MessagesArriveWithoutGap` are by
`DeliveryInv`, connection by connection: what is written, held and queued are
increasing sequences, each before the next, and together are exactly what is
due (`Complete`); nothing on the way has a number beyond the last broadcast
(`Numbered`). Lemmas on increasing sequences (`ConcatIncreasing`,
`AppendIncreasing`, `HeadBeforeTail`) are stated once.
`EndedHandlersAreUnregistered` is by `RegistryInv`: entries belong to handlers
that have not ended.

**Traces.** `TracesAreLetThroughRightly` covers any number of sessions,
publishers and levels, any rate and any clock. What a check promises
(`TracesNeedOpenSession`) speaks of the sessions as they were when it began, and
the walk over them takes many steps in which others are enabled, disabled and
charged. `CheckInv` carries the grounds along: a check walks over sessions that
exist, and those it has not found to be over were open when it began; a row's
end and level never change once it is there, which is all `RowsKept` needs.
That a counter stays within the rate is part of the types (`CountOfType`,
`RoomForOne`).

`SecondsAreBounded` is about what two counters spend together. `spent` is kept
as a running total, so the messages of a stretch of time are a difference and
no sum over it. `RecordInv` says of a session's record that its count is all
that was charged since it started, that nothing is charged to it after its
second, and that in *less than* a second before it started *less* than the rate
was charged; the last holds because a new record starts a second after the old
one at the earliest, and the old one started with a message (`Started`,
`RecordFound`). A stretch of a second that ends in the record's therefore has
the record's count and less than one rate before it (`ChargeStep`). Without the
lookback the bound does not carry over to a new record.

**Wiki.** `TablesAgree` covers any number of clients, pages and texts. `WikiInv`
says how far the open transaction has come: which statements its copy shows and
which not yet (`TxInv`), so that what it commits is the three tables with one page
saved or deleted (`SaveKeepsIndexes`, `DeleteKeepsIndexes`), and what clients and
the sync are about to write is a document, for a path of the wiki (`HandlersInv`,
`SyncHands`, `SyncTx`). `ReadersAreRightlyTold` is by `ReaderInv`: a page whose
links are still to be read is as it was found, unless it is among those that
changed.

`SyncBringsPagesInLine` is by `SyncInv`, which says nothing once something has
disturbed the sync, since only undisturbed syncs promise anything. During the
walk, the files seen are exactly those that are there and have been visited,
each is its page but for the one at hand, and what was not reached is as it was
when the sync began (`WalkInv`); afterwards, what is there is its page, and
every other page is gone or on the list to be purged (`PurgeInv`).

**Access.** The promises speak of tokens that were handed out, the steps of
tokens that are being made, so `AccessInv` follows a token from its minting:
while a daemon is at a statement of its start, the token is its own and the
tables hold what the statements before have put there (`OwnToken`,
`FreshDistinct`, `CallInv`). `ConnectorsTokenIsRotated` needs `RotationInv`: of
all connectors' tokens that were told, only the current one may be live, and
once a start is past its revocation, only if it runs; the exception is a
revocation that failed (`slipped`). `PortInv` says that all this is one daemon's
work at a time, because it has the port. `OneOwnerToken` is by `OwnerInv`: as
long as nothing slipped, one daemon at most is in its first start, and while it
is there is no file. `ReplaysEnd` is by `ReplayInv`, the distance of an opening
from the envelope's time. `None \notin Tokens` is assumed.

**Relay.** `OfflineIsSafe` needs more than that "offline" requests were not
served: a request that was not sent is in no queue to the daemon, at no
executor and in no queue back (`UnsentInv`), and a connection that fails adds
nothing to a queue (`InArrived`, `FramesLost`). `CleanupIsSafe` needs that the
writer of a link whose handler is up is there, so that its channel is open when
an older link's cleanup looks at it (`LinksInv`). `NothingIsForgotten` follows a
request's entry and a bridge's handle through every way its task may end; it
uses that a stream that was upgraded keeps its link (`StreamsInv`).

**Mesh.** `ForwardingIsComplete` holds for any links, cycles included, and
whatever agents each daemon knows. A daemon's name in `forwarded_by` is the
reason why a message is stopped, so the invariant has to say that the name is
never an empty promise: every daemon on the path, but for the one where the
message is, has published it, or the forum message it is a copy of (`Published`,
`Accounted`, `PathInv`). Then what a daemon broadcast is handled by each listener
or in the queue to it (`ListenersInv`), unless it was lost or refused.
`MappingsSync` is the second theorem with a hypothesis: registry events get from
each daemon to each other (`Connected`; `MCMesh` assumes it, so TLC evaluates it
on the mesh of the runs). Its invariant is that, while every change began at rest
and none was missed, one change of a name is under way, and whoever has taken it
in still has it (`Agreed`); a removal counts for the name without blanks
(`Target`). A set of daemons closed under the links is then all of them.
`Capacity` and `MaxMessages` are assumed to be numbers.

**Decisions** (in `TaskLeaseProofs`). All theorems share `DecisionsInv`. That
nothing Telegram has forgotten is unhandled needs to know where the poller
stands: everything below its next update is handled, but for the one in hand,
and the offset is not beyond (`OffsetInv`). That no post of the connectors' own
is relayed needs every relayed message to name the post it came from
(`EchoInv`), and channels that only grow (`ChatGrows`). A card loses its buttons
after its decision has an answer, and answers are overwritten but not taken back
(`CardInv`). The Discord poller's batch begins right behind what it has taken,
from whichever end it is worked off (`BatchInv`, `ClosedUpTo`): from this follow
both `PollerLeavesNoGap` and, for the one order, `PollerKeepsOrder`.

**Topics** (in `SubscriptionsProofs`). The induction that shows what a recursive
matcher computes is carried out inside a set: the numbers `n` for which the
claim holds of every pattern with `n` segments left, closed under successor
(`NatSetInduction`, from the library's well-founded induction on `Nat`).
`MatchedIsCovered` says that the recursion's function exists and that each of
its values is the set of positions from which the rest of the topic can be cut
along the rest of the pattern (`CoveredFrom`); `OneStretch` is its step,
`CoversFromTheFirst` turns a cut of the whole into one from the first segment.
`MatcherIsExact` is the result, for every `Lower`. `InboxIsKept` then shows that
no rule before the inboxes' own matches an inbox (`RulesBeforeInboxes`). It is
assumed that no segment of a topic is a wildcard, as `Topic::new` makes sure.

**Reads** (in `MessagePipelineProofs`). `Only` is recursive too, and an induction
over prefixes says what it leaves: the members of the set, in their order, each
as often as before (`OnlyIsLeft`). `ReadBackRightly` is by `ReadsInv`. Ids are
distinct in the table (`RowsInv`); what was found was looked for, once, and is
some message's parent (`FoundInv`); a chain that was cut found as many messages
as the depth (`CutInv`); each message that was followed has its parent looked
for, or next in line, unless a chain was cut (`NextInv`). These hold whatever is
written in between. While nothing is (`AloneInv`), what is found is there, what
is there and was looked for is found, and every set closed under parents has it
all. For schemas, the table is in the order of creation, which an insertion that
was overtaken keeps (`SchemasInv`).

**Mentions** (in `MessagePipelineProofs`). The parser's `find` and `position` are
choices of a first or longest element; lemmas say what they choose without
`CHOOSE`: `TrimIs` (the stretch with ink at both ends and nothing but blanks
around it), `InBracketsIs`, `BracketedIsBest` and `GreedyIsBest` (a longest
reading of its kind, or there is none). `TakenIsFirst` puts the kinds in their
order. `MentionsInv` is then about the loop: what was read lies end to end, each
piece is the first reading at its place or a character without one, and the
links are those of the pieces, once each. Names are texts, and no URI is empty
(`MentionsAssumption`).

Model-checked only: the liveness properties (`CrashedClaimEnds`,
`BlockedPublishReturns`, `QueuedIsSettled`, `QueuedIsDelivered`,
`ClosedIsReleased`, `OrphanBridgeStops`, `ReplacedLinkCloses`,
`EveryUpdateIsHandled`, `ForwardingEnds`), which depend on fairness and are out of the reach of the
proof system.

## Statements that do not hold

Each of these is a definition at the end of its module, marked "Not kept by the
code". Documentation or a comment says it (but for the last), and TLC refutes it when it takes the
place of the properties in the configuration named (with the constants given,
where they differ).

- `AnnouncesOnlyReleased` (`lease_race`). The comment on
  `release_expired_claims` says "Returns the released tasks so the caller can
  announce them on the fabric." (task_store.rs:175-177). It returns the rows it
  *selected*, also those its guarded UPDATE no longer matched (195-202), and
  `_task.<id>.reclaimed` is published for a task that is still held or complete.
- `ToldLeasesExclusive` with far leases (`lease_race` with `Horizon = 2`).
  `lease_seconds` is not limited. A lease that ends after the year 9999 is
  written as `+1...`, sorts before every timestamp and counts as expired at
  once, against "Claiming a task whose live lease is held by another agent fails
  with a conflict" (`src/docs/cli.md:82`).
- `RefusalIsFinal` (`lease_race`). A refused claim is explained from a second
  read (task_store.rs:144-153), which may find that the sweep has reopened the
  task, or that it has been created since: the answer is `NotClaimable` for an
  open task. The comment on it says "The task is not claimable (e.g. already
  completed or cancelled)." (task_store.rs:15).
- `DecisionsAreKept` (`pipeline_queue` with `Capacity = 1`, `BatchSize = 1`).
  "decisions are kept forever" (`src/README.md:57`, also
  `src/docs/configuration.md:62`), but a message of another topic pushed on the
  full queue drops the oldest entry, whatever its topic (pipeline.rs:43).
- `PurgedLeavesNoEntry` (`pipeline_queue`). "Delete all messages on `topic` older
  than the RFC3339 `cutoff` timestamp, including their full-text-search index
  entries." (message_store.rs:150-151, likewise `src/docs/configuration.md:62`).
  The purge can overtake the index worker, and the entry then written is found
  by no later purge, which looks for entries of messages that are there (155).
  Searches join with `messages` and do not show it; the entry stays on disk.
- `SlowIsDisconnected` (`subs_delivery` with `Capacity = 1`). Every WebSocket is
  registered with `OverflowPolicy::DisconnectSlowSubscriber`
  (`mellowmesh-daemon/src/server.rs:158`), but an overflow only removes the
  registry's entry (subscription.rs:86): the client stays connected to a
  subscription that has ended, and is not told.
- `LinkEndsItsStreams` (`relay`). "Dropping the senders ends every live stream
  attached to this link" (mellowmesh-relay `lib.rs:213`). A stream whose upgrade
  read the hub before the cleanup and whose sender is inserted after it, while
  the aborted writer's receiver still exists, stays attached to a dead link
  until its client leaves.
- `OwnerCanLogIn` (`access`). "On first run the daemon creates the owner
  principal and a full-access owner token, written next to the database as
  owner.token" (`src/docs/security.md:19`). A crash after `owner_principal` is
  stored and before the file is written (auth.rs:376-390) leaves an owner whose
  token nobody has, and no later start makes another.
- `AgentsNeverAnswer` (`decisions`). "agents and nodes can NEVER answer — an agent
  cannot approve its own proposal." (decision.rs:91-92). The handler that
  answers refuses them; the one that creates a decision stores the record as it
  was sent, status and answer included (decision.rs:32-35).
- `CardAnsweredOnce` (`decisions`). "buttons removed so it can't be answered
  twice from this card" (mellowmesh-connectors `lib.rs:513`). Two taps that
  arrive before the edit, a failing edit, or an update that Telegram hands out
  again after a restart record two answers from one card.
- `RegistriesAlwaysAgree` (`mesh`). "mappings sync across peered daemons"
  (`src/docs/cli.md:175`). Two changes that are under way at once may reach two
  daemons in different orders; there is no version or time to compare, and
  nothing mends it. `RegistriesAgree` is the part that holds.
- `EveryNameAgrees` (`mesh`). The same sentence. A name that begins or ends with
  a blank is removed as it is where the request arrives (named_topic.rs:73), and
  trimmed everywhere else (message.rs:63): the others keep it, and lose the name
  without the blank, even after one change at a time.
- `PurgedPagesAreDeletedFiles` (`wiki`). The comment says "Detect deleted files"
  (wiki_sync.rs:98). What is purged is every page not seen in the walk: a page
  written while the sync walks, and any page whose path does not end in `.md`.
  The first comes back with the next sync. `SyncConverges` is the part that
  holds.
- `SearchIsOneState` (`wiki`). A search or a graph shows its pages, links
  included, as they were together. A page that is saved between the statement
  that found it and the one that reads its links is returned with the text of one
  version and the links of another (wiki_store.rs:142-197). `ReadersAreTold` is
  the part that holds. This one is what a caller would expect; no comment says it.

## Observations

Read off the code while modelling it; none of them is checked by a run.

- The topics under `_trace.` have no persistence rule, so a raw trace message is
  stored as metadata for seven days, although sessions carry
  `persistence_mode` "ephemeral". A trace message above a session's level uses
  up its rate budget (`Charge`). Disabling a session twice lowers the gauge of
  active sessions twice (trace_mgr.rs:40).
- A second owner token is minted when `owner_principal` cannot be read, or when
  two daemons run the bootstrap at once. A failed revocation at a start
  (`mellowmesh-daemon/src/main.rs:294`) leaves the connectors' old token alive
  for good. `BootstrapHandsOutOne` and `ConnectorsInv` name these cases.
- Lineage is cut at depth ten and its set of visited ids is shared by all
  chains, so a chain that is reached late may be cut earlier than alone
  (persistence_impl.rs:307-363); `get_context` with limit 0 returns one message.
- The MCP tool `read_history` returns the oldest matches of the last hundred
  messages (mellowmesh-client `mcp.rs:709-718`), and the CLI's `read` filters
  after the limit.
- `respond_decision` for an unknown id answers "Recorded", and a later answer
  overwrites an earlier one, whoever gives it (decision_store.rs:83). A connector
  whose forum subscription ends does not subscribe again. What is posted in
  Discord while the connector is down is lost but for the last five posts, which
  are relayed, those it had taken before among them. A tap whose recording fails
  with an error is acknowledged as failed and not asked for again.
- `serialize_okf` and `parse_okf_string` are not inverse: a blank line is added
  each time (`Serialize`).
- With peers, every daemon that publishes a forum message and knows the
  mentioned agent makes its own copy for the inbox, under an id of its own
  (message.rs:117): an agent that listens at one daemon of a connected mesh may
  get several copies of one message, and only what they say tells that they are one.
- Two daemons that listen on different ports over the same default database each
  rotate the connectors' token at their start, and so end the other's connectors.
  `Access` has one port, which excludes it.
- A link of the relay is given up only when a write or a read fails. A hub whose
  machine vanished stays linked, and its callers get 504, until it dials again or
  the system's TCP gives up what the relay sends.

## Abstractions

- Messages, tasks, agents and topics are model values; bodies, titles, logging
  and counters are left out. Except in `TopicMatching`, `TopicRoutes` and `Reads`, a pattern is the
  set of topics it matches, read scopes likewise.
- One connection pool with unlimited connections: `SQLITE_BUSY` appears as a
  failing statement (`SweepError`, `WriteFails`, `PurgeFails`, `IndexFails`,
  `SyncFails`, `Abandon`, `BootstrapFails`, `MintingFails`).
- The retry pause of the persistence worker is not timed; it may be of any
  length. So are the reconnect pauses of links and connectors.
- One perishable topic stands for all of them. In `MessagePipeline` message ids
  are not published twice; `Reads` has the replacement of a row by its id.
- The messages in `MessagePipeline` are durable or queryable: ephemeral topics
  reach neither queue, and no configured policy writes synchronously.
- `Subscriptions` has no daemon crash: registry and sockets live in memory, and
  a client that comes back is a new connection.
- `TaskLease`: `lease_seconds` is a `u64` that the code casts to `i64`
  (task_store.rs:125); the model's leases are small, and the cast is the
  identity.
- `Relay`: the bounded channel to the writer, the writer and the socket are one
  queue per direction. One hub id: hubs share nothing but a map that is locked for
  single operations. A 502 is "offline" only where the code finds no link or one
  that has dropped; "Local forward failed" (the daemon's own API did not answer)
  and a malformed answer are answers.
- `Access`: a token stands for its plaintext, hash and key; the connectors'
  requests and other clients' are one request at a time. That two daemons share
  one database while one of them is draining its requests is not modelled.
- `Mesh`: the agents' registry is kept as the topics' is, with the register
  action only, and is not in the model; several mentions in one message make one
  copy, and there is one link per pair of daemons.
- `Wiki`: a search by type or tag shows fewer of the pages found. Two texts are
  the same text or have nothing a search could find in common.
- `Reads`: two messages have no timestamp in common, and two additions of a
  schema no `created_at`; with equal ones SQLite may return either first. What is
  read is an id, a topic and a parent.
- `Mentions`: names are compared as they are; the code folds their case. Letters
  are a set, and blanks one character. `[uri, first, next]` stands for a piece of
  the rewritten body.
- A mutex-protected section is one step; every mutex here is held over straight
  code without suspension.

## Not modelled

- **WASM coordinator**: an in-browser stand-in for the hub, single-threaded,
  without persistence, leases or authentication. It shares the topic matcher,
  which is modelled.
- **Hot buffer**: a ring buffer that the daemon does not use.
- **Identity mappings** and **topic summaries**: one table each, an upsert and a
  lookup, no interaction.
- **Substring search** over stored messages: one SELECT; what it joins is in
  `MessagePipeline`. The **history** and the **forum**: one SELECT each, and
  a filter on the topics of what it returns.
- **Client, MCP server and most of the command line**: they wrap single requests
  and print. Starting, stopping and killing the daemon and sealing a request are
  in `Access`. `daemon clean`, which deletes the database, possibly under a
  daemon that is starting or draining, is not.
- **Metrics, desktop notifications, the HTML page**: counters and output.
- **Cryptography** of `e2e.rs` (assumed to seal), **JSON Schema evaluation**
  (a library), formats of chat messages.
- **The publish path as one composition**: each stage is in the module of what
  it changes. The stages share no state but the message itself, so what a
  composition would add is the order in which a rejected message has its
  effects, about which the documentation says nothing.

## Plan

Done in this order: leases and sweep, pipeline, subscriptions, relay, tokens,
wiki, decisions with connectors, peers, traces, topics, reads and mentions, and
a proof of every safety property a run checks. What is left:

1. Identity mappings with the connectors that read them, if they come to be
   changed by more than one caller.
2. Two messages with one timestamp in `Reads`, if the order of a history comes
   to matter.
