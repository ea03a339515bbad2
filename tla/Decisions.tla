---- MODULE Decisions ----
(* Decisions a person must take, and the chat connectors that carry the       *)
(* question out and the answer back: the table and its handlers               *)
(* (decision_store.rs, handlers/decision.rs), and the Discord, Telegram and   *)
(* Teams connectors (mellowmesh-connectors), each with a task that copies the *)
(* forum out, one that announces decisions, and a receiver. A restart loses   *)
(* what the connectors remember; Discord and Telegram keep what they hold.    *)
EXTENDS Naturals, Sequences, Functions

CONSTANTS Ids, Options,           \* decisions and what one can answer
          Typed, Tapped,          \* options people answer in Discord, in Telegram
          Limit,                  \* posts or updates asked for in one poll
          MaxTraffic,             \* bound: new posts, updates and forum messages, and
                                  \* the restarts before them, all counted together
          MaxUpdates, MaxRestarts \* bounds on the updates and on the restarts alone

ASSUME DecisionsAssumption == /\ Limit \in Nat \ {0} /\ MaxRestarts \in Nat
                              /\ Typed \cup Tapped \subseteq Options

VARIABLES
  decision,  \* table decisions
  card,      \* the Telegram card of a decision
  channel,   \* external: the Discord channel, oldest first
  order,     \* external: how Discord sorts the answer to a poll with after
  updates,   \* external: what Telegram has for the bot
  confirmed, \* external: how many of them it will not send again
  dc,        \* Discord poller: last_message_id (0: None), the batch left, its direction
  tg,        \* Telegram poller: offset, the batch left, the update in hand
  forum,     \* what was published to _forum.general
  fwd,       \* Discord's forwarder: "off", "on" or "ended", and its place
  restarts,
  handled,   \* history: the Telegram updates handled
  taken      \* history: the posts the Discord poller processed since it began

outside == <<channel, updates, confirmed, order>>
store == <<decision, card>>
pollers == <<dc, tg>>
decisionsVars == <<store, outside, pollers, forum, fwd, restarts, handled, taken>>

None == "none"
NoDecision == [status |-> None, option |-> None, by |-> None]
NoBatch == [last |-> 0, next |-> 1, upto |-> 0, down |-> FALSE]
NoUpdates == [offset |-> 0, next |-> 1, upto |-> 0, hand |-> 0, edit |-> FALSE]
Off == [state |-> "off", at |-> 0]
Item(kind, d, o) == [kind |-> kind, id |-> d, option |-> o]
BotPost == Item("bot", None, None)
HasRoom == Len(channel) + Len(updates) + Len(forum) + restarts < MaxTraffic
Items == [kind : {"say", "bot", "answer"}, id : Ids \cup {None}, option : Options \cup {None}]

DecisionsInit ==
  /\ decision = [d \in Ids |-> NoDecision] /\ card = [d \in Ids |-> "none"]
  /\ channel = <<>> /\ updates = <<>> /\ confirmed = 0
  /\ order \in {"newest", "oldest"}
  /\ dc = NoBatch /\ tg = NoUpdates
  /\ forum = <<>> /\ fwd = Off /\ restarts = 0
  /\ handled = {} /\ taken = {}

----
(* The handlers.                                                              *)

\* decision.<id>.requested: Telegram gets a card and Discord a bot's post, where
\* the announcer is subscribed and the call goes through; its result is ignored.
TelegramAnnounces(d) == card' = [card EXCEPT ![d] = "buttons"] \/ UNCHANGED card
DiscordPost == \/ HasRoom /\ channel' = Append(channel, BotPost)
               \/ UNCHANGED channel
AnnounceDecision(d) == TelegramAnnounces(d) /\ DiscordPost

\* Who calls a handler; in open mode nobody is asked.
Kinds == {"human", "interface", "open", "agent", "node"}
Caller(kind) == IF kind \in {"agent", "node"} THEN "program" ELSE "caller"
AnsweredBy(o, by) == [status |-> "approved", option |-> o, by |-> by]

\* The caller's record is stored as it is, answer included; only an empty
\* status becomes "requested". An id that is taken fails.
CreateDecision ==
  /\ \E d \in Ids, o \in Options \cup {None}, kind \in Kinds :
       /\ decision[d] = NoDecision
       /\ decision' = [decision EXCEPT ![d] =
            IF o = None THEN [NoDecision EXCEPT !.status = "requested"]
            ELSE AnsweredBy(o, Caller(kind))]
       /\ AnnounceDecision(d)
  /\ UNCHANGED <<updates, confirmed, order, pollers, forum, fwd, restarts, handled, taken>>

\* UPDATE ... WHERE id: an unknown id changes nothing and is no error.
RecordAnswer(d, o, by) ==
  decision' = IF decision[d] = NoDecision THEN decision
              ELSE [decision EXCEPT ![d] = AnsweredBy(o, by)]

MayAnswer(kind) == kind \in {"human", "interface", "open"}

RespondDecision ==
  /\ \E d \in Ids, o \in Options, kind \in Kinds :
       MayAnswer(kind) /\ RecordAnswer(d, o, Caller(kind))
  /\ UNCHANGED <<card, outside, pollers, forum, fwd, restarts, handled, taken>>

----
(* External: people write to Discord, and to or tap a card in Telegram.       *)

PersonPosts ==
  /\ HasRoom
  /\ \E i \in {Item("say", None, None)} \cup {Item("answer", d, o) : d \in Ids, o \in Typed} :
       /\ channel' = Append(channel, i)
  /\ UNCHANGED <<store, updates, confirmed, order, pollers, forum, fwd, restarts, handled, taken>>

PersonTapsOrWrites ==
  /\ Len(updates) < MaxUpdates /\ HasRoom
  /\ \E i \in {Item("say", None, None)} \cup {Item("answer", d, o) : d \in Ids, o \in Tapped} :
       /\ i.kind = "answer" => card[i.id] = "buttons"
       /\ updates' = Append(updates, i)
  /\ UNCHANGED <<store, channel, confirmed, order, pollers, forum, fwd, restarts, handled, taken>>

\* client.publish: the result is ignored, so the message may be lost.
Publish(from, n) ==
  \/ HasRoom /\ forum' = Append(forum, [from |-> from, src |-> n])
  \/ UNCHANGED forum

\* Agents publish, and the Teams receiver what a signed request says.
OthersPublish ==
  /\ HasRoom /\ Publish("elsewhere", 0)
  /\ UNCHANGED <<store, outside, pollers, fwd, restarts, handled, taken>>

----
(* Discord: GET messages?limit, with after once a message is known. Without    *)
(* after the answer is newest first; with it, a comment says, oldest first:   *)
(* the code reverses either and so takes it from its end.                     *)

Least(a, b) == IF a <= b THEN a ELSE b
FetchNewest(last) == <<IF Len(channel) > last + Limit THEN Len(channel) - Limit + 1 ELSE last + 1,
                       Len(channel)>>
Fetch(last) ==
  IF last = 0 THEN FetchNewest(0)
  ELSE <<last + 1, Least(last + Limit, Len(channel))>>

PollDiscord ==
  /\ dc.next > dc.upto
  /\ LET got == Fetch(dc.last)
     IN  /\ got[1] <= got[2]
         /\ dc' = [dc EXCEPT !.next = got[1], !.upto = got[2],
                             !.down = dc.last # 0 /\ order = "oldest"]
  /\ UNCHANGED <<store, outside, tg, forum, fwd, restarts, handled, taken>>

SkipsNone(post) == FALSE
SkipsBots(post) == post.kind = "bot"

\* The post of the batch that is next, and last_message_id after it.
AdvancedPastPeople(n) == IF SkipsBots(channel[n]) THEN dc.last ELSE n
InHand == IF dc.down THEN dc.upto ELSE dc.next
AdvancedPast(n) == n

\* A bot's post is passed over, an !approve recorded and replied to, anything
\* else published; a call that fails is not tried again.
ProcessPost ==
  /\ dc.next <= dc.upto
  /\ LET n == InHand   post == channel[n] IN
       /\ dc' = IF dc.down THEN [dc EXCEPT !.last = AdvancedPast(n), !.upto = n - 1]
                ELSE [dc EXCEPT !.last = AdvancedPast(n), !.next = n + 1]
       /\ taken' = taken \cup {n}
       /\ \/ SkipsBots(post) /\ UNCHANGED <<decision, forum, channel>>
          \/ /\ ~SkipsBots(post) /\ post.kind = "answer" /\ UNCHANGED forum
             /\ RecordAnswer(post.id, post.option, "discord") \/ UNCHANGED decision
             /\ DiscordPost
          \/ /\ ~SkipsBots(post) /\ post.kind # "answer" /\ Publish("discord", n)
             /\ UNCHANGED <<decision, channel>>
  /\ UNCHANGED <<card, updates, confirmed, order, tg, fwd, restarts, handled>>

----
(* Telegram: getUpdates(offset) confirms what is below the offset and returns *)
(* what is left, oldest first; the offset is advanced before an update is     *)
(* handled.                                                                   *)

PollTelegram ==
  /\ tg.next > tg.upto /\ tg.hand = 0 /\ ~tg.edit
  /\ LET done == IF tg.offset > confirmed THEN tg.offset - 1 ELSE confirmed
     IN  /\ confirmed' = done
         /\ tg' = [tg EXCEPT !.next = done + 1, !.upto = Least(done + Limit, Len(updates))]
         /\ <<tg', confirmed'>> # <<tg, confirmed>>
  /\ UNCHANGED <<store, channel, updates, order, dc, forum, fwd, restarts, handled, taken>>

TakeUpdate ==
  /\ tg.next <= tg.upto /\ tg.hand = 0 /\ ~tg.edit
  /\ tg' = [tg EXCEPT !.offset = tg.next + 1, !.hand = tg.next, !.next = @ + 1]
  /\ UNCHANGED <<store, outside, dc, forum, fwd, restarts, handled, taken>>

\* A tap is recorded, and acknowledged as recorded or failed (which it may be
\* recorded all the same, if only the answer got lost); a message is published.
HandleUpdate ==
  /\ tg.hand # 0 /\ ~tg.edit
  /\ LET u == updates[tg.hand] IN
       \/ /\ u.kind = "answer" /\ UNCHANGED forum
          /\ \/ /\ RecordAnswer(u.id, u.option, "telegram")
                /\ tg' = [tg EXCEPT !.edit = TRUE] \/ tg' = [tg EXCEPT !.hand = 0]
             \/ UNCHANGED decision /\ tg' = [tg EXCEPT !.hand = 0]
       \/ /\ u.kind = "say" /\ Publish("elsewhere", 0)
          /\ tg' = [tg EXCEPT !.hand = 0] /\ UNCHANGED decision
  /\ handled' = handled \cup {tg.hand}
  /\ UNCHANGED <<card, outside, dc, fwd, restarts, taken>>

\* editMessageText takes the buttons away; the call may fail.
EditCard ==
  /\ tg.edit /\ tg' = [tg EXCEPT !.hand = 0, !.edit = FALSE]
  /\ card' = [card EXCEPT ![updates[tg.hand].id] = "edited"] \/ UNCHANGED card
  /\ UNCHANGED <<decision, outside, dc, forum, fwd, restarts, handled, taken>>

----
(* The forwarder subscribes to _forum.** once; a stream that ends or fails     *)
(* ends it for good. Telegram's and Teams' are the same loop, but what they   *)
(* post does not come back to their receivers.                                *)

Subscribe ==
  /\ fwd.state = "off" /\ fwd' = [state |-> "on", at |-> Len(forum) + 1]
  /\ UNCHANGED <<store, outside, pollers, forum, restarts, handled, taken>>

StreamEnds ==
  /\ fwd.state = "on" /\ fwd' = [state |-> "ended", at |-> 0]
  /\ UNCHANGED <<store, outside, pollers, forum, restarts, handled, taken>>

\* What came from Discord is passed over; a copy may get lost.
Forward ==
  /\ fwd.state = "on" /\ fwd.at <= Len(forum) /\ fwd' = [fwd EXCEPT !.at = @ + 1]
  /\ \/ /\ forum[fwd.at].from # "discord" /\ HasRoom
        /\ channel' = Append(channel, BotPost)
     \/ UNCHANGED channel
  /\ UNCHANGED <<store, updates, confirmed, order, pollers, forum, restarts, handled, taken>>

RestartKeepsOffset ==
  /\ restarts < MaxRestarts /\ restarts' = restarts + 1
  /\ dc' = NoBatch /\ tg' = [NoUpdates EXCEPT !.offset = tg.offset]
  /\ fwd' = Off /\ taken' = {}
  /\ UNCHANGED <<decision, card, outside, forum, handled>>

\* The daemon, and the connectors in it, stop at any point and start again.
Restart ==
  /\ restarts < MaxRestarts /\ restarts' = restarts + 1
  /\ dc' = NoBatch /\ tg' = NoUpdates
  /\ fwd' = Off /\ taken' = {}
  /\ UNCHANGED <<decision, card, outside, forum, handled>>

DecisionsNext ==
  \/ CreateDecision \/ RespondDecision
  \/ PersonPosts \/ PersonTapsOrWrites \/ OthersPublish
  \/ PollDiscord \/ ProcessPost
  \/ PollTelegram \/ TakeUpdate \/ HandleUpdate \/ EditCard
  \/ Subscribe \/ StreamEnds \/ Forward
  \/ Restart

DecisionsSpec == DecisionsInit /\ [][DecisionsNext]_decisionsVars

\* The Telegram poller's loop goes on: its polls are answered in the end, and
\* each of its awaits returns.
FairDecisions ==
  DecisionsSpec /\ WF_decisionsVars(PollTelegram \/ TakeUpdate \/ HandleUpdate \/ EditCard)

----
\* The state is of its types. (decision_store.rs:32, connectors/lib.rs:107)
DecisionsTypeOK ==
  /\ decision \in [Ids -> [status : {None, "requested", "approved"}, option : Options \cup {None},
                           by : {None, "caller", "program", "discord", "telegram"}]]
  /\ card \in [Ids -> {"none", "buttons", "edited"}]
  /\ channel \in Seq(Items) /\ updates \in Seq(Items) /\ confirmed \in 0..Len(updates)
  /\ order \in {"newest", "oldest"} /\ taken \subseteq 1..Len(channel)
  /\ dc \in [last : Nat, next : Nat \ {0}, upto : Nat, down : BOOLEAN]
  /\ {dc.last, dc.upto} \subseteq 0..Len(channel)
  /\ tg \in [offset : Nat, next : Nat \ {0}, upto : Nat, hand : Nat, edit : BOOLEAN]
  /\ {tg.upto, tg.hand} \subseteq 0..Len(updates) /\ tg.next \in tg.offset..(Len(updates) + 1)
  /\ forum \in Seq([from : {"discord", "elsewhere"}, src : Nat])
  /\ fwd \in [state : {"off", "on", "ended"}, at : 0..(Len(forum) + 1)]
  /\ restarts \in 0..MaxRestarts /\ handled \subseteq 1..Len(updates)

\* The Discord poller leaves nothing out: between two polls it has taken every
\* post from its first one to the one it will ask for more after, however many
\* came in the meantime and in whichever order Discord sorts them.
\* (connectors/lib.rs:195-294)
NonePassedOver ==
  dc.next > dc.upto => /\ taken # {} => dc.last \in taken
                       /\ \A n \in taken : n..dc.last \subseteq taken

\* If Discord sorts the answer to a poll with after newest first as well, the
\* poller takes the posts one after another, none of them twice, until the
\* connector restarts. (connectors/lib.rs:213-294)
DiscordInOrder ==
  [][ProcessPost /\ order = "newest" => \A n \in taken : n < InHand]_decisionsVars

\* What the forwarder, the announcer and the poller itself put into the Discord
\* channel never comes back as a new message. (connectors/lib.rs:137, :226)
NoLoop ==
  \A i \in 1..Len(forum) : forum[i].from = "discord" => channel[forum[i].src].kind # "bot"

\* What Telegram will not send again has been handled: the offset moves before an
\* update is handled, but only the next poll confirms what is below it, and a
\* connector that restarts in between asks for everything that is left.
\* (connectors/lib.rs:447-582)
ForgottenIsHandled == 1..confirmed \subseteq handled

\* A card that shows an answer is that of a decision that has one: the buttons go
\* only once the answer is recorded, whatever comes in between. (connectors/lib.rs:480-540)
EditedIsAnswered == \A d \in Ids : card[d] = "edited" => decision[d].status = "approved"

\* The types, no echo, nothing forgotten and no card ahead of its decision.
RelayedInv == DecisionsTypeOK /\ NoLoop /\ ForgottenIsHandled /\ EditedIsAnswered

\* Every tap and message Telegram holds is handled in the end, though the
\* offset moves first and the connector may restart in between.
\* (connectors/lib.rs:447-582)
EveryUpdateIsHandled ==
  \A n \in 1..MaxUpdates : (Len(updates) >= n) ~> (n \in handled)

\* "agents and nodes can NEVER answer - an agent cannot approve its own proposal."
\* (handlers/decision.rs:91-92) The handler that answers refuses them; the one
\* that creates a decision stores what it is given.
AgentsNeverAnswer ==
  \A d \in Ids : decision[d].status = "approved" => decision[d].by # "program"

\* "buttons removed so it can't be answered twice from this card".
\* (connectors/lib.rs:513)
\* Not kept by the code: see README, "Statements that do not hold".
CardAnsweredOnce ==
  [][\A d \in Ids : decision[d].by = "telegram" => ~(tg'.edit /\ ~tg.edit /\ updates[tg.hand].id = d)]_decisionsVars
====
