------------------------------ MODULE MessageQueue ------------------------------
(***************************************************************************)
(* How a service consumes its queue: messages are delivered on a channel,  *)
(* handled concurrently, acknowledged by their delivery tag.  When the     *)
(* connection or the channel is lost the service connects again, and every *)
(* handler uses whatever channel is there when it gets to it: one that     *)
(* outlives its channel acknowledges with an old tag on the new one.  An   *)
(* exception outside the business code ends the process.                   *)
(*                                                                         *)
(* The broker keeps a message until it is acknowledged and gives it back   *)
(* to the queue when the channel it was delivered on is gone.              *)
(***************************************************************************)
EXTENDS Integers, FiniteSets

CONSTANTS
  Replicas, Handlers,    \* processes and the handlers that run in each at once
  Messages, NoMessage,
  Prefetch,              \* maxHandlingMessages
  Cache,                 \* amqpMessageCache.isEnabled
  MaxTag,                \* bound on delivery tags of a channel
  MaxDrops, MaxCrashes, MaxNacks

ASSUME QueueAssumption ==
  /\ NoMessage \notin Messages
  /\ Prefetch \in Nat \ {0}
  /\ Cache \in BOOLEAN
  /\ {MaxTag, MaxDrops, MaxCrashes, MaxNacks} \subseteq Nat

VARIABLES
  queue,     \* messages ready for delivery
  gone,      \* messages the broker has removed
  link,      \* of a process to the broker, see Link
  unacked,   \* deliveries on a process's channel that are not acknowledged
  lastTag,   \* last delivery tag of the channel
  handler,   \* the handlers that run
  handled,   \* messages some handler has returned true for
  forwarded, \* messages whose follow-up message has reached the broker
  keys,      \* amqp-message-id keys in Redis
  mistaken,  \* (history) messages acknowledged by a handler of an earlier channel
  drops, crashes, nacks

broker == <<queue, gone, unacked, lastTag>>
effects == <<handled, forwarded, keys>>
faults == <<drops, crashes, nacks>>
vars == <<broker, link, handler, effects, mistaken, faults>>

Tags == 1 .. MaxTag
Delivery == [msg : Messages, tag : Tags]
Handler == [pc  : {"idle", "get", "handle", "finish", "ack", "nack", "set", "known", "delete"},
            msg : Messages \cup {NoMessage},
            tag : 0 .. MaxTag,
            old : BOOLEAN]    \* its channel is not the one of now
NoHandler == [pc |-> "idle", msg |-> NoMessage, tag |-> 0, old |-> FALSE]

(***************************************************************************)
(* "lost": the connection is gone and the process does not know yet.       *)
(* "refusing": the broker has closed the reading channel, the process does *)
(* not know yet; "refused": it knows.  "closed": it knows that the         *)
(* connection is gone.  "closing": the timer has fired, isClosing is set   *)
(* and the answer of the broker is awaited.  "deaf": the connection died   *)
(* before that answer; isClosing and reconnectTimeout stay set, so that    *)
(* every later reconnect returns.  "connect": init is under way.           *)
(***************************************************************************)
Link == {"connect", "open", "lost", "refusing", "refused", "closed", "closing", "deaf"}

\* Whether what is sent arrives; whether using the reading channel throws.
SendArrives(r) == link[r] \in {"open", "refusing", "refused"}
AckThrows(r) == link[r] \in {"connect", "closed", "refused", "closing", "deaf"}

Held(r) == {u.msg : u \in unacked[r]}

\* The channel of r is gone.
ReleaseAll(r) ==
  /\ queue' = queue \cup Held(r)
  /\ unacked' = [unacked EXCEPT ![r] = {}]
  /\ lastTag' = [lastTag EXCEPT ![r] = 0]
  /\ UNCHANGED gone

GoTo(r, h, pc) == handler' = [handler EXCEPT ![r][h].pc = pc]
Return(r, h) == handler' = [handler EXCEPT ![r][h] = NoHandler]

\* process.exit(1); the process is started again.
Exit(r) ==
  /\ ReleaseAll(r)
  /\ link' = [link EXCEPT ![r] = "connect"]
  /\ handler' = [handler EXCEPT ![r] = [h \in Handlers |-> NoHandler]]

-------------------------------------------------------------------------------
(* Handling a message.                                                     *)

\* mutant: consumes with noAck
DeliverNoAck(r, h, m) ==
  /\ link[r] = "open" /\ handler[r][h] = NoHandler /\ m \in queue
  /\ queue' = queue \ {m}
  /\ gone' = gone \cup {m}
  /\ handler' = [handler EXCEPT ![r][h] = [NoHandler EXCEPT !.pc = "handle", !.msg = m]]
  /\ UNCHANGED <<unacked, lastTag, link, effects, mistaken, faults>>
Deliver(r, h, m) ==
  /\ link[r] = "open"
  /\ handler[r][h] = NoHandler
  /\ m \in queue
  /\ Cardinality(unacked[r]) < Prefetch
  /\ lastTag[r] < MaxTag
  /\ queue' = queue \ {m}
  /\ lastTag' = [lastTag EXCEPT ![r] = @ + 1]
  /\ unacked' = [unacked EXCEPT ![r] = @ \cup {[msg |-> m, tag |-> lastTag[r] + 1]}]
  /\ handler' = [handler EXCEPT ![r][h] =
                   [pc |-> IF Cache THEN "get" ELSE "handle", msg |-> m,
                    tag |-> lastTag[r] + 1, old |-> FALSE]]
  /\ UNCHANGED <<gone, link, effects, mistaken, faults>>

\* An error of Redis counts as no key.
GetKey(r, h) ==
  /\ handler[r][h].pc = "get"
  /\ \/ handler[r][h].msg \in keys /\ GoTo(r, h, "known")
     \/ GoTo(r, h, "handle")
  /\ UNCHANGED <<broker, link, effects, mistaken, faults>>

\* The business code sends the follow-up message; when that throws it still
\* returns true.
Produce(r, h) ==
  /\ handler[r][h].pc = "handle"
  /\ forwarded' = IF SendArrives(r) THEN forwarded \cup {handler[r][h].msg} ELSE forwarded
  /\ GoTo(r, h, "finish")
  /\ UNCHANGED <<broker, link, handled, keys, mistaken, faults>>

HandlerReturns(r, h) ==
  /\ handler[r][h].pc = "finish"
  /\ handled' = handled \cup {handler[r][h].msg}
  /\ GoTo(r, h, "ack")
  /\ UNCHANGED <<broker, link, forwarded, keys, mistaken, faults>>

\* mutant: acknowledged whatever the handler returns
NotHandledAcked(r, h) ==
  /\ handler[r][h].pc \in {"handle", "finish"}
  /\ nacks < MaxNacks
  /\ nacks' = nacks + 1
  /\ GoTo(r, h, "ack")
  /\ UNCHANGED <<broker, link, effects, mistaken, drops, crashes>>
\* It returns nothing, with or without having done its work.
NotHandled(r, h) ==
  /\ handler[r][h].pc \in {"handle", "finish"}
  /\ nacks < MaxNacks
  /\ nacks' = nacks + 1
  /\ GoTo(r, h, "nack")
  /\ UNCHANGED <<broker, link, effects, mistaken, drops, crashes>>

\* The delivery this tag stands for, on the channel of now.
Tagged(r, h) == {u \in unacked[r] : u.tag = handler[r][h].tag}

\* The broker closes a channel that names a tag it does not know.
Settle(r, h) ==
  IF Tagged(r, h) # {}
  THEN /\ unacked' = [unacked EXCEPT ![r] = @ \ Tagged(r, h)]
       /\ UNCHANGED <<link, lastTag>>
  ELSE /\ unacked' = [unacked EXCEPT ![r] = {}]
       /\ lastTag' = [lastTag EXCEPT ![r] = 0]
       /\ link' = [link EXCEPT ![r] = "refusing"]

SettledMessages(r, h) == {u.msg : u \in Tagged(r, h)}

RequeuedBySettle(r, h) == IF Tagged(r, h) = {} THEN Held(r) ELSE {}

AfterAck == IF Cache THEN "set" ELSE "idle"

\* What follows when the handler has told the broker and goes on.
Then(r, h, pc) == IF pc = "idle" THEN Return(r, h) ELSE GoTo(r, h, pc)

AckArrives(r, h, next) ==
  /\ link[r] = "open"
  /\ gone' = gone \cup SettledMessages(r, h)
  /\ mistaken' = IF handler[r][h].old THEN mistaken \cup SettledMessages(r, h) ELSE mistaken
  /\ queue' = queue \cup RequeuedBySettle(r, h)
  /\ Settle(r, h)
  /\ Then(r, h, next)

\* Written to a socket or for a channel that nobody listens to.
AckIgnored(r, h, next) ==
  /\ link[r] \in {"lost", "refusing"}
  /\ Then(r, h, next)
  /\ UNCHANGED <<broker, link, mistaken>>

Ack(r, h) ==
  /\ handler[r][h].pc = "ack"
  /\ \/ AckArrives(r, h, AfterAck)
     \/ AckIgnored(r, h, AfterAck)
     \/ AckThrows(r) /\ Exit(r) /\ UNCHANGED mistaken
  /\ UNCHANGED <<effects, faults>>

Nack(r, h) ==
  /\ handler[r][h].pc = "nack"
  /\ \/ /\ link[r] = "open"
        /\ queue' = queue \cup SettledMessages(r, h) \cup RequeuedBySettle(r, h)
        /\ Settle(r, h)
        /\ Return(r, h)
        /\ UNCHANGED <<gone, mistaken>>
     \/ AckIgnored(r, h, "idle")
     \/ AckThrows(r) /\ Exit(r) /\ UNCHANGED mistaken
  /\ UNCHANGED <<effects, faults>>

\* An error of Redis is caught and only logged.
SetKey(r, h) ==
  /\ handler[r][h].pc = "set"
  /\ keys' \in {keys, keys \cup {handler[r][h].msg}}
  /\ Return(r, h)
  /\ UNCHANGED <<broker, link, handled, forwarded, mistaken, faults>>

\* Acknowledged without handling it; an exception is caught here.
AckKnown(r, h) ==
  /\ handler[r][h].pc = "known"
  /\ \/ AckArrives(r, h, "delete")
     \/ AckIgnored(r, h, "delete")
     \/ AckThrows(r) /\ Return(r, h) /\ UNCHANGED <<broker, link, mistaken>>
  /\ UNCHANGED <<effects, faults>>

\* An error of Redis is caught by the block that reads the key, after which the
\* message is handled and acknowledged once more.
DeleteKey(r, h) ==
  /\ handler[r][h].pc = "delete"
  /\ \/ keys' = keys \ {handler[r][h].msg} /\ Return(r, h)
     \/ UNCHANGED keys /\ GoTo(r, h, "handle")
  /\ UNCHANGED <<broker, link, handled, forwarded, mistaken, faults>>

-------------------------------------------------------------------------------
(* The connection.                                                         *)

AfterDrop(l) ==
  CASE l \in {"open", "refusing"} -> "lost"
    [] l = "refused" -> "closed"
    [] l = "closing" -> "deaf"

Drop(r) ==
  /\ link[r] \in {"open", "refusing", "refused", "closing"}
  /\ drops < MaxDrops
  /\ drops' = drops + 1
  /\ ReleaseAll(r)
  /\ link' = [link EXCEPT ![r] = AfterDrop(@)]
  /\ UNCHANGED <<handler, effects, mistaken, crashes, nacks>>

\* mutant: nobody listens for a channel that is closed
NoticeConnectionClose(r) ==
  /\ link[r] = "lost" /\ link' = [link EXCEPT ![r] = "closed"]
  /\ UNCHANGED <<broker, handler, effects, mistaken, faults>>
\* The close event; it starts the timer.
NoticeClose(r) ==
  /\ \/ link[r] = "lost" /\ link' = [link EXCEPT ![r] = "closed"]
     \/ link[r] = "refusing" /\ link' = [link EXCEPT ![r] = "refused"]
  /\ UNCHANGED <<broker, handler, effects, mistaken, faults>>

\* The timer fires.  Closing a closed connection calls back at once, with an
\* error; closing one that is open waits for the broker.
Reconnect(r) ==
  /\ \/ link[r] = "closed" /\ link' = [link EXCEPT ![r] = "connect"]
     \/ link[r] = "refused" /\ link' = [link EXCEPT ![r] = "closing"]
  /\ UNCHANGED <<broker, handler, effects, mistaken, faults>>

CloseOk(r) ==
  /\ link[r] = "closing"
  /\ link' = [link EXCEPT ![r] = "connect"]
  /\ UNCHANGED <<broker, handler, effects, mistaken, faults>>

Outlived(x) == [x EXCEPT !.old = x.pc # "idle"]

\* A new connection, new channels, and the consumer subscribed again.  The
\* handlers that still run have their tags from an earlier channel.
Connect(r) ==
  /\ link[r] = "connect"
  /\ link' = [link EXCEPT ![r] = "open"]
  /\ handler' = [handler EXCEPT ![r] = [h \in Handlers |-> Outlived(handler[r][h])]]
  /\ UNCHANGED <<broker, effects, mistaken, faults>>

InitFails(r) ==
  /\ link[r] = "connect"
  /\ drops < MaxDrops
  /\ drops' = drops + 1
  /\ link' = [link EXCEPT ![r] = "closed"]
  /\ UNCHANGED <<broker, handler, effects, mistaken, crashes, nacks>>

Crash(r) ==
  /\ crashes < MaxCrashes
  /\ crashes' = crashes + 1
  /\ Exit(r)
  /\ UNCHANGED <<effects, mistaken, drops, nacks>>

-------------------------------------------------------------------------------
Init ==
  /\ queue = Messages
  /\ gone = {}
  /\ link = [r \in Replicas |-> "connect"]
  /\ unacked = [r \in Replicas |-> {}]
  /\ lastTag = [r \in Replicas |-> 0]
  /\ handler = [r \in Replicas |-> [h \in Handlers |-> NoHandler]]
  /\ handled = {} /\ forwarded = {} /\ keys = {} /\ mistaken = {}
  /\ drops = 0 /\ crashes = 0 /\ nacks = 0

HandlerStep(r, h) ==
  \/ GetKey(r, h) \/ Produce(r, h) \/ HandlerReturns(r, h)
  \/ Ack(r, h) \/ Nack(r, h) \/ SetKey(r, h)
  \/ AckKnown(r, h) \/ DeleteKey(r, h)

LinkStep(r) == NoticeClose(r) \/ Reconnect(r) \/ CloseOk(r) \/ Connect(r)

Next ==
  \E r \in Replicas :
    \/ \E h \in Handlers :
         \/ \E m \in Messages : Deliver(r, h, m)
         \/ HandlerStep(r, h) \/ NotHandled(r, h)
    \/ LinkStep(r) \/ Drop(r) \/ InitFails(r) \/ Crash(r)

Spec == Init /\ [][Next]_vars

(***************************************************************************)
(* Handlers run on, a closed connection is noticed (heartbeats) and opened *)
(* again, and the broker delivers to a consumer that has room.             *)
(***************************************************************************)
Fairness ==
  \A r \in Replicas :
    /\ WF_vars(LinkStep(r))
    /\ \A h \in Handlers : WF_vars(HandlerStep(r, h))
    /\ WF_vars(\E h \in Handlers, m \in Messages : Deliver(r, h, m))

FairSpec == Spec /\ Fairness

-------------------------------------------------------------------------------
TypeOK ==
  /\ queue \subseteq Messages /\ gone \subseteq Messages
  /\ link \in [Replicas -> Link]
  /\ unacked \in [Replicas -> SUBSET Delivery]
  /\ lastTag \in [Replicas -> 0 .. MaxTag]
  /\ handler \in [Replicas -> [Handlers -> Handler]]
  /\ handled \subseteq Messages /\ forwarded \subseteq Messages /\ keys \subseteq Messages
  /\ mistaken \subseteq Messages
  /\ drops \in 0 .. MaxDrops /\ crashes \in 0 .. MaxCrashes /\ nacks \in 0 .. MaxNacks

(***************************************************************************)
(* A message leaves the queue only when it has been handled, or when the   *)
(* acknowledgement came from a handler that has outlived its channel: such *)
(* a tag can hit any delivery, those of the other handlers never do.       *)
(***************************************************************************)
AckedIsHandled == gone \subseteq handled \cup mistaken

(***************************************************************************)
(* Likewise it leaves the queue only when the message that follows from it *)
(* has reached the broker, whatever connection either was written to.      *)
(***************************************************************************)
AckedIsForwarded == gone \subseteq forwarded \cup mistaken

(***************************************************************************)
(* Every message is settled in the end, through lost connections, restarts,*)
(* old tags and messages given back, unless all replicas end up deaf: their*)
(* connection died while they were waiting for it to be closed.            *)
(***************************************************************************)
EveryMessageIsSettled ==
  \/ <>[](\A r \in Replicas : link[r] = "deaf")
  \/ \A m \in Messages : <>(m \in gone)

===============================================================================
