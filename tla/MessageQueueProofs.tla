--------------------------- MODULE MessageQueueProofs ---------------------------
(***************************************************************************)
(* The tag of a handler whose channel is still the one of now stands for   *)
(* nothing but its own delivery, for any number of replicas, handlers,     *)
(* messages, lost connections and crashes: only the handlers that have     *)
(* outlived their channel can take away what nobody has handled.           *)
(***************************************************************************)
EXTENDS MessageQueue, TLAPS

Pcs == {"idle", "get", "handle", "finish", "ack", "nack", "set", "known", "delete"}

\* Handlers of a message that some handler has returned true for.
After == {"ack", "set", "known", "delete"}

\* Either nothing is delivered under this tag any more, or the handler's message.
OwnTag(r, h) ==
  /\ handler[r][h].tag <= lastTag[r]
  /\ \A u \in unacked[r] : u.tag = handler[r][h].tag => u.msg = handler[r][h].msg

HandlerOK(r, h) ==
  /\ handler[r][h].pc # "idle" => handler[r][h].msg \in Messages
  /\ handler[r][h].pc \in After => handler[r][h].msg \in handled
  /\ handler[r][h].pc # "idle" /\ link[r] = "open" /\ ~handler[r][h].old => OwnTag(r, h)

ChannelOK(r) == \A u \in unacked[r] : u.tag <= lastTag[r]

ReplicaOK(r) == ChannelOK(r) /\ \A h \in Handlers : HandlerOK(r, h)

RecordsOK == gone \subseteq handled \cup mistaken /\ keys \subseteq handled

QInv == TypeOK /\ RecordsOK /\ \A r \in Replicas : ReplicaOK(r)

-------------------------------------------------------------------------------
LEMMA IdleTyped ==
  NoHandler \in Handler /\ NoHandler.pc = "idle"
  <1>1. 0 \in 0 .. MaxTag
    BY QueueAssumption
  <1> QED
    BY <1>1 DEF NoHandler, Handler

\* What a handler that goes on changes.
LEMMA GoToStep ==
  ASSUME TypeOK, NEW r \in Replicas, NEW h \in Handlers, NEW pc \in Pcs, GoTo(r, h, pc)
  PROVE  /\ handler' \in [Replicas -> [Handlers -> Handler]]
         /\ handler'[r][h].pc = pc
         /\ handler'[r][h].msg = handler[r][h].msg
         /\ handler'[r][h].tag = handler[r][h].tag
         /\ handler'[r][h].old = handler[r][h].old
         /\ \A k \in Handlers : k # h => handler'[r][k] = handler[r][k]
         /\ \A s \in Replicas : s # r => handler'[s] = handler[s]
  <1> DEFINE after == [handler[r][h] EXCEPT !.pc = pc]
  <1>1. handler \in [Replicas -> [Handlers -> Handler]] /\ handler[r][h] \in Handler
    BY DEF TypeOK
  <1>2. after \in Handler /\ after.pc = pc
        /\ after.msg = handler[r][h].msg /\ after.tag = handler[r][h].tag
        /\ after.old = handler[r][h].old
    BY <1>1 DEF Handler, Pcs
  <1>3. handler' = [handler EXCEPT ![r][h] = after]
    BY DEF GoTo
  <1> HIDE DEF after
  <1>4. handler' \in [Replicas -> [Handlers -> Handler]] /\ handler'[r][h] = after
    BY <1>1, <1>2, <1>3
  <1> QED
    BY <1>1, <1>2, <1>3, <1>4

LEMMA ReturnStep ==
  ASSUME TypeOK, NEW r \in Replicas, NEW h \in Handlers, Return(r, h)
  PROVE  /\ handler' \in [Replicas -> [Handlers -> Handler]]
         /\ handler'[r][h] = NoHandler
         /\ \A k \in Handlers : k # h => handler'[r][k] = handler[r][k]
         /\ \A s \in Replicas : s # r => handler'[s] = handler[s]
  <1>1. handler \in [Replicas -> [Handlers -> Handler]] /\ NoHandler \in Handler
    BY IdleTyped DEF TypeOK
  <1> HIDE DEF NoHandler
  <1>2. handler' = [handler EXCEPT ![r][h] = NoHandler]
    BY DEF Return
  <1> QED
    BY <1>1, <1>2

\* A handler ends or goes on to pc; what it becomes after an acknowledgement.
Onward(r, h, pc) == Return(r, h) \/ GoTo(r, h, pc)

LEMMA OnwardStep ==
  ASSUME TypeOK, NEW r \in Replicas, NEW h \in Handlers, NEW pc \in Pcs, Onward(r, h, pc)
  PROVE  /\ handler' \in [Replicas -> [Handlers -> Handler]]
         /\ \/ handler'[r][h] = NoHandler
            \/ /\ handler'[r][h].pc = pc
               /\ handler'[r][h].msg = handler[r][h].msg
               /\ handler'[r][h].tag = handler[r][h].tag
               /\ handler'[r][h].old = handler[r][h].old
         /\ \A k \in Handlers : k # h => handler'[r][k] = handler[r][k]
         /\ \A s \in Replicas : s # r => handler'[s] = handler[s]
  BY GoToStep, ReturnStep DEF Onward

\* Replicas that do nothing stay as they are.
LEMMA OthersStay ==
  ASSUME NEW s \in Replicas, ReplicaOK(s), handler'[s] = handler[s], link'[s] = link[s],
         unacked'[s] = unacked[s], lastTag'[s] = lastTag[s], handled \subseteq handled'
  PROVE  ReplicaOK(s)'
  BY DEF ReplicaOK, ChannelOK, HandlerOK, OwnTag

\* The broker hears nothing, settles deliveries of this channel or closes it.
ChannelStep(r) ==
  /\ \A s \in Replicas : s # r => /\ link'[s] = link[s]
                                  /\ unacked'[s] = unacked[s]
                                  /\ lastTag'[s] = lastTag[s]
  /\ unacked'[r] \subseteq unacked[r]
  /\ \/ link'[r] = link[r] /\ lastTag'[r] = lastTag[r]
     \/ link'[r] # "open" /\ unacked'[r] = {}

LEMMA HandlerMoves ==
  ASSUME QInv, NEW r \in Replicas, NEW h \in Handlers, NEW pc \in Pcs, Onward(r, h, pc),
         ChannelStep(r), handler[r][h].pc # "idle", handled \subseteq handled',
         pc \in After => handler[r][h].msg \in handled'
  PROVE  \A s \in Replicas : ReplicaOK(s)'
  <1>1. TypeOK /\ ReplicaOK(r)
    BY DEF QInv
  <1>2. /\ \/ handler'[r][h] = NoHandler
           \/ /\ handler'[r][h].pc = pc
              /\ handler'[r][h].msg = handler[r][h].msg
              /\ handler'[r][h].tag = handler[r][h].tag
              /\ handler'[r][h].old = handler[r][h].old
        /\ \A k \in Handlers : k # h => handler'[r][k] = handler[r][k]
        /\ \A s \in Replicas : s # r => handler'[s] = handler[s]
    BY <1>1, OnwardStep
  <1>3. ChannelOK(r)'
    BY <1>1 DEF ChannelStep, ReplicaOK, ChannelOK
  <1>4. HandlerOK(r, h)'
    <2>1. CASE handler'[r][h] = NoHandler
      BY <2>1, IdleTyped DEF HandlerOK, After
    <2>2. CASE /\ handler'[r][h].pc = pc
               /\ handler'[r][h].msg = handler[r][h].msg
               /\ handler'[r][h].tag = handler[r][h].tag
               /\ handler'[r][h].old = handler[r][h].old
      BY <1>1, <2>2 DEF ReplicaOK, HandlerOK, OwnTag, ChannelStep
    <2> QED
      BY <1>2, <2>1, <2>2
  <1>5. ASSUME NEW k \in Handlers, k # h  PROVE HandlerOK(r, k)'
    BY <1>1, <1>2, <1>5 DEF ReplicaOK, HandlerOK, OwnTag, ChannelStep
  <1>6. ASSUME NEW s \in Replicas, s # r  PROVE ReplicaOK(s)'
    BY <1>2, <1>6, OthersStay DEF QInv, ChannelStep
  <1> QED
    BY <1>3, <1>4, <1>5, <1>6 DEF ReplicaOK

\* What a tag settles, and whom it can take it from.
LEMMA SettleStep ==
  ASSUME QInv, NEW r \in Replicas, NEW h \in Handlers, link[r] = "open",
         handler[r][h].pc # "idle", Settle(r, h)
  PROVE  /\ ~handler[r][h].old => SettledMessages(r, h) \subseteq {handler[r][h].msg}
         /\ SettledMessages(r, h) \subseteq Messages
         /\ RequeuedBySettle(r, h) \subseteq Messages
         /\ ChannelStep(r)
         /\ link' \in [Replicas -> Link]
         /\ unacked' \in [Replicas -> SUBSET Delivery]
         /\ lastTag' \in [Replicas -> 0 .. MaxTag]
         /\ \A s \in Replicas : link'[s] = "open" => link[s] = "open"
  <1>1. TypeOK /\ HandlerOK(r, h)
    BY DEF QInv, ReplicaOK
  <1>2. Tagged(r, h) \subseteq unacked[r] /\ unacked[r] \subseteq Delivery
    BY <1>1 DEF Tagged, TypeOK
  <1>3. ASSUME ~handler[r][h].old  PROVE SettledMessages(r, h) \subseteq {handler[r][h].msg}
    BY <1>1, <1>3 DEF HandlerOK, OwnTag, SettledMessages, Tagged
  <1>4. SettledMessages(r, h) \subseteq Messages /\ RequeuedBySettle(r, h) \subseteq Messages
    BY <1>2 DEF SettledMessages, RequeuedBySettle, Held, Delivery
  <1>5. CASE Tagged(r, h) # {}
    <2>1. unacked' = [unacked EXCEPT ![r] = @ \ Tagged(r, h)] /\ link' = link /\ lastTag' = lastTag
      BY <1>5 DEF Settle
    <2> QED
      BY <1>1, <1>3, <1>4, <2>1 DEF TypeOK, ChannelStep
  <1>6. CASE Tagged(r, h) = {}
    <2>1. /\ unacked' = [unacked EXCEPT ![r] = {}]
          /\ lastTag' = [lastTag EXCEPT ![r] = 0]
          /\ link' = [link EXCEPT ![r] = "refusing"]
      BY <1>6 DEF Settle
    <2>2. 0 \in 0 .. MaxTag /\ "refusing" \in Link
      BY QueueAssumption DEF Link
    <2> QED
      BY <1>1, <1>3, <1>4, <2>1, <2>2 DEF TypeOK, ChannelStep
  <1> QED
    BY <1>5, <1>6

\* What the broker gets back are messages.
LEMMA ReleaseTyped ==
  ASSUME TypeOK, NEW r \in Replicas, ReleaseAll(r)
  PROVE  /\ queue' \subseteq Messages /\ gone' = gone
         /\ unacked' \in [Replicas -> SUBSET Delivery]
         /\ lastTag' \in [Replicas -> 0 .. MaxTag]
         /\ unacked'[r] = {}
         /\ \A s \in Replicas : s # r => unacked'[s] = unacked[s] /\ lastTag'[s] = lastTag[s]
  <1>1. Held(r) \subseteq Messages
    BY DEF TypeOK, Held, Delivery
  <1>2. 0 \in 0 .. MaxTag
    BY QueueAssumption
  <1> QED
    BY <1>1, <1>2 DEF TypeOK, ReleaseAll

\* A process that ends gives back what it has and starts anew.
LEMMA ExitStep ==
  ASSUME QInv, NEW r \in Replicas, Exit(r), UNCHANGED <<effects, mistaken>>,
         drops' \in 0 .. MaxDrops, crashes' \in 0 .. MaxCrashes, nacks' \in 0 .. MaxNacks
  PROVE  QInv'
  <1>1. TypeOK
    BY DEF QInv
  <1>2. /\ queue' \subseteq Messages /\ gone' = gone
        /\ unacked' \in [Replicas -> SUBSET Delivery]
        /\ lastTag' \in [Replicas -> 0 .. MaxTag]
        /\ unacked'[r] = {}
        /\ \A s \in Replicas : s # r => unacked'[s] = unacked[s] /\ lastTag'[s] = lastTag[s]
    BY <1>1, ReleaseTyped DEF Exit
  <1>3. /\ link' = [link EXCEPT ![r] = "connect"]
        /\ handler' = [handler EXCEPT ![r] = [h \in Handlers |-> NoHandler]]
    BY DEF Exit
  <1>4. /\ handler' \in [Replicas -> [Handlers -> Handler]]
        /\ \A h \in Handlers : handler'[r][h] = NoHandler
        /\ \A s \in Replicas : s # r => handler'[s] = handler[s]
    BY <1>1, <1>3, IdleTyped DEF TypeOK
  <1>5. /\ link' \in [Replicas -> Link]
        /\ \A s \in Replicas : s # r => link'[s] = link[s]
    BY <1>1, <1>3 DEF TypeOK, Link
  <1>6. TypeOK'
    BY <1>1, <1>2, <1>4, <1>5 DEF TypeOK, effects
  <1>7. ReplicaOK(r)'
    BY <1>2, <1>4, IdleTyped DEF ReplicaOK, ChannelOK, HandlerOK, After
  <1>8. ASSUME NEW s \in Replicas, s # r  PROVE ReplicaOK(s)'
    BY <1>2, <1>4, <1>5, <1>8, OthersStay DEF QInv, effects
  <1>9. RecordsOK'
    BY <1>2 DEF QInv, RecordsOK, effects
  <1> QED
    BY <1>6, <1>7, <1>8, <1>9 DEF QInv

\* A message is delivered: its tag is new.
LEMMA DeliverStep ==
  ASSUME QInv, NEW r \in Replicas, NEW h \in Handlers, NEW m \in Messages, Deliver(r, h, m)
  PROVE  QInv'
  <1> DEFINE t == lastTag[r] + 1
             d == [msg |-> m, tag |-> t]
             x == [pc |-> IF Cache THEN "get" ELSE "handle", msg |-> m, tag |-> t, old |-> FALSE]
  <1>1. TypeOK /\ ReplicaOK(r) /\ link[r] = "open" /\ handler[r][h] = NoHandler
    BY DEF QInv, Deliver
  <1>2. t \in Tags /\ t \in 0 .. MaxTag /\ lastTag[r] \in Nat /\ t = lastTag[r] + 1
    BY <1>1, QueueAssumption DEF TypeOK, Deliver, Tags
  <1>3. d \in Delivery /\ d.msg = m /\ d.tag = t
        /\ x \in Handler /\ x.pc \in {"get", "handle"} /\ x.msg = m /\ x.tag = t
    BY <1>2 DEF Delivery, Handler
  <1>4. /\ unacked' = [unacked EXCEPT ![r] = @ \cup {d}]
        /\ lastTag' = [lastTag EXCEPT ![r] = t]
        /\ handler' = [handler EXCEPT ![r][h] = x]
        /\ UNCHANGED <<gone, link, effects, mistaken, faults>> /\ queue' = queue \ {m}
    BY DEF Deliver
  <1> HIDE DEF t, d, x
  <1>5. TypeOK'
    BY <1>1, <1>2, <1>3, <1>4 DEF TypeOK, effects, faults
  <1>6. /\ unacked'[r] = unacked[r] \cup {d} /\ lastTag'[r] = t
        /\ handler'[r][h] = x
        /\ \A k \in Handlers : k # h => handler'[r][k] = handler[r][k]
        /\ \A s \in Replicas : s # r => /\ handler'[s] = handler[s]
                                        /\ unacked'[s] = unacked[s]
                                        /\ lastTag'[s] = lastTag[s]
    BY <1>1, <1>4 DEF TypeOK
  <1>7. \A u \in unacked[r] : u.tag \in Nat /\ u.tag <= lastTag[r] /\ u.tag # t
    BY <1>1, <1>2 DEF ReplicaOK, ChannelOK, TypeOK, Delivery, Tags
  <1>8. ChannelOK(r)'
    BY <1>2, <1>3, <1>6, <1>7 DEF ChannelOK
  <1>9. HandlerOK(r, h)'
    BY <1>2, <1>3, <1>6, <1>7 DEF HandlerOK, OwnTag, After
  <1>10. ASSUME NEW k \in Handlers, k # h  PROVE HandlerOK(r, k)'
    <2>1. HandlerOK(r, k) /\ handler[r][k].tag \in Nat /\ handler'[r][k] = handler[r][k]
      BY <1>1, <1>6, <1>10 DEF ReplicaOK, TypeOK, Handler
    <2>2. OwnTag(r, k) => OwnTag(r, k)'
      BY <1>2, <1>3, <1>6, <2>1 DEF OwnTag
    <2> QED
      BY <1>4, <2>1, <2>2 DEF HandlerOK, effects
  <1>11. ASSUME NEW s \in Replicas, s # r  PROVE ReplicaOK(s)'
    BY <1>4, <1>6, <1>11, OthersStay DEF QInv, effects
  <1>12. RecordsOK'
    BY <1>4 DEF QInv, RecordsOK, effects
  <1> QED
    BY <1>5, <1>8, <1>9, <1>10, <1>11, <1>12 DEF QInv, ReplicaOK

\* The connection changes, but no new channel is there yet.
LEMMA LinkStepOK ==
  ASSUME QInv, NEW r \in Replicas, NEW to \in Link, to # "open",
         link' = [link EXCEPT ![r] = to],
         UNCHANGED <<handler, effects, mistaken, gone>>, queue' \subseteq Messages,
         UNCHANGED <<unacked, lastTag>> \/ ReleaseAll(r),
         drops' \in 0 .. MaxDrops, crashes' = crashes, nacks' = nacks
  PROVE  QInv'
  <1>1. /\ TypeOK /\ ReplicaOK(r) /\ link'[r] = to /\ link' \in [Replicas -> Link]
        /\ \A s \in Replicas : s # r => link'[s] = link[s]
    BY DEF QInv, TypeOK
  <1>2. /\ unacked' \in [Replicas -> SUBSET Delivery]
        /\ lastTag' \in [Replicas -> 0 .. MaxTag]
        /\ \A s \in Replicas : s # r => unacked'[s] = unacked[s] /\ lastTag'[s] = lastTag[s]
        /\ unacked'[r] = {} \/ (unacked'[r] = unacked[r] /\ lastTag'[r] = lastTag[r])
    BY <1>1, ReleaseTyped DEF TypeOK
  <1>3. ReplicaOK(r)'
    BY <1>1, <1>2 DEF ReplicaOK, ChannelOK, HandlerOK, effects
  <1>4. ASSUME NEW s \in Replicas, s # r  PROVE ReplicaOK(s)'
    BY <1>1, <1>2, <1>4, OthersStay DEF QInv, effects
  <1>5. TypeOK'
    BY <1>1, <1>2 DEF TypeOK, effects
  <1>6. RecordsOK'
    BY DEF QInv, RecordsOK, effects
  <1> QED
    BY <1>3, <1>4, <1>5, <1>6 DEF QInv

\* A new channel: whoever still runs has its tag from an earlier one.
LEMMA ConnectStep ==
  ASSUME QInv, NEW r \in Replicas, Connect(r)
  PROVE  /\ QInv'
         /\ \A h \in Handlers : handler'[r][h].pc # "idle" => handler'[r][h].old
         /\ \A h \in Handlers : handler'[r][h].pc = handler[r][h].pc
         /\ \A s \in Replicas : s # r => handler'[s] = handler[s] /\ link'[s] = link[s]
  <1>1. TypeOK /\ ReplicaOK(r)
    BY DEF QInv
  <1>2. /\ link' = [link EXCEPT ![r] = "open"]
        /\ handler' = [handler EXCEPT ![r] = [h \in Handlers |-> Outlived(handler[r][h])]]
        /\ UNCHANGED <<broker, effects, mistaken, faults>>
    BY DEF Connect
  <1>3. ASSUME NEW h \in Handlers
        PROVE  /\ Outlived(handler[r][h]) \in Handler
               /\ Outlived(handler[r][h]).pc = handler[r][h].pc
               /\ Outlived(handler[r][h]).msg = handler[r][h].msg
               /\ handler[r][h].pc # "idle" => Outlived(handler[r][h]).old
    <2>1. handler[r][h] \in Handler
      BY <1>1 DEF TypeOK
    <2> QED
      BY <2>1 DEF Outlived, Handler
  <1>4. /\ \A h \in Handlers : handler'[r][h] = Outlived(handler[r][h])
        /\ \A s \in Replicas : s # r => handler'[s] = handler[s] /\ link'[s] = link[s]
        /\ link' \in [Replicas -> Link]
    BY <1>1, <1>2 DEF TypeOK, Link
  <1>5. handler' \in [Replicas -> [Handlers -> Handler]]
    BY <1>1, <1>2, <1>3 DEF TypeOK
  <1>6. TypeOK'
    BY <1>1, <1>2, <1>4, <1>5 DEF TypeOK, broker, effects, faults
  <1>7. ASSUME NEW h \in Handlers  PROVE HandlerOK(r, h)'
    <2>1. /\ handler'[r][h].pc = handler[r][h].pc /\ handler'[r][h].msg = handler[r][h].msg
          /\ handler[r][h].pc # "idle" => handler'[r][h].old
          /\ handled' = handled
      BY <1>2, <1>3, <1>4 DEF effects
    <2> QED
      BY <1>1, <2>1 DEF ReplicaOK, HandlerOK
  <1>8. ChannelOK(r)'
    BY <1>1, <1>2 DEF ReplicaOK, ChannelOK, broker
  <1>9. ASSUME NEW s \in Replicas, s # r  PROVE ReplicaOK(s)'
    BY <1>2, <1>4, <1>9, OthersStay DEF QInv, broker, effects
  <1>10. RecordsOK'
    BY <1>2 DEF QInv, RecordsOK, broker, effects
  <1> QED
    BY <1>3, <1>4, <1>6, <1>7, <1>8, <1>9, <1>10 DEF QInv, ReplicaOK

\* An acknowledgement: what it takes away is the handler's own, or a mistake.
LEMMA AckStep ==
  ASSUME QInv, NEW r \in Replicas, NEW h \in Handlers, NEW next \in Pcs,
         handler[r][h].pc \in {"ack", "known"}, next \in After \cup {"idle"},
         AckArrives(r, h, next) \/ AckIgnored(r, h, next),
         UNCHANGED <<effects, faults>>
  PROVE  QInv'
  <1>1. TypeOK /\ RecordsOK /\ HandlerOK(r, h)
    BY DEF QInv, ReplicaOK
  <1>2. handler[r][h].msg \in handled /\ handler[r][h].pc # "idle"
    BY <1>1 DEF HandlerOK, After
  <1>3. Onward(r, h, next)
    BY DEF AckArrives, AckIgnored, Then, Onward
  <1>4. handler' \in [Replicas -> [Handlers -> Handler]]
    BY <1>1, <1>3, OnwardStep
  <1>5. CASE AckArrives(r, h, next)
    <2>1. /\ ~handler[r][h].old => SettledMessages(r, h) \subseteq {handler[r][h].msg}
          /\ SettledMessages(r, h) \subseteq Messages
          /\ RequeuedBySettle(r, h) \subseteq Messages
          /\ ChannelStep(r)
          /\ link' \in [Replicas -> Link]
          /\ unacked' \in [Replicas -> SUBSET Delivery]
          /\ lastTag' \in [Replicas -> 0 .. MaxTag]
      BY <1>2, <1>5, SettleStep DEF AckArrives
    <2>2. /\ gone' = gone \cup SettledMessages(r, h)
          /\ mistaken' = IF handler[r][h].old THEN mistaken \cup SettledMessages(r, h) ELSE mistaken
          /\ queue' = queue \cup RequeuedBySettle(r, h)
      BY <1>5 DEF AckArrives
    <2>3. TypeOK'
      BY <1>1, <1>4, <2>1, <2>2 DEF TypeOK, effects, faults
    <2>4. RecordsOK'
      BY <1>1, <1>2, <2>1, <2>2 DEF RecordsOK, effects
    <2>5. \A s \in Replicas : ReplicaOK(s)'
      BY <1>2, <1>3, <2>1, HandlerMoves DEF effects
    <2> QED
      BY <2>3, <2>4, <2>5 DEF QInv
  <1>6. CASE AckIgnored(r, h, next)
    <2>1. UNCHANGED <<broker, link, mistaken>>
      BY <1>6 DEF AckIgnored
    <2>2. ChannelStep(r)
      BY <2>1 DEF ChannelStep, broker
    <2>3. \A s \in Replicas : ReplicaOK(s)'
      BY <1>2, <1>3, <2>2, HandlerMoves DEF effects
    <2> QED
      BY <1>1, <1>4, <2>1, <2>3 DEF QInv, TypeOK, RecordsOK, broker, effects, faults
  <1> QED
    BY <1>5, <1>6

\* The broker hears nothing of what a handler does.
LEMMA QuietStep ==
  ASSUME QInv, NEW r \in Replicas, NEW h \in Handlers, NEW pc \in Pcs, Onward(r, h, pc),
         handler[r][h].pc # "idle", UNCHANGED <<broker, link, mistaken>>,
         handled \subseteq handled', handled' \subseteq Messages, forwarded' \subseteq Messages,
         keys' \subseteq handled',
         pc \in After => handler[r][h].msg \in handled',
         drops' = drops, crashes' = crashes, nacks' \in 0 .. MaxNacks
  PROVE  QInv'
  <1>1. TypeOK /\ RecordsOK
    BY DEF QInv
  <1>2. ChannelStep(r)
    BY DEF ChannelStep, broker
  <1>3. \A s \in Replicas : ReplicaOK(s)'
    BY <1>2, HandlerMoves
  <1>4. handler' \in [Replicas -> [Handlers -> Handler]]
    BY <1>1, OnwardStep
  <1>5. TypeOK'
    BY <1>1, <1>4 DEF TypeOK, broker
  <1>6. RecordsOK'
    BY <1>1 DEF RecordsOK, broker
  <1> QED
    BY <1>3, <1>5, <1>6 DEF QInv

LEMMA QStep ==
  ASSUME QInv, [Next]_vars
  PROVE  QInv'
  <1>0. TypeOK /\ RecordsOK /\ \A r \in Replicas : ReplicaOK(r)
    BY DEF QInv
  <1>a. /\ drops \in 0 .. MaxDrops /\ crashes \in 0 .. MaxCrashes /\ nacks \in 0 .. MaxNacks
        /\ handled \subseteq Messages /\ forwarded \subseteq Messages /\ keys \subseteq handled
    BY <1>0 DEF TypeOK, RecordsOK
  <1>b. ASSUME NEW r \in Replicas, NEW h \in Handlers, handler[r][h].pc # "idle"
        PROVE  /\ handler[r][h].msg \in Messages
               /\ handler[r][h].pc \in After => handler[r][h].msg \in handled
    BY <1>0, <1>b DEF ReplicaOK, HandlerOK
  <1>c. \A pc \in {"handle", "finish", "ack", "nack", "known", "delete", "set", "idle"} : pc \in Pcs
    BY DEF Pcs
  <1>1. ASSUME NEW r \in Replicas, NEW h \in Handlers, NEW m \in Messages, Deliver(r, h, m)
        PROVE  QInv'
    BY <1>1, DeliverStep
  <1>2. ASSUME NEW r \in Replicas, NEW h \in Handlers, GetKey(r, h)  PROVE QInv'
    <2>1. PICK pc \in {"known", "handle"} :
            GoTo(r, h, pc) /\ (pc = "known" => handler[r][h].msg \in keys)
      BY <1>2 DEF GetKey
    <2>2. /\ Onward(r, h, pc) /\ pc \in Pcs /\ handler[r][h].pc # "idle"
          /\ pc \in After => handler[r][h].msg \in handled
      BY <1>2, <1>a, <1>c, <2>1 DEF Onward, GetKey, After
    <2> QED
      BY <1>2, <1>a, <2>2, QuietStep DEF GetKey, effects, faults
  <1>3. ASSUME NEW r \in Replicas, NEW h \in Handlers, Produce(r, h)  PROVE QInv'
    <2>1. Onward(r, h, "finish") /\ handler[r][h].pc # "idle" /\ "finish" \notin After
      BY <1>3 DEF Onward, Produce, After
    <2>2. forwarded' \subseteq Messages
      BY <1>3, <1>a, <1>b, <2>1 DEF Produce
    <2> QED
      BY <1>3, <1>a, <1>c, <2>1, <2>2, QuietStep DEF Produce, faults
  <1>4. ASSUME NEW r \in Replicas, NEW h \in Handlers, HandlerReturns(r, h)  PROVE QInv'
    <2>1. Onward(r, h, "ack") /\ handler[r][h].pc # "idle"
      BY <1>4 DEF Onward, HandlerReturns
    <2>2. handled' = handled \cup {handler[r][h].msg} /\ handler[r][h].msg \in Messages
      BY <1>4, <1>b, <2>1 DEF HandlerReturns
    <2>3. /\ UNCHANGED <<broker, link, mistaken, forwarded, keys>>
          /\ drops' = drops /\ crashes' = crashes /\ nacks' = nacks
      BY <1>4 DEF HandlerReturns, faults
    <2> QED
      BY <1>a, <1>c, <2>1, <2>2, <2>3, QuietStep
  <1>5. ASSUME NEW r \in Replicas, NEW h \in Handlers, NotHandled(r, h)  PROVE QInv'
    <2>1. Onward(r, h, "nack") /\ handler[r][h].pc # "idle" /\ "nack" \notin After
      BY <1>5 DEF Onward, NotHandled, After
    <2>2. nacks' \in 0 .. MaxNacks
      BY <1>5, <1>a, QueueAssumption DEF NotHandled
    <2> QED
      BY <1>5, <1>a, <1>c, <2>1, <2>2, QuietStep DEF NotHandled, effects
  <1>6. ASSUME NEW r \in Replicas, NEW h \in Handlers, Ack(r, h)  PROVE QInv'
    <2>1. AfterAck \in Pcs /\ AfterAck \in After \cup {"idle"}
      BY DEF AfterAck, Pcs, After
    <2>2. CASE AckArrives(r, h, AfterAck) \/ AckIgnored(r, h, AfterAck)
      BY <1>6, <2>1, <2>2, AckStep DEF Ack
    <2>3. CASE Exit(r) /\ UNCHANGED mistaken
      BY <1>6, <1>a, <2>3, ExitStep DEF Ack, faults
    <2> QED
      BY <1>6, <2>2, <2>3 DEF Ack
  <1>7. ASSUME NEW r \in Replicas, NEW h \in Handlers, Nack(r, h)  PROVE QInv'
    <2>1. handler[r][h].pc # "idle" /\ "idle" \notin After
      BY <1>7 DEF Nack, After
    <2>2. CASE /\ link[r] = "open" /\ Settle(r, h) /\ Return(r, h) /\ UNCHANGED <<gone, mistaken>>
               /\ queue' = queue \cup SettledMessages(r, h) \cup RequeuedBySettle(r, h)
      <3>1. /\ SettledMessages(r, h) \subseteq Messages
            /\ RequeuedBySettle(r, h) \subseteq Messages
            /\ ChannelStep(r)
            /\ link' \in [Replicas -> Link]
            /\ unacked' \in [Replicas -> SUBSET Delivery]
            /\ lastTag' \in [Replicas -> 0 .. MaxTag]
        BY <2>1, <2>2, SettleStep
      <3>2. handler' \in [Replicas -> [Handlers -> Handler]]
        BY <1>0, <2>2, ReturnStep
      <3>3. Onward(r, h, "idle")
        BY <2>2 DEF Onward
      <3>4. \A s \in Replicas : ReplicaOK(s)'
        BY <1>7, <1>c, <2>1, <3>1, <3>3, HandlerMoves DEF Nack, effects
      <3>5. TypeOK'
        BY <1>0, <1>7, <2>2, <3>1, <3>2 DEF Nack, TypeOK, effects, faults
      <3>6. RecordsOK'
        BY <1>0, <1>7, <2>2 DEF Nack, RecordsOK, effects
      <3> QED
        BY <3>4, <3>5, <3>6 DEF QInv
    <2>3. CASE AckIgnored(r, h, "idle")
      <3>1. Onward(r, h, "idle")
        BY <2>3 DEF AckIgnored, Then, Onward
      <3> QED
        BY <1>7, <1>a, <1>c, <2>1, <2>3, <3>1, QuietStep DEF Nack, AckIgnored, effects, faults
    <2>4. CASE Exit(r) /\ UNCHANGED mistaken
      BY <1>7, <1>a, <2>4, ExitStep DEF Nack, faults
    <2> QED
      BY <1>7, <2>2, <2>3, <2>4 DEF Nack
  <1>8. ASSUME NEW r \in Replicas, NEW h \in Handlers, SetKey(r, h)  PROVE QInv'
    <2>1. Onward(r, h, "idle") /\ handler[r][h].pc # "idle" /\ "idle" \notin After
      BY <1>8 DEF SetKey, Onward, After
    <2>2. handler[r][h].msg \in handled
      BY <1>8, <1>b DEF SetKey, After
    <2>3. keys' \subseteq handled
      BY <1>8, <1>a, <2>2 DEF SetKey
    <2> QED
      BY <1>8, <1>a, <1>c, <2>1, <2>3, QuietStep DEF SetKey, faults
  <1>9. ASSUME NEW r \in Replicas, NEW h \in Handlers, AckKnown(r, h)  PROVE QInv'
    <2>1. "delete" \in Pcs /\ "delete" \in After \cup {"idle"}
      BY DEF Pcs, After
    <2>2. CASE AckArrives(r, h, "delete") \/ AckIgnored(r, h, "delete")
      BY <1>9, <2>1, <2>2, AckStep DEF AckKnown
    <2>3. CASE Return(r, h) /\ UNCHANGED <<broker, link, mistaken>>
      <3>1. Onward(r, h, "idle") /\ handler[r][h].pc # "idle" /\ "idle" \notin After
        BY <1>9, <2>3 DEF AckKnown, Onward, After
      <3> QED
        BY <1>9, <1>a, <1>c, <2>3, <3>1, QuietStep DEF AckKnown, effects, faults
    <2> QED
      BY <1>9, <2>2, <2>3 DEF AckKnown
  <1>10. ASSUME NEW r \in Replicas, NEW h \in Handlers, DeleteKey(r, h)  PROVE QInv'
    <2>1. Onward(r, h, "handle") /\ handler[r][h].pc # "idle" /\ "handle" \notin After
      BY <1>10 DEF DeleteKey, Onward, After
    <2>2. keys' \subseteq handled
      BY <1>10, <1>a DEF DeleteKey
    <2> QED
      BY <1>10, <1>a, <1>c, <2>1, <2>2, QuietStep DEF DeleteKey, faults
  <1>11. ASSUME NEW r \in Replicas, NoticeClose(r) \/ Reconnect(r) \/ CloseOk(r)  PROVE QInv'
    <2>1. PICK to \in Link : link' = [link EXCEPT ![r] = to] /\ to # "open"
      BY <1>11 DEF NoticeClose, Reconnect, CloseOk, Link
    <2> QED
      BY <1>0, <1>11, <1>a, <2>1, LinkStepOK
         DEF NoticeClose, Reconnect, CloseOk, broker, faults, TypeOK
  <1>12. ASSUME NEW r \in Replicas, Connect(r)  PROVE QInv'
    BY <1>12, ConnectStep
  <1>13. ASSUME NEW r \in Replicas, InitFails(r)  PROVE QInv'
    <2>1. drops' \in 0 .. MaxDrops /\ "closed" \in Link /\ "closed" # "open"
      BY <1>13, <1>a, QueueAssumption DEF InitFails, Link
    <2> QED
      BY <1>0, <1>13, <2>1, LinkStepOK DEF InitFails, broker, TypeOK
  <1>14. ASSUME NEW r \in Replicas, Drop(r)  PROVE QInv'
    <2>1. drops' \in 0 .. MaxDrops
      BY <1>14, <1>a, QueueAssumption DEF Drop
    <2>2. AfterDrop(link[r]) \in Link /\ AfterDrop(link[r]) # "open"
      BY <1>14 DEF Drop, AfterDrop, Link
    <2>3. link' = [link EXCEPT ![r] = AfterDrop(link[r])] /\ ReleaseAll(r)
      BY <1>14 DEF Drop
    <2>4. queue' \subseteq Messages /\ gone' = gone
      BY <1>0, <2>3, ReleaseTyped
    <2> QED
      BY <1>14, <2>1, <2>2, <2>3, <2>4, LinkStepOK DEF Drop
  <1>15. ASSUME NEW r \in Replicas, Crash(r)  PROVE QInv'
    <2>1. crashes' \in 0 .. MaxCrashes
      BY <1>15, <1>a, QueueAssumption DEF Crash
    <2> QED
      BY <1>15, <1>a, <2>1, ExitStep DEF Crash
  <1>16. CASE UNCHANGED vars
    <2>1. \A s \in Replicas : ReplicaOK(s)'
      BY <1>0, <1>16, OthersStay DEF vars, broker, effects
    <2>2. TypeOK' /\ RecordsOK'
      BY <1>0, <1>16 DEF vars, TypeOK, RecordsOK, broker, effects, faults
    <2> QED
      BY <2>1, <2>2 DEF QInv
  <1> QED
    BY <1>1, <1>2, <1>3, <1>4, <1>5, <1>6, <1>7, <1>8, <1>9, <1>10, <1>11, <1>12, <1>13,
       <1>14, <1>15, <1>16 DEF Next, HandlerStep, LinkStep

LEMMA QInit == Init => QInv
  <1> SUFFICES ASSUME Init  PROVE QInv
    OBVIOUS
  <1>1. 0 \in 0 .. MaxTag /\ 0 \in 0 .. MaxDrops /\ 0 \in 0 .. MaxCrashes /\ 0 \in 0 .. MaxNacks
    BY QueueAssumption
  <1>2. TypeOK /\ RecordsOK
    BY <1>1, IdleTyped DEF Init, TypeOK, RecordsOK, Link
  <1>3. \A r \in Replicas : ReplicaOK(r)
    BY IdleTyped DEF Init, ReplicaOK, ChannelOK, HandlerOK, After
  <1> QED
    BY <1>2, <1>3 DEF QInv

(***************************************************************************)
(* With the Redis keys or without, through lost connections, crashes,      *)
(* messages given back and handlers of any length: a message that is       *)
(* acknowledged has been handled, unless the acknowledgement came from a   *)
(* handler that has outlived its channel.                                  *)
(***************************************************************************)
THEOREM HandledBeforeAcked == Spec => []AckedIsHandled
  <1>1. QInv => AckedIsHandled
    BY DEF QInv, RecordsOK, AckedIsHandled
  <1>2. QInv /\ [Next]_vars => QInv'
    BY QStep
  <1> QED
    BY <1>1, <1>2, QInit, PTL DEF Spec

-------------------------------------------------------------------------------
\* Without the keys: whoever has sent on the channel of now has been heard.
Heard(r, h) ==
  /\ handler[r][h].pc \notin {"get", "known", "set", "delete"}
  /\ handler[r][h].pc \in {"finish", "ack"} /\ link[r] = "open" /\ ~handler[r][h].old
       => handler[r][h].msg \in forwarded

FInv == gone \subseteq forwarded \cup mistaken /\ \A r \in Replicas, h \in Handlers : Heard(r, h)

\* One handler changes, or none; no connection is opened.
LEMMA HeardStays ==
  ASSUME FInv, NEW r \in Replicas, NEW h \in Handlers, forwarded \subseteq forwarded',
         \A s \in Replicas : link'[s] = "open" => link[s] = "open",
         \A k \in Handlers : k # h => handler'[r][k] = handler[r][k],
         \A s \in Replicas : s # r => handler'[s] = handler[s],
         Heard(r, h)', gone' \subseteq forwarded' \cup mistaken'
  PROVE  FInv'
  <1>1. ASSUME NEW s \in Replicas, NEW k \in Handlers, s # r \/ k # h  PROVE Heard(s, k)'
    BY <1>1 DEF FInv, Heard
  <1> QED
    BY <1>1 DEF FInv

LEMMA ExitHeard ==
  ASSUME TypeOK, FInv, NEW r \in Replicas, Exit(r), UNCHANGED <<forwarded, mistaken>>
  PROVE  FInv'
  <1>1. /\ \A h \in Handlers : handler'[r][h] = NoHandler
        /\ \A s \in Replicas : s # r => handler'[s] = handler[s] /\ link'[s] = link[s]
        /\ gone' = gone
    BY DEF TypeOK, Exit, ReleaseAll
  <1>2. \A h \in Handlers : Heard(r, h)'
    BY <1>1, IdleTyped DEF Heard
  <1>3. \A s \in Replicas, h \in Handlers : s # r => Heard(s, h)'
    BY <1>1 DEF FInv, Heard
  <1> QED
    BY <1>1, <1>2, <1>3 DEF FInv

LEMMA FStep ==
  ASSUME QInv, FInv, ~Cache, [Next]_vars
  PROVE  FInv'
  <1>0. TypeOK /\ \A r \in Replicas : ReplicaOK(r)
    BY DEF QInv
  <1>a. \A pc \in {"handle", "finish", "ack", "nack"} : pc \in Pcs
    BY DEF Pcs
  <1> USE DEF broker, effects, faults
  <1>1. ASSUME NEW r \in Replicas, NEW h \in Handlers, NEW m \in Messages, Deliver(r, h, m)
        PROVE  FInv'
    <2> DEFINE x == [pc |-> "handle", msg |-> m, tag |-> lastTag[r] + 1, old |-> FALSE]
    <2>1. handler' = [handler EXCEPT ![r][h] = x] /\ x.pc = "handle"
      BY <1>1 DEF Deliver
    <2> HIDE DEF x
    <2>2. /\ handler'[r][h] = x
          /\ \A k \in Handlers : k # h => handler'[r][k] = handler[r][k]
          /\ \A s \in Replicas : s # r => handler'[s] = handler[s]
      BY <1>0, <2>1 DEF TypeOK
    <2>3. Heard(r, h)'
      BY <2>1, <2>2 DEF Heard
    <2> QED
      BY <1>1, <2>2, <2>3, HeardStays DEF Deliver, FInv
  <1>2. ASSUME NEW r \in Replicas, NEW h \in Handlers, Produce(r, h)  PROVE FInv'
    <2>1. Heard(r, h)'
      BY <1>0, <1>2, <1>a, GoToStep DEF Produce, Heard, SendArrives
    <2>2. gone' \subseteq forwarded' \cup mistaken' /\ forwarded \subseteq forwarded'
      BY <1>2 DEF Produce, FInv
    <2> QED
      BY <1>0, <1>2, <1>a, <2>1, <2>2, GoToStep, HeardStays DEF Produce
  <1>3. ASSUME NEW r \in Replicas, NEW h \in Handlers, HandlerReturns(r, h) \/ NotHandled(r, h)
        PROVE  FInv'
    <2>1. Heard(r, h)'
      BY <1>0, <1>3, <1>a, GoToStep DEF HandlerReturns, NotHandled, Heard, FInv
    <2> QED
      BY <1>0, <1>3, <1>a, <2>1, GoToStep, HeardStays DEF HandlerReturns, NotHandled, FInv
  <1>4. ASSUME NEW r \in Replicas, NEW h \in Handlers, Ack(r, h)  PROVE FInv'
    <2>1. CASE AckArrives(r, h, AfterAck)
      <3>1. /\ ~handler[r][h].old => SettledMessages(r, h) \subseteq {handler[r][h].msg}
            /\ \A s \in Replicas : link'[s] = "open" => link[s] = "open"
            /\ gone' = gone \cup SettledMessages(r, h)
            /\ mistaken' = IF handler[r][h].old THEN mistaken \cup SettledMessages(r, h)
                                                ELSE mistaken
        BY <1>4, <2>1, SettleStep DEF Ack, AckArrives
      <3>2. Return(r, h)
        BY <2>1 DEF AckArrives, AfterAck, Then
      <3>3. Heard(r, h)'
        BY <1>0, <3>2, ReturnStep, IdleTyped DEF Heard
      <3>4. gone' \subseteq forwarded' \cup mistaken'
        BY <1>4, <2>1, <3>1 DEF Ack, AckArrives, FInv, Heard
      <3> QED
        BY <1>0, <1>4, <3>1, <3>2, <3>3, <3>4, ReturnStep, HeardStays DEF Ack
    <2>2. CASE AckIgnored(r, h, AfterAck)
      <3>1. Return(r, h)
        BY <2>2 DEF AckIgnored, AfterAck, Then
      <3>2. Heard(r, h)'
        BY <1>0, <3>1, ReturnStep, IdleTyped DEF Heard
      <3> QED
        BY <1>0, <1>4, <2>2, <3>1, <3>2, ReturnStep, HeardStays DEF Ack, AckIgnored, FInv
    <2>3. CASE Exit(r) /\ UNCHANGED mistaken
      BY <1>0, <1>4, <2>3, ExitHeard DEF Ack
    <2> QED
      BY <1>4, <2>1, <2>2, <2>3 DEF Ack
  <1>5. ASSUME NEW r \in Replicas, NEW h \in Handlers, Nack(r, h)  PROVE FInv'
    <2>1. CASE link[r] = "open" /\ Settle(r, h) /\ Return(r, h) /\ UNCHANGED <<gone, mistaken>>
      <3>1. \A s \in Replicas : link'[s] = "open" => link[s] = "open"
        BY <1>5, <2>1, SettleStep DEF Nack
      <3>2. Heard(r, h)'
        BY <1>0, <2>1, ReturnStep, IdleTyped DEF Heard
      <3> QED
        BY <1>0, <1>5, <2>1, <3>1, <3>2, ReturnStep, HeardStays DEF Nack, FInv
    <2>2. CASE AckIgnored(r, h, "idle")
      <3>1. Return(r, h)
        BY <2>2 DEF AckIgnored, Then
      <3>2. Heard(r, h)'
        BY <1>0, <3>1, ReturnStep, IdleTyped DEF Heard
      <3> QED
        BY <1>0, <1>5, <2>2, <3>1, <3>2, ReturnStep, HeardStays DEF Nack, AckIgnored, FInv
    <2>3. CASE Exit(r) /\ UNCHANGED mistaken
      BY <1>0, <1>5, <2>3, ExitHeard DEF Nack
    <2> QED
      BY <1>5, <2>1, <2>2, <2>3 DEF Nack
  <1>6. ASSUME NEW r \in Replicas, NEW h \in Handlers,
               GetKey(r, h) \/ SetKey(r, h) \/ AckKnown(r, h) \/ DeleteKey(r, h)
        PROVE  FALSE
    BY <1>6 DEF GetKey, SetKey, AckKnown, DeleteKey, FInv, Heard
  <1>7. ASSUME NEW r \in Replicas, Connect(r)  PROVE FInv'
    <2>1. /\ \A h \in Handlers : handler'[r][h].pc # "idle" => handler'[r][h].old
          /\ \A h \in Handlers : handler'[r][h].pc = handler[r][h].pc
          /\ \A s \in Replicas : s # r => handler'[s] = handler[s] /\ link'[s] = link[s]
      BY <1>7, ConnectStep
    <2>2. \A h \in Handlers : Heard(r, h)'
      BY <2>1 DEF FInv, Heard
    <2>3. \A s \in Replicas, h \in Handlers : s # r => Heard(s, h)'
      BY <1>7, <2>1 DEF Connect, FInv, Heard
    <2> QED
      BY <1>7, <2>2, <2>3 DEF Connect, FInv
  <1>8. ASSUME NEW r \in Replicas,
               NoticeClose(r) \/ Reconnect(r) \/ CloseOk(r) \/ InitFails(r) \/ Drop(r)
        PROVE  FInv'
    <2>1. /\ \A s \in Replicas : link'[s] = "open" => link[s] = "open"
          /\ UNCHANGED <<gone, handler, forwarded, mistaken>>
      BY <1>0, <1>8
         DEF NoticeClose, Reconnect, CloseOk, InitFails, Drop, AfterDrop, ReleaseAll, TypeOK
    <2> QED
      BY <2>1 DEF FInv, Heard
  <1>9. ASSUME NEW r \in Replicas, Crash(r)  PROVE FInv'
    BY <1>0, <1>9, ExitHeard DEF Crash
  <1>10. CASE UNCHANGED vars
    BY <1>10 DEF vars, FInv, Heard
  <1> QED
    BY <1>1, <1>2, <1>3, <1>4, <1>5, <1>6, <1>7, <1>8, <1>9, <1>10
       DEF Next, HandlerStep, LinkStep

(***************************************************************************)
(* Without the Redis keys, a message leaves the queue only when the one    *)
(* that follows from it has reached the broker, or through a handler that  *)
(* has outlived its channel: what is written to a dead connection is lost  *)
(* together with the acknowledgement that comes after.                     *)
(***************************************************************************)
THEOREM ForwardedBeforeAcked ==
  ASSUME ~Cache
  PROVE  Spec => []AckedIsForwarded
  <1>1. Init => QInv /\ FInv
    BY QInit, IdleTyped DEF Init, FInv, Heard
  <1>2. QInv /\ FInv /\ [Next]_vars => (QInv /\ FInv)'
    BY QStep, FStep
  <1>3. FInv => AckedIsForwarded
    BY DEF FInv, AckedIsForwarded
  <1> QED
    BY <1>1, <1>2, <1>3, PTL DEF Spec

===============================================================================
