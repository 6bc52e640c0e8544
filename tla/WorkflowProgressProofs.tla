------------------------ MODULE WorkflowProgressProofs ------------------------
(***************************************************************************)
(* No token is lost: theorems for every schema, every number of handlers,  *)
(* crashes and errors.                                                     *)
(***************************************************************************)
EXTENDS WorkflowEngineProofs

\* Flows lead where the schema says, and behind a join there is no join: the
\* manager does not look at a second one.
JoinsStandAlone ==
  \A j \in Joins : /\ Incoming[j] # {}
                   /\ \A f \in Incoming[j] : Target[f] = j
                   /\ Target[JoinOut[j]] \notin Joins

(***************************************************************************)
(* The inductive invariant.                                                *)
(***************************************************************************)

\* The services have node n: its message, a handler at work on it, its row.
Asked(n) ==
  \/ outgoing[n] > 0
  \/ \E r \in Used : rows[r].node = n
  \/ \E w \in Workers : wrk[w].pc # "idle" /\ wrk[w].node = n

\* Handler s, whose message carries f, takes it to x: f is still to be
\* looked at, with the flows K known by then, or x is about to be asked for,
\* or the handler makes the workflow final.
OnTheWay(s, f, K, x) ==
  \/ mgr[s].pc \in {"push", "cancel"}
  \/ mgr[s].pc \in {"loop", "send"} /\ f \in mgr[s].todo /\ K \subseteq mgr[s].seen
  \/ mgr[s].pc = "send" /\ mgr[s].next = x

\* The completion of row r will take f to x.
StillToWalk(r, f, K, x) ==
  /\ Carries(r, f)
  /\ incoming[r] > 0 \/ \E s \in Slots : mgr[s].row = r /\ OnTheWay(s, f, K, x)

\* A catch block has thrown while f was followed, or x was to be started.
Dropped(f, x) == f \in droppedFlows \/ x \in droppedNodes

Followed(f, K, x) ==
  \/ final \/ flagged
  \/ x \in Nodes /\ Asked(x)
  \/ \E r \in RowIds : StillToWalk(r, f, K, x)
  \/ Dropped(f, x)

\* What a worker has saved is a row of its node.
RowInHand ==
  \A w \in Workers :
    wrk[w].pc \in {"fill", "produce", "ack", "report"} =>
      wrk[w].row \in Used /\ rows[wrk[w].row].node = wrk[w].node

FlowsFollowed == \A f \in history : Target[f] \notin Joins => Followed(f, {}, Target[f])

JoinsFollowed ==
  \A j \in Joins :
    Incoming[j] \subseteq history =>
      \E f \in Incoming[j] : Followed(f, Incoming[j], Target[JoinOut[j]])

-------------------------------------------------------------------------------
(***************************************************************************)
(* What no step takes back.                                                *)
(***************************************************************************)
LEMMA ManagerGrows ==
  ASSUME TypeOK, NEW s \in Slots, ManagerStep(s)
  PROVE  /\ RowsGrow /\ Used' = Used /\ UNCHANGED wrk
         /\ history \subseteq history' /\ (final => final') /\ flagged' = flagged
         /\ UNCHANGED <<droppedFlows, droppedNodes>>
  <1> USE DEF tables, queues, faults
  <1>0. UNCHANGED <<droppedFlows, droppedNodes>>
    BY DEF ManagerStep, Receive, PushIn, Skip, PushOut, SendOut, BeginFinish,
           CancelTasks, CancelEvents, CancelAllInProgress, SetStatusFinal, AckIn
  <1> USE <1>0
  <1>1. CASE CancelTasks(s) \/ CancelEvents(s)
    BY <1>1, CancelGrows DEF CancelTasks, CancelEvents, CancelAllInProgress
  <1>2. CASE PushIn(s)
    BY <1>2, RowsKept DEF PushIn
  <1>3. CASE SetStatusFinal(s)
    BY <1>3, RowsKept DEF SetStatusFinal
  <1>4. CASE /\ \/ \E r \in RowIds : Receive(s, r)
                \/ \E f \in Flows : Skip(s, f) \/ PushOut(s, f) \/ BeginFinish(s, f)
                \/ SendOut(s)
                \/ AckIn(s)
    <2>1. UNCHANGED <<rows, history, final, flagged, wrk>>
      BY <1>4 DEF Receive, Skip, PushOut, BeginFinish, SendOut, AckIn
    <2> QED
      BY <2>1, RowsKept
  <1> QED
    BY <1>1, <1>2, <1>3, <1>4 DEF ManagerStep

LEMMA WorkerGrows ==
  ASSUME TypeOK, Wired, NEW w \in Workers, WorkerStep(w)
  PROVE  /\ RowsGrow
         /\ UNCHANGED <<history, final, mgr, droppedFlows, droppedNodes>>
         /\ flagged => flagged'
         /\ \A r \in RowIds : incoming'[r] >= incoming[r]
  <1> USE DEF tables, queues, faults
  <1>0. UNCHANGED <<droppedFlows, droppedNodes>>
    BY DEF WorkerStep, Take, CreateGateway, CreateEvent, CreateTask, FillTask,
           AutoCommitRefused, Produce, AckOut, RetryLater, CarryOn, GiveUp
  <1> USE <1>0
  <1> DEFINE n == wrk[w].node
  <1>1. incoming \in [RowIds -> Nat] /\ (wrk[w].pc # "idle" => n \in Nodes)
    BY DEF TypeOK, Wired
  <1>2. CASE \/ \E m \in Nodes : Take(w, m)
             \/ AutoCommitRefused(w) \/ AckOut(w) \/ GiveUp(w)
    <2>1. UNCHANGED <<rows, history, final, mgr, incoming>>
      BY <1>2 DEF Take, AutoCommitRefused, AckOut, GiveUp
    <2>2. flagged' \in {flagged, TRUE}
      BY <1>2 DEF Take, AutoCommitRefused, AckOut, GiveUp
    <2>3. RowsGrow /\ \A r \in RowIds : incoming'[r] >= incoming[r]
      BY <1>1, <2>1, RowsKept
    <2>4. flagged => flagged'
      BY <2>2, Zenon
    <2> QED
      BY <2>1, <2>3, <2>4
  <1>3. CASE Produce(w)
    <2>1. /\ UNCHANGED <<rows, history, final, flagged, mgr>>
          /\ incoming' = Deliver(incoming, wrk[w].row) /\ wrk[w].row \in RowIds
      BY <1>3 DEF Produce, Wired, Used
    <2> QED
      BY <1>1, <2>1, RowsKept DEF Deliver
  <1>4. CASE FillTask(w)
    <2>1. UNCHANGED <<history, final, flagged, mgr, incoming>>
      BY <1>4 DEF FillTask
    <2> QED
      BY <1>1, <1>4, <2>1, FillEffect
  <1>5. CASE CreateGateway(w)
    <2>1. /\ UNCHANGED <<history, final, flagged, mgr, incoming>> /\ Free # {}
          /\ n \in Nodes
      BY <1>1, <1>5 DEF CreateGateway
    <2>2. PICK result \in Outcomes(n) : Insert(NextRow, n, "finished", result)
      BY <1>5 DEF CreateGateway
    <2>3. result \in SUBSET Flows /\ "finished" \in RowStates
      BY <2>1, OutcomesTyped DEF RowStates
    <2> HIDE DEF n
    <2> QED
      BY <1>1, <2>1, <2>2, <2>3, InsertGrows
  <1>6. CASE CreateEvent(w)
    <2>1. /\ UNCHANGED <<history, final, flagged, mgr, incoming>> /\ Free # {}
          /\ Insert(NextRow, n, EventState(n), {}) /\ n \in Nodes
      BY <1>1, <1>6 DEF CreateEvent
    <2>2. EventState(n) \in RowStates /\ {} \in SUBSET Flows
      BY DEF EventState, RowStates
    <2> HIDE DEF n
    <2> QED
      BY <1>1, <2>1, <2>2, InsertGrows
  <1>7. CASE CreateTask(w)
    <2>1. /\ UNCHANGED <<history, final, flagged, mgr, incoming>> /\ Free # {}
          /\ Insert(NextRow, n, "draft", {}) /\ n \in Nodes
      BY <1>1, <1>7 DEF CreateTask
    <2>2. "draft" \in RowStates /\ {} \in SUBSET Flows
      BY DEF RowStates
    <2> HIDE DEF n
    <2> QED
      BY <1>1, <2>1, <2>2, InsertGrows
  <1>8. CASE RetryLater(w) \/ CarryOn(w)
    <2>1. UNCHANGED <<history, final, mgr, incoming>> /\ (flagged => flagged') /\ n \in Nodes
      BY <1>1, <1>8 DEF RetryLater, CarryOn
    <2>2. \/ UNCHANGED rows
          \/ Free # {} /\ Insert(NextRow, n, "failed", {})
      BY <1>8 DEF RetryLater, CarryOn
    <2>3. "failed" \in RowStates /\ {} \in SUBSET Flows
      BY DEF RowStates
    <2> HIDE DEF n
    <2> QED
      BY <1>1, <2>1, <2>2, <2>3, InsertGrows, RowsKept
  <1> QED
    BY <1>2, <1>3, <1>4, <1>5, <1>6, <1>7, <1>8 DEF WorkerStep

LEMMA RowStepGrows ==
  ASSUME TypeOK, Wired, NEW r \in RowIds, RowStep(r)
  PROVE  /\ RowsGrow
         /\ UNCHANGED <<history, final, flagged, mgr, wrk, outgoing, droppedFlows,
                        droppedNodes>>
         /\ \A q \in RowIds : incoming'[q] >= incoming[q]
  <1> USE DEF tables, queues, faults
  <1>1. incoming \in [RowIds -> Nat] /\ due \subseteq Used
    BY DEF TypeOK, Wired
  <1>2. UNCHANGED <<history, final, flagged, mgr, wrk, outgoing, droppedFlows,
                    droppedNodes>>
    BY DEF RowStep, Commit, DaemonPick, DaemonSetDone, SendCompletion
  <1>3. CASE Commit(r) \/ DaemonSetDone(r)
    <2>1. /\ rows' = [rows EXCEPT ![r].state = "finished"] /\ r \in Used
          /\ UNCHANGED incoming
      BY <1>1, <1>3 DEF Commit, DaemonSetDone
    <2>2. "finished" \in RowStates /\ "finished" \notin {"draft", "open"}
      BY DEF RowStates
    <2>3. RowsGrow
      BY <2>1, <2>2, StateGrows
    <2> QED
      BY <1>1, <1>2, <2>1, <2>3
  <1>4. CASE DaemonPick(r)
    BY <1>1, <1>2, <1>4, RowsKept DEF DaemonPick
  <1>5. CASE SendCompletion(r)
    BY <1>1, <1>2, <1>5, RowsKept DEF SendCompletion, Deliver
  <1> QED
    BY <1>3, <1>4, <1>5 DEF RowStep
-------------------------------------------------------------------------------
(***************************************************************************)
(* A node the services have been asked for stays asked for.                *)
(***************************************************************************)
Busy(w, n) == wrk[w].pc # "idle" /\ wrk[w].node = n

LEMMA AskedKept ==
  ASSUME TypeOK, NEW w \in Workers, NEW n \in Nodes, Asked(n), RowsGrow,
         OtherWorkersKept(w),
         outgoing[n] > 0 => outgoing'[n] > 0 \/ Busy(w, n)',
         Busy(w, n) => \/ outgoing'[n] > 0 \/ Busy(w, n)'
                       \/ \E r \in Used : rows[r].node = n
  PROVE  Asked(n)'
  <1>1. (\E r \in Used : rows[r].node = n) => \E r \in Used' : rows'[r].node = n
    BY DEF RowsGrow
  <1> QED
    BY <1>1 DEF Asked, Busy, OtherWorkersKept

LEMMA RowInHandKept ==
  ASSUME TypeOK, RowInHand, RowsGrow, NEW w \in Workers, OtherWorkersKept(w),
         wrk'[w].pc \in {"fill", "produce", "ack", "report"} =>
           wrk'[w].row \in Used' /\ rows'[wrk'[w].row].node = wrk'[w].node
  PROVE  RowInHand'
  <1> SUFFICES ASSUME NEW v \in Workers, v # w,
                      wrk'[v].pc \in {"fill", "produce", "ack", "report"}
               PROVE  wrk'[v].row \in Used' /\ rows'[wrk'[v].row].node = wrk'[v].node
    BY DEF RowInHand
  <1>1. wrk'[v] = wrk[v]
    BY DEF OtherWorkersKept
  <1> QED
    BY <1>1 DEF RowInHand, RowsGrow

LEMMA NewRowInHand ==
  ASSUME TypeOK, Wired, RowInHand, NEW w \in Workers, wrk[w].pc # "idle",
         NEW state \in RowStates, NEW result \in SUBSET Flows, Free # {},
         NEW pc \in {"fill", "produce", "ack", "report"},
         Insert(NextRow, wrk[w].node, state, result),
         wrk' = [wrk EXCEPT ![w] = [@ EXCEPT !.pc = pc, !.row = NextRow]]
  PROVE  /\ RowInHand' /\ OtherWorkersKept(w)
         /\ \A n \in Nodes : Busy(w, n) => Busy(w, n)'
  <1> DEFINE m == wrk[w].node
  <1>1. m \in Nodes
    BY DEF Wired
  <1>2. RowsGrow /\ Used' = Used \cup {NextRow} /\ rows'[NextRow].node = m
    <2> HIDE DEF m
    <2> QED
      BY <1>1, InsertGrows DEF m
  <1>3. /\ OtherWorkersKept(w)
        /\ wrk'[w].pc = pc /\ wrk'[w].node = m /\ wrk'[w].row = NextRow
    BY CreateEffect
  <1>4. wrk'[w].row \in Used' /\ rows'[wrk'[w].row].node = wrk'[w].node
    BY <1>2, <1>3
  <1> QED
    BY <1>2, <1>3, <1>4, RowInHandKept DEF Busy

LEMMA WorkerKeepsAsked ==
  ASSUME TypeOK, Wired, RowInHand, NEW w \in Workers, WorkerStep(w)
  PROVE  /\ RowInHand'
         /\ \A n \in Nodes : Asked(n) => Asked(n)' \/ flagged' = TRUE
  <1> USE DEF tables, queues, faults
  <1> DEFINE m == wrk[w].node
  <1>1. RowsGrow /\ outgoing \in [Nodes -> Nat] /\ (wrk[w].pc # "idle" => m \in Nodes)
    BY WorkerGrows DEF TypeOK, Wired
  <1>2. ASSUME NEW k \in Nodes, Take(w, k)
        PROVE  RowInHand' /\ \A n \in Nodes : Asked(n) => Asked(n)'
    <2>1. /\ OtherWorkersKept(w) /\ Busy(w, k)' /\ wrk'[w].pc = "create"
          /\ wrk[w].pc = "idle"
      BY <1>2, TakeEffect DEF Take, Busy
    <2>2. \A n \in Nodes : n # k => outgoing'[n] = outgoing[n]
      BY <1>1, <1>2 DEF Take, Remove
    <2> QED
      BY <1>1, <2>1, <2>2, RowInHandKept, AskedKept DEF Busy
  <1>3. ASSUME NEW state \in RowStates, NEW result \in SUBSET Flows, Free # {},
               NEW pc \in {"fill", "produce", "ack", "report"}, wrk[w].pc # "idle",
               Insert(NextRow, m, state, result), UNCHANGED outgoing,
               wrk' = [wrk EXCEPT ![w] = [@ EXCEPT !.pc = pc, !.row = NextRow]]
        PROVE  RowInHand' /\ \A n \in Nodes : Asked(n) => Asked(n)'
    BY <1>1, <1>3, NewRowInHand, AskedKept
  <1>4. CASE CreateGateway(w)
    <2>1. PICK result \in Outcomes(m) : Insert(NextRow, m, "finished", result)
      BY <1>4 DEF CreateGateway
    <2>2. result \in SUBSET Flows /\ "finished" \in RowStates
      BY <1>1, <1>4, OutcomesTyped DEF CreateGateway, RowStates
    <2>3. /\ wrk[w].pc # "idle" /\ Free # {} /\ UNCHANGED outgoing
          /\ wrk' = [wrk EXCEPT ![w] = [@ EXCEPT !.pc = "produce", !.row = NextRow]]
      BY <1>4 DEF CreateGateway
    <2> QED
      BY <1>3, <2>1, <2>2, <2>3
  <1>5. CASE CreateEvent(w)
    <2> DEFINE pc == IF ReportsAtOnce(m) THEN "produce" ELSE "ack"
    <2>1. pc \in {"fill", "produce", "ack", "report"} /\ EventState(m) \in RowStates
      BY DEF EventState, RowStates
    <2>2. /\ wrk[w].pc # "idle" /\ Free # {} /\ UNCHANGED outgoing
          /\ Insert(NextRow, m, EventState(m), {})
          /\ wrk' = [wrk EXCEPT ![w] = [@ EXCEPT !.pc = pc, !.row = NextRow]]
      BY <1>5 DEF CreateEvent
    <2> HIDE DEF pc
    <2> QED
      BY <1>3, <2>1, <2>2
  <1>6. CASE CreateTask(w)
    <2>1. /\ wrk[w].pc # "idle" /\ Free # {} /\ UNCHANGED outgoing
          /\ Insert(NextRow, m, "draft", {}) /\ "draft" \in RowStates
          /\ wrk' = [wrk EXCEPT ![w] = [@ EXCEPT !.pc = "fill", !.row = NextRow]]
      BY <1>6 DEF CreateTask, RowStates
    <2> QED
      BY <1>3, <2>1
  <1>7. CASE CarryOn(w)
    <2>1. /\ wrk[w].pc # "idle" /\ Free # {} /\ UNCHANGED outgoing
          /\ Insert(NextRow, m, "failed", {}) /\ "failed" \in RowStates
          /\ wrk' = [wrk EXCEPT ![w] = [@ EXCEPT !.pc = "report", !.row = NextRow]]
      BY <1>7 DEF CarryOn, RowStates
    <2> QED
      BY <1>3, <2>1
  <1>8. CASE FillTask(w) \/ Produce(w) \/ AutoCommitRefused(w)
    <2>1. /\ OtherWorkersKept(w) /\ wrk'[w].pc # "idle" /\ wrk[w].pc # "idle"
          /\ wrk'[w].node = m /\ wrk'[w].row = wrk[w].row
          /\ wrk'[w].pc \in {"fill", "produce", "ack", "report"} =>
               wrk[w].pc \in {"fill", "produce", "ack", "report"}
      BY <1>8, FillEffect, PcEffect
      DEF FillTask, Produce, AutoCommitRefused, WrkStates
    <2>2. UNCHANGED outgoing
      BY <1>8 DEF FillTask, Produce, AutoCommitRefused
    <2>3. wrk'[w].pc \in {"fill", "produce", "ack", "report"} =>
            wrk'[w].row \in Used' /\ rows'[wrk'[w].row].node = wrk'[w].node
      BY <1>1, <2>1 DEF RowInHand, RowsGrow
    <2> QED
      BY <1>1, <2>1, <2>2, <2>3, RowInHandKept, AskedKept DEF Busy
  <1>9. CASE AckOut(w) \/ RetryLater(w) \/ GiveUp(w)
    <2>1. wrk' = [wrk EXCEPT ![w] = IdleWorker] /\ wrk[w].pc # "idle"
      BY <1>9 DEF AckOut, RetryLater, GiveUp
    <2>2. OtherWorkersKept(w) /\ wrk'[w].pc = "idle"
      BY <2>1, WorkerDoneEffect
    <2>3. RowInHand'
      BY <1>1, <2>2, RowInHandKept
    <2>4. CASE AckOut(w)
      <3>1. UNCHANGED outgoing /\ wrk[w].row \in Used /\ rows[wrk[w].row].node = m
        BY <2>4 DEF AckOut, RowInHand
      <3> QED
        BY <1>1, <2>2, <2>3, <3>1, AskedKept DEF Busy
    <2>5. CASE RetryLater(w)
      <3>1. outgoing'[m] > 0 /\ \A n \in Nodes : outgoing'[n] >= outgoing[n]
        BY <1>1, <2>1, <2>5 DEF RetryLater, Deliver
      <3>2. \A n \in Nodes : outgoing[n] > 0 => outgoing'[n] > 0
        BY <1>1, <2>1, <2>5 DEF RetryLater, Deliver
      <3> QED
        BY <1>1, <2>2, <2>3, <3>1, <3>2, AskedKept DEF Busy
    <2>6. CASE GiveUp(w)
      BY <2>3, <2>6 DEF GiveUp
    <2> QED
      BY <1>9, <2>4, <2>5, <2>6
  <1> QED
    BY <1>2, <1>4, <1>5, <1>6, <1>7, <1>8, <1>9 DEF WorkerStep
-------------------------------------------------------------------------------
(***************************************************************************)
(* A flow that is followed stays followed.                                 *)
(***************************************************************************)

\* Flow f leads to x, a node or an end, for a handler that knows the flows K.
Leads(f, K, x) ==
  /\ x \notin Joins
  /\ \/ K = {} /\ x = Target[f]
     \/ /\ Target[f] \in Joins
        /\ K = Incoming[Target[f]]
        /\ x = Target[JoinOut[Target[f]]]

LEMMA GoalOf ==
  ASSUME NEW f, NEW K, NEW x, Leads(f, K, x), NEW seen, K \subseteq seen
  PROVE  Goal(f, seen) = x
  BY DEF Leads, Goal, JoinDone

\* The handler is about to follow f, or has the message it makes of it.
LEMMA HandlerFollows ==
  ASSUME NEW r \in RowIds, NEW s \in Slots, NEW f, NEW K, NEW x,
         Carries(r, f)', mgr'[s].row = r, OnTheWay(s, f, K, x)'
  PROVE  Followed(f, K, x)'
  BY DEF Followed, StillToWalk

LEMMA PushInFollows ==
  ASSUME IInv, NEW s \in Slots, PushIn(s), NEW r, mgr[s].row = r,
         NEW f \in mgr[s].todo, NEW K, NEW x, K \subseteq history'
  PROVE  Followed(f, K, x)'
  <1>1. /\ TypeOK /\ mgr[s].pc = "push" /\ r \in Used
        /\ mgr[s].todo = Sequences(rows[r]) /\ Settled(r)
    BY DEF PushIn, IInv, Wired, Safe, ReportedIsSettled, ManagerKnows, Knows
  <1>2. r \in RowIds /\ f \in Flows /\ Carries(r, f)
    BY <1>1, SlotTyped DEF Carries, Used, MgrSlot
  <1>3. Carries(r, f)'
    <2>1. RowsGrow
      BY <1>1, RowsKept DEF PushIn
    <2> QED
      BY <1>1, <1>2, <2>1, CarriesGrows
  <1>4. CASE final
    BY <1>4 DEF PushIn, Followed
  <1>5. CASE ~final
    <2>1. mgr'[s].pc = "loop" /\ mgr'[s].row = r /\ mgr'[s].seen = Returned(s)
      BY <1>1, PushInEffect
    <2>2. mgr'[s].todo = mgr[s].todo
      BY <1>1, <1>5, SlotTyped DEF PushIn, ToWalk, TypeOK, MgrSlot
    <2>3. history' = Returned(s)
      BY DEF PushIn, Returned
    <2>4. OnTheWay(s, f, K, x)'
      BY <2>1, <2>2, <2>3 DEF OnTheWay
    <2> QED
      BY <1>2, <1>3, <2>1, <2>4, HandlerFollows
  <1> QED
    BY <1>4, <1>5

\* The steps of the handler that has f in hand.
LEMMA OwnStepFollows ==
  ASSUME IInv, NEW s \in Slots, ManagerStep(s), NEW r \in RowIds, mgr[s].row = r,
         NEW f, NEW K, NEW x, Leads(f, K, x), K \subseteq history,
         Carries(r, f), Carries(r, f)', OnTheWay(s, f, K, x)
  PROVE  Followed(f, K, x)'
  <1> USE DEF tables, queues, faults
  <1>1. /\ TypeOK /\ Wired /\ mgr[s] \in MgrSlot
        /\ mgr[s].pc = "send" <=> mgr[s].next # NoNode
        /\ mgr[s].pc = "push" => mgr[s].todo = Sequences(rows[r])
        /\ f \in Sequences(rows[r])
    BY SlotTyped DEF IInv, Wired, Safe, ManagerKnows, Knows, Carries
  <1>2. ASSUME NEW q \in RowIds, Receive(s, q)  PROVE FALSE
    BY <1>2 DEF Receive, OnTheWay
  <1>3. CASE PushIn(s)
    BY <1>1, <1>3, PushInFollows DEF PushIn
  <1>4. ASSUME NEW g \in Flows, Skip(s, g)  PROVE Followed(f, K, x)'
    <2>1. /\ mgr[s].pc = "loop" /\ f \in mgr[s].todo /\ K \subseteq mgr[s].seen
      BY <1>4 DEF Skip, OnTheWay
    <2>2. f # g
      <3>1. Goal(f, Held(s)) = x
        BY <2>1, GoalOf DEF Held
      <3> QED
        BY <1>4, <3>1 DEF Skip, Leads
    <2>3. /\ mgr'[s].pc = "loop" /\ mgr'[s].row = r /\ mgr'[s].seen = mgr[s].seen
      BY <1>1, <1>4, <2>1, SkipEffect
    <2>4. mgr'[s].todo = Rest(s, g)
      BY <1>1, <1>4 DEF Skip, TypeOK, MgrSlot
    <2>5. OnTheWay(s, f, K, x)'
      BY <2>1, <2>2, <2>3, <2>4 DEF OnTheWay, Rest
    <2> QED
      BY <2>3, <2>5, HandlerFollows
  <1>5. ASSUME NEW g \in Flows, PushOut(s, g)  PROVE Followed(f, K, x)'
    <2>1. /\ mgr[s].pc = "loop" /\ f \in mgr[s].todo /\ K \subseteq mgr[s].seen
      BY <1>5 DEF PushOut, OnTheWay
    <2>2. f = g => Goal(g, Held(s)) = x
      BY <2>1, GoalOf DEF Held
    <2>3. /\ mgr'[s].pc = "send" /\ mgr'[s].row = r /\ mgr'[s].seen = history
          /\ mgr'[s].next = Goal(g, Held(s))
      BY <1>1, <1>5, PushOutEffect
    <2>4. mgr'[s].todo = Rest(s, g)
      BY <1>1, <1>5 DEF PushOut, TypeOK, MgrSlot
    <2>5. OnTheWay(s, f, K, x)'
      BY <2>1, <2>2, <2>3, <2>4 DEF OnTheWay, Rest
    <2> QED
      BY <2>3, <2>5, HandlerFollows
  <1>6. CASE SendOut(s)
    <2>1. /\ mgr[s].pc = "send" /\ mgr[s].next \in Nodes
          /\ outgoing' = Deliver(outgoing, mgr[s].next)
      BY <1>1, <1>6 DEF SendOut, MgrSlot
    <2>2. /\ mgr'[s].pc = "loop" /\ mgr'[s].row = r /\ mgr'[s].seen = mgr[s].seen
          /\ mgr'[s].todo = mgr[s].todo
      BY <1>1, <1>6, SendOutEffect
    <2>3. outgoing'[mgr[s].next] > 0
      BY <1>1, <2>1 DEF TypeOK, Deliver
    <2>4. CASE mgr[s].next = x
      BY <2>1, <2>3, <2>4 DEF Followed, Asked
    <2>5. CASE mgr[s].next # x
      <3>1. OnTheWay(s, f, K, x)'
        BY <2>1, <2>2, <2>5 DEF OnTheWay
      <3> QED
        BY <2>2, <3>1, HandlerFollows
    <2> QED
      BY <2>4, <2>5
  <1>7. ASSUME NEW g \in Flows, BeginFinish(s, g)  PROVE Followed(f, K, x)'
    <2>1. mgr'[s].pc = "cancel" /\ mgr'[s].row = r
      BY <1>1, <1>7, BeginFinishEffect
    <2>2. OnTheWay(s, f, K, x)'
      BY <2>1 DEF OnTheWay
    <2> QED
      BY <2>1, <2>2, HandlerFollows
  <1>8. CASE CancelTasks(s) \/ CancelEvents(s)
    <2>1. mgr'[s].pc = "cancel" /\ mgr'[s].row = r
      BY <1>1, <1>8, CancelEffect DEF CancelTasks, CancelEvents
    <2>2. OnTheWay(s, f, K, x)'
      BY <2>1 DEF OnTheWay
    <2> QED
      BY <2>1, <2>2, HandlerFollows
  <1>9. CASE SetStatusFinal(s)
    BY <1>9 DEF SetStatusFinal, Followed
  <1>10. CASE AckIn(s)
    BY <1>10 DEF AckIn, OnTheWay
  <1> QED
    BY <1>2, <1>3, <1>4, <1>5, <1>6, <1>7, <1>8, <1>9, <1>10 DEF ManagerStep
\* A completion that waits, or is in the hands of a handler that does nothing.
LEMMA WaitingFollows ==
  ASSUME TypeOK, RowsGrow, NEW r \in RowIds, NEW f \in Flows, NEW K, NEW x,
         Carries(r, f),
         \/ incoming'[r] > 0
         \/ \E s \in Slots : /\ mgr[s].row = r /\ OnTheWay(s, f, K, x)
                            /\ mgr'[s] = mgr[s]
  PROVE  Followed(f, K, x)'
  <1>1. Carries(r, f)'
    BY CarriesGrows
  <1>2. CASE incoming'[r] > 0
    BY <1>1, <1>2 DEF Followed, StillToWalk
  <1>3. ASSUME NEW s \in Slots, mgr[s].row = r, OnTheWay(s, f, K, x), mgr'[s] = mgr[s]
        PROVE  Followed(f, K, x)'
    <2>1. mgr'[s].row = r /\ OnTheWay(s, f, K, x)'
      BY <1>3 DEF OnTheWay
    <2> QED
      BY <1>1, <2>1, HandlerFollows
  <1> QED
    BY <1>2, <1>3

LEMMA ManagerOthersKept ==
  ASSUME TypeOK, Wired, NEW s \in Slots, ManagerStep(s)
  PROVE  OthersKept(s)
  <1>1. CASE CancelTasks(s) \/ CancelEvents(s)
    BY <1>1, CancelEffect DEF CancelTasks, CancelEvents
  <1> QED
    BY <1>1, ReceiveEffect, PushInEffect, SkipEffect, PushOutEffect, SendOutEffect,
       BeginFinishEffect, SetStatusFinalEffect, DoneEffect
    DEF ManagerStep

LEMMA ManagerFollows ==
  ASSUME IInv, NEW s \in Slots, ManagerStep(s), NEW r \in RowIds,
         NEW f \in Flows, NEW K, NEW x, Leads(f, K, x), K \subseteq history,
         StillToWalk(r, f, K, x)
  PROVE  Followed(f, K, x)'
  <1> USE DEF tables, queues, faults
  <1>1. /\ TypeOK /\ Wired /\ RowsGrow /\ OthersKept(s) /\ Carries(r, f)
    BY ManagerGrows, ManagerOthersKept DEF IInv, StillToWalk
  <1>2. Carries(r, f)'
    BY <1>1, CarriesGrows
  <1>3. CASE incoming[r] > 0
    <2>1. CASE Receive(s, r)
      <3>1. mgr'[s].pc = "push" /\ mgr'[s].row = r
        BY <1>1, <2>1, ReceiveEffect
      <3>2. OnTheWay(s, f, K, x)'
        BY <3>1 DEF OnTheWay
      <3> QED
        BY <1>2, <3>1, <3>2, HandlerFollows
    <2>2. ASSUME NEW q \in RowIds, q # r, Receive(s, q)  PROVE incoming'[r] > 0
      BY <1>1, <1>3, <2>2 DEF Receive, Remove, TypeOK
    <2>3. ASSUME \A q \in RowIds : ~Receive(s, q)  PROVE incoming'[r] > 0
      BY <1>3, <2>3 DEF ManagerStep, PushIn, Skip, PushOut, BeginFinish, SendOut,
                        CancelTasks, CancelEvents, CancelAllInProgress,
                        SetStatusFinal, AckIn
    <2>4. \/ Receive(s, r) \/ incoming'[r] > 0
      BY <2>2, <2>3
    <2> QED
      BY <1>1, <2>1, <2>4, WaitingFollows
  <1>4. ASSUME NEW q \in Slots, mgr[q].row = r, OnTheWay(q, f, K, x)
        PROVE  Followed(f, K, x)'
    <2>1. CASE q = s
      BY <1>1, <1>2, <1>4, <2>1, OwnStepFollows
    <2>2. CASE q # s
      BY <1>1, <1>4, <2>2, WaitingFollows DEF OthersKept
    <2> QED
      BY <2>1, <2>2
  <1> QED
    BY <1>3, <1>4 DEF StillToWalk

LEMMA FaultFollows ==
  ASSUME IInv, Fault, NEW r \in RowIds,
         NEW f \in Flows, NEW K, NEW x, StillToWalk(r, f, K, x)
  PROVE  Followed(f, K, x)'
  <1> USE DEF tables, queues, faults
  <1>1. /\ TypeOK /\ Wired /\ Carries(r, f) /\ RowsGrow
        /\ \A q \in RowIds : incoming[q] > 0 => incoming'[q] > 0
    <2>1. TypeOK /\ Wired /\ Carries(r, f)
      BY DEF IInv, StillToWalk
    <2>2. UNCHANGED rows
      BY DEF Fault, ManagerError, ManagerCrash, WorkerError, ErrorPathFails, WorkerCrash
    <2>3. ASSUME NEW s \in Slots, ManagerCrash(s)
          PROVE  \A q \in RowIds : incoming[q] > 0 => incoming'[q] > 0
      BY <2>1, <2>3 DEF ManagerCrash, Requeue, Deliver, TypeOK
    <2>4. \/ \E s \in Slots : ManagerCrash(s)
          \/ UNCHANGED incoming
      BY DEF Fault, ManagerError, WorkerError, ErrorPathFails, WorkerCrash
    <2>5. RowsGrow
      BY <2>1, <2>2, RowsKept
    <2> QED
      BY <2>1, <2>3, <2>4, <2>5
  <1>2. CASE incoming[r] > 0
    BY <1>1, <1>2, WaitingFollows
  <1>3. ASSUME NEW q \in Slots, mgr[q].row = r, OnTheWay(q, f, K, x)
        PROVE  Followed(f, K, x)'
    <2>1. CASE mgr'[q] = mgr[q]
      BY <1>1, <1>3, <2>1, WaitingFollows
    <2>2. ASSUME NEW s \in Slots, ManagerError(s)
          PROVE  flagged' = TRUE \/ f \in droppedFlows' \/ mgr'[q] = mgr[q]
      <3>1. CASE s = q
        <4>1. f \in Sequences(rows[mgr[s].row])
          BY <1>1, <1>3, <3>1 DEF Carries
        <4>2. \/ flagged' = TRUE
              \/ droppedFlows' = droppedFlows \cup Sequences(rows[mgr[s].row])
          BY <2>2, Zenon DEF ManagerError
        <4> QED
          BY <4>1, <4>2
      <3>2. CASE s # q
        BY <1>1, <2>2, <3>2, DoneEffect DEF OthersKept
      <3> QED
        BY <3>1, <3>2
    <2>3. ASSUME NEW s \in Slots, ManagerCrash(s), s = q  PROVE incoming'[r] > 0
      BY <1>1, <1>3, <2>3 DEF ManagerCrash, Requeue, Deliver, TypeOK
    <2>4. ASSUME NEW s \in Slots, ManagerCrash(s), s # q  PROVE mgr'[q] = mgr[q]
      BY <1>1, <2>4, DoneEffect DEF OthersKept
    <2>5. ASSUME NEW w \in Workers, WorkerError(w) \/ ErrorPathFails(w) \/ WorkerCrash(w)
          PROVE  mgr'[q] = mgr[q]
      BY <2>5 DEF WorkerError, ErrorPathFails, WorkerCrash
    <2>6. \/ flagged' = TRUE \/ f \in droppedFlows'
          \/ incoming'[r] > 0 \/ mgr'[q] = mgr[q]
      BY <2>2, <2>3, <2>4, <2>5 DEF Fault
    <2>7. CASE flagged' = TRUE \/ f \in droppedFlows'
      BY <2>7 DEF Followed, Dropped
    <2>8. CASE incoming'[r] > 0
      BY <1>1, <2>8, WaitingFollows
    <2> QED
      BY <2>1, <2>6, <2>7, <2>8
  <1> QED
    BY <1>2, <1>3 DEF StillToWalk

LEMMA FaultKeepsAsked ==
  ASSUME TypeOK, Wired, RowInHand, Fault
  PROVE  /\ RowInHand'
         /\ \A n \in Nodes : Asked(n) => Asked(n)' \/ n \in droppedNodes'
         /\ droppedFlows \subseteq droppedFlows' /\ droppedNodes \subseteq droppedNodes'
         /\ UNCHANGED final /\ history' = history /\ (flagged => flagged')
  <1> USE DEF tables, queues, faults
  <1>1. outgoing \in [Nodes -> Nat] /\ RowsGrow
    <2>1. UNCHANGED rows
      BY DEF Fault, ManagerError, ManagerCrash, WorkerError, ErrorPathFails, WorkerCrash
    <2> QED
      BY <2>1, RowsKept DEF TypeOK
  <1>2. UNCHANGED final /\ history' = history
    BY DEF Fault, ManagerError, ManagerCrash, WorkerError, ErrorPathFails, WorkerCrash
  <1>3. flagged => flagged'
    BY Zenon DEF Fault, ManagerError, ManagerCrash, WorkerError, ErrorPathFails, WorkerCrash
  <1>4. ASSUME NEW s \in Slots, ManagerError(s) \/ ManagerCrash(s)
        PROVE  RowInHand' /\ \A n \in Nodes : Asked(n) => Asked(n)'
    <2>1. UNCHANGED <<rows, wrk, outgoing>>
      BY <1>4 DEF ManagerError, ManagerCrash
    <2> QED
      BY <2>1 DEF RowInHand, Asked, Used
  <1>5. ASSUME NEW w \in Workers, WorkerError(w)
        PROVE  RowInHand' /\ \A n \in Nodes : Asked(n) => Asked(n)'
    <2>1. /\ OtherWorkersKept(w) /\ wrk'[w].pc = "catch" /\ wrk'[w].node = wrk[w].node
          /\ UNCHANGED outgoing
      BY <1>5, PcEffect DEF WorkerError, WrkStates
    <2>2. RowInHand'
      BY <1>1, <2>1, RowInHandKept
    <2> QED
      BY <1>1, <2>1, <2>2, AskedKept DEF Busy
  <1>6. ASSUME NEW w \in Workers, WorkerCrash(w)
        PROVE  RowInHand' /\ \A n \in Nodes : Asked(n) => Asked(n)'
    <2>1. OtherWorkersKept(w) /\ wrk'[w].pc = "idle"
      BY <1>6, WorkerDoneEffect DEF WorkerCrash
    <2>2. wrk[w].node \in Nodes /\ outgoing' = Deliver(outgoing, wrk[w].node)
      BY <1>6 DEF WorkerCrash, Requeue, Wired
    <2>3. /\ outgoing'[wrk[w].node] > 0
          /\ \A n \in Nodes : outgoing[n] > 0 => outgoing'[n] > 0
      BY <1>1, <2>2 DEF Deliver
    <2>4. RowInHand'
      BY <1>1, <2>1, RowInHandKept
    <2> QED
      BY <1>1, <2>1, <2>3, <2>4, AskedKept DEF Busy
  <1>7. ASSUME NEW w \in Workers, ErrorPathFails(w)
        PROVE  /\ RowInHand'
               /\ \A n \in Nodes : Asked(n) => Asked(n)' \/ n \in droppedNodes'
    <2>1. OtherWorkersKept(w) /\ wrk'[w].pc = "idle"
      BY <1>7, WorkerDoneEffect DEF ErrorPathFails
    <2>2. UNCHANGED outgoing /\ wrk[w].node \in droppedNodes'
      BY <1>7 DEF ErrorPathFails
    <2>3. RowInHand'
      BY <1>1, <2>1, RowInHandKept
    <2> QED
      BY <1>1, <2>1, <2>2, <2>3, AskedKept DEF Busy
  <1>8. droppedFlows \subseteq droppedFlows' /\ droppedNodes \subseteq droppedNodes'
    <2>1. \/ UNCHANGED droppedFlows
          \/ \E s \in Slots :
               droppedFlows' = droppedFlows \cup Sequences(rows[mgr[s].row])
      BY Zenon DEF Fault, ManagerError, ManagerCrash, WorkerError, ErrorPathFails,
                   WorkerCrash
    <2>2. \/ UNCHANGED droppedNodes
          \/ \E w \in Workers : droppedNodes' = droppedNodes \cup {wrk[w].node}
      BY Zenon DEF Fault, ManagerError, ManagerCrash, WorkerError, ErrorPathFails,
                   WorkerCrash
    <2> QED
      BY <2>1, <2>2
  <1> QED
    BY <1>2, <1>3, <1>4, <1>5, <1>6, <1>7, <1>8 DEF Fault

LEMMA StepFollows ==
  ASSUME IInv, RowInHand, Next,
         NEW f \in Flows, NEW K, NEW x, Leads(f, K, x), K \subseteq history,
         Followed(f, K, x)
  PROVE  Followed(f, K, x)'
  <1>1. TypeOK /\ Wired
    BY DEF IInv
  <1>2. ASSUME NEW s \in Slots, ManagerStep(s)  PROVE Followed(f, K, x)'
    <2>1. /\ RowsGrow /\ Used' = Used /\ UNCHANGED wrk /\ (final => final')
          /\ flagged' = flagged /\ UNCHANGED <<droppedFlows, droppedNodes>>
      BY <1>1, <1>2, ManagerGrows
    <2>2. ASSUME NEW n \in Nodes, outgoing[n] > 0  PROVE outgoing'[n] > 0
      <3>1. CASE SendOut(s)
        BY <1>1, <2>2, <3>1 DEF SendOut, Deliver, TypeOK
      <3>2. CASE ~SendOut(s)
        BY <1>2, <2>2, <3>2
        DEF ManagerStep, Receive, PushIn, Skip, PushOut, BeginFinish, CancelTasks,
            CancelEvents, CancelAllInProgress, SetStatusFinal, AckIn, queues
      <3> QED
        BY <3>1, <3>2
    <2>3. ASSUME x \in Nodes, Asked(x)  PROVE Asked(x)'
      BY <2>1, <2>2, <2>3 DEF Asked, RowsGrow
    <2> QED
      BY <1>2, <2>1, <2>3, ManagerFollows DEF Followed, Dropped
  <1>3. ASSUME NEW w \in Workers, WorkerStep(w)  PROVE Followed(f, K, x)'
    <2>1. /\ RowsGrow /\ final' = final /\ mgr' = mgr /\ (flagged => flagged')
          /\ UNCHANGED <<droppedFlows, droppedNodes>>
          /\ \A r \in RowIds : incoming'[r] >= incoming[r]
      BY <1>1, <1>3, WorkerGrows
    <2>2. ASSUME x \in Nodes, Asked(x)  PROVE Asked(x)' \/ flagged' = TRUE
      BY <1>1, <1>3, <2>2, WorkerKeepsAsked
    <2>3. ASSUME NEW r \in RowIds, incoming[r] > 0  PROVE incoming'[r] > 0
      <3>1. /\ incoming[r] \in Nat /\ incoming'[r] >= incoming[r]
            /\ incoming'[r] \in Nat
        BY <1>1, <1>3, <2>1, WorkerTyping DEF TypeOK
      <3> QED
        BY <2>3, <3>1
    <2>4. ASSUME NEW r \in RowIds, StillToWalk(r, f, K, x)  PROVE Followed(f, K, x)'
      BY <1>1, <2>1, <2>3, <2>4, WaitingFollows DEF StillToWalk
    <2> QED
      BY <2>1, <2>2, <2>4 DEF Followed, Dropped
  <1>4. ASSUME NEW q \in RowIds, RowStep(q)  PROVE Followed(f, K, x)'
    <2>1. /\ RowsGrow /\ UNCHANGED <<history, final, flagged, mgr, wrk, outgoing>>
          /\ UNCHANGED <<droppedFlows, droppedNodes>>
          /\ \A r \in RowIds : incoming'[r] >= incoming[r]
      BY <1>1, <1>4, RowStepGrows
    <2>2. ASSUME x \in Nodes, Asked(x)  PROVE Asked(x)'
      BY <2>1, <2>2 DEF Asked, RowsGrow
    <2>3. ASSUME NEW r \in RowIds, incoming[r] > 0  PROVE incoming'[r] > 0
      <3>1. /\ incoming[r] \in Nat /\ incoming'[r] >= incoming[r]
            /\ incoming'[r] \in Nat
        BY <1>1, <1>4, <2>1, RowTyping DEF TypeOK
      <3> QED
        BY <2>3, <3>1
    <2>4. ASSUME NEW r \in RowIds, StillToWalk(r, f, K, x)  PROVE Followed(f, K, x)'
      BY <1>1, <2>1, <2>3, <2>4, WaitingFollows DEF StillToWalk
    <2> QED
      BY <2>1, <2>2, <2>4 DEF Followed, Dropped
  <1>5. CASE Fault
    BY <1>1, <1>5, FaultFollows, FaultKeepsAsked DEF Followed, Dropped
  <1> QED
    BY <1>2, <1>3, <1>4, <1>5 DEF Next

\* Only PushIn records flows, and it has the flows it records in hand.
LEMMA NewFlowFollows ==
  ASSUME IInv, Next, NEW f \in history' \ history, NEW K, NEW x,
         K \subseteq history'
  PROVE  Followed(f, K, x)'
  <1>1. PICK s \in Slots : PushIn(s)
    <2>1. \E s \in Slots : PushIn(s) \/ SetStatusFinal(s)
      BY VisibleSteps
    <2>2. ASSUME NEW s \in Slots, SetStatusFinal(s)  PROVE FALSE
      BY <2>2 DEF SetStatusFinal
    <2> QED
      BY <2>1, <2>2
  <1>2. f \in mgr[s].todo
    BY <1>1 DEF PushIn
  <1> QED
    BY <1>1, <1>2, PushInFollows

LEMMA StepKeepsRowInHand ==
  ASSUME IInv, RowInHand, Next
  PROVE  RowInHand' /\ history \subseteq history'
  <1>1. TypeOK /\ Wired
    BY DEF IInv
  <1>2. ASSUME NEW s \in Slots, ManagerStep(s)
        PROVE  RowInHand' /\ history \subseteq history'
    <2>1. RowsGrow /\ UNCHANGED wrk /\ history \subseteq history'
      BY <1>1, <1>2, ManagerGrows
    <2> QED
      BY <2>1 DEF RowInHand, RowsGrow
  <1>3. ASSUME NEW w \in Workers, WorkerStep(w)
        PROVE  RowInHand' /\ history \subseteq history'
    BY <1>1, <1>3, WorkerKeepsAsked, WorkerGrows
  <1>4. ASSUME NEW r \in RowIds, RowStep(r)
        PROVE  RowInHand' /\ history \subseteq history'
    <2>1. RowsGrow /\ UNCHANGED <<history, wrk>>
      BY <1>1, <1>4, RowStepGrows
    <2> QED
      BY <2>1 DEF RowInHand, RowsGrow
  <1>5. CASE Fault
    BY <1>1, <1>5, FaultKeepsAsked
  <1> QED
    BY <1>2, <1>3, <1>4, <1>5 DEF Next

-------------------------------------------------------------------------------
(***************************************************************************)
(* The theorems.                                                           *)
(***************************************************************************)
LEMMA FlowsFollowedStep ==
  ASSUME IInv, RowInHand, Next, FlowsFollowed
  PROVE  FlowsFollowed'
  <1> SUFFICES ASSUME NEW f \in history', Target[f] \notin Joins
               PROVE  Followed(f, {}, Target[f])'
    BY DEF FlowsFollowed
  <1>1. CASE f \in history
    <2>1. f \in Flows /\ Leads(f, {}, Target[f]) /\ Followed(f, {}, Target[f])
      BY <1>1 DEF IInv, TypeOK, Leads, FlowsFollowed
    <2> QED
      BY <2>1, StepFollows
  <1>2. CASE f \notin history
    BY <1>2, NewFlowFollows
  <1> QED
    BY <1>1, <1>2

LEMMA JoinsFollowedStep ==
  ASSUME JoinsStandAlone, IInv, RowInHand, Next, JoinsFollowed
  PROVE  JoinsFollowed'
  <1> SUFFICES ASSUME NEW j \in Joins, Incoming[j] \subseteq history'
               PROVE  \E f \in Incoming[j] :
                        Followed(f, Incoming[j], Target[JoinOut[j]])'
    BY DEF JoinsFollowed
  <1> DEFINE x == Target[JoinOut[j]]
  <1>1. CASE Incoming[j] \subseteq history
    <2>1. PICK f \in Incoming[j] : Followed(f, Incoming[j], x)
      BY <1>1 DEF JoinsFollowed
    <2>2. f \in Flows /\ Leads(f, Incoming[j], x)
      BY <1>1 DEF IInv, TypeOK, JoinsStandAlone, Leads
    <2> QED
      BY <1>1, <2>1, <2>2, StepFollows
  <1>2. CASE ~(Incoming[j] \subseteq history)
    <2>1. PICK f \in Incoming[j] : f \in history' \ history
      BY <1>2
    <2> QED
      BY <2>1, NewFlowFollows
  <1> QED
    BY <1>1, <1>2

LEMMA InitFollowed ==
  ASSUME Init
  PROVE  RowInHand /\ FlowsFollowed /\ (JoinsStandAlone => JoinsFollowed)
  <1>1. IdleWorker.pc = "idle"
    BY DEF IdleWorker
  <1> QED
    BY <1>1 DEF Init, RowInHand, FlowsFollowed, JoinsStandAlone, JoinsFollowed

\* What is followed is being handled, started, or over.
LEMMA FollowedIsVisible ==
  ASSUME NEW f, NEW K, NEW x, Followed(f, K, x)
  PROVE  \/ final \/ flagged
         \/ BeingHandled(f)
         \/ x \in Nodes /\ Started(x)
         \/ f \in droppedFlows \/ x \in droppedNodes
  BY DEF Dropped, Followed, StillToWalk, Asked, BeingHandled, Started

(***************************************************************************)
(* What a recorded flow leads to is started, or will be, or the workflow   *)
(* is final or flagged; a flow that leads to an end makes it final.  For   *)
(* every schema, and whatever crashes, redeliveries and exceptions the     *)
(* handlers go through, the handler of a token that is dropped without a   *)
(* flag is one whose own catch block has thrown.                           *)
(***************************************************************************)
THEOREM TokensAreFollowed == Spec => []EveryTokenIsFollowed
  <1> DEFINE Inv == RowInHand /\ FlowsFollowed
  <1>1. Init => Inv
    BY InitFollowed
  <1>2. IInv /\ Inv /\ [Next]_vars => Inv'
    <2> SUFFICES ASSUME IInv, Inv, [Next]_vars  PROVE Inv'
      OBVIOUS
    <2>1. CASE UNCHANGED vars
      BY <2>1 DEF vars, tables, queues, faults, RowInHand, FlowsFollowed, Used, Followed, Asked,
                  StillToWalk, OnTheWay, Carries, Settled, Dropped
    <2>2. CASE Next
      BY <2>2, StepKeepsRowInHand, FlowsFollowedStep
    <2> QED
      BY <2>1, <2>2
  <1>3. Inv => EveryTokenIsFollowed
    BY FollowedIsVisible DEF FlowsFollowed, EveryTokenIsFollowed
  <1> HIDE DEF Inv
  <1> QED
    BY <1>1, <1>2, <1>3, Invariance, PTL DEF Spec

(***************************************************************************)
(* Of the branches that arrive at a join at the same time, one continues   *)
(* behind it, for every schema whose joins do not follow each other; with  *)
(* the same exception as above.                                            *)
(***************************************************************************)
THEOREM JoinsContinue ==
  JoinsStandAlone => (Spec => []DoneJoinContinues)
  <1> SUFFICES ASSUME JoinsStandAlone
               PROVE  Spec => []DoneJoinContinues
    OBVIOUS
  <1> DEFINE Inv == RowInHand /\ JoinsFollowed
  <1>1. Init => Inv
    BY InitFollowed
  <1>2. IInv /\ Inv /\ [Next]_vars => Inv'
    <2> SUFFICES ASSUME IInv, Inv, [Next]_vars  PROVE Inv'
      OBVIOUS
    <2>1. CASE UNCHANGED vars
      BY <2>1 DEF vars, tables, queues, faults, RowInHand, JoinsFollowed, Used, Followed, Asked,
                  StillToWalk, OnTheWay, Carries, Settled, Dropped
    <2>2. CASE Next
      BY <2>2, StepKeepsRowInHand, JoinsFollowedStep
    <2> QED
      BY <2>1, <2>2
  <1>3. Inv => DoneJoinContinues
    BY FollowedIsVisible DEF JoinsFollowed, DoneJoinContinues
  <1> HIDE DEF Inv
  <1> QED
    BY <1>1, <1>2, <1>3, Invariance, PTL DEF Spec

===============================================================================
