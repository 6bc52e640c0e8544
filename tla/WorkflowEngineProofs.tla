------------------------- MODULE WorkflowEngineProofs -------------------------
(***************************************************************************)
(* Theorems about WorkflowEngine for every schema, every number of         *)
(* handlers, crashes and errors.                                           *)
(***************************************************************************)
EXTENDS WorkflowTokens, TLAPS

(***************************************************************************)
(* The inductive invariant.                                                *)
(***************************************************************************)

\* Whatever names a row names one that exists, and a busy handler has a node.
Wired ==
  /\ \A r \in RowIds : incoming[r] > 0 => r \in Used
  /\ \A s \in Slots : mgr[s].pc # "idle" => mgr[s].row \in Used
  /\ \A s \in Slots : mgr[s].pc = "send" <=> mgr[s].next # NoNode
  /\ \A w \in Workers : wrk[w].pc # "idle" => wrk[w].node \in Nodes
  /\ \A w \in Workers : wrk[w].pc \in {"fill", "produce", "report"} => wrk[w].row \in Used
  /\ due \subseteq Used
  /\ toSend \subseteq Used

\* The manager hears only of rows that have been worked off.
ReportedIsSettled ==
  /\ \A r \in RowIds : incoming[r] > 0 => Settled(r)
  /\ \A s \in Slots : mgr[s].pc # "idle" => Settled(mgr[s].row)
  /\ \A w \in Workers : wrk[w].pc \in {"produce", "report"} => Settled(wrk[w].row)
  /\ \A r \in toSend : Settled(r)

\* A gateway's row holds a result the gateway may choose.
ChosenAllowed ==
  \A r \in Used : Kind[rows[r].node] \in GatewayKinds =>
                    rows[r].result \in Outcomes(rows[r].node)

\* A handler of the manager knows only what the history says.
Knows(s) ==
  /\ mgr[s].pc = "push" => mgr[s].todo = Sequences(rows[mgr[s].row])
  /\ mgr[s].pc \notin {"idle", "push"} => mgr[s].todo \subseteq history
  /\ mgr[s].seen \subseteq history
  /\ mgr[s].pc = "cancel" => EndReached

ManagerKnows == \A s \in Slots : Knows(s)

\* Nodes on their way through the services are reached.
InTransitReached ==
  /\ \A s \in Slots : mgr[s].next # NoNode => Reached(mgr[s].next)
  /\ \A w \in Workers : wrk[w].pc # "idle" => Reached(wrk[w].node)

Safe ==
  /\ ReportedIsSettled
  /\ ChosenAllowed
  /\ ManagerKnows
  /\ InTransitReached
  /\ StartedOnlyWhenReached
  /\ TakenOnlyWhenSettled

IInv == TypeOK /\ Wired /\ Safe

-------------------------------------------------------------------------------
LEMMA NextRowIsFree == Free # {} => NextRow \in RowIds /\ NextRow \notin Used
  BY DEF NextRow, Free

\* Rows are added and change their state only: what is settled stays settled.
RowsGrow ==
  /\ rows' \in [RowIds -> Row \cup {NoRow}]
  /\ \A r \in Used : /\ r \in Used'
                     /\ rows'[r].node = rows[r].node
                     /\ rows'[r].result = rows[r].result
                     /\ Settled(r) => Settled(r)'

LEMMA RowsKept ==
  ASSUME TypeOK, UNCHANGED rows
  PROVE  RowsGrow /\ Used' = Used
  BY DEF RowsGrow, TypeOK, Used, Settled

LEMMA InsertGrows ==
  ASSUME TypeOK, NEW n \in Nodes, NEW state \in RowStates,
         NEW result \in SUBSET Flows, Free # {},
         Insert(NextRow, n, state, result)
  PROVE  /\ RowsGrow
         /\ NextRow \in RowIds
         /\ Used' = Used \cup {NextRow}
         /\ rows'[NextRow].node = n
         /\ rows'[NextRow].state = state
         /\ rows'[NextRow].result = result
         /\ \A r \in Used : rows'[r] = rows[r]
  <1>1. NextRow \in RowIds /\ NextRow \notin Used
    BY NextRowIsFree
  <1> DEFINE new == [node |-> n, state |-> state, result |-> result]
  <1>2. new \in Row /\ new.node = n /\ new.state = state /\ new.result = result
    BY DEF Row
  <1>3. rows' = [rows EXCEPT ![NextRow] = new]
    BY DEF Insert
  <1> HIDE DEF new
  <1>4. \A r \in Used : rows'[r] = rows[r]
    BY <1>1, <1>3 DEF TypeOK, Used
  <1> QED
    BY <1>1, <1>2, <1>3, <1>4, BoundAssumption
    DEF TypeOK, RowsGrow, Used, Settled

LEMMA StateGrows ==
  ASSUME TypeOK, NEW r \in Used, NEW state \in RowStates,
         rows' = [rows EXCEPT ![r].state = state],
         Settled(r) => state \notin {"draft", "open"}
  PROVE  /\ RowsGrow
         /\ Used' = Used
         /\ rows'[r].state = state
         /\ \A q \in Used : q # r => rows'[q] = rows[q]
  <1>1. rows[r] \in Row /\ r \in RowIds
    BY DEF TypeOK, Used
  <1>2. [rows[r] EXCEPT !.state = state] \in Row
    BY <1>1 DEF Row
  <1>3. \A q \in RowIds : q # r => rows'[q] = rows[q]
    BY <1>1 DEF TypeOK
  <1>4. /\ rows'[r] \in Row
        /\ rows'[r].state = state
        /\ rows'[r].node = rows[r].node
        /\ rows'[r].result = rows[r].result
    BY <1>1, <1>2 DEF TypeOK, Row
  <1>5. rows' \in [RowIds -> Row \cup {NoRow}]
    BY <1>1, <1>2 DEF TypeOK
  <1> QED
    BY <1>1, <1>3, <1>4, <1>5, BoundAssumption DEF RowsGrow, Used, Settled

LEMMA CancelGrows ==
  ASSUME TypeOK, NEW kinds, rows' = Cancelled(kinds)
  PROVE  RowsGrow /\ Used' = Used
  <1>1. ASSUME NEW r \in RowIds
        PROVE  /\ r \notin Used => rows'[r] = NoRow
               /\ r \in Used => /\ rows'[r] \in Row
                                /\ rows'[r].node = rows[r].node
                                /\ rows'[r].result = rows[r].result
                                /\ rows'[r].state \in {rows[r].state, "cancelled"}
    BY DEF Cancelled, TypeOK, Used, Row, RowStates
  <1>2. rows' \in [RowIds -> Row \cup {NoRow}]
    BY <1>1 DEF Cancelled
  <1> QED
    BY <1>1, <1>2, BoundAssumption DEF RowsGrow, Used, Settled

LEMMA OutcomesTyped ==
  ASSUME NEW n \in Nodes
  PROVE  \A result \in Outcomes(n) : result \in SUBSET Flows
  BY SchemaAssumption DEF Outcomes

LEMMA SequencesTyped ==
  ASSUME TypeOK, NEW r \in Used
  PROVE  Sequences(rows[r]) \subseteq Flows
  <1>1. rows[r] \in Row
    BY DEF TypeOK, Used
  <1> QED
    BY <1>1, SchemaAssumption DEF Sequences, Row

LEMMA DeliverTyped ==
  ASSUME NEW S, NEW queue \in [S -> Nat], NEW x \in S
  PROVE  /\ Deliver(queue, x) \in [S -> Nat]
         /\ \A y \in S : Deliver(queue, x)[y] > 0 => y = x \/ queue[y] > 0
  BY DEF Deliver

LEMMA RemoveTyped ==
  ASSUME NEW S, NEW queue \in [S -> Nat], NEW x \in S, queue[x] > 0
  PROVE  /\ Remove(queue, x) \in [S -> Nat]
         /\ \A y \in S : Remove(queue, x)[y] > 0 => queue[y] > 0
  BY DEF Remove

LEMMA IdleTyped == IdleSlot \in MgrSlot /\ IdleWorker \in WrkSlot
  BY DEF IdleSlot, MgrSlot, MgrStates, IdleWorker, WrkSlot, WrkStates

-------------------------------------------------------------------------------
(***************************************************************************)
(* What an action leaves in the slot of its handler.                       *)
(***************************************************************************)
OthersKept(s) == \A q \in Slots : q # s => mgr'[q] = mgr[q]
OtherWorkersKept(w) == \A v \in Workers : v # w => wrk'[v] = wrk[v]

LEMMA SlotSet ==
  ASSUME TypeOK, NEW s \in Slots, NEW v \in MgrSlot, mgr' = [mgr EXCEPT ![s] = v]
  PROVE  mgr' \in [Slots -> MgrSlot] /\ mgr'[s] = v /\ OthersKept(s)
  BY DEF TypeOK, OthersKept

LEMMA WorkerSet ==
  ASSUME TypeOK, NEW w \in Workers, NEW v \in WrkSlot, wrk' = [wrk EXCEPT ![w] = v]
  PROVE  wrk' \in [Workers -> WrkSlot] /\ wrk'[w] = v /\ OtherWorkersKept(w)
  BY DEF TypeOK, OtherWorkersKept

LEMMA SlotTyped == ASSUME TypeOK, NEW s \in Slots PROVE mgr[s] \in MgrSlot
  BY DEF TypeOK

LEMMA WorkerTyped == ASSUME TypeOK, NEW w \in Workers PROVE wrk[w] \in WrkSlot
  BY DEF TypeOK

LEMMA ReceiveEffect ==
  ASSUME TypeOK, Wired, NEW s \in Slots, NEW r \in RowIds, Receive(s, r)
  PROVE  /\ mgr' \in [Slots -> MgrSlot] /\ OthersKept(s)
         /\ mgr'[s].pc = "push" /\ mgr'[s].row = r /\ mgr'[s].next = NoNode
         /\ mgr'[s].todo = Sequences(rows[r]) /\ mgr'[s].seen = {}
  <1> DEFINE v == [IdleSlot EXCEPT !.pc = "push", !.row = r, !.todo = Sequences(rows[r])]
  <1>1. Sequences(rows[r]) \subseteq Flows
    BY SequencesTyped DEF Receive, Wired
  <1>2. /\ v \in MgrSlot
        /\ v.pc = "push" /\ v.row = r /\ v.next = NoNode
        /\ v.todo = Sequences(rows[r]) /\ v.seen = {}
    BY <1>1 DEF IdleSlot, MgrSlot, MgrStates
  <1>3. mgr' = [mgr EXCEPT ![s] = v]
    BY DEF Receive
  <1> HIDE DEF v
  <1> QED
    BY <1>2, <1>3, SlotSet

LEMMA PushInEffect ==
  ASSUME TypeOK, NEW s \in Slots, PushIn(s)
  PROVE  /\ mgr' \in [Slots -> MgrSlot] /\ OthersKept(s)
         /\ mgr'[s].pc = "loop" /\ mgr'[s].row = mgr[s].row
         /\ mgr'[s].next = mgr[s].next
         /\ mgr'[s].todo \subseteq mgr[s].todo /\ mgr'[s].seen = Returned(s)
  <1> DEFINE v == [mgr[s] EXCEPT !.pc = "loop", !.todo = ToWalk(s), !.seen = Returned(s)]
  <1>1. /\ ToWalk(s) \subseteq mgr[s].todo
        /\ mgr[s].todo \subseteq Flows /\ Returned(s) \subseteq Flows
    BY SlotTyped DEF Returned, ToWalk, MgrSlot, TypeOK
  <1>2. mgr' = [mgr EXCEPT ![s] = v]
    BY DEF PushIn
  <1>3. /\ v \in MgrSlot
        /\ v.pc = "loop" /\ v.row = mgr[s].row /\ v.next = mgr[s].next
        /\ v.todo = ToWalk(s) /\ v.seen = Returned(s)
    BY <1>1, SlotTyped DEF MgrSlot, MgrStates
  <1> HIDE DEF v
  <1> QED
    BY <1>1, <1>2, <1>3, SlotSet

LEMMA SkipEffect ==
  ASSUME TypeOK, NEW s \in Slots, NEW f \in Flows, Skip(s, f)
  PROVE  /\ mgr' \in [Slots -> MgrSlot] /\ OthersKept(s)
         /\ mgr'[s].pc = mgr[s].pc /\ mgr'[s].row = mgr[s].row
         /\ mgr'[s].next = mgr[s].next
         /\ mgr'[s].todo \subseteq mgr[s].todo /\ mgr'[s].seen = mgr[s].seen
  <1> DEFINE v == [mgr[s] EXCEPT !.todo = Rest(s, f)]
  <1>1. mgr' = [mgr EXCEPT ![s] = v]
    BY DEF Skip
  <1>2. /\ v \in MgrSlot
        /\ v.pc = mgr[s].pc /\ v.row = mgr[s].row /\ v.next = mgr[s].next
        /\ v.todo \subseteq mgr[s].todo /\ v.seen = mgr[s].seen
    BY SlotTyped DEF MgrSlot, Rest
  <1> HIDE DEF v
  <1> QED
    BY <1>1, <1>2, SlotSet

LEMMA PushOutEffect ==
  ASSUME TypeOK, NEW s \in Slots, NEW f \in Flows, PushOut(s, f)
  PROVE  /\ mgr' \in [Slots -> MgrSlot] /\ OthersKept(s)
         /\ mgr'[s].pc = "send" /\ mgr'[s].row = mgr[s].row
         /\ mgr'[s].next = Goal(f, Held(s)) /\ mgr'[s].next \in Nodes
         /\ mgr'[s].todo \subseteq mgr[s].todo /\ mgr'[s].seen = history
  <1> DEFINE goal == Goal(f, Held(s))
             v == [mgr[s] EXCEPT !.pc = "send", !.todo = Rest(s, f), !.next = goal,
                                 !.seen = history]
  <1>1. goal \in Nodes /\ history \subseteq Flows
    BY DEF PushOut, TypeOK
  <1>2. mgr' = [mgr EXCEPT ![s] = v]
    BY DEF PushOut
  <1> HIDE DEF goal
  <1>3. /\ v \in MgrSlot
        /\ v.pc = "send" /\ v.row = mgr[s].row /\ v.next = goal
        /\ v.todo \subseteq mgr[s].todo /\ v.seen = history
    BY <1>1, SlotTyped DEF MgrSlot, MgrStates, Rest
  <1> HIDE DEF v
  <1> QED
    BY <1>1, <1>2, <1>3, SlotSet DEF goal

LEMMA SendOutEffect ==
  ASSUME TypeOK, NEW s \in Slots, SendOut(s)
  PROVE  /\ mgr' \in [Slots -> MgrSlot] /\ OthersKept(s)
         /\ mgr'[s].pc = "loop" /\ mgr'[s].row = mgr[s].row
         /\ mgr'[s].next = NoNode
         /\ mgr'[s].todo = mgr[s].todo /\ mgr'[s].seen = mgr[s].seen
  <1> DEFINE v == [mgr[s] EXCEPT !.pc = "loop", !.next = NoNode]
  <1>1. mgr' = [mgr EXCEPT ![s] = v]
    BY DEF SendOut
  <1>2. /\ v \in MgrSlot
        /\ v.pc = "loop" /\ v.row = mgr[s].row /\ v.next = NoNode
        /\ v.todo = mgr[s].todo /\ v.seen = mgr[s].seen
    BY SlotTyped DEF MgrSlot, MgrStates
  <1> HIDE DEF v
  <1> QED
    BY <1>1, <1>2, SlotSet

LEMMA BeginFinishEffect ==
  ASSUME TypeOK, NEW s \in Slots, NEW f \in Flows, BeginFinish(s, f)
  PROVE  /\ mgr' \in [Slots -> MgrSlot] /\ OthersKept(s)
         /\ mgr'[s].pc = "cancel" /\ mgr'[s].row = mgr[s].row
         /\ mgr'[s].next = mgr[s].next
         /\ mgr'[s].todo = {} /\ mgr'[s].seen = mgr[s].seen
  <1> DEFINE v == [mgr[s] EXCEPT !.pc = "cancel", !.todo = {},
                                 !.stop = {"tasks", "events"}]
  <1>1. mgr' = [mgr EXCEPT ![s] = v]
    BY DEF BeginFinish
  <1>2. /\ v \in MgrSlot
        /\ v.pc = "cancel" /\ v.row = mgr[s].row /\ v.next = mgr[s].next
        /\ v.todo = {} /\ v.seen = mgr[s].seen
    BY SlotTyped DEF MgrSlot, MgrStates
  <1> HIDE DEF v
  <1> QED
    BY <1>1, <1>2, SlotSet

LEMMA CancelEffect ==
  ASSUME TypeOK, NEW s \in Slots, NEW table, NEW kinds,
         CancelAllInProgress(s, table, kinds)
  PROVE  /\ mgr' \in [Slots -> MgrSlot] /\ OthersKept(s)
         /\ mgr'[s].pc = "cancel" /\ mgr'[s].row = mgr[s].row
         /\ mgr'[s].next = mgr[s].next
         /\ mgr'[s].todo = mgr[s].todo /\ mgr'[s].seen = mgr[s].seen
  BY DEF CancelAllInProgress, MgrSlot, MgrStates, TypeOK, OthersKept

LEMMA SetStatusFinalEffect ==
  ASSUME TypeOK, NEW s \in Slots, SetStatusFinal(s)
  PROVE  /\ mgr' \in [Slots -> MgrSlot] /\ OthersKept(s)
         /\ mgr'[s].pc = "loop" /\ mgr'[s].row = mgr[s].row
         /\ mgr'[s].next = mgr[s].next
         /\ mgr'[s].todo = mgr[s].todo /\ mgr'[s].seen = mgr[s].seen
  BY DEF SetStatusFinal, MgrSlot, MgrStates, TypeOK, OthersKept

LEMMA DoneEffect ==
  ASSUME TypeOK, NEW s \in Slots, AckIn(s) \/ ManagerError(s) \/ ManagerCrash(s)
  PROVE  /\ mgr' \in [Slots -> MgrSlot] /\ OthersKept(s)
         /\ mgr'[s].pc = "idle" /\ mgr'[s].next = NoNode
         /\ mgr'[s].todo = {} /\ mgr'[s].seen = {}
  <1>1. mgr' \in [Slots -> MgrSlot] /\ mgr'[s] = IdleSlot /\ OthersKept(s)
    BY IdleTyped DEF AckIn, ManagerError, ManagerCrash, TypeOK, OthersKept
  <1> QED
    BY <1>1 DEF IdleSlot

LEMMA TakeEffect ==
  ASSUME TypeOK, NEW w \in Workers, NEW n \in Nodes, Take(w, n)
  PROVE  /\ wrk' \in [Workers -> WrkSlot] /\ OtherWorkersKept(w)
         /\ wrk'[w].pc = "create" /\ wrk'[w].node = n
  <1> DEFINE v == [IdleWorker EXCEPT !.pc = "create", !.node = n]
  <1>1. v \in WrkSlot /\ v.pc = "create" /\ v.node = n
    BY DEF IdleWorker, WrkSlot, WrkStates
  <1>2. wrk' = [wrk EXCEPT ![w] = v]
    BY DEF Take
  <1> HIDE DEF v
  <1> QED
    BY <1>1, <1>2, WorkerSet

LEMMA CreateEffect ==
  ASSUME TypeOK, NEW w \in Workers, NEW pc \in {"fill", "produce", "ack", "report"}, Free # {},
         wrk' = [wrk EXCEPT ![w] = [@ EXCEPT !.pc = pc, !.row = NextRow]]
  PROVE  /\ wrk' \in [Workers -> WrkSlot] /\ OtherWorkersKept(w)
         /\ wrk'[w].pc = pc /\ wrk'[w].node = wrk[w].node /\ wrk'[w].row = NextRow
  <1> DEFINE v == [wrk[w] EXCEPT !.pc = pc, !.row = NextRow]
  <1>1. /\ v \in WrkSlot
        /\ v.pc = pc /\ v.node = wrk[w].node /\ v.row = NextRow
    BY WorkerTyped, NextRowIsFree DEF WrkSlot, WrkStates
  <1>2. wrk' = [wrk EXCEPT ![w] = v]
    OBVIOUS
  <1> HIDE DEF v
  <1> QED
    BY <1>1, <1>2, WorkerSet

LEMMA PcEffect ==
  ASSUME TypeOK, NEW w \in Workers, NEW pc \in WrkStates, wrk' = [wrk EXCEPT ![w].pc = pc]
  PROVE  /\ wrk' \in [Workers -> WrkSlot] /\ OtherWorkersKept(w)
         /\ wrk'[w].pc = pc /\ wrk'[w].node = wrk[w].node
         /\ wrk'[w].row = wrk[w].row
  BY DEF TypeOK, OtherWorkersKept, WrkSlot

LEMMA WorkerDoneEffect ==
  ASSUME TypeOK, NEW w \in Workers, wrk' = [wrk EXCEPT ![w] = IdleWorker]
  PROVE  /\ wrk' \in [Workers -> WrkSlot] /\ OtherWorkersKept(w)
         /\ wrk'[w].pc = "idle"
  <1>1. wrk' \in [Workers -> WrkSlot] /\ wrk'[w] = IdleWorker /\ OtherWorkersKept(w)
    BY IdleTyped, WorkerSet
  <1> QED
    BY <1>1 DEF IdleWorker

-------------------------------------------------------------------------------
(***************************************************************************)
(* Types: one lemma per component, one step per action.                    *)
(***************************************************************************)
LEMMA ManagerKeepsWired ==
  ASSUME TypeOK, Wired, NEW s \in Slots, OthersKept(s), Used \subseteq Used',
         mgr'[s].pc # "idle" => mgr'[s].row \in Used',
         mgr'[s].pc = "send" <=> mgr'[s].next # NoNode,
         \A r \in RowIds : incoming'[r] > 0 => r \in Used',
         UNCHANGED <<wrk, due, toSend>>
  PROVE  Wired'
  BY DEF Wired, OthersKept

LEMMA ManagerTyping ==
  ASSUME TypeOK, Wired, NEW s \in Slots, ManagerStep(s)
  PROVE  TypeOK' /\ Wired'
  <1> USE DEF tables, queues, faults
  <1>0. /\ mgr[s].pc # "idle" => mgr[s].row \in Used
        /\ mgr[s].pc = "send" <=> mgr[s].next # NoNode
        /\ \A r \in RowIds : incoming[r] > 0 => r \in Used
    BY DEF Wired
  <1>1. ASSUME NEW r \in RowIds, Receive(s, r)  PROVE TypeOK' /\ Wired'
    <2>1. /\ incoming' \in [RowIds -> Nat]
          /\ \A q \in RowIds : incoming'[q] > 0 => incoming[q] > 0
      BY <1>1, RemoveTyped DEF Receive, TypeOK
    <2>2. TypeOK'
      BY <1>1, <2>1, ReceiveEffect DEF Receive, TypeOK
    <2>3. Used' = Used /\ r \in Used
      BY <1>0, <1>1 DEF Receive, Used
    <2>4. UNCHANGED <<wrk, due, toSend>>
      BY <1>1 DEF Receive
    <2>5. Wired'
      BY <1>0, <1>1, <2>1, <2>3, <2>4, ReceiveEffect, ManagerKeepsWired
    <2> QED
      BY <2>2, <2>5
  <1>2. ASSUME PushIn(s)  PROVE TypeOK' /\ Wired'
    <2>1. mgr[s].todo \subseteq Flows
      BY SlotTyped DEF MgrSlot
    <2>2. TypeOK'
      BY <1>2, <2>1, PushInEffect DEF PushIn, TypeOK
    <2>3. Wired'
      BY <1>0, <1>2, PushInEffect, ManagerKeepsWired DEF PushIn, Used
    <2> QED
      BY <2>2, <2>3
  <1>3. ASSUME NEW f \in Flows, Skip(s, f)  PROVE TypeOK' /\ Wired'
    <2>1. TypeOK'
      BY <1>3, SkipEffect DEF Skip, TypeOK
    <2>2. Wired'
      BY <1>0, <1>3, SkipEffect, ManagerKeepsWired DEF Skip, Used
    <2> QED
      BY <2>1, <2>2
  <1>4. ASSUME NEW f \in Flows, PushOut(s, f)  PROVE TypeOK' /\ Wired'
    <2>1. TypeOK'
      BY <1>4, PushOutEffect DEF PushOut, TypeOK
    <2>2. Wired'
      BY <1>0, <1>4, BoundAssumption, PushOutEffect, ManagerKeepsWired
      DEF PushOut, Used
    <2> QED
      BY <2>1, <2>2
  <1>5. ASSUME NEW f \in Flows, BeginFinish(s, f)  PROVE TypeOK' /\ Wired'
    <2>1. TypeOK'
      BY <1>5, BeginFinishEffect DEF BeginFinish, TypeOK
    <2>2. Wired'
      BY <1>0, <1>5, BeginFinishEffect, ManagerKeepsWired DEF BeginFinish, Used
    <2> QED
      BY <2>1, <2>2
  <1>6. ASSUME SendOut(s)  PROVE TypeOK' /\ Wired'
    <2>1. mgr[s].next \in Nodes
      BY <1>0, <1>6, SlotTyped DEF SendOut, MgrSlot
    <2>2. outgoing' \in [Nodes -> Nat]
      BY <1>6, <2>1, DeliverTyped DEF SendOut, TypeOK
    <2>3. TypeOK'
      BY <1>6, <2>2, SendOutEffect DEF SendOut, TypeOK
    <2>4. Wired'
      BY <1>0, <1>6, SendOutEffect, ManagerKeepsWired DEF SendOut, Used
    <2> QED
      BY <2>3, <2>4
  <1>7. ASSUME NEW table, NEW kinds, CancelAllInProgress(s, table, kinds)
        PROVE  TypeOK' /\ Wired'
    <2>1. rows' \in [RowIds -> Row \cup {NoRow}] /\ Used' = Used
      BY <1>7, CancelGrows DEF CancelAllInProgress, RowsGrow
    <2>2. TypeOK'
      BY <1>7, <2>1, CancelEffect DEF CancelAllInProgress, TypeOK
    <2>3. UNCHANGED <<incoming, wrk, due, toSend>> /\ mgr[s].pc = "cancel"
      BY <1>7 DEF CancelAllInProgress
    <2>4. Wired'
      BY <1>0, <1>7, <2>1, <2>3, CancelEffect, ManagerKeepsWired
    <2> QED
      BY <2>2, <2>4
  <1>8. ASSUME SetStatusFinal(s)  PROVE TypeOK' /\ Wired'
    <2>1. TypeOK'
      BY <1>8, SetStatusFinalEffect DEF SetStatusFinal, TypeOK
    <2>2. Wired'
      BY <1>0, <1>8, SetStatusFinalEffect, ManagerKeepsWired
      DEF SetStatusFinal, Used
    <2> QED
      BY <2>1, <2>2
  <1>9. ASSUME AckIn(s)  PROVE TypeOK' /\ Wired'
    <2>1. TypeOK'
      BY <1>9, DoneEffect DEF AckIn, TypeOK
    <2>2. Wired'
      BY <1>0, <1>9, DoneEffect, ManagerKeepsWired DEF AckIn, Used
    <2> QED
      BY <2>1, <2>2
  <1> QED
    BY <1>1, <1>2, <1>3, <1>4, <1>5, <1>6, <1>7, <1>8, <1>9
    DEF ManagerStep, CancelTasks, CancelEvents

LEMMA WorkerKeepsWired ==
  ASSUME TypeOK, Wired, NEW w \in Workers, OtherWorkersKept(w), Used \subseteq Used',
         wrk'[w].pc # "idle" => wrk'[w].node \in Nodes,
         wrk'[w].pc \in {"fill", "produce", "report"} => wrk'[w].row \in Used',
         \A r \in RowIds : incoming'[r] > 0 => r \in Used',
         UNCHANGED <<mgr, due, toSend>>
  PROVE  Wired'
  BY DEF Wired, OtherWorkersKept

\* A worker that creates a row: the three Create actions and CarryOn.
LEMMA CreateTyping ==
  ASSUME TypeOK, Wired, NEW w \in Workers, wrk[w].pc # "idle", Free # {},
         NEW pc \in {"fill", "produce", "ack", "report"},
         NEW state \in RowStates, NEW result \in SUBSET Flows,
         Insert(NextRow, wrk[w].node, state, result),
         wrk' = [wrk EXCEPT ![w] = [@ EXCEPT !.pc = pc, !.row = NextRow]],
         UNCHANGED <<history, final, flagged, queues, mgr, due, toSend, faults>>
  PROVE  TypeOK' /\ Wired'
  <1>1. wrk[w].node \in Nodes
    BY DEF Wired
  <1>2. rows' \in [RowIds -> Row \cup {NoRow}] /\ Used' = Used \cup {NextRow}
    BY <1>1, InsertGrows DEF RowsGrow
  <1>3. TypeOK'
    BY <1>2, CreateEffect DEF TypeOK, queues, faults
  <1>4. \A r \in RowIds : incoming'[r] > 0 => r \in Used'
    BY <1>2 DEF queues, Wired
  <1>5. /\ OtherWorkersKept(w)
        /\ wrk'[w].node \in Nodes
        /\ wrk'[w].row \in Used'
    <2>1. /\ OtherWorkersKept(w)
          /\ wrk'[w].node = wrk[w].node /\ wrk'[w].row = NextRow
      BY CreateEffect
    <2> QED
      BY <1>1, <1>2, <2>1
  <1>6. Used \subseteq Used' /\ UNCHANGED <<mgr, due, toSend>>
    BY <1>2
  <1>7. Wired'
    BY <1>4, <1>5, <1>6, WorkerKeepsWired
  <1> QED
    BY <1>3, <1>7

LEMMA CatchTyping ==
  ASSUME TypeOK, Wired, NEW w \in Workers, RetryLater(w) \/ CarryOn(w) \/ GiveUp(w)
  PROVE  TypeOK' /\ Wired'
  <1> DEFINE n == wrk[w].node
  <1>1. n \in Nodes /\ wrk[w].pc = "catch"
    BY DEF Wired, RetryLater, CarryOn, GiveUp
  <1>2. \A r \in RowIds : incoming[r] > 0 => r \in Used
    BY DEF Wired
  <1>3. UNCHANGED <<history, final, incoming, mgr, due, toSend, crashes, errors,
                    droppedFlows, droppedNodes>>
    BY DEF RetryLater, CarryOn, GiveUp, queues, faults
  <1>4. ASSUME RetryLater(w)  PROVE TypeOK' /\ Wired'
    <2>1. outgoing' \in [Nodes -> Nat]
      BY <1>1, <1>4, DeliverTyped DEF RetryLater, TypeOK
    <2>2. rows' \in [RowIds -> Row \cup {NoRow}] /\ Used \subseteq Used' /\ flagged' \in BOOLEAN
      <3>1. CASE flagged' = TRUE /\ UNCHANGED rows
        BY <3>1, RowsKept DEF RowsGrow
      <3>2. CASE Free # {} /\ Insert(NextRow, n, "failed", {}) /\ UNCHANGED flagged
        BY <1>1, <3>2, InsertGrows DEF RowsGrow, RowStates, TypeOK
      <3> QED
        BY <1>4, <3>1, <3>2 DEF RetryLater
    <2>3. wrk' = [wrk EXCEPT ![w] = IdleWorker]
      BY <1>4 DEF RetryLater
    <2>4. TypeOK'
      BY <1>3, <2>1, <2>2, <2>3, WorkerDoneEffect DEF TypeOK
    <2>5. Wired'
      BY <1>2, <1>3, <2>2, <2>3, WorkerDoneEffect, WorkerKeepsWired
    <2> QED
      BY <2>4, <2>5
  <1>5. ASSUME CarryOn(w)  PROVE TypeOK' /\ Wired'
    <2>1. /\ wrk[w].pc # "idle" /\ Free # {}
          /\ Insert(NextRow, n, "failed", {})
          /\ wrk' = [wrk EXCEPT ![w] = [@ EXCEPT !.pc = "report", !.row = NextRow]]
          /\ UNCHANGED <<history, final, flagged, queues, mgr, due, toSend, faults>>
      BY <1>5 DEF CarryOn
    <2>2. "failed" \in RowStates /\ {} \in SUBSET Flows
      BY DEF RowStates
    <2>3. "report" \in {"fill", "produce", "ack", "report"}
      OBVIOUS
    <2> HIDE DEF n
    <2> QED
      BY <2>1, <2>2, <2>3, CreateTyping DEF n
  <1>6. ASSUME GiveUp(w)  PROVE TypeOK' /\ Wired'
    <2>1. /\ wrk' = [wrk EXCEPT ![w] = IdleWorker]
          /\ UNCHANGED <<rows, outgoing>> /\ flagged' = TRUE
      BY <1>6 DEF GiveUp, queues
    <2>2. Used' = Used
      BY <2>1, RowsKept
    <2>3. TypeOK'
      BY <1>3, <2>1, WorkerDoneEffect DEF TypeOK
    <2>4. Wired'
      BY <1>2, <1>3, <2>1, <2>2, WorkerDoneEffect, WorkerKeepsWired
    <2> QED
      BY <2>3, <2>4
  <1> QED
    BY <1>4, <1>5, <1>6

\* A worker whose handler has failed, or goes back to being idle.
LEMMA LeaveTyping ==
  ASSUME TypeOK, Wired, NEW w \in Workers, wrk[w].pc # "idle",
         \/ wrk' = [wrk EXCEPT ![w].pc = "catch"]
         \/ wrk' = [wrk EXCEPT ![w] = IdleWorker],
         UNCHANGED <<rows, history, final, flagged, incoming, outgoing>>,
         UNCHANGED <<mgr, due, toSend, crashes>>,
         errors' \in 0 .. MaxErrors,
         droppedFlows' \subseteq Flows, droppedNodes' \subseteq Nodes
  PROVE  TypeOK' /\ Wired'
  <1>1. /\ wrk' \in [Workers -> WrkSlot] /\ OtherWorkersKept(w)
        /\ wrk'[w].pc \in {"catch", "idle"}
        /\ wrk'[w].pc = "catch" => wrk'[w].node = wrk[w].node
    BY PcEffect, WorkerDoneEffect DEF WrkStates
  <1>2. TypeOK'
    BY <1>1 DEF TypeOK
  <1>3. Used' = Used
    BY RowsKept
  <1>4. /\ \A r \in RowIds : incoming[r] > 0 => r \in Used
        /\ wrk[w].node \in Nodes
    BY DEF Wired
  <1>5. Wired'
    BY <1>1, <1>3, <1>4, WorkerKeepsWired
  <1> QED
    BY <1>2, <1>5

LEMMA FillEffect ==
  ASSUME TypeOK, Wired, NEW w \in Workers, FillTask(w)
  PROVE  /\ RowsGrow /\ Used' = Used
         /\ wrk' \in [Workers -> WrkSlot] /\ OtherWorkersKept(w)
         /\ wrk'[w].pc \in {"produce", "ack"}
         /\ wrk'[w].node = wrk[w].node /\ wrk'[w].row = wrk[w].row
         /\ wrk'[w].pc \in {"produce", "report"} => Settled(wrk[w].row)'
  <1> DEFINE r == wrk[w].row
  <1>1. r \in Used /\ rows[r] \in Row
    BY DEF FillTask, Wired, Used, TypeOK
  <1>2. CASE /\ rows[r].state = "draft"
             /\ rows' = [rows EXCEPT ![r].state = "finished"]
             /\ wrk' = [wrk EXCEPT ![w].pc = "produce"]
    <2>1. RowsGrow /\ Used' = Used /\ rows'[r].state = "finished"
      BY <1>1, <1>2, StateGrows DEF RowStates
    <2>2. /\ wrk' \in [Workers -> WrkSlot] /\ OtherWorkersKept(w)
          /\ wrk'[w].pc = "produce"
          /\ wrk'[w].node = wrk[w].node /\ wrk'[w].row = wrk[w].row
      BY <1>2, PcEffect DEF WrkStates
    <2>3. Settled(r)'
      BY <1>1, <2>1, <2>2 DEF Settled
    <2> QED
      BY <2>1, <2>2, <2>3
  <1>3. CASE /\ rows' = [rows EXCEPT ![r].state = Opened(@)]
             /\ wrk' = [wrk EXCEPT ![w].pc = "ack"]
    <2>1. /\ Opened(rows[r].state) \in RowStates
          /\ Settled(r) => Opened(rows[r].state) \notin {"draft", "open"}
      BY <1>1 DEF Opened, Row, RowStates, Settled
    <2>2. RowsGrow /\ Used' = Used
      BY <1>1, <1>3, <2>1, StateGrows
    <2>3. /\ wrk' \in [Workers -> WrkSlot] /\ OtherWorkersKept(w)
          /\ wrk'[w].pc = "ack"
          /\ wrk'[w].node = wrk[w].node /\ wrk'[w].row = wrk[w].row
      BY <1>3, PcEffect DEF WrkStates
    <2> QED
      BY <2>2, <2>3
  <1> QED
    BY <1>2, <1>3 DEF FillTask

LEMMA WorkerTyping ==
  ASSUME TypeOK, Wired, NEW w \in Workers, WorkerStep(w)
  PROVE  TypeOK' /\ Wired'
  <1> DEFINE n == wrk[w].node
  <1>1. \A r \in RowIds : incoming[r] > 0 => r \in Used
    BY DEF Wired
  <1>2. /\ wrk[w].pc # "idle" => n \in Nodes
        /\ wrk[w].pc \in {"fill", "produce", "report"} => wrk[w].row \in Used
    BY DEF Wired
  <1>3. /\ "fill" \in {"fill", "produce", "ack", "report"}
        /\ "produce" \in {"fill", "produce", "ack", "report"}
        /\ "ack" \in {"fill", "produce", "ack", "report"}
        /\ {} \in SUBSET Flows
        /\ errors \in 0 .. MaxErrors
        /\ droppedFlows \subseteq Flows /\ droppedNodes \subseteq Nodes
    BY DEF TypeOK
  <1>4. ASSUME NEW m \in Nodes, Take(w, m)  PROVE TypeOK' /\ Wired'
    <2>1. outgoing' \in [Nodes -> Nat]
      BY <1>4, RemoveTyped DEF Take, TypeOK
    <2>2. /\ UNCHANGED <<rows, history, final, flagged, incoming>>
          /\ UNCHANGED <<mgr, due, toSend, faults>>
      BY <1>4 DEF Take, tables
    <2>3. TypeOK'
      BY <1>4, <2>1, <2>2, TakeEffect DEF TypeOK, faults
    <2>4. Used' = Used
      BY <2>2, RowsKept
    <2>5. Wired'
      BY <1>1, <1>4, <2>2, <2>4, TakeEffect, WorkerKeepsWired
    <2> QED
      BY <2>3, <2>5
  <1>5. ASSUME CreateGateway(w)  PROVE TypeOK' /\ Wired'
    <2>1. PICK result \in Outcomes(n) : Insert(NextRow, n, "finished", result)
      BY <1>5 DEF CreateGateway
    <2>2. result \in SUBSET Flows /\ "finished" \in RowStates
      BY <1>2, <1>5, OutcomesTyped DEF CreateGateway, RowStates
    <2>3. /\ wrk[w].pc # "idle" /\ Free # {}
          /\ wrk' = [wrk EXCEPT ![w] = [@ EXCEPT !.pc = "produce", !.row = NextRow]]
          /\ UNCHANGED <<history, final, flagged, queues, mgr, due, toSend, faults>>
      BY <1>5 DEF CreateGateway
    <2> QED
      BY <1>3, <2>1, <2>2, <2>3, CreateTyping
  <1>6. ASSUME CreateEvent(w)  PROVE TypeOK' /\ Wired'
    <2> DEFINE pc == IF ReportsAtOnce(n) THEN "produce" ELSE "ack"
    <2>1. pc \in {"fill", "produce", "ack", "report"} /\ EventState(n) \in RowStates
      BY DEF EventState, RowStates
    <2>2. /\ wrk[w].pc # "idle" /\ Free # {}
          /\ Insert(NextRow, n, EventState(n), {})
          /\ wrk' = [wrk EXCEPT ![w] = [@ EXCEPT !.pc = pc, !.row = NextRow]]
          /\ UNCHANGED <<history, final, flagged, queues, mgr, due, toSend, faults>>
      BY <1>6 DEF CreateEvent
    <2> HIDE DEF pc
    <2> QED
      BY <1>3, <2>1, <2>2, CreateTyping
  <1>7. ASSUME CreateTask(w)  PROVE TypeOK' /\ Wired'
    <2>1. /\ wrk[w].pc # "idle" /\ Free # {}
          /\ Insert(NextRow, n, "draft", {})
          /\ wrk' = [wrk EXCEPT ![w] = [@ EXCEPT !.pc = "fill", !.row = NextRow]]
          /\ UNCHANGED <<history, final, flagged, queues, mgr, due, toSend, faults>>
      BY <1>7 DEF CreateTask
    <2>2. "draft" \in RowStates
      BY DEF RowStates
    <2> QED
      BY <1>3, <2>1, <2>2, CreateTyping
  <1>8. ASSUME FillTask(w)  PROVE TypeOK' /\ Wired'
    <2>1. /\ wrk[w].pc = "fill"
          /\ UNCHANGED <<history, final, flagged, incoming, outgoing>>
          /\ UNCHANGED <<mgr, due, toSend, faults>>
      BY <1>8 DEF FillTask, queues
    <2>2. TypeOK'
      BY <1>8, <2>1, FillEffect DEF TypeOK, RowsGrow, faults
    <2>3. Wired'
      BY <1>1, <1>2, <1>8, <2>1, FillEffect, WorkerKeepsWired
    <2> QED
      BY <2>2, <2>3
  <1>9. ASSUME AutoCommitRefused(w)  PROVE TypeOK' /\ Wired'
    <2>1. /\ wrk[w].pc # "idle"
          /\ wrk' = [wrk EXCEPT ![w].pc = "catch"]
          /\ UNCHANGED <<rows, history, final, flagged, incoming, outgoing>>
          /\ UNCHANGED <<mgr, due, toSend, faults>>
      BY <1>9 DEF AutoCommitRefused, tables, queues
    <2> QED
      BY <1>3, <2>1, LeaveTyping DEF faults
  <1>10. ASSUME Produce(w)  PROVE TypeOK' /\ Wired'
    <2>1. /\ wrk[w].pc \in {"produce", "report"}
          /\ incoming' = Deliver(incoming, wrk[w].row)
          /\ wrk' = [wrk EXCEPT ![w].pc = "ack"]
          /\ UNCHANGED <<rows, history, final, flagged, outgoing>>
          /\ UNCHANGED <<mgr, due, toSend, faults>>
      BY <1>10 DEF Produce, tables
    <2>2. /\ incoming' \in [RowIds -> Nat]
          /\ \A r \in RowIds : incoming'[r] > 0 => r \in Used
      BY <1>1, <1>2, <2>1, DeliverTyped DEF TypeOK, Used
    <2>3. TypeOK'
      BY <2>1, <2>2, PcEffect DEF TypeOK, WrkStates, faults
    <2>4. Used' = Used
      BY <2>1, RowsKept
    <2>5. Wired'
      BY <1>2, <2>1, <2>2, <2>4, PcEffect, WorkerKeepsWired DEF WrkStates
    <2> QED
      BY <2>3, <2>5
  <1>11. ASSUME AckOut(w)  PROVE TypeOK' /\ Wired'
    <2>1. /\ wrk' = [wrk EXCEPT ![w] = IdleWorker]
          /\ UNCHANGED <<rows, history, final, flagged, incoming, outgoing>>
          /\ UNCHANGED <<mgr, due, toSend, faults>>
      BY <1>11 DEF AckOut, tables, queues
    <2>2. TypeOK'
      BY <2>1, WorkerDoneEffect DEF TypeOK, faults
    <2>3. Used' = Used
      BY <2>1, RowsKept
    <2>4. Wired'
      BY <1>1, <2>1, <2>3, WorkerDoneEffect, WorkerKeepsWired
    <2> QED
      BY <2>2, <2>4
  <1> QED
    BY <1>4, <1>5, <1>6, <1>7, <1>8, <1>9, <1>10, <1>11, CatchTyping DEF WorkerStep

LEMMA RowTyping ==
  ASSUME TypeOK, Wired, NEW r \in RowIds, RowStep(r)
  PROVE  TypeOK' /\ Wired'
  <1> USE DEF tables, queues, faults
  <1>1. ASSUME Commit(r)  PROVE TypeOK' /\ Wired'
    <2>1. RowsGrow /\ Used' = Used
      BY <1>1, StateGrows DEF Commit, RowStates
    <2>2. TypeOK'
      BY <1>1, <2>1 DEF Commit, RowsGrow, TypeOK
    <2>3. Wired'
      BY <1>1, <2>1 DEF Commit, Wired
    <2> QED
      BY <2>2, <2>3
  <1>2. ASSUME DaemonPick(r)  PROVE TypeOK' /\ Wired'
    <2>1. TypeOK'
      BY <1>2 DEF DaemonPick, TypeOK
    <2>2. Used' = Used
      BY <1>2, RowsKept DEF DaemonPick
    <2>3. Wired'
      BY <1>2, <2>2 DEF DaemonPick, Wired
    <2> QED
      BY <2>1, <2>3
  <1>3. ASSUME DaemonSetDone(r)  PROVE TypeOK' /\ Wired'
    <2>1. r \in Used
      BY <1>3 DEF DaemonSetDone, Wired
    <2>2. RowsGrow /\ Used' = Used
      BY <1>3, <2>1, StateGrows DEF DaemonSetDone, RowStates
    <2>3. TypeOK'
      BY <1>3, <2>2 DEF DaemonSetDone, RowsGrow, TypeOK
    <2>4. Wired'
      BY <1>3, <2>1, <2>2 DEF DaemonSetDone, Wired
    <2> QED
      BY <2>3, <2>4
  <1>4. ASSUME SendCompletion(r)  PROVE TypeOK' /\ Wired'
    <2>1. r \in Used
      BY <1>4 DEF SendCompletion, Wired
    <2>2. /\ incoming' \in [RowIds -> Nat]
          /\ \A q \in RowIds : incoming'[q] > 0 => q \in Used
      BY <1>4, <2>1, DeliverTyped DEF SendCompletion, TypeOK, Wired
    <2>3. Used' = Used
      BY <1>4, RowsKept DEF SendCompletion
    <2>4. TypeOK'
      BY <1>4, <2>2 DEF SendCompletion, TypeOK
    <2>5. Wired'
      BY <1>4, <2>2, <2>3 DEF SendCompletion, Wired
    <2> QED
      BY <2>4, <2>5
  <1> QED
    BY <1>1, <1>2, <1>3, <1>4 DEF RowStep

LEMMA FaultTyping ==
  ASSUME TypeOK, Wired, Fault
  PROVE  TypeOK' /\ Wired'
  <1> USE DEF tables, queues, faults
  <1>0. \A r \in RowIds : incoming[r] > 0 => r \in Used
    BY DEF Wired
  <1>1. ASSUME NEW s \in Slots, ManagerError(s)  PROVE TypeOK' /\ Wired'
    <2>1. errors' \in 0 .. MaxErrors /\ flagged' \in BOOLEAN
      <3>1. /\ errors \in 0 .. MaxErrors /\ flagged \in BOOLEAN
            /\ errors' \in {errors + 1, errors + 2} /\ errors' <= MaxErrors
        BY <1>1 DEF ManagerError, TypeOK
      <3>2. flagged' \in {flagged, TRUE}
        BY <1>1, Zenon DEF ManagerError
      <3>3. flagged' \in BOOLEAN
        BY <3>1, <3>2, Zenon
      <3>4. errors' \in 0 .. MaxErrors
        BY <3>1, BoundAssumption
      <3> QED
        BY <3>3, <3>4
    <2>2. mgr[s].row \in Used
      BY <1>1 DEF ManagerError, Wired
    <2>3. Sequences(rows[mgr[s].row]) \subseteq Flows
      BY <2>2, SequencesTyped
    <2>4. droppedFlows' \subseteq Flows
      BY <1>1, <2>3 DEF ManagerError, TypeOK
    <2>5. /\ mgr' = [mgr EXCEPT ![s] = IdleSlot]
          /\ UNCHANGED <<rows, history, final, queues, wrk, due, toSend, crashes,
                         droppedNodes>>
      BY <1>1 DEF ManagerError
    <2>6. mgr' \in [Slots -> MgrSlot]
      BY <1>1, DoneEffect
    <2>7. TypeOK'
      BY <2>1, <2>4, <2>5, <2>6 DEF TypeOK
    <2>8. UNCHANGED <<wrk, due, toSend, incoming>> /\ Used' = Used
      BY <2>5, RowsKept
    <2>9. Wired'
      BY <1>0, <1>1, <2>8, DoneEffect, ManagerKeepsWired
    <2> QED
      BY <2>7, <2>9
  <1>2. ASSUME NEW s \in Slots, ManagerCrash(s)  PROVE TypeOK' /\ Wired'
    <2>1. mgr[s].row \in Used
      BY <1>2 DEF ManagerCrash, Wired
    <2>2. /\ incoming' \in [RowIds -> Nat]
          /\ \A r \in RowIds : incoming'[r] > 0 => r \in Used
      BY <1>0, <1>2, <2>1, DeliverTyped DEF ManagerCrash, Requeue, TypeOK, Used
    <2>3. crashes' \in 0 .. MaxCrashes
      BY <1>2, BoundAssumption DEF ManagerCrash, TypeOK
    <2>4. TypeOK'
      BY <1>2, <2>2, <2>3, DoneEffect DEF ManagerCrash, TypeOK
    <2>5. UNCHANGED <<wrk, due, toSend>> /\ Used' = Used
      BY <1>2, RowsKept DEF ManagerCrash
    <2>6. Wired'
      BY <1>2, <2>2, <2>5, DoneEffect, ManagerKeepsWired
    <2> QED
      BY <2>4, <2>6
  <1>3. ASSUME NEW w \in Workers, WorkerError(w) \/ ErrorPathFails(w)
        PROVE  TypeOK' /\ Wired'
    <2>1. errors' \in 0 .. MaxErrors
      BY <1>3, BoundAssumption DEF WorkerError, ErrorPathFails, TypeOK
    <2>2. droppedFlows' \subseteq Flows /\ droppedNodes' \subseteq Nodes
      BY <1>3 DEF WorkerError, ErrorPathFails, Unguarded, Wired, TypeOK
    <2>3. /\ wrk[w].pc # "idle"
          /\ \/ wrk' = [wrk EXCEPT ![w].pc = "catch"]
             \/ wrk' = [wrk EXCEPT ![w] = IdleWorker]
          /\ UNCHANGED <<rows, history, final, flagged, incoming, outgoing>>
          /\ UNCHANGED <<mgr, due, toSend, crashes>>
      BY <1>3 DEF WorkerError, ErrorPathFails, Unguarded
    <2> QED
      BY <2>1, <2>2, <2>3, LeaveTyping
  <1>4. ASSUME NEW w \in Workers, WorkerCrash(w)  PROVE TypeOK' /\ Wired'
    <2>1. wrk[w].node \in Nodes
      BY <1>4 DEF WorkerCrash, Wired
    <2>2. outgoing' \in [Nodes -> Nat]
      BY <1>4, <2>1, DeliverTyped DEF WorkerCrash, Requeue, TypeOK
    <2>3. crashes' \in 0 .. MaxCrashes
      BY <1>4, BoundAssumption DEF WorkerCrash, TypeOK
    <2>4. wrk' = [wrk EXCEPT ![w] = IdleWorker]
      BY <1>4 DEF WorkerCrash
    <2>5. TypeOK'
      BY <1>4, <2>2, <2>3, <2>4, WorkerDoneEffect DEF WorkerCrash, TypeOK
    <2>6. UNCHANGED <<mgr, due, toSend, incoming>> /\ Used' = Used
      BY <1>4, RowsKept DEF WorkerCrash
    <2>7. Wired'
      BY <1>0, <2>4, <2>6, WorkerDoneEffect, WorkerKeepsWired
    <2> QED
      BY <2>5, <2>7
  <1> QED
    BY <1>1, <1>2, <1>3, <1>4 DEF Fault

LEMMA StepTyping ==
  ASSUME TypeOK, Wired, [Next]_vars
  PROVE  TypeOK' /\ Wired'
  <1>1. CASE UNCHANGED vars
    BY <1>1 DEF vars, tables, queues, faults, TypeOK, Wired, Used
  <1> QED
    BY <1>1, ManagerTyping, WorkerTyping, RowTyping, FaultTyping DEF Next

LEMMA FirstRowTyped ==
  FirstRow \in RowIds /\ EntryRow \in Row
  BY BoundAssumption, SchemaAssumption DEF FirstRow, EntryRow, Row, RowStates

LEMMA InitTyping ==
  ASSUME Init
  PROVE  TypeOK /\ Wired
  <1>1. rows \in [RowIds -> Row \cup {NoRow}]
    BY FirstRowTyped DEF Init
  <1>2. TypeOK
    <2>1. mgr \in [Slots -> MgrSlot] /\ wrk \in [Workers -> WrkSlot]
      BY IdleTyped DEF Init
    <2>2. incoming \in [RowIds -> Nat] /\ outgoing \in [Nodes -> Nat]
      BY DEF Init
    <2>3. crashes \in 0 .. MaxCrashes /\ errors \in 0 .. MaxErrors
      BY BoundAssumption DEF Init
    <2> QED
      BY <1>1, <2>1, <2>2, <2>3 DEF Init, TypeOK
  <1>3. IdleSlot.pc = "idle" /\ IdleSlot.next = NoNode /\ IdleWorker.pc = "idle"
    BY DEF IdleSlot, IdleWorker
  <1>4. Wired
    BY <1>3 DEF Init, Wired
  <1> QED
    BY <1>2, <1>4

(***************************************************************************)
(* The tables, queues and handlers of the engine stay well formed: no      *)
(* handler ever works on a row that is not there.                          *)
(***************************************************************************)
THEOREM TypeCorrect == Spec => [](TypeOK /\ Wired)
  <1>1. Init => TypeOK /\ Wired
    BY InitTyping
  <1>2. TypeOK /\ Wired /\ [Next]_vars => (TypeOK /\ Wired)'
    BY StepTyping
  <1> QED
    BY <1>1, <1>2, PTL DEF Spec

-------------------------------------------------------------------------------
(***************************************************************************)
(* Safety.  What has been reached, settled or carried remains so.          *)
(***************************************************************************)
LEMMA ReachedGrows ==
  ASSUME history \subseteq history'
  PROVE  /\ \A n \in Nodes : Reached(n) => Reached(n)'
         /\ EndReached => EndReached'
  BY DEF Reached, EndReached

LEMMA CarriesGrows ==
  ASSUME TypeOK, RowsGrow
  PROVE  /\ \A r \in Used : Sequences(rows'[r]) = Sequences(rows[r])
         /\ \A r \in RowIds : Settled(r) => Settled(r)'
         /\ \A r \in RowIds, f \in Flows : Carries(r, f) => Carries(r, f)'
  <1>1. ASSUME NEW r \in Used  PROVE Sequences(rows'[r]) = Sequences(rows[r])
    <2>1. rows'[r].node = rows[r].node /\ rows'[r].result = rows[r].result
      BY DEF RowsGrow
    <2> QED
      BY <2>1 DEF Sequences
  <1>2. ASSUME NEW r \in RowIds, Settled(r)  PROVE Settled(r)'
    <2>1. r \in Used
      BY <1>2 DEF Settled
    <2> QED
      BY <1>2, <2>1 DEF RowsGrow
  <1>3. \A r \in RowIds, f \in Flows : Carries(r, f) => Carries(r, f)'
    BY <1>1, <1>2 DEF Carries, Settled
  <1> QED
    BY <1>1, <1>2, <1>3

LEMMA TakenGrows ==
  ASSUME TypeOK, TypeOK', RowsGrow, TakenOnlyWhenSettled,
         \A f \in history' : f \in history \/ \E r \in RowIds : Carries(r, f)
  PROVE  TakenOnlyWhenSettled'
  <1>1. \A f \in history' : f \in Flows /\ \E r \in RowIds : Carries(r, f)
    BY DEF TypeOK, TakenOnlyWhenSettled
  <1> QED
    BY <1>1, CarriesGrows DEF TakenOnlyWhenSettled

\* A step that adds no rows; the new rows are dealt with in CreateKeepsSafe.
LEMMA RowsKeepSafe ==
  ASSUME IInv, RowsGrow, Used' = Used, history \subseteq history'
  PROVE  /\ ChosenAllowed'
         /\ \A r \in Used' : Reached(rows[r].node)'
  <1>1. \A r \in Used : rows[r].node \in Nodes
    BY DEF IInv, TypeOK, Used, Row
  <1>2. \A r \in Used : rows'[r].node = rows[r].node /\ rows'[r].result = rows[r].result
    BY DEF RowsGrow
  <1>3. ChosenAllowed'
    BY <1>1, <1>2 DEF IInv, Safe, ChosenAllowed, Outcomes
  <1>4. ASSUME NEW r \in Used'  PROVE Reached(rows[r].node)'
    <2>1. rows'[r].node = rows[r].node /\ rows[r].node \in Nodes /\ Reached(rows[r].node)
      BY <1>1, <1>2 DEF IInv, Safe, StartedOnlyWhenReached
    <2>2. \A n \in Nodes : Reached(n) => Reached(n)'
      BY ReachedGrows
    <2> QED
      BY <2>1, <2>2 DEF Reached
  <1> QED
    BY <1>3, <1>4

LEMMA ManagerKeepsSafe ==
  ASSUME IInv, TypeOK', NEW s \in Slots, OthersKept(s),
         RowsGrow, Used' = Used, history \subseteq history',
         \A f \in history' : f \in history \/ \E r \in RowIds : Carries(r, f),
         \A r \in RowIds : incoming'[r] > 0 => Settled(r)',
         mgr'[s].pc # "idle" => Settled(mgr[s].row)',
         Knows(s)',
         mgr'[s].next # NoNode => Reached(mgr[s].next)',
         \A n \in Nodes : outgoing'[n] > 0 => Reached(n)',
         final' => EndReached',
         UNCHANGED <<wrk, toSend>>
  PROVE  Safe'
  <1>1. ReportedIsSettled'
    BY CarriesGrows, BoundAssumption
    DEF IInv, Safe, ReportedIsSettled, OthersKept, Wired, Used, TypeOK
  <1>2. ManagerKnows'
    <2>1. ASSUME NEW q \in Slots, q # s  PROVE Knows(q)'
      <3>1. mgr'[q] = mgr[q] /\ Knows(q)
        BY <2>1 DEF OthersKept, IInv, Safe, ManagerKnows
      <3>2. mgr[q].pc = "push" => mgr[q].row \in Used
        BY DEF IInv, Wired
      <3> QED
        BY <3>1, <3>2, CarriesGrows, ReachedGrows DEF Knows, IInv
    <2> QED
      BY <2>1 DEF ManagerKnows
  <1>3. InTransitReached'
    <2>1. ASSUME NEW q \in Slots, mgr'[q].next # NoNode  PROVE Reached(mgr[q].next)'
      <3>1. CASE q = s
        BY <2>1, <3>1
      <3>2. CASE q # s
        <4>1. mgr'[q] = mgr[q] /\ Reached(mgr[q].next) /\ mgr[q].next \in Nodes
          BY <2>1, <3>2, SlotTyped
          DEF OthersKept, IInv, Safe, InTransitReached, MgrSlot
        <4> QED
          BY <4>1, ReachedGrows
      <3> QED
        BY <3>1, <3>2
    <2>2. \A w \in Workers : wrk'[w].pc # "idle" => Reached(wrk[w].node)'
      BY ReachedGrows DEF IInv, Wired, Safe, InTransitReached
    <2> QED
      BY <2>1, <2>2 DEF InTransitReached
  <1>4. ChosenAllowed' /\ StartedOnlyWhenReached'
    BY RowsKeepSafe DEF StartedOnlyWhenReached
  <1>5. TakenOnlyWhenSettled'
    BY TakenGrows DEF IInv, Safe
  <1> QED
    BY <1>1, <1>2, <1>3, <1>4, <1>5 DEF Safe

LEMMA GoalReached ==
  ASSUME IInv, NEW s \in Slots, NEW f \in history
  PROVE  /\ Goal(f, Held(s)) \in Nodes => Reached(Goal(f, Held(s)))
         /\ Goal(f, Held(s)) = End => EndReached
  <1>1. Held(s) \subseteq history
    BY DEF Held, IInv, Safe, ManagerKnows, Knows
  <1>2. CASE Target[f] \in Joins /\ JoinDone(Target[f], Held(s))
    <2>1. Goal(f, Held(s)) = Target[JoinOut[Target[f]]]
      BY <1>2 DEF Goal
    <2>2. Incoming[Target[f]] \subseteq history
      BY <1>1, <1>2 DEF JoinDone
    <2> QED
      BY <1>2, <2>1, <2>2 DEF Reached, EndReached
  <1>3. CASE ~(Target[f] \in Joins /\ JoinDone(Target[f], Held(s)))
    BY <1>3 DEF Goal, Reached, EndReached
  <1> QED
    BY <1>2, <1>3

LEMMA ManagerSafe ==
  ASSUME IInv, TypeOK', NEW s \in Slots, ManagerStep(s)
  PROVE  Safe'
  <1> USE DEF tables, queues, faults
  <1>1. /\ TypeOK /\ Wired
        /\ mgr[s].pc # "idle" => Settled(mgr[s].row) /\ mgr[s].row \in RowIds
        /\ \A r \in RowIds : incoming[r] > 0 => Settled(r)
        /\ \A n \in Nodes : outgoing[n] > 0 => Reached(n)
        /\ mgr[s].next # NoNode => mgr[s].next \in Nodes /\ Reached(mgr[s].next)
        /\ final => EndReached
        /\ Knows(s)
    BY SlotTyped DEF IInv, Safe, ReportedIsSettled, StartedOnlyWhenReached,
                     InTransitReached, ManagerKnows, MgrSlot, Wired, Used
  <1>2. ASSUME UNCHANGED <<rows, history>>
        PROVE  /\ RowsGrow /\ Used' = Used
               /\ \A r \in RowIds : Settled(r) => Settled(r)'
               /\ \A n \in Nodes : Reached(n) => Reached(n)'
               /\ EndReached => EndReached'
    BY <1>1, <1>2, RowsKept, ReachedGrows, CarriesGrows
  <1>3. ASSUME NEW r \in RowIds, Receive(s, r)  PROVE Safe'
    <2>1. UNCHANGED <<rows, history, final, outgoing, wrk, toSend>> /\ incoming[r] > 0
      BY <1>3 DEF Receive
    <2>2. \A q \in RowIds : incoming'[q] > 0 => incoming[q] > 0
      BY <1>1, <1>3, RemoveTyped DEF Receive, TypeOK
    <2>3. Knows(s)'
      BY <1>1, <1>3, <2>1, ReceiveEffect DEF Knows
    <2>4. Settled(mgr[s].row)'
      BY <1>1, <1>3, <2>1, ReceiveEffect DEF Settled, Used
    <2> QED
      BY <1>1, <1>2, <1>3, <2>1, <2>2, <2>3, <2>4, ReceiveEffect, ManagerKeepsSafe
  <1>4. ASSUME PushIn(s)  PROVE Safe'
    <2>1. /\ UNCHANGED <<rows, final, incoming, outgoing, wrk, toSend>>
          /\ history' = history \cup mgr[s].todo /\ mgr[s].pc = "push"
      BY <1>4 DEF PushIn
    <2>2. /\ RowsGrow /\ Used' = Used
          /\ \A r \in RowIds : Settled(r) => Settled(r)'
          /\ \A n \in Nodes : Reached(n) => Reached(n)'
          /\ EndReached => EndReached'
      BY <1>1, <2>1, RowsKept, ReachedGrows, CarriesGrows
    <2>3. \A f \in mgr[s].todo : Carries(mgr[s].row, f)
      BY <1>1, <2>1 DEF Knows, Carries
    <2>4. \A f \in history' : f \in history \/ \E r \in RowIds : Carries(r, f)
      BY <1>1, <2>1, <2>3
    <2>5. Knows(s)'
      BY <1>1, <1>4, <2>1, PushInEffect DEF Knows, Returned
    <2>6. Settled(mgr[s].row)'
      BY <1>1, <1>4, <2>1, PushInEffect DEF Settled, Used
    <2>7. mgr'[s].next = NoNode
      BY <1>1, <1>4, <2>1, PushInEffect DEF Wired
    <2>8. history \subseteq history'
      BY <2>1
    <2> QED
      BY <1>1, <1>4, <2>1, <2>2, <2>4, <2>5, <2>6, <2>7, <2>8, PushInEffect,
         ManagerKeepsSafe
  <1>5. ASSUME NEW f \in Flows, Skip(s, f)  PROVE Safe'
    <2>1. /\ UNCHANGED <<rows, history, final, incoming, outgoing, wrk, toSend>>
          /\ mgr[s].pc = "loop"
      BY <1>5 DEF Skip
    <2>2. Knows(s)'
      BY <1>1, <1>5, <2>1, SkipEffect DEF Knows
    <2>3. Settled(mgr[s].row)'
      BY <1>1, <1>5, <2>1, SkipEffect DEF Settled, Used
    <2>4. mgr'[s].next = NoNode
      BY <1>1, <1>5, <2>1, SkipEffect DEF Wired
    <2> QED
      BY <1>1, <1>2, <1>5, <2>1, <2>2, <2>3, <2>4, SkipEffect, ManagerKeepsSafe
  <1>6. ASSUME NEW f \in Flows, PushOut(s, f)  PROVE Safe'
    <2>1. /\ UNCHANGED <<rows, history, final, incoming, outgoing, wrk, toSend>>
          /\ mgr[s].pc = "loop" /\ f \in mgr[s].todo
      BY <1>6 DEF PushOut
    <2>2. f \in history
      BY <1>1, <2>1 DEF Knows
    <2>3. Knows(s)'
      BY <1>1, <1>6, <2>1, PushOutEffect DEF Knows
    <2>4. Settled(mgr[s].row)'
      BY <1>1, <1>6, <2>1, PushOutEffect DEF Settled, Used
    <2>5. Reached(Goal(f, Held(s)))
      BY <1>6, <2>2, GoalReached DEF PushOut
    <2>6. Reached(mgr[s].next)'
      <3>1. PICK n \in Nodes : mgr'[s].next = n /\ Reached(n)
        BY <1>1, <1>6, <2>5, PushOutEffect
      <3>2. Reached(n)'
        BY <1>2, <2>1, <3>1
      <3> QED
        BY <3>1, <3>2
    <2> QED
      BY <1>1, <1>2, <1>6, <2>1, <2>3, <2>4, <2>6, PushOutEffect, ManagerKeepsSafe
  <1>7. ASSUME NEW f \in Flows, BeginFinish(s, f)  PROVE Safe'
    <2>1. /\ UNCHANGED <<rows, history, final, incoming, outgoing, wrk, toSend>>
          /\ mgr[s].pc = "loop" /\ f \in mgr[s].todo
      BY <1>7 DEF BeginFinish
    <2>2. f \in history
      BY <1>1, <2>1 DEF Knows
    <2>3. EndReached
      BY <1>7, <2>2, GoalReached DEF BeginFinish
    <2>4. Knows(s)'
      BY <1>1, <1>2, <1>7, <2>1, <2>3, BeginFinishEffect DEF Knows
    <2>5. Settled(mgr[s].row)'
      BY <1>1, <1>7, <2>1, BeginFinishEffect DEF Settled, Used
    <2>6. mgr'[s].next = NoNode
      BY <1>1, <1>7, <2>1, BeginFinishEffect DEF Wired
    <2> QED
      BY <1>1, <1>2, <1>7, <2>1, <2>4, <2>5, <2>6, BeginFinishEffect,
         ManagerKeepsSafe
  <1>8. ASSUME SendOut(s)  PROVE Safe'
    <2>1. /\ UNCHANGED <<rows, history, final, incoming, wrk, toSend>>
          /\ mgr[s].pc = "send" /\ mgr[s].next # NoNode
          /\ outgoing' = Deliver(outgoing, mgr[s].next)
      BY <1>1, <1>8 DEF SendOut, Wired
    <2>2. \A n \in Nodes : outgoing'[n] > 0 => Reached(n)
      BY <1>1, <2>1, DeliverTyped DEF TypeOK
    <2>3. Knows(s)'
      BY <1>1, <1>8, <2>1, SendOutEffect DEF Knows
    <2>4. Settled(mgr[s].row)'
      BY <1>1, <1>8, <2>1, SendOutEffect DEF Settled, Used
    <2> QED
      BY <1>1, <1>2, <1>8, <2>1, <2>2, <2>3, <2>4, SendOutEffect, ManagerKeepsSafe
  <1>9. ASSUME NEW table, NEW kinds, CancelAllInProgress(s, table, kinds)
        PROVE  Safe'
    <2>1. /\ UNCHANGED <<history, final, incoming, outgoing, wrk, toSend>>
          /\ mgr[s].pc = "cancel" /\ rows' = Cancelled(kinds)
      BY <1>9 DEF CancelAllInProgress
    <2>2. RowsGrow /\ Used' = Used
      BY <1>1, <2>1, CancelGrows
    <2>3. /\ \A r \in RowIds : Settled(r) => Settled(r)'
          /\ \A n \in Nodes : Reached(n) => Reached(n)'
          /\ EndReached => EndReached'
      BY <1>1, <2>1, <2>2, CarriesGrows, ReachedGrows
    <2>4. Knows(s)'
      BY <1>1, <1>9, <2>1, <2>3, CancelEffect DEF Knows
    <2>5. Settled(mgr[s].row)'
      <3>1. mgr'[s].row = mgr[s].row
        BY <1>1, <1>9, CancelEffect
      <3> QED
        BY <1>1, <2>1, <2>3, <3>1 DEF Settled
    <2>6. mgr'[s].next = NoNode
      BY <1>1, <1>9, <2>1, CancelEffect DEF Wired
    <2> QED
      BY <1>1, <1>9, <2>1, <2>2, <2>3, <2>4, <2>5, <2>6, CancelEffect,
         ManagerKeepsSafe
  <1>10. ASSUME SetStatusFinal(s)  PROVE Safe'
    <2>1. /\ UNCHANGED <<rows, history, incoming, outgoing, wrk, toSend>>
          /\ mgr[s].pc = "cancel"
      BY <1>10 DEF SetStatusFinal
    <2>2. Knows(s)' /\ EndReached'
      BY <1>1, <1>2, <1>10, <2>1, SetStatusFinalEffect DEF Knows
    <2>3. Settled(mgr[s].row)'
      BY <1>1, <1>10, <2>1, SetStatusFinalEffect DEF Settled, Used
    <2>4. mgr'[s].next = NoNode
      BY <1>1, <1>10, <2>1, SetStatusFinalEffect DEF Wired
    <2> QED
      BY <1>1, <1>2, <1>10, <2>1, <2>2, <2>3, <2>4, SetStatusFinalEffect,
         ManagerKeepsSafe
  <1>11. ASSUME AckIn(s)  PROVE Safe'
    <2>1. UNCHANGED <<rows, history, final, incoming, outgoing, wrk, toSend>>
      BY <1>11 DEF AckIn
    <2>2. Knows(s)'
      BY <1>1, <1>11, DoneEffect DEF Knows
    <2> QED
      BY <1>1, <1>2, <1>11, <2>1, <2>2, DoneEffect, ManagerKeepsSafe
  <1> QED
    BY <1>3, <1>4, <1>5, <1>6, <1>7, <1>8, <1>9, <1>10, <1>11
    DEF ManagerStep, CancelTasks, CancelEvents

LEMMA WorkerKeepsSafe ==
  ASSUME IInv, TypeOK', NEW w \in Workers, OtherWorkersKept(w),
         RowsGrow, UNCHANGED <<history, final, mgr, toSend>>,
         ChosenAllowed',
         \A r \in Used' : Reached(rows'[r].node),
         \A r \in RowIds : incoming'[r] > 0 => Settled(r)',
         wrk'[w].pc \in {"produce", "report"} => Settled(wrk[w].row)',
         wrk'[w].pc # "idle" => Reached(wrk'[w].node),
         \A n \in Nodes : outgoing'[n] > 0 => Reached(n)
  PROVE  Safe'
  <1>1. TypeOK /\ Wired /\ Safe
    BY DEF IInv
  <1>2. \A x : Reached(x) <=> Reached(x)'
    BY DEF Reached
  <1>3. EndReached <=> EndReached'
    BY DEF EndReached
  <1>4. ReportedIsSettled'
    <2>1. ASSUME NEW s \in Slots, mgr'[s].pc # "idle"  PROVE Settled(mgr[s].row)'
      <3>1. mgr[s].row \in RowIds /\ Settled(mgr[s].row) /\ mgr'[s].row = mgr[s].row
        BY <1>1, <2>1 DEF Wired, Used, Safe, ReportedIsSettled
      <3> QED
        BY <1>1, <3>1, CarriesGrows DEF Settled
    <2>2. ASSUME NEW v \in Workers, wrk'[v].pc \in {"produce", "report"}
          PROVE  Settled(wrk[v].row)'
      <3>1. CASE v = w
        BY <2>2, <3>1
      <3>2. CASE v # w
        <4>1. /\ wrk'[v] = wrk[v] /\ wrk[v].row \in RowIds /\ Settled(wrk[v].row)
          BY <1>1, <2>2, <3>2
          DEF OtherWorkersKept, Wired, Used, Safe, ReportedIsSettled
        <4> QED
          BY <1>1, <4>1, CarriesGrows DEF Settled
      <3> QED
        BY <3>1, <3>2
    <2>3. \A r \in toSend' : Settled(r)'
      BY <1>1, CarriesGrows DEF Safe, ReportedIsSettled, TypeOK
    <2> QED
      BY <2>1, <2>2, <2>3 DEF ReportedIsSettled
  <1>5. ManagerKnows'
    <2>1. ASSUME NEW s \in Slots  PROVE Knows(s)'
      <3>1. Knows(s) /\ (mgr[s].pc = "push" => mgr[s].row \in Used)
        BY <1>1 DEF Safe, ManagerKnows, Wired
      <3> QED
        BY <1>1, <1>3, <3>1, CarriesGrows DEF Knows
    <2> QED
      BY <2>1 DEF ManagerKnows
  <1>6. InTransitReached'
    <2>1. ASSUME NEW v \in Workers, wrk'[v].pc # "idle"  PROVE Reached(wrk'[v].node)
      BY <1>1, <2>1 DEF OtherWorkersKept, Safe, InTransitReached
    <2> QED
      BY <1>1, <1>2, <2>1 DEF Safe, InTransitReached
  <1>7. StartedOnlyWhenReached'
    BY <1>1, <1>2, <1>3 DEF Safe, StartedOnlyWhenReached
  <1>8. TakenOnlyWhenSettled'
    BY <1>1, TakenGrows DEF Safe
  <1> QED
    BY <1>4, <1>5, <1>6, <1>7, <1>8 DEF Safe

LEMMA InsertKeepsSafe ==
  ASSUME IInv, NEW n \in Nodes, NEW state \in RowStates, NEW result \in SUBSET Flows,
         Free # {}, Insert(NextRow, n, state, result), UNCHANGED history, Reached(n),
         Kind[n] \in GatewayKinds => result \in Outcomes(n)
  PROVE  /\ RowsGrow /\ ChosenAllowed'
         /\ \A r \in Used' : Reached(rows'[r].node)
  <1>1. TypeOK /\ Safe
    BY DEF IInv
  <1>2. /\ RowsGrow
        /\ Used' = Used \cup {NextRow}
        /\ rows'[NextRow].node = n /\ rows'[NextRow].result = result
        /\ \A r \in Used : rows'[r] = rows[r]
    BY <1>1, InsertGrows
  <1>3. ChosenAllowed'
    <2>1. ASSUME NEW r \in Used', Kind[rows'[r].node] \in GatewayKinds
          PROVE  rows'[r].result \in Outcomes(rows'[r].node)
      BY <1>1, <1>2, <2>1 DEF Safe, ChosenAllowed
    <2> QED
      BY <2>1 DEF ChosenAllowed, Outcomes
  <1>4. \A r \in Used' : Reached(rows'[r].node)
    BY <1>1, <1>2 DEF Safe, StartedOnlyWhenReached
  <1> QED
    BY <1>2, <1>3, <1>4

LEMMA CreateKeepsSafe ==
  ASSUME IInv, TypeOK', NEW w \in Workers, wrk[w].pc # "idle", Free # {},
         NEW pc \in {"fill", "produce", "ack", "report"},
         NEW state \in RowStates, NEW result \in SUBSET Flows,
         Insert(NextRow, wrk[w].node, state, result),
         wrk' = [wrk EXCEPT ![w] = [@ EXCEPT !.pc = pc, !.row = NextRow]],
         UNCHANGED <<history, final, incoming, outgoing, mgr, toSend>>,
         Kind[wrk[w].node] \in GatewayKinds => result \in Outcomes(wrk[w].node),
         pc \in {"produce", "report"} => state \notin {"draft", "open"}
  PROVE  Safe'
  <1>1. TypeOK /\ wrk[w].node \in Nodes /\ Reached(wrk[w].node)
    BY DEF IInv, Wired, Safe, InTransitReached
  <1>2. /\ RowsGrow /\ ChosenAllowed'
        /\ \A r \in Used' : Reached(rows'[r].node)
    BY <1>1, InsertKeepsSafe
  <1>3. NextRow \in Used' /\ rows'[NextRow].state = state
    BY <1>1, InsertGrows
  <1>4. /\ OtherWorkersKept(w)
        /\ wrk'[w].pc = pc /\ wrk'[w].node = wrk[w].node /\ wrk'[w].row = NextRow
    BY <1>1, CreateEffect
  <1>5. \A r \in RowIds : incoming'[r] > 0 => Settled(r)'
    BY <1>1, <1>2, CarriesGrows DEF IInv, Safe, ReportedIsSettled
  <1>6. wrk'[w].pc \in {"produce", "report"} => Settled(wrk[w].row)'
    BY <1>3, <1>4 DEF Settled
  <1>7. \A n \in Nodes : outgoing'[n] > 0 => Reached(n)
    BY DEF IInv, Safe, StartedOnlyWhenReached
  <1> QED
    BY <1>1, <1>2, <1>4, <1>5, <1>6, <1>7, WorkerKeepsSafe

\* A step of a worker that leaves the rows as they are.
LEMMA NoRowKeepsSafe ==
  ASSUME IInv, UNCHANGED <<rows, history>>
  PROVE  /\ RowsGrow /\ ChosenAllowed'
         /\ \A r \in Used' : Reached(rows'[r].node)
         /\ \A r \in RowIds : Settled(r) => Settled(r)'
  <1>1. RowsGrow /\ ChosenAllowed'
    BY RowsKept DEF IInv, Safe, ChosenAllowed, Used
  <1>2. \A r \in Used' : Reached(rows'[r].node)
    BY DEF IInv, Safe, StartedOnlyWhenReached, Used
  <1> QED
    BY <1>1, <1>2, CarriesGrows DEF IInv

\* A worker that ends without a row of its own: what RetryLater, GiveUp,
\* AckOut and a crash have in common.
LEMMA DoneKeepsSafe ==
  ASSUME IInv, TypeOK', NEW w \in Workers, wrk' = [wrk EXCEPT ![w] = IdleWorker],
         RowsGrow, ChosenAllowed',
         \A r \in Used' : Reached(rows'[r].node),
         UNCHANGED <<history, final, incoming, mgr, toSend>>,
         \A n \in Nodes : outgoing'[n] > 0 => Reached(n)
  PROVE  Safe'
  <1>1. TypeOK
    BY DEF IInv
  <1>2. \A r \in RowIds : incoming'[r] > 0 => Settled(r)'
    BY <1>1, CarriesGrows DEF IInv, Safe, ReportedIsSettled
  <1> QED
    BY <1>1, <1>2, WorkerDoneEffect, WorkerKeepsSafe

LEMMA CatchKeepsSafe ==
  ASSUME IInv, TypeOK', NEW w \in Workers, RetryLater(w) \/ CarryOn(w) \/ GiveUp(w)
  PROVE  Safe'
  <1> DEFINE n == wrk[w].node
  <1>0. wrk[w].pc = "catch"
    BY DEF RetryLater, CarryOn, GiveUp
  <1>1. /\ TypeOK /\ n \in Nodes /\ Reached(n)
        /\ \A m \in Nodes : outgoing[m] > 0 => Reached(m)
    BY <1>0 DEF IInv, Wired, Safe, InTransitReached, StartedOnlyWhenReached
  <1>2. UNCHANGED <<history, final, incoming, mgr, toSend>>
    BY DEF RetryLater, CarryOn, GiveUp, queues
  <1>3. n \in Tolerant => Kind[n] \notin GatewayKinds
    BY <1>1, SchemaAssumption DEF EventKinds, GatewayKinds
  <1>4. "failed" \in RowStates /\ {} \in SUBSET Flows
    BY DEF RowStates
  <1>5. ASSUME RetryLater(w)  PROVE Safe'
    <2>1. wrk' = [wrk EXCEPT ![w] = IdleWorker]
      BY <1>5 DEF RetryLater
    <2>2. \A m \in Nodes : outgoing'[m] > 0 => Reached(m)
      BY <1>1, <1>5, DeliverTyped DEF RetryLater, TypeOK
    <2>3. /\ RowsGrow /\ ChosenAllowed'
          /\ \A r \in Used' : Reached(rows'[r].node)
      <3>1. CASE UNCHANGED rows
        BY <1>2, <3>1, NoRowKeepsSafe
      <3>2. CASE /\ Kind[n] \in EventKinds /\ Free # {}
                 /\ Insert(NextRow, n, "failed", {})
        <4>1. Kind[n] \notin GatewayKinds
          BY <3>2 DEF EventKinds, GatewayKinds
        <4> HIDE DEF n
        <4> QED
          BY <1>1, <1>2, <1>4, <3>2, <4>1, InsertKeepsSafe
      <3> QED
        BY <1>5, <3>1, <3>2 DEF RetryLater
    <2> QED
      BY <1>2, <2>1, <2>2, <2>3, DoneKeepsSafe
  <1>6. ASSUME CarryOn(w)  PROVE Safe'
    <2>1. /\ wrk[w].pc # "idle" /\ Free # {} /\ n \in Tolerant /\ UNCHANGED outgoing
          /\ Insert(NextRow, n, "failed", {})
          /\ wrk' = [wrk EXCEPT ![w] = [@ EXCEPT !.pc = "report", !.row = NextRow]]
      BY <1>6 DEF CarryOn, queues
    <2>2. "report" \in {"fill", "produce", "ack", "report"} /\ "failed" \notin {"draft", "open"}
      OBVIOUS
    <2> QED
      BY <1>2, <1>3, <1>4, <2>1, <2>2, CreateKeepsSafe
  <1>7. ASSUME GiveUp(w)  PROVE Safe'
    <2>1. wrk' = [wrk EXCEPT ![w] = IdleWorker] /\ UNCHANGED <<rows, outgoing>>
      BY <1>7 DEF GiveUp, queues
    <2> QED
      BY <1>1, <1>2, <2>1, NoRowKeepsSafe, DoneKeepsSafe
  <1> QED
    BY <1>5, <1>6, <1>7

\* A worker whose handler fails, with its rows and messages as they are.
LEMMA LeaveKeepsSafe ==
  ASSUME IInv, TypeOK', NEW w \in Workers, wrk[w].pc # "idle",
         \/ wrk' = [wrk EXCEPT ![w].pc = "catch"]
         \/ wrk' = [wrk EXCEPT ![w] = IdleWorker],
         UNCHANGED <<rows, history, final, incoming, outgoing, mgr, toSend>>
  PROVE  Safe'
  <1>1. /\ TypeOK
        /\ wrk[w].pc # "idle" => Reached(wrk[w].node)
        /\ \A r \in RowIds : incoming[r] > 0 => Settled(r)
        /\ \A m \in Nodes : outgoing[m] > 0 => Reached(m)
    BY DEF IInv, Safe, InTransitReached, StartedOnlyWhenReached, ReportedIsSettled
  <1>2. /\ OtherWorkersKept(w)
        /\ wrk'[w].pc \in {"catch", "idle"}
        /\ wrk'[w].pc = "catch" => wrk'[w].node = wrk[w].node
    BY <1>1, PcEffect, WorkerDoneEffect DEF WrkStates
  <1>3. /\ RowsGrow /\ ChosenAllowed'
        /\ \A r \in Used' : Reached(rows'[r].node)
        /\ \A r \in RowIds : incoming'[r] > 0 => Settled(r)'
    BY <1>1, NoRowKeepsSafe
  <1> QED
    BY <1>1, <1>2, <1>3, WorkerKeepsSafe

LEMMA WorkerSafe ==
  ASSUME IInv, TypeOK', NEW w \in Workers, WorkerStep(w)
  PROVE  Safe'
  <1> USE DEF tables, queues, faults
  <1> DEFINE n == wrk[w].node
  <1>1. /\ TypeOK /\ Wired
        /\ wrk[w].pc # "idle" => n \in Nodes /\ Reached(n)
        /\ wrk[w].pc \in {"produce", "report"} => wrk[w].row \in RowIds /\ Settled(wrk[w].row)
        /\ \A r \in RowIds : incoming[r] > 0 => Settled(r)
        /\ \A m \in Nodes : outgoing[m] > 0 => Reached(m)
    BY DEF IInv, Wired, Used, Safe, InTransitReached, StartedOnlyWhenReached,
           ReportedIsSettled
  <1>2. /\ "fill" \in {"fill", "produce", "ack", "report"}
        /\ "produce" \in {"fill", "produce", "ack", "report"}
        /\ "finished" \notin {"draft", "open"}
        /\ {} \in SUBSET Flows
    OBVIOUS
  <1>3. ASSUME NEW m \in Nodes, Take(w, m)  PROVE Safe'
    <2>1. UNCHANGED <<rows, history, final, incoming, mgr, toSend>> /\ outgoing[m] > 0
      BY <1>3 DEF Take
    <2>2. \A x \in Nodes : outgoing'[x] > 0 => Reached(x)
      BY <1>1, <1>3, RemoveTyped DEF Take, TypeOK
    <2>3. Reached(m) /\ wrk'[w].pc = "create" /\ wrk'[w].node = m /\ OtherWorkersKept(w)
      BY <1>1, <1>3, <2>1, TakeEffect
    <2>4. /\ RowsGrow /\ ChosenAllowed'
          /\ \A r \in Used' : Reached(rows'[r].node)
          /\ \A r \in RowIds : incoming'[r] > 0 => Settled(r)'
      BY <1>1, <2>1, NoRowKeepsSafe
    <2> QED
      BY <2>1, <2>2, <2>3, <2>4, WorkerKeepsSafe
  <1>4. ASSUME CreateGateway(w)  PROVE Safe'
    <2>1. PICK result \in Outcomes(n) : Insert(NextRow, n, "finished", result)
      BY <1>4 DEF CreateGateway
    <2>2. result \in SUBSET Flows /\ "finished" \in RowStates
      BY <1>1, <1>4, OutcomesTyped DEF CreateGateway, RowStates
    <2>3. /\ wrk[w].pc # "idle" /\ Free # {}
          /\ wrk' = [wrk EXCEPT ![w] = [@ EXCEPT !.pc = "produce", !.row = NextRow]]
          /\ UNCHANGED <<history, final, incoming, outgoing, mgr, toSend>>
      BY <1>4 DEF CreateGateway
    <2> QED
      BY <1>2, <2>1, <2>2, <2>3, CreateKeepsSafe
  <1>5. ASSUME CreateEvent(w)  PROVE Safe'
    <2> DEFINE pc == IF ReportsAtOnce(n) THEN "produce" ELSE "ack"
    <2>1. /\ pc \in {"fill", "produce", "ack", "report"} /\ EventState(n) \in RowStates
          /\ pc \in {"produce", "report"} => EventState(n) \notin {"draft", "open"}
      BY DEF EventState, RowStates, ReportsAtOnce
    <2>2. Kind[n] \notin GatewayKinds
      BY <1>5 DEF CreateEvent, EventKinds, GatewayKinds
    <2>3. /\ wrk[w].pc # "idle" /\ Free # {}
          /\ Insert(NextRow, n, EventState(n), {})
          /\ wrk' = [wrk EXCEPT ![w] = [@ EXCEPT !.pc = pc, !.row = NextRow]]
          /\ UNCHANGED <<history, final, incoming, outgoing, mgr, toSend>>
      BY <1>5 DEF CreateEvent
    <2> HIDE DEF pc
    <2> QED
      BY <1>2, <2>1, <2>2, <2>3, CreateKeepsSafe
  <1>6. ASSUME CreateTask(w)  PROVE Safe'
    <2>1. /\ wrk[w].pc # "idle" /\ Free # {}
          /\ Insert(NextRow, n, "draft", {})
          /\ wrk' = [wrk EXCEPT ![w] = [@ EXCEPT !.pc = "fill", !.row = NextRow]]
          /\ UNCHANGED <<history, final, incoming, outgoing, mgr, toSend>>
      BY <1>6 DEF CreateTask
    <2>2. Kind[n] \notin GatewayKinds /\ "draft" \in RowStates
      BY <1>6 DEF CreateTask, TaskKinds, GatewayKinds, RowStates
    <2>3. "fill" \in {"produce", "report"} => "draft" \notin {"draft", "open"}
      OBVIOUS
    <2> QED
      BY <1>2, <2>1, <2>2, <2>3, CreateKeepsSafe
  <1>7. ASSUME FillTask(w)  PROVE Safe'
    <2>1. UNCHANGED <<history, final, incoming, outgoing, mgr, toSend>> /\ wrk[w].pc = "fill"
      BY <1>7 DEF FillTask
    <2>2. RowsGrow /\ Used' = Used
      BY <1>1, <1>7, FillEffect
    <2>3. ChosenAllowed' /\ \A r \in Used' : Reached(rows[r].node)'
      BY <2>1, <2>2, RowsKeepSafe
    <2>4. \A r \in Used' : Reached(rows'[r].node)
      BY <2>1, <2>3 DEF Reached
    <2>5. \A r \in RowIds : incoming'[r] > 0 => Settled(r)'
      BY <1>1, <2>1, <2>2, CarriesGrows
    <2>6. /\ OtherWorkersKept(w)
          /\ wrk'[w].pc \in {"produce", "report"} => Settled(wrk[w].row)'
          /\ wrk'[w].node = n
      BY <1>1, <1>7, FillEffect
    <2> QED
      BY <1>1, <2>1, <2>2, <2>3, <2>4, <2>5, <2>6, WorkerKeepsSafe
  <1>8. ASSUME AutoCommitRefused(w)  PROVE Safe'
    <2>1. /\ wrk[w].pc # "idle" /\ wrk' = [wrk EXCEPT ![w].pc = "catch"]
          /\ UNCHANGED <<rows, history, final, incoming, outgoing, mgr, toSend>>
      BY <1>8 DEF AutoCommitRefused
    <2> QED
      BY <2>1, LeaveKeepsSafe
  <1>9. ASSUME Produce(w)  PROVE Safe'
    <2>1. /\ UNCHANGED <<rows, history, final, outgoing, mgr, toSend>>
          /\ wrk[w].pc \in {"produce", "report"}
          /\ incoming' = Deliver(incoming, wrk[w].row)
          /\ wrk' = [wrk EXCEPT ![w].pc = "ack"]
      BY <1>9 DEF Produce
    <2>2. /\ RowsGrow /\ ChosenAllowed'
          /\ \A r \in Used' : Reached(rows'[r].node)
          /\ \A r \in RowIds : Settled(r) => Settled(r)'
      BY <2>1, NoRowKeepsSafe
    <2>3. \A r \in RowIds : incoming'[r] > 0 => Settled(r)'
      <3>1. wrk[w].row \in RowIds /\ Settled(wrk[w].row) /\ incoming \in [RowIds -> Nat]
        BY <1>1, <2>1 DEF TypeOK
      <3>2. \A r \in RowIds : incoming'[r] > 0 => incoming[r] > 0 \/ r = wrk[w].row
        BY <2>1, <3>1, DeliverTyped
      <3> QED
        BY <1>1, <2>2, <3>1, <3>2
    <2>4. /\ OtherWorkersKept(w)
          /\ wrk'[w].pc = "ack" /\ wrk'[w].node = n
      BY <1>1, <2>1, PcEffect DEF WrkStates
    <2> QED
      BY <1>1, <2>1, <2>2, <2>3, <2>4, WorkerKeepsSafe
  <1>10. ASSUME AckOut(w)  PROVE Safe'
    <2>1. /\ wrk' = [wrk EXCEPT ![w] = IdleWorker]
          /\ UNCHANGED <<rows, history, final, incoming, outgoing, mgr, toSend>>
      BY <1>10 DEF AckOut
    <2> QED
      BY <1>1, <2>1, NoRowKeepsSafe, DoneKeepsSafe
  <1> QED
    BY <1>3, <1>4, <1>5, <1>6, <1>7, <1>8, <1>9, <1>10, CatchKeepsSafe DEF WorkerStep

LEMMA RowKeepsSafe ==
  ASSUME IInv, TypeOK', RowsGrow, Used' = Used,
         UNCHANGED <<history, final, outgoing, mgr, wrk>>,
         \A r \in RowIds : incoming'[r] > 0 => Settled(r)',
         \A r \in toSend' : Settled(r)'
  PROVE  Safe'
  <1>1. TypeOK /\ Wired /\ Safe
    BY DEF IInv
  <1>2. /\ \A r \in RowIds : Settled(r) => Settled(r)'
        /\ \A r \in Used : Sequences(rows'[r]) = Sequences(rows[r])
    BY <1>1, CarriesGrows
  <1>3. ReportedIsSettled'
    <2>1. ASSUME NEW s \in Slots, mgr'[s].pc # "idle"  PROVE Settled(mgr[s].row)'
      <3>1. mgr[s].row \in RowIds /\ Settled(mgr[s].row) /\ mgr'[s].row = mgr[s].row
        BY <1>1, <2>1 DEF Wired, Used, Safe, ReportedIsSettled
      <3> QED
        BY <1>2, <3>1 DEF Settled
    <2>2. ASSUME NEW w \in Workers, wrk'[w].pc \in {"produce", "report"}
          PROVE  Settled(wrk[w].row)'
      <3>1. wrk[w].row \in RowIds /\ Settled(wrk[w].row) /\ wrk'[w].row = wrk[w].row
        BY <1>1, <2>2 DEF Wired, Used, Safe, ReportedIsSettled
      <3> QED
        BY <1>2, <3>1 DEF Settled
    <2> QED
      BY <2>1, <2>2 DEF ReportedIsSettled
  <1>4. ManagerKnows'
    <2>1. ASSUME NEW s \in Slots  PROVE Knows(s)'
      <3>1. Knows(s) /\ (mgr[s].pc = "push" => mgr[s].row \in Used)
        BY <1>1 DEF Safe, ManagerKnows, Wired
      <3> QED
        BY <1>2, <3>1 DEF Knows, EndReached
    <2> QED
      BY <2>1 DEF ManagerKnows
  <1>5. InTransitReached'
    BY <1>1 DEF Safe, InTransitReached, Reached
  <1>6. ChosenAllowed' /\ \A r \in Used' : Reached(rows[r].node)'
    BY RowsKeepSafe
  <1>7. StartedOnlyWhenReached'
    BY <1>1, <1>6 DEF Safe, StartedOnlyWhenReached, Reached, EndReached
  <1>8. TakenOnlyWhenSettled'
    BY <1>1, TakenGrows DEF Safe
  <1> QED
    BY <1>3, <1>4, <1>5, <1>6, <1>7, <1>8 DEF Safe

LEMMA RowSafe ==
  ASSUME IInv, TypeOK', NEW r \in RowIds, RowStep(r)
  PROVE  Safe'
  <1> USE DEF tables, queues, faults
  <1>1. /\ TypeOK /\ Wired
        /\ \A q \in RowIds : incoming[q] > 0 => Settled(q)
        /\ \A q \in toSend : Settled(q) /\ q \in RowIds
    BY DEF IInv, Safe, ReportedIsSettled, Wired, Used
  <1>2. ASSUME Commit(r)  PROVE Safe'
    <2>1. RowsGrow /\ Used' = Used /\ r \in Used /\ rows'[r].state = "finished"
      BY <1>1, <1>2, StateGrows DEF Commit, RowStates
    <2>2. \A q \in RowIds : Settled(q) => Settled(q)'
      BY <1>1, <2>1, CarriesGrows
    <2>3. Settled(r)'
      BY <2>1 DEF Settled
    <2> QED
      BY <1>1, <1>2, <2>1, <2>2, <2>3, RowKeepsSafe DEF Commit
  <1>3. ASSUME DaemonPick(r)  PROVE Safe'
    <2>1. UNCHANGED <<rows, history, final, incoming, outgoing, mgr, wrk, toSend>>
      BY <1>3 DEF DaemonPick
    <2>2. RowsGrow /\ Used' = Used /\ \A q \in RowIds : Settled(q) => Settled(q)'
      BY <1>1, <2>1, RowsKept, CarriesGrows
    <2> QED
      BY <1>1, <2>1, <2>2, RowKeepsSafe
  <1>4. ASSUME DaemonSetDone(r)  PROVE Safe'
    <2>1. r \in Used
      BY <1>1, <1>4 DEF DaemonSetDone, Wired
    <2>2. RowsGrow /\ Used' = Used /\ rows'[r].state = "finished"
      BY <1>1, <1>4, <2>1, StateGrows DEF DaemonSetDone, RowStates
    <2>3. \A q \in RowIds : Settled(q) => Settled(q)'
      BY <1>1, <2>2, CarriesGrows
    <2>4. Settled(r)'
      BY <2>1, <2>2 DEF Settled
    <2> QED
      BY <1>1, <1>4, <2>2, <2>3, <2>4, RowKeepsSafe DEF DaemonSetDone
  <1>5. ASSUME SendCompletion(r)  PROVE Safe'
    <2>1. /\ UNCHANGED <<rows, history, final, outgoing, mgr, wrk>>
          /\ r \in toSend /\ toSend' = toSend \ {r}
          /\ incoming' = Deliver(incoming, r)
      BY <1>5 DEF SendCompletion
    <2>2. RowsGrow /\ Used' = Used /\ \A q \in RowIds : Settled(q) => Settled(q)'
      BY <1>1, <2>1, RowsKept, CarriesGrows
    <2>3. \A q \in RowIds : incoming'[q] > 0 => Settled(q)'
      BY <1>1, <2>1, <2>2, DeliverTyped DEF TypeOK
    <2> QED
      BY <1>1, <2>1, <2>2, <2>3, RowKeepsSafe
  <1> QED
    BY <1>2, <1>3, <1>4, <1>5 DEF RowStep

LEMMA FaultSafe ==
  ASSUME IInv, TypeOK', Fault
  PROVE  Safe'
  <1> USE DEF tables, queues, faults
  <1>1. /\ TypeOK /\ Wired
        /\ \A r \in RowIds : incoming[r] > 0 => Settled(r)
        /\ \A n \in Nodes : outgoing[n] > 0 => Reached(n)
        /\ final => EndReached
    BY DEF IInv, Safe, ReportedIsSettled, StartedOnlyWhenReached
  <1>2. ASSUME NEW s \in Slots, ManagerError(s) \/ ManagerCrash(s),
               \A r \in RowIds : incoming'[r] > 0 => Settled(r)
        PROVE  Safe'
    <2>1. UNCHANGED <<rows, history, final, outgoing, wrk, toSend>>
      BY <1>2 DEF ManagerError, ManagerCrash
    <2>2. /\ RowsGrow /\ Used' = Used
          /\ \A r \in RowIds : Settled(r) => Settled(r)'
          /\ \A n \in Nodes : Reached(n) => Reached(n)'
          /\ EndReached => EndReached'
      BY <1>1, <2>1, RowsKept, CarriesGrows, ReachedGrows
    <2>3. Knows(s)'
      BY <1>1, <1>2, DoneEffect DEF Knows
    <2> QED
      BY <1>1, <1>2, <2>1, <2>2, <2>3, DoneEffect, ManagerKeepsSafe
  <1>3. ASSUME NEW s \in Slots, ManagerError(s)  PROVE Safe'
    BY <1>1, <1>2, <1>3 DEF ManagerError
  <1>4. ASSUME NEW s \in Slots, ManagerCrash(s)  PROVE Safe'
    <2>1. mgr[s].row \in RowIds /\ Settled(mgr[s].row)
      BY <1>4 DEF ManagerCrash, IInv, Wired, Used, Safe, ReportedIsSettled
    <2>2. \A r \in RowIds : incoming'[r] > 0 => Settled(r)
      BY <1>1, <1>4, <2>1, DeliverTyped DEF ManagerCrash, Requeue, TypeOK
    <2> QED
      BY <1>2, <1>4, <2>2
  <1>5. ASSUME NEW w \in Workers, WorkerError(w) \/ ErrorPathFails(w)  PROVE Safe'
    <2>1. /\ wrk[w].pc # "idle"
          /\ \/ wrk' = [wrk EXCEPT ![w].pc = "catch"]
             \/ wrk' = [wrk EXCEPT ![w] = IdleWorker]
          /\ UNCHANGED <<rows, history, final, incoming, outgoing, mgr, toSend>>
      BY <1>5 DEF WorkerError, ErrorPathFails, Unguarded
    <2> QED
      BY <2>1, LeaveKeepsSafe
  <1>6. ASSUME NEW w \in Workers, WorkerCrash(w)  PROVE Safe'
    <2>1. wrk[w].node \in Nodes /\ Reached(wrk[w].node)
      BY <1>6 DEF WorkerCrash, IInv, Wired, Safe, InTransitReached
    <2>2. \A n \in Nodes : outgoing'[n] > 0 => Reached(n)
      BY <1>1, <1>6, <2>1, DeliverTyped DEF WorkerCrash, Requeue, TypeOK
    <2>3. /\ wrk' = [wrk EXCEPT ![w] = IdleWorker]
          /\ UNCHANGED <<rows, history, final, incoming, mgr, toSend>>
      BY <1>6 DEF WorkerCrash
    <2> QED
      BY <2>2, <2>3, NoRowKeepsSafe, DoneKeepsSafe
  <1> QED
    BY <1>3, <1>4, <1>5, <1>6 DEF Fault

LEMMA StepSafe ==
  ASSUME IInv, [Next]_vars
  PROVE  IInv'
  <1>1. TypeOK' /\ Wired'
    BY StepTyping DEF IInv
  <1>2. CASE UNCHANGED vars
    <2>1. UNCHANGED <<rows, history, final, incoming, outgoing, mgr, wrk, toSend>>
      BY <1>2 DEF vars, tables, queues
    <2>2. RowsGrow /\ Used' = Used /\ \A r \in RowIds : Settled(r) => Settled(r)'
      BY <2>1, RowsKept, CarriesGrows DEF IInv
    <2>3. /\ \A r \in RowIds : incoming'[r] > 0 => Settled(r)'
          /\ \A r \in toSend' : Settled(r)'
      BY <2>1, <2>2 DEF IInv, Safe, ReportedIsSettled, Wired, Used
    <2> QED
      BY <1>1, <2>1, <2>2, <2>3, RowKeepsSafe DEF IInv
  <1> QED
    BY <1>1, <1>2, ManagerSafe, WorkerSafe, RowSafe, FaultSafe DEF Next, IInv

LEMMA InitSafe ==
  ASSUME Init
  PROVE  IInv
  <1>1. TypeOK /\ Wired
    BY InitTyping
  <1>2. /\ IdleSlot.pc = "idle" /\ IdleSlot.next = NoNode /\ IdleSlot.seen = {}
        /\ IdleWorker.pc = "idle"
    BY DEF IdleSlot, IdleWorker
  <1>3. ReportedIsSettled /\ ManagerKnows /\ InTransitReached
    BY <1>2 DEF Init, ReportedIsSettled, ManagerKnows, Knows, InTransitReached
  <1>4. \A r \in Used : rows[r] = EntryRow
    BY DEF Init, Used
  <1>5. ChosenAllowed \/ Kind[Entry] \in GatewayKinds
    BY <1>4 DEF ChosenAllowed, EntryRow
  <1>6. StartedOnlyWhenReached /\ TakenOnlyWhenSettled
    BY <1>4 DEF Init, StartedOnlyWhenReached, TakenOnlyWhenSettled, Reached, EntryRow
  <1> QED
    BY <1>1, <1>3, <1>5, <1>6, SchemaAssumption DEF IInv, Safe, TaskKinds, GatewayKinds

(***************************************************************************)
(* Whatever the schema and whatever crashes, redeliveries and errors the   *)
(* handlers go through, what a manager, a worker or the daemon has in hand *)
(* is covered by rows that have been worked off and flows recorded.        *)
(***************************************************************************)
THEOREM Invariance == Spec => []IInv
  <1>1. Init => IInv
    BY InitSafe
  <1>2. IInv /\ [Next]_vars => IInv'
    BY StepSafe
  <1> QED
    BY <1>1, <1>2, PTL DEF Spec

(***************************************************************************)
(* No node is created or asked for before the schema has been walked up to *)
(* it, and no workflow is final before an end event is reached.            *)
(***************************************************************************)
THEOREM NothingStartsEarly == Spec => []StartedOnlyWhenReached
  <1>1. IInv => StartedOnlyWhenReached
    BY DEF IInv, Safe
  <1> QED
    BY <1>1, Invariance, PTL

(***************************************************************************)
(* A flow is recorded only for a row that has been worked off and leads    *)
(* along it.                                                               *)
(***************************************************************************)
THEOREM FlowsComeFromSettledRows == Spec => []TakenOnlyWhenSettled
  <1>1. IInv => TakenOnlyWhenSettled
    BY DEF IInv, Safe
  <1> QED
    BY <1>1, Invariance, PTL

-------------------------------------------------------------------------------
(***************************************************************************)
(* Refinement.                                                             *)
(***************************************************************************)

\* Only two statements of the manager change what TokenFlow sees.
LEMMA VisibleSteps ==
  ASSUME [Next]_vars
  PROVE  \/ UNCHANGED <<history, final>>
         \/ \E s \in Slots : PushIn(s) \/ SetStatusFinal(s)
  <1> USE DEF tables, queues, faults
  <1>1. ASSUME NEW s \in Slots, ManagerStep(s), ~PushIn(s), ~SetStatusFinal(s)
        PROVE  UNCHANGED <<history, final>>
    BY <1>1 DEF ManagerStep, Receive, Skip, PushOut, BeginFinish, SendOut,
                CancelTasks, CancelEvents, CancelAllInProgress, AckIn
  <1>3. ASSUME NEW w \in Workers, WorkerStep(w)  PROVE UNCHANGED <<history, final>>
    BY <1>3 DEF WorkerStep, Take, CreateGateway, CreateEvent, CreateTask, FillTask,
                AutoCommitRefused, Produce, AckOut, RetryLater, CarryOn, GiveUp
  <1>4. ASSUME NEW r \in RowIds, RowStep(r)  PROVE UNCHANGED <<history, final>>
    BY <1>4 DEF RowStep, Commit, DaemonPick, DaemonSetDone, SendCompletion
  <1>5. ASSUME Fault  PROVE UNCHANGED <<history, final>>
    BY <1>5 DEF Fault, ManagerError, ManagerCrash, WorkerError, ErrorPathFails,
                WorkerCrash
  <1>6. CASE UNCHANGED vars
    BY <1>6 DEF vars
  <1> QED
    BY <1>1, <1>3, <1>4, <1>5, <1>6 DEF Next

LEMMA TokenStep ==
  ASSUME IInv, [Next]_vars
  PROVE  [Tokens!TokenNext]_Tokens!tokenVars
  <1>1. CASE UNCHANGED <<history, final>>
    BY <1>1 DEF Tokens!tokenVars
  <1>2. ASSUME NEW s \in Slots, PushIn(s)  PROVE Tokens!TokenNext
    <2> DEFINE row == rows[mgr[s].row]
               n == row.node
    <2>1. /\ mgr[s].pc = "push" /\ final' = final
          /\ history' = history \cup mgr[s].todo
      BY <1>2 DEF PushIn
    <2>2. mgr[s].row \in Used /\ mgr[s].todo = Sequences(row)
      BY <2>1 DEF IInv, Wired, Safe, ManagerKnows, Knows
    <2>3. n \in Nodes /\ Reached(n)
      BY <2>2 DEF IInv, TypeOK, Used, Row, Safe, StartedOnlyWhenReached
    <2>4. Sequences(row) \in FlowSets[n]
      BY <2>2, <2>3 DEF IInv, Safe, ChosenAllowed, Sequences, FlowSets
    <2>5. n = Entry \/ Tokens!TokenAt(n)
      BY <2>3 DEF Reached, Tokens!TokenAt
    <2>6. Tokens!Pass(n)
      BY <2>1, <2>2, <2>4, <2>5 DEF Tokens!Pass
    <2> QED
      BY <2>3, <2>6 DEF Tokens!TokenNext
  <1>3. ASSUME NEW s \in Slots, SetStatusFinal(s)  PROVE Tokens!TokenNext
    <2>1. mgr[s].pc = "cancel" /\ final' = TRUE /\ history' = history
      BY <1>3 DEF SetStatusFinal, tables
    <2>2. EndReached
      BY <2>1 DEF IInv, Safe, ManagerKnows, Knows
    <2> QED
      BY <2>1, <2>2 DEF EndReached, Tokens!TokenNext, Tokens!Finish, Tokens!TokenAt
  <1> QED
    BY <1>1, <1>2, <1>3, VisibleSteps

(***************************************************************************)
(* The manager and the services, with every interleaving, crash and error, *)
(* implement the token game: what they record and when they call the       *)
(* workflow final is a walk of the schema.                                 *)
(***************************************************************************)
THEOREM Refinement == Spec => ImplementsTokenFlow
  <1>1. Init => Tokens!TokenInit
    BY DEF Init, Tokens!TokenInit
  <1>2. IInv /\ [Next]_vars => [Tokens!TokenNext]_Tokens!tokenVars
    BY TokenStep
  <1> QED
    BY <1>1, <1>2, Invariance, PTL DEF Spec, ImplementsTokenFlow, Tokens!TokenSpec

===============================================================================
