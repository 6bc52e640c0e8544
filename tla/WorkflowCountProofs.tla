-------------------------- MODULE WorkflowCountProofs --------------------------
(***************************************************************************)
(* No node starts more often than tokens come to it: a theorem for every   *)
(* schema whose joins are fed singly, and every number of handlers.        *)
(***************************************************************************)
EXTENDS WorkflowProgressProofs, FiniteSetTheorems

(***************************************************************************)
(* What the theorem assumes.  A message that is delivered again or put on  *)
(* a postponed queue starts its node again, which the code accepts.        *)
(***************************************************************************)
Repeats == crashes' # crashes \/ \E w \in Workers : RetryLater(w) \/ CarryOn(w)

\* A flow into a join is the only one its row leads along: a parallel gateway
\* does not lead directly to a join beside other branches.
JoinsFedSingly ==
  \A j \in Joins :
    /\ \A f \in Flows : Target[f] = j => f \in Incoming[j]
    /\ \A f \in Incoming[j], n \in Nodes :
         Kind[n] = "parallel" /\ f \in Out[n] => Out[n] = {f}

\* No branch has come to its join twice, as it would in a loop.
OnceAtJoins ==
  \A j \in Joins : \A f \in Incoming[j] : \A r, q \in RowIds :
    Carries(r, f) /\ Carries(q, f) => r = q

(***************************************************************************)
(* The completion of a row is in one place at most.                        *)
(***************************************************************************)
Finished(r) == r \in Used /\ rows[r].state = "finished"

Producing(w, r) == wrk[w].pc = "produce" /\ wrk[w].row = r
Handling(s, r) == mgr[s].pc # "idle" /\ mgr[s].row = r

OnePlace(r) ==
  /\ incoming[r] <= 1
  /\ incoming[r] > 0 => r \notin toSend
  /\ \A s \in Slots : Handling(s, r) => incoming[r] = 0 /\ r \notin toSend
  /\ \A w \in Workers : Producing(w, r) => incoming[r] = 0 /\ r \notin toSend
  /\ \A s \in Slots, w \in Workers : ~(Handling(s, r) /\ Producing(w, r))
  /\ \A s, q \in Slots : Handling(s, r) /\ Handling(q, r) => s = q
  /\ \A w, v \in Workers : Producing(w, r) /\ Producing(v, r) => w = v

\* The completion of row r is somewhere, and only a finished row has one.
Placed(r) ==
  \/ incoming[r] > 0
  \/ r \in toSend
  \/ \E s \in Slots : Handling(s, r)
  \/ \E w \in Workers : Producing(w, r)

ReportedIsFinished == \A r \in RowIds : Placed(r) => Finished(r)

DueIsUnfinished ==
  \A r \in due : Kind[rows[r].node] = "delay" /\ rows[r].state \in {"open", "cancelled"}

TodoFromRow ==
  \A s \in Slots :
    /\ mgr[s].pc # "idle" => mgr[s].todo \subseteq Sequences(rows[mgr[s].row])
    /\ mgr[s].pc = "cancel" => mgr[s].todo = {}

TakenWhenFinished ==
  \A f \in history : \E r \in RowIds : Finished(r) /\ f \in Sequences(rows[r])

Places ==
  /\ \A r \in RowIds : OnePlace(r)
  /\ \A w \in Workers : wrk[w].pc # "report"
  /\ ReportedIsFinished
  /\ DueIsUnfinished
  /\ TodoFromRow
  /\ TakenWhenFinished

(***************************************************************************)
(* Joins.                                                                  *)
(***************************************************************************)

\* The completion of r has not been recorded yet.
Before(r) ==
  \/ incoming[r] > 0
  \/ r \in toSend
  \/ \E w \in Workers : Producing(w, r)
  \/ \E s \in Slots : mgr[s].pc = "push" /\ mgr[s].row = r

\* Handler s is going to find join j done.
Hot(s, j) ==
  /\ mgr[s].pc \in {"loop", "send"}
  /\ mgr[s].todo \cap Incoming[j] # {}
  /\ Incoming[j] \subseteq mgr[s].seen

RecordedIsPast ==
  \A j \in Joins : \A f \in Incoming[j] \cap history : \A r \in RowIds :
    Carries(r, f) => ~Before(r)

OneHot == \A j \in Joins : \A s, q \in Slots : Hot(s, j) /\ Hot(q, j) => s = q

AtJoins == RecordedIsPast /\ OneHot

(***************************************************************************)
(* Tokens that have been spent: no handler will follow them any more.      *)
(***************************************************************************)
InHand(s, r, f) ==
  mgr[s].pc \in {"loop", "send"} /\ mgr[s].row = r /\ f \in mgr[s].todo

Pending(r, f) == Before(r) \/ \E s \in Slots : InHand(s, r, f)

SpentFlows(n) ==
  {t \in RowIds \X Flows :
     /\ Finished(t[1]) /\ t[2] \in Sequences(rows[t[1]])
     /\ Target[t[2]] = n
     /\ ~Pending(t[1], t[2])}

Passed(j) == Incoming[j] \subseteq history /\ \A s \in Slots : ~Hot(s, j)

SpentJoins(n) ==
  {t \in Joins \X {1} : Target[JoinOut[t[1]]] = n /\ Passed(t[1])}

Entries(n) == IF n = Entry THEN 1 ELSE 0

Spent(n) == Entries(n) + Cardinality(SpentFlows(n)) + Cardinality(SpentJoins(n))

EachStartIsSpent == \A n \in Nodes : Starts(n) <= Spent(n)

Counted == OnceAtJoins => AtJoins /\ EachStartIsSpent
-------------------------------------------------------------------------------
(***************************************************************************)
(* Completions: frames.                                                    *)
(***************************************************************************)

\* Finished rows stay, with the flows they lead along.
FinishedStays ==
  \A r \in RowIds : Finished(r) => /\ Finished(r)'
                                  /\ Sequences(rows'[r]) = Sequences(rows[r])

LEMMA FinishedKept ==
  ASSUME TypeOK, RowsGrow,
         \A r \in RowIds : Finished(r) => rows'[r].state = "finished"
  PROVE  FinishedStays
  BY CarriesGrows DEF FinishedStays, Finished, RowsGrow

LEMMA PlacedIsFinished ==
  ASSUME Places, NEW r \in RowIds, Placed(r)
  PROVE  Finished(r)
  BY DEF Places, ReportedIsFinished

\* A completion that has been nowhere comes to one place.
LEMMA NowherePlaces ==
  ASSUME TypeOK, NEW r \in RowIds, ~Placed(r)
  PROVE  /\ incoming[r] = 0 /\ r \notin toSend
         /\ \A s \in Slots : ~Handling(s, r)
         /\ \A w \in Workers : ~Producing(w, r)
  BY DEF Placed, TypeOK

\* Completions may get lost.
LEMMA PlacesShrink ==
  ASSUME TypeOK, TypeOK', NEW r \in RowIds, OnePlace(r), incoming'[r] <= incoming[r],
         r \in toSend' => r \in toSend,
         \A s \in Slots : Handling(s, r)' => Handling(s, r),
         \A w \in Workers : Producing(w, r)' => Producing(w, r)
  PROVE  OnePlace(r)' /\ (Placed(r)' => Placed(r))
  <1>1. incoming[r] \in Nat /\ incoming'[r] \in Nat
    BY DEF TypeOK
  <1> QED
    BY <1>1 DEF OnePlace, Placed

LEMMA StepFinishedStays ==
  ASSUME IInv, Next, ~Repeats
  PROVE  FinishedStays
  <1> USE DEF tables, queues, faults
  <1>1. TypeOK /\ Wired
    BY DEF IInv
  <1>2. ASSUME NEW s \in Slots, ManagerStep(s)  PROVE FinishedStays
    <2>1. RowsGrow
      BY <1>1, <1>2, ManagerGrows
    <2>2. CASE CancelTasks(s) \/ CancelEvents(s)
      <3>1. PICK kinds : rows' = Cancelled(kinds)
        BY <2>2 DEF CancelTasks, CancelEvents, CancelAllInProgress
      <3>2. \A r \in RowIds : Finished(r) => rows'[r] = rows[r]
        BY <3>1 DEF Cancelled, Finished, Unfinished
      <3> QED
        BY <1>1, <2>1, <3>2, FinishedKept DEF Finished
    <2>3. CASE ~(CancelTasks(s) \/ CancelEvents(s))
      <3>1. UNCHANGED rows
        BY <1>2, <2>3 DEF ManagerStep, Receive, PushIn, Skip, PushOut, BeginFinish, SendOut,
                          SetStatusFinal, AckIn
      <3> QED
        BY <1>1, <2>1, <3>1, FinishedKept DEF Finished
    <2> QED
      BY <2>2, <2>3
  <1>3. ASSUME NEW w \in Workers, WorkerStep(w)  PROVE FinishedStays
    <2>1. RowsGrow
      BY <1>1, <1>3, WorkerGrows
    <2>2. CASE FillTask(w)
      <3>1. wrk[w].row \in RowIds /\ \A r \in RowIds : Finished(r) => rows[r] \in Row
        BY <1>1, <2>2 DEF FillTask, Wired, Used, TypeOK, Finished
      <3>2. \A r \in RowIds : Finished(r) => rows'[r].state = "finished"
        BY <1>1, <2>2, <3>1 DEF FillTask, Opened, Finished, TypeOK, Row
      <3> QED
        BY <1>1, <2>1, <3>2, FinishedKept
    <2>3. ASSUME NEW v, rows' = [rows EXCEPT ![NextRow] = v], Free # {}  PROVE FinishedStays
      <3>1. \A r \in RowIds : Finished(r) => rows'[r] = rows[r]
        BY <1>1, <2>3, NextRowIsFree DEF Finished, TypeOK
      <3> QED
        BY <1>1, <2>1, <3>1, FinishedKept DEF Finished
    <2>4. CASE CreateGateway(w) \/ CreateEvent(w) \/ CreateTask(w)
      BY <2>3, <2>4 DEF CreateGateway, CreateEvent, CreateTask, Insert
    <2>5. CASE /\ \/ \E n \in Nodes : Take(w, n)
                  \/ AutoCommitRefused(w) \/ Produce(w) \/ AckOut(w) \/ GiveUp(w)
      <3>1. UNCHANGED rows
        BY <2>5 DEF Take, AutoCommitRefused, Produce, AckOut, GiveUp
      <3> QED
        BY <1>1, <2>1, <3>1, FinishedKept DEF Finished
    <2> QED
      BY <1>3, <2>2, <2>4, <2>5 DEF WorkerStep, Repeats
  <1>4. ASSUME NEW r \in RowIds, RowStep(r)  PROVE FinishedStays
    <2>1. RowsGrow
      BY <1>1, <1>4, RowStepGrows
    <2>2. \/ UNCHANGED rows
          \/ rows' = [rows EXCEPT ![r].state = "finished"] /\ r \in Used
      BY <1>1, <1>4 DEF RowStep, Commit, DaemonPick, DaemonSetDone, SendCompletion, Wired
    <2>3. \A q \in RowIds : Finished(q) => rows[q] \in Row
      BY <1>1 DEF Finished, Used, TypeOK
    <2>4. \A q \in RowIds : Finished(q) => rows'[q].state = "finished"
      BY <1>1, <2>2, <2>3 DEF Finished, TypeOK, Row
    <2> QED
      BY <1>1, <2>1, <2>4, FinishedKept
  <1>5. CASE Fault
    <2>1. UNCHANGED rows
      BY <1>5 DEF Fault, ManagerError, ManagerCrash, WorkerError, ErrorPathFails, WorkerCrash
    <2> QED
      BY <1>1, <2>1, RowsKept, FinishedKept DEF Finished
  <1> QED
    BY <1>2, <1>3, <1>4, <1>5 DEF Next

-------------------------------------------------------------------------------
(***************************************************************************)
(* Completions: one place each.                                            *)
(***************************************************************************)
PlacedWell(r) == OnePlace(r)' /\ (Placed(r)' => Placed(r) \/ Finished(r)')

LEMMA ManagerPlaces ==
  ASSUME IInv, Places, NEW s \in Slots, ManagerStep(s), NEW r \in RowIds
  PROVE  PlacedWell(r)
  <1> USE DEF tables, queues, faults
  <1>1. /\ TypeOK /\ Wired /\ TypeOK' /\ OthersKept(s) /\ OnePlace(r) /\ UNCHANGED wrk
    BY ManagerTyping, ManagerOthersKept, ManagerGrows DEF IInv, Places
  <1>2. incoming \in [RowIds -> Nat] /\ UNCHANGED toSend
    BY <1>1 DEF TypeOK, ManagerStep, Receive, PushIn, Skip, PushOut, BeginFinish, SendOut,
                CancelTasks, CancelEvents, CancelAllInProgress, SetStatusFinal, AckIn
  <1>3. CASE Receive(s, r)
    <2>1. incoming[r] = 1 /\ incoming'[r] = 0
      BY <1>1, <1>2, <1>3 DEF Receive, Remove, OnePlace
    <2>2. Placed(r) /\ r \notin toSend' /\ \A w \in Workers : ~Producing(w, r)'
      BY <1>1, <1>2, <2>1 DEF OnePlace, Placed, Producing
    <2>3. \A q \in Slots : Handling(q, r)' => q = s
      BY <1>1, <2>1 DEF OnePlace, Handling, OthersKept
    <2> QED
      BY <2>1, <2>2, <2>3 DEF PlacedWell, OnePlace
  <1>4. ASSUME NEW q \in RowIds, q # r, Receive(s, q)  PROVE PlacedWell(r)
    <2>1. incoming'[r] = incoming[r]
      BY <1>2, <1>4 DEF Receive, Remove
    <2>2. mgr'[s].row = q
      BY <1>1, <1>4, ReceiveEffect
    <2>3. \A v \in Slots : Handling(v, r)' => Handling(v, r)
      BY <1>1, <1>4, <2>2 DEF Handling, OthersKept
    <2> QED
      BY <1>1, <1>2, <2>1, <2>3, PlacesShrink DEF PlacedWell, Producing
  <1>5. CASE \A q \in RowIds : ~Receive(s, q)
    <2>1. UNCHANGED incoming
      BY <1>5 DEF ManagerStep, PushIn, Skip, PushOut, BeginFinish, SendOut,
                  CancelTasks, CancelEvents, CancelAllInProgress, SetStatusFinal, AckIn
    <2>2. \/ mgr'[s].pc = "idle"
          \/ mgr[s].pc # "idle" /\ mgr'[s].row = mgr[s].row
      <3>1. CASE CancelTasks(s) \/ CancelEvents(s)
        BY <1>1, <3>1, CancelEffect DEF CancelTasks, CancelEvents, CancelAllInProgress
      <3>2. CASE PushIn(s)
        BY <1>1, <3>2, PushInEffect DEF PushIn
      <3>3. ASSUME NEW f \in Flows, Skip(s, f)  PROVE mgr[s].pc # "idle" /\ mgr'[s].row = mgr[s].row
        BY <1>1, <3>3, SkipEffect DEF Skip
      <3>4. ASSUME NEW f \in Flows, PushOut(s, f)  PROVE mgr[s].pc # "idle" /\ mgr'[s].row = mgr[s].row
        BY <1>1, <3>4, PushOutEffect DEF PushOut
      <3>5. ASSUME NEW f \in Flows, BeginFinish(s, f)  PROVE mgr[s].pc # "idle" /\ mgr'[s].row = mgr[s].row
        BY <1>1, <3>5, BeginFinishEffect DEF BeginFinish
      <3>6. CASE SendOut(s)
        BY <1>1, <3>6, SendOutEffect DEF SendOut
      <3>7. CASE SetStatusFinal(s)
        BY <1>1, <3>7, SetStatusFinalEffect DEF SetStatusFinal
      <3>8. CASE AckIn(s)
        BY <1>1, <3>8, DoneEffect
      <3> QED
        BY <1>5, <3>1, <3>2, <3>3, <3>4, <3>5, <3>6, <3>7, <3>8 DEF ManagerStep
    <2>3. \A v \in Slots : Handling(v, r)' => Handling(v, r)
      BY <1>1, <2>2 DEF Handling, OthersKept
    <2>4. incoming'[r] <= incoming[r]
      BY <1>2, <2>1
    <2> QED
      BY <1>1, <1>2, <2>3, <2>4, PlacesShrink DEF PlacedWell, Producing
  <1> QED
    BY <1>3, <1>4, <1>5

\* A row that has just been finished comes to its first place.
LEMMA FirstPlace ==
  ASSUME TypeOK, NEW r \in RowIds, ~Placed(r), Finished(r)', UNCHANGED <<incoming, mgr>>,
         \/ /\ UNCHANGED toSend
            /\ \A w, v \in Workers : Producing(w, r)' /\ Producing(v, r)' => w = v
         \/ UNCHANGED wrk
  PROVE  PlacedWell(r)
  <1>1. /\ incoming'[r] = 0 /\ r \notin toSend
        /\ \A s \in Slots : ~Handling(s, r)'
        /\ \A w \in Workers : ~Producing(w, r)
    BY NowherePlaces DEF Handling
  <1>2. CASE UNCHANGED toSend
    BY <1>1, <1>2 DEF PlacedWell, OnePlace, Producing
  <1>3. CASE UNCHANGED wrk
    BY <1>1, <1>3 DEF PlacedWell, OnePlace, Producing
  <1> QED
    BY <1>2, <1>3

\* A worker that does not start to report.
LEMMA QuietWorkerPlaces ==
  ASSUME TypeOK, TypeOK', Places, NEW w \in Workers, OtherWorkersKept(w),
         UNCHANGED <<incoming, mgr, toSend>>, NEW r \in RowIds,
         wrk'[w].pc # "produce" \/ wrk'[w].row # r
  PROVE  PlacedWell(r)
  <1>1. OnePlace(r) /\ incoming'[r] <= incoming[r]
    BY DEF TypeOK, Places
  <1>2. \A v \in Workers : Producing(v, r)' => Producing(v, r)
    BY DEF Producing, OtherWorkersKept
  <1>3. \A s \in Slots : Handling(s, r)' => Handling(s, r)
    BY DEF Handling
  <1> QED
    BY <1>1, <1>2, <1>3, PlacesShrink DEF PlacedWell

LEMMA BusyWorkerPlaces ==
  ASSUME TypeOK, TypeOK', Places, NEW w \in Workers, OtherWorkersKept(w),
         UNCHANGED <<incoming, mgr, toSend>>, NEW r \in RowIds,
         NEW q \in RowIds, wrk'[w].row = q, ~Finished(q), Finished(q)'
  PROVE  PlacedWell(r)
  <1>1. CASE q # r
    BY <1>1, QuietWorkerPlaces
  <1>2. CASE q = r
    <2>1. ~Placed(r) /\ Finished(r)'
      BY <1>2, PlacedIsFinished
    <2>2. \A v \in Workers : Producing(v, r)' => v = w
      BY <2>1 DEF Producing, OtherWorkersKept, Placed
    <2> QED
      BY <2>1, <2>2, FirstPlace
  <1> QED
    BY <1>1, <1>2

LEMMA WorkerPlaces ==
  ASSUME IInv, Places, NEW w \in Workers, WorkerStep(w), ~RetryLater(w), ~CarryOn(w),
         NEW r \in RowIds
  PROVE  PlacedWell(r) /\ wrk'[w].pc # "report" /\ OtherWorkersKept(w)
  <1> USE DEF tables, queues, faults
  <1> DEFINE n == wrk[w].node
  <1>1. /\ TypeOK /\ Wired /\ TypeOK' /\ wrk[w].pc # "report"
        /\ wrk[w].pc # "idle" => n \in Nodes
    BY WorkerTyping DEF IInv, Places, Wired
  <1>2. CASE \E k \in Nodes : Take(w, k)
    <2>1. wrk'[w].pc = "create" /\ OtherWorkersKept(w) /\ UNCHANGED <<incoming, mgr, toSend>>
      BY <1>1, <1>2, TakeEffect DEF Take
    <2> QED
      BY <1>1, <2>1, QuietWorkerPlaces
  <1>3. ASSUME NEW state \in RowStates, NEW result \in SUBSET Flows, Free # {},
               NEW pc \in {"fill", "produce", "ack", "report"}, pc # "report", wrk[w].pc # "idle",
               Insert(NextRow, n, state, result), UNCHANGED <<incoming, mgr, toSend>>,
               wrk' = [wrk EXCEPT ![w] = [@ EXCEPT !.pc = pc, !.row = NextRow]],
               pc = "produce" => state = "finished"
        PROVE  PlacedWell(r) /\ wrk'[w].pc # "report" /\ OtherWorkersKept(w)
    <2>1. wrk'[w].pc = pc /\ wrk'[w].row = NextRow /\ OtherWorkersKept(w)
      BY <1>1, <1>3, CreateEffect
    <2>2. /\ NextRow \in RowIds /\ NextRow \notin Used /\ n \in Nodes
          /\ NextRow \in Used' /\ rows'[NextRow].state = state
      <3>1. n \in Nodes /\ NextRow \notin Used
        BY <1>1, <1>3, NextRowIsFree
      <3> HIDE DEF n
      <3> QED
        BY <1>1, <1>3, <3>1, InsertGrows
    <2>3. CASE pc = "produce"
      <3>1. PICK q \in RowIds : q = NextRow
        BY <2>2
      <3>2. wrk'[w].row = q /\ ~Finished(q) /\ Finished(q)'
        BY <1>3, <2>1, <2>2, <2>3, <3>1 DEF Finished
      <3> QED
        BY <1>1, <1>3, <2>1, <3>2, BusyWorkerPlaces
    <2>4. CASE pc # "produce"
      BY <1>1, <1>3, <2>1, <2>4, QuietWorkerPlaces
    <2> QED
      BY <2>3, <2>4
  <1>4. CASE CreateGateway(w)
    <2>1. PICK result \in Outcomes(n) : Insert(NextRow, n, "finished", result)
      BY <1>4 DEF CreateGateway
    <2>2. result \in SUBSET Flows /\ "finished" \in RowStates
      BY <1>1, <1>4, OutcomesTyped DEF CreateGateway, RowStates
    <2>3. /\ wrk[w].pc # "idle" /\ Free # {} /\ UNCHANGED <<incoming, mgr, toSend>>
          /\ wrk' = [wrk EXCEPT ![w] = [@ EXCEPT !.pc = "produce", !.row = NextRow]]
      BY <1>4 DEF CreateGateway
    <2> QED
      BY <1>3, <2>1, <2>2, <2>3
  <1>5. CASE CreateEvent(w)
    <2> DEFINE pc == IF ReportsAtOnce(n) THEN "produce" ELSE "ack"
    <2>1. /\ pc \in {"fill", "produce", "ack", "report"} /\ EventState(n) \in RowStates
          /\ pc = "produce" => EventState(n) = "finished"
          /\ pc # "report"
      BY DEF EventState, RowStates, ReportsAtOnce
    <2>2. /\ wrk[w].pc # "idle" /\ Free # {} /\ UNCHANGED <<incoming, mgr, toSend>>
          /\ Insert(NextRow, n, EventState(n), {})
          /\ wrk' = [wrk EXCEPT ![w] = [@ EXCEPT !.pc = pc, !.row = NextRow]]
      BY <1>5 DEF CreateEvent
    <2> HIDE DEF pc
    <2> QED
      BY <1>3, <2>1, <2>2
  <1>6. CASE CreateTask(w)
    <2>1. /\ wrk[w].pc # "idle" /\ Free # {} /\ UNCHANGED <<incoming, mgr, toSend>>
          /\ Insert(NextRow, n, "draft", {}) /\ "draft" \in RowStates
          /\ wrk' = [wrk EXCEPT ![w] = [@ EXCEPT !.pc = "fill", !.row = NextRow]]
      BY <1>6 DEF CreateTask, RowStates
    <2> QED
      BY <1>3, <2>1
  <1>7. CASE FillTask(w)
    <2>1. PICK q \in RowIds : q = wrk[w].row /\ q \in Used /\ rows[q] \in Row
      BY <1>1, <1>7 DEF FillTask, Wired, Used, TypeOK
    <2>2. OtherWorkersKept(w) /\ wrk'[w].row = q /\ UNCHANGED <<incoming, mgr, toSend>>
      BY <1>1, <1>7, <2>1, FillEffect DEF FillTask
    <2>3. \/ wrk'[w].pc = "ack"
          \/ wrk'[w].pc = "produce" /\ ~Finished(q) /\ rows'[q].state = "finished"
      BY <1>1, <1>7, <2>1 DEF FillTask, TypeOK, Row, WrkSlot, Finished
    <2>4. q \in Used'
      BY <1>1, <1>7, <2>1, WorkerGrows DEF RowsGrow
    <2> QED
      BY <1>1, <2>2, <2>3, <2>4, QuietWorkerPlaces, BusyWorkerPlaces DEF Finished
  <1>8. CASE Produce(w)
    <2>1. PICK q \in RowIds : q = wrk[w].row /\ incoming' = Deliver(incoming, q)
      BY <1>1, <1>8 DEF Produce, Wired, Used
    <2>2. /\ OtherWorkersKept(w) /\ wrk'[w].pc = "ack" /\ UNCHANGED <<mgr, toSend>>
          /\ wrk[w].pc = "produce"
      BY <1>1, <1>8, PcEffect DEF Produce, WrkStates
    <2>3. CASE q # r
      <3>1. incoming'[r] <= incoming[r]
        BY <1>1, <2>1, <2>3 DEF Deliver, TypeOK
      <3>2. \A v \in Workers : Producing(v, r)' => Producing(v, r)
        BY <2>2 DEF Producing, OtherWorkersKept
      <3> QED
        BY <1>1, <2>2, <3>1, <3>2, PlacesShrink DEF PlacedWell, Handling, Places
    <2>4. CASE q = r
      <3>1. /\ Producing(w, r) /\ OnePlace(r)
        BY <2>1, <2>2, <2>4 DEF Producing, Places
      <3>2. /\ Placed(r) /\ incoming[r] = 0 /\ r \notin toSend
            /\ \A s \in Slots : ~Handling(s, r)
            /\ \A v \in Workers : Producing(v, r) => v = w
        BY <3>1 DEF OnePlace, Placed
      <3>3. incoming'[r] = 1
        BY <1>1, <2>1, <2>4, <3>2 DEF Deliver, TypeOK
      <3>4. \A v \in Workers : ~Producing(v, r)'
        BY <2>2, <3>2 DEF Producing, OtherWorkersKept
      <3>5. \A s \in Slots : ~Handling(s, r)'
        BY <2>2, <3>2 DEF Handling
      <3> QED
        BY <2>2, <3>2, <3>3, <3>4, <3>5 DEF PlacedWell, OnePlace
    <2> QED
      BY <2>2, <2>3, <2>4
  <1>9. CASE AutoCommitRefused(w)
    <2>1. wrk'[w].pc = "catch" /\ OtherWorkersKept(w) /\ UNCHANGED <<incoming, mgr, toSend>>
      BY <1>1, <1>9, PcEffect DEF AutoCommitRefused, WrkStates
    <2> QED
      BY <1>1, <2>1, QuietWorkerPlaces
  <1>10. CASE AckOut(w) \/ GiveUp(w)
    <2>1. wrk'[w].pc = "idle" /\ OtherWorkersKept(w) /\ UNCHANGED <<incoming, mgr, toSend>>
      BY <1>1, <1>10, WorkerDoneEffect DEF AckOut, GiveUp
    <2> QED
      BY <1>1, <2>1, QuietWorkerPlaces
  <1> QED
    BY <1>2, <1>4, <1>5, <1>6, <1>7, <1>8, <1>9, <1>10 DEF WorkerStep

LEMMA RowPlaces ==
  ASSUME IInv, Places, NEW q \in RowIds, RowStep(q), NEW r \in RowIds
  PROVE  PlacedWell(r)
  <1> USE DEF tables, queues, faults
  <1>1. /\ TypeOK /\ Wired /\ TypeOK' /\ OnePlace(r) /\ UNCHANGED <<mgr, wrk>>
    BY RowTyping, RowStepGrows DEF IInv, Places
  <1>2. CASE DaemonPick(q)
    <2>1. incoming'[r] <= incoming[r]
      BY <1>1, <1>2 DEF DaemonPick, TypeOK
    <2> QED
      BY <1>1, <1>2, <2>1, PlacesShrink DEF DaemonPick, PlacedWell, Handling, Producing
  <1>3. CASE Commit(q) \/ DaemonSetDone(q)
    <2>1. /\ q \in Used /\ ~Finished(q) /\ UNCHANGED incoming
          /\ rows' = [rows EXCEPT ![q].state = "finished"] /\ toSend' = toSend \cup {q}
      BY <1>1, <1>3 DEF Commit, DaemonSetDone, Places, DueIsUnfinished, Wired, Finished
    <2>2. CASE q = r
      <3>1. Finished(r)'
        BY <1>1, <2>1, <2>2, StateGrows DEF Finished, RowStates, Settled
      <3>2. ~Placed(r)
        BY <2>1, <2>2, PlacedIsFinished
      <3> QED
        BY <1>1, <2>1, <3>1, <3>2, FirstPlace
    <2>3. CASE q # r
      <3>1. incoming'[r] <= incoming[r]
        BY <1>1, <2>1 DEF TypeOK
      <3> QED
        BY <1>1, <2>1, <2>3, <3>1, PlacesShrink DEF PlacedWell, Handling, Producing
    <2> QED
      BY <2>2, <2>3
  <1>4. CASE SendCompletion(q)
    <2>1. /\ q \in toSend /\ toSend' = toSend \ {q} /\ incoming' = Deliver(incoming, q)
      BY <1>4 DEF SendCompletion
    <2>2. CASE q = r
      <3>1. /\ Placed(r) /\ incoming[r] = 0
            /\ \A s \in Slots : ~Handling(s, r)
            /\ \A w \in Workers : ~Producing(w, r)
        BY <1>1, <2>1, <2>2 DEF Placed, OnePlace, TypeOK
      <3>2. incoming'[r] = 1
        BY <1>1, <2>1, <2>2, <3>1 DEF Deliver, TypeOK
      <3>3. /\ \A s \in Slots : ~Handling(s, r)'
            /\ \A w \in Workers : ~Producing(w, r)'
        BY <1>1, <3>1 DEF Handling, Producing
      <3> QED
        BY <2>1, <2>2, <3>1, <3>2, <3>3 DEF PlacedWell, OnePlace
    <2>3. CASE q # r
      <3>1. incoming'[r] <= incoming[r]
        BY <1>1, <2>1, <2>3 DEF Deliver, TypeOK
      <3> QED
        BY <1>1, <2>1, <2>3, <3>1, PlacesShrink DEF PlacedWell, Handling, Producing
    <2> QED
      BY <2>2, <2>3
  <1> QED
    BY <1>2, <1>3, <1>4 DEF RowStep

LEMMA FaultPlaces ==
  ASSUME IInv, Places, Fault, ~Repeats, NEW r \in RowIds
  PROVE  /\ PlacedWell(r)
         /\ \A w \in Workers : /\ wrk'[w].pc # "report"
                               /\ wrk'[w] = wrk[w] \/ wrk'[w].pc \in {"catch", "idle"}
         /\ UNCHANGED <<rows, history, final, incoming, outgoing, due, toSend>>
         /\ \A s \in Slots : mgr'[s] \in {mgr[s], IdleSlot}
  <1> USE DEF tables, queues, faults
  <1>1. /\ TypeOK /\ Wired /\ TypeOK' /\ OnePlace(r)
        /\ \A w \in Workers : wrk[w].pc # "report"
    BY FaultTyping DEF IInv, Places
  <1>2. ASSUME \E s \in Slots : ManagerCrash(s)  PROVE FALSE
    <2>1. crashes \in Int /\ crashes' # crashes
      BY <1>1, <1>2, BoundAssumption DEF ManagerCrash, TypeOK
    <2> QED
      BY <2>1 DEF Repeats
  <1>3. ASSUME \E w \in Workers : WorkerCrash(w)  PROVE FALSE
    <2>1. crashes \in Int /\ crashes' # crashes
      BY <1>1, <1>3, BoundAssumption DEF WorkerCrash, TypeOK
    <2> QED
      BY <2>1 DEF Repeats
  <1>4. ASSUME NEW s \in Slots, ManagerError(s)
        PROVE  /\ UNCHANGED <<rows, history, final, incoming, outgoing, due, toSend, wrk>>
               /\ \A q \in Slots : mgr'[q] \in {mgr[q], IdleSlot}
    <2>1. mgr \in [Slots -> MgrSlot] /\ mgr' = [mgr EXCEPT ![s] = IdleSlot]
      BY <1>1, <1>4 DEF ManagerError, TypeOK
    <2>2. UNCHANGED <<rows, history, final, incoming, outgoing, due, toSend, wrk>>
      BY <1>4 DEF ManagerError
    <2> QED
      BY <2>1, <2>2
  <1>5. ASSUME NEW w \in Workers, WorkerError(w) \/ ErrorPathFails(w)
        PROVE  /\ UNCHANGED <<rows, history, final, incoming, outgoing, due, toSend, mgr>>
               /\ OtherWorkersKept(w) /\ wrk'[w].pc \in {"catch", "idle"}
    <2>1. UNCHANGED <<rows, history, final, incoming, outgoing, due, toSend, mgr>>
      BY <1>5 DEF WorkerError, ErrorPathFails
    <2>2. \/ wrk' = [wrk EXCEPT ![w].pc = "catch"]
          \/ wrk' = [wrk EXCEPT ![w] = IdleWorker]
      BY <1>5 DEF WorkerError, ErrorPathFails
    <2>3. OtherWorkersKept(w) /\ wrk'[w].pc \in {"catch", "idle"}
      BY <1>1, <2>2, PcEffect, WorkerDoneEffect DEF WrkStates
    <2> QED
      BY <2>1, <2>3
  <1>6. /\ UNCHANGED <<rows, history, final, incoming, outgoing, due, toSend>>
        /\ \A s \in Slots : mgr'[s] \in {mgr[s], IdleSlot}
        /\ \A w \in Workers : wrk'[w] = wrk[w] \/ wrk'[w].pc \in {"catch", "idle"}
    <2>1. CASE \E s \in Slots : ManagerError(s)
      BY <1>4, <2>1
    <2>2. CASE \E w \in Workers : WorkerError(w) \/ ErrorPathFails(w)
      <3>1. PICK w \in Workers : WorkerError(w) \/ ErrorPathFails(w)
        BY <2>2
      <3>2. UNCHANGED <<rows, history, final, incoming, outgoing, due, toSend, mgr>>
        BY <1>5, <3>1
      <3>3. OtherWorkersKept(w) /\ wrk'[w].pc \in {"catch", "idle"}
        BY <1>5, <3>1
      <3> QED
        BY <3>2, <3>3 DEF OtherWorkersKept
    <2> QED
      BY <1>2, <1>3, <2>1, <2>2 DEF Fault
  <1>7. \A s \in Slots : Handling(s, r)' => Handling(s, r)
    BY <1>6 DEF Handling, IdleSlot
  <1>8. \A w \in Workers : Producing(w, r)' => Producing(w, r)
    BY <1>6 DEF Producing
  <1>9. incoming'[r] <= incoming[r]
    BY <1>1, <1>6 DEF TypeOK
  <1>10. PlacedWell(r)
    BY <1>1, <1>6, <1>7, <1>8, <1>9, PlacesShrink DEF PlacedWell
  <1> QED
    BY <1>1, <1>6, <1>10

LEMMA StepPlacedWell ==
  ASSUME IInv, Places, Next, ~Repeats
  PROVE  /\ \A r \in RowIds : PlacedWell(r)
         /\ \A w \in Workers : wrk'[w].pc # "report"
  <1>1. CASE \E s \in Slots : ManagerStep(s)
    <2>1. UNCHANGED wrk
      BY <1>1, ManagerGrows DEF IInv
    <2> QED
      BY <1>1, <2>1, ManagerPlaces DEF Places
  <1>2. ASSUME NEW w \in Workers, WorkerStep(w)
        PROVE  /\ \A r \in RowIds : PlacedWell(r)
               /\ \A v \in Workers : wrk'[v].pc # "report"
    <2>1. ~RetryLater(w) /\ ~CarryOn(w)
      BY DEF Repeats
    <2>2. \A r \in RowIds : PlacedWell(r) /\ wrk'[w].pc # "report" /\ OtherWorkersKept(w)
      BY <1>2, <2>1, WorkerPlaces
    <2> QED
      BY <2>2, BoundAssumption DEF Places, OtherWorkersKept
  <1>3. CASE \E q \in RowIds : RowStep(q)
    <2>1. UNCHANGED wrk
      BY <1>3, RowStepGrows DEF IInv
    <2> QED
      BY <1>3, <2>1, RowPlaces DEF Places
  <1>4. CASE Fault
    BY <1>4, FaultPlaces, BoundAssumption
  <1> QED
    BY <1>1, <1>2, <1>3, <1>4 DEF Next

LEMMA StepDue ==
  ASSUME IInv, Places, Next, ~Repeats
  PROVE  DueIsUnfinished'
  <1> USE DEF tables, queues, faults
  <1> DEFINE Due(r) == Kind[rows[r].node] = "delay" /\ rows[r].state \in {"open", "cancelled"}
  <1>1. /\ TypeOK /\ Wired /\ due \subseteq Used
        /\ \A r \in Used : r \in RowIds /\ rows[r] \in Row
        /\ \A r \in due : Due(r)
    BY DEF IInv, Wired, TypeOK, Used, Places, DueIsUnfinished
  <1>2. ASSUME UNCHANGED <<rows, due>>  PROVE DueIsUnfinished'
    BY <1>1, <1>2 DEF DueIsUnfinished
  <1>3. ASSUME NEW s \in Slots, ManagerStep(s)  PROVE DueIsUnfinished'
    <2>1. CASE CancelTasks(s) \/ CancelEvents(s)
      <3>1. PICK kinds : rows' = Cancelled(kinds) /\ UNCHANGED due
        BY <2>1 DEF CancelTasks, CancelEvents, CancelAllInProgress
      <3>2. ASSUME NEW r \in due  PROVE Due(r)'
        BY <1>1, <3>1 DEF Cancelled, Row
      <3> QED
        BY <3>1, <3>2 DEF DueIsUnfinished
    <2>2. CASE ~(CancelTasks(s) \/ CancelEvents(s))
      <3>1. UNCHANGED <<rows, due>>
        BY <1>3, <2>2 DEF ManagerStep, Receive, PushIn, Skip, PushOut, BeginFinish, SendOut,
                          SetStatusFinal, AckIn
      <3> QED
        BY <1>2, <3>1
    <2> QED
      BY <2>1, <2>2
  <1>4. ASSUME NEW w \in Workers, WorkerStep(w)  PROVE DueIsUnfinished'
    <2>1. UNCHANGED due
      BY <1>4 DEF WorkerStep, Take, CreateGateway, CreateEvent, CreateTask, FillTask,
                  AutoCommitRefused, Produce, AckOut, RetryLater, CarryOn, GiveUp
    <2>2. CASE FillTask(w)
      <3>1. ASSUME NEW r \in due  PROVE Due(r)'
        BY <1>1, <2>2 DEF FillTask, Opened, TypeOK, Row
      <3> QED
        BY <2>1, <3>1 DEF DueIsUnfinished
    <2>3. ASSUME NEW v, rows' = [rows EXCEPT ![NextRow] = v], Free # {}
          PROVE  DueIsUnfinished'
      <3>1. \A r \in due : rows'[r] = rows[r]
        BY <1>1, <2>3, NextRowIsFree DEF TypeOK
      <3> QED
        BY <1>1, <2>1, <3>1 DEF DueIsUnfinished
    <2>4. CASE CreateGateway(w) \/ CreateEvent(w) \/ CreateTask(w)
      BY <2>3, <2>4 DEF CreateGateway, CreateEvent, CreateTask, Insert
    <2>5. CASE \/ \E n \in Nodes : Take(w, n)
               \/ AutoCommitRefused(w) \/ Produce(w) \/ AckOut(w) \/ GiveUp(w)
      <3>1. UNCHANGED rows
        BY <2>5 DEF Take, AutoCommitRefused, Produce, AckOut, GiveUp
      <3> QED
        BY <1>2, <2>1, <3>1
    <2> QED
      BY <1>4, <2>2, <2>4, <2>5 DEF WorkerStep, Repeats
  <1>5. ASSUME NEW r \in RowIds, RowStep(r)  PROVE DueIsUnfinished'
    <2>1. CASE DaemonPick(r)
      BY <1>1, <2>1 DEF DaemonPick, DueIsUnfinished
    <2>2. CASE SendCompletion(r)
      BY <1>2, <2>2 DEF SendCompletion
    <2>3. CASE Commit(r) \/ DaemonSetDone(r)
      <3>1. /\ rows' = [rows EXCEPT ![r].state = "finished"] /\ due' \subseteq due
            /\ r \notin due'
        BY <1>1, <2>3 DEF Commit, DaemonSetDone, TaskKinds
      <3>2. \A q \in due' : rows'[q] = rows[q]
        BY <1>1, <3>1 DEF TypeOK
      <3> QED
        BY <1>1, <3>1, <3>2 DEF DueIsUnfinished
    <2> QED
      BY <1>5, <2>1, <2>2, <2>3 DEF RowStep
  <1>6. CASE Fault
    <2>1. UNCHANGED <<rows, due>>
      BY <1>6 DEF Fault, ManagerError, ManagerCrash, WorkerError, ErrorPathFails, WorkerCrash
    <2> QED
      BY <1>2, <2>1
  <1> QED
    BY <1>3, <1>4, <1>5, <1>6 DEF Next

-------------------------------------------------------------------------------
(***************************************************************************)
(* What a step of handler s does to what it has in hand.                   *)
(***************************************************************************)
Receives(s) ==
  \E r \in RowIds :
    /\ Receive(s, r)
    /\ mgr'[s].pc = "push" /\ mgr'[s].row = r /\ mgr'[s].todo = Sequences(rows[r])

Records(s) ==
  /\ PushIn(s) /\ mgr'[s].pc = "loop" /\ mgr'[s].row = mgr[s].row
  /\ mgr'[s].todo \subseteq mgr[s].todo /\ mgr'[s].seen = history'

Follows(s) ==
  \E f \in mgr[s].todo :
    /\ PushOut(s, f) /\ mgr'[s].pc = "send" /\ mgr'[s].row = mgr[s].row
    /\ mgr'[s].todo = Rest(s, f) /\ mgr'[s].seen = history
    /\ mgr'[s].next = Goal(f, mgr[s].seen)

\* It takes nothing up: what it has left goes on as before.
Quiet(s) ==
  /\ mgr'[s].pc # "push" /\ mgr'[s].todo \subseteq mgr[s].todo
  /\ UNCHANGED <<history, incoming>>
  /\ \/ mgr'[s].todo = {}
     \/ /\ mgr[s].pc \in {"loop", "send"} /\ mgr'[s].pc \in {"loop", "send"}
        /\ mgr'[s].row = mgr[s].row /\ mgr'[s].seen = mgr[s].seen

LEMMA PushOutFollows ==
  ASSUME TypeOK, NEW s \in Slots, NEW f \in Flows, PushOut(s, f)
  PROVE  Follows(s)
  <1>1. f \in mgr[s].todo /\ mgr'[s].todo = Rest(s, f)
    BY SlotTyped DEF PushOut, TypeOK, MgrSlot
  <1> QED
    BY <1>1, PushOutEffect DEF Follows, Held

LEMMA ManagerCases ==
  ASSUME IInv, Places, NEW s \in Slots, ManagerStep(s)
  PROVE  Receives(s) \/ Records(s) \/ Follows(s) \/ Quiet(s)
  <1> USE DEF tables, queues, faults
  <1>1. /\ TypeOK /\ Wired /\ mgr[s] \in MgrSlot
        /\ mgr[s].pc = "cancel" => mgr[s].todo = {}
    BY SlotTyped DEF IInv, Places, TodoFromRow
  <1>2. ASSUME NEW r \in RowIds, Receive(s, r)  PROVE Receives(s)
    BY <1>1, <1>2, ReceiveEffect DEF Receives
  <1>3. CASE PushIn(s)
    <2>1. history' = Returned(s)
      BY <1>3 DEF PushIn, Returned
    <2> QED
      BY <1>1, <1>3, <2>1, PushInEffect DEF Records
  <1>4. ASSUME NEW f \in Flows, Skip(s, f)  PROVE Quiet(s)
    BY <1>1, <1>4, SkipEffect DEF Quiet, Skip
  <1>5. ASSUME NEW f \in Flows, PushOut(s, f)  PROVE Follows(s)
    BY <1>1, <1>5, PushOutFollows
  <1>6. ASSUME NEW f \in Flows, BeginFinish(s, f)  PROVE Quiet(s)
    BY <1>1, <1>6, BeginFinishEffect DEF Quiet, BeginFinish
  <1>7. CASE SendOut(s)
    BY <1>1, <1>7, SendOutEffect DEF Quiet, SendOut
  <1>8. CASE CancelTasks(s) \/ CancelEvents(s)
    BY <1>1, <1>8, CancelEffect DEF Quiet, CancelTasks, CancelEvents, CancelAllInProgress
  <1>9. CASE SetStatusFinal(s)
    BY <1>1, <1>9, SetStatusFinalEffect DEF Quiet, SetStatusFinal
  <1>10. CASE AckIn(s)
    BY <1>1, <1>10, DoneEffect DEF Quiet, AckIn
  <1> QED
    BY <1>2, <1>3, <1>4, <1>5, <1>6, <1>7, <1>8, <1>9, <1>10 DEF ManagerStep

\* What a handler has left comes from its row.
TodoOf(s) ==
  /\ mgr[s].pc # "idle" => mgr[s].todo \subseteq Sequences(rows[mgr[s].row])
  /\ mgr[s].pc = "cancel" => mgr[s].todo = {}

LEMMA HandledIsFinished ==
  ASSUME Wired, Places, NEW s \in Slots, mgr[s].pc # "idle"
  PROVE  mgr[s].row \in RowIds /\ Finished(mgr[s].row)
  BY PlacedIsFinished DEF Wired, Used, Placed, Handling

LEMMA TodoKept ==
  ASSUME Wired, Places, FinishedStays, NEW s \in Slots,
         mgr'[s].pc # "idle" => /\ mgr'[s].row = mgr[s].row /\ mgr[s].pc # "idle"
                               /\ mgr'[s].todo \subseteq mgr[s].todo,
         mgr'[s].pc = "cancel" => mgr'[s].todo = {}
  PROVE  TodoOf(s)'
  <1>1. ASSUME mgr'[s].pc # "idle"  PROVE mgr'[s].todo \subseteq Sequences(rows'[mgr'[s].row])
    <2>1. PICK r \in RowIds : r = mgr[s].row /\ Finished(r)
      BY <1>1, HandledIsFinished
    <2>2. mgr[s].todo \subseteq Sequences(rows[r])
      BY <1>1, <2>1 DEF Places, TodoFromRow
    <2> QED
      BY <1>1, <2>1, <2>2 DEF FinishedStays
  <1> QED
    BY <1>1 DEF TodoOf, Sequences

LEMMA StepTodo ==
  ASSUME IInv, Places, Next, ~Repeats
  PROVE  TodoFromRow'
  <1>1. TypeOK /\ Wired /\ FinishedStays
    BY StepFinishedStays DEF IInv
  <1>2. ASSUME NEW s \in Slots, mgr'[s] = mgr[s]  PROVE TodoOf(s)'
    BY <1>1, <1>2, TodoKept DEF Places, TodoFromRow
  <1>3. ASSUME NEW s \in Slots, ManagerStep(s)  PROVE TodoFromRow'
    <2>1. OthersKept(s) /\ FinishedStays
      BY <1>1, <1>3, ManagerOthersKept
    <2>2. ASSUME Receives(s)  PROVE TodoOf(s)'
      <3>1. PICK r \in RowIds : /\ Receive(s, r) /\ mgr'[s].pc = "push" /\ mgr'[s].row = r
                                /\ mgr'[s].todo = Sequences(rows[r])
        BY <2>2 DEF Receives
      <3>2. rows' = rows
        BY <3>1 DEF Receive, tables
      <3> QED
        BY <3>1, <3>2 DEF TodoOf, Sequences
    <2>3. ASSUME Records(s) \/ Follows(s)  PROVE TodoOf(s)'
      BY <1>1, <2>3, TodoKept DEF Records, Follows, PushIn, PushOut, Rest
    <2>4. ASSUME Quiet(s)  PROVE TodoOf(s)'
      <3>1. CASE mgr'[s].todo = {}
        BY <3>1 DEF TodoOf
      <3>2. CASE mgr'[s].todo # {}
        BY <1>1, <2>4, <3>2, TodoKept DEF Quiet
      <3> QED
        BY <3>1, <3>2
    <2>5. TodoOf(s)'
      BY <1>3, <2>2, <2>3, <2>4, ManagerCases
    <2>6. \A q \in Slots : TodoOf(q)'
      BY <1>2, <2>1, <2>5 DEF OthersKept
    <2> QED
      BY <2>6 DEF TodoOf, TodoFromRow
  <1>4. ASSUME UNCHANGED mgr  PROVE TodoFromRow'
    BY <1>2, <1>4 DEF TodoOf, TodoFromRow
  <1>5. CASE \E w \in Workers : WorkerStep(w)
    BY <1>1, <1>4, <1>5, WorkerGrows
  <1>6. CASE \E r \in RowIds : RowStep(r)
    BY <1>1, <1>4, <1>6, RowStepGrows
  <1>7. CASE Fault
    <2>1. \A s \in Slots : mgr'[s] \in {mgr[s], IdleSlot}
      BY <1>7, FaultPlaces, BoundAssumption
    <2>2. ASSUME NEW s \in Slots, mgr'[s] = IdleSlot  PROVE TodoOf(s)'
      BY <2>2 DEF TodoOf, IdleSlot
    <2> QED
      BY <1>2, <2>1, <2>2 DEF TodoOf, TodoFromRow
  <1> QED
    BY <1>3, <1>5, <1>6, <1>7 DEF Next

LEMMA StepTaken ==
  ASSUME IInv, Places, Next, ~Repeats
  PROVE  TakenWhenFinished'
  <1> USE DEF tables, queues, faults
  <1> DEFINE Source(f) == \E r \in RowIds : Finished(r) /\ f \in Sequences(rows[r])
  <1>1. TypeOK /\ Wired /\ FinishedStays
    BY StepFinishedStays DEF IInv
  <1>2. ASSUME NEW f, NEW r \in RowIds, Finished(r), f \in Sequences(rows[r])
        PROVE  Source(f)'
    BY <1>1, <1>2 DEF FinishedStays, Sequences
  <1>3. ASSUME NEW f \in history  PROVE Source(f)'
    <2>1. PICK r \in RowIds : Finished(r) /\ f \in Sequences(rows[r])
      BY DEF Places, TakenWhenFinished
    <2> QED
      BY <1>2, <2>1
  <1>4. ASSUME NEW s \in Slots, PushIn(s), NEW f \in mgr[s].todo  PROVE Source(f)'
    <2>1. PICK r \in RowIds : r = mgr[s].row /\ Finished(r)
      BY <1>1, <1>4, HandledIsFinished DEF PushIn
    <2>2. f \in Sequences(rows[r])
      BY <1>4, <2>1 DEF PushIn, Places, TodoFromRow
    <2> QED
      BY <1>2, <2>1, <2>2
  <1>5. \/ UNCHANGED history
        \/ \E s \in Slots : PushIn(s) /\ history' = history \cup mgr[s].todo
    BY DEF Next, ManagerStep, Receive, PushIn, Skip, PushOut, BeginFinish, SendOut,
           CancelTasks, CancelEvents, CancelAllInProgress, SetStatusFinal, AckIn,
           WorkerStep, Take, CreateGateway, CreateEvent, CreateTask, FillTask,
           AutoCommitRefused, Produce, AckOut, RetryLater, CarryOn, GiveUp,
           RowStep, Commit, DaemonPick, DaemonSetDone, SendCompletion,
           Fault, ManagerError, ManagerCrash, WorkerError, ErrorPathFails, WorkerCrash
  <1>6. \A f \in history' : Source(f)'
    BY <1>3, <1>4, <1>5
  <1> QED
    BY <1>6 DEF TakenWhenFinished

LEMMA PlacesStep ==
  ASSUME IInv, Places, Next, ~Repeats
  PROVE  Places'
  <1>1. \A r \in RowIds : OnePlace(r)'
    BY StepPlacedWell DEF PlacedWell
  <1>2. ReportedIsFinished'
    <2>1. \A r \in RowIds : Placed(r)' => Finished(r)'
      BY StepPlacedWell, StepFinishedStays, PlacedIsFinished DEF PlacedWell, FinishedStays
    <2> QED
      BY <2>1 DEF ReportedIsFinished
  <1> QED
    BY <1>1, <1>2, StepPlacedWell, StepDue, StepTodo, StepTaken DEF Places

LEMMA InitPlaces ==
  ASSUME Init
  PROVE  Places
  <1>1. /\ \A r \in RowIds : incoming[r] = 0
        /\ \A s \in Slots : mgr[s].pc = "idle"
        /\ \A w \in Workers : wrk[w].pc = "idle"
        /\ toSend = {} /\ due = {} /\ history = {}
    BY DEF Init, IdleSlot, IdleWorker
  <1>2. \A r \in RowIds : OnePlace(r) /\ ~Placed(r)
    BY <1>1 DEF OnePlace, Placed, Handling, Producing
  <1> QED
    BY <1>1, <1>2 DEF Places, ReportedIsFinished, DueIsUnfinished, TodoFromRow,
                      TakenWhenFinished
-------------------------------------------------------------------------------
(***************************************************************************)
(* What is not recorded, and what is in hand, comes only from rows that    *)
(* had not finished.                                                       *)
(***************************************************************************)

LEMMA BeforeKept ==
  ASSUME NEW r \in RowIds, Before(r)', incoming'[r] > 0 => Before(r),
         r \in toSend' => Before(r),
         \A w \in Workers : Producing(w, r)' => Before(r),
         \A s \in Slots : mgr'[s].pc = "push" /\ mgr'[s].row = r => Before(r)
  PROVE  Before(r)
  BY DEF Before

\* The worker that saves row r as finished, or finishes it, is the first to have it.
LEMMA WorkerBefore ==
  ASSUME IInv, Places, NEW w \in Workers, WorkerStep(w), ~RetryLater(w), ~CarryOn(w),
         NEW r \in RowIds, Finished(r)
  PROVE  /\ Producing(w, r)' => Producing(w, r)
         /\ incoming'[r] > 0 => incoming[r] > 0 \/ Producing(w, r)
         /\ UNCHANGED toSend /\ OtherWorkersKept(w)
  <1> USE DEF tables, queues, faults
  <1>1. TypeOK /\ Wired /\ OtherWorkersKept(w) /\ wrk[w].pc # "report"
    BY WorkerPlaces DEF IInv, Places
  <1>2. UNCHANGED toSend
    BY <1>1 DEF WorkerStep, Take, CreateGateway, CreateEvent, CreateTask, FillTask,
                AutoCommitRefused, Produce, AckOut, GiveUp
  <1>3. incoming'[r] > 0 => incoming[r] > 0 \/ Producing(w, r)
    <2>1. CASE Produce(w)
      BY <1>1, <2>1 DEF Produce, Deliver, TypeOK, Producing
    <2>2. CASE ~Produce(w)
      BY <2>2 DEF WorkerStep, Take, CreateGateway, CreateEvent, CreateTask, FillTask,
                  AutoCommitRefused, AckOut, GiveUp
    <2> QED
      BY <2>1, <2>2
  <1>4. ASSUME Producing(w, r)'  PROVE Producing(w, r)
    <2>1. ASSUME NEW pc, Free # {},
                 wrk' = [wrk EXCEPT ![w] = [@ EXCEPT !.pc = pc, !.row = NextRow]]
          PROVE  FALSE
      <3>1. wrk[w] \in WrkSlot /\ wrk \in [Workers -> WrkSlot]
        BY <1>1 DEF TypeOK
      <3>2. wrk'[w].row = NextRow
        BY <2>1, <3>1 DEF WrkSlot
      <3> QED
        BY <1>4, <2>1, <3>2, NextRowIsFree DEF Producing, Finished
    <2>2. CASE CreateGateway(w) \/ CreateEvent(w) \/ CreateTask(w)
      BY <2>1, <2>2 DEF CreateGateway, CreateEvent, CreateTask
    <2>3. CASE FillTask(w)
      <3>1. wrk[w] \in WrkSlot /\ wrk \in [Workers -> WrkSlot]
        BY <1>1 DEF TypeOK
      <3>2. wrk'[w].pc = "produce" => rows[wrk[w].row].state = "draft"
        BY <2>3, <3>1 DEF FillTask, WrkSlot
      <3>3. wrk'[w].row = wrk[w].row
        BY <1>1, <2>3, FillEffect
      <3> QED
        BY <1>4, <3>2, <3>3 DEF Producing, Finished
    <2>4. ASSUME NEW n \in Nodes, Take(w, n)  PROVE FALSE
      BY <1>1, <1>4, <2>4, TakeEffect DEF Producing
    <2>5. CASE Produce(w) \/ AutoCommitRefused(w)
      BY <1>1, <1>4, <2>5, PcEffect DEF Produce, AutoCommitRefused, WrkStates, Producing
    <2>6. CASE AckOut(w) \/ GiveUp(w)
      BY <1>1, <1>4, <2>6, WorkerDoneEffect DEF AckOut, GiveUp, Producing
    <2> QED
      BY <2>2, <2>3, <2>4, <2>5, <2>6 DEF WorkerStep
  <1> QED
    BY <1>1, <1>2, <1>3, <1>4

LEMMA BeforeShrinks ==
  ASSUME IInv, Places, Next, ~Repeats, NEW r \in RowIds, Finished(r), Before(r)'
  PROVE  Before(r)
  <1> USE DEF tables, queues, faults
  <1>1. TypeOK /\ Wired
    BY DEF IInv
  <1>2. ASSUME NEW s \in Slots, ManagerStep(s)  PROVE Before(r)
    <2>1. UNCHANGED <<wrk, toSend>> /\ OthersKept(s)
      BY <1>1, <1>2, ManagerOthersKept
      DEF ManagerStep, Receive, PushIn, Skip, PushOut, BeginFinish, SendOut,
          CancelTasks, CancelEvents, CancelAllInProgress, SetStatusFinal, AckIn
    <2>2. ASSUME mgr'[s].pc = "push", mgr'[s].row = r  PROVE Before(r)
      <3>1. Receives(s)
        BY <1>2, <2>2, ManagerCases DEF Records, Follows, Quiet
      <3> QED
        BY <2>2, <3>1 DEF Receives, Receive, Before
    <2>3. incoming'[r] > 0 => incoming[r] > 0
      <3>1. ASSUME NEW q \in RowIds, Receive(s, q)  PROVE incoming'[r] > 0 => incoming[r] > 0
        BY <1>1, <3>1, RemoveTyped DEF Receive, TypeOK
      <3>2. CASE \A q \in RowIds : ~Receive(s, q)
        BY <1>2, <3>2 DEF ManagerStep, PushIn, Skip, PushOut, BeginFinish, SendOut,
               CancelTasks, CancelEvents, CancelAllInProgress, SetStatusFinal, AckIn
      <3> QED
        BY <3>1, <3>2
    <2> QED
      BY <2>1, <2>2, <2>3 DEF Before, OthersKept, Producing
  <1>3. ASSUME NEW w \in Workers, WorkerStep(w)  PROVE Before(r)
    <2>1. UNCHANGED mgr /\ ~RetryLater(w) /\ ~CarryOn(w)
      BY <1>1, <1>3, WorkerGrows DEF Repeats
    <2> QED
      BY <1>3, <2>1, WorkerBefore DEF Before, OtherWorkersKept, Producing
  <1>4. ASSUME NEW q \in RowIds, RowStep(q)  PROVE Before(r)
    <2>1. UNCHANGED <<mgr, wrk>>
      BY <1>1, <1>4, RowStepGrows
    <2>2. CASE DaemonPick(q)
      BY <2>1, <2>2 DEF DaemonPick, Before, Producing
    <2>3. CASE Commit(q) \/ DaemonSetDone(q)
      <3>1. q # r /\ UNCHANGED incoming /\ toSend' = toSend \cup {q}
        BY <2>3 DEF Commit, DaemonSetDone, Places, DueIsUnfinished, Finished
      <3> QED
        BY <2>1, <3>1 DEF Before, Producing
    <2>4. CASE SendCompletion(q)
      BY <1>1, <2>1, <2>4 DEF SendCompletion, Deliver, Before, Producing, TypeOK
    <2> QED
      BY <1>4, <2>2, <2>3, <2>4 DEF RowStep
  <1>5. CASE Fault
    <2>1. /\ UNCHANGED <<incoming, toSend>>
          /\ \A w \in Workers : /\ wrk'[w].pc # "report"
                                /\ wrk'[w] = wrk[w] \/ wrk'[w].pc \in {"catch", "idle"}
          /\ \A s \in Slots : mgr'[s] \in {mgr[s], IdleSlot}
      BY <1>5, FaultPlaces
    <2>2. \A w \in Workers : Producing(w, r)' => Producing(w, r)
      BY <2>1 DEF Producing
    <2> QED
      BY <2>1, <2>2 DEF Before, IdleSlot
  <1> QED
    BY <1>2, <1>3, <1>4, <1>5 DEF Next

LEMMA PendingShrinks ==
  ASSUME IInv, Places, Next, ~Repeats, NEW r \in RowIds, Finished(r), NEW f, Pending(r, f)'
  PROVE  Pending(r, f)
  <1>1. TypeOK /\ Wired
    BY DEF IInv
  <1>2. CASE Before(r)'
    BY <1>2, BeforeShrinks DEF Pending
  <1>3. ASSUME NEW s \in Slots, InHand(s, r, f)'  PROVE Pending(r, f)
    <2>1. CASE mgr'[s] = mgr[s]
      BY <1>3, <2>1 DEF InHand, Pending
    <2>2. CASE ManagerStep(s)
      <3>1. ~Receives(s)
        BY <1>3 DEF Receives, InHand
      <3>2. CASE Records(s)
        BY <1>3, <3>2 DEF Records, InHand, PushIn, Pending, Before
      <3>3. CASE Follows(s)
        BY <1>3, <3>3 DEF Follows, InHand, PushOut, Pending, Rest
      <3>4. CASE Quiet(s)
        BY <1>3, <3>4 DEF Quiet, InHand, Pending
      <3> QED
        BY <2>2, <3>1, <3>2, <3>3, <3>4, ManagerCases
    <2>3. ASSUME NEW q \in Slots, ManagerStep(q), q # s  PROVE mgr'[s] = mgr[s]
      BY <1>1, <2>3, ManagerOthersKept DEF OthersKept
    <2>4. CASE \/ \E w \in Workers : WorkerStep(w)
               \/ \E q \in RowIds : RowStep(q)
      BY <1>1, <2>1, <2>4, WorkerGrows, RowStepGrows
    <2>5. CASE Fault
      <3>1. mgr'[s] \in {mgr[s], IdleSlot}
        BY <2>5, FaultPlaces
      <3> QED
        BY <1>3, <2>1, <3>1 DEF InHand, IdleSlot
    <2> QED
      BY <2>1, <2>2, <2>3, <2>4, <2>5 DEF Next
  <1> QED
    BY <1>2, <1>3 DEF Pending

-------------------------------------------------------------------------------
(***************************************************************************)
(* Joins: the completion that opens a join is one.                         *)
(***************************************************************************)

\* A row that leads into a join leads nowhere else.
LEMMA LeadsIntoOneJoin ==
  ASSUME JoinsFedSingly, TypeOK, ChosenAllowed, NEW r \in RowIds, Finished(r),
         NEW j \in Joins, NEW f \in Incoming[j], f \in Sequences(rows[r])
  PROVE  Sequences(rows[r]) = {f}
  <1>1. r \in Used /\ rows[r].node \in Nodes
    BY DEF Finished, TypeOK, Used, Row
  <1> DEFINE n == rows[r].node
  <1>2. CASE Kind[n] \notin GatewayKinds
    BY <1>2 DEF Sequences
  <1>3. CASE Kind[n] = "exclusive"
    <2>1. rows[r].result \in {{g} : g \in Out[n]} /\ Sequences(rows[r]) = rows[r].result
      BY <1>1, <1>3 DEF ChosenAllowed, Outcomes, GatewayKinds, Sequences
    <2> QED
      BY <2>1
  <1>4. CASE Kind[n] = "parallel"
    <2>1. rows[r].result = Out[n] /\ Sequences(rows[r]) = rows[r].result
      BY <1>1, <1>4 DEF ChosenAllowed, Outcomes, GatewayKinds, Sequences
    <2> QED
      BY <1>1, <1>4, <2>1 DEF JoinsFedSingly
  <1> QED
    BY <1>2, <1>3, <1>4 DEF GatewayKinds

\* What a handler has left leads into a join only if it is one flow.
LEMMA OneLeft ==
  ASSUME JoinsFedSingly, IInv, Places, NEW s \in Slots, mgr[s].pc # "idle",
         NEW j \in Joins, NEW f \in Incoming[j], f \in mgr[s].todo
  PROVE  mgr[s].todo = {f}
  <1>1. PICK r \in RowIds : r = mgr[s].row /\ Finished(r)
    BY HandledIsFinished DEF IInv
  <1>2. mgr[s].todo \subseteq Sequences(rows[r])
    BY <1>1 DEF Places, TodoFromRow
  <1>3. Sequences(rows[r]) = {f}
    BY <1>1, <1>2, LeadsIntoOneJoin DEF IInv, Safe
  <1> QED
    BY <1>2, <1>3

\* A handler comes to find join j done only by recording its last flow.
LEMMA HotComes ==
  ASSUME JoinsFedSingly, IInv, Places, RecordedIsPast, Next, ~Repeats,
         NEW s \in Slots, NEW j \in Joins, Hot(s, j)'
  PROVE  \/ Hot(s, j) /\ (mgr'[s] = mgr[s] \/ Quiet(s))
         \/ /\ \A q \in Slots : q # s => mgr'[q] = mgr[q]
            /\ ~(Incoming[j] \subseteq history)
  <1>1. TypeOK /\ Wired
    BY DEF IInv
  <1>2. CASE mgr'[s] = mgr[s]
    BY <1>2 DEF Hot
  <1>3. CASE ManagerStep(s)
    <2>1. ~Receives(s)
      BY DEF Receives, Hot
    <2>2. CASE Records(s)
      <3>1. PICK f \in Incoming[j] : f \in mgr[s].todo /\ mgr[s].pc = "push"
        BY <2>2 DEF Hot, Records, PushIn
      <3>2. PICK r \in RowIds : r = mgr[s].row /\ Finished(r)
        BY <1>1, <3>1, HandledIsFinished
      <3>3. f \in Sequences(rows[r])
        BY <3>1, <3>2 DEF Places, TodoFromRow
      <3>4. Carries(r, f) /\ Before(r)
        BY <3>1, <3>2, <3>3 DEF Carries, Settled, Finished, Before
      <3>5. f \notin history
        BY <3>4 DEF RecordedIsPast
      <3> QED
        BY <1>1, <1>3, <3>5, ManagerOthersKept DEF OthersKept
    <2>3. ~Follows(s)
      <3>1. ASSUME Follows(s)  PROVE FALSE
        <4>1. PICK f \in mgr[s].todo : mgr'[s].todo = Rest(s, f) /\ mgr[s].pc # "idle"
          BY <3>1 DEF Follows, PushOut
        <4>2. PICK g \in Incoming[j] : g \in Rest(s, f)
          BY <4>1 DEF Hot
        <4>3. mgr[s].todo = {g}
          BY <4>1, <4>2, OneLeft DEF Rest
        <4> QED
          BY <4>1, <4>2, <4>3 DEF Rest
      <3> QED
        BY <3>1
    <2>4. CASE Quiet(s)
      BY <2>4 DEF Quiet, Hot
    <2> QED
      BY <1>3, <2>1, <2>2, <2>3, <2>4, ManagerCases
  <1>4. ASSUME NEW q \in Slots, ManagerStep(q), q # s  PROVE mgr'[s] = mgr[s]
    BY <1>1, <1>4, ManagerOthersKept DEF OthersKept
  <1>5. CASE \/ \E w \in Workers : WorkerStep(w)
             \/ \E q \in RowIds : RowStep(q)
    BY <1>1, <1>2, <1>5, WorkerGrows, RowStepGrows
  <1>6. CASE Fault
    <2>1. mgr'[s] \in {mgr[s], IdleSlot}
      BY <1>6, FaultPlaces, BoundAssumption
    <2> QED
      BY <1>2, <2>1 DEF Hot, IdleSlot
  <1> QED
    BY <1>2, <1>3, <1>4, <1>5, <1>6 DEF Next

LEMMA StepGrows ==
  ASSUME IInv, Next
  PROVE  RowsGrow
  <1>1. TypeOK /\ Wired
    BY DEF IInv
  <1>2. CASE Fault
    <2>1. UNCHANGED rows
      BY <1>2 DEF Fault, ManagerError, ManagerCrash, WorkerError, ErrorPathFails, WorkerCrash,
                  tables
    <2> QED
      BY <1>1, <2>1, RowsKept
  <1> QED
    BY <1>1, <1>2, ManagerGrows, WorkerGrows, RowStepGrows DEF Next

\* A flow that has come to its join once had not come to it more often before.
LEMMA OnceAtJoinsBefore ==
  ASSUME IInv, Next, OnceAtJoins'
  PROVE  OnceAtJoins
  <1>1. TypeOK /\ RowsGrow
    BY StepGrows DEF IInv
  <1>2. ASSUME NEW r \in RowIds, NEW f, Carries(r, f)  PROVE Carries(r, f)'
    BY <1>1, <1>2, CarriesGrows DEF Carries, Settled
  <1> QED
    BY <1>2 DEF OnceAtJoins

LEMMA HistoryStep ==
  ASSUME Next
  PROVE  \/ UNCHANGED history
         \/ \E s \in Slots : PushIn(s) /\ ManagerStep(s) /\ history' = history \cup mgr[s].todo
  <1> USE DEF tables, queues, faults
  <1>1. ASSUME NEW s \in Slots, ManagerStep(s)
        PROVE  \/ UNCHANGED history
               \/ PushIn(s) /\ history' = history \cup mgr[s].todo
    <2>1. CASE PushIn(s)
      BY <2>1 DEF PushIn
    <2>2. ASSUME ~PushIn(s)  PROVE UNCHANGED history
      BY <1>1, <2>2 DEF ManagerStep, Receive, Skip, PushOut, BeginFinish, SendOut,
             CancelTasks, CancelEvents, CancelAllInProgress, SetStatusFinal, AckIn
    <2> QED
      BY <2>1, <2>2
  <1>2. ASSUME NEW w \in Workers, WorkerStep(w)  PROVE UNCHANGED history
    BY <1>2 DEF WorkerStep, Take, CreateGateway, CreateEvent, CreateTask, FillTask,
           AutoCommitRefused, Produce, AckOut, RetryLater, CarryOn, GiveUp
  <1>3. ASSUME NEW r \in RowIds, RowStep(r)  PROVE UNCHANGED history
    BY <1>3 DEF RowStep, Commit, DaemonPick, DaemonSetDone, SendCompletion
  <1>4. ASSUME Fault  PROVE UNCHANGED history
    BY <1>4 DEF Fault, ManagerError, ManagerCrash, WorkerError, ErrorPathFails, WorkerCrash
  <1> QED
    BY <1>1, <1>2, <1>3, <1>4 DEF Next

LEMMA RecordedIsPastStep ==
  ASSUME IInv, Places, RecordedIsPast, Next, ~Repeats, OnceAtJoins'
  PROVE  RecordedIsPast'
  <1>1. TypeOK /\ Wired /\ FinishedStays
    BY StepFinishedStays DEF IInv
  <1> SUFFICES ASSUME NEW j \in Joins, NEW f \in Incoming[j], f \in history',
                      NEW r \in RowIds, Carries(r, f)', Before(r)'
               PROVE  FALSE
    BY DEF RecordedIsPast
  <1>2. ASSUME NEW q \in RowIds, Finished(q), f \in Sequences(rows[q])  PROVE q = r
    <2>1. Carries(q, f)'
      BY <1>1, <1>2 DEF FinishedStays, Carries, Settled, Finished, Sequences
    <2> QED
      BY <2>1 DEF OnceAtJoins
  <1>3. CASE f \in history
    <2>1. PICK q \in RowIds : Finished(q) /\ f \in Sequences(rows[q])
      BY <1>3 DEF Places, TakenWhenFinished
    <2>2. Finished(r) /\ Carries(r, f)
      BY <1>2, <2>1 DEF Carries, Settled, Finished
    <2>3. Before(r)
      BY <2>2, BeforeShrinks
    <2> QED
      BY <1>3, <2>2, <2>3 DEF RecordedIsPast
  <1>4. CASE f \notin history
    <2>1. PICK s \in Slots : PushIn(s) /\ ManagerStep(s) /\ f \in mgr[s].todo
      BY <1>4, HistoryStep
    <2>2. PICK q \in RowIds : q = mgr[s].row /\ Finished(q)
      BY <1>1, <2>1, HandledIsFinished DEF PushIn
    <2>3. f \in Sequences(rows[q])
      BY <2>1, <2>2 DEF PushIn, Places, TodoFromRow
    <2>4. mgr'[s].pc = "loop" /\ mgr'[s].row = r
      BY <1>1, <1>2, <2>1, <2>2, <2>3, PushInEffect
    <2>5. Handling(s, r)' /\ OnePlace(r)'
      BY <2>4, StepPlacedWell DEF Handling, PlacedWell
    <2>6. incoming'[r] = 0 /\ r \notin toSend' /\ \A w \in Workers : ~Producing(w, r)'
      BY <2>5 DEF OnePlace
    <2>7. ASSUME NEW z \in Slots, mgr'[z].pc = "push", mgr'[z].row = r  PROVE FALSE
      <3>1. Handling(z, r)'
        BY <2>7 DEF Handling
      <3> QED
        BY <2>4, <2>5, <2>7, <3>1 DEF OnePlace
    <2> QED
      BY <2>6, <2>7 DEF Before
  <1> QED
    BY <1>3, <1>4

LEMMA OneHotStep ==
  ASSUME JoinsFedSingly, IInv, Places, AtJoins, Next, ~Repeats
  PROVE  OneHot'
  <1> SUFFICES ASSUME NEW j \in Joins, NEW s \in Slots, NEW q \in Slots,
                      Hot(s, j)', Hot(q, j)', s # q
               PROVE  FALSE
    BY DEF OneHot
  <1>1. ASSUME NEW a \in Slots, Hot(a, j)  PROVE Incoming[j] \subseteq history
    BY <1>1 DEF Hot, IInv, Safe, ManagerKnows, Knows
  <1>2. ASSUME NEW a \in Slots, NEW b \in Slots, a # b, Hot(a, j)', Hot(b, j)', ~Hot(a, j)
        PROVE  FALSE
    <2>1. mgr'[b] = mgr[b] /\ ~(Incoming[j] \subseteq history)
      BY <1>2, HotComes DEF AtJoins
    <2>2. Hot(b, j)
      BY <1>2, <2>1 DEF Hot
    <2> QED
      BY <1>1, <2>1, <2>2
  <1>3. Hot(s, j) /\ Hot(q, j)
    BY <1>2
  <1> QED
    BY <1>3 DEF AtJoins, OneHot

-------------------------------------------------------------------------------
(***************************************************************************)
(* Counting starts: a start moves from the manager's hands to a queue, to  *)
(* a worker, to a row, and comes up only when a handler follows a flow.    *)
(***************************************************************************)
RowsOf(n) == {r \in Used : rows[r].node = n}
CreatingOf(n) == {w \in Workers : wrk[w].node = n /\ wrk[w].pc = "create"}
NextOf(n) == {s \in Slots : mgr[s].next = n}

LEMMA StartsSum ==
  ASSUME TypeOK, NEW n \in Nodes
  PROVE  /\ Starts(n) = outgoing[n] + Cardinality(RowsOf(n)) + Cardinality(CreatingOf(n))
                        + Cardinality(NextOf(n))
         /\ outgoing[n] \in Nat
         /\ IsFiniteSet(RowsOf(n)) /\ Cardinality(RowsOf(n)) \in Nat
         /\ IsFiniteSet(CreatingOf(n)) /\ Cardinality(CreatingOf(n)) \in Nat
         /\ IsFiniteSet(NextOf(n)) /\ Cardinality(NextOf(n)) \in Nat
  <1>1. RowsOf(n) \subseteq RowIds /\ CreatingOf(n) \subseteq Workers /\ NextOf(n) \subseteq Slots
    BY DEF RowsOf, CreatingOf, NextOf, Used
  <1>2. IsFiniteSet(RowsOf(n)) /\ IsFiniteSet(CreatingOf(n)) /\ IsFiniteSet(NextOf(n))
    BY <1>1, FS_Subset, FiniteAssumption
  <1>3. outgoing[n] \in Nat
    BY DEF TypeOK
  <1> QED
    BY <1>2, <1>3, FS_CardinalityType DEF Starts, RowsOf, CreatingOf, NextOf

\* The sums before and after a step.
LEMMA StartsSums ==
  ASSUME TypeOK, TypeOK', NEW n \in Nodes,
         NEW a \in Int, outgoing'[n] <= outgoing[n] + a,
         NEW b \in Int, Cardinality(RowsOf(n))' <= Cardinality(RowsOf(n)) + b,
         NEW c \in Int, Cardinality(CreatingOf(n))' <= Cardinality(CreatingOf(n)) + c,
         NEW d \in Int, Cardinality(NextOf(n))' <= Cardinality(NextOf(n)) + d
  PROVE  Starts(n)' <= Starts(n) + a + b + c + d
  <1>1. /\ Starts(n) = outgoing[n] + Cardinality(RowsOf(n)) + Cardinality(CreatingOf(n))
                       + Cardinality(NextOf(n))
        /\ outgoing[n] \in Nat /\ Cardinality(RowsOf(n)) \in Nat
        /\ Cardinality(CreatingOf(n)) \in Nat /\ Cardinality(NextOf(n)) \in Nat
    BY StartsSum
  <1>2. /\ Starts(n)' = outgoing'[n] + Cardinality(RowsOf(n))' + Cardinality(CreatingOf(n))'
                        + Cardinality(NextOf(n))'
        /\ outgoing'[n] \in Nat /\ Cardinality(RowsOf(n))' \in Nat
        /\ Cardinality(CreatingOf(n))' \in Nat /\ Cardinality(NextOf(n))' \in Nat
    <2>1. RowsOf(n)' \subseteq RowIds /\ CreatingOf(n)' \subseteq Workers /\ NextOf(n)' \subseteq Slots
      BY DEF RowsOf, CreatingOf, NextOf, Used
    <2>2. IsFiniteSet(RowsOf(n)') /\ IsFiniteSet(CreatingOf(n)') /\ IsFiniteSet(NextOf(n)')
      BY <2>1, FS_Subset, FiniteAssumption
    <2>3. /\ Cardinality(RowsOf(n)') \in Nat /\ Cardinality(CreatingOf(n)') \in Nat
          /\ Cardinality(NextOf(n)') \in Nat
      BY <2>2, FS_CardinalityType
    <2>4. outgoing'[n] \in Nat
      BY DEF TypeOK
    <2> QED
      BY <2>3, <2>4 DEF Starts, RowsOf, CreatingOf, NextOf
  <1> QED
    BY <1>1, <1>2

\* What does not gain an element, or gains one, does not gain more.
LEMMA NoMore ==
  ASSUME NEW S, IsFiniteSet(S), NEW T, T \subseteq S
  PROVE  Cardinality(T) <= Cardinality(S) + 0
  BY FS_Subset, FS_CardinalityType

LEMMA OneMore ==
  ASSUME NEW S, IsFiniteSet(S), NEW x, NEW T, T \subseteq S \cup {x}
  PROVE  Cardinality(T) <= Cardinality(S) + 1
  <1>0. Cardinality(S) \in Nat
    BY FS_CardinalityType
  <1>1. /\ IsFiniteSet(S \cup {x})
        /\ Cardinality(S \cup {x}) = IF x \in S THEN Cardinality(S) ELSE Cardinality(S) + 1
    BY FS_AddElement
  <1>2. Cardinality(T) <= Cardinality(S \cup {x}) /\ Cardinality(T) \in Nat
    BY <1>1, FS_Subset, FS_CardinalityType
  <1> QED
    BY <1>0, <1>1, <1>2

LEMMA OneLess ==
  ASSUME NEW S, IsFiniteSet(S), NEW x \in S, NEW T, T \subseteq S \ {x}
  PROVE  Cardinality(T) <= Cardinality(S) + (-1)
  <1>1. /\ IsFiniteSet(S \ {x}) /\ Cardinality(S) \in Nat
        /\ Cardinality(S \ {x}) = Cardinality(S) - 1
    BY FS_RemoveElement, FS_CardinalityType
  <1>2. Cardinality(T) <= Cardinality(S \ {x}) /\ Cardinality(T) \in Nat
    BY <1>1, FS_Subset, FS_CardinalityType
  <1> QED
    BY <1>1, <1>2

LEMMA RowsOfKept ==
  ASSUME RowsGrow, Used' = Used, NEW n
  PROVE  RowsOf(n)' \subseteq RowsOf(n)
  BY DEF RowsGrow, RowsOf

LEMMA NoStart ==
  ASSUME TypeOK, TypeOK', NEW n \in Nodes, outgoing'[n] <= outgoing[n],
         RowsOf(n)' \subseteq RowsOf(n), CreatingOf(n)' \subseteq CreatingOf(n),
         NextOf(n)' \subseteq NextOf(n)
  PROVE  Starts(n)' <= Starts(n)
  <1>1. /\ IsFiniteSet(RowsOf(n)) /\ IsFiniteSet(CreatingOf(n)) /\ IsFiniteSet(NextOf(n))
        /\ outgoing[n] \in Nat /\ outgoing'[n] \in Nat
        /\ Starts(n) \in Nat
    BY StartsSum DEF TypeOK
  <1>2. Cardinality(RowsOf(n)') <= Cardinality(RowsOf(n)) + 0
    BY <1>1, NoMore
  <1>3. Cardinality(CreatingOf(n)') <= Cardinality(CreatingOf(n)) + 0
    BY <1>1, NoMore
  <1>4. Cardinality(NextOf(n)') <= Cardinality(NextOf(n)) + 0
    BY <1>1, NoMore
  <1>5. outgoing'[n] <= outgoing[n] + 0
    BY <1>1
  <1>6. Starts(n)' <= Starts(n) + 0 + 0 + 0 + 0
    BY <1>2, <1>3, <1>4, <1>5, StartsSums
  <1> QED
    BY <1>1, <1>6

LEMMA ManagerStarts ==
  ASSUME IInv, Places, NEW s \in Slots, ManagerStep(s), NEW n \in Nodes
  PROVE  \/ Starts(n)' <= Starts(n)
         \/ Follows(s) /\ mgr'[s].next = n /\ Starts(n)' <= Starts(n) + 1
  <1> USE DEF tables, queues, faults
  <1>1. /\ TypeOK /\ Wired /\ TypeOK' /\ OthersKept(s) /\ mgr[s] \in MgrSlot
        /\ RowsOf(n)' \subseteq RowsOf(n) /\ CreatingOf(n)' \subseteq CreatingOf(n)
    <2>1. TypeOK /\ Wired /\ TypeOK' /\ OthersKept(s) /\ mgr[s] \in MgrSlot
      BY ManagerTyping, ManagerOthersKept, SlotTyped DEF IInv
    <2>2. RowsOf(n)' \subseteq RowsOf(n) /\ UNCHANGED wrk
      BY <2>1, ManagerGrows, RowsOfKept
    <2> QED
      BY <2>1, <2>2 DEF CreatingOf
  <1>2. /\ IsFiniteSet(RowsOf(n)) /\ IsFiniteSet(CreatingOf(n)) /\ IsFiniteSet(NextOf(n))
        /\ outgoing[n] \in Nat /\ outgoing'[n] \in Nat
        /\ Starts(n) \in Nat /\ NoNode # n
    BY <1>1, StartsSum, BoundAssumption DEF TypeOK
  <1>3. Cardinality(RowsOf(n)') <= Cardinality(RowsOf(n)) + 0
    BY <1>1, <1>2, NoMore
  <1>4. Cardinality(CreatingOf(n)') <= Cardinality(CreatingOf(n)) + 0
    BY <1>1, <1>2, NoMore
  <1>5. ASSUME UNCHANGED outgoing, mgr'[s].next \in {mgr[s].next, NoNode}
        PROVE  Starts(n)' <= Starts(n)
    <2>1. NextOf(n)' \subseteq NextOf(n)
      BY <1>1, <1>2, <1>5 DEF NextOf, OthersKept
    <2>2. outgoing'[n] <= outgoing[n]
      BY <1>2, <1>5
    <2> QED
      BY <1>1, <2>1, <2>2, NoStart
  <1>6. CASE SendOut(s)
    <2>1. /\ mgr[s].pc = "send" /\ mgr[s].next \in Nodes /\ mgr'[s].next = NoNode
          /\ outgoing' = Deliver(outgoing, mgr[s].next)
      BY <1>1, <1>6, SendOutEffect DEF SendOut, Wired, MgrSlot
    <2>2. CASE mgr[s].next = n
      <3>1. s \in NextOf(n) /\ NextOf(n)' \subseteq NextOf(n) \ {s}
        BY <1>1, <1>2, <2>1, <2>2 DEF NextOf, OthersKept
      <3>2. Cardinality(NextOf(n)') <= Cardinality(NextOf(n)) + (-1)
        BY <1>2, <3>1, OneLess
      <3>3. outgoing'[n] <= outgoing[n] + 1
        BY <1>1, <2>1, <2>2 DEF Deliver, TypeOK
      <3>4. Starts(n)' <= Starts(n) + 1 + 0 + 0 + (-1)
        BY <1>1, <1>3, <1>4, <3>2, <3>3, StartsSums
      <3> QED
        BY <1>2, <3>4
    <2>3. CASE mgr[s].next # n
      <3>1. NextOf(n)' \subseteq NextOf(n)
        BY <1>1, <1>2, <2>1 DEF NextOf, OthersKept
      <3>2. outgoing'[n] <= outgoing[n]
        BY <1>1, <2>1, <2>3 DEF Deliver, TypeOK
      <3> QED
        BY <1>1, <3>1, <3>2, NoStart
    <2> QED
      BY <2>2, <2>3
  <1>7. ASSUME NEW f \in Flows, PushOut(s, f)
        PROVE  \/ Starts(n)' <= Starts(n)
               \/ Follows(s) /\ mgr'[s].next = n /\ Starts(n)' <= Starts(n) + 1
    <2>1. UNCHANGED outgoing /\ mgr[s].pc = "loop" /\ mgr'[s].pc = "send"
      BY <1>1, <1>7, PushOutEffect DEF PushOut
    <2>2. CASE mgr'[s].next = n
      <3>1. NextOf(n)' \subseteq NextOf(n) \cup {s}
        BY <1>1 DEF NextOf, OthersKept
      <3>2. Cardinality(NextOf(n)') <= Cardinality(NextOf(n)) + 1
        BY <1>2, <3>1, OneMore
      <3>3. outgoing'[n] <= outgoing[n] + 0
        BY <1>2, <2>1
      <3>4. Starts(n)' <= Starts(n) + 0 + 0 + 0 + 1
        BY <1>1, <1>3, <1>4, <3>2, <3>3, StartsSums
      <3>5. Follows(s)
        BY <1>1, <1>7, PushOutFollows
      <3> QED
        BY <1>2, <2>2, <3>4, <3>5
    <2>3. CASE mgr'[s].next # n
      <3>1. NextOf(n)' \subseteq NextOf(n)
        BY <1>1, <2>3 DEF NextOf, OthersKept
      <3>2. outgoing'[n] <= outgoing[n]
        BY <1>2, <2>1
      <3> QED
        BY <1>1, <3>1, <3>2, NoStart
    <2> QED
      BY <2>2, <2>3
  <1>8. CASE /\ ~SendOut(s) /\ \A f \in Flows : ~PushOut(s, f)
    <2>1. UNCHANGED outgoing
      BY <1>8 DEF ManagerStep, Receive, PushIn, Skip, BeginFinish,
             CancelTasks, CancelEvents, CancelAllInProgress, SetStatusFinal, AckIn
    <2>2. mgr'[s].next \in {mgr[s].next, NoNode}
      <3>1. CASE CancelTasks(s) \/ CancelEvents(s)
        BY <1>1, <3>1, CancelEffect DEF CancelTasks, CancelEvents
      <3> QED
        BY <1>1, <1>8, <3>1, ReceiveEffect, PushInEffect, SkipEffect, BeginFinishEffect,
           SetStatusFinalEffect, DoneEffect DEF ManagerStep
    <2> QED
      BY <1>5, <2>1, <2>2
  <1> QED
    BY <1>6, <1>7, <1>8

\* A row is created by the worker that had taken the message for it.
LEMMA CreateStarts ==
  ASSUME TypeOK, TypeOK', NEW w \in Workers, wrk[w].pc = "create",
         NEW m \in Nodes, wrk[w].node = m,
         NEW state \in RowStates, NEW result \in SUBSET Flows, Free # {},
         Insert(NextRow, m, state, result), UNCHANGED <<outgoing, mgr>>,
         OtherWorkersKept(w), wrk'[w].pc # "create", NEW n \in Nodes
  PROVE  Starts(n)' <= Starts(n)
  <1>1. /\ RowsGrow /\ Used' = Used \cup {NextRow} /\ rows'[NextRow].node = m
        /\ \A r \in Used : rows'[r] = rows[r]
    BY InsertGrows
  <1>2. /\ IsFiniteSet(RowsOf(n)) /\ IsFiniteSet(CreatingOf(n)) /\ IsFiniteSet(NextOf(n))
        /\ outgoing'[n] <= outgoing[n] /\ outgoing'[n] <= outgoing[n] + 0
        /\ Starts(n) \in Nat /\ NextOf(n)' \subseteq NextOf(n)
    <2>1. outgoing[n] \in Nat /\ outgoing'[n] = outgoing[n] /\ NextOf(n)' = NextOf(n)
      BY DEF TypeOK, NextOf
    <2> QED
      BY <2>1, StartsSum
  <1>3. CASE m = n
    <2>1. w \in CreatingOf(n) /\ CreatingOf(n)' \subseteq CreatingOf(n) \ {w}
      BY <1>3 DEF CreatingOf, OtherWorkersKept
    <2>2. Cardinality(CreatingOf(n)') <= Cardinality(CreatingOf(n)) + (-1)
      BY <1>2, <2>1, OneLess
    <2>3. PICK x : RowsOf(n)' \subseteq RowsOf(n) \cup {x}
      BY <1>1 DEF RowsOf
    <2>4. Cardinality(RowsOf(n)') <= Cardinality(RowsOf(n)) + 1
      BY <1>2, <2>3, OneMore
    <2>5. Cardinality(NextOf(n)') <= Cardinality(NextOf(n)) + 0
      BY <1>2, NoMore
    <2>6. Starts(n)' <= Starts(n) + 0 + 1 + (-1) + 0
      BY <1>2, <2>2, <2>4, <2>5, StartsSums
    <2> QED
      BY <1>2, <2>6
  <1>4. CASE m # n
    <2>1. RowsOf(n)' \subseteq RowsOf(n)
      BY <1>1, <1>4 DEF RowsOf
    <2>2. CreatingOf(n)' \subseteq CreatingOf(n)
      BY DEF CreatingOf, OtherWorkersKept
    <2> QED
      BY <1>2, <2>1, <2>2, NoStart
  <1> QED
    BY <1>3, <1>4

LEMMA WorkerStarts ==
  ASSUME IInv, Places, NEW w \in Workers, WorkerStep(w), ~RetryLater(w), ~CarryOn(w),
         NEW n \in Nodes
  PROVE  Starts(n)' <= Starts(n)
  <1> USE DEF tables, queues, faults
  <1> DEFINE m == wrk[w].node
  <1>1. /\ TypeOK /\ Wired /\ TypeOK' /\ OtherWorkersKept(w) /\ UNCHANGED mgr
        /\ wrk[w].pc # "idle" => m \in Nodes
    BY WorkerTyping, WorkerPlaces, WorkerGrows, BoundAssumption DEF IInv, Wired
  <1>2. /\ IsFiniteSet(RowsOf(n)) /\ IsFiniteSet(CreatingOf(n)) /\ IsFiniteSet(NextOf(n))
        /\ outgoing[n] \in Nat /\ Starts(n) \in Nat /\ NextOf(n)' \subseteq NextOf(n)
    <2>1. outgoing[n] \in Nat /\ NextOf(n)' = NextOf(n)
      BY <1>1 DEF TypeOK, NextOf
    <2> QED
      BY <1>1, <2>1, StartsSum
  <1>3. ASSUME UNCHANGED outgoing, wrk'[w].pc # "create", RowsOf(n)' \subseteq RowsOf(n)
        PROVE  Starts(n)' <= Starts(n)
    <2>1. CreatingOf(n)' \subseteq CreatingOf(n) /\ outgoing'[n] <= outgoing[n]
      BY <1>1, <1>2, <1>3 DEF CreatingOf, OtherWorkersKept
    <2> QED
      BY <1>1, <1>2, <1>3, <2>1, NoStart
  <1>4. ASSUME NEW k \in Nodes, Take(w, k)  PROVE Starts(n)' <= Starts(n)
    <2>1. /\ wrk'[w].pc = "create" /\ wrk'[w].node = k /\ wrk[w].pc = "idle"
          /\ outgoing[k] > 0 /\ outgoing' = Remove(outgoing, k)
      BY <1>1, <1>4, TakeEffect DEF Take
    <2>2. RowsOf(n)' \subseteq RowsOf(n)
      BY <1>4 DEF Take, RowsOf, Used
    <2>3. CASE k = n
      <3>1. CreatingOf(n)' \subseteq CreatingOf(n) \cup {w}
        BY <1>1 DEF CreatingOf, OtherWorkersKept
      <3>2. Cardinality(CreatingOf(n)') <= Cardinality(CreatingOf(n)) + 1
        BY <1>2, <3>1, OneMore
      <3>3. outgoing'[n] <= outgoing[n] + (-1)
        BY <1>1, <1>2, <2>1, <2>3 DEF Remove, TypeOK
      <3>4. Cardinality(RowsOf(n)') <= Cardinality(RowsOf(n)) + 0
        BY <1>2, <2>2, NoMore
      <3>5. Cardinality(NextOf(n)') <= Cardinality(NextOf(n)) + 0
        BY <1>2, NoMore
      <3>6. Starts(n)' <= Starts(n) + (-1) + 0 + 1 + 0
        BY <1>1, <3>2, <3>3, <3>4, <3>5, StartsSums
      <3> QED
        BY <1>2, <3>6
    <2>4. CASE k # n
      <3>1. CreatingOf(n)' \subseteq CreatingOf(n)
        BY <1>1, <2>1, <2>4 DEF CreatingOf, OtherWorkersKept
      <3>2. outgoing'[n] <= outgoing[n]
        BY <1>1, <1>2, <2>1, <2>4 DEF Remove, TypeOK
      <3> QED
        BY <1>1, <1>2, <2>2, <3>1, <3>2, NoStart
    <2> QED
      BY <2>3, <2>4
  <1>5. ASSUME wrk[w].pc = "create", NEW state \in RowStates, NEW result \in SUBSET Flows,
               Free # {}, Insert(NextRow, m, state, result), UNCHANGED outgoing,
               NEW pc \in {"fill", "produce", "ack", "report"},
               wrk' = [wrk EXCEPT ![w] = [@ EXCEPT !.pc = pc, !.row = NextRow]]
        PROVE  Starts(n)' <= Starts(n)
    <2>1. m \in Nodes /\ wrk'[w].pc # "create"
      BY <1>1, <1>5, CreateEffect
    <2>2. PICK k \in Nodes : k = m
      BY <2>1
    <2> QED
      BY <1>1, <1>5, <2>1, <2>2, CreateStarts
  <1>6. CASE CreateGateway(w)
    <2>1. PICK result \in Outcomes(m) : Insert(NextRow, m, "finished", result)
      BY <1>6 DEF CreateGateway
    <2>2. result \in SUBSET Flows /\ "finished" \in RowStates
      BY <1>1, <1>6, OutcomesTyped DEF CreateGateway, RowStates
    <2>3. /\ wrk[w].pc = "create" /\ Free # {} /\ UNCHANGED outgoing
          /\ wrk' = [wrk EXCEPT ![w] = [@ EXCEPT !.pc = "produce", !.row = NextRow]]
      BY <1>6 DEF CreateGateway
    <2> QED
      BY <1>5, <2>1, <2>2, <2>3
  <1>7. CASE CreateEvent(w)
    <2> DEFINE pc == IF ReportsAtOnce(m) THEN "produce" ELSE "ack"
    <2>1. /\ pc \in {"fill", "produce", "ack", "report"} /\ EventState(m) \in RowStates
          /\ {} \in SUBSET Flows
      BY DEF EventState, RowStates
    <2>2. /\ wrk[w].pc = "create" /\ Free # {} /\ UNCHANGED outgoing
          /\ Insert(NextRow, m, EventState(m), {})
          /\ wrk' = [wrk EXCEPT ![w] = [@ EXCEPT !.pc = pc, !.row = NextRow]]
      BY <1>7 DEF CreateEvent
    <2> HIDE DEF pc
    <2> QED
      BY <1>5, <2>1, <2>2
  <1>8. CASE CreateTask(w)
    <2>1. /\ wrk[w].pc = "create" /\ Free # {} /\ UNCHANGED outgoing
          /\ Insert(NextRow, m, "draft", {}) /\ "draft" \in RowStates
          /\ wrk' = [wrk EXCEPT ![w] = [@ EXCEPT !.pc = "fill", !.row = NextRow]]
      BY <1>8 DEF CreateTask, RowStates
    <2> QED
      BY <1>5, <2>1
  <1>9. CASE FillTask(w)
    <2>1. RowsOf(n)' \subseteq RowsOf(n) /\ wrk'[w].pc # "create"
      BY <1>1, <1>9, FillEffect, RowsOfKept
    <2> QED
      BY <1>3, <1>9, <2>1 DEF FillTask
  <1>10. CASE Produce(w) \/ AutoCommitRefused(w) \/ AckOut(w) \/ GiveUp(w)
    <2>1. wrk'[w].pc # "create"
      BY <1>1, <1>10, PcEffect, WorkerDoneEffect
      DEF Produce, AutoCommitRefused, AckOut, GiveUp, WrkStates
    <2>2. UNCHANGED <<rows, outgoing>>
      BY <1>10 DEF Produce, AutoCommitRefused, AckOut, GiveUp
    <2>3. RowsOf(n)' \subseteq RowsOf(n)
      BY <2>2 DEF RowsOf, Used
    <2> QED
      BY <1>3, <2>1, <2>2, <2>3
  <1> QED
    BY <1>4, <1>6, <1>7, <1>8, <1>9, <1>10 DEF WorkerStep

LEMMA RowStarts ==
  ASSUME IInv, Places, NEW r \in RowIds, RowStep(r), NEW n \in Nodes
  PROVE  Starts(n)' <= Starts(n)
  <1> USE DEF tables, queues, faults
  <1>1. /\ TypeOK /\ Wired /\ TypeOK' /\ RowsGrow /\ UNCHANGED <<mgr, wrk, outgoing>>
    BY RowTyping, RowStepGrows DEF IInv
  <1>2. Used' = Used
    <2>1. \/ UNCHANGED rows
          \/ rows' = [rows EXCEPT ![r].state = "finished"] /\ r \in Used
      BY <1>1 DEF RowStep, Commit, DaemonPick, DaemonSetDone, SendCompletion, Wired
    <2>2. CASE UNCHANGED rows
      BY <1>1, <2>2, RowsKept
    <2>3. CASE rows' = [rows EXCEPT ![r].state = "finished"] /\ r \in Used
      BY <1>1, <2>3, StateGrows DEF RowStates
    <2> QED
      BY <2>1, <2>2, <2>3
  <1>3. /\ RowsOf(n)' \subseteq RowsOf(n) /\ NextOf(n)' \subseteq NextOf(n)
        /\ CreatingOf(n)' \subseteq CreatingOf(n) /\ outgoing'[n] <= outgoing[n]
    BY <1>1, <1>2, RowsOfKept DEF NextOf, CreatingOf, TypeOK
  <1> QED
    BY <1>1, <1>3, NoStart

LEMMA FaultStarts ==
  ASSUME IInv, Places, Fault, ~Repeats, NEW n \in Nodes
  PROVE  Starts(n)' <= Starts(n)
  <1>1. /\ TypeOK /\ TypeOK' /\ n # NoNode /\ outgoing[n] \in Nat
    BY FaultTyping, BoundAssumption DEF IInv, TypeOK
  <1>2. /\ UNCHANGED <<rows, outgoing>>
        /\ \A w \in Workers : wrk'[w] = wrk[w] \/ wrk'[w].pc \in {"catch", "idle"}
        /\ \A s \in Slots : mgr'[s] \in {mgr[s], IdleSlot}
    BY FaultPlaces, BoundAssumption
  <1>3. RowsOf(n)' \subseteq RowsOf(n) /\ outgoing'[n] <= outgoing[n]
    BY <1>1, <1>2 DEF RowsOf, Used
  <1>4. CreatingOf(n)' \subseteq CreatingOf(n)
    BY <1>2 DEF CreatingOf
  <1>5. NextOf(n)' \subseteq NextOf(n)
    BY <1>1, <1>2 DEF NextOf, IdleSlot
  <1> QED
    BY <1>1, <1>3, <1>4, <1>5, NoStart

\* Only a handler that follows a flow starts a node.
LEMMA StepStarts ==
  ASSUME IInv, Places, Next, ~Repeats, NEW n \in Nodes
  PROVE  \/ Starts(n)' <= Starts(n)
         \/ /\ Starts(n)' <= Starts(n) + 1
            /\ \E s \in Slots : Follows(s) /\ ManagerStep(s) /\ mgr'[s].next = n
  <1>1. ASSUME NEW w \in Workers, WorkerStep(w)  PROVE Starts(n)' <= Starts(n)
    <2>1. ~RetryLater(w) /\ ~CarryOn(w)
      BY DEF Repeats
    <2> QED
      BY <1>1, <2>1, WorkerStarts
  <1> QED
    BY <1>1, ManagerStarts, RowStarts, FaultStarts DEF Next

-------------------------------------------------------------------------------
(***************************************************************************)
(* Spending tokens: none is taken back, and a start spends one.            *)
(***************************************************************************)
LEMMA SpentFlowsGrow ==
  ASSUME IInv, Places, Next, ~Repeats, NEW n
  PROVE  SpentFlows(n) \subseteq SpentFlows(n)'
  <1>1. FinishedStays
    BY StepFinishedStays
  <1> SUFFICES ASSUME NEW r \in RowIds, NEW f \in Flows, Finished(r),
                      f \in Sequences(rows[r]), Target[f] = n, ~Pending(r, f)
               PROVE  <<r, f>> \in SpentFlows(n)'
    BY DEF SpentFlows
  <1>2. Finished(r)' /\ f \in Sequences(rows[r])'
    BY <1>1 DEF FinishedStays, Sequences
  <1>3. ~Pending(r, f)'
    BY PendingShrinks
  <1> QED
    BY <1>2, <1>3 DEF SpentFlows

LEMMA PassedStays ==
  ASSUME JoinsFedSingly, IInv, Places, RecordedIsPast, Next, ~Repeats,
         NEW j \in Joins, Passed(j)
  PROVE  Passed(j)'
  <1>1. Incoming[j] \subseteq history /\ history \subseteq history'
    BY HistoryStep DEF Passed
  <1>2. \A s \in Slots : ~Hot(s, j)'
    BY <1>1, HotComes DEF Passed
  <1> QED
    BY <1>1, <1>2 DEF Passed

LEMMA SpentJoinsGrow ==
  ASSUME JoinsFedSingly, IInv, Places, RecordedIsPast, Next, ~Repeats, NEW n
  PROVE  SpentJoins(n) \subseteq SpentJoins(n)'
  BY PassedStays DEF SpentJoins

LEMMA SpentFinite ==
  ASSUME NEW n
  PROVE  /\ SpentFlows(n) \subseteq RowIds \X Flows /\ IsFiniteSet(SpentFlows(n))
         /\ SpentJoins(n) \subseteq Joins \X {1} /\ IsFiniteSet(SpentJoins(n))
         /\ IsFiniteSet(SpentFlows(n)') /\ IsFiniteSet(SpentJoins(n)')
         /\ Cardinality(SpentFlows(n)) \in Nat /\ Cardinality(SpentFlows(n)') \in Nat
         /\ Cardinality(SpentJoins(n)) \in Nat /\ Cardinality(SpentJoins(n)') \in Nat
  <1>1. /\ SpentFlows(n) \subseteq RowIds \X Flows /\ SpentFlows(n)' \subseteq RowIds \X Flows
        /\ SpentJoins(n) \subseteq Joins \X {1} /\ SpentJoins(n)' \subseteq Joins \X {1}
    BY DEF SpentFlows, SpentJoins
  <1>2. IsFiniteSet(RowIds \X Flows) /\ IsFiniteSet(Joins \X {1})
    BY FS_Product, FS_Singleton, FiniteAssumption
  <1>3. /\ IsFiniteSet(SpentFlows(n)) /\ IsFiniteSet(SpentFlows(n)')
        /\ IsFiniteSet(SpentJoins(n)) /\ IsFiniteSet(SpentJoins(n)')
    BY <1>1, <1>2, FS_Subset
  <1> QED
    BY <1>1, <1>3, FS_CardinalityType

LEMMA FollowSpendsJoin ==
  ASSUME JoinsFedSingly, IInv, Places, AtJoins, Next,
         NEW s \in Slots, ManagerStep(s), NEW f \in mgr[s].todo, mgr[s].pc = "loop",
         NEW j \in Joins, f \in Incoming[j], Incoming[j] \subseteq mgr[s].seen,
         mgr'[s].todo = Rest(s, f)
  PROVE  ~Passed(j) /\ Passed(j)'
  <1>1. TypeOK /\ Wired /\ OthersKept(s)
    BY ManagerOthersKept DEF IInv
  <1>2. Hot(s, j)
    BY DEF Hot
  <1>3. mgr'[s].todo = {}
    BY OneLeft DEF Rest
  <1>4. Incoming[j] \subseteq history'
    <2>1. mgr[s].seen \subseteq history
      BY DEF IInv, Safe, ManagerKnows, Knows
    <2> QED
      BY <2>1, HistoryStep
  <1>5. ASSUME NEW q \in Slots, Hot(q, j)'  PROVE FALSE
    <2>1. q # s
      BY <1>3, <1>5 DEF Hot
    <2>2. Hot(q, j)
      BY <1>1, <1>5, <2>1 DEF Hot, OthersKept
    <2> QED
      BY <1>2, <2>1, <2>2 DEF AtJoins, OneHot
  <1> QED
    BY <1>2, <1>4, <1>5 DEF Passed

LEMMA FollowSpendsFlow ==
  ASSUME IInv, Places, Next, ~Repeats,
         NEW s \in Slots, ManagerStep(s), NEW f \in mgr[s].todo, mgr[s].pc = "loop",
         mgr'[s].pc = "send", mgr'[s].row = mgr[s].row, mgr'[s].todo = Rest(s, f),
         NEW r \in RowIds, r = mgr[s].row
  PROVE  Pending(r, f) /\ ~Pending(r, f)'
  <1>1. OnePlace(r)' /\ Handling(s, r)'
    BY StepPlacedWell DEF PlacedWell, Handling
  <1>2. incoming'[r] = 0 /\ r \notin toSend' /\ \A w \in Workers : ~Producing(w, r)'
    BY <1>1 DEF OnePlace
  <1>3. ASSUME NEW q \in Slots, mgr'[q].pc # "idle", mgr'[q].row = r  PROVE q = s
    <2>1. Handling(q, r)'
      BY <1>3 DEF Handling
    <2> QED
      BY <1>1, <2>1 DEF OnePlace
  <1>4. ~Before(r)'
    BY <1>2, <1>3 DEF Before
  <1>5. \A q \in Slots : ~InHand(q, r, f)'
    BY <1>3 DEF InHand, Rest
  <1> QED
    BY <1>4, <1>5 DEF Pending, InHand

LEMMA FollowSpends ==
  ASSUME JoinsFedSingly, IInv, Places, AtJoins, Next, ~Repeats,
         NEW s \in Slots, ManagerStep(s), Follows(s), NEW n \in Nodes, mgr'[s].next = n
  PROVE  \/ \E x : x \in SpentFlows(n)' /\ x \notin SpentFlows(n)
         \/ \E x : x \in SpentJoins(n)' /\ x \notin SpentJoins(n)
  <1>1. PICK f \in mgr[s].todo :
          /\ PushOut(s, f) /\ mgr'[s].pc = "send" /\ mgr'[s].row = mgr[s].row
          /\ mgr'[s].todo = Rest(s, f) /\ n = Goal(f, mgr[s].seen)
    BY DEF Follows
  <1>2. mgr[s].pc = "loop" /\ TypeOK /\ Wired /\ f \in Flows
    BY <1>1, SlotTyped DEF PushOut, IInv, MgrSlot
  <1>3. PICK r \in RowIds : r = mgr[s].row /\ Finished(r)
    BY <1>2, HandledIsFinished
  <1>4. f \in Sequences(rows[r])
    BY <1>2, <1>3 DEF Places, TodoFromRow
  <1>5. ASSUME NEW j \in Joins, Target[f] = j, Incoming[j] \subseteq mgr[s].seen
        PROVE  \E x : x \in SpentJoins(n)' /\ x \notin SpentJoins(n)
    <2>1. f \in Incoming[j]
      BY <1>2, <1>5 DEF JoinsFedSingly
    <2>2. ~Passed(j) /\ Passed(j)'
      BY <1>1, <1>2, <1>5, <2>1, FollowSpendsJoin
    <2>3. Target[JoinOut[j]] = n
      BY <1>1, <1>5 DEF Goal, JoinDone
    <2>4. <<j, 1>> \in SpentJoins(n)' /\ <<j, 1>> \notin SpentJoins(n)
      BY <2>2, <2>3 DEF SpentJoins
    <2> QED
      BY <2>4
  <1>6. ASSUME ~(Target[f] \in Joins /\ Incoming[Target[f]] \subseteq mgr[s].seen)
        PROVE  \E x : x \in SpentFlows(n)' /\ x \notin SpentFlows(n)
    <2>1. Target[f] = n
      BY <1>1, <1>6 DEF Goal, JoinDone
    <2>2. Pending(r, f) /\ ~Pending(r, f)'
      BY <1>1, <1>2, <1>3, FollowSpendsFlow
    <2>3. Finished(r)' /\ f \in Sequences(rows[r])'
      BY <1>3, <1>4, StepFinishedStays DEF FinishedStays, Sequences
    <2>4. <<r, f>> \in SpentFlows(n)' /\ <<r, f>> \notin SpentFlows(n)
      BY <1>2, <2>1, <2>2, <2>3 DEF SpentFlows
    <2> QED
      BY <2>4
  <1> QED
    BY <1>5, <1>6

LEMMA OneMoreSpent ==
  ASSUME NEW T, IsFiniteSet(T), NEW S, S \subseteq T, NEW x \in T, x \notin S
  PROVE  Cardinality(S) + 1 <= Cardinality(T)
  <1>1. IsFiniteSet(S)
    BY FS_Subset
  <1>2. Cardinality(S \cup {x}) = Cardinality(S) + 1 /\ IsFiniteSet(S \cup {x})
    BY <1>1, FS_AddElement
  <1>3. S \cup {x} \in SUBSET T
    OBVIOUS
  <1>4. Cardinality(S \cup {x}) <= Cardinality(T)
    BY <1>3, FS_Subset
  <1> QED
    BY <1>2, <1>4

LEMMA SpentStep ==
  ASSUME JoinsFedSingly, IInv, Places, AtJoins, Next, ~Repeats, NEW n \in Nodes
  PROVE  /\ Spent(n) <= Spent(n)'
         /\ \A s \in Slots : Follows(s) /\ ManagerStep(s) /\ mgr'[s].next = n =>
                               Spent(n) + 1 <= Spent(n)'
  <1> DEFINE F == SpentFlows(n)
             J == SpentJoins(n)
  <1>1. F \subseteq F' /\ J \subseteq J'
    BY SpentFlowsGrow, SpentJoinsGrow DEF AtJoins
  <1>2. /\ IsFiniteSet(F') /\ IsFiniteSet(J')
        /\ Cardinality(F) \in Nat /\ Cardinality(F') \in Nat
        /\ Cardinality(J) \in Nat /\ Cardinality(J') \in Nat
    BY SpentFinite
  <1>3. Cardinality(F) <= Cardinality(F') /\ Cardinality(J) <= Cardinality(J')
    BY <1>1, <1>2, FS_Subset
  <1>4. /\ Spent(n) = Entries(n) + Cardinality(F) + Cardinality(J)
        /\ Spent(n)' = Entries(n) + Cardinality(F') + Cardinality(J')
        /\ Entries(n) \in Nat
    BY DEF Spent, Entries
  <1>5. ASSUME NEW s \in Slots, Follows(s), ManagerStep(s), mgr'[s].next = n
        PROVE  \/ Cardinality(F) + 1 <= Cardinality(F')
               \/ Cardinality(J) + 1 <= Cardinality(J')
    <2>1. \/ \E x : x \in F' /\ x \notin F
          \/ \E x : x \in J' /\ x \notin J
      BY <1>5, FollowSpends
    <2> HIDE DEF F, J
    <2> QED
      BY <1>1, <1>2, <2>1, OneMoreSpent
  <1> HIDE DEF F, J
  <1> QED
    BY <1>2, <1>3, <1>4, <1>5

LEMMA SpentNumbers ==
  ASSUME NEW n
  PROVE  Spent(n) \in Nat /\ Spent(n)' \in Nat /\ Entries(n) <= Spent(n)
  BY SpentFinite DEF Spent, Entries

LEMMA CountedStep ==
  ASSUME JoinsFedSingly, IInv, Places, Counted, Next, ~Repeats
  PROVE  Counted'
  <1> SUFFICES ASSUME OnceAtJoins'  PROVE AtJoins' /\ EachStartIsSpent'
    BY DEF Counted
  <1>1. AtJoins /\ EachStartIsSpent
    BY OnceAtJoinsBefore DEF Counted
  <1>2. AtJoins'
    BY <1>1, RecordedIsPastStep, OneHotStep DEF AtJoins
  <1>3. ASSUME NEW n \in Nodes  PROVE Starts(n)' <= Spent(n)'
    <2>1. Starts(n) <= Spent(n) /\ TypeOK
      BY <1>1 DEF EachStartIsSpent, IInv
    <2>2. Spent(n) \in Nat /\ Spent(n)' \in Nat /\ Starts(n) \in Nat
      BY <2>1, SpentNumbers, StartsSum
    <2>3. Starts(n)' \in Nat
      <3>1. TypeOK'
        BY StepTyping DEF IInv
      <3>2. /\ IsFiniteSet(RowsOf(n)') /\ IsFiniteSet(CreatingOf(n)') /\ IsFiniteSet(NextOf(n)')
            /\ outgoing'[n] \in Nat
        <4>1. /\ RowsOf(n)' \subseteq RowIds /\ CreatingOf(n)' \subseteq Workers
              /\ NextOf(n)' \subseteq Slots
          BY DEF RowsOf, CreatingOf, NextOf, Used
        <4> QED
          BY <3>1, <4>1, FS_Subset, FiniteAssumption DEF TypeOK
      <3> QED
        BY <3>2, FS_CardinalityType DEF Starts, RowsOf, CreatingOf, NextOf
    <2>4. CASE Starts(n)' <= Starts(n)
      BY <1>1, <2>1, <2>2, <2>3, <2>4, SpentStep
    <2>5. CASE /\ Starts(n)' <= Starts(n) + 1
               /\ \E s \in Slots : Follows(s) /\ ManagerStep(s) /\ mgr'[s].next = n
      <3>1. Spent(n) + 1 <= Spent(n)'
        BY <1>1, <2>5, SpentStep
      <3> QED
        BY <2>1, <2>2, <2>3, <2>5, <3>1
    <2> QED
      BY <2>4, <2>5, StepStarts
  <1> QED
    BY <1>2, <1>3 DEF EachStartIsSpent

LEMMA InitCounted ==
  ASSUME Init
  PROVE  Counted
  <1>1. /\ TypeOK /\ history = {} /\ \A n \in Nodes : outgoing[n] = 0
        /\ \A s \in Slots : mgr[s].pc = "idle" /\ mgr[s].next = NoNode
        /\ \A w \in Workers : wrk[w].pc = "idle"
    BY InitTyping DEF Init, IdleSlot, IdleWorker
  <1>2. AtJoins
    BY <1>1 DEF AtJoins, RecordedIsPast, OneHot, Hot
  <1>3. ASSUME NEW n \in Nodes  PROVE Starts(n) <= Spent(n)
    <2>1. CreatingOf(n) = {} /\ NextOf(n) = {} /\ RowsOf(n) \subseteq {FirstRow}
      BY <1>1, BoundAssumption DEF CreatingOf, NextOf, RowsOf, Used, Init
    <2>2. n # Entry => RowsOf(n) = {}
      BY FirstRowTyped DEF RowsOf, Used, Init, EntryRow
    <2>3. Cardinality(RowsOf(n)) <= Entries(n)
      <3>1. CASE n = Entry
        <4>1. IsFiniteSet({FirstRow}) /\ Cardinality({FirstRow}) = 1
          BY FS_Singleton
        <4>2. Cardinality(RowsOf(n)) <= 1
          BY <2>1, <4>1, FS_Subset
        <4> QED
          BY <3>1, <4>2 DEF Entries
      <3>2. CASE n # Entry
        BY <2>2, <3>2, FS_EmptySet DEF Entries
      <3> QED
        BY <3>1, <3>2
    <2>4. Starts(n) = Cardinality(RowsOf(n)) /\ Cardinality(RowsOf(n)) \in Nat
      BY <1>1, <2>1, StartsSum, FS_EmptySet
    <2>5. Spent(n) \in Nat /\ Entries(n) <= Spent(n) /\ Entries(n) \in Nat
      BY SpentNumbers DEF Entries
    <2> QED
      BY <2>3, <2>4, <2>5
  <1> QED
    BY <1>2, <1>3 DEF Counted, EachStartIsSpent

LEMMA CountedUnchanged ==
  ASSUME UNCHANGED vars, Places, Counted
  PROVE  Places' /\ Counted'
  <1> USE DEF vars, tables, queues
  <1>1. Places'
    BY DEF Places, OnePlace, Handling, Producing, ReportedIsFinished, Placed, Finished, Used,
           DueIsUnfinished, TodoFromRow, TakenWhenFinished
  <1>2. OnceAtJoins' => OnceAtJoins
    BY DEF OnceAtJoins, Carries, Settled, Used
  <1>3. AtJoins => AtJoins'
    BY DEF AtJoins, RecordedIsPast, OneHot, Hot, Carries, Settled, Used, Before, Producing
  <1>4. EachStartIsSpent => EachStartIsSpent'
    <2>1. ASSUME NEW n  PROVE Starts(n)' = Starts(n)
      BY DEF Starts, Used
    <2>2. ASSUME NEW n  PROVE SpentFlows(n)' = SpentFlows(n)
      <3>1. \A r \in RowIds : Finished(r)' = Finished(r) /\ Before(r)' = Before(r)
        BY DEF Finished, Used, Before, Producing
      <3>2. \A r \in RowIds, f \in Flows : Pending(r, f)' = Pending(r, f)
        BY <3>1 DEF Pending, InHand
      <3> QED
        BY <3>1, <3>2 DEF SpentFlows
    <2>3. ASSUME NEW n  PROVE SpentJoins(n)' = SpentJoins(n)
      BY DEF SpentJoins, Passed, Hot
    <2>4. ASSUME NEW n  PROVE Spent(n)' = Spent(n)
      BY <2>2, <2>3 DEF Spent, Entries
    <2> QED
      BY <2>1, <2>4 DEF EachStartIsSpent
  <1> QED
    BY <1>1, <1>2, <1>3, <1>4 DEF Counted

\* What is spent has come to the node.
LEMMA SpentIsCredit ==
  ASSUME IInv, NEW n
  PROVE  Spent(n) <= Credit(n) /\ Credit(n) \in Nat
  <1>1. SpentFlows(n) \subseteq FlowTokens(n) /\ IsFiniteSet(FlowTokens(n))
    <2>1. SpentFlows(n) \subseteq FlowTokens(n)
      BY DEF SpentFlows, FlowTokens, Carries, Settled, Finished
    <2>2. FlowTokens(n) \subseteq RowIds \X Flows
      BY DEF FlowTokens
    <2>3. IsFiniteSet(RowIds \X Flows)
      BY FS_Product, FiniteAssumption
    <2> QED
      BY <2>1, <2>2, <2>3, FS_Subset
  <1>2. SpentJoins(n) \subseteq JoinTokens(n) /\ IsFiniteSet(JoinTokens(n))
    <2>1. /\ Cardinality(RowIds) \in Nat /\ Cardinality(RowIds) # 0
      BY FS_CardinalityType, FS_EmptySet, FiniteAssumption, BoundAssumption
    <2>2. ASSUME NEW f \in history  PROVE 1 <= Arrivals(f)
      <3> DEFINE A == {r \in RowIds : Carries(r, f)}
      <3>1. A # {}
        BY DEF IInv, Safe, TakenOnlyWhenSettled
      <3>2. IsFiniteSet(A)
        BY FS_Subset, FiniteAssumption
      <3> HIDE DEF A
      <3>3. Cardinality(A) \in Nat /\ Cardinality(A) # 0
        BY <3>1, <3>2, FS_CardinalityType, FS_EmptySet
      <3> QED
        BY <3>3 DEF Arrivals, A
    <2>3. SpentJoins(n) \subseteq JoinTokens(n)
      BY <2>1, <2>2 DEF SpentJoins, JoinTokens, Passed
    <2>4. JoinTokens(n) \subseteq Joins \X (1 .. Cardinality(RowIds))
      BY DEF JoinTokens
    <2>5. IsFiniteSet(Joins \X (1 .. Cardinality(RowIds)))
      <3>1. IsFiniteSet(1 .. Cardinality(RowIds))
        BY <2>1, FS_Interval
      <3> QED
        BY <3>1, FS_Product, FiniteAssumption
    <2> QED
      BY <2>3, <2>4, <2>5, FS_Subset
  <1>3. /\ Cardinality(SpentFlows(n)) <= Cardinality(FlowTokens(n))
        /\ Cardinality(SpentJoins(n)) <= Cardinality(JoinTokens(n))
        /\ Cardinality(FlowTokens(n)) \in Nat /\ Cardinality(JoinTokens(n)) \in Nat
    BY <1>1, <1>2, FS_Subset, FS_CardinalityType
  <1> QED
    BY <1>3, SpentFinite DEF Spent, Entries, Credit

(***************************************************************************)
(* No node starts more often than tokens have come to it: of two branches  *)
(* whose completions are handled at the same time one finds the join done, *)
(* for every schema whose joins are fed singly and every number of         *)
(* handlers, as long as no message is delivered a second time and no       *)
(* branch comes to its join twice.                                         *)
(***************************************************************************)
THEOREM StartsAreCounted ==
  JoinsFedSingly => (Spec /\ [][~Repeats]_vars => [](OnceAtJoins => NoExtraStart))
  <1> SUFFICES ASSUME JoinsFedSingly
               PROVE  Spec /\ [][~Repeats]_vars => [](OnceAtJoins => NoExtraStart)
    OBVIOUS
  <1> DEFINE Inv == Places /\ Counted
  <1>1. Init => Inv
    BY InitPlaces, InitCounted
  <1>2. IInv /\ Inv /\ [Next]_vars /\ [~Repeats]_vars => Inv'
    <2> SUFFICES ASSUME IInv, Inv, [Next]_vars, [~Repeats]_vars  PROVE Inv'
      OBVIOUS
    <2>1. CASE UNCHANGED vars
      BY <2>1, CountedUnchanged
    <2>2. CASE Next /\ ~Repeats
      BY <2>2, PlacesStep, CountedStep
    <2> QED
      BY <2>1, <2>2
  <1>3. IInv /\ Inv => (OnceAtJoins => NoExtraStart)
    <2> SUFFICES ASSUME IInv, EachStartIsSpent, NEW n \in Nodes  PROVE Starts(n) <= Credit(n)
      BY DEF NoExtraStart, Counted
    <2>1. /\ Starts(n) <= Spent(n) /\ TypeOK
          /\ Spent(n) <= Credit(n) /\ Credit(n) \in Nat
      BY SpentIsCredit DEF EachStartIsSpent, IInv
    <2>2. Starts(n) \in Nat /\ Spent(n) \in Nat
      BY <2>1, StartsSum, SpentNumbers
    <2> QED
      BY <2>1, <2>2
  <1> HIDE DEF Inv
  <1> QED
    BY <1>1, <1>2, <1>3, Invariance, PTL DEF Spec

===============================================================================
