---------------------------- MODULE WorkflowEngine ----------------------------
(***************************************************************************)
(* One workflow of the BPMN engine: the manager, which walks the schema,   *)
(* and the task, gateway and event services, which it reaches through      *)
(* RabbitMQ.  All of them share the tables of the `bpmn' database.         *)
(*                                                                         *)
(* A handler is cut into one action per database statement or message it   *)
(* sends, since other handlers run between two of them: the services have  *)
(* several replicas and each replica handles up to maxHandlingMessages     *)
(* messages at once.  A message stays unacknowledged while its handler     *)
(* runs, so a handler that crashes gives it back to its queue.             *)
(***************************************************************************)
EXTENDS Integers, FiniteSets

CONSTANTS
  Nodes,      \* tasks, events and (opening) gateways of the schema
  Joins,      \* closing parallel gateways, "gateway-N-end"
  Flows,      \* bpmn:sequenceFlow identifiers
  End,        \* any end event
  Entry,      \* the entry task
  Kind,       \* what a node is, see Kinds
  Out,        \* Out[n]: the flows that leave node n
  First,      \* First[n]: the flow that sequenceFlow.find yields for n
  Target,     \* Target[f]: where flow f leads
  Incoming,   \* Incoming[j]: bpmn:incoming of join j
  JoinOut,    \* JoinOut[j]: first bpmn:outgoing of join j
  Retryable,  \* nodes whose template lists retryIfError
  Tolerant,   \* event nodes whose template has notFailOnError
  RowIds,     \* bound: rows of tasks, gateways and events
  NoRow,      \* absent row, absent row identifier
  NoNode,     \* absent node
  Slots,      \* messages the manager replicas handle at once
  Workers,    \* messages the services handle at once
  MaxCrashes, \* bound: crashes of handlers
  MaxErrors,  \* bound: exceptions in handlers
  MaxFaults   \* bound: crashes and exceptions together

Kinds == {"task", "autotask", "event", "delay", "parallel", "exclusive"}
TaskKinds == {"task", "autotask"}
EventKinds == {"event", "delay"}
GatewayKinds == {"parallel", "exclusive"}

ASSUME SchemaAssumption ==
  /\ Entry \in Nodes
  /\ Kind \in [Nodes -> Kinds]
  /\ Kind[Entry] \in TaskKinds
  /\ Out \in [Nodes -> SUBSET Flows]
  /\ First \in [Nodes -> Flows]
  /\ \A n \in Nodes : First[n] \in Out[n]
  /\ Target \in [Flows -> Nodes \cup Joins \cup {End}]
  /\ Incoming \in [Joins -> SUBSET Flows]
  /\ JoinOut \in [Joins -> Flows]
  /\ Retryable \subseteq Nodes
  /\ Tolerant \subseteq {n \in Nodes : Kind[n] \in EventKinds}
  /\ End \notin Nodes \cup Joins
  /\ Nodes \cap Joins = {}

(***************************************************************************)
(* Rows.  "draft" is a task inserted by a create() that has not finished,  *)
(* "failed" an event saved with done = false by the error path.            *)
(***************************************************************************)
RowStates == {"draft", "open", "finished", "failed", "cancelled"}
Row == [node : Nodes, state : RowStates, result : SUBSET Flows]

ASSUME BoundAssumption ==
  /\ RowIds # {}
  /\ NoRow \notin RowIds
  /\ NoRow \notin Row
  /\ NoNode \notin Nodes
  /\ MaxCrashes \in Nat
  /\ MaxErrors \in Nat
  /\ MaxFaults \in Nat

VARIABLES
  rows,     \* tables tasks, gateways and events
  history,  \* flows named in workflows.data.messages
  final,    \* workflows.is_final
  flagged,  \* workflows.has_unresolved_errors
  incoming, \* bpmn-manager-incoming: deliverable copies of {..Id: r}
  outgoing, \* bpmn-task-, -gateway- and -event-incoming: copies per node
  mgr,      \* handlers of the manager
  wrk,      \* handlers of the services
  due,      \* delays the daemon has read and is about to set done
  toSend,   \* rows set finished whose message is not sent yet
  crashes, errors,
  droppedFlows, \* history: flows of completions that only a log line names
  droppedNodes  \* history: nodes asked for that only a log line names

tables == <<rows, history, final, flagged>>
queues == <<incoming, outgoing>>
faults == <<crashes, errors, droppedFlows, droppedNodes>>
vars == <<tables, queues, mgr, wrk, due, toSend, faults>>

Used == {r \in RowIds : rows[r] # NoRow}
Free == RowIds \ Used
NextRow == CHOOSE r \in RowIds : r \in Free

Unfinished(r) == rows[r].state \in {"draft", "open", "failed"}

Insert(r, n, state, result) ==
  rows' = [rows EXCEPT ![r] = [node |-> n, state |-> state, result |-> result]]

\* The flows the manager follows out of a row: a gateway row holds them,
\* a task or an event has one flow in the schema.
Sequences(row) ==
  IF Kind[row.node] \in GatewayKinds THEN row.result ELSE {First[row.node]}

\* The results a gateway of node n may store; without formulas, or without a
\* flow for its formula, an exclusive one stores none.
Outcomes(n) ==
  IF Kind[n] = "exclusive" THEN {{}} \cup {{f} : f \in Out[n]} ELSE {Out[n]}

(***************************************************************************)
(* Queues hold copies of messages.  Their order is left open: several      *)
(* messages are unacknowledged at once and any of them may come back.      *)
(***************************************************************************)
Deliver(queue, x) == [queue EXCEPT ![x] = @ + 1]

RemoveTwice(queue, x) == [queue EXCEPT ![x] = @ - 2]  \* mutant: acks two
Remove(queue, x) == [queue EXCEPT ![x] = @ - 1]

\* The broker takes back what a lost consumer has not acknowledged.
RequeueNone(queue, x) == queue  \* mutant: noAck
Requeue(queue, x) == Deliver(queue, x)

(***************************************************************************)
(* The manager.                                                            *)
(***************************************************************************)
MgrStates == {"idle", "push", "loop", "send", "cancel"}
MgrSlot == [pc   : MgrStates,
            row  : RowIds \cup {NoRow},
            todo : SUBSET Flows,                 \* currentSequences left
            seen : SUBSET Flows,                 \* of the workflow it holds
            next : Nodes \cup {NoNode},          \* message about to be sent
            stop : SUBSET {"tasks", "events"}]   \* updates still to come

IdleSlot == [pc |-> "idle", row |-> NoRow, todo |-> {}, seen |-> {},
             next |-> NoNode, stop |-> {}]

\* Parallel gateway done: every incoming flow is in the messages it holds.
JoinDoneBySome(j, seen) == Incoming[j] \cap seen # {}  \* mutant: some for every
JoinDone(j, seen) == Incoming[j] \subseteq seen

\* Where flow f leads a handler that holds the messages of `seen'.
Goal(f, seen) ==
  IF Target[f] \in Joins /\ JoinDone(Target[f], seen)
    THEN Target[JoinOut[Target[f]]]
    ELSE Target[f]

\* The messages of the workflow the handler holds when it looks at a join.
HeldFresh(s) == history  \* mutant: the workflow is read again for the check
Held(s) == mgr[s].seen

\* The messages the statement that appends the 'in' message returns.
ReturnedBefore(s) == history  \* mutant: what findById has read before it
Returned(s) == history \cup mgr[s].todo

\* The flows left when f has been dealt with.
Rest(s, f) == mgr[s].todo \ {f}

\* A completion message is delivered and its row is loaded.
Receive(s, r) ==
  /\ mgr[s].pc = "idle"
  /\ incoming[r] > 0
  /\ incoming' = Remove(incoming, r)
  /\ mgr' = [mgr EXCEPT ![s] = [IdleSlot EXCEPT !.pc = "push", !.row = r,
                                                !.todo = Sequences(rows[r])]]
  /\ UNCHANGED <<tables, outgoing, wrk, due, toSend, faults>>

\* A final workflow is not walked any further.
ToWalk(s) == IF final THEN {} ELSE mgr[s].todo

\* The 'in' message is appended and the updated workflow is returned.
PushIn(s) ==
  /\ mgr[s].pc = "push"
  /\ history' = history \cup mgr[s].todo
  /\ mgr' = [mgr EXCEPT ![s] = [@ EXCEPT !.pc = "loop",
                                        !.todo = ToWalk(s),
                                        !.seen = Returned(s)]]
  /\ UNCHANGED <<rows, final, flagged, queues, wrk, due, toSend, faults>>

\* The flow leads to a join that is not complete, or, past a complete join,
\* to another join: the code looks for no further position there.
Skip(s, f) ==
  /\ mgr[s].pc = "loop"
  /\ f \in mgr[s].todo
  /\ Goal(f, Held(s)) \in Joins
  /\ mgr' = [mgr EXCEPT ![s].todo = Rest(s, f)]
  /\ UNCHANGED <<tables, queues, wrk, due, toSend, faults>>

\* The 'out' message is appended: it names the same flows as the 'in'
\* message did, and the handler now holds the workflow as it is by then.
PushOut(s, f) ==
  /\ mgr[s].pc = "loop"
  /\ f \in mgr[s].todo
  /\ Goal(f, Held(s)) \in Nodes
  /\ mgr' = [mgr EXCEPT ![s] = [@ EXCEPT !.pc = "send",
                                        !.todo = Rest(s, f),
                                        !.next = Goal(f, Held(s)),
                                        !.seen = history]]
  /\ UNCHANGED <<tables, queues, wrk, due, toSend, faults>>

\* The message goes to the queue of the service of its kind.
SendOut(s) ==
  /\ mgr[s].pc = "send"
  /\ outgoing' = Deliver(outgoing, mgr[s].next)
  /\ mgr' = [mgr EXCEPT ![s] = [@ EXCEPT !.pc = "loop", !.next = NoNode]]
  /\ UNCHANGED <<tables, incoming, wrk, due, toSend, faults>>

\* The flow leads to an end event: finishWorkflow starts.
BeginFinish(s, f) ==
  /\ mgr[s].pc = "loop"
  /\ f \in mgr[s].todo
  /\ Goal(f, Held(s)) = End
  /\ mgr' = [mgr EXCEPT ![s] = [@ EXCEPT !.pc = "cancel", !.todo = {},
                                        !.stop = {"tasks", "events"}]]
  /\ UNCHANGED <<tables, queues, wrk, due, toSend, faults>>

Cancelled(kinds) ==
  [r \in RowIds |->
     IF r \in Used /\ Unfinished(r) /\ Kind[rows[r].node] \in kinds
       THEN [rows[r] EXCEPT !.state = "cancelled"]
       ELSE rows[r]]

CancelAllInProgress(s, table, kinds) ==
  /\ mgr[s].pc = "cancel"
  /\ table \in mgr[s].stop
  /\ rows' = Cancelled(kinds)
  /\ mgr' = [mgr EXCEPT ![s].stop = @ \ {table}]
  /\ UNCHANGED <<history, final, flagged, queues, wrk, due, toSend, faults>>

CancelTasks(s)  == CancelAllInProgress(s, "tasks", TaskKinds)
CancelEvents(s) == CancelAllInProgress(s, "events", EventKinds)

SetStatusFinal(s) ==
  /\ mgr[s].pc = "cancel"
  /\ mgr[s].stop = {}
  /\ final' = TRUE
  /\ mgr' = [mgr EXCEPT ![s].pc = "loop"]
  /\ UNCHANGED <<rows, history, flagged, queues, wrk, due, toSend, faults>>

\* Handled: the message is acknowledged.
AckIn(s) ==
  /\ mgr[s].pc = "loop"
  /\ mgr[s].todo = {}
  /\ mgr' = [mgr EXCEPT ![s] = IdleSlot]
  /\ UNCHANGED <<tables, queues, wrk, due, toSend, faults>>

\* An exception anywhere in the handler is caught, the workflow is flagged
\* and the message counts as handled; a second one, in the catch block, is
\* only logged, and the flows of the message are dropped.
ManagerError(s) ==
  /\ mgr[s].pc # "idle"
  /\ errors' \in {errors + 1, errors + 2}
  /\ errors' <= MaxErrors
  /\ crashes + errors' <= MaxFaults
  /\ \/ /\ errors' = errors + 1
        /\ flagged' = TRUE
        /\ UNCHANGED droppedFlows
     \/ /\ errors' = errors + 2
        /\ droppedFlows' = droppedFlows \cup Sequences(rows[mgr[s].row])
        /\ UNCHANGED flagged
  /\ mgr' = [mgr EXCEPT ![s] = IdleSlot]
  /\ UNCHANGED <<rows, history, final, queues, wrk, due, toSend, crashes,
                 droppedNodes>>

\* The process dies or loses its channel: the message is delivered again.
ManagerCrash(s) ==
  /\ mgr[s].pc # "idle"
  /\ crashes < MaxCrashes
  /\ crashes + errors < MaxFaults
  /\ crashes' = crashes + 1
  /\ incoming' = Requeue(incoming, mgr[s].row)
  /\ mgr' = [mgr EXCEPT ![s] = IdleSlot]
  /\ UNCHANGED <<tables, outgoing, wrk, due, toSend, errors, droppedFlows,
                 droppedNodes>>

(***************************************************************************)
(* The task, gateway and event services.                                   *)
(***************************************************************************)
WrkStates == {"idle", "create", "fill", "produce", "ack", "catch", "report"}
WrkSlot == [pc : WrkStates, node : Nodes \cup {NoNode},
            row : RowIds \cup {NoRow}]

IdleWorker == [pc |-> "idle", node |-> NoNode, row |-> NoRow]

Take(w, n) ==
  /\ wrk[w].pc = "idle"
  /\ outgoing[n] > 0
  /\ outgoing' = Remove(outgoing, n)
  /\ wrk' = [wrk EXCEPT ![w] = [IdleWorker EXCEPT !.pc = "create", !.node = n]]
  /\ UNCHANGED <<tables, incoming, mgr, due, toSend, faults>>

\* GatewayBusiness.createFromMessage evaluates the gateway and saves it.
CreateGateway(w) ==
  /\ wrk[w].pc = "create"
  /\ Kind[wrk[w].node] \in GatewayKinds
  /\ Free # {}
  /\ \E result \in Outcomes(wrk[w].node) :
       Insert(NextRow, wrk[w].node, "finished", result)
  /\ wrk' = [wrk EXCEPT ![w] = [@ EXCEPT !.pc = "produce", !.row = NextRow]]
  /\ UNCHANGED <<history, final, flagged, queues, mgr, due, toSend, faults>>

\* A delay waits for its due date, any other event is done when it is saved.
EventState(n) == IF Kind[n] = "delay" THEN "open" ELSE "finished"

\* Whether the event service reports the event it has saved.
ReportsAlways(n) == TRUE  \* mutant: resultContext.done is not looked at
ReportsAtOnce(n) == Kind[n] # "delay"

\* EventBusiness.createFromMessage saves the event.
CreateEvent(w) ==
  /\ wrk[w].pc = "create"
  /\ Kind[wrk[w].node] \in EventKinds
  /\ Free # {}
  /\ Insert(NextRow, wrk[w].node, EventState(wrk[w].node), {})
  /\ wrk' = [wrk EXCEPT ![w] = [@ EXCEPT
                !.pc = IF ReportsAtOnce(wrk[w].node) THEN "produce" ELSE "ack",
                !.row = NextRow]]
  /\ UNCHANGED <<history, final, flagged, queues, mgr, due, toSend, faults>>

\* TaskBusiness.create inserts the task; is_final is not looked at.
CreateTask(w) ==
  /\ wrk[w].pc = "create"
  /\ Kind[wrk[w].node] \in TaskKinds
  /\ Free # {}
  /\ Insert(NextRow, wrk[w].node, "draft", {})
  /\ wrk' = [wrk EXCEPT ![w] = [@ EXCEPT !.pc = "fill", !.row = NextRow]]
  /\ UNCHANGED <<history, final, flagged, queues, mgr, due, toSend, faults>>

\* ... creates and fills its document, and with autoCommit finishes it; a
\* task finished or cancelled meanwhile fails the compare-and-set.
Opened(state) == IF state = "draft" THEN "open" ELSE state

FillTask(w) ==
  /\ wrk[w].pc = "fill"
  /\ LET r == wrk[w].row IN
       IF Kind[wrk[w].node] = "autotask"
         THEN /\ rows[r].state = "draft"
              /\ rows' = [rows EXCEPT ![r].state = "finished"]
              /\ wrk' = [wrk EXCEPT ![w].pc = "produce"]
         ELSE /\ rows' = [rows EXCEPT ![r].state = Opened(@)]
              /\ wrk' = [wrk EXCEPT ![w].pc = "ack"]
  /\ UNCHANGED <<history, final, flagged, queues, mgr, due, toSend, faults>>

\* The completion message is sent to the manager.
Produce(w) ==
  /\ wrk[w].pc \in {"produce", "report"}
  /\ incoming' = Deliver(incoming, wrk[w].row)
  /\ wrk' = [wrk EXCEPT ![w].pc = "ack"]
  /\ UNCHANGED <<tables, outgoing, mgr, due, toSend, faults>>

AckOut(w) ==
  /\ wrk[w].pc = "ack"
  /\ wrk' = [wrk EXCEPT ![w] = IdleWorker]
  /\ UNCHANGED <<tables, queues, mgr, due, toSend, faults>>

\* An exception ends the handler's try block.  After the row is saved it may
\* come from an unsent message, a task is still given its draft's expiry then.
WorkerError(w) ==
  /\ \/ wrk[w].pc \in {"create", "fill", "produce"}
     \/ wrk[w].pc = "ack" /\ Kind[wrk[w].node] \in TaskKinds
  /\ errors < MaxErrors
  /\ crashes + errors < MaxFaults
  /\ errors' = errors + 1
  /\ wrk' = [wrk EXCEPT ![w].pc = "catch"]
  /\ UNCHANGED <<tables, queues, mgr, due, toSend, crashes, droppedFlows,
                 droppedNodes>>

\* So does the compare-and-set of an autoCommit task that is finished already.
AutoCommitRefused(w) ==
  /\ wrk[w].pc = "fill"
  /\ Kind[wrk[w].node] = "autotask"
  /\ rows[wrk[w].row].state # "draft"
  /\ wrk' = [wrk EXCEPT ![w].pc = "catch"]
  /\ UNCHANGED <<tables, queues, mgr, due, toSend, faults>>

(* What the catch blocks do; the message counts as handled after each.     *)

\* The message is put on a postponed queue, which leads back to this one; a
\* task flags the workflow all the same, an event saves a failed row.
RetryLater(w) ==
  /\ wrk[w].pc = "catch"
  /\ wrk[w].node \in Retryable
  /\ outgoing' = Deliver(outgoing, wrk[w].node)
  /\ \/ /\ Kind[wrk[w].node] \in TaskKinds
        /\ flagged' = TRUE
        /\ UNCHANGED rows
     \/ /\ Kind[wrk[w].node] \in EventKinds
        /\ Free # {}
        /\ Insert(NextRow, wrk[w].node, "failed", {})
        /\ UNCHANGED flagged
  /\ wrk' = [wrk EXCEPT ![w] = IdleWorker]
  /\ UNCHANGED <<history, final, incoming, mgr, due, toSend, faults>>

\* notFailOnError: a failed row is saved and reported as if it had succeeded.
CarryOn(w) ==
  /\ wrk[w].pc = "catch"
  /\ wrk[w].node \in Tolerant
  /\ Free # {}
  /\ Insert(NextRow, wrk[w].node, "failed", {})
  /\ wrk' = [wrk EXCEPT ![w] = [@ EXCEPT !.pc = "report", !.row = NextRow]]
  /\ UNCHANGED <<history, final, flagged, queues, mgr, due, toSend, faults>>

\* Otherwise the workflow is flagged.
GiveUpSilently(w) ==  \* mutant: setError is left out
  /\ wrk[w].pc = "catch"
  /\ wrk[w].node \notin Tolerant
  /\ wrk' = [wrk EXCEPT ![w] = IdleWorker]
  /\ UNCHANGED <<tables, queues, mgr, due, toSend, faults>>

GiveUp(w) ==
  /\ wrk[w].pc = "catch"
  /\ wrk[w].node \notin Tolerant
  /\ flagged' = TRUE
  /\ wrk' = [wrk EXCEPT ![w] = IdleWorker]
  /\ UNCHANGED <<rows, history, final, queues, mgr, due, toSend, faults>>

\* Where a catch block throws: while it saves, sends or flags something, and,
\* for an event, when the exception came before its template was read, since
\* getRetryInfo then looks for retryIfError in an undefined schema.  (A task's
\* catch block that cannot read the template ends the process: WorkerCrash.)
Unguarded(w) ==
  \/ wrk[w].pc \in {"catch", "report"}
  \/ wrk[w].pc = "create" /\ Kind[wrk[w].node] \in EventKinds

\* An exception in the catch block itself is only logged: nobody will ask for
\* the node again, and the workflow is not flagged.
ErrorPathFails(w) ==
  /\ Unguarded(w)
  /\ errors < MaxErrors
  /\ crashes + errors < MaxFaults
  /\ errors' = errors + 1
  /\ droppedNodes' = droppedNodes \cup {wrk[w].node}
  /\ wrk' = [wrk EXCEPT ![w] = IdleWorker]
  /\ UNCHANGED <<tables, queues, mgr, due, toSend, crashes, droppedFlows>>

WorkerCrash(w) ==
  /\ wrk[w].pc # "idle"
  /\ crashes < MaxCrashes
  /\ crashes + errors < MaxFaults
  /\ crashes' = crashes + 1
  /\ outgoing' = Requeue(outgoing, wrk[w].node)
  /\ wrk' = [wrk EXCEPT ![w] = IdleWorker]
  /\ UNCHANGED <<tables, incoming, mgr, due, toSend, errors, droppedFlows,
                 droppedNodes>>

(***************************************************************************)
(* What finishes rows later: users commit tasks, the daemon wakes delays.  *)
(***************************************************************************)

\* The compare-and-set of models/task setStatusFinished.
Commit(r) ==
  /\ r \in Used
  /\ Kind[rows[r].node] \in TaskKinds
  /\ rows[r].state = "open"
  /\ rows' = [rows EXCEPT ![r].state = "finished"]
  /\ toSend' = toSend \cup {r}
  /\ UNCHANGED <<history, final, flagged, queues, mgr, wrk, due, faults>>

\* The daemon locks and reads a delay whose due date has passed ...
DaemonPick(r) ==
  /\ r \in Used
  /\ Kind[rows[r].node] = "delay"
  /\ rows[r].state = "open"
  /\ due' = due \cup {r}
  /\ UNCHANGED <<tables, queues, mgr, wrk, toSend, faults>>

\* ... and sets it done, whatever has become of it since.
DaemonSetDone(r) ==
  /\ r \in due
  /\ rows' = [rows EXCEPT ![r].state = "finished"]
  /\ due' = due \ {r}
  /\ toSend' = toSend \cup {r}
  /\ UNCHANGED <<history, final, flagged, queues, mgr, wrk, faults>>

SendCompletion(r) ==
  /\ r \in toSend
  /\ incoming' = Deliver(incoming, r)
  /\ toSend' = toSend \ {r}
  /\ UNCHANGED <<tables, outgoing, mgr, wrk, due, faults>>

-------------------------------------------------------------------------------
\* The entry task was created together with the workflow by a user.
FirstRow == CHOOSE r \in RowIds : TRUE
EntryRow == [node |-> Entry, state |-> "open", result |-> {}]

Init ==
  /\ rows = [r \in RowIds |-> IF r = FirstRow THEN EntryRow ELSE NoRow]
  /\ history = {}
  /\ final = FALSE
  /\ flagged = FALSE
  /\ incoming = [r \in RowIds |-> 0]
  /\ outgoing = [n \in Nodes |-> 0]
  /\ mgr = [s \in Slots |-> IdleSlot]
  /\ wrk = [w \in Workers |-> IdleWorker]
  /\ due = {}
  /\ toSend = {}
  /\ crashes = 0
  /\ errors = 0
  /\ droppedFlows = {}
  /\ droppedNodes = {}

ManagerStep(s) ==
  \/ \E r \in RowIds : Receive(s, r)
  \/ PushIn(s)
  \/ \E f \in Flows : Skip(s, f) \/ PushOut(s, f) \/ BeginFinish(s, f)
  \/ SendOut(s)
  \/ CancelTasks(s)
  \/ CancelEvents(s)
  \/ SetStatusFinal(s)
  \/ AckIn(s)

WorkerStep(w) ==
  \/ \E n \in Nodes : Take(w, n)
  \/ CreateGateway(w)
  \/ CreateEvent(w)
  \/ CreateTask(w)
  \/ FillTask(w)
  \/ AutoCommitRefused(w)
  \/ Produce(w)
  \/ AckOut(w)
  \/ RetryLater(w)
  \/ CarryOn(w)
  \/ GiveUp(w)

RowStep(r) ==
  \/ Commit(r)
  \/ DaemonPick(r)
  \/ DaemonSetDone(r)
  \/ SendCompletion(r)

Fault ==
  \/ \E s \in Slots : ManagerError(s) \/ ManagerCrash(s)
  \/ \E w \in Workers : WorkerError(w) \/ ErrorPathFails(w) \/ WorkerCrash(w)

Next ==
  \/ \E s \in Slots : ManagerStep(s)
  \/ \E w \in Workers : WorkerStep(w)
  \/ \E r \in RowIds : RowStep(r)
  \/ Fault

Spec == Init /\ [][Next]_vars

-------------------------------------------------------------------------------
(***************************************************************************)
(* Fairness.  RabbitMQ redelivers a message until it is acknowledged and    *)
(* node runs every handler it has started, so a handler that can go on     *)
(* does.  That users commit their tasks and that due dates come is the     *)
(* environment's part of RowStep.                                          *)
(***************************************************************************)
Fairness ==
  /\ \A s \in Slots : WF_vars(ManagerStep(s))
  /\ \A w \in Workers : WF_vars(WorkerStep(w))
  /\ \A r \in RowIds : WF_vars(RowStep(r))

FairSpec == Spec /\ Fairness

-------------------------------------------------------------------------------
TypeOK ==
  /\ rows \in [RowIds -> Row \cup {NoRow}]
  /\ history \subseteq Flows
  /\ final \in BOOLEAN
  /\ flagged \in BOOLEAN
  /\ incoming \in [RowIds -> Nat]
  /\ outgoing \in [Nodes -> Nat]
  /\ mgr \in [Slots -> MgrSlot]
  /\ wrk \in [Workers -> WrkSlot]
  /\ due \subseteq RowIds
  /\ toSend \subseteq RowIds
  /\ crashes \in 0 .. MaxCrashes
  /\ errors \in 0 .. MaxErrors
  /\ droppedFlows \subseteq Flows
  /\ droppedNodes \subseteq Nodes

\* The schema allows node n to start, going by the flows recorded so far.
Reached(n) ==
  \/ n = Entry
  \/ \E f \in history : Target[f] = n
  \/ \E j \in Joins : /\ Incoming[j] \subseteq history
                      /\ Target[JoinOut[j]] = n

EndReached ==
  \/ \E f \in history : Target[f] = End
  \/ \E j \in Joins : /\ Incoming[j] \subseteq history
                      /\ Target[JoinOut[j]] = End

\* Row r has been worked off and its flows lead on.
Settled(r) == r \in Used /\ rows[r].state \notin {"draft", "open"}

Carries(r, f) == Settled(r) /\ f \in Sequences(rows[r])

(***************************************************************************)
(* No task, event or gateway exists, or is even asked for, before the      *)
(* schema has been walked up to it: in particular nothing behind a join    *)
(* starts before all of the join's branches have arrived, and the workflow *)
(* is final only once an end event is reached, whatever crashes,           *)
(* redeliveries and errors the handlers go through.                        *)
(***************************************************************************)
StartedOnlyWhenReached ==
  /\ \A r \in Used : Reached(rows[r].node)
  /\ \A n \in Nodes : outgoing[n] > 0 => Reached(n)
  /\ final => EndReached

(***************************************************************************)
(* A flow is recorded in workflows.data.messages only if the element it    *)
(* leaves has been worked off and, for a gateway, has chosen it: no branch *)
(* counts as arrived at a join while its last task is still open.          *)
(***************************************************************************)
TakenOnlyWhenSettled == \A f \in history : \E r \in RowIds : Carries(r, f)

===============================================================================
