---------------------------- MODULE WorkflowTokens ----------------------------
(***************************************************************************)
(* Properties of the engine that count or look ahead, and the engine as an *)
(* implementation of TokenFlow.                                            *)
(***************************************************************************)
EXTENDS WorkflowEngine

ASSUME FiniteAssumption ==
  /\ IsFiniteSet(RowIds) /\ IsFiniteSet(Slots) /\ IsFiniteSet(Workers)
  /\ IsFiniteSet(Flows) /\ IsFiniteSet(Joins)

\* Times node n has been started: its rows and the messages that ask for one.
Starts(n) ==
  outgoing[n]
  + Cardinality({r \in Used : rows[r].node = n})
  + Cardinality({w \in Workers : wrk[w].node = n /\ wrk[w].pc = "create"})
  + Cardinality({s \in Slots : mgr[s].next = n})

\* Times a token has come to the target of flow f.
Arrivals(f) == Cardinality({r \in RowIds : Carries(r, f)})

\* The tokens that have come to node n along a flow.
FlowTokens(n) == {t \in RowIds \X Flows : Carries(t[1], t[2]) /\ Target[t[2]] = n}

\* The rounds in which join j may let a token through to n: as many as its
\* slowest branch came.
JoinTokens(n) ==
  {t \in Joins \X (1 .. Cardinality(RowIds)) :
     /\ Target[JoinOut[t[1]]] = n
     /\ \A f \in Incoming[t[1]] : t[2] <= Arrivals(f)}

Credit(n) ==
  (IF n = Entry THEN 1 ELSE 0)
  + Cardinality(FlowTokens(n)) + Cardinality(JoinTokens(n))

(***************************************************************************)
(* No node starts more often than tokens have come to it: two branches     *)
(* whose completions are handled at the same time do not both find the     *)
(* join done, and an exclusive gateway does not open two branches.         *)
(***************************************************************************)
NoExtraStart == \A n \in Nodes : Starts(n) <= Credit(n)

\* A completion that carries flow f is in the manager's queue or hands.
BeingHandled(f) ==
  \E r \in RowIds :
    /\ Carries(r, f)
    /\ incoming[r] > 0 \/ \E s \in Slots : mgr[s].row = r

\* Somebody has node n: its row exists, is being created or is asked for.
Started(n) ==
  \/ outgoing[n] > 0
  \/ \E r \in Used : rows[r].node = n
  \/ \E w \in Workers : wrk[w].node = n
  \/ \E s \in Slots : mgr[s].next = n

(***************************************************************************)
(* What a flow leads to is started, or the message that will start it is   *)
(* still there, or the workflow is final, or an error has been reported;   *)
(* and a flow that leads to an end makes the workflow final.  Only an      *)
(* error inside a catch block drops a token without a trace in the         *)
(* database, and it drops no token but that handler's.  (Joins: below.)    *)
(***************************************************************************)
EveryTokenIsFollowed ==
  \A f \in history :
    Target[f] \notin Joins =>
      \/ final \/ flagged
      \/ BeingHandled(f)
      \/ Target[f] \in Nodes /\ Started(Target[f])
      \/ f \in droppedFlows \/ Target[f] \in droppedNodes

(***************************************************************************)
(* A parallel gateway done continues at its outgoing flow: of the branches *)
(* that arrive at the same time one, whichever the database puts last,     *)
(* finds the join done, even when its handler crashes half-way; again only *)
(* an error inside a catch block may end it silently.                      *)
(***************************************************************************)
DoneJoinContinues ==
  \A j \in Joins :
    Incoming[j] \subseteq history =>
      \/ final \/ flagged
      \/ \E f \in Incoming[j] : BeingHandled(f)
      \/ Target[JoinOut[j]] \in Nodes /\ Started(Target[JoinOut[j]])
      \/ Incoming[j] \cap droppedFlows # {} \/ Target[JoinOut[j]] \in droppedNodes

(***************************************************************************)
(* Stop all tasks and events in progress: a final workflow has none.       *)
(***************************************************************************)
FinalHasNothingInProgress == final => \A r \in Used : ~Unfinished(r)

(***************************************************************************)
(* A workflow whose users commit their tasks ends, or reports an error, or *)
(* a catch block has thrown.                                               *)
(***************************************************************************)
EndsOrReports ==
  <>(final \/ flagged \/ droppedFlows # {} \/ droppedNodes # {})

-------------------------------------------------------------------------------
\* The flows a row of node n can lead along.
FlowSets == [n \in Nodes |-> IF Kind[n] \in GatewayKinds THEN Outcomes(n)
                                                       ELSE {{First[n]}}]

Tokens == INSTANCE TokenFlow WITH taken <- history, over <- final,
                                  Results <- FlowSets

(***************************************************************************)
(* The manager and the services together walk the schema as TokenFlow      *)
(* says, whatever crashes, redeliveries and errors there are.              *)
(***************************************************************************)
ImplementsTokenFlow == Tokens!TokenSpec

===============================================================================
