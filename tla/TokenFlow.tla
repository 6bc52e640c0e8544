------------------------------- MODULE TokenFlow -------------------------------
(***************************************************************************)
(* What walking a BPMN schema means, with no services, queues or tables:   *)
(* a node that has been reached may let a token pass along one of its      *)
(* allowed sets of flows, a join passes one when each of its incoming      *)
(* flows has been taken, and the workflow is over when an end is reached.  *)
(***************************************************************************)
CONSTANTS Nodes, Joins, Flows, End, Entry, Target, Incoming, JoinOut,
          Results  \* Results[n]: the sets of flows n may pass tokens along

VARIABLES taken, \* flows a token has passed along
          over   \* the workflow has ended

tokenVars == <<taken, over>>

\* A token stands before x, a node or the end.
TokenAt(x) ==
  \/ \E f \in taken : Target[f] = x
  \/ \E j \in Joins : Incoming[j] \subseteq taken /\ Target[JoinOut[j]] = x

TokenInit == taken = {} /\ over = FALSE

Pass(n) ==
  /\ n = Entry \/ TokenAt(n)
  /\ \E S \in Results[n] : taken' = taken \cup S
  /\ UNCHANGED over

Finish ==
  /\ TokenAt(End)
  /\ over' = TRUE
  /\ UNCHANGED taken

TokenNext == Finish \/ \E n \in Nodes : Pass(n)

TokenSpec == TokenInit /\ [][TokenNext]_tokenVars

===============================================================================
