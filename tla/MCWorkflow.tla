------------------------------ MODULE MCWorkflow ------------------------------
(***************************************************************************)
(* Schemas for model checking WorkflowEngine.                              *)
(***************************************************************************)
EXTENDS WorkflowTokens

\* t -> g (parallel) -> a, b -> join j -> x (exclusive) -> d -> end, or end
ForkNodes == {"t", "g", "a", "b", "x", "d"}
ForkFlows == {"tg", "ga", "gb", "aj", "bj", "jx", "xd", "xe", "de"}
ForkKind  == [t |-> "task", g |-> "parallel", a |-> "task", b |-> "event",
              x |-> "exclusive", d |-> "delay"]
ForkOut   == [t |-> {"tg"}, g |-> {"ga", "gb"}, a |-> {"aj"}, b |-> {"bj"},
              x |-> {"xd", "xe"}, d |-> {"de"}]
ForkFirst == [t |-> "tg", g |-> "ga", a |-> "aj", b |-> "bj", x |-> "xd", d |-> "de"]
ForkTarget == [tg |-> "g", ga |-> "a", gb |-> "b", aj |-> "j", bj |-> "j",
               jx |-> "x", xd |-> "d", xe |-> "end", de |-> "end"]
ForkIncoming == [j |-> {"aj", "bj"}]
ForkJoinOut  == [j |-> "jx"]

\* t -> g (parallel) -> a, b; a -> end at once, b -> c -> end
RaceNodes == {"t", "g", "a", "b"}
RaceFlows == {"tg", "ga", "gb", "ae", "be"}
RaceKind  == [t |-> "task", g |-> "parallel", a |-> "event", b |-> "task"]
RaceOut   == [t |-> {"tg"}, g |-> {"ga", "gb"}, a |-> {"ae"}, b |-> {"be"}]
RaceFirst == [t |-> "tg", g |-> "ga", a |-> "ae", b |-> "be"]
RaceTarget == [tg |-> "g", ga |-> "a", gb |-> "b", ae |-> "end", be |-> "end"]
RaceJoins == {}
RaceIncoming == <<>>
RaceJoinOut == <<>>

\* t -> g (parallel) -> a, u (committed as it is created) -> join j -> end
FaultNodes == {"t", "g", "a", "u"}
FaultFlows == {"tg", "ga", "gu", "aj", "uj", "je"}
FaultKind  == [t |-> "task", g |-> "parallel", a |-> "event", u |-> "autotask"]
FaultOut   == [t |-> {"tg"}, g |-> {"ga", "gu"}, a |-> {"aj"}, u |-> {"uj"}]
FaultFirst == [t |-> "tg", g |-> "ga", a |-> "aj", u |-> "uj"]
FaultTarget == [tg |-> "g", ga |-> "a", gu |-> "u", aj |-> "j", uj |-> "j",
                je |-> "end"]
FaultIncoming == [j |-> {"aj", "uj"}]
FaultJoinOut  == [j |-> "je"]

===============================================================================
