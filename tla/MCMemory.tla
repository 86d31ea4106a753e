------------------------------- MODULE MCMemory -------------------------------
(* Instances of MemoryExecution for TLC: three plans, one per way the epochs  *)
(* of a request are driven.                                                   *)
EXTENDS MemoryExecution

Instance(site, id, upper, begin, end, alias) ==
    [site |-> site, id |-> id, upper |-> upper, begin |-> begin, end |-> end,
     alias |-> alias]

\* Weights of two stages share their storage; an activation lives throughout.
Shared ==
    {Instance("weights", 1, 2, 0, 1, 1), Instance("weights", 2, 1, 1, 2, 1),
     Instance("activation", 1, 1, 0, 2, 0)}

\* The same without the alias group: only the epochs keep the two stages apart.
Sequential ==
    {Instance("weights", 1, 2, 0, 1, 0), Instance("weights", 2, 2, 1, 2, 0),
     Instance("activation", 1, 1, 0, 2, 0)}

Binding(key, at, safe, drained, terminal) ==
    [key |-> key, epoch |-> at, safe |-> safe, drained |-> drained,
     terminal |-> terminal]

\* An event inside a stage, the drain between the stages, the terminal drain.
Schedule ==
    <<Binding("stage", 0, TRUE, FALSE, FALSE),
      Binding("between", 1, TRUE, TRUE, FALSE),
      Binding("end", 1, TRUE, TRUE, TRUE)>>

AutomaticPlan == [instances |-> Shared, schedule |-> <<>>, explicit |-> FALSE]
ExplicitPlan == [instances |-> Sequential, schedule |-> <<>>, explicit |-> TRUE]
ScheduledPlan == [instances |-> Shared, schedule |-> Schedule, explicit |-> TRUE]

AllPlans == {AutomaticPlan, ExplicitPlan, ScheduledPlan}
===============================================================================
