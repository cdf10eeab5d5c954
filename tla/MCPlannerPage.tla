---------------------------- MODULE MCPlannerPage ----------------------------
EXTENDS PlannerPage, TLC

CONSTANTS i1, i2, i3, m1, m2

\* One item is made by both machines, one by the second alone and one by none. One
\* time is not a multiple of sixteen thousandths, as 0.5 s is not.
MCItems == {i1, i2, i3}
MCMachines == {m1, m2}
MCProducers == (i1 :> <<m1, m2>>) @@ (i2 :> <<m2>>) @@ (i3 :> <<>>)
MCCraftTime == (i1 :> 500) @@ (i2 :> 3200) @@ (i3 :> 1000)
MCMachineData ==
    (m1 :> [speed |-> 1250, productivity |-> 500, quality |-> 0, slots |-> 2])
      @@ (m2 :> [speed |-> 750, productivity |-> 0, quality |-> 0, slots |-> 1])
TotalAndLegendary == {TotalBox, QualityLegendary}
=============================================================================
