------------------------------ MODULE MCPlanner ------------------------------
EXTENDS Planner

MCInput(target, productivity, machine, recycler, recycled) ==
    [TargetQuality |-> target, Productivity |-> productivity,
     MachineQuality |-> machine, RecyclerQuality |-> recycler,
     craftRate |-> 2, recyclerPerSecond |-> recycled]

\* No loop at all, a loop of two tiers, one of three, one that returns all it is
\* given and so never settles, and one whose recyclers take nothing.
MCInputs == {MCInput(0, 0, 2, 0, 3), MCInput(1, 50, 2, 0, 3), MCInput(2, 150, 2, 5, 3),
             MCInput(1, 300, 0, 0, 3), MCInput(1, 0, 5, 2, 0)}
=============================================================================
