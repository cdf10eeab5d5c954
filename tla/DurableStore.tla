---------------------------- MODULE DurableStore ----------------------------
(***************************************************************************)
(* What the details cache promises when requests come one at a time: a     *)
(* save replaces the copy on disk by exactly what the process holds, in    *)
(* one step, whatever fails or crashes in the middle of it.                *)
(***************************************************************************)
EXTENDS Integers

CONSTANT Keys

VARIABLES level, saved

Absent == [k \in Keys |-> 0]

Init ==
    /\ saved \in [Keys -> 0 .. 2]
    /\ level = saved

Fill(k) ==
    /\ level' = [level EXCEPT ![k] = 2]
    /\ UNCHANGED saved

Save ==
    /\ saved' = level
    /\ UNCHANGED level

Restart ==
    /\ level' \in {saved, Absent}
    /\ UNCHANGED saved

Next ==
    \/ \E k \in Keys : Fill(k)
    \/ Save
    \/ Restart

Spec == Init /\ [][Next]_<<level, saved>>
=============================================================================
