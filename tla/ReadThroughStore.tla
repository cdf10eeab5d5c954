-------------------------- MODULE ReadThroughStore --------------------------
(***************************************************************************)
(* What the details cache promises with any number of concurrent requests: *)
(* every key has a level (0 absent, 1 in an older format, 2 current) that  *)
(* never falls while the process lives, and the copy on disk is never      *)
(* ahead of the process that wrote it.  It promises no more: a save may    *)
(* lose any part of the copy on disk.                                      *)
(***************************************************************************)
EXTENDS Integers

CONSTANT Keys

VARIABLES level, saved

Absent == [k \in Keys |-> 0]

Init ==
    /\ saved \in [Keys -> 0 .. 2]
    /\ level = saved

Fill(k) ==
    /\ level' = [level EXCEPT ![k] = 2]
    /\ UNCHANGED saved

Save ==
    /\ saved' \in [Keys -> 0 .. 2]
    /\ \A k \in Keys : saved'[k] <= level[k]
    /\ UNCHANGED level

Restart ==
    /\ level' \in {saved, Absent}
    /\ UNCHANGED saved

Next ==
    \/ \E k \in Keys : Fill(k)
    \/ Save
    \/ Restart

Spec == Init /\ [][Next]_<<level, saved>>
=============================================================================
