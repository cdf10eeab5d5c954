---------------------------- MODULE MCLoopSolver ----------------------------
EXTENDS LoopSolver

\* Productivity up to the 300 % that docs/factorio-quality-productivity-notes.md
\* says a recipe is capped at. Targets up to Epic keep the products within the
\* 32 bits of TLC's integers.
MCInputs ==
    [TargetQuality : 0 .. 3, Productivity : {0, 50, 250, 300},
     MachineQuality : {0, 1, 5, 10}, RecyclerQuality : {0, 2, 10}]

\* Productivity up to the 1000 % that the /plan handler lets through.
MCUncappedInputs ==
    [TargetQuality : {2}, Productivity : {300, 330, 1000},
     MachineQuality : {1}, RecyclerQuality : {0, 1}]
=============================================================================
