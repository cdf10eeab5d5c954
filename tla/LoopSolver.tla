------------------------------ MODULE LoopSolver ------------------------------
(***************************************************************************)
(* machineRatioForUpcycling of internal/planner.go: how much of each       *)
(* quality tier is crafted for one unit of Normal input, when all that is  *)
(* made below the target is recycled and crafted again. The code iterates  *)
(* to a fixed point; here each iteration is a step.                        *)
(*                                                                         *)
(* An amount is a number of parts out of Scale, rounded down. Amounts      *)
(* beyond MaxFinite are Inf, and zero times Inf is NaN, as float64 has it. *)
(***************************************************************************)
EXTENDS QualityTiers

CONSTANTS
    Inputs,      \* the planner inputs a call may have: records of at least
                 \* TargetQuality, Productivity, MachineQuality, RecyclerQuality
    Scale,       \* parts in the unit of Normal input
    Tolerance,   \* loopSolverTolerance, in parts
    loopSolverMaxIterations,
    MaxFinite,   \* the largest amount that is still a number
    Inf, NaN

ASSUME SolverAssumption ==
    /\ {Scale, Tolerance, loopSolverMaxIterations} \subseteq Nat \ {0}
    /\ MaxFinite \in Nat /\ Scale <= MaxFinite
    /\ Inf \notin Int /\ NaN \notin Int /\ Inf # NaN
    /\ \A i \in Inputs :
         /\ i.TargetQuality \in Tiers
         /\ {i.Productivity, i.MachineQuality, i.RecyclerQuality} \subseteq Int

VARIABLES
    pc,          \* "idle", or "solving" and "solved" during a call
    input,       \* what the call was given
    iter,
    materials    \* materials[tier]: the amount crafted from that tier

solverVars == <<pc, input, iter, materials>>

Amounts == (0 .. MaxFinite) \union {Inf, NaN}

Target == input.TargetQuality
LoopTiers == QualityNormal .. Target      \* the tiers the arrays are used for
Recycled == QualityNormal .. Target - 1   \* those with a recycleMask of 1

-----------------------------------------------------------------------------
(* Arithmetic on amounts, none of which is negative.                       *)

IsNumber(x) == x \notin {Inf, NaN}

Bounded(x) == IF x > MaxFinite THEN Inf ELSE x

Plus(x, k) == IF IsNumber(x) THEN Bounded(x + k) ELSE x

Times(k, x) == IF IsNumber(x) THEN k * x ELSE IF k = 0 THEN NaN ELSE x

Over(x, unit) == IF IsNumber(x) THEN Bounded(x \div unit) ELSE x

SumOver(ts, f) ==
    IF \E t \in ts : f[t] = NaN THEN NaN
    ELSE IF \E t \in ts : f[t] = Inf THEN Inf
    ELSE SumOfTiers([t \in Tiers |-> IF t \in ts THEN f[t] ELSE 0])

\* |x - y| exceeds no tolerance when it is NaN.
FarFrom(x, y) ==
    IF IsNumber(x) /\ IsNumber(y)
      THEN x - y \notin 1 - Tolerance .. Tolerance - 1
      ELSE Inf \in {x, y} /\ x # y /\ NaN \notin {x, y}

-----------------------------------------------------------------------------
Source == [t \in Tiers |-> IF t = QualityNormal THEN Scale ELSE 0]

assemblerProb(craftInput) ==
    qualityDistribution(craftInput, Target, qualityChance(input.MachineQuality))

recyclerProb(recycledInput) ==
    qualityDistribution(recycledInput, Target, qualityChance(input.RecyclerQuality))

\* Hundredths of items made of the ingredients of one.
OutputPercent == IF input.Productivity < -100 THEN 0 ELSE 100 + input.Productivity

\* What one pass through the machines makes of quality t, productivity aside.
CraftedOf(t) ==
    Over(SumOver(LoopTiers, [i \in LoopTiers |-> Times(assemblerProb(i)[t], materials[i])]),
         Unit(Target))

\* MUTANT: forgets that a recycler returns a quarter.
ReturnedWholeOf(t) ==
    LET contribution == Over(SumOver(Recycled, [r \in Recycled |->
                                 Times(recyclerProb(r)[t], CraftedOf(r))]), Unit(Target))
    IN  Over(Times(OutputPercent, contribution), 100)

\* What of that has quality t when it comes out of the recyclers: a quarter of
\* the ingredients, of the items that productivity added too.
ReturnedOf(t) ==
    LET contribution == Over(SumOver(Recycled, [r \in Recycled |->
                                 Times(recyclerProb(r)[t], CraftedOf(r))]), Unit(Target))
    IN  Over(Times(OutputPercent, contribution), 400)

\* MUTANT: forgets the input that is fed to the loop in every pass.
NextMaterialsUnfed ==
    [t \in Tiers |-> IF t \in LoopTiers THEN ReturnedOf(t) ELSE 0]

\* MUTANT: adds to the amounts of the pass before instead of the input.
NextMaterialsKept ==
    [t \in Tiers |-> IF t \in LoopTiers
                       THEN IF IsNumber(materials[t])
                              THEN Plus(ReturnedOf(t), materials[t]) ELSE materials[t]
                       ELSE 0]
NextMaterials ==
    [t \in Tiers |-> IF t \in LoopTiers THEN Plus(ReturnedOf(t), Source[t]) ELSE 0]

-----------------------------------------------------------------------------
TypeOK ==
    /\ pc \in {"idle", "solving", "solved"}
    /\ input \in Inputs
    /\ iter \in 0 .. loopSolverMaxIterations
    /\ materials \in [Tiers -> Amounts]

Init ==
    /\ pc = "idle"
    /\ input \in Inputs
    /\ iter = 0
    /\ materials = Source

\* A target of Normal needs no loop: all is crafted from Normal input.
Call(i) ==
    /\ pc = "idle"
    /\ pc' = IF i.TargetQuality = QualityNormal THEN "solved" ELSE "solving"
    /\ input' = i
    /\ iter' = 0
    /\ materials' = Source

\* MUTANT: lets the loop run once more than the limit says.
IterateOnceMore ==
    /\ pc = "solving"
    /\ iter <= loopSolverMaxIterations
    /\ iter' = iter + 1
    /\ materials' = NextMaterials
    /\ pc' = IF \E t \in LoopTiers : FarFrom(NextMaterials[t], materials[t])
               THEN "solving" ELSE "solved"
    /\ UNCHANGED input

Iterate ==
    /\ pc = "solving"
    /\ iter < loopSolverMaxIterations
    /\ iter' = iter + 1
    /\ materials' = NextMaterials
    /\ pc' = IF \E t \in LoopTiers : FarFrom(NextMaterials[t], materials[t])
               THEN "solving" ELSE "solved"
    /\ UNCHANGED input

GiveUp ==
    /\ pc = "solving"
    /\ iter = loopSolverMaxIterations
    /\ pc' = "solved"
    /\ UNCHANGED <<input, iter, materials>>

Return ==
    /\ pc = "solved"
    /\ pc' = "idle"
    /\ UNCHANGED <<input, iter, materials>>

Next == \/ \E i \in Inputs : Call(i)
        \/ Iterate
        \/ GiveUp
        \/ Return

Spec == Init /\ [][Next]_solverVars

-----------------------------------------------------------------------------
\* MUTANT: leaves out the target tier.
TotalBelowTarget == SumOver(Recycled, materials)

Total == SumOver(LoopTiers, materials)

\* machineRatioByQuality, in parts of Scale: NaN when either amount is no
\* number or, as float64 has it, both are infinite.
Ratio(t) ==
    IF Total = 0 THEN IF t = QualityNormal THEN Scale ELSE 0
    ELSE IF IsNumber(Total) THEN (materials[t] * Scale) \div Total
    ELSE IF Total = Inf /\ IsNumber(materials[t]) THEN 0
    ELSE NaN

\* The ratios of a finished call sum to one (planner_test.go:44), but for what
\* rounding each of them down takes.
RatiosSumToOne ==
    pc = "solved" =>
        /\ \A t \in LoopTiers : IsNumber(Ratio(t))
        /\ SumOver(LoopTiers, [t \in LoopTiers |-> Ratio(t)]) \in Scale - Target .. Scale

\* What the loop holds is paid for: the unit that enters it and, of all that is
\* crafted, the quarter that the recyclers return. No iteration gets ahead of
\* that, whatever the split between tiers; so below 300 % productivity the
\* amounts stay finite however long the loop runs.
SupplyBound ==
    (pc # "idle" /\ IsNumber(Total)) => Total * (400 - OutputPercent) <= 400 * Scale

\* No iteration takes back material that an earlier one supplied: the solver
\* approaches the fixed point from below, and a cut-off run underestimates it.
MaterialsGrow ==
    [][Iterate => \A t \in Tiers :
            IsNumber(materials[t]) /\ IsNumber(materials'[t])
                => materials[t] <= materials'[t]]_solverVars

\* The iteration limit is met only by a loop that returns, but for a few parts in
\* as many as the limit allows passes, all that is put into its lowest tier; every
\* other call ends because the amounts have settled. (With 1e-9 and 10000 passes
\* the limit is met by loops that lose up to 0.29 % of that tier.)
LostPartsAtLimit == 30

EndsBySettling ==
    (pc = "solved" /\ iter = loopSolverMaxIterations) =>
        OutputPercent * (Whole - qualityChance(input.MachineQuality))
                      * (Whole - qualityChance(input.RecyclerQuality)) * loopSolverMaxIterations
            >= 400 * Whole * Whole * (loopSolverMaxIterations - LostPartsAtLimit)

=============================================================================
