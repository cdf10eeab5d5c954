------------------------------- MODULE Planner -------------------------------
(***************************************************************************)
(* The planner page and the POST /plan handler of cmd/web/main.go, with    *)
(* BuildPlanFromTotalMachines and BuildPlanFromAnchorQuality of            *)
(* internal/planner.go.                                                    *)
(*                                                                         *)
(* The answer to a request replaces the boxes with machine counts, and a   *)
(* keystroke in a box, Tab included, submits what the box shows. So the    *)
(* counts of one plan are the input of the next. LoopSolver has the loop   *)
(* that computes the ratios; the counts are computed from them with        *)
(* floating-point numbers.                                                 *)
(*                                                                         *)
(* Besides what the solver reads, an input has craftRate, the items that a *)
(* machine makes in a second but for productivity, and recyclerPerSecond.  *)
(***************************************************************************)
EXTENDS LoopSolver, Floats

CONSTANTS
    TypedCounts,     \* counts that the user types
    maxMachineCount,
    TotalBox,        \* the box of the total, next to those of the tiers
    None

ASSUME CountsAssumption ==
    /\ maxMachineCount \in Nat /\ TypedCounts \subseteq Int /\ TotalBox \notin Tiers
    /\ \A i \in Inputs : i.craftRate \in Nat /\ i.recyclerPerSecond \in Nat

\* The counts are far from what a mantissa holds (a million and 53 bits).
ASSUME RoomForCounts == 3 * maxMachineCount <= PowerOfTwo[Precision]

VARIABLES
    request,         \* the box that was changed and the count in it, clamped
    page,            \* the plan shown, with what it is for; None before the first
    answer           \* "none", "plan", or "refused": a reply of status 400

vars == <<solverVars, request, page, answer>>

Boxes == Tiers \union {TotalBox}

\* MUTANT: has no upper limit.
clampIntBelow(n, min, max) == IF n < min THEN min ELSE n

clampInt(n, min, max) == IF n < min THEN min ELSE IF n > max THEN max ELSE n

\* int(math.Ceil(NaN)) and an overflow give the least integer on amd64.
NoCount == -1

PlannerTypeOK ==
    /\ TypeOK
    /\ request \in [box : Boxes, count : 0 .. maxMachineCount]
    /\ answer \in {"none", "plan", "refused"}
    /\ page = None \/ /\ page.total \in Int
                      /\ page.machines \in [Tiers -> Int]
                      /\ page.recyclers \in Int
                      /\ page.for \in Inputs

PlannerInit ==
    /\ Init
    /\ request = [box |-> TotalBox, count |-> 0]
    /\ page = None
    /\ answer = "none"

-----------------------------------------------------------------------------
\* machineRatioForUpcycling's materials[tier] / total.
Share(t) == RoundedQuotient(materials[t], Total, 0)

\* The count of one box, in machines: what the request says or what its anchor
\* stands for.
TotalMachines ==
    IF request.box = TotalBox THEN Float(request.count, 0)
                             ELSE FloatDiv(Float(request.count, 0), Share(request.box))

\* No count comes of a ratio that is NaN, the anchor's or the tier's own.
Counted == request.box = TotalBox \/ IsNumber(Ratio(request.box))

\* MUTANT: rounds to a whole machine down.
MachinesRoundedDown(t) ==
    LET machines == FloatMul(TotalMachines, Share(t))
    IN  Numerator(machines) \div Denominator(machines)

Machines(t) ==
    IF ~Counted \/ ~IsNumber(Ratio(t)) THEN NoCount
    ELSE IF Total = Inf THEN 0
    ELSE FloatCeil(FloatMul(TotalMachines, Share(t)))

\* MUTANT: has the output of the target quality recycled too.
RecycleLoadWithTarget == SumOver(LoopTiers, [t \in LoopTiers |-> CraftedOf(t)])

\* What all tiers' machines make below the target quality, by unit of Normal
\* input and productivity aside.
RecycleLoad == SumOver(Recycled, [t \in Recycled |-> CraftedOf(t)])

\* Recyclers for that load when the machines are request.count, of all tiers or
\* of the anchor's.
RequiredRecyclers ==
    LET per == IF request.box = TotalBox THEN Total ELSE materials[request.box]
    IN  CeilDiv(request.count * RecycleLoad * OutputPercent * input.craftRate,
                per * 100 * input.recyclerPerSecond)

Plan ==
    [total     |-> IF Counted THEN FloatCeil(TotalMachines) ELSE NoCount,
     machines  |-> [t \in Tiers |-> IF t \in LoopTiers THEN Machines(t) ELSE 0],
     recyclers |-> IF IsNumber(Total) THEN RequiredRecyclers ELSE NoCount,
     for       |-> input]

-----------------------------------------------------------------------------
\* The form is submitted after a change of one box. A plan by total checks the
\* recyclers' throughput before it solves the loop.
Submit(i, box, n) ==
    /\ request' = [box |-> box, count |-> clampInt(n, 0, maxMachineCount)]
    /\ box = TotalBox => i.recyclerPerSecond > 0
    /\ Call(i)
    /\ answer' = "none"
    /\ UNCHANGED page

RefuseAtOnce(i) ==
    /\ pc = "idle"
    /\ i.recyclerPerSecond = 0
    /\ input' = i
    /\ answer' = "refused"
    /\ UNCHANGED <<pc, iter, materials, request, page>>

\* What the user can submit: a typed count in any box, or a box as it is shown.
SubmitTyped == \E i \in Inputs, box \in Boxes, n \in TypedCounts : Submit(i, box, n)

SubmitShown ==
    /\ page # None
    /\ \E i \in Inputs :
          \/ Submit(i, TotalBox, page.total)
          \/ \E t \in Tiers : Submit(i, t, page.machines[t])

Solve == Iterate /\ UNCHANGED <<request, page, answer>>

SolveNoMore == GiveUp /\ UNCHANGED <<request, page, answer>>

\* A plan by anchor is refused when its tier has no share, then for lack of
\* recycler throughput.
HasNoShare ==
    /\ request.box \in Tiers
    /\ \/ materials[request.box] = 0
       \/ Total = Inf /\ IsNumber(materials[request.box])

Answer ==
    /\ Return
    /\ ~HasNoShare
    /\ input.recyclerPerSecond > 0
    /\ page' = Plan
    /\ answer' = "plan"
    /\ UNCHANGED request

\* A reply of status 400 is not swapped into the page.
Refuse ==
    /\ Return
    /\ HasNoShare \/ input.recyclerPerSecond = 0
    /\ answer' = "refused"
    /\ UNCHANGED <<request, page>>

PlannerNext ==
    \/ SubmitTyped
    \/ SubmitShown
    \/ \E i \in Inputs : RefuseAtOnce(i)
    \/ Solve
    \/ SolveNoMore
    \/ Answer
    \/ Refuse

PlannerSpec == PlannerInit /\ [][PlannerNext]_vars

-----------------------------------------------------------------------------
\* The page shows the answer to the last request.
Answered == answer = "plan"

SumOfMachines == SumOfTiers(page.machines)

\* What a request asks of one tier is at most one machine off in the answer,
\* and never below: the total is derived from the anchor by a division and the
\* anchor from the total by a product, and both are rounded before Ceil. (In
\* float64: Legendary, 24.8 % quality in both, 3 Legendary asked for, 4 shown.)
AnchorWithinOne ==
    (Answered /\ request.box \in Tiers)
        => page.machines[request.box] - request.count \in {0, 1}

\* The boxes of the tiers add up to the total, but for what rounding each up
\* adds. A tier can be one machine up on its exact count even where that is whole,
\* and the total of an anchor, rounded up from just above a whole number, can be
\* one more than all boxes hold. (In float64: 25 Normal asked for, 25 + 5 + 1
\* shown below a total of 32.) Totals that fill the mantissa are left out.
BoxesCoverTotal ==
    (Answered /\ 3 * page.total <= PowerOfTwo[Precision])
        => SumOfMachines - page.total \in
               (IF request.box = TotalBox THEN 0 ELSE -1) .. Target + 1

\* The recyclers, derived from what the machines of each tier make, are those
\* that the ratios stand for, derived from the loop: all that is crafted beyond
\* the source is a quarter of what was recycled. They are never too few for that,
\* and once the loop has settled too many only for what its last pass added and
\* what rounding took. (Amounts are exact to Slack parts of Scale.)
Slack == (Tolerance + 2) * (Target + 1)

RecyclersMatchLoop ==
    (Answered /\ IsNumber(Total) /\ iter < loopSolverMaxIterations) =>
        LET per == IF request.box = TotalBox THEN Total ELSE materials[request.box]
            load(m) == 4 * m * request.count * input.craftRate
            capacity(n) == n * input.recyclerPerSecond * per
        IN  /\ capacity(page.recyclers) >= load(Total - Scale)
            /\ capacity(page.recyclers - 1) < load(Total - Scale + Slack)

\* Submitting a box as it is shown takes at most one machine away from any tier,
\* as long as no limit cuts the count: each box was rounded up, so the new total
\* covers the old one, and a second rounding only corrects the first. (That holds
\* of a count as long as eight of its size fit the mantissa.)
ResubmitCostsAtMostOne ==
    [][ (Answer /\ page # None /\ page.for = input
          /\ request.box \in Tiers /\ page.machines[request.box] = request.count)
        => \A t \in Tiers :
              8 * page.machines[t] <= PowerOfTwo[Precision]
                  => page'.machines[t] >= page.machines[t] - 1 ]_vars

=============================================================================
