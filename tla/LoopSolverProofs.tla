--------------------------- MODULE LoopSolverProofs ---------------------------
(***************************************************************************)
(* What the loop of machineRatioForUpcycling computes on its way, for any  *)
(* inputs, tolerance, limit of iterations and largest amount.              *)
(*                                                                         *)
(* A pass is compared with the pass that has no largest amount (ExactNext),*)
(* which amounts that are still numbers have taken. That pass pays for what*)
(* it returns (PassPays) and makes more of more (PassGrows); SupplyInv and *)
(* GrowInv are what an iteration keeps because of it, and RoomInv is what  *)
(* it keeps while the amounts cannot overflow.                             *)
(***************************************************************************)
EXTENDS LoopSolver, TLAPS

-----------------------------------------------------------------------------
(* What qualityDistribution gives, for every resolution of the chance: the *)
(* loop multiplies amounts by these shares.                                *)

\* A chance is a number of parts between none and all, whatever percentage it
\* is computed from (qualityChance of machine.go and of recycler.go).
LEMMA ChanceInRange ==
    ASSUME NEW percentage \in Int
    PROVE  qualityChance(percentage) \in 0 .. Whole
BY WholeAssumption DEF qualityChance

\* No tier has a negative share, and none below the input or above the highest
\* unlocked tier has any: a craft never lowers quality.
THEOREM SharesStayInRange ==
    ASSUME NEW max \in Tiers, NEW given \in 0 .. max, NEW chance \in 0 .. Whole,
           NEW tier \in Tiers
    PROVE  /\ qualityDistribution(given, max, chance)[tier] \in Nat
           /\ tier \notin given .. max => qualityDistribution(given, max, chance)[tier] = 0
<1>1. \A n \in Int : PowerOfTen(n) \in Nat
  BY DEF PowerOfTen
<1>2. chance \in Nat /\ Whole \in Nat /\ Whole - chance \in Nat
  BY WholeAssumption
<1>3. \A a, b \in Nat : a * b \in Nat
  OBVIOUS
<1>4. max \in Int /\ given \in Int /\ tier \in Int /\ given <= max
  BY DEF Tiers, QualityNormal, QualityLegendary
<1>5. CASE tier < given \/ tier > max
  BY <1>4, <1>5 DEF qualityDistribution
<1>6. CASE tier = given
  <2>1. PowerOfTen(max) \in Nat
    BY <1>1, <1>4
  <2>2. Whole * PowerOfTen(max) \in Nat /\ (Whole - chance) * PowerOfTen(max) \in Nat
    BY <2>1, <1>2, <1>3
  <2>3. qualityDistribution(given, max, chance)[tier] \in
            {Whole * PowerOfTen(max), (Whole - chance) * PowerOfTen(max)}
    BY <1>4, <1>6 DEF qualityDistribution, Unit
  <2> QED BY <2>2, <2>3, <1>4, <1>6
<1>7. CASE given < tier /\ tier < max
  <2>1. PowerOfTen(max - (tier - given)) \in Nat
    BY <1>1, <1>4
  <2>2. 9 * chance * PowerOfTen(max - (tier - given)) \in Nat
    BY <2>1, <1>2, <1>3
  <2> QED BY <2>2, <1>4, <1>7 DEF qualityDistribution
<1>8. CASE given < tier /\ tier = max
  <2>1. PowerOfTen(max - (max - given - 1)) \in Nat
    BY <1>1, <1>4
  <2>2. chance * PowerOfTen(max - (max - given - 1)) \in Nat
    BY <2>1, <1>2, <1>3
  <2> QED BY <2>2, <1>4, <1>8 DEF qualityDistribution
<1> QED BY <1>4, <1>5, <1>6, <1>7, <1>8

\* The shares of all tiers add up to the whole output: what a quality jump
\* would take beyond the highest unlocked tier is folded into that tier
\* (qualityDistribution of machine.go).
THEOREM SharesAreComplete ==
    ASSUME NEW max \in Tiers, NEW given \in 0 .. max, NEW chance \in 0 .. Whole
    PROVE  SumOfTiers(qualityDistribution(given, max, chance)) = Unit(max)
<1> USE WholeAssumption DEF Tiers, QualityNormal, QualityLegendary
<1>1. chance \in Int /\ Whole \in Int
  OBVIOUS
<1>2. max \in {0, 1, 2, 3, 4} /\ given \in {0, 1, 2, 3, 4} /\ given <= max
  OBVIOUS
<1> HIDE WholeAssumption
<1>3. CASE max = 0
  BY <1>1, <1>2, <1>3 DEF SumOfTiers, qualityDistribution, Unit, PowerOfTen
<1>4. CASE max = 1
  BY <1>1, <1>2, <1>4 DEF SumOfTiers, qualityDistribution, Unit, PowerOfTen
<1>5. CASE max = 2
  BY <1>1, <1>2, <1>5 DEF SumOfTiers, qualityDistribution, Unit, PowerOfTen
<1>6. CASE max = 3
  BY <1>1, <1>2, <1>6 DEF SumOfTiers, qualityDistribution, Unit, PowerOfTen
<1>7. CASE max = 4
  BY <1>1, <1>2, <1>7 DEF SumOfTiers, qualityDistribution, Unit, PowerOfTen
<1> QED BY <1>2, <1>3, <1>4, <1>5, <1>6, <1>7

-----------------------------------------------------------------------------
(* Division                                                                *)

LEMMA Division ==
    ASSUME NEW a \in Nat, NEW d \in Nat \ {0}
    PROVE  /\ a \div d \in Nat
           /\ d * (a \div d) <= a /\ a < d * (a \div d) + d
OBVIOUS

LEMMA DivisionGrows ==
    ASSUME NEW a \in Nat, NEW b \in Nat, NEW d \in Nat \ {0}, a <= b
    PROVE  a \div d <= b \div d
<1> DEFINE p == a \div d
           q == b \div d
<1>1. p \in Nat /\ q \in Nat /\ d * p <= a /\ b < d * q + d
  BY Division
<1> HIDE DEF p, q
<1>2. SUFFICES ASSUME q + 1 <= p PROVE FALSE
  BY <1>1 DEF p, q
<1>3. d * (q + 1) <= d * p /\ d * (q + 1) = d * q + d
  BY <1>1, <1>2
<1> QED BY <1>1, <1>3

LEMMA ProductGrows ==
    ASSUME NEW a \in Nat, NEW b \in Nat, NEW k \in Nat, a <= b
    PROVE  k * a \in Nat /\ k * b \in Nat /\ k * a <= k * b
OBVIOUS

-----------------------------------------------------------------------------
(* Sums over tiers                                                         *)

LEMMA TiersAre == Tiers = {0, 1, 2, 3, 4}
BY DEF Tiers, QualityNormal, QualityLegendary

LEMMA SumIsNat ==
    ASSUME NEW f, \A t \in Tiers : f[t] \in Nat
    PROVE  SumOfTiers(f) \in Nat /\ \A t \in Tiers : f[t] <= SumOfTiers(f)
BY TiersAre DEF SumOfTiers

LEMMA SumGrows ==
    ASSUME NEW f, NEW g, \A t \in Tiers : f[t] \in Nat /\ g[t] \in Nat /\ f[t] <= g[t]
    PROVE  SumOfTiers(f) <= SumOfTiers(g)
BY TiersAre DEF SumOfTiers

\* What is spread over the tiers by shares that add up to no more than the whole is,
\* rounded down, no more than what there was.
LEMMA SpreadIsNoMore ==
    ASSUME NEW W \in Nat \ {0}, NEW P, NEW x, NEW y,
           \A t \in Tiers : x[t] \in Nat /\ y[t] \in Nat,
           \A i, t \in Tiers : P[i][t] \in Nat,
           \A i \in Tiers : SumOfTiers(P[i]) <= W,
           \A t \in Tiers : W * y[t] <= SumOfTiers([i \in Tiers |-> P[i][t] * x[i]])
    PROVE  SumOfTiers(y) <= SumOfTiers(x)
<1> DEFINE part(i, t) == P[i][t] * x[i]
<1>1. \A i, t \in Tiers : part(i, t) \in Nat
  OBVIOUS
<1>2. ASSUME NEW t \in Tiers
      PROVE  W * y[t] <= part(0, t) + part(1, t) + part(2, t) + part(3, t) + part(4, t)
  BY TiersAre DEF SumOfTiers
<1>3. ASSUME NEW i \in Tiers
      PROVE  part(i, 0) + part(i, 1) + part(i, 2) + part(i, 3) + part(i, 4) <= W * x[i]
  <2> DEFINE row == SumOfTiers(P[i])
  <2>1. row \in Nat /\ row <= W
    BY SumIsNat
  <2>2. row * x[i] <= W * x[i]
    <3> HIDE DEF row
    <3> QED BY <2>1
  <2>3. row * x[i] = part(i, 0) + part(i, 1) + part(i, 2) + part(i, 3) + part(i, 4)
    <3>1. row = P[i][0] + P[i][1] + P[i][2] + P[i][3] + P[i][4]
      BY DEF SumOfTiers
    <3>2. \A t \in Tiers : P[i][t] \in Nat
      OBVIOUS
    <3> HIDE DEF row
    <3> QED BY <3>1, <3>2, TiersAre
  <2> QED BY <2>2, <2>3
<1> HIDE DEF part
<1>4. W * (y[0] + y[1] + y[2] + y[3] + y[4]) <= W * (x[0] + x[1] + x[2] + x[3] + x[4])
  <2>1. \A t \in Tiers : W * y[t] \in Nat /\ W * x[t] \in Nat
    OBVIOUS
  <2>2. W * (y[0] + y[1] + y[2] + y[3] + y[4])
          = W * y[0] + W * y[1] + W * y[2] + W * y[3] + W * y[4]
    BY TiersAre
  <2>3. W * (x[0] + x[1] + x[2] + x[3] + x[4])
          = W * x[0] + W * x[1] + W * x[2] + W * x[3] + W * x[4]
    BY TiersAre
  <2>4. W * y[0] + W * y[1] + W * y[2] + W * y[3] + W * y[4]
          <= W * x[0] + W * x[1] + W * x[2] + W * x[3] + W * x[4]
    BY <1>1, <1>2, <1>3, <2>1, TiersAre
  <2> QED BY <2>2, <2>3, <2>4
<1> DEFINE sx == x[0] + x[1] + x[2] + x[3] + x[4]
           sy == y[0] + y[1] + y[2] + y[3] + y[4]
<1>5. sx \in Nat /\ sy \in Nat /\ W * sy <= W * sx
  BY <1>4, TiersAre
<1>6. SumOfTiers(x) = sx /\ SumOfTiers(y) = sy
  BY DEF SumOfTiers
<1> HIDE DEF sx, sy
<1>7. sy <= sx
  <2> SUFFICES ASSUME sx + 1 <= sy PROVE FALSE
    BY <1>5
  <2>1. W * (sx + 1) <= W * sy /\ W * (sx + 1) = W * sx + W
    BY <1>5
  <2> QED BY <1>5, <2>1
<1> QED BY <1>6, <1>7

-----------------------------------------------------------------------------
(* Amounts                                                                 *)

LEMMA NumbersAre ==
    /\ \A x \in Int : IsNumber(x)
    /\ \A x \in Amounts : IsNumber(x) <=> x \in Nat
    /\ \A x \in Nat : /\ Bounded(x) \in Amounts
                      /\ IsNumber(Bounded(x)) => Bounded(x) = x
                      /\ x <= MaxFinite => Bounded(x) = x
BY SolverAssumption DEF IsNumber, Amounts, Bounded

\* What a pass makes of one tier: shares of what there is, of the tiers it takes.
Mix(ts, k, x, W) == Over(SumOver(ts, [i \in ts |-> Times(k[i], x[i])]), W)

MixSum(ts, k, x) == SumOfTiers([i \in Tiers |-> IF i \in ts THEN k[i] * x[i] ELSE 0])

LEMMA MixOfNumbers ==
    ASSUME NEW ts \in SUBSET Tiers, NEW k, NEW x, NEW W \in Nat \ {0},
           \A i \in ts : k[i] \in Nat /\ x[i] \in Nat
    PROVE  /\ MixSum(ts, k, x) \in Nat
           /\ Mix(ts, k, x, W) = Bounded(MixSum(ts, k, x) \div W)
<1> DEFINE f == [i \in ts |-> Times(k[i], x[i])]
           g == [i \in Tiers |-> IF i \in ts THEN k[i] * x[i] ELSE 0]
<1>1. \A i \in ts : k[i] * x[i] \in Nat
  OBVIOUS
<1>2. \A i \in ts : f[i] = k[i] * x[i] /\ IsNumber(f[i])
  BY <1>1, NumbersAre DEF Times
<1>3. SumOver(ts, f) = SumOfTiers([i \in Tiers |-> IF i \in ts THEN f[i] ELSE 0])
  BY <1>2 DEF SumOver, IsNumber
<1>4. [i \in Tiers |-> IF i \in ts THEN f[i] ELSE 0] = g
  BY <1>2
<1>5. \A i \in Tiers : g[i] \in Nat
  BY <1>1
<1>6. SumOfTiers(g) \in Nat
  <2> HIDE DEF g
  <2> QED BY <1>5, SumIsNat
<1>7. SumOver(ts, f) = SumOfTiers(g)
  BY <1>3, <1>4
<1>8. Over(SumOver(ts, f), W) = Bounded(SumOfTiers(g) \div W)
  <2> HIDE DEF f, g
  <2> QED BY <1>6, <1>7, NumbersAre DEF Over
<1> QED BY <1>6, <1>8 DEF Mix, MixSum

LEMMA MixIsAmount ==
    ASSUME NEW ts \in SUBSET Tiers, NEW k, NEW x, NEW W \in Nat \ {0},
           \A i \in ts : k[i] \in Nat /\ x[i] \in Amounts
    PROVE  /\ Mix(ts, k, x, W) \in Amounts
           /\ IsNumber(Mix(ts, k, x, W)) => \A i \in ts : x[i] \in Nat
<1>1. CASE \A i \in ts : x[i] \in Nat
  <2>1. MixSum(ts, k, x) \div W \in Nat
    BY <1>1, MixOfNumbers, Division
  <2> QED BY <1>1, <2>1, MixOfNumbers, NumbersAre
<1>2. ASSUME NEW j \in ts, x[j] \notin Nat
      PROVE  Mix(ts, k, x, W) \in {Inf, NaN}
  <2> DEFINE f == [i \in ts |-> Times(k[i], x[i])]
  <2>1. x[j] \in {Inf, NaN}
    BY <1>2, NumbersAre DEF IsNumber
  <2>2. f[j] \in {Inf, NaN}
    BY <2>1 DEF Times, IsNumber
  <2>3. SumOver(ts, f) \in {Inf, NaN}
    <3> HIDE DEF f
    <3> QED BY <2>2 DEF SumOver
  <2>4. Over(SumOver(ts, f), W) \in {Inf, NaN}
    <3> HIDE DEF f
    <3> QED BY <2>3 DEF Over, IsNumber
  <2> QED BY <2>4 DEF Mix
<1> QED BY <1>1, <1>2 DEF Amounts, IsNumber

\* More of what there is gives no less.
LEMMA MixGrows ==
    ASSUME NEW ts \in SUBSET Tiers, NEW k, NEW x, NEW y, NEW W \in Nat \ {0},
           \A i \in ts : k[i] \in Nat /\ x[i] \in Nat /\ y[i] \in Nat /\ x[i] <= y[i]
    PROVE  MixSum(ts, k, x) \div W <= MixSum(ts, k, y) \div W
<1> DEFINE f == [i \in Tiers |-> IF i \in ts THEN k[i] * x[i] ELSE 0]
           g == [i \in Tiers |-> IF i \in ts THEN k[i] * y[i] ELSE 0]
<1>1. \A i \in Tiers : f[i] \in Nat /\ g[i] \in Nat /\ f[i] <= g[i]
  BY ProductGrows
<1>2. SumOfTiers(f) <= SumOfTiers(g) /\ SumOfTiers(f) \in Nat /\ SumOfTiers(g) \in Nat
  <2> HIDE DEF f, g
  <2> QED BY <1>1, SumGrows, SumIsNat
<1> QED BY <1>2, DivisionGrows DEF MixSum

\* The amounts of some tiers, as amounts of all.
Padded(ts, x) == [t \in Tiers |-> IF t \in ts THEN x[t] ELSE 0]

\* Nothing is gained when tiers are mixed by shares of a whole.
LEMMA MixesAreNoMore ==
    ASSUME NEW from \in SUBSET Tiers, NEW to \in SUBSET Tiers, NEW W \in Nat \ {0}, NEW Q,
           NEW x, NEW y,
           \A i \in from : x[i] \in Nat /\ SumOfTiers(Q[i]) <= W,
           \A i \in from, t \in Tiers : Q[i][t] \in Nat,
           \A t \in to : y[t] = MixSum(from, [i \in from |-> Q[i][t]], x) \div W
    PROVE  /\ \A t \in to : y[t] \in Nat
           /\ SumOfTiers(Padded(to, y)) <= SumOfTiers(Padded(from, x))
<1> DEFINE P == [i \in Tiers |-> [t \in Tiers |-> IF i \in from /\ t \in to THEN Q[i][t] ELSE 0]]
           px == Padded(from, x)
           py == Padded(to, y)
<1>1. ASSUME NEW t \in to
      PROVE  /\ MixSum(from, [i \in from |-> Q[i][t]], x) \in Nat
             /\ MixSum(from, [i \in from |-> Q[i][t]], x)
                  = SumOfTiers([i \in Tiers |-> P[i][t] * px[i]])
  <2> DEFINE k == [i \in from |-> Q[i][t]]
             f == [i \in Tiers |-> IF i \in from THEN k[i] * x[i] ELSE 0]
             g == [i \in Tiers |-> P[i][t] * px[i]]
  <2>1. \A i \in from : k[i] = Q[i][t] /\ k[i] \in Nat
    OBVIOUS
  <2>2. MixSum(from, k, x) \in Nat
    <3> HIDE DEF k
    <3> QED BY <2>1, MixOfNumbers
  <2>3. ASSUME NEW i \in Tiers PROVE f[i] = g[i]
    <3>1. CASE i \in from
      BY <2>1, <3>1 DEF Padded
    <3>2. CASE i \notin from
      <4>1. f[i] = 0 /\ P[i][t] = 0 /\ px[i] = 0
        BY <3>2 DEF Padded
      <4> QED BY <4>1
    <3> QED BY <3>1, <3>2
  <2>4. f = g
    BY <2>3
  <2> QED BY <2>2, <2>4 DEF MixSum
<1>2. \A t \in to : y[t] \in Nat /\ W * y[t] <= MixSum(from, [i \in from |-> Q[i][t]], x)
  BY <1>1, Division
<1>3. \A t \in Tiers : px[t] \in Nat /\ py[t] \in Nat
  BY <1>2 DEF Padded
<1>4. \A i, t \in Tiers : P[i][t] \in Nat
  OBVIOUS
<1>5. ASSUME NEW i \in Tiers PROVE SumOfTiers(P[i]) <= W
  <2>1. CASE i \in from
    <3>1. \A t \in Tiers : P[i][t] \in Nat /\ Q[i][t] \in Nat /\ P[i][t] <= Q[i][t]
      BY <2>1
    <3>2. SumOfTiers(P[i]) <= SumOfTiers(Q[i]) /\ SumOfTiers(P[i]) \in Nat
          /\ SumOfTiers(Q[i]) \in Nat
      <4> HIDE DEF P
      <4> QED BY <3>1, SumGrows, SumIsNat
    <3> HIDE DEF P
    <3> QED BY <2>1, <3>2
  <2>2. CASE i \notin from
    <3>1. \A t \in Tiers : P[i][t] = 0
      BY <2>2
    <3> HIDE DEF P
    <3> QED BY <3>1, TiersAre DEF SumOfTiers
  <2> QED BY <2>1, <2>2
<1>6. ASSUME NEW t \in Tiers PROVE W * py[t] <= SumOfTiers([i \in Tiers |-> P[i][t] * px[i]])
  <2> DEFINE g == [i \in Tiers |-> P[i][t] * px[i]]
  <2>1. CASE t \in to
    <3>1. py[t] = y[t]
      BY <2>1 DEF Padded
    <3> QED BY <1>1, <1>2, <2>1, <3>1
  <2>2. CASE t \notin to
    <3>1. py[t] = 0
      BY <2>2 DEF Padded
    <3>2. \A i \in Tiers : g[i] \in Nat
      BY <1>3, <1>4
    <3>3. SumOfTiers(g) \in Nat
      <4> HIDE DEF g
      <4> QED BY <3>2, SumIsNat
    <3> QED BY <3>1, <3>3
  <2> QED BY <2>1, <2>2
<1> HIDE DEF P, px, py
<1>7. SumOfTiers(py) <= SumOfTiers(px)
  BY <1>3, <1>4, <1>5, <1>6, SpreadIsNoMore
<1> QED BY <1>2, <1>7 DEF px, py

-----------------------------------------------------------------------------
(* A pass through the loop                                                 *)

LEMMA InputsAre ==
    ASSUME input \in Inputs
    PROVE  /\ Target \in Tiers /\ Target \in Int
           /\ LoopTiers \in SUBSET Tiers /\ QualityNormal \in LoopTiers
           /\ Recycled \in SUBSET Tiers /\ Recycled \subseteq LoopTiers
           /\ Target # QualityNormal => QualityNormal \in Recycled
           /\ OutputPercent \in Nat
           /\ Unit(Target) \in Nat \ {0}
<1>1. Target \in Tiers /\ input.Productivity \in Int
  BY SolverAssumption DEF Target
<1>2. PowerOfTen(Target) \in Nat \ {0}
  BY DEF PowerOfTen
<1>3. Unit(Target) \in Nat \ {0}
  <2> DEFINE power == PowerOfTen(Target)
  <2>1. power \in Nat \ {0}
    BY <1>2
  <2> HIDE DEF power
  <2>2. Whole * power \in Nat \ {0}
    BY <2>1, WholeAssumption
  <2> QED BY <2>2 DEF power, Unit
<1> QED BY <1>1, <1>3
        DEF LoopTiers, Recycled, Tiers, QualityNormal, QualityLegendary, OutputPercent

LEMMA SharesAre ==
    ASSUME input \in Inputs, NEW i \in LoopTiers
    PROVE  /\ \A t \in Tiers : assemblerProb(i)[t] \in Nat /\ recyclerProb(i)[t] \in Nat
           /\ SumOfTiers(assemblerProb(i)) = Unit(Target)
           /\ SumOfTiers(recyclerProb(i)) = Unit(Target)
<1>1. Target \in Tiers /\ i \in 0 .. Target
  BY InputsAre DEF LoopTiers, QualityNormal
<1>2. /\ qualityChance(input.MachineQuality) \in 0 .. Whole
      /\ qualityChance(input.RecyclerQuality) \in 0 .. Whole
  BY SolverAssumption, ChanceInRange
<1> QED BY <1>1, <1>2, SharesStayInRange, SharesAreComplete DEF assemblerProb, recyclerProb

\* The pass as it is without a largest amount.
CraftShares(t) == [i \in LoopTiers |-> assemblerProb(i)[t]]
RecycleShares(t) == [r \in Recycled |-> recyclerProb(r)[t]]

ExactCrafted(m) ==
    [r \in Recycled |-> MixSum(LoopTiers, CraftShares(r), m) \div Unit(Target)]

ExactContribution(m) ==
    [t \in LoopTiers |-> MixSum(Recycled, RecycleShares(t), ExactCrafted(m)) \div Unit(Target)]

ExactReturned(t, m) == (OutputPercent * ExactContribution(m)[t]) \div 400

ExactNext(m) == [t \in Tiers |-> IF t \in LoopTiers THEN ExactReturned(t, m) + Source[t] ELSE 0]

Contribution(t) ==
    Mix(Recycled, RecycleShares(t), [r \in Recycled |-> CraftedOf(r)], Unit(Target))

LEMMA PassIs ==
    ASSUME NEW t
    PROVE  /\ CraftedOf(t) = Mix(LoopTiers, CraftShares(t), materials, Unit(Target))
           /\ ReturnedOf(t) = Over(Times(OutputPercent, Contribution(t)), 400)
<1>1. [i \in LoopTiers |-> Times(assemblerProb(i)[t], materials[i])]
        = [i \in LoopTiers |-> Times(CraftShares(t)[i], materials[i])]
  BY DEF CraftShares
<1>2. [r \in Recycled |-> Times(recyclerProb(r)[t], CraftedOf(r))]
        = [r \in Recycled |-> Times(RecycleShares(t)[r], [q \in Recycled |-> CraftedOf(q)][r])]
  BY DEF RecycleShares
<1> QED BY <1>1, <1>2 DEF CraftedOf, ReturnedOf, Mix, Contribution

LEMMA SharesAreNat ==
    ASSUME input \in Inputs, NEW t \in Tiers
    PROVE  /\ \A i \in LoopTiers : CraftShares(t)[i] \in Nat
           /\ \A r \in Recycled : RecycleShares(t)[r] \in Nat
BY InputsAre, SharesAre DEF CraftShares, RecycleShares

LEMMA SourceIs ==
    Source \in [Tiers -> Nat] /\ Source[QualityNormal] = Scale /\ SumOfTiers(Source) = Scale
BY SolverAssumption, TiersAre DEF Source, SumOfTiers, QualityNormal

LEMMA ExactIsNat ==
    ASSUME input \in Inputs, NEW m, \A i \in LoopTiers : m[i] \in Nat
    PROVE  /\ \A r \in Recycled : ExactCrafted(m)[r] \in Nat
           /\ \A t \in LoopTiers : ExactContribution(m)[t] \in Nat /\ ExactReturned(t, m) \in Nat
           /\ ExactNext(m) \in [Tiers -> Nat]
<1>0. /\ LoopTiers \in SUBSET Tiers /\ Recycled \in SUBSET Tiers /\ Recycled \subseteq LoopTiers
      /\ OutputPercent \in Nat /\ Unit(Target) \in Nat \ {0}
  BY InputsAre
<1>1. ASSUME NEW r \in Recycled PROVE ExactCrafted(m)[r] \in Nat
  <2>1. MixSum(LoopTiers, CraftShares(r), m) \in Nat
    BY <1>0, SharesAreNat, MixOfNumbers
  <2> QED BY <1>0, <2>1, Division DEF ExactCrafted
<1>2. ASSUME NEW t \in LoopTiers PROVE ExactContribution(m)[t] \in Nat
  <2>1. MixSum(Recycled, RecycleShares(t), ExactCrafted(m)) \in Nat
    BY <1>0, <1>1, SharesAreNat, MixOfNumbers
  <2> QED BY <1>0, <2>1, Division DEF ExactContribution
<1>3. ASSUME NEW t \in LoopTiers PROVE ExactReturned(t, m) \in Nat
  <2>1. OutputPercent * ExactContribution(m)[t] \in Nat
    BY <1>0, <1>2
  <2> QED BY <2>1, Division DEF ExactReturned
<1>4. ExactNext(m) \in [Tiers -> Nat]
  BY <1>3, SourceIs DEF ExactNext
<1> QED BY <1>1, <1>2, <1>3, <1>4

\* Amounts that are numbers come of numbers, and are what they are without a limit.
LEMMA NumbersAreExact ==
    ASSUME input \in Inputs, \A i \in LoopTiers : materials[i] \in Amounts,
           NEW t \in LoopTiers
    PROVE  /\ NextMaterials[t] \in Amounts
           /\ Target # QualityNormal /\ IsNumber(NextMaterials[t]) =>
                /\ \A i \in LoopTiers : materials[i] \in Nat
                /\ NextMaterials[t] = ExactNext(materials)[t]
<1>0. /\ LoopTiers \in SUBSET Tiers /\ Recycled \in SUBSET Tiers /\ Recycled \subseteq LoopTiers
      /\ OutputPercent \in Nat /\ Unit(Target) \in Nat \ {0}
      /\ Target # QualityNormal => QualityNormal \in Recycled
  BY InputsAre
<1>1. ASSUME NEW r \in Recycled
      PROVE  /\ CraftedOf(r) \in Amounts
             /\ IsNumber(CraftedOf(r)) =>
                  /\ \A i \in LoopTiers : materials[i] \in Nat
                  /\ CraftedOf(r) = ExactCrafted(materials)[r]
  <2>1. /\ CraftedOf(r) \in Amounts
        /\ IsNumber(CraftedOf(r)) => \A i \in LoopTiers : materials[i] \in Nat
    BY <1>0, PassIs, SharesAreNat, MixIsAmount
  <2>2. ASSUME IsNumber(CraftedOf(r)) PROVE CraftedOf(r) = ExactCrafted(materials)[r]
    <3> DEFINE exact == MixSum(LoopTiers, CraftShares(r), materials) \div Unit(Target)
    <3>1. exact \in Nat /\ CraftedOf(r) = Bounded(exact)
      BY <1>0, <2>1, <2>2, PassIs, SharesAreNat, MixOfNumbers, Division
    <3> HIDE DEF exact
    <3>2. CraftedOf(r) = exact
      BY <2>2, <3>1, NumbersAre
    <3> QED BY <3>2 DEF exact, ExactCrafted
  <2> QED BY <2>1, <2>2
<1> DEFINE crafted == [r \in Recycled |-> CraftedOf(r)]
<1>2. /\ Contribution(t) \in Amounts
      /\ IsNumber(Contribution(t)) => \A r \in Recycled : crafted[r] \in Nat
  <2>1. \A r \in Recycled : crafted[r] \in Amounts
    BY <1>1
  <2> HIDE DEF crafted
  <2>2. t \in Tiers
    BY <1>0
  <2> QED BY <1>0, <2>1, <2>2, SharesAreNat, MixIsAmount DEF Contribution, crafted
<1>3. ASSUME IsNumber(Contribution(t))
      PROVE  /\ \A r \in Recycled : IsNumber(CraftedOf(r))
             /\ Contribution(t) = ExactContribution(materials)[t]
  <2>1. \A r \in Recycled : CraftedOf(r) \in Nat /\ IsNumber(CraftedOf(r))
    BY <1>2, <1>3, NumbersAre
  <2>2. crafted = ExactCrafted(materials)
    BY <1>1, <2>1 DEF ExactCrafted
  <2> DEFINE exact == MixSum(Recycled, RecycleShares(t), crafted) \div Unit(Target)
  <2>3. exact \in Nat /\ Contribution(t) = Bounded(exact)
    <3>1. \A r \in Recycled : crafted[r] \in Nat
      BY <2>1
    <3>2. Contribution(t) = Mix(Recycled, RecycleShares(t), crafted, Unit(Target))
      BY DEF Contribution
    <3> HIDE DEF crafted
    <3>3. t \in Tiers
      BY <1>0
    <3> QED BY <1>0, <3>1, <3>2, <3>3, SharesAreNat, MixOfNumbers, Division
  <2> HIDE DEF exact
  <2>4. Contribution(t) = exact
    BY <1>3, <2>3, NumbersAre
  <2> QED BY <2>1, <2>2, <2>4 DEF exact, ExactContribution
<1>4. /\ ReturnedOf(t) \in Amounts
      /\ IsNumber(ReturnedOf(t)) => /\ IsNumber(Contribution(t))
                                    /\ ReturnedOf(t) = ExactReturned(t, materials)
  <2>1. ReturnedOf(t) = Over(Times(OutputPercent, Contribution(t)), 400)
    BY PassIs
  <2>2. CASE IsNumber(Contribution(t))
    <3>1. Contribution(t) \in Nat
      BY <1>2, <2>2, NumbersAre
    <3> DEFINE product == OutputPercent * Contribution(t)
               exact == product \div 400
    <3>2. product \in Nat
      BY <1>0, <3>1
    <3>3. exact \in Nat
      <4> HIDE DEF product
      <4> QED BY <3>2, Division
    <3>4. ReturnedOf(t) = Bounded(exact)
      <4>1. Times(OutputPercent, Contribution(t)) = product
        BY <2>2 DEF Times
      <4> HIDE DEF product
      <4>2. IsNumber(product)
        BY <3>2, NumbersAre
      <4> QED BY <2>1, <4>1, <4>2 DEF Over
    <3>5. exact = ExactReturned(t, materials)
      BY <1>3, <2>2 DEF ExactReturned
    <3> HIDE DEF exact
    <3> QED BY <2>2, <3>3, <3>4, <3>5, NumbersAre
  <2>3. CASE ~IsNumber(Contribution(t))
    BY <2>1, <2>3, SolverAssumption DEF Times, Over, IsNumber, Amounts
  <2> QED BY <2>2, <2>3
<1>5. NextMaterials[t] = Plus(ReturnedOf(t), Source[t]) /\ Source[t] \in Nat /\ t \in Tiers
  BY <1>0, SourceIs DEF NextMaterials
<1>6. CASE IsNumber(ReturnedOf(t))
  <2> DEFINE sum == ReturnedOf(t) + Source[t]
  <2>1. ReturnedOf(t) \in Nat
    BY <1>4, <1>6, NumbersAre
  <2>2. sum \in Nat /\ NextMaterials[t] = Bounded(sum)
    BY <1>5, <1>6, <2>1 DEF Plus
  <2>3. ExactNext(materials)[t] = sum
    BY <1>4, <1>5, <1>6 DEF ExactNext
  <2>4. Target # QualityNormal => \A i \in LoopTiers : materials[i] \in Nat
    BY <1>0, <1>1, <1>3, <1>4, <1>6
  <2> HIDE DEF sum
  <2> QED BY <2>2, <2>3, <2>4, NumbersAre
<1>7. CASE ~IsNumber(ReturnedOf(t))
  <2>1. NextMaterials[t] = ReturnedOf(t)
    BY <1>5, <1>7 DEF Plus
  <2> QED BY <1>4, <1>7, <2>1
<1> QED BY <1>6, <1>7

\* Without a limit, a pass keeps what the recyclers return and adds what is fed to it.
LEMMA PassPays ==
    ASSUME input \in Inputs, NEW m, \A i \in LoopTiers : m[i] \in Nat
    PROVE  /\ \A r \in Recycled : ExactCrafted(m)[r] <= SumOfTiers(Padded(LoopTiers, m))
           /\ \A t \in LoopTiers : ExactContribution(m)[t] <= SumOfTiers(Padded(LoopTiers, m))
           /\ SumOfTiers(Padded(Recycled, ExactCrafted(m))) <= SumOfTiers(Padded(LoopTiers, m))
           /\ 400 * SumOfTiers(ExactNext(m))
                <= 400 * Scale + OutputPercent * SumOfTiers(Padded(LoopTiers, m))
           /\ 400 * SumOfTiers(ExactNext(m))
                <= 400 * Scale + OutputPercent * SumOfTiers(Padded(Recycled, ExactCrafted(m)))
<1> DEFINE before == Padded(LoopTiers, m)
           crafted == Padded(Recycled, ExactCrafted(m))
           back == Padded(LoopTiers, ExactContribution(m))
<1>0. /\ LoopTiers \in SUBSET Tiers /\ Recycled \in SUBSET Tiers /\ Recycled \subseteq LoopTiers
      /\ OutputPercent \in Nat /\ Unit(Target) \in Nat \ {0}
  BY InputsAre
<1>1. /\ \A r \in Recycled : ExactCrafted(m)[r] \in Nat
      /\ \A t \in LoopTiers : ExactContribution(m)[t] \in Nat /\ ExactReturned(t, m) \in Nat
      /\ ExactNext(m) \in [Tiers -> Nat]
  BY ExactIsNat
<1>2. SumOfTiers(crafted) <= SumOfTiers(before)
  <2> DEFINE Q == [i \in LoopTiers |-> assemblerProb(i)]
             y == ExactCrafted(m)
  <2>1. /\ \A i \in LoopTiers : m[i] \in Nat /\ SumOfTiers(Q[i]) <= Unit(Target)
        /\ \A i \in LoopTiers, t \in Tiers : Q[i][t] \in Nat
    BY <1>0, SharesAre
  <2>2. ASSUME NEW t \in Recycled
        PROVE  y[t] = MixSum(LoopTiers, [i \in LoopTiers |-> Q[i][t]], m) \div Unit(Target)
    <3>1. [i \in LoopTiers |-> Q[i][t]] = CraftShares(t)
      BY DEF CraftShares
    <3> HIDE DEF Q
    <3> QED BY <3>1 DEF ExactCrafted
  <2> HIDE DEF Q, y
  <2>3. SumOfTiers(Padded(Recycled, y)) <= SumOfTiers(Padded(LoopTiers, m))
    BY <1>0, <2>1, <2>2, MixesAreNoMore
  <2> QED BY <2>3 DEF y
<1>3. SumOfTiers(back) <= SumOfTiers(crafted)
  <2> DEFINE Q == [r \in Recycled |-> recyclerProb(r)]
             x == ExactCrafted(m)
             y == ExactContribution(m)
  <2>1. /\ \A r \in Recycled : x[r] \in Nat /\ SumOfTiers(Q[r]) <= Unit(Target)
        /\ \A r \in Recycled, t \in Tiers : Q[r][t] \in Nat
    BY <1>0, <1>1, SharesAre
  <2>2. ASSUME NEW t \in LoopTiers
        PROVE  y[t] = MixSum(Recycled, [r \in Recycled |-> Q[r][t]], x) \div Unit(Target)
    <3>1. [r \in Recycled |-> Q[r][t]] = RecycleShares(t)
      BY DEF RecycleShares
    <3> HIDE DEF Q
    <3> QED BY <3>1 DEF ExactContribution
  <2> HIDE DEF Q, x, y
  <2>3. SumOfTiers(Padded(LoopTiers, y)) <= SumOfTiers(Padded(Recycled, x))
    BY <1>0, <2>1, <2>2, MixesAreNoMore
  <2> QED BY <2>3 DEF x, y
<1>4. \A t \in Tiers : before[t] \in Nat /\ crafted[t] \in Nat /\ back[t] \in Nat
  BY <1>1 DEF Padded
<1>5. /\ \A r \in Recycled : ExactCrafted(m)[r] = crafted[r]
      /\ \A t \in LoopTiers : ExactContribution(m)[t] = back[t]
  BY <1>0 DEF Padded
<1>6. /\ SumOfTiers(before) \in Nat /\ SumOfTiers(crafted) \in Nat /\ SumOfTiers(back) \in Nat
      /\ \A t \in Tiers : crafted[t] <= SumOfTiers(crafted) /\ back[t] <= SumOfTiers(back)
  <2> HIDE DEF before, crafted, back
  <2> QED BY <1>4, SumIsNat
<1>7. ASSUME NEW t \in Tiers
      PROVE  400 * ExactNext(m)[t] <= 400 * Source[t] + OutputPercent * back[t]
  <2>1. CASE t \in LoopTiers
    <3> DEFINE product == OutputPercent * ExactContribution(m)[t]
               quarter == product \div 400
    <3>1. product \in Nat
      BY <1>0, <1>1, <2>1
    <3>2. quarter \in Nat /\ 400 * quarter <= product
      <4> HIDE DEF product
      <4> QED BY <3>1, Division
    <3>3. ExactNext(m)[t] = quarter + Source[t]
      BY <2>1 DEF ExactNext, ExactReturned
    <3>4. product = OutputPercent * back[t]
      BY <1>5, <2>1
    <3> HIDE DEF product, quarter
    <3> QED BY <3>2, <3>1, <3>3, <3>4, SourceIs
  <2>2. CASE t \notin LoopTiers
    <3>1. ExactNext(m)[t] = 0 /\ back[t] = 0
      BY <2>2 DEF ExactNext, Padded
    <3> QED BY <1>0, <3>1, SourceIs
  <2> QED BY <2>1, <2>2
<1>8. 400 * SumOfTiers(ExactNext(m)) <= 400 * Scale + OutputPercent * SumOfTiers(back)
  <2> DEFINE next == ExactNext(m)
             O == OutputPercent
  <2> HIDE DEF next, O, back
  <2>1. \A t \in Tiers : /\ next[t] \in Nat /\ Source[t] \in Nat /\ back[t] \in Nat
                         /\ O \in Nat /\ O * back[t] \in Nat
                         /\ 400 * next[t] <= 400 * Source[t] + O * back[t]
    BY <1>0, <1>1, <1>4, <1>7, SourceIs DEF next, O
  <2>2. O * SumOfTiers(back) = O * back[0] + O * back[1] + O * back[2] + O * back[3] + O * back[4]
    BY <2>1, TiersAre DEF SumOfTiers
  <2>3. 400 * SumOfTiers(next) <= 400 * SumOfTiers(Source) + O * SumOfTiers(back)
    BY <2>1, <2>2, TiersAre DEF SumOfTiers
  <2> QED BY <2>3, SourceIs DEF next, O
<1>9. OutputPercent * SumOfTiers(back) <= OutputPercent * SumOfTiers(before)
  <2> HIDE DEF before, back, crafted
  <2> QED BY <1>0, <1>2, <1>3, <1>6, ProductGrows
<1>10. SumOfTiers(ExactNext(m)) \in Nat
  BY <1>1, SumIsNat
<1> HIDE DEF before, crafted, back
<1>11. 400 * SumOfTiers(ExactNext(m)) <= 400 * Scale + OutputPercent * SumOfTiers(before)
  <2>1. OutputPercent * SumOfTiers(back) \in Nat /\ OutputPercent * SumOfTiers(before) \in Nat
        /\ Scale \in Nat
    BY <1>0, <1>6, SolverAssumption
  <2> QED BY <1>8, <1>9, <1>10, <2>1
<1>12. 400 * SumOfTiers(ExactNext(m)) <= 400 * Scale + OutputPercent * SumOfTiers(crafted)
  <2>1. OutputPercent * SumOfTiers(back) <= OutputPercent * SumOfTiers(crafted)
    BY <1>0, <1>3, <1>6, ProductGrows
  <2>2. OutputPercent * SumOfTiers(back) \in Nat /\ OutputPercent * SumOfTiers(crafted) \in Nat
        /\ Scale \in Nat
    BY <1>0, <1>6, SolverAssumption
  <2> QED BY <1>8, <1>10, <2>1, <2>2
<1>13. \A r \in Recycled : ExactCrafted(m)[r] <= SumOfTiers(before)
  BY <1>0, <1>2, <1>4, <1>5, <1>6
<1>14. \A t \in LoopTiers : ExactContribution(m)[t] <= SumOfTiers(before)
  BY <1>0, <1>2, <1>3, <1>4, <1>5, <1>6
<1> QED BY <1>2, <1>11, <1>12, <1>13, <1>14 DEF before, crafted

\* More material makes no less of any tier.
LEMMA PassGrows ==
    ASSUME input \in Inputs, NEW m, NEW n,
           \A i \in LoopTiers : m[i] \in Nat /\ n[i] \in Nat /\ m[i] <= n[i]
    PROVE  \A t \in LoopTiers : ExactNext(m)[t] <= ExactNext(n)[t]
<1>0. /\ LoopTiers \in SUBSET Tiers /\ Recycled \in SUBSET Tiers /\ Recycled \subseteq LoopTiers
      /\ OutputPercent \in Nat /\ Unit(Target) \in Nat \ {0}
  BY InputsAre
<1>1. /\ \A r \in Recycled : ExactCrafted(m)[r] \in Nat /\ ExactCrafted(n)[r] \in Nat
      /\ \A t \in LoopTiers : /\ ExactContribution(m)[t] \in Nat /\ ExactReturned(t, m) \in Nat
                              /\ ExactContribution(n)[t] \in Nat /\ ExactReturned(t, n) \in Nat
  BY ExactIsNat
<1>2. \A r \in Recycled : ExactCrafted(m)[r] <= ExactCrafted(n)[r]
  BY <1>0, SharesAreNat, MixGrows DEF ExactCrafted
<1>3. ASSUME NEW t \in LoopTiers
      PROVE  ExactContribution(m)[t] <= ExactContribution(n)[t]
  <2> DEFINE x == ExactCrafted(m)
             y == ExactCrafted(n)
  <2>1. \A r \in Recycled : x[r] \in Nat /\ y[r] \in Nat /\ x[r] <= y[r]
    BY <1>1, <1>2
  <2> HIDE DEF x, y
  <2>2. MixSum(Recycled, RecycleShares(t), x) \div Unit(Target)
          <= MixSum(Recycled, RecycleShares(t), y) \div Unit(Target)
    BY <1>0, <2>1, SharesAreNat, MixGrows
  <2> QED BY <2>2 DEF x, y, ExactContribution
<1>4. ASSUME NEW t \in LoopTiers PROVE ExactReturned(t, m) <= ExactReturned(t, n)
  <2> DEFINE a == OutputPercent * ExactContribution(m)[t]
             b == OutputPercent * ExactContribution(n)[t]
  <2>1. a \in Nat /\ b \in Nat /\ a <= b
    BY <1>0, <1>1, <1>3, ProductGrows
  <2> HIDE DEF a, b
  <2>2. a \div 400 <= b \div 400
    BY <2>1, DivisionGrows
  <2> QED BY <2>2 DEF a, b, ExactReturned
<1> QED BY <1>0, <1>1, <1>4, SourceIs DEF ExactNext

-----------------------------------------------------------------------------
(* The invariant                                                           *)

AllNumbers == \A i \in LoopTiers : materials[i] \in Nat

Held == SumOfTiers(Padded(LoopTiers, materials))

SupplyInv == AllNumbers => Held * (400 - OutputPercent) <= 400 * Scale

\* The next pass makes no less of any tier.
GrowInv == AllNumbers => \A t \in LoopTiers : materials[t] <= ExactNext(materials)[t]

SolverInv ==
    /\ TypeOK
    /\ pc = "solving" => Target # QualityNormal
    /\ \A t \in Tiers \ LoopTiers : materials[t] = 0
    /\ SupplyInv
    /\ GrowInv

LEMMA TotalIsHeld ==
    ASSUME TypeOK
    PROVE  /\ IsNumber(Total) <=> AllNumbers
           /\ AllNumbers => Total = Held /\ Held \in Nat
<1>0. LoopTiers \in SUBSET Tiers /\ \A i \in LoopTiers : materials[i] \in Amounts
  BY InputsAre DEF TypeOK
<1>1. CASE AllNumbers
  <2> DEFINE all == Padded(LoopTiers, materials)
  <2>1. Total = SumOfTiers(all)
    BY <1>1, NumbersAre DEF Total, SumOver, AllNumbers, Padded, IsNumber
  <2>2. \A t \in Tiers : all[t] \in Nat
    BY <1>1 DEF AllNumbers, Padded
  <2>3. SumOfTiers(all) \in Nat
    <3> HIDE DEF all
    <3> QED BY <2>2, SumIsNat
  <2> QED BY <1>1, <2>1, <2>3, NumbersAre DEF Held
<1>2. CASE ~AllNumbers
  <2>1. PICK i \in LoopTiers : materials[i] \in {Inf, NaN}
    BY <1>0, <1>2, NumbersAre DEF AllNumbers, IsNumber
  <2>2. Total \in {Inf, NaN}
    BY <2>1 DEF Total, SumOver
  <2> QED BY <1>2, <2>2 DEF IsNumber
<1> QED BY <1>1, <1>2

\* A call begins with the unit of Normal input.
LEMMA SourceIsInvariant ==
    ASSUME input \in Inputs, materials = Source
    PROVE  /\ materials \in [Tiers -> Amounts] /\ materials \in [Tiers -> Nat]
           /\ \A t \in Tiers \ LoopTiers : materials[t] = 0
           /\ Held = Scale
           /\ SupplyInv /\ GrowInv
<1>0. LoopTiers \in SUBSET Tiers /\ QualityNormal \in LoopTiers /\ OutputPercent \in Nat
  BY InputsAre
<1>1. materials \in [Tiers -> Nat]
  BY SourceIs
<1>2. materials \in [Tiers -> Amounts]
  BY SolverAssumption DEF Source, Amounts
<1>3. \A t \in Tiers \ LoopTiers : materials[t] = 0
  BY <1>0 DEF Source
<1>4. Padded(LoopTiers, materials) = Source
  BY <1>0, SourceIs DEF Padded, Source
<1>5. Held = Scale
  BY <1>4, SourceIs DEF Held
<1>6. SupplyInv
  <2>1. Scale \in Nat
    BY SolverAssumption
  <2>2. Scale * (400 - OutputPercent) <= 400 * Scale
    BY <1>0, <2>1
  <2> QED BY <1>5, <2>2 DEF SupplyInv
<1>7. GrowInv
  <2> SUFFICES ASSUME AllNumbers, NEW t \in LoopTiers
               PROVE  materials[t] <= ExactNext(materials)[t]
    BY DEF GrowInv
  <2>1. ExactReturned(t, materials) \in Nat
    BY ExactIsNat DEF AllNumbers
  <2> QED BY <1>0, <2>1, SourceIs DEF ExactNext
<1> QED BY <1>1, <1>2, <1>3, <1>5, <1>6, <1>7

\* What a pass makes depends on the call's input and on the amounts alone.
LEMMA SamePass ==
    ASSUME input' = input
    PROVE  /\ LoopTiers' = LoopTiers /\ OutputPercent' = OutputPercent /\ Target' = Target
           /\ Recycled' = Recycled /\ ExactCrafted(materials)' = ExactCrafted(materials')
           /\ ExactNext(materials)' = ExactNext(materials')
<1>1. /\ LoopTiers' = LoopTiers /\ Recycled' = Recycled /\ OutputPercent' = OutputPercent
      /\ Target' = Target
  BY DEF LoopTiers, Recycled, OutputPercent, Target
<1>2. /\ \A i : assemblerProb(i)' = assemblerProb(i) /\ recyclerProb(i)' = recyclerProb(i)
  BY <1>1 DEF assemblerProb, recyclerProb
<1>3. \A t : CraftShares(t)' = CraftShares(t) /\ RecycleShares(t)' = RecycleShares(t)
  BY <1>1, <1>2 DEF CraftShares, RecycleShares
<1>4. ExactCrafted(materials)' = ExactCrafted(materials')
  BY <1>1, <1>3 DEF ExactCrafted, MixSum
<1>5. ExactContribution(materials)' = ExactContribution(materials')
  BY <1>1, <1>3, <1>4 DEF ExactContribution, MixSum
<1>6. ExactNext(materials)' = ExactNext(materials')
  BY <1>1, <1>5 DEF ExactNext, ExactReturned, Source
<1> QED BY <1>1, <1>4, <1>6

LEMMA IterateKeepsInv ==
    ASSUME SolverInv, Iterate
    PROVE  SolverInv'
<1>0. /\ input \in Inputs /\ LoopTiers \in SUBSET Tiers /\ QualityNormal \in LoopTiers
      /\ OutputPercent \in Nat
      /\ \A i \in LoopTiers : materials[i] \in Amounts
      /\ Target # QualityNormal
  BY InputsAre DEF SolverInv, TypeOK, Iterate
<1>1. input' = input /\ materials' = NextMaterials
  BY DEF Iterate
<1>2. /\ LoopTiers' = LoopTiers /\ OutputPercent' = OutputPercent /\ Target' = Target
      /\ ExactNext(materials)' = ExactNext(materials')
  BY <1>1, SamePass
<1>3. \A t \in Tiers \ LoopTiers : materials'[t] = 0
  BY <1>1 DEF NextMaterials
<1>4. materials' \in [Tiers -> Amounts]
  <2>1. \A t \in LoopTiers : NextMaterials[t] \in Amounts
    BY <1>0, NumbersAreExact
  <2> QED BY <1>1, <1>3, <2>1, SolverAssumption DEF NextMaterials, Amounts
<1>5. TypeOK'
  BY <1>0, <1>1, <1>4, SolverAssumption DEF TypeOK, SolverInv, Iterate
<1>6. ASSUME AllNumbers'
      PROVE  /\ AllNumbers
             /\ \A t \in LoopTiers : materials'[t] = ExactNext(materials)[t]
             /\ Padded(LoopTiers, materials)' = ExactNext(materials)
             /\ ExactNext(materials) \in [Tiers -> Nat]
  <2>1. \A t \in LoopTiers : IsNumber(NextMaterials[t])
    BY <1>1, <1>2, <1>6, NumbersAre DEF AllNumbers
  <2>2. /\ \A i \in LoopTiers : materials[i] \in Nat
        /\ \A t \in LoopTiers : NextMaterials[t] = ExactNext(materials)[t]
    BY <1>0, <2>1, NumbersAreExact
  <2>3. ExactNext(materials) \in [Tiers -> Nat]
    BY <1>0, <2>2, ExactIsNat
  <2>4. Padded(LoopTiers, materials)' = ExactNext(materials)
    BY <1>1, <1>2, <2>2 DEF Padded, ExactNext
  <2> QED BY <1>1, <2>2, <2>3, <2>4 DEF AllNumbers
<1>7. SupplyInv'
  <2> SUFFICES ASSUME AllNumbers'
               PROVE  Held' * (400 - OutputPercent) <= 400 * Scale
    BY <1>2 DEF SupplyInv
  <2> DEFINE held == SumOfTiers(Padded(LoopTiers, materials))
             next == SumOfTiers(ExactNext(materials))
             O == OutputPercent
  <2>1. /\ held \in Nat /\ held * (400 - O) <= 400 * Scale
    BY <1>6, TotalIsHeld DEF SolverInv, SupplyInv, Held
  <2>2. 400 * next <= 400 * Scale + O * held
    BY <1>0, <1>6, PassPays DEF AllNumbers
  <2>3. next \in Nat
    BY <1>6, SumIsNat
  <2>4. Held' = next
    BY <1>6 DEF Held, SumOfTiers
  <2>5. O \in Nat /\ Scale \in Nat
    BY <1>0, SolverAssumption
  <2> HIDE DEF held, next, O
  <2>6. next * (400 - O) <= 400 * Scale
    <3>1. CASE O > 400
      <4>1. next * (400 - O) <= 0
        BY <2>3, <2>5, <3>1
      <4> QED BY <2>3, <2>5, <4>1
    <3>2. CASE O <= 400
      <4> DEFINE D == 400 - O
                 n == next * D
                 h == held * D
                 s == Scale * D
      <4>1. D \in Nat /\ D = 400 - O
        BY <2>5, <3>2
      <4> HIDE DEF D
      <4>2. (400 * next) * D <= (400 * Scale + O * held) * D
        <5> DEFINE a == 400 * next
                   b == 400 * Scale + O * held
        <5>1. a \in Nat /\ b \in Nat /\ a <= b
          BY <2>1, <2>2, <2>3, <2>5
        <5> HIDE DEF a, b
        <5>2. a * D <= b * D
          BY <4>1, <5>1
        <5> QED BY <5>2 DEF a, b
      <4>3. (400 * next) * D = 400 * n
        BY <2>3, <4>1
      <4>4. (400 * Scale + O * held) * D = 400 * s + O * h
        BY <2>1, <2>5, <4>1
      <4>5. O * h <= O * (400 * Scale)
        <5>1. h \in Int /\ h <= 400 * Scale
          BY <2>1, <2>5, <4>1
        <5> HIDE DEF h
        <5> QED BY <2>5, <5>1
      <4>6. 400 * s + O * (400 * Scale) = 400 * (400 * Scale)
        BY <2>5, <4>1
      <4>7. n \in Int /\ h \in Int /\ s \in Int
        BY <2>1, <2>3, <2>5, <4>1
      <4> HIDE DEF n, h, s
      <4>8. O * h \in Int /\ O * (400 * Scale) \in Int
        BY <2>5, <4>7
      <4>9. n <= 400 * Scale
        BY <2>5, <4>2, <4>3, <4>4, <4>5, <4>6, <4>7, <4>8
      <4> QED BY <4>1, <4>9 DEF n
    <3> QED BY <2>5, <3>1, <3>2
  <2> QED BY <2>4, <2>6 DEF O
<1>8. GrowInv'
  <2> SUFFICES ASSUME AllNumbers', NEW t \in LoopTiers
               PROVE  materials'[t] <= ExactNext(materials')[t]
    BY <1>2 DEF GrowInv
  <2>1. \A i \in LoopTiers : /\ materials[i] \in Nat /\ materials'[i] \in Nat
                             /\ materials[i] <= materials'[i]
    BY <1>2, <1>6 DEF SolverInv, GrowInv, AllNumbers
  <2>2. ExactNext(materials)[t] <= ExactNext(materials')[t]
    BY <1>0, <2>1, PassGrows
  <2> QED BY <1>6, <2>2
<1> QED BY <1>0, <1>2, <1>3, <1>5, <1>7, <1>8 DEF SolverInv, Iterate

-----------------------------------------------------------------------------
(* The theorems                                                            *)

CallBegins ==
    (input \in Inputs /\ materials = Source) =>
        /\ materials \in [Tiers -> Amounts] /\ materials \in [Tiers -> Nat]
        /\ \A t \in Tiers \ LoopTiers : materials[t] = 0
        /\ Held = Scale
        /\ SupplyInv /\ GrowInv

LEMMA CallBeginsSo == CallBegins
BY SourceIsInvariant DEF CallBegins

LEMMA InvIsInitial == ASSUME Init PROVE SolverInv
BY CallBeginsSo, SolverAssumption DEF Init, SolverInv, TypeOK, CallBegins

LEMMA CallMakesInv ==
    ASSUME NEW i \in Inputs, Call(i)
    PROVE  SolverInv'
<1>1. CallBegins'
  BY CallBeginsSo, PTL
<1>2. input' \in Inputs /\ materials' = Source'
  BY DEF Call, Source
<1> QED BY <1>1, <1>2, SolverAssumption
        DEF Call, SolverInv, TypeOK, CallBegins, Target

LEMMA InvIsKept == ASSUME SolverInv, [Next]_solverVars PROVE SolverInv'
<1>1. ASSUME NEW i \in Inputs, Call(i) PROVE SolverInv'
  BY <1>1, CallMakesInv
<1>2. CASE Iterate
  BY <1>2, IterateKeepsInv
<1>3. CASE GiveUp \/ Return \/ UNCHANGED solverVars
  <2>1. input' = input /\ materials' = materials /\ iter' = iter
    BY <1>3 DEF GiveUp, Return, solverVars
  <2>2. /\ LoopTiers' = LoopTiers /\ OutputPercent' = OutputPercent /\ Target' = Target
        /\ ExactNext(materials)' = ExactNext(materials)
    BY <2>1, SamePass
  <2>3. TypeOK' /\ (pc' = "solving" => Target # QualityNormal)
    BY <1>3, <2>1 DEF GiveUp, Return, solverVars, SolverInv, TypeOK
  <2>4. SupplyInv' /\ GrowInv'
    BY <2>1, <2>2 DEF SolverInv, SupplyInv, GrowInv, AllNumbers, Held, Padded, SumOfTiers
  <2> QED BY <2>1, <2>2, <2>3, <2>4 DEF SolverInv
<1> QED BY <1>1, <1>2, <1>3 DEF Next

\* The amounts are numbers up to the largest, Inf or NaN, and the loop runs no more
\* often than its limit (internal/planner.go:214-249).
THEOREM SolverTypeCorrect == Spec => []TypeOK
<1>1. SolverInv => TypeOK
  BY DEF SolverInv
<1> QED BY <1>1, InvIsInitial, InvIsKept, PTL DEF Spec

\* In no iteration is more in the loop than the unit that was fed to it and what the
\* recyclers return of all that is crafted pay for, whatever the split between tiers
\* (internal/planner.go:214-240): it follows from the same of the pass before, since the
\* shares of qualityDistribution add up to one.
THEOREM SupplyIsPaidFor == Spec => []SupplyBound
<1>1. SolverInv => SupplyBound
  BY TotalIsHeld DEF SolverInv, SupplyInv, SupplyBound
<1> QED BY <1>1, InvIsInitial, InvIsKept, PTL DEF Spec

\* No iteration takes back material that an earlier one supplied (MaterialsGrow): the
\* pass of internal/planner.go:218-244 is monotone, and starts from the least amounts.
THEOREM MaterialsOnlyGrow == Spec => MaterialsGrow
<1> DEFINE Grows == Iterate => \A t \in Tiers :
                       IsNumber(materials[t]) /\ IsNumber(materials'[t])
                           => materials[t] <= materials'[t]
<1>1. ASSUME SolverInv, Iterate, NEW t \in Tiers,
             IsNumber(materials[t]), IsNumber(materials'[t])
      PROVE  materials[t] <= materials'[t]
  <2>0. /\ input \in Inputs /\ Target # QualityNormal
        /\ \A i \in LoopTiers : materials[i] \in Amounts
    BY <1>1, InputsAre DEF SolverInv, TypeOK, Iterate
  <2>1. CASE t \in LoopTiers
    <3>1. IsNumber(NextMaterials[t]) /\ materials'[t] = NextMaterials[t]
      BY <1>1 DEF Iterate
    <3>2. AllNumbers /\ NextMaterials[t] = ExactNext(materials)[t]
      BY <2>0, <2>1, <3>1, NumbersAreExact DEF AllNumbers
    <3> QED BY <1>1, <2>1, <3>1, <3>2 DEF SolverInv, GrowInv
  <2>2. CASE t \notin LoopTiers
    <3>1. materials[t] = 0 /\ materials'[t] = 0
      BY <1>1, <2>2 DEF SolverInv, Iterate, NextMaterials
    <3> QED BY <3>1
  <2> QED BY <2>1, <2>2
<1>2. SolverInv /\ [Next]_solverVars => [Grows]_solverVars
  BY <1>1
<1>3. Spec => [][Grows]_solverVars
  BY <1>2, InvIsInitial, InvIsKept, PTL DEF Spec
<1> QED BY <1>3 DEF MaterialsGrow

-----------------------------------------------------------------------------
(* Ratios                                                                  *)

\* What the largest amount must leave room for: a unit for every pass and one to
\* begin with (10001 of them, and float64 has room for 10^308). Productivity is what
\* docs/factorio-quality-productivity-notes.md says a recipe is capped at.
AmountsFit ==
    /\ \A i \in Inputs : i.Productivity <= 300
    /\ Scale * (loopSolverMaxIterations + 1) <= MaxFinite

\* No pass gains more than the unit that is fed to it, and none loses that.
RoomInv ==
    /\ AllNumbers
    /\ materials[QualityNormal] >= Scale
    /\ Held <= Scale * (iter + 1)

\* Below the largest amount a pass makes what it would make without one.
LEMMA SmallIsExact ==
    ASSUME input \in Inputs, AllNumbers, Held <= MaxFinite,
           SumOfTiers(ExactNext(materials)) <= MaxFinite,
           NEW t \in LoopTiers
    PROVE  NextMaterials[t] = ExactNext(materials)[t]
<1>0. /\ LoopTiers \in SUBSET Tiers /\ Recycled \in SUBSET Tiers /\ Recycled \subseteq LoopTiers
      /\ OutputPercent \in Nat /\ Unit(Target) \in Nat \ {0} /\ t \in Tiers
      /\ \A i \in LoopTiers : materials[i] \in Nat
      /\ MaxFinite \in Nat
  BY InputsAre, SolverAssumption DEF AllNumbers
<1>1. /\ \A r \in Recycled : /\ ExactCrafted(materials)[r] \in Nat
                             /\ ExactCrafted(materials)[r] <= Held
      /\ ExactContribution(materials)[t] \in Nat /\ ExactContribution(materials)[t] <= Held
      /\ ExactReturned(t, materials) \in Nat
      /\ ExactNext(materials) \in [Tiers -> Nat]
      /\ Held \in Nat
  <2>1. Held \in Nat
    <3> DEFINE all == Padded(LoopTiers, materials)
    <3>1. \A i \in Tiers : all[i] \in Nat
      BY <1>0 DEF Padded
    <3> HIDE DEF all
    <3>2. SumOfTiers(all) \in Nat
      BY <3>1, SumIsNat
    <3> QED BY <3>2 DEF Held, all
  <2> QED BY <1>0, <2>1, ExactIsNat, PassPays DEF Held
<1>2. ASSUME NEW r \in Recycled PROVE CraftedOf(r) = ExactCrafted(materials)[r]
  <2> DEFINE exact == MixSum(LoopTiers, CraftShares(r), materials) \div Unit(Target)
  <2>1. CraftedOf(r) = Bounded(exact)
    BY <1>0, PassIs, SharesAreNat, MixOfNumbers
  <2>2. exact = ExactCrafted(materials)[r]
    BY DEF ExactCrafted
  <2> HIDE DEF exact
  <2> QED BY <1>0, <1>1, <2>1, <2>2, NumbersAre
<1>3. Contribution(t) = ExactContribution(materials)[t]
  <2> DEFINE crafted == [r \in Recycled |-> CraftedOf(r)]
             exact == MixSum(Recycled, RecycleShares(t), crafted) \div Unit(Target)
  <2>1. crafted = ExactCrafted(materials)
    BY <1>2 DEF ExactCrafted
  <2>2. \A r \in Recycled : crafted[r] \in Nat
    BY <1>1, <1>2
  <2>3. Contribution(t) = Mix(Recycled, RecycleShares(t), crafted, Unit(Target))
    BY DEF Contribution
  <2> HIDE DEF crafted
  <2>4. Contribution(t) = Bounded(exact)
    BY <1>0, <2>2, <2>3, SharesAreNat, MixOfNumbers
  <2>5. exact = ExactContribution(materials)[t]
    BY <2>1 DEF ExactContribution
  <2> HIDE DEF exact
  <2> QED BY <1>0, <1>1, <2>4, <2>5, NumbersAre
<1>4. ExactNext(materials)[t] <= MaxFinite
      /\ ExactNext(materials)[t] = ExactReturned(t, materials) + Source[t]
  <2> DEFINE next == ExactNext(materials)
  <2>1. next[t] = ExactReturned(t, materials) + Source[t]
    BY <1>0 DEF ExactNext
  <2>2. next \in [Tiers -> Nat] /\ SumOfTiers(next) <= MaxFinite
    BY <1>1
  <2> HIDE DEF next
  <2>3. next[t] <= SumOfTiers(next) /\ SumOfTiers(next) \in Nat /\ next[t] \in Nat
    BY <1>0, <2>2, SumIsNat
  <2>4. next[t] <= MaxFinite
    BY <1>0, <2>2, <2>3
  <2> QED BY <2>1, <2>4 DEF next
<1>5. Source[t] \in Nat
  BY <1>0, SourceIs
<1>6. ReturnedOf(t) = ExactReturned(t, materials)
  <2> DEFINE product == OutputPercent * ExactContribution(materials)[t]
             exact == product \div 400
  <2>1. product \in Nat
    BY <1>0, <1>1
  <2>2. Times(OutputPercent, Contribution(t)) = product
    BY <1>1, <1>3, NumbersAre DEF Times
  <2>3. exact = ExactReturned(t, materials)
    BY DEF ExactReturned
  <2>4. ReturnedOf(t) = Bounded(exact)
    <3> HIDE DEF product
    <3>1. IsNumber(product)
      BY <2>1, NumbersAre
    <3> QED BY <2>2, <3>1, PassIs DEF Over
  <2> HIDE DEF exact
  <2>5. exact <= MaxFinite
    BY <1>0, <1>1, <1>4, <1>5, <2>3
  <2> QED BY <1>1, <2>3, <2>4, <2>5, NumbersAre
<1> DEFINE sum == ExactReturned(t, materials) + Source[t]
<1>7. sum \in Nat /\ sum = ExactNext(materials)[t]
  BY <1>1, <1>4, <1>5
<1>8. NextMaterials[t] = Bounded(sum)
  <2>1. IsNumber(ExactReturned(t, materials))
    BY <1>1, NumbersAre
  <2> QED BY <1>0, <1>6, <2>1 DEF NextMaterials, Plus
<1> HIDE DEF sum
<1> QED BY <1>0, <1>4, <1>7, <1>8, NumbersAre

LEMMA IterateKeepsRoom ==
    ASSUME AmountsFit, SolverInv, RoomInv, Iterate
    PROVE  RoomInv'
<1>0. /\ input \in Inputs /\ LoopTiers \in SUBSET Tiers /\ QualityNormal \in LoopTiers
      /\ OutputPercent \in 0 .. 400
      /\ Scale \in Nat /\ MaxFinite \in Nat
      /\ iter \in Nat /\ iter + 1 <= loopSolverMaxIterations /\ loopSolverMaxIterations \in Nat
      /\ AllNumbers
  <2>1. input \in Inputs
    BY DEF SolverInv, TypeOK
  <2>2. OutputPercent \in 0 .. 400
    <3> DEFINE productivity == input.Productivity
    <3>1. productivity \in Int /\ productivity <= 300
      BY <2>1, SolverAssumption DEF AmountsFit
    <3>2. OutputPercent = IF productivity < -100 THEN 0 ELSE 100 + productivity
      BY DEF OutputPercent
    <3> HIDE DEF productivity
    <3> QED BY <3>1, <3>2
  <2> QED BY <2>1, <2>2, InputsAre, SolverAssumption DEF SolverInv, TypeOK, RoomInv, Iterate
<1>1. /\ input' = input /\ materials' = NextMaterials /\ iter' = iter + 1
  BY DEF Iterate
<1>2. LoopTiers' = LoopTiers
  BY <1>1, SamePass
<1> DEFINE next == SumOfTiers(ExactNext(materials))
<1>3. /\ Held \in Nat /\ next \in Nat
      /\ 400 * next <= 400 * Scale + OutputPercent * Held
      /\ ExactNext(materials) \in [Tiers -> Nat]
  <2>1. Held \in Nat
    BY <1>0, TotalIsHeld DEF SolverInv
  <2>2. ExactNext(materials) \in [Tiers -> Nat]
    BY <1>0, ExactIsNat DEF AllNumbers
  <2>3. next \in Nat
    BY <2>2, SumIsNat
  <2> QED BY <1>0, <2>1, <2>2, <2>3, PassPays DEF Held, AllNumbers
<1>4. next <= Scale + Held
  <2> HIDE DEF next
  <2> DEFINE O == OutputPercent
             h == Held
  <2>1. O \in 0 .. 400 /\ h \in Nat /\ 400 * next <= 400 * Scale + O * h
    BY <1>0, <1>3
  <2> HIDE DEF O, h
  <2>2. O * h <= 400 * h /\ O * h \in Nat
    BY <2>1
  <2>3. next <= Scale + h
    BY <1>0, <1>3, <2>1, <2>2
  <2> QED BY <2>3 DEF h
<1>5. next <= Scale * (iter + 2) /\ Held <= MaxFinite /\ next <= MaxFinite
  <2> HIDE DEF next
  <2> DEFINE h == Held
             max == loopSolverMaxIterations
  <2>1. /\ h \in Nat /\ h <= Scale * (iter + 1) /\ next <= Scale + h
        /\ max \in Nat /\ Scale * (max + 1) <= MaxFinite
    BY <1>0, <1>3, <1>4 DEF RoomInv, AmountsFit
  <2>2. iter + 2 <= max + 1
    BY <1>0
  <2> HIDE DEF h, max
  <2>3. Scale + Scale * (iter + 1) = Scale * (iter + 2)
    BY <1>0
  <2>4. Scale * (iter + 2) <= Scale * (max + 1)
    BY <1>0, <2>1, <2>2, ProductGrows
  <2>5. Scale * (iter + 1) \in Nat /\ Scale * (iter + 2) \in Nat /\ Scale * (max + 1) \in Nat
    BY <1>0, <2>1
  <2>6. h <= MaxFinite /\ next <= MaxFinite /\ next <= Scale * (iter + 2)
    BY <1>0, <1>3, <2>1, <2>3, <2>4, <2>5
  <2> QED BY <2>6 DEF h
<1>6. \A t \in LoopTiers : materials'[t] = ExactNext(materials)[t]
  BY <1>0, <1>1, <1>5, SmallIsExact
<1>7. AllNumbers'
  BY <1>0, <1>2, <1>3, <1>6 DEF AllNumbers
<1>8. materials'[QualityNormal] >= Scale
  <2>1. ExactReturned(QualityNormal, materials) \in Nat
    BY <1>0, ExactIsNat DEF AllNumbers
  <2>2. ExactNext(materials)[QualityNormal] = ExactReturned(QualityNormal, materials) + Scale
    BY <1>0, SourceIs DEF ExactNext
  <2> QED BY <1>0, <1>6, <2>1, <2>2
<1>9. Held' = next
  <2>1. Padded(LoopTiers, materials)' = ExactNext(materials)
    BY <1>2, <1>6 DEF Padded, ExactNext
  <2> QED BY <2>1 DEF Held, SumOfTiers
<1>10. iter' + 1 = iter + 2
  BY <1>0, <1>1
<1> QED BY <1>5, <1>7, <1>8, <1>9, <1>10 DEF RoomInv

LEMMA CallMakesRoom ==
    ASSUME NEW i \in Inputs, Call(i)
    PROVE  RoomInv'
<1>1. CallBegins'
  BY CallBeginsSo, PTL
<1>2. input' \in Inputs /\ materials' = Source' /\ iter' = 0
  BY DEF Call, Source
<1>3. LoopTiers' \in SUBSET Tiers
  BY <1>2, SolverAssumption DEF LoopTiers, Target, Tiers, QualityNormal, QualityLegendary
<1>4. AllNumbers' /\ Held' = Scale
  BY <1>1, <1>2, <1>3 DEF CallBegins, AllNumbers
<1>5. materials'[QualityNormal] = Scale
  BY SourceIs DEF Call
<1>6. Scale \in Nat
  BY SolverAssumption
<1> QED BY <1>2, <1>4, <1>5, <1>6 DEF RoomInv

LEMMA RoomIsKept ==
    ASSUME AmountsFit, SolverInv, RoomInv, [Next]_solverVars
    PROVE  RoomInv'
<1>1. ASSUME NEW i \in Inputs, Call(i) PROVE RoomInv'
  BY <1>1, CallMakesRoom
<1>2. CASE Iterate
  BY <1>2, IterateKeepsRoom
<1>3. CASE GiveUp \/ Return \/ UNCHANGED solverVars
  <2>1. input' = input /\ materials' = materials /\ iter' = iter
    BY <1>3 DEF GiveUp, Return, solverVars
  <2>2. LoopTiers' = LoopTiers
    BY <2>1, SamePass
  <2> QED BY <2>1, <2>2 DEF RoomInv, AllNumbers, Held, Padded, SumOfTiers
<1> QED BY <1>1, <1>2, <1>3 DEF Next

LEMMA RoomIsInitial == ASSUME Init PROVE RoomInv
<1>1. /\ input \in Inputs /\ materials = Source /\ iter = 0 /\ Scale \in Nat
  BY SolverAssumption DEF Init
<1>2. AllNumbers /\ Held = Scale
  BY <1>1, CallBeginsSo, InputsAre DEF CallBegins, AllNumbers
<1> QED BY <1>1, <1>2, SourceIs DEF RoomInv

\* Shares of a whole, each rounded down, make up the whole but for less than one for
\* every tier that has a share.
LEMMA FloorsMakeTheWhole ==
    ASSUME NEW n \in Tiers, NEW S \in Nat, NEW x, NEW r,
           \A t \in Tiers : x[t] \in Nat /\ (t > n => x[t] = 0),
           SumOfTiers(x) \in Nat \ {0},
           \A t \in Tiers : r[t] = (x[t] * S) \div SumOfTiers(x)
    PROVE  SumOfTiers(r) \in S - n .. S
<1> DEFINE T == SumOfTiers(x)
           loss == [t \in Tiers |-> IF t <= n THEN 1 ELSE 0]
<1>1. T \in Nat \ {0}
  OBVIOUS
<1> HIDE DEF T
<1>2. ASSUME NEW t \in Tiers
      PROVE  /\ r[t] \in Nat /\ x[t] * S \in Nat /\ T * r[t] <= x[t] * S
             /\ x[t] * S <= T * r[t] + T * loss[t]
             /\ t = 0 => x[t] * S < T * r[t] + T * loss[t]
  <2> DEFINE a == x[t] * S
  <2>1. a \in Nat /\ r[t] = a \div T /\ (t > n => a = 0)
    BY DEF T
  <2>2. t \in Int /\ n \in Int /\ 0 <= n
    BY TiersAre
  <2>3. loss[t] = (IF t <= n THEN 1 ELSE 0)
    OBVIOUS
  <2> HIDE DEF a, loss
  <2>4. a \div T \in Nat /\ T * (a \div T) <= a /\ a < T * (a \div T) + T
    BY <1>1, <2>1, Division
  <2>5. r[t] \in Nat /\ T * r[t] <= a /\ a < T * r[t] + T
    BY <2>1, <2>4
  <2>6. CASE t <= n
    <3>1. T * loss[t] = T
      BY <1>1, <2>3, <2>6
    <3>2. a < T * r[t] + T * loss[t]
      BY <2>5, <3>1
    <3>3. T * r[t] \in Nat
      BY <1>1, <2>5
    <3>4. a <= T * r[t] + T * loss[t]
      BY <1>1, <2>1, <3>1, <3>2, <3>3
    <3> QED BY <2>1, <2>5, <3>2, <3>4 DEF a
  <2>7. CASE t > n
    <3>1. T * loss[t] = 0 /\ a = 0
      BY <1>1, <2>1, <2>2, <2>3, <2>7
    <3>2. T * r[t] \in Nat
      BY <1>1, <2>5
    <3>3. t # 0
      BY <2>2, <2>7
    <3>4. a <= T * r[t] + T * loss[t]
      BY <3>1, <3>2
    <3> QED BY <2>1, <2>5, <3>3, <3>4 DEF a
  <2> QED BY <2>2, <2>6, <2>7
<1> DEFINE R == r[0] + r[1] + r[2] + r[3] + r[4]
<1>3. R \in Nat /\ SumOfTiers(r) = R
  BY <1>2, TiersAre DEF SumOfTiers
<1>4. T * R = T * r[0] + T * r[1] + T * r[2] + T * r[3] + T * r[4]
  BY <1>1, <1>2, TiersAre
<1>5. T * S = x[0] * S + x[1] * S + x[2] * S + x[3] * S + x[4] * S
  <2>1. T = x[0] + x[1] + x[2] + x[3] + x[4]
    BY DEF T, SumOfTiers
  <2>2. \A t \in Tiers : x[t] \in Nat
    OBVIOUS
  <2> QED BY <2>1, <2>2, TiersAre
<1>6. T * loss[0] + T * loss[1] + T * loss[2] + T * loss[3] + T * loss[4] = T * (n + 1)
      /\ \A t \in Tiers : T * loss[t] \in Nat
  <2>1. \A t \in Tiers : loss[t] \in {0, 1} /\ T * loss[t] = (IF loss[t] = 1 THEN T ELSE 0)
    BY <1>1
  <2>2. loss[0] + loss[1] + loss[2] + loss[3] + loss[4] = n + 1
    BY TiersAre
  <2> HIDE DEF loss
  <2>3. T * (loss[0] + loss[1] + loss[2] + loss[3] + loss[4])
          = T * loss[0] + T * loss[1] + T * loss[2] + T * loss[3] + T * loss[4]
    BY <1>1, <2>1, TiersAre
  <2>4. \A t \in Tiers : T * loss[t] \in Nat
    BY <1>1, <2>1
  <2> QED BY <2>2, <2>3, <2>4
<1>7. \A t \in Tiers : T * r[t] \in Nat
  BY <1>1, <1>2
<1> HIDE DEF R, loss
<1>8. T * R <= T * S /\ T * S < T * R + T * (n + 1)
  <2> DEFINE a(t) == x[t] * S
             b(t) == T * r[t]
             c(t) == T * loss[t]
  <2>1. \A t \in Tiers : /\ a(t) \in Nat /\ b(t) \in Nat /\ c(t) \in Nat
                         /\ b(t) <= a(t) /\ a(t) <= b(t) + c(t)
                         /\ (t = 0 => a(t) < b(t) + c(t))
    BY <1>2, <1>6, <1>7
  <2>2. /\ T * S = a(0) + a(1) + a(2) + a(3) + a(4)
        /\ T * R = b(0) + b(1) + b(2) + b(3) + b(4)
        /\ T * (n + 1) = c(0) + c(1) + c(2) + c(3) + c(4)
    BY <1>4, <1>5, <1>6
  <2> HIDE DEF a, b, c
  <2> QED BY <2>1, <2>2, TiersAre
<1>9. n \in Nat
  BY TiersAre
<1>10. R <= S
  <2> SUFFICES ASSUME S + 1 <= R PROVE FALSE
    BY <1>3
  <2>1. T * (S + 1) <= T * R /\ T * (S + 1) = T * S + T
    BY <1>1, <1>3
  <2> QED BY <1>1, <1>3, <1>8, <2>1
<1>11. S <= R + n
  <2> SUFFICES ASSUME R + n + 1 <= S PROVE FALSE
    BY <1>3, <1>9
  <2>1. T * (R + n + 1) <= T * S /\ T * (R + n + 1) = T * R + T * (n + 1)
    BY <1>1, <1>3, <1>9
  <2>2. T * S \in Nat /\ T * R \in Nat /\ T * (n + 1) \in Nat
    BY <1>1, <1>3, <1>9
  <2> QED BY <1>8, <2>1, <2>2
<1> QED BY <1>3, <1>9, <1>10, <1>11

LEMMA RoomMakesShares ==
    ASSUME SolverInv, RoomInv
    PROVE  RatiosSumToOne
<1>0. /\ LoopTiers \in SUBSET Tiers /\ QualityNormal \in LoopTiers /\ Target \in Tiers
      /\ Scale \in Nat \ {0} /\ \A t \in LoopTiers : materials[t] \in Nat
      /\ \A t \in Tiers : t \notin LoopTiers <=> t > Target
  <2>1. input \in Inputs
    BY DEF SolverInv, TypeOK
  <2>2. Target \in Tiers
    BY <2>1, InputsAre
  <2>3. \A t \in Tiers : t \notin LoopTiers <=> t > Target
    BY <2>2, TiersAre DEF LoopTiers, QualityNormal
  <2> QED BY <2>1, <2>3, InputsAre, SolverAssumption DEF RoomInv, AllNumbers
<1> DEFINE x == Padded(LoopTiers, materials)
           r == [t \in Tiers |-> IF t \in LoopTiers THEN Ratio(t) ELSE 0]
<1>1. /\ \A t \in Tiers : x[t] \in Nat /\ (t > Target => x[t] = 0)
      /\ \A t \in LoopTiers : x[t] = materials[t]
  BY <1>0 DEF Padded
<1>2. Total = SumOfTiers(x) /\ SumOfTiers(x) \in Nat \ {0}
  <2>1. Total = SumOfTiers(x)
    BY TotalIsHeld DEF SolverInv, RoomInv, Held
  <2>2. x[QualityNormal] >= Scale
    BY <1>0, <1>1 DEF RoomInv
  <2> HIDE DEF x
  <2>3. SumOfTiers(x) \in Nat /\ x[QualityNormal] <= SumOfTiers(x)
    BY <1>0, <1>1, SumIsNat
  <2> QED BY <1>0, <1>1, <2>1, <2>2, <2>3
<1>3. \A t \in LoopTiers : Ratio(t) = (x[t] * Scale) \div SumOfTiers(x)
  <2> HIDE DEF x
  <2> QED BY <1>1, <1>2, NumbersAre DEF Ratio
<1>4. \A t \in Tiers : r[t] = (x[t] * Scale) \div SumOfTiers(x) /\ r[t] \in Nat
  <2> HIDE DEF x
  <2> SUFFICES ASSUME NEW t \in Tiers
               PROVE  r[t] = (x[t] * Scale) \div SumOfTiers(x) /\ r[t] \in Nat
    OBVIOUS
  <2> DEFINE T == SumOfTiers(x)
             a == x[t] * Scale
  <2>1. a \in Nat /\ T \in Nat \ {0} /\ (t \notin LoopTiers => a = 0)
    BY <1>0, <1>1, <1>2
  <2>2. r[t] = IF t \in LoopTiers THEN a \div T ELSE 0
    BY <1>3
  <2>3. a \div T \in Nat /\ (a = 0 => a \div T = 0)
    <3> HIDE DEF a, T
    <3>1. a \div T \in Nat
      BY <2>1, Division
    <3>2. a = 0 => a \div T = 0
      BY <2>1
    <3> QED BY <3>1, <3>2
  <2> HIDE DEF a, T
  <2>4. r[t] = a \div T /\ r[t] \in Nat
    BY <2>1, <2>2, <2>3
  <2> QED BY <2>4 DEF a, T
<1>5. SumOfTiers(r) \in Scale - Target .. Scale
  <2> HIDE DEF x, r
  <2> QED BY <1>0, <1>1, <1>2, <1>4, FloorsMakeTheWhole
<1>6. \A t \in LoopTiers : IsNumber(Ratio(t)) /\ Ratio(t) \in Nat
  BY <1>0, <1>4, NumbersAre
<1>7. SumOver(LoopTiers, [t \in LoopTiers |-> Ratio(t)]) = SumOfTiers(r)
  <2> DEFINE f == [t \in LoopTiers |-> Ratio(t)]
  <2>1. \A t \in LoopTiers : f[t] = Ratio(t) /\ f[t] \notin {Inf, NaN}
    BY <1>6 DEF IsNumber
  <2>2. [t \in Tiers |-> IF t \in LoopTiers THEN f[t] ELSE 0] = r
    BY <2>1
  <2> HIDE DEF f, r
  <2>3. SumOver(LoopTiers, f)
          = SumOfTiers([t \in Tiers |-> IF t \in LoopTiers THEN f[t] ELSE 0])
    BY <2>1 DEF SumOver
  <2> QED BY <2>2, <2>3 DEF f
<1> QED BY <1>5, <1>6, <1>7 DEF RatiosSumToOne

\* The ratios of a finished call sum to one (internal/planner_test.go:44): with no
\* recipe above 300 % and room for a unit a pass, no amount leaves the numbers.
THEOREM RatiosAreShares ==
    ASSUME AmountsFit
    PROVE  Spec => []RatiosSumToOne
<1>1. Init => SolverInv /\ RoomInv
  BY InvIsInitial, RoomIsInitial
<1>2. (SolverInv /\ RoomInv) /\ [Next]_solverVars => (SolverInv /\ RoomInv)'
  BY InvIsKept, RoomIsKept
<1>3. SolverInv /\ RoomInv => RatiosSumToOne
  BY RoomMakesShares
<1> QED BY <1>1, <1>2, <1>3, PTL DEF Spec
=============================================================================
