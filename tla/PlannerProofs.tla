---------------------------- MODULE PlannerProofs ----------------------------
(***************************************************************************)
(* How far rounding can move the machine counts of a plan, and that they   *)
(* and the recyclers agree with the loop, for any inputs, precision and    *)
(* counts.                                                                 *)
(*                                                                         *)
(* A float is the fraction Numerator / Denominator. A rounded result is    *)
(* Near the exact one: off by at most one part in PowerOfTwo[Precision].   *)
(* So a count, two roundings away from its share of the total, is off by   *)
(* less than one machine before Ceil (TwoRoundings).                       *)
(*                                                                         *)
(* PlannerInv says of what a plan was made, and that a loop that settled   *)
(* supplies what is recycled. RunInv adds that calls with the same input   *)
(* take the same passes, so that a plan asked for again has the same       *)
(* shares.                                                                 *)
(***************************************************************************)
EXTENDS Planner, LoopSolverProofs, WellFoundedInduction

-----------------------------------------------------------------------------
(* Induction on sets of numbers                                            *)

LessThan == {ss \in Nat \X Nat : ss[1] < ss[2]}

LEMMA LeastNumber ==
    ASSUME NEW S, S \subseteq Nat, S # {}
    PROVE  \E n \in S : \A k \in S : n <= k
<1>1. IsWellFoundedOn(LessThan, Nat)
  BY NatLessThanWellFounded DEF OpToRel, LessThan
<1>2. PICK n \in S : \A y \in S : ~ (<<y, n>> \in LessThan)
  BY <1>1, WFMin
<1>3. ASSUME NEW k \in S PROVE n <= k
  <2>1. <<k, n>> \notin LessThan /\ k \in Nat /\ n \in Nat
    BY <1>2
  <2> QED BY <2>1 DEF LessThan
<1> QED BY <1>3

LEMMA AllNumbersAreIn ==
    ASSUME NEW S, 0 \in S, \A n \in Nat : n \in S => n + 1 \in S
    PROVE  Nat \subseteq S
<1>1. SUFFICES ASSUME Nat \ S # {} PROVE FALSE
  OBVIOUS
<1>2. PICK n \in Nat \ S : \A k \in Nat \ S : n <= k
  BY <1>1, LeastNumber
<1>3. n # 0 /\ n - 1 \in Nat
  BY <1>2
<1>4. n - 1 \in S
  BY <1>2, <1>3
<1> QED BY <1>3, <1>4

-----------------------------------------------------------------------------
(* Powers of two                                                           *)

\* The powers up to that of n.
Powers(n, g) ==
    /\ g \in [0 .. n -> Nat]
    /\ g[0] = 1
    /\ \A k \in 1 .. n : g[k] = 2 * g[k - 1]

LEMMA PowersExist == \A n \in Nat : \E g : Powers(n, g)
<1> DEFINE S == {n \in Nat : \E g : Powers(n, g)}
<1>1. 0 \in S
  <2>1. Powers(0, [k \in 0 .. 0 |-> 1])
    BY DEF Powers
  <2> QED BY <2>1
<1>2. ASSUME NEW n \in Nat, n \in S PROVE n + 1 \in S
  <2>1. PICK g : Powers(n, g)
    BY <1>2
  <2>2. Powers(n + 1, [k \in 0 .. n + 1 |-> IF k = n + 1 THEN 2 * g[n] ELSE g[k]])
    BY <2>1 DEF Powers
  <2> QED BY <2>2
<1> HIDE DEF S
<1>3. Nat \subseteq S
  BY <1>1, <1>2, AllNumbersAreIn
<1> QED BY <1>3 DEF S

LEMMA PowersAgree ==
    ASSUME NEW n \in Nat, NEW m \in Nat, NEW g, NEW h, Powers(n, g), Powers(m, h)
    PROVE  \A k \in Nat : k <= n /\ k <= m => g[k] = h[k]
<1> DEFINE S == {k \in Nat : k <= n /\ k <= m => g[k] = h[k]}
<1>1. 0 \in S
  BY DEF Powers
<1>2. ASSUME NEW k \in Nat, k \in S PROVE k + 1 \in S
  BY <1>2 DEF Powers
<1> HIDE DEF S
<1>3. Nat \subseteq S
  BY <1>1, <1>2, AllNumbersAreIn
<1> QED BY <1>3 DEF S

LEMMA PowersAre ==
    /\ PowerOfTwo \in [Nat -> Nat]
    /\ PowerOfTwo[0] = 1
    /\ \A n \in Nat : PowerOfTwo[n + 1] = 2 * PowerOfTwo[n]
<1> DEFINE B(n) == CHOOSE g : Powers(n, g)
           f == [n \in Nat |-> B(n)[n]]
<1>1. \A n \in Nat : Powers(n, B(n))
  BY PowersExist
<1> HIDE DEF B
<1>2. \A n \in Nat : f[n] \in Nat
  BY <1>1 DEF Powers
<1>3. f[0] = 1
  BY <1>1 DEF Powers
<1>4. \A n \in Nat : f[n + 1] = 2 * f[n]
  <2> TAKE n \in Nat
  <2>1. Powers(n, B(n)) /\ Powers(n + 1, B(n + 1)) /\ n + 1 \in Nat
    BY <1>1
  <2>2. B(n)[n] = B(n + 1)[n]
    BY <2>1, PowersAgree
  <2>3. B(n + 1)[n + 1] = 2 * B(n + 1)[n]
    BY <2>1 DEF Powers
  <2> QED BY <2>2, <2>3
<1>5. f = [n \in Nat |-> IF n = 0 THEN 1 ELSE 2 * f[n - 1]]
  <2>1. ASSUME NEW n \in Nat PROVE f[n] = IF n = 0 THEN 1 ELSE 2 * f[n - 1]
    <3>1. CASE n = 0
      BY <1>3, <3>1
    <3>2. CASE n # 0
      <4>1. n - 1 \in Nat /\ (n - 1) + 1 = n
        BY <3>2
      <4> QED BY <4>1, <1>4, <3>2
    <3> QED BY <3>1, <3>2
  <2> DEFINE h == [n \in Nat |-> IF n = 0 THEN 1 ELSE 2 * f[n - 1]]
  <2>2. \A n \in Nat : f[n] = h[n]
    BY <2>1
  <2> QED BY <2>2
<1>6. \E x : x = [n \in Nat |-> IF n = 0 THEN 1 ELSE 2 * x[n - 1]]
  BY <1>5
<1>7. PowerOfTwo = [n \in Nat |-> IF n = 0 THEN 1 ELSE 2 * PowerOfTwo[n - 1]]
  BY <1>6 DEF PowerOfTwo
<1>8. PowerOfTwo[0] = 1 /\ \A n \in Nat : PowerOfTwo[n + 1] = 2 * PowerOfTwo[n]
  BY <1>7
<1>9. \A n \in Nat : PowerOfTwo[n] = f[n]
  <2> DEFINE S == {k \in Nat : PowerOfTwo[k] = f[k]}
  <2>1. 0 \in S
    BY <1>3, <1>8
  <2>2. ASSUME NEW n \in Nat, n \in S PROVE n + 1 \in S
    BY <2>2, <1>4, <1>8
  <2> HIDE DEF S
  <2>3. Nat \subseteq S
    BY <2>1, <2>2, AllNumbersAreIn
  <2> QED BY <2>3 DEF S
<1> QED BY <1>2, <1>7, <1>8, <1>9

LEMMA PowersOutgrow == \A n \in Nat : PowerOfTwo[n] \in Nat \ {0} /\ n < PowerOfTwo[n]
<1> DEFINE S == {n \in Nat : PowerOfTwo[n] \in Nat \ {0} /\ n < PowerOfTwo[n]}
<1>1. 0 \in S
  BY PowersAre
<1>2. ASSUME NEW n \in Nat, n \in S PROVE n + 1 \in S
  <2>1. PowerOfTwo[n + 1] = 2 * PowerOfTwo[n]
    BY PowersAre
  <2> QED BY <1>2, <2>1
<1> HIDE DEF S
<1>3. Nat \subseteq S
  BY <1>1, <1>2, AllNumbersAreIn
<1> QED BY <1>3 DEF S

LEMMA PowersMultiply ==
    ASSUME NEW a \in Nat
    PROVE  \A b \in Nat : PowerOfTwo[a + b] = PowerOfTwo[a] * PowerOfTwo[b]
<1> DEFINE S == {b \in Nat : PowerOfTwo[a + b] = PowerOfTwo[a] * PowerOfTwo[b]}
<1>1. 0 \in S
  BY PowersAre
<1>2. ASSUME NEW b \in Nat, b \in S PROVE b + 1 \in S
  <2> DEFINE p == PowerOfTwo[a]
             q == PowerOfTwo[b]
  <2>1. PowerOfTwo[b + 1] = 2 * q /\ PowerOfTwo[(a + b) + 1] = 2 * PowerOfTwo[a + b]
    BY PowersAre
  <2>2. p \in Nat /\ q \in Nat /\ PowerOfTwo[a + b] = p * q /\ a + (b + 1) = (a + b) + 1
    BY <1>2, PowersAre
  <2> HIDE DEF p, q
  <2>3. 2 * (p * q) = p * (2 * q)
    BY <2>2
  <2>4. PowerOfTwo[a + (b + 1)] = p * PowerOfTwo[b + 1]
    BY <2>1, <2>2, <2>3
  <2> QED BY <2>4 DEF p
<1> HIDE DEF S
<1>3. Nat \subseteq S
  BY <1>1, <1>2, AllNumbersAreIn
<1> QED BY <1>3 DEF S

LEMMA SignedPowersAre ==
    ASSUME NEW e \in Int
    PROVE  /\ PowerUp(e) \in Nat \ {0} /\ PowerDown(e) \in Nat \ {0}
           /\ e >= 0 => PowerUp(e) = PowerOfTwo[e] /\ PowerDown(e) = 1
           /\ e <= 0 => PowerUp(e) = 1 /\ PowerDown(e) = PowerOfTwo[-e]
<1>1. CASE e > 0
  BY <1>1, PowersOutgrow DEF PowerUp, PowerDown
<1>2. CASE e = 0
  BY <1>2, PowersAre DEF PowerUp, PowerDown
<1>3. CASE e < 0
  BY <1>3, PowersOutgrow DEF PowerUp, PowerDown
<1> QED BY <1>1, <1>2, <1>3

\* 2^(a - b) is 2^a / 2^b.
LEMMA PowersDivide ==
    ASSUME NEW a \in Nat, NEW b \in Nat
    PROVE  PowerUp(a - b) * PowerOfTwo[b] = PowerDown(a - b) * PowerOfTwo[a]
<1> DEFINE p == PowerOfTwo[a]
           q == PowerOfTwo[b]
<1>1. p \in Nat /\ q \in Nat
  BY PowersAre
<1>2. CASE a >= b
  <2> DEFINE r == PowerOfTwo[a - b]
  <2>1. a - b \in Nat /\ (a - b) + b = a
    BY <1>2
  <2>2. /\ PowerOfTwo[(a - b) + b] = r * q /\ r \in Nat
        /\ PowerUp(a - b) = r /\ PowerDown(a - b) = 1
    <3>1. PowerOfTwo[(a - b) + b] = r * q
      BY <2>1, PowersMultiply
    <3>2. PowerUp(a - b) = r /\ PowerDown(a - b) = 1 /\ r \in Nat
      BY <2>1, SignedPowersAre, PowersAre
    <3> QED BY <3>1, <3>2
  <2>3. p = r * q
    BY <2>1, <2>2
  <2> HIDE DEF p, q, r
  <2>4. PowerUp(a - b) * q = PowerDown(a - b) * p
    BY <1>1, <2>2, <2>3
  <2> QED BY <2>4 DEF p, q
<1>3. CASE a < b
  <2> DEFINE r == PowerOfTwo[b - a]
  <2>1. b - a \in Nat /\ (b - a) + a = b /\ a - b \in Int /\ -(a - b) = b - a /\ a - b <= 0
    BY <1>3
  <2>2. /\ PowerOfTwo[(b - a) + a] = r * p /\ r \in Nat
        /\ PowerUp(a - b) = 1 /\ PowerDown(a - b) = r
    <3>1. PowerOfTwo[(b - a) + a] = r * p
      BY <2>1, PowersMultiply
    <3>2. PowerUp(a - b) = 1 /\ PowerDown(a - b) = r /\ r \in Nat
      BY <2>1, SignedPowersAre, PowersAre
    <3> QED BY <3>1, <3>2
  <2>3. q = r * p
    BY <2>1, <2>2
  <2> HIDE DEF p, q, r
  <2>4. PowerUp(a - b) * q = PowerDown(a - b) * p
    BY <1>1, <2>2, <2>3
  <2> QED BY <2>4 DEF p, q
<1> QED BY <1>2, <1>3

\* 2^(e + f) is 2^e * 2^f.
LEMMA SignedPowersMultiply ==
    ASSUME NEW e \in Int, NEW f \in Int
    PROVE  PowerUp(e + f) * PowerDown(e) * PowerDown(f)
             = PowerDown(e + f) * PowerUp(e) * PowerUp(f)
<1>1. CASE e >= 0 /\ f >= 0
  <2> DEFINE p == PowerOfTwo[e]
             q == PowerOfTwo[f]
  <2>1. /\ PowerUp(e) = p /\ PowerDown(e) = 1 /\ PowerUp(f) = q /\ PowerDown(f) = 1
        /\ PowerUp(e + f) = p * q /\ PowerDown(e + f) = 1 /\ p \in Nat /\ q \in Nat
    <3>1. e \in Nat /\ f \in Nat /\ e + f \in Int /\ e + f >= 0
      BY <1>1
    <3>2. PowerOfTwo[e + f] = p * q
      BY <3>1, PowersMultiply
    <3>3. PowerUp(e) = p /\ PowerDown(e) = 1 /\ PowerUp(f) = q /\ PowerDown(f) = 1
      BY <1>1, SignedPowersAre
    <3>4. PowerUp(e + f) = PowerOfTwo[e + f] /\ PowerDown(e + f) = 1
      BY <3>1, SignedPowersAre
    <3> QED BY <3>1, <3>2, <3>3, <3>4, PowersAre
  <2> HIDE DEF p, q
  <2> QED BY <2>1
<1>2. CASE e <= 0 /\ f <= 0
  <2> DEFINE p == PowerOfTwo[-e]
             q == PowerOfTwo[-f]
  <2>0. -e \in Nat /\ -f \in Nat /\ -(e + f) = (-e) + (-f) /\ e + f <= 0
    BY <1>2
  <2>1. /\ PowerUp(e) = 1 /\ PowerDown(e) = p /\ PowerUp(f) = 1 /\ PowerDown(f) = q
        /\ PowerUp(e + f) = 1 /\ PowerDown(e + f) = p * q /\ p \in Nat /\ q \in Nat
    <3>2. PowerOfTwo[(-e) + (-f)] = p * q
      BY <2>0, PowersMultiply
    <3>3. PowerUp(e) = 1 /\ PowerDown(e) = p /\ PowerUp(f) = 1 /\ PowerDown(f) = q
      BY <1>2, SignedPowersAre
    <3>4. PowerUp(e + f) = 1 /\ PowerDown(e + f) = PowerOfTwo[-(e + f)]
      BY <2>0, SignedPowersAre
    <3> QED BY <2>0, <3>2, <3>3, <3>4, PowersAre
  <2> HIDE DEF p, q
  <2> QED BY <2>1
<1>3. CASE e >= 0 /\ f <= 0
  <2> DEFINE p == PowerOfTwo[e]
             q == PowerOfTwo[-f]
             u == PowerUp(e + f)
             d == PowerDown(e + f)
  <2>0. -f \in Nat /\ e \in Nat /\ e - (-f) = e + f
    BY <1>3
  <2>1. /\ PowerUp(e) = p /\ PowerDown(e) = 1 /\ PowerUp(f) = 1 /\ PowerDown(f) = q
        /\ p \in Nat /\ q \in Nat /\ u \in Nat /\ d \in Nat
    BY <1>3, <2>0, SignedPowersAre, PowersAre
  <2>2. u * q = d * p
    BY <2>0, PowersDivide
  <2> HIDE DEF p, q, u, d
  <2>3. u * PowerDown(e) * PowerDown(f) = d * PowerUp(e) * PowerUp(f)
    BY <2>1, <2>2
  <2> QED BY <2>3 DEF u, d
<1>4. CASE e <= 0 /\ f >= 0
  <2> DEFINE p == PowerOfTwo[-e]
             q == PowerOfTwo[f]
             u == PowerUp(e + f)
             d == PowerDown(e + f)
  <2>0. -e \in Nat /\ f \in Nat /\ f - (-e) = e + f
    BY <1>4
  <2>1. /\ PowerUp(e) = 1 /\ PowerDown(e) = p /\ PowerUp(f) = q /\ PowerDown(f) = 1
        /\ p \in Nat /\ q \in Nat /\ u \in Nat /\ d \in Nat
    BY <1>4, <2>0, SignedPowersAre, PowersAre
  <2>2. u * p = d * q
    BY <2>0, PowersDivide
  <2> HIDE DEF p, q, u, d
  <2>3. u * PowerDown(e) * PowerDown(f) = d * PowerUp(e) * PowerUp(f)
    BY <2>1, <2>2
  <2> QED BY <2>3 DEF u, d
<1> QED BY <1>1, <1>2, <1>3, <1>4

LEMMA BitLengthIs ==
    ASSUME NEW n \in Nat \ {0}
    PROVE  /\ BitLength(n) \in Nat \ {0}
           /\ PowerOfTwo[BitLength(n) - 1] <= n /\ n < PowerOfTwo[BitLength(n)]
<1> DEFINE S == {k \in Nat : n < PowerOfTwo[k]}
<1>1. n \in S
  BY PowersOutgrow
<1>2. PICK k \in S : \A j \in S : k <= j
  BY <1>1, LeastNumber
<1>3. k # 0
  BY <1>2, PowersAre
<1>4. k \in 1 .. n /\ k - 1 \in Nat /\ k - 1 \notin S
  BY <1>1, <1>2, <1>3
<1>5. PowerOfTwo[k - 1] <= n /\ n < PowerOfTwo[k]
  BY <1>2, <1>4, PowersAre
<1>6. \E j \in 1 .. n : PowerOfTwo[j - 1] <= n /\ n < PowerOfTwo[j]
  BY <1>4, <1>5
<1> QED BY <1>6 DEF BitLength

-----------------------------------------------------------------------------
(* Rounded results                                                         *)

LEMMA Cancel ==
    ASSUME NEW a \in Int, NEW b \in Int, NEW k \in Nat \ {0}, k * a <= k * b
    PROVE  a <= b
<1>1. SUFFICES ASSUME b + 1 <= a PROVE FALSE
  OBVIOUS
<1>2. k * (b + 1) <= k * a /\ k * (b + 1) = k * b + k
  BY <1>1
<1> QED BY <1>2

\* A mantissa of Precision bits is found for every quotient.
LEMMA ExponentIs ==
    ASSUME NEW n \in Nat \ {0}, NEW d \in Nat \ {0}
    PROVE  LET e == Exponent(n, d)
               up == n * PowerDown(e)
               down == d * PowerUp(e)
           IN  /\ e \in Int
               /\ down * PowerOfTwo[Precision - 1] <= up /\ up < down * PowerOfTwo[Precision]
<1> DEFINE a == BitLength(n)
           b == BitLength(d)
           e == a - b - Precision
           H == PowerOfTwo[Precision - 1]
           U0 == PowerUp(e)
           D0 == PowerDown(e)
           U1 == PowerUp(e + 1)
           D1 == PowerDown(e + 1)
<1>1. /\ a \in Nat \ {0} /\ b \in Nat \ {0} /\ Precision \in Nat \ {0} /\ e \in Int
      /\ a - 1 \in Nat /\ b - 1 \in Nat /\ Precision - 1 \in Nat
  BY BitLengthIs, FloatAssumption
<1>2. H \in Nat \ {0} /\ PowerOfTwo[Precision] = 2 * H
  <2>1. (Precision - 1) + 1 = Precision
    BY <1>1
  <2>2. PowerOfTwo[(Precision - 1) + 1] = 2 * H
    BY <1>1, PowersAre
  <2> QED BY <1>1, <2>1, <2>2, PowersOutgrow
<1>3. U0 \in Nat \ {0} /\ D0 \in Nat \ {0} /\ U1 \in Nat \ {0} /\ D1 \in Nat \ {0}
  BY <1>1, SignedPowersAre
<1>4. d * U0 * H <= n * D0
  <2> DEFINE p == PowerOfTwo[a - 1]
             q == PowerOfTwo[b]
  <2>1. p \in Nat /\ q \in Nat /\ p <= n /\ d <= q
    BY <1>1, BitLengthIs, PowersAre
  <2>2. U0 * (q * H) = D0 * p
    <3>1. b + (Precision - 1) \in Nat /\ (a - 1) - (b + (Precision - 1)) = e
      BY <1>1
    <3>2. PowerOfTwo[b + (Precision - 1)] = q * H
      BY <1>1, PowersMultiply
    <3> QED BY <1>1, <3>1, <3>2, PowersDivide
  <2> HIDE DEF a, b, e, H, U0, D0, U1, D1, p, q
  <2>3. D0 * p <= D0 * n /\ D0 * n = n * D0
    BY <1>3, <2>1
  <2>4. (U0 * H) * d <= (U0 * H) * q /\ U0 * H \in Nat
    BY <1>2, <1>3, <2>1, ProductGrows
  <2>5. (U0 * H) * d = d * U0 * H /\ (U0 * H) * q = U0 * (q * H)
    BY <1>2, <1>3, <2>1
  <2>6. D0 * p \in Int /\ D0 * n \in Int /\ d * U0 * H \in Int
    BY <1>2, <1>3, <2>1
  <2> QED BY <2>2, <2>3, <2>4, <2>5, <2>6
<1>5. n * D1 < d * U1 * (2 * H)
  <2> DEFINE p == PowerOfTwo[a]
             q == PowerOfTwo[b - 1]
             G == 2 * H
  <2>1. p \in Nat /\ q \in Nat /\ n < p /\ q <= d /\ G \in Nat
    BY <1>1, <1>2, BitLengthIs, PowersAre
  <2>2. U1 * (q * G) = D1 * p
    <3>1. (b - 1) + Precision \in Nat /\ a - ((b - 1) + Precision) = e + 1
      BY <1>1
    <3>2. PowerOfTwo[(b - 1) + Precision] = q * PowerOfTwo[Precision]
      BY <1>1, PowersMultiply
    <3> QED BY <1>1, <1>2, <3>1, <3>2, PowersDivide
  <2> HIDE DEF a, b, e, H, U0, D0, U1, D1, p, q, G
  <2>3. D1 * (n + 1) <= D1 * p /\ D1 * (n + 1) = n * D1 + D1
    BY <1>3, <2>1
  <2>4. (U1 * G) * q <= (U1 * G) * d /\ U1 * G \in Nat
    BY <1>3, <2>1, ProductGrows
  <2>5. (U1 * G) * d = d * U1 * G /\ (U1 * G) * q = U1 * (q * G)
    BY <1>3, <2>1
  <2>6. D1 * p \in Int /\ n * D1 \in Int /\ d * U1 * G \in Int
    BY <1>3, <2>1
  <2>7. n * D1 < d * U1 * G
    BY <1>3, <2>2, <2>3, <2>4, <2>5, <2>6
  <2> QED BY <2>7 DEF G
<1>6. U1 * D0 = 2 * (D1 * U0)
  <2>1. PowerUp(1) = 2 /\ PowerDown(1) = 1
    <3>1. PowerOfTwo[0 + 1] = 2 * PowerOfTwo[0]
      BY PowersAre
    <3> QED BY <3>1, PowersAre, SignedPowersAre
  <2>2. U1 * D0 * PowerDown(1) = D1 * U0 * PowerUp(1)
    BY <1>1, SignedPowersMultiply
  <2> HIDE DEF U0, D0, U1, D1
  <2> QED BY <1>3, <2>1, <2>2
<1>7. d * U0 * (2 * H) <= n * D0 => d * U1 * H <= n * D1
  <2> HIDE DEF a, b, e, H, U0, D0, U1, D1
  <2> SUFFICES ASSUME d * U0 * (2 * H) <= n * D0 PROVE d * U1 * H <= n * D1
    OBVIOUS
  <2>1. D1 * (d * U0 * (2 * H)) <= D1 * (n * D0)
    <3> DEFINE x == d * U0 * (2 * H)
               y == n * D0
    <3>1. x \in Nat /\ y \in Nat /\ x <= y
      BY <1>2, <1>3
    <3> HIDE DEF x, y
    <3>2. D1 * x <= D1 * y
      BY <1>3, <3>1
    <3> QED BY <3>2 DEF x, y
  <2>2. D1 * (d * U0 * (2 * H)) = (2 * (D1 * U0)) * (d * H)
    BY <1>2, <1>3
  <2>3. (U1 * D0) * (d * H) = D0 * (d * U1 * H)
    BY <1>2, <1>3
  <2>4. D1 * (n * D0) = D0 * (n * D1)
    BY <1>2, <1>3
  <2>5. D0 * (d * U1 * H) <= D0 * (n * D1)
    BY <1>6, <2>1, <2>2, <2>3, <2>4
  <2>6. d * U1 * H \in Int /\ n * D1 \in Int
    BY <1>2, <1>3
  <2> QED BY <1>3, <2>5, <2>6, Cancel
<1> DEFINE Fits(x) == /\ d * PowerUp(x) * H <= n * PowerDown(x)
                      /\ n * PowerDown(x) < d * PowerUp(x) * (2 * H)
<1>8. \E x \in e .. e + 1 : Fits(x)
  <2>1. CASE n * D0 < d * U0 * (2 * H)
    <3>1. e \in e .. e + 1 /\ Fits(e)
      BY <1>1, <1>4, <2>1
    <3> QED BY <3>1
  <2>2. CASE ~(n * D0 < d * U0 * (2 * H))
    <3>1. d * U0 * (2 * H) <= n * D0
      <4> HIDE DEF a, b, e, H, U0, D0, U1, D1
      <4>1. n * D0 \in Int /\ d * U0 * (2 * H) \in Int
        BY <1>2, <1>3
      <4> QED BY <2>2, <4>1
    <3>2. e + 1 \in e .. e + 1 /\ Fits(e + 1)
      BY <1>1, <1>5, <1>7, <3>1
    <3> QED BY <3>2
  <2> QED BY <2>1, <2>2
<1>9. Exponent(n, d) = CHOOSE x \in e .. e + 1 : Fits(x)
  BY <1>2 DEF Exponent
<1>10. Exponent(n, d) \in e .. e + 1 /\ Fits(Exponent(n, d))
  <2> HIDE DEF Fits, e
  <2> QED BY <1>8, <1>9
<1>11. Exponent(n, d) \in Int
  BY <1>1, <1>10
<1> QED BY <1>2, <1>10, <1>11

LEMMA NearestIs ==
    ASSUME NEW n \in Nat, NEW d \in Nat \ {0}
    PROVE  LET m == NearestEven(n, d)
           IN  m \in Nat /\ 2 * (m * d - n) <= d /\ 2 * (n - m * d) <= d
<1> DEFINE q == n \div d
           r == n % d
<1>1. q \in Nat /\ r \in Nat /\ r < d /\ n = d * q + r
  OBVIOUS
<1>2. NearestEven(n, d) = IF 2 * r > d \/ (2 * r = d /\ q % 2 = 1) THEN q + 1 ELSE q
  BY DEF NearestEven
<1> HIDE DEF q, r
<1>3. (q + 1) * d = d * q + d /\ q * d = d * q /\ d * q \in Nat
  BY <1>1
<1>4. CASE NearestEven(n, d) = q + 1 /\ 2 * r >= d
  BY <1>1, <1>3, <1>4
<1>5. CASE NearestEven(n, d) = q /\ 2 * r <= d
  BY <1>1, <1>3, <1>5
<1> QED BY <1>1, <1>2, <1>4, <1>5

LEMMA CeilDivIs ==
    ASSUME NEW n \in Nat, NEW d \in Nat \ {0}
    PROVE  /\ CeilDiv(n, d) \in Nat
           /\ n <= CeilDiv(n, d) * d /\ CeilDiv(n, d) * d < n + d
           /\ n = 0 => CeilDiv(n, d) = 0
<1> DEFINE a == n + d - 1
           q == a \div d
<1>1. a \in Nat /\ CeilDiv(n, d) = q
  BY DEF CeilDiv
<1>2. q \in Nat /\ d * q <= a /\ a < d * q + d
  <2> HIDE DEF a
  <2> QED BY <1>1, Division
<1>3. a = n + d - 1
  OBVIOUS
<1> HIDE DEF a, q
<1>4. q * d = d * q /\ d * q \in Nat
  BY <1>2
<1>5. n <= q * d /\ q * d < n + d
  BY <1>2, <1>3, <1>4
<1>6. n = 0 => q = 0
  <2> SUFFICES ASSUME n = 0, q >= 1 PROVE FALSE
    BY <1>2
  <2>1. d * 1 <= d * q
    BY <1>2
  <2> QED BY <1>4, <1>5, <2>1
<1> QED BY <1>1, <1>2, <1>5, <1>6

\* a is b but for one part in 2^Precision.
Near(a, b) ==
    /\ PowerOfTwo[Precision] * (a - b) <= b
    /\ PowerOfTwo[Precision] * (b - a) <= b

LEMMA PrecisionIs ==
    /\ PowerOfTwo[Precision] \in Nat /\ PowerOfTwo[Precision] >= 4
    /\ PowerOfTwo[Precision - 1] \in Nat \ {0}
    /\ PowerOfTwo[Precision] = 2 * PowerOfTwo[Precision - 1]
<1>1. Precision - 2 \in Nat /\ Precision - 1 \in Nat /\ (Precision - 1) + 1 = Precision
      /\ (Precision - 2) + 1 = Precision - 1
  BY FloatAssumption
<1>2. PowerOfTwo[(Precision - 2) + 1] = 2 * PowerOfTwo[Precision - 2]
      /\ PowerOfTwo[(Precision - 1) + 1] = 2 * PowerOfTwo[Precision - 1]
  BY <1>1, PowersAre
<1>3. PowerOfTwo[Precision - 2] \in Nat \ {0}
  BY <1>1, PowersOutgrow
<1> QED BY <1>1, <1>2, <1>3

\* Nearness is that of fractions: it does not depend on a common factor.
SameFraction(k, a, b, l, c, d) == k * a = l * c /\ k * b = l * d

LEMMA NearScales ==
    ASSUME NEW a \in Nat, NEW b \in Nat, NEW c \in Nat, NEW d \in Nat,
           NEW k \in Nat \ {0}, NEW l \in Nat,
           SameFraction(k, a, b, l, c, d), Near(c, d)
    PROVE  Near(a, b)
<1>0. k * a = l * c /\ k * b = l * d
  BY DEF SameFraction
<1> DEFINE R == PowerOfTwo[Precision]
<1>1. R \in Nat /\ R * (c - d) <= d /\ R * (d - c) <= d
  BY PrecisionIs DEF Near
<1> HIDE DEF R
<1>2. R * (a - b) <= b
  <2>1. l * (R * (c - d)) <= l * d
    <3> DEFINE x == R * (c - d)
    <3>1. x \in Int /\ x <= d
      BY <1>1
    <3> HIDE DEF x
    <3>2. l * x <= l * d
      BY <3>1
    <3> QED BY <3>2 DEF x
  <2>2. l * (R * (c - d)) = R * (l * c - l * d)
    BY <1>1
  <2>3. R * (k * a - k * b) = k * (R * (a - b))
    BY <1>1
  <2>4. k * (R * (a - b)) <= k * b
    BY <1>0, <2>1, <2>2, <2>3
  <2> QED BY <1>1, <2>4, Cancel
<1>3. R * (b - a) <= b
  <2>1. l * (R * (d - c)) <= l * d
    <3> DEFINE x == R * (d - c)
    <3>1. x \in Int /\ x <= d
      BY <1>1
    <3> HIDE DEF x
    <3>2. l * x <= l * d
      BY <3>1
    <3> QED BY <3>2 DEF x
  <2>2. l * (R * (d - c)) = R * (l * d - l * c)
    BY <1>1
  <2>3. R * (k * b - k * a) = k * (R * (b - a))
    BY <1>1
  <2>4. k * (R * (b - a)) <= k * b
    BY <1>0, <2>1, <2>2, <2>3
  <2> QED BY <1>1, <2>4, Cancel
<1> QED BY <1>2, <1>3 DEF R, Near

LEMMA NearZero == Near(0, 0)
BY PrecisionIs DEF Near

LEMMA NearIsPositive ==
    ASSUME NEW a \in Nat, NEW b \in Nat \ {0}, Near(a, b)
    PROVE  a # 0
<1> DEFINE R == PowerOfTwo[Precision]
<1>1. R \in Nat /\ R >= 4 /\ R * (b - a) <= b
  BY PrecisionIs DEF Near
<1> HIDE DEF R
<1>2. SUFFICES ASSUME a = 0 PROVE FALSE
  OBVIOUS
<1>3. R * b <= b
  BY <1>1, <1>2
<1>4. 4 * b <= R * b
  BY <1>1
<1> QED BY <1>1, <1>3, <1>4

IsFloat(x) == x.man \in Nat /\ x.exp \in Int

LEMMA FractionIs ==
    ASSUME NEW x, IsFloat(x)
    PROVE  /\ Numerator(x) \in Nat /\ Denominator(x) \in Nat \ {0}
           /\ Numerator(x) = 0 <=> x.man = 0
           /\ FloatCeil(x) \in Nat
           /\ FloatCeil(x) = CeilDiv(Numerator(x), Denominator(x))
<1> DEFINE m == x.man
           u == PowerUp(x.exp)
<1>1. m \in Nat /\ u \in Nat \ {0} /\ Denominator(x) \in Nat \ {0}
  BY SignedPowersAre DEF IsFloat, Denominator
<1>2. Numerator(x) = m * u
  BY DEF Numerator
<1> HIDE DEF m, u
<1>3. m * u \in Nat /\ (m * u = 0 <=> m = 0)
  BY <1>1
<1> QED BY <1>1, <1>2, <1>3, CeilDivIs DEF m, FloatCeil

LEMMA RoundedIs ==
    ASSUME NEW n \in Nat \ {0}, NEW d \in Nat \ {0}, NEW shift \in Int
    PROVE  LET v == RoundedQuotient(n, d, shift)
               e == Exponent(n, d)
           IN  /\ e \in Int /\ v.man \in Nat /\ v.exp = e + shift /\ IsFloat(v)
               /\ Near(v.man * (d * PowerUp(e)), n * PowerDown(e))
<1> DEFINE e == Exponent(n, d)
           up == n * PowerDown(e)
           down == d * PowerUp(e)
           m == NearestEven(up, down)
           H == PowerOfTwo[Precision - 1]
<1>1. e \in Int /\ down * H <= up
  BY ExponentIs
<1>2. RoundedQuotient(n, d, shift) = Float(m, e + shift)
  BY DEF RoundedQuotient
<1>3. up \in Nat /\ down \in Nat \ {0}
  <2>1. PowerUp(e) \in Nat \ {0} /\ PowerDown(e) \in Nat \ {0}
    BY <1>1, SignedPowersAre
  <2> QED BY <2>1
<1> HIDE DEF e, up, down
<1>4. m \in Nat /\ 2 * (m * down - up) <= down /\ 2 * (up - m * down) <= down
  BY <1>3, NearestIs
<1> HIDE DEF m
<1>5. Near(m * down, up)
  <2>1. H \in Nat \ {0} /\ PowerOfTwo[Precision] = 2 * H
    BY PrecisionIs
  <2> HIDE DEF H
  <2> DEFINE x == m * down - up
  <2>2. x \in Int /\ 2 * x <= down /\ 2 * (-x) <= down
    BY <1>3, <1>4
  <2>3. m * down - up = x /\ up - m * down = -x
    BY <1>3, <1>4
  <2> HIDE DEF x
  <2>4. H * (2 * x) <= H * down /\ H * (2 * (-x)) <= H * down
    BY <1>3, <2>1, <2>2
  <2>5. H * (2 * x) = (2 * H) * x /\ H * (2 * (-x)) = (2 * H) * (-x) /\ H * down = down * H
    BY <1>3, <2>1, <2>2
  <2>6. down * H \in Int /\ (2 * H) * x \in Int /\ (2 * H) * (-x) \in Int
    BY <1>3, <2>1, <2>2
  <2>7. (2 * H) * x <= up /\ (2 * H) * (-x) <= up
    BY <1>1, <1>3, <2>1, <2>4, <2>5, <2>6 DEF H
  <2> QED BY <2>1, <2>3, <2>7 DEF Near
<1> QED BY <1>1, <1>2, <1>4, <1>5 DEF Float, IsFloat, e, up, down

LEMMA ZeroIs ==
    /\ IsFloat(FloatZero) /\ FloatZero.man = 0 /\ Numerator(FloatZero) = 0
BY SignedPowersAre DEF FloatZero, Float, IsFloat, Numerator

LEMMA QuotientIsNear ==
    ASSUME NEW n \in Nat, NEW d \in Nat \ {0}
    PROVE  LET v == RoundedQuotient(n, d, 0)
           IN  /\ IsFloat(v)
               /\ Near(Numerator(v) * d, n * Denominator(v))
<1> DEFINE v == RoundedQuotient(n, d, 0)
<1>1. CASE n = 0
  <2>1. v = FloatZero
    BY <1>1 DEF RoundedQuotient
  <2> HIDE DEF v
  <2>2. Denominator(v) \in Nat
    BY <2>1, ZeroIs, FractionIs
  <2>3. Numerator(v) * d = 0 /\ n * Denominator(v) = 0
    BY <1>1, <2>1, <2>2, ZeroIs
  <2> QED BY <2>1, <2>3, ZeroIs, NearZero DEF v
<1>2. CASE n # 0
  <2> DEFINE e == Exponent(n, d)
             m == v.man
  <2>1. /\ e \in Int /\ m \in Nat /\ v.exp = e + 0 /\ IsFloat(v)
        /\ Near(m * (d * PowerUp(e)), n * PowerDown(e))
    BY <1>2, RoundedIs
  <2>2. v.exp = e
    BY <2>1
  <2>3. PowerUp(e) \in Nat
    BY <2>1, SignedPowersAre
  <2> HIDE DEF v, e, m
  <2>4. Denominator(v) = PowerDown(e) /\ Numerator(v) = m * PowerUp(e)
    BY <2>2 DEF Numerator, Denominator, m
  <2>5. m * (d * PowerUp(e)) = (m * PowerUp(e)) * d
    BY <2>1, <2>3
  <2> QED BY <2>1, <2>4, <2>5 DEF v
<1> QED BY <1>1, <1>2

LEMMA ProductIsNear ==
    ASSUME NEW x, NEW y, IsFloat(x), IsFloat(y)
    PROVE  LET v == FloatMul(x, y)
           IN  /\ IsFloat(v)
               /\ Near(Numerator(v) * (Denominator(x) * Denominator(y)),
                       (Numerator(x) * Numerator(y)) * Denominator(v))
<1> DEFINE v == FloatMul(x, y)
           xm == x.man
           ym == y.man
           xe == x.exp
           ye == y.exp
           n == xm * ym
           shift == xe + ye
<1>1. xm \in Nat /\ ym \in Nat /\ n \in Nat /\ xe \in Int /\ ye \in Int /\ shift \in Int
  BY DEF IsFloat
<1>2. v = RoundedQuotient(n, 1, shift)
  BY DEF FloatMul
<1>3. /\ Numerator(x) \in Nat /\ Denominator(x) \in Nat \ {0}
      /\ Numerator(y) \in Nat /\ Denominator(y) \in Nat \ {0}
      /\ Numerator(x) = 0 <=> xm = 0
      /\ Numerator(y) = 0 <=> ym = 0
  BY FractionIs
<1>4. CASE n = 0
  <2>1. v = FloatZero
    BY <1>2, <1>4 DEF RoundedQuotient
  <2>2. xm = 0 \/ ym = 0
    <3> HIDE DEF xm, ym
    <3> QED BY <1>1, <1>4
  <2> HIDE DEF v, n, shift, xm, ym, xe, ye
  <2>3. Denominator(v) \in Nat /\ Numerator(v) = 0
    BY <2>1, ZeroIs, FractionIs
  <2>4. Numerator(v) * (Denominator(x) * Denominator(y)) = 0
    BY <1>3, <2>3
  <2>5. (Numerator(x) * Numerator(y)) * Denominator(v) = 0
    BY <1>3, <2>2, <2>3
  <2> QED BY <2>1, <2>4, <2>5, ZeroIs, NearZero DEF v
<1>5. CASE n # 0
  <2> DEFINE e == Exponent(n, 1)
             m == v.man
             p == PowerUp(e)
             q == PowerDown(e)
             V == PowerUp(e + shift)
             W == PowerDown(e + shift)
             Us == PowerUp(shift)
             Ds == PowerDown(shift)
             Ux == PowerUp(xe)
             Dx == PowerDown(xe)
             Uy == PowerUp(ye)
             Dy == PowerDown(ye)
  <2>1. /\ e \in Int /\ m \in Nat /\ v.exp = e + shift /\ IsFloat(v)
        /\ Near(m * (1 * p), n * q)
    <3> DEFINE r == RoundedQuotient(n, 1, shift)
    <3>1. n \in Nat \ {0} /\ 1 \in Nat \ {0} /\ shift \in Int
      BY <1>1, <1>5
    <3> HIDE DEF v, n, shift
    <3>2. /\ e \in Int /\ r.man \in Nat /\ r.exp = e + shift /\ IsFloat(r)
          /\ Near(r.man * (1 * p), n * q)
      BY <3>1, RoundedIs
    <3> QED BY <1>2, <3>2
  <2>2. /\ p \in Nat \ {0} /\ q \in Nat \ {0} /\ V \in Nat \ {0} /\ W \in Nat \ {0}
        /\ Us \in Nat \ {0} /\ Ds \in Nat \ {0} /\ Ux \in Nat \ {0} /\ Dx \in Nat \ {0}
        /\ Uy \in Nat \ {0} /\ Dy \in Nat \ {0}
    BY <1>1, <2>1, SignedPowersAre
  <2>3. V * q * Ds = W * p * Us
    BY <1>1, <2>1, SignedPowersMultiply
  <2>4. Us * Dx * Dy = Ds * Ux * Uy
    BY <1>1, SignedPowersMultiply
  <2>5. /\ Numerator(v) = m * V /\ Denominator(v) = W
        /\ Numerator(x) = xm * Ux /\ Denominator(x) = Dx
        /\ Numerator(y) = ym * Uy /\ Denominator(y) = Dy
    BY <2>1 DEF Numerator, Denominator
  <2>6. n = xm * ym
    OBVIOUS
  <2> HIDE DEF v, n, shift, xm, ym, xe, ye, e, m, p, q, V, W, Us, Ds, Ux, Dx, Uy, Dy
  <2> DEFINE a == (m * V) * (Dx * Dy)
             b == ((xm * Ux) * (ym * Uy)) * W
             k == q * Ds
             l == W * (Ds * (Ux * Uy))
  <2>7. k * a = l * (m * (1 * p))
    <3>1. k * a = (V * q * Ds) * (m * (Dx * Dy))
      BY <2>1, <2>2
    <3>2. (W * p * Us) * (m * (Dx * Dy)) = (Us * Dx * Dy) * (W * p * m)
      BY <2>1, <2>2
    <3>3. (Ds * Ux * Uy) * (W * p * m) = l * (m * (1 * p))
      BY <2>1, <2>2
    <3> QED BY <2>3, <2>4, <3>1, <3>2, <3>3
  <2>8. k * b = l * (n * q)
    BY <1>1, <2>2, <2>6
  <2>9. k \in Nat \ {0} /\ l \in Nat \ {0} /\ a \in Nat /\ b \in Nat
    <3>1. Ux * Uy \in Nat \ {0}
      BY <2>2
    <3>2. Ds * (Ux * Uy) \in Nat \ {0}
      BY <2>2, <3>1
    <3>3. l \in Nat \ {0} /\ k \in Nat \ {0}
      BY <2>2, <3>2
    <3> QED BY <1>1, <2>1, <2>2, <3>3
  <2> DEFINE rounded == m * (1 * p)
             exact == n * q
  <2>10. /\ rounded \in Nat /\ exact \in Nat /\ Near(rounded, exact)
         /\ SameFraction(k, a, b, l, rounded, exact)
    BY <1>1, <2>1, <2>2, <2>7, <2>8 DEF SameFraction
  <2> HIDE DEF a, b, k, l, rounded, exact
  <2>11. Near(a, b)
    BY <2>9, <2>10, NearScales
  <2> QED BY <2>1, <2>5, <2>11 DEF a, b, v
<1> QED BY <1>4, <1>5

LEMMA DivisionIsNear ==
    ASSUME NEW x, NEW y, IsFloat(x), IsFloat(y), y.man # 0
    PROVE  LET v == FloatDiv(x, y)
           IN  /\ IsFloat(v)
               /\ Near(Numerator(v) * (Denominator(x) * Numerator(y)),
                       (Numerator(x) * Denominator(y)) * Denominator(v))
<1> DEFINE v == FloatDiv(x, y)
           n == x.man
           d == y.man
           xe == x.exp
           ye == y.exp
           shift == xe - ye
<1>1. n \in Nat /\ d \in Nat \ {0} /\ xe \in Int /\ ye \in Int /\ shift \in Int
  BY DEF IsFloat
<1>2. v = RoundedQuotient(n, d, shift)
  BY DEF FloatDiv
<1>3. /\ Numerator(x) \in Nat /\ Denominator(x) \in Nat \ {0}
      /\ Numerator(y) \in Nat /\ Denominator(y) \in Nat \ {0}
      /\ Numerator(x) = 0 <=> n = 0
  BY FractionIs
<1>4. CASE n = 0
  <2>1. v = FloatZero
    BY <1>2, <1>4 DEF RoundedQuotient
  <2> HIDE DEF v, n, d, shift, xe, ye
  <2>3. Denominator(v) \in Nat /\ Numerator(v) = 0
    BY <2>1, ZeroIs, FractionIs
  <2>4. Numerator(v) * (Denominator(x) * Numerator(y)) = 0
    BY <1>3, <2>3
  <2>5. (Numerator(x) * Denominator(y)) * Denominator(v) = 0
    BY <1>3, <1>4, <2>3
  <2> QED BY <2>1, <2>4, <2>5, ZeroIs, NearZero DEF v
<1>5. CASE n # 0
  <2> DEFINE e == Exponent(n, d)
             m == v.man
             p == PowerUp(e)
             q == PowerDown(e)
             V == PowerUp(e + shift)
             W == PowerDown(e + shift)
             Us == PowerUp(shift)
             Ds == PowerDown(shift)
             Ux == PowerUp(xe)
             Dx == PowerDown(xe)
             Uy == PowerUp(ye)
             Dy == PowerDown(ye)
  <2>1. /\ e \in Int /\ m \in Nat /\ v.exp = e + shift /\ IsFloat(v)
        /\ Near(m * (d * p), n * q)
    <3> DEFINE r == RoundedQuotient(n, d, shift)
    <3>1. n \in Nat \ {0} /\ d \in Nat \ {0} /\ shift \in Int
      BY <1>1, <1>5
    <3> HIDE DEF v, n, shift, d
    <3>2. /\ e \in Int /\ r.man \in Nat /\ r.exp = e + shift /\ IsFloat(r)
          /\ Near(r.man * (d * p), n * q)
      BY <3>1, RoundedIs
    <3> QED BY <1>2, <3>2
  <2>2. /\ p \in Nat \ {0} /\ q \in Nat \ {0} /\ V \in Nat \ {0} /\ W \in Nat \ {0}
        /\ Us \in Nat \ {0} /\ Ds \in Nat \ {0} /\ Ux \in Nat \ {0} /\ Dx \in Nat \ {0}
        /\ Uy \in Nat \ {0} /\ Dy \in Nat \ {0}
    BY <1>1, <2>1, SignedPowersAre
  <2>3. V * q * Ds = W * p * Us
    BY <1>1, <2>1, SignedPowersMultiply
  <2>4. Ux * Ds * Dy = Dx * Us * Uy
    <3>1. shift + ye = xe
      BY <1>1
    <3>2. PowerUp(shift + ye) * Ds * Dy = PowerDown(shift + ye) * Us * Uy
      BY <1>1, SignedPowersMultiply
    <3> QED BY <3>1, <3>2
  <2>5. /\ Numerator(v) = m * V /\ Denominator(v) = W
        /\ Numerator(x) = n * Ux /\ Denominator(x) = Dx
        /\ Numerator(y) = d * Uy /\ Denominator(y) = Dy
    BY <2>1 DEF Numerator, Denominator
  <2> HIDE DEF v, n, d, shift, xe, ye, e, m, p, q, V, W, Us, Ds, Ux, Dx, Uy, Dy
  <2> DEFINE a == (m * V) * (Dx * (d * Uy))
             b == ((n * Ux) * Dy) * W
             k == q * Ds
             l == W * (Ux * (Ds * Dy))
  <2>7. k * a = l * (m * (d * p))
    <3>1. k * a = (V * q * Ds) * (m * d * (Dx * Uy))
      BY <1>1, <2>1, <2>2
    <3>2. (W * p * Us) * (m * d * (Dx * Uy)) = (Dx * Us * Uy) * (W * p * m * d)
      BY <1>1, <2>1, <2>2
    <3>3. (Ux * Ds * Dy) * (W * p * m * d) = l * (m * (d * p))
      BY <1>1, <2>1, <2>2
    <3> QED BY <2>3, <2>4, <3>1, <3>2, <3>3
  <2>8. k * b = l * (n * q)
    BY <1>1, <2>2
  <2>9. k \in Nat \ {0} /\ l \in Nat \ {0} /\ a \in Nat /\ b \in Nat
    <3>1. Ds * Dy \in Nat \ {0}
      BY <2>2
    <3>2. Ux * (Ds * Dy) \in Nat \ {0}
      BY <2>2, <3>1
    <3>3. l \in Nat \ {0} /\ k \in Nat \ {0}
      BY <2>2, <3>2
    <3> QED BY <1>1, <2>1, <2>2, <3>3
  <2> DEFINE rounded == m * (d * p)
             exact == n * q
  <2>10. /\ rounded \in Nat /\ exact \in Nat /\ Near(rounded, exact)
         /\ SameFraction(k, a, b, l, rounded, exact)
    BY <1>1, <2>1, <2>2, <2>7, <2>8 DEF SameFraction
  <2> HIDE DEF a, b, k, l, rounded, exact
  <2>11. Near(a, b)
    BY <2>9, <2>10, NearScales
  <2> QED BY <2>1, <2>5, <2>11 DEF a, b, v
<1> QED BY <1>4, <1>5

-----------------------------------------------------------------------------
(* Two roundings                                                           *)

LEMMA TwoRoundings ==
    ASSUME NEW a \in Nat, NEW b \in Nat, NEW c \in Nat, Near(b, a), Near(c, b)
    PROVE  LET R == PowerOfTwo[Precision]
           IN  /\ (R * R) * c <= ((R + 1) * (R + 1)) * a
               /\ ((R - 1) * (R - 1)) * a <= (R * R) * c
<1> DEFINE R == PowerOfTwo[Precision]
           L == R - 1
           G == R + 1
<1>1. R \in Nat /\ L \in Nat /\ G \in Nat /\ L = R - 1 /\ G = R + 1
  BY PrecisionIs
<1>2. /\ R * (b - a) <= a /\ R * (a - b) <= a
      /\ R * (c - b) <= b /\ R * (b - c) <= b
  BY DEF Near
<1> HIDE DEF R, L, G
<1>3. R * b <= G * a /\ L * a <= R * b /\ R * c <= G * b /\ L * b <= R * c
  BY <1>1, <1>2
<1>4. R * (R * c) <= R * (G * b) /\ G * (R * b) <= G * (G * a)
  <2>1. R * c \in Nat /\ G * b \in Nat /\ R * b \in Nat /\ G * a \in Nat
    BY <1>1
  <2> QED BY <1>1, <1>3, <2>1, ProductGrows
<1>5. L * (L * a) <= L * (R * b) /\ R * (L * b) <= R * (R * c)
  <2>1. L * a \in Nat /\ R * b \in Nat /\ L * b \in Nat /\ R * c \in Nat
    BY <1>1
  <2> QED BY <1>1, <1>3, <2>1, ProductGrows
<1>6. /\ R * (R * c) = (R * R) * c /\ R * (G * b) = G * (R * b)
      /\ G * (G * a) = (G * G) * a /\ L * (L * a) = (L * L) * a
      /\ L * (R * b) = R * (L * b)
  BY <1>1
<1>7. /\ (R * R) * c \in Int /\ (G * G) * a \in Int /\ (L * L) * a \in Int
      /\ R * (G * b) \in Int /\ R * (L * b) \in Int
  BY <1>1
<1>8. (R * R) * c <= (G * G) * a /\ (L * L) * a <= (R * R) * c
  BY <1>4, <1>5, <1>6, <1>7
<1> QED BY <1>8 DEF R, L, G

LEMMA WholeFloat ==
    ASSUME NEW n \in Nat
    PROVE  /\ IsFloat(Float(n, 0)) /\ Numerator(Float(n, 0)) = n /\ Denominator(Float(n, 0)) = 1
           /\ FloatCeil(Float(n, 0)) = n
<1>1. PowerUp(0) = 1 /\ PowerDown(0) = 1
  BY DEF PowerUp, PowerDown
<1>2. IsFloat(Float(n, 0)) /\ Numerator(Float(n, 0)) = n /\ Denominator(Float(n, 0)) = 1
  BY <1>1 DEF Float, IsFloat, Numerator, Denominator
<1>3. CeilDiv(n, 1) = n
  <2> DEFINE c == CeilDiv(n, 1)
  <2>1. c \in Nat /\ n <= c * 1 /\ c * 1 < n + 1
    BY CeilDivIs
  <2> HIDE DEF c
  <2>2. c = n
    BY <2>1
  <2> QED BY <2>2 DEF c
<1> QED BY <1>2, <1>3 DEF FloatCeil

\* A count that is divided by a share and multiplied by it again.
LEMMA CountComesBack ==
    ASSUME NEW N \in Nat, 3 * N <= PowerOfTwo[Precision], NEW s, IsFloat(s), s.man # 0
    PROVE  LET X == FloatDiv(Float(N, 0), s)
           IN  IsFloat(X) /\ FloatCeil(FloatMul(X, s)) \in {N, N + 1}
<1> DEFINE R == PowerOfTwo[Precision]
           F == Float(N, 0)
           X == FloatDiv(F, s)
           Y == FloatMul(X, s)
           x == Numerator(X)
           w == Denominator(X)
           q == Numerator(s)
           d == Denominator(s)
           y == Numerator(Y)
           z == Denominator(Y)
           c == CeilDiv(y, z)
<1>1. IsFloat(F) /\ Numerator(F) = N /\ Denominator(F) = 1
  BY WholeFloat
<1>2. IsFloat(X) /\ Near(x * (1 * q), (N * d) * w)
  <2>1. /\ IsFloat(X)
        /\ Near(Numerator(X) * (Denominator(F) * Numerator(s)),
                (Numerator(F) * Denominator(s)) * Denominator(X))
    <3> HIDE DEF F
    <3> QED BY <1>1, DivisionIsNear
  <2> QED BY <1>1, <2>1
<1> HIDE DEF X
<1>3. IsFloat(Y) /\ Near(y * (w * d), (x * q) * z)
  BY <1>2, ProductIsNear
<1> HIDE DEF Y
<1>4. /\ x \in Nat /\ w \in Nat \ {0} /\ q \in Nat /\ d \in Nat \ {0}
      /\ y \in Nat /\ z \in Nat \ {0} /\ FloatCeil(Y) = c
  BY <1>2, <1>3, FractionIs
<1> HIDE DEF x, w, q, d, y, z, c, F
<1> DEFINE Q == w * d
           B == x * q
           aa == N * Q * z
           bb == B * z
           cc == y * Q
<1>5. Q \in Nat \ {0} /\ B \in Nat /\ aa \in Nat /\ bb \in Nat /\ cc \in Nat
  <2>1. Q \in Nat \ {0} /\ B \in Nat
    BY <1>4
  <2> HIDE DEF Q, B
  <2> QED BY <1>4, <2>1
<1>6. Near(bb, aa) /\ Near(cc, bb)
  <2> DEFINE n == N * Q
  <2>1. Near(B, n)
    <3>1. x * (1 * q) = B /\ (N * d) * w = N * Q
      BY <1>4
    <3> QED BY <1>2, <3>1
  <2> DEFINE one == 1
  <2>2. n \in Nat /\ one \in Nat \ {0} /\ SameFraction(one, bb, aa, z, B, n)
    <3> HIDE DEF Q, B
    <3> QED BY <1>4, <1>5 DEF SameFraction
  <2> HIDE DEF Q, B, aa, bb, n, one
  <2>3. Near(bb, aa)
    BY <1>4, <1>5, <2>1, <2>2, NearScales
  <2> QED BY <1>3, <2>3 DEF bb, B, Q
<1>7. /\ (R * R) * cc <= ((R + 1) * (R + 1)) * aa
      /\ ((R - 1) * (R - 1)) * aa <= (R * R) * cc
  <2> HIDE DEF aa, bb, cc
  <2> QED BY <1>5, <1>6, TwoRoundings
<1>8. R \in Nat /\ R >= 4 /\ 3 * N <= R
  BY PrecisionIs
<1> HIDE DEF R, Q, B, bb
<1>9. /\ (R * R) * y <= ((R + 1) * (R + 1)) * (N * z)
      /\ ((R - 1) * (R - 1)) * (N * z) <= (R * R) * y
  <2> DEFINE S == R * R
             G == (R + 1) * (R + 1)
             L == (R - 1) * (R - 1)
             n == N * z
  <2>1. S \in Nat /\ G \in Nat /\ L \in Nat /\ n \in Nat
    <3>1. R - 1 \in Nat /\ R + 1 \in Nat
      BY <1>8
    <3> QED BY <1>4, <1>8, <3>1
  <2>2. aa = n * Q
    BY <1>4, <1>5
  <2> HIDE DEF S, G, L, n
  <2>3. S * cc = Q * (S * y) /\ G * aa = Q * (G * n) /\ L * aa = Q * (L * n)
    BY <1>4, <1>5, <2>1, <2>2
  <2>4. S * y \in Int /\ G * n \in Int /\ L * n \in Int
    BY <1>4, <2>1
  <2>5. Q * (S * y) <= Q * (G * n) /\ Q * (L * n) <= Q * (S * y)
    BY <1>7, <2>3 DEF S, G, L
  <2>6. S * y <= G * n /\ L * n <= S * y
    BY <1>5, <2>4, <2>5, Cancel
  <2> QED BY <2>6 DEF S, G, L, n
<1>10. c \in Nat /\ y <= c * z /\ c * z < y + z
  BY <1>4, CeilDivIs DEF c
<1> DEFINE S == R * R
           T == R * N
<1>11. S \in Nat /\ T \in Nat /\ 3 * T <= S /\ S > 0 /\ 4 * N <= T
  <2>1. R * (3 * N) <= R * R
    BY <1>8, ProductGrows
  <2>2. R * (3 * N) = 3 * (R * N) /\ R * N \in Nat /\ R * R \in Nat
    BY <1>8
  <2>3. 4 * R <= R * R
    BY <1>8, ProductGrows
  <2>4. N * 4 <= N * R /\ N * R = R * N
    BY <1>8, ProductGrows
  <2> QED BY <1>8, <2>1, <2>2, <2>3, <2>4
<1>12. /\ ((R + 1) * (R + 1)) * (N * z) = z * (S * N + 2 * T + N)
       /\ ((R - 1) * (R - 1)) * (N * z) = z * (S * N - 2 * T + N)
       /\ (R * R) * y = S * y
  BY <1>4, <1>8
<1> HIDE DEF S, T, aa, cc
<1>13. S * N \in Nat /\ S * y \in Nat /\ c * z \in Nat
  BY <1>4, <1>10, <1>11
<1>14. c >= N
  <2> SUFFICES ASSUME c + 1 <= N PROVE FALSE
    BY <1>10
  <2>1. (c + 1) * z <= N * z
    BY <1>4, <1>10
  <2>2. y + z <= N * z
    BY <1>4, <1>10, <2>1
  <2>3. S * (y + z) <= S * (N * z)
    BY <1>4, <1>11, <2>2
  <2>4. S * (y + z) = S * y + z * S /\ S * (N * z) = z * (S * N)
    BY <1>4, <1>11
  <2>5. z * (S * N - 2 * T + N) <= S * y
    BY <1>9, <1>12
  <2>6. z * (S * N - 2 * T + N) + z * S <= z * (S * N)
    BY <1>4, <1>11, <1>13, <2>3, <2>4, <2>5
  <2>7. z * (S * N - 2 * T + N) + z * S = z * (S * N - 2 * T + N + S)
    BY <1>4, <1>11, <1>13
  <2>8. S * N - 2 * T + N + S <= S * N
    BY <1>4, <1>11, <1>13, <2>6, <2>7, Cancel
  <2> QED BY <1>11, <1>13, <2>8
<1>15. c <= N + 1
  <2> SUFFICES ASSUME N + 2 <= c PROVE FALSE
    BY <1>10
  <2>1. (N + 2) * z <= c * z
    BY <1>4, <1>10
  <2>2. N * z + z < y
    BY <1>4, <1>10, <2>1
  <2>3. S * (N * z + z + 1) <= S * y
    BY <1>4, <1>11, <2>2
  <2>4. S * (N * z + z + 1) = z * (S * N) + z * S + S
    BY <1>4, <1>11
  <2>5. S * y <= z * (S * N + 2 * T + N)
    BY <1>9, <1>12
  <2>6. z * (S * N) + z * S <= z * (S * N + 2 * T + N)
    BY <1>4, <1>11, <1>13, <2>3, <2>4, <2>5
  <2>7. z * (S * N) + z * S = z * (S * N + S)
    BY <1>4, <1>11, <1>13
  <2>8. S * N + S <= S * N + 2 * T + N
    BY <1>4, <1>11, <1>13, <2>6, <2>7, Cancel
  <2> QED BY <1>11, <1>13, <2>8
<1> QED BY <1>2, <1>4, <1>10, <1>14, <1>15 DEF X, Y, F

-----------------------------------------------------------------------------
(* The boxes of all tiers                                                  *)

LEMMA CancelStrict ==
    ASSUME NEW a \in Int, NEW b \in Int, NEW k \in Nat \ {0}, k * a < k * b
    PROVE  a < b
<1>1. SUFFICES ASSUME b <= a PROVE FALSE
  OBVIOUS
<1>2. k * b <= k * a
  BY <1>1
<1>3. k * a \in Int /\ k * b \in Int
  OBVIOUS
<1> QED BY <1>2, <1>3

\* The count of a tier that has m of T.
LEMMA BoxIs ==
    ASSUME NEW X, IsFloat(X), NEW m \in Nat, NEW T \in Nat \ {0}
    PROVE  LET R == PowerOfTwo[Precision]
               c == FloatCeil(FloatMul(X, RoundedQuotient(m, T, 0)))
           IN  /\ c \in Nat
               /\ ((R - 1) * (R - 1)) * (Numerator(X) * m)
                    <= (R * R) * (c * (Denominator(X) * T))
               /\ (R * R) * ((c - 1) * (Denominator(X) * T))
                    < ((R + 1) * (R + 1)) * (Numerator(X) * m)
<1> DEFINE R == PowerOfTwo[Precision]
           s == RoundedQuotient(m, T, 0)
           Y == FloatMul(X, s)
           x == Numerator(X)
           w == Denominator(X)
           q == Numerator(s)
           d == Denominator(s)
           y == Numerator(Y)
           z == Denominator(Y)
           c == CeilDiv(y, z)
<1>1. IsFloat(s) /\ Near(q * T, m * d)
  BY QuotientIsNear
<1> HIDE DEF s
<1>2. IsFloat(Y) /\ Near(y * (w * d), (x * q) * z)
  BY <1>1, ProductIsNear
<1> HIDE DEF Y
<1>3. /\ x \in Nat /\ w \in Nat \ {0} /\ q \in Nat /\ d \in Nat \ {0}
      /\ y \in Nat /\ z \in Nat \ {0} /\ FloatCeil(Y) = c
  BY <1>1, <1>2, FractionIs
<1>4. c \in Nat /\ y <= c * z /\ c * z < y + z
  BY <1>3, CeilDivIs
<1>5. R \in Nat /\ R >= 4
  BY PrecisionIs
<1> HIDE DEF x, w, q, d, y, z, c, R
<1> DEFINE one == 1
           k == x * z
           n == m * d
           r == q * T
           aa == n * k
           bb == r * k
           cc == (y * (w * d)) * T
           b0 == (x * q) * z
           c0 == y * (w * d)
<1>6. /\ k \in Nat /\ n \in Nat /\ r \in Nat /\ b0 \in Nat /\ c0 \in Nat /\ one \in Nat \ {0}
      /\ Near(r, n) /\ Near(c0, b0)
  <2>1. x * q \in Nat /\ w * d \in Nat
    BY <1>3
  <2> QED BY <1>1, <1>2, <1>3, <2>1
<1>7. aa \in Nat /\ bb \in Nat /\ cc \in Nat
  <2> HIDE DEF k, n, r, c0
  <2> QED BY <1>6 DEF c0
<1>8. SameFraction(one, bb, aa, k, r, n) /\ SameFraction(one, cc, bb, T, c0, b0)
  <2>1. bb = T * b0
    BY <1>3
  <2>2. one * bb = k * r /\ one * aa = k * n /\ one * cc = T * c0 /\ one * bb = bb
    <3> HIDE DEF k, n, r
    <3> QED BY <1>3, <1>6, <1>7
  <2> QED BY <2>1, <2>2 DEF SameFraction
<1>9. Near(bb, aa) /\ Near(cc, bb)
  <2> HIDE DEF aa, bb, cc, k, n, r, one, b0, c0
  <2>1. Near(bb, aa)
    BY <1>6, <1>7, <1>8, NearScales
  <2>2. Near(cc, bb)
    BY <1>6, <1>7, <1>8, NearScales
  <2> QED BY <2>1, <2>2
<1>10. /\ (R * R) * cc <= ((R + 1) * (R + 1)) * aa
       /\ ((R - 1) * (R - 1)) * aa <= (R * R) * cc
  <2> HIDE DEF aa, bb, cc
  <2> QED BY <1>7, <1>9, TwoRoundings DEF R
<1> DEFINE S == R * R
           G == (R + 1) * (R + 1)
           L == (R - 1) * (R - 1)
           xm == x * m
           wT == w * T
<1>11. /\ S \in Nat \ {0} /\ G \in Nat /\ L \in Nat /\ xm \in Nat /\ wT \in Nat \ {0}
       /\ S * wT \in Nat \ {0}
  <2>1. R - 1 \in Nat /\ R + 1 \in Nat /\ R \in Nat \ {0}
    BY <1>5
  <2>2. S \in Nat \ {0} /\ G \in Nat /\ L \in Nat
    <3> DEFINE up == R + 1
               dn == R - 1
    <3>1. up \in Nat /\ dn \in Nat
      BY <2>1
    <3> HIDE DEF up, dn
    <3>2. up * up \in Nat /\ dn * dn \in Nat /\ R * R \in Nat \ {0}
      BY <2>1, <3>1
    <3> QED BY <3>2 DEF up, dn
  <2>3. xm \in Nat /\ wT \in Nat \ {0}
    BY <1>3
  <2> HIDE DEF S, wT
  <2> QED BY <2>2, <2>3
<1>12. aa = (d * z) * xm /\ cc = d * (y * wT) /\ (d * z) \in Nat \ {0}
  BY <1>3
<1> HIDE DEF S, G, L, xm, wT, aa, cc
<1>13. S * (y * wT) <= G * (z * xm) /\ L * (z * xm) <= S * (y * wT)
  <2> DEFINE u == y * wT
             v == z * xm
  <2>1. u \in Nat /\ v \in Nat /\ aa = d * v /\ cc = d * u
    BY <1>3, <1>11, <1>12
  <2> HIDE DEF u, v
  <2>2. S * cc = d * (S * u) /\ G * aa = d * (G * v) /\ L * aa = d * (L * v)
    BY <1>3, <1>11, <2>1
  <2>3. S * u \in Int /\ G * v \in Int /\ L * v \in Int
    BY <1>11, <2>1
  <2>4. d * (S * u) <= d * (G * v) /\ d * (L * v) <= d * (S * u)
    BY <1>10, <2>2 DEF S, G, L
  <2>5. S * u <= G * v /\ L * v <= S * u
    BY <1>3, <2>3, <2>4, Cancel
  <2> QED BY <2>5 DEF u, v
<1>14. L * xm <= S * (c * wT)
  <2>1. (S * wT) * y <= (S * wT) * (c * z)
    <3> DEFINE f == S * wT
               g == c * z
    <3>1. f \in Nat /\ g \in Nat /\ y <= g
      BY <1>3, <1>4, <1>11
    <3> HIDE DEF f, g
    <3>2. f * y <= f * g
      BY <1>3, <3>1
    <3> QED BY <3>2 DEF f, g
  <2>2. /\ (S * wT) * y = S * (y * wT) /\ (S * wT) * (c * z) = z * (S * (c * wT))
        /\ L * (z * xm) = z * (L * xm)
    BY <1>3, <1>4, <1>11
  <2>3. S * (y * wT) \in Int /\ S * (c * wT) \in Int /\ L * xm \in Int
    BY <1>3, <1>4, <1>11
  <2>4. z * (L * xm) <= z * (S * (c * wT))
    BY <1>3, <1>13, <2>1, <2>2, <2>3
  <2> QED BY <1>3, <2>3, <2>4, Cancel
<1>15. S * ((c - 1) * wT) < G * xm
  <2>1. (S * wT) * ((c - 1) * z) < (S * wT) * y
    <3> DEFINE f == S * wT
               g == (c - 1) * z
    <3>1. (c - 1) * z = c * z - z /\ c * z \in Nat
      BY <1>3, <1>4
    <3>2. f \in Nat \ {0} /\ g \in Int /\ g + 1 <= y
      BY <1>3, <1>4, <1>11, <3>1
    <3> HIDE DEF f, g
    <3>3. f * (g + 1) <= f * y /\ f * (g + 1) = f * g + f
      BY <1>3, <3>2
    <3>4. f * g < f * y
      BY <1>3, <3>2, <3>3
    <3> QED BY <3>4 DEF f, g
  <2>2. /\ (S * wT) * y = S * (y * wT) /\ (S * wT) * ((c - 1) * z) = z * (S * ((c - 1) * wT))
        /\ G * (z * xm) = z * (G * xm)
    BY <1>3, <1>4, <1>11
  <2>3. S * (y * wT) \in Int /\ S * ((c - 1) * wT) \in Int /\ G * xm \in Int
    BY <1>3, <1>4, <1>11
  <2>4. z * (S * ((c - 1) * wT)) < z * (G * xm)
    BY <1>3, <1>13, <2>1, <2>2, <2>3
  <2> QED BY <1>3, <2>3, <2>4, CancelStrict
<1> QED BY <1>3, <1>4, <1>14, <1>15 DEF S, G, L, xm, wT, x, w, R, s, Y

\* The counts of all tiers up to n, when tier t has m[t] of the sum.
BoxCounts(X, n, m) ==
    [t \in Tiers |-> IF t <= n
                       THEN FloatCeil(FloatMul(X, RoundedQuotient(m[t], SumOfTiers(m), 0)))
                       ELSE 0]

LEMMA BoxesAdd ==
    ASSUME NEW X, IsFloat(X), NEW n \in Tiers, NEW m,
           \A t \in Tiers : m[t] \in Nat /\ (t > n => m[t] = 0),
           SumOfTiers(m) \in Nat \ {0}
    PROVE  LET R == PowerOfTwo[Precision]
               C == SumOfTiers(BoxCounts(X, n, m))
           IN  /\ \A t \in Tiers : BoxCounts(X, n, m)[t] \in Nat
               /\ C \in Nat
               /\ ((R - 1) * (R - 1)) * Numerator(X) <= (R * R) * (C * Denominator(X))
               /\ (R * R) * ((C - (n + 1)) * Denominator(X))
                    < ((R + 1) * (R + 1)) * Numerator(X)
<1> DEFINE R == PowerOfTwo[Precision]
           S == R * R
           G == (R + 1) * (R + 1)
           L == (R - 1) * (R - 1)
           T == SumOfTiers(m)
           x == Numerator(X)
           w == Denominator(X)
           W == w * T
           c == BoxCounts(X, n, m)
           C == SumOfTiers(c)
           loss == [t \in Tiers |-> IF t <= n THEN 1 ELSE 0]
<1>1. /\ T \in Nat \ {0} /\ x \in Nat /\ w \in Nat \ {0} /\ W \in Nat \ {0}
      /\ S \in Nat /\ G \in Nat /\ L \in Nat
  <2>1. T \in Nat \ {0} /\ x \in Nat /\ w \in Nat \ {0}
    BY FractionIs
  <2>2. R \in Nat /\ R >= 4
    BY PrecisionIs
  <2> HIDE DEF R, T, w, x
  <2>3. W \in Nat \ {0}
    BY <2>1
  <2>4. R - 1 \in Nat /\ R + 1 \in Nat
    BY <2>2
  <2>5. S \in Nat /\ G \in Nat /\ L \in Nat
    BY <2>2, <2>4
  <2> QED BY <2>1, <2>3, <2>5
<1>2. ASSUME NEW t \in Tiers
      PROVE  /\ c[t] \in Nat
             /\ L * (x * m[t]) <= S * (c[t] * W)
             /\ S * ((c[t] - loss[t]) * W) <= G * (x * m[t])
             /\ t = 0 => S * ((c[t] - loss[t]) * W) < G * (x * m[t])
  <2>1. t \in Int /\ n \in Int /\ 0 <= n
    BY TiersAre
  <2>2. CASE t <= n
    <3> DEFINE k == FloatCeil(FloatMul(X, RoundedQuotient(m[t], T, 0)))
               mt == m[t]
    <3>1. c[t] = k /\ loss[t] = 1
      BY <2>2 DEF BoxCounts
    <3>2. k \in Nat /\ L * (x * mt) <= S * (k * W) /\ S * ((k - 1) * W) < G * (x * mt)
      BY <1>1, BoxIs
    <3> HIDE DEF c, loss, k, mt, S, G, L, x, W
    <3>3. S * ((k - 1) * W) \in Int /\ G * (x * mt) \in Int
      <4>1. mt \in Nat
        BY DEF mt
      <4> QED BY <1>1, <3>2, <4>1
    <3> QED BY <3>1, <3>2, <3>3 DEF mt
  <2>3. CASE t > n
    <3>1. c[t] = 0 /\ loss[t] = 0 /\ m[t] = 0 /\ t # 0
      BY <2>1, <2>3 DEF BoxCounts
    <3> HIDE DEF c, loss, S, G, L, x, W
    <3> QED BY <1>1, <3>1
  <2> QED BY <2>1, <2>2, <2>3
<1>3. \A t \in Tiers : loss[t] \in {0, 1} /\ m[t] \in Nat
  OBVIOUS
<1>4. loss[0] + loss[1] + loss[2] + loss[3] + loss[4] = n + 1 /\ n \in Nat
  BY TiersAre
<1>5. /\ C = c[0] + c[1] + c[2] + c[3] + c[4]
      /\ T = m[0] + m[1] + m[2] + m[3] + m[4]
  BY DEF SumOfTiers
<1>6. C \in Nat
  BY <1>2, <1>5, TiersAre
<1> HIDE DEF S, G, L, T, x, w, W, c, C, loss
<1> DEFINE lo(t) == L * (x * m[t])
           hi(t) == G * (x * m[t])
           al(t) == S * (c[t] * W)
           be(t) == S * ((c[t] - loss[t]) * W)
<1>7. \A t \in Tiers : lo(t) \in Int /\ hi(t) \in Int /\ al(t) \in Int /\ be(t) \in Int
  BY <1>1, <1>2, <1>3
<1>8. /\ lo(0) + lo(1) + lo(2) + lo(3) + lo(4) = L * (x * T)
      /\ hi(0) + hi(1) + hi(2) + hi(3) + hi(4) = G * (x * T)
  BY <1>1, <1>3, <1>5, TiersAre
<1>9. al(0) + al(1) + al(2) + al(3) + al(4) = S * (C * W)
  BY <1>1, <1>2, <1>5, TiersAre
<1>10. be(0) + be(1) + be(2) + be(3) + be(4) = S * ((C - (n + 1)) * W)
  <2>1. C - (n + 1) = (c[0] - loss[0]) + (c[1] - loss[1]) + (c[2] - loss[2])
                        + (c[3] - loss[3]) + (c[4] - loss[4])
    BY <1>2, <1>3, <1>4, <1>5, TiersAre
  <2> DEFINE h(t) == c[t] - loss[t]
             D == C - (n + 1)
  <2>2. \A t \in Tiers : h(t) \in Int
    BY <1>2, <1>3
  <2>3. D = h(0) + h(1) + h(2) + h(3) + h(4)
    BY <2>1
  <2> HIDE DEF h, D
  <2>4. S * (h(0) * W) + S * (h(1) * W) + S * (h(2) * W) + S * (h(3) * W) + S * (h(4) * W)
          = S * (D * W)
    BY <1>1, <2>2, <2>3, TiersAre
  <2> QED BY <2>4 DEF h, D
<1>11. \A t \in Tiers : lo(t) <= al(t) /\ be(t) <= hi(t) /\ (t = 0 => be(t) < hi(t))
  BY <1>2
<1> HIDE DEF lo, hi, al, be
<1>12. L * (x * T) <= S * (C * W) /\ S * ((C - (n + 1)) * W) < G * (x * T)
  BY <1>7, <1>8, <1>9, <1>10, <1>11, TiersAre
<1>13. L * x <= S * (C * w) /\ S * ((C - (n + 1)) * w) < G * x
  <2> DEFINE D == C - (n + 1)
  <2>1. D \in Int
    BY <1>4, <1>6
  <2>2. W = w * T
    BY DEF W
  <2> HIDE DEF D
  <2>3. /\ L * (x * T) = T * (L * x) /\ S * (C * W) = T * (S * (C * w))
        /\ S * (D * W) = T * (S * (D * w)) /\ G * (x * T) = T * (G * x)
    BY <1>1, <1>6, <2>1, <2>2
  <2>4. L * x \in Int /\ S * (C * w) \in Int /\ S * (D * w) \in Int /\ G * x \in Int
    BY <1>1, <1>6, <2>1
  <2>5. T * (L * x) <= T * (S * (C * w)) /\ T * (S * (D * w)) < T * (G * x)
    BY <1>12, <2>3 DEF D
  <2>6. L * x <= S * (C * w) /\ S * (D * w) < G * x
    BY <1>1, <2>4, <2>5, Cancel, CancelStrict
  <2> QED BY <2>6 DEF D
<1> QED BY <1>2, <1>6, <1>13 DEF S, G, L, x, w, c, C

\* How far the sum C of the boxes can be from the total.
LEMMA BoxesAreAbout ==
    ASSUME NEW R \in Nat, NEW C \in Nat, NEW n \in Nat, NEW x \in Nat, NEW w \in Nat \ {0},
           3 * CeilDiv(x, w) <= R, R >= 4,
           ((R - 1) * (R - 1)) * x <= (R * R) * (C * w),
           (R * R) * ((C - (n + 1)) * w) < ((R + 1) * (R + 1)) * x
    PROVE  /\ C - CeilDiv(x, w) \in -1 .. n + 1
           /\ w = 1 => C - CeilDiv(x, w) \in 0 .. n + 1
<1> DEFINE N == CeilDiv(x, w)
           S == R * R
           T == R * N
           G == (R + 1) * (R + 1)
           L == (R - 1) * (R - 1)
<1>1. N \in Nat /\ x <= N * w /\ N * w < x + w
  BY CeilDivIs
<1>2. 3 * N <= R
  OBVIOUS
<1> HIDE DEF N
<1>3. S \in Nat /\ T \in Nat /\ 3 * T <= S /\ S > 0 /\ 4 * N <= T
  <2>1. R * (3 * N) <= R * R
    BY <1>1, <1>2, ProductGrows
  <2>2. R * (3 * N) = 3 * (R * N) /\ R * N \in Nat /\ R * R \in Nat
    BY <1>1
  <2>3. 4 * R <= R * R
    BY ProductGrows
  <2>4. N * 4 <= N * R /\ N * R = R * N
    BY <1>1, ProductGrows
  <2>5. S \in Nat /\ T \in Nat /\ R * (3 * N) = 3 * T /\ S = R * R /\ N * R = T
    BY <2>2, <2>4
  <2> HIDE DEF S, T
  <2>6. 3 * T <= S /\ 4 * N <= T /\ 4 * R <= S
    BY <1>1, <2>1, <2>3, <2>4, <2>5
  <2> QED BY <2>5, <2>6
<1>4. /\ G * N = S * N + 2 * T + N /\ L * N = S * N - 2 * T + N
      /\ G = S + 2 * R + 1 /\ L = S - 2 * R + 1 /\ L \in Nat /\ G \in Nat
  <2>1. /\ G * N = S * N + 2 * T + N /\ L * N = S * N - 2 * T + N
        /\ G = S + 2 * R + 1 /\ L = S - 2 * R + 1
    BY <1>1
  <2>2. R - 1 \in Nat /\ R + 1 \in Nat
    OBVIOUS
  <2>3. L \in Nat /\ G \in Nat
    BY <2>2
  <2> QED BY <2>1, <2>3
<1>5. L * x <= S * (C * w) /\ S * ((C - (n + 1)) * w) < G * x
  OBVIOUS
<1> HIDE DEF S, T, G, L
<1>6. S * N \in Nat /\ N * w \in Nat /\ S * C \in Nat
  BY <1>1, <1>3
<1>7. C + 1 >= N
  <2> SUFFICES ASSUME C + 2 <= N PROVE FALSE
    BY <1>1
  <2>1. (N - 1) * w <= x
    <3>1. (N - 1) * w = N * w - w
      BY <1>1
    <3> QED BY <1>1, <1>6, <3>1
  <2>2. L * ((N - 1) * w) <= L * x
    <3>1. (N - 1) * w \in Nat
      BY <1>1
    <3> QED BY <1>4, <2>1, <3>1, ProductGrows
  <2>3. S * (C * w) = w * (S * C) /\ L * ((N - 1) * w) = w * (L * (N - 1))
    BY <1>1, <1>3, <1>4
  <2>4. L * (N - 1) \in Int /\ L * x \in Int /\ w * (S * C) \in Int /\ w * (L * (N - 1)) \in Int
    BY <1>1, <1>3, <1>4
  <2>5. w * (L * (N - 1)) <= w * (S * C)
    BY <1>5, <2>2, <2>3, <2>4
  <2>6. L * (N - 1) <= S * C
    BY <1>6, <2>4, <2>5, Cancel
  <2>7. S * (C + 2) <= S * N /\ S * (C + 2) = S * C + 2 * S
    BY <1>1, <1>3
  <2>8. L * (N - 1) = S * N - 2 * T + N - S + 2 * R - 1
    <3>1. L * (N - 1) = L * N - L
      BY <1>1, <1>4
    <3> QED BY <1>1, <1>3, <1>4, <1>6, <3>1
  <2>9. S * N - 2 * T + N - S + 2 * R - 1 <= S * N - 2 * S
    BY <1>1, <1>3, <1>6, <2>6, <2>7, <2>8
  <2> QED BY <1>1, <1>3, <1>6, <2>9
<1>8. C <= N + n + 1
  <2> SUFFICES ASSUME N + n + 2 <= C PROVE FALSE
    BY <1>1
  <2> DEFINE D == C - (n + 1)
  <2>1. D \in Nat /\ N + 1 <= D
    BY <1>1
  <2> HIDE DEF D
  <2>2. S * (N + 1) <= S * D /\ S * (N + 1) = S * N + S /\ S * D \in Nat
    BY <1>1, <1>3, <2>1, ProductGrows
  <2>3. G * x <= G * (N * w)
    BY <1>1, <1>4, <1>6, ProductGrows
  <2>4. S * (D * w) = w * (S * D) /\ G * (N * w) = w * (G * N)
    BY <1>1, <1>3, <1>4, <2>1
  <2>5. G * N \in Int /\ G * x \in Int /\ w * (S * D) \in Int /\ w * (G * N) \in Int
    BY <1>1, <1>4, <2>2
  <2>6. w * (S * D) < w * (G * N)
    BY <1>5, <2>3, <2>4, <2>5 DEF D
  <2>7. S * D < G * N
    BY <2>2, <2>5, <2>6, CancelStrict
  <2>8. S * N + S < S * N + 2 * T + N
    BY <1>1, <1>3, <1>4, <1>6, <2>2, <2>7
  <2> QED BY <1>1, <1>3, <1>6, <2>8
<1>9. w = 1 => C >= N
  <2> SUFFICES ASSUME w = 1, C + 1 <= N PROVE FALSE
    BY <1>1
  <2>1. x = N
    BY <1>1
  <2>2. S * (C * w) = S * C
    BY <1>3
  <2>3. S * (C + 1) <= S * N /\ S * (C + 1) = S * C + S
    BY <1>1, <1>3
  <2>4. S * N - 2 * T + N <= S * N - S
    BY <1>1, <1>3, <1>4, <1>5, <1>6, <2>1, <2>2, <2>3
  <2> QED BY <1>1, <1>3, <1>6, <2>4
<1>10. C - N \in -1 .. n + 1 /\ (w = 1 => C - N \in 0 .. n + 1)
  BY <1>1, <1>7, <1>8, <1>9
<1> QED BY <1>10 DEF N

-----------------------------------------------------------------------------
(* The plan                                                                *)

RequestOK == request \in [box : Boxes, count : 0 .. maxMachineCount]

\* A call has finished, with amounts that are numbers and a share for the request.
Finished == SolverInv /\ RoomInv /\ RequestOK /\ ~HasNoShare

MaterialsByTier == Padded(LoopTiers, materials)

LEMMA BoxIsTier ==
    ASSUME RequestOK
    PROVE  /\ request.count \in Nat /\ request.count <= maxMachineCount
           /\ request.box # TotalBox <=> request.box \in Tiers
           /\ 3 * request.count <= PowerOfTwo[Precision]
<1>1. request.box \in Boxes /\ request.count \in 0 .. maxMachineCount
  BY DEF RequestOK
<1>2. 3 * request.count <= PowerOfTwo[Precision]
  BY <1>1, RoomForCounts, CountsAssumption, PrecisionIs
<1> QED BY <1>1, <1>2, CountsAssumption DEF Boxes

LEMMA FinishedAmounts ==
    ASSUME Finished
    PROVE  /\ input \in Inputs /\ Target \in Tiers /\ LoopTiers \in SUBSET Tiers
           /\ \A t \in Tiers : t \in LoopTiers <=> t <= Target
           /\ \A t \in Tiers : /\ materials[t] \in Nat /\ MaterialsByTier[t] = materials[t]
                               /\ t > Target => materials[t] = 0
           /\ Total \in Nat \ {0} /\ IsNumber(Total) /\ Total # Inf
           /\ Total = SumOfTiers(MaterialsByTier)
           /\ \A t \in LoopTiers : IsNumber(Ratio(t))
<1>1. input \in Inputs /\ TypeOK /\ AllNumbers /\ materials[QualityNormal] >= Scale
      /\ \A t \in Tiers \ LoopTiers : materials[t] = 0
  BY DEF Finished, SolverInv, TypeOK, RoomInv
<1>2. Target \in Tiers /\ LoopTiers \in SUBSET Tiers /\ QualityNormal \in LoopTiers
  BY <1>1, InputsAre
<1>3. \A t \in Tiers : t \in LoopTiers <=> t <= Target
  BY <1>2, TiersAre DEF LoopTiers, QualityNormal
<1>4. \A t \in Tiers : materials[t] \in Nat /\ MaterialsByTier[t] = materials[t]
  BY <1>1, <1>2 DEF AllNumbers, MaterialsByTier, Padded
<1>5. Total = Held /\ Held \in Nat /\ IsNumber(Total)
  BY <1>1, TotalIsHeld
<1>6. Held = SumOfTiers(MaterialsByTier)
  BY DEF Held, MaterialsByTier
<1>7. Held # 0
  <2>1. materials[QualityNormal] <= Held
    <3> DEFINE all == MaterialsByTier
    <3>1. \A t \in Tiers : all[t] \in Nat /\ all[t] = materials[t]
      BY <1>4
    <3> HIDE DEF all
    <3>2. all[QualityNormal] <= SumOfTiers(all)
      BY <1>2, <3>1, SumIsNat
    <3> QED BY <1>2, <1>6, <3>1, <3>2 DEF all
  <2> QED BY <1>1, <1>2, <1>4, <1>5, <2>1, SolverAssumption
<1>8. Total # Inf
  BY <1>5 DEF IsNumber
<1>9. ASSUME NEW t \in LoopTiers PROVE IsNumber(Ratio(t))
  <2>1. Ratio(t) = (materials[t] * Scale) \div Total
    BY <1>5, <1>7 DEF Ratio
  <2> DEFINE a == materials[t] * Scale
  <2>2. a \in Nat
    BY <1>2, <1>4, SolverAssumption
  <2> HIDE DEF a
  <2>3. a \div Total \in Nat
    BY <1>5, <1>7, <2>2, Division
  <2> QED BY <2>1, <2>3, NumbersAre DEF a
<1>10. \A t \in Tiers : t > Target => materials[t] = 0
  <2> SUFFICES ASSUME NEW t \in Tiers, t > Target PROVE materials[t] = 0
    OBVIOUS
  <2>1. t \in Int /\ Target \in Int
    BY <1>2, TiersAre
  <2> QED BY <1>1, <1>3, <2>1
<1> QED BY <1>1, <1>2, <1>3, <1>4, <1>5, <1>6, <1>7, <1>8, <1>9, <1>10

\* What a request is for has a share, and the total it stands for is a float.
LEMMA FinishedTotal ==
    ASSUME Finished
    PROVE  /\ Counted /\ IsFloat(TotalMachines)
           /\ request.box = TotalBox => TotalMachines = Float(request.count, 0)
           /\ request.box # TotalBox =>
                /\ request.box \in LoopTiers
                /\ materials[request.box] \in Nat \ {0}
                /\ IsFloat(Share(request.box)) /\ Share(request.box).man # 0
                /\ TotalMachines = FloatDiv(Float(request.count, 0), Share(request.box))
<1>1. RequestOK
  BY DEF Finished
<1>2. CASE request.box = TotalBox
  BY <1>1, <1>2, BoxIsTier, WholeFloat DEF Counted, TotalMachines
<1>3. CASE request.box # TotalBox
  <2> DEFINE box == request.box
             s == Share(box)
             m == materials[box]
             F == Float(request.count, 0)
  <2>1. box \in Tiers /\ request.count \in Nat
    BY <1>1, <1>3, BoxIsTier
  <2>2. m \in Nat \ {0} /\ Total \in Nat \ {0}
    BY <2>1, FinishedAmounts DEF Finished, HasNoShare
  <2>3. box \in LoopTiers
    <3>1. \A t \in Tiers \ LoopTiers : materials[t] = 0
      BY DEF Finished, SolverInv
    <3> QED BY <2>1, <2>2, <3>1
  <2>4. s = RoundedQuotient(m, Total, 0)
    BY DEF Share
  <2>5. IsFloat(s) /\ Near(Numerator(s) * Total, m * Denominator(s))
    BY <2>2, <2>4, QuotientIsNear
  <2>6. TotalMachines = FloatDiv(F, s)
    BY <1>3 DEF TotalMachines
  <2> HIDE DEF s, m, F
  <2>7. Numerator(s) \in Nat /\ Denominator(s) \in Nat \ {0} /\ (Numerator(s) = 0 <=> s.man = 0)
    BY <2>5, FractionIs
  <2>8. s.man # 0
    <3> DEFINE a == Numerator(s) * Total
               b == m * Denominator(s)
    <3>1. a \in Nat /\ b \in Nat \ {0} /\ (s.man = 0 => a = 0)
      BY <2>2, <2>7
    <3>2. Near(a, b)
      BY <2>5
    <3> HIDE DEF a, b
    <3> QED BY <3>1, <3>2, NearIsPositive
  <2>9. IsFloat(F)
    BY <2>1, WholeFloat DEF F
  <2>10. IsFloat(FloatDiv(F, s))
    BY <2>5, <2>8, <2>9, DivisionIsNear
  <2>11. Counted
    BY <2>3, FinishedAmounts DEF Counted
  <2> QED BY <1>3, <2>2, <2>3, <2>5, <2>6, <2>8, <2>10, <2>11 DEF s, m, F
<1> QED BY <1>2, <1>3

LEMMA FinishedPlan ==
    ASSUME Finished
    PROVE  /\ Plan.total = FloatCeil(TotalMachines) /\ Plan.total \in Nat
           /\ Plan.machines = BoxCounts(TotalMachines, Target, MaterialsByTier)
           /\ \A t \in LoopTiers : Plan.machines[t] = FloatCeil(FloatMul(TotalMachines, Share(t)))
           /\ Plan.recyclers = RequiredRecyclers
           /\ Plan.for = input
<1>1. /\ LoopTiers \in SUBSET Tiers
      /\ \A t \in Tiers : t \in LoopTiers <=> t <= Target
      /\ \A t \in Tiers : MaterialsByTier[t] = materials[t]
      /\ IsNumber(Total) /\ Total # Inf /\ Total = SumOfTiers(MaterialsByTier)
      /\ \A t \in LoopTiers : IsNumber(Ratio(t))
  BY FinishedAmounts
<1>2. Counted /\ IsFloat(TotalMachines)
  BY FinishedTotal
<1>3. Plan.total = FloatCeil(TotalMachines) /\ Plan.recyclers = RequiredRecyclers /\ Plan.for = input
  BY <1>1, <1>2 DEF Plan
<1>4. \A t \in LoopTiers : Machines(t) = FloatCeil(FloatMul(TotalMachines, Share(t)))
  BY <1>1, <1>2 DEF Machines
<1>5. \A t \in LoopTiers : Share(t) = RoundedQuotient(MaterialsByTier[t],
                                                     SumOfTiers(MaterialsByTier), 0)
  BY <1>1 DEF Share
<1>6. Plan.machines = [t \in Tiers |-> IF t \in LoopTiers THEN Machines(t) ELSE 0]
  BY DEF Plan
<1>7. Plan.machines = BoxCounts(TotalMachines, Target, MaterialsByTier)
  BY <1>1, <1>4, <1>5, <1>6 DEF BoxCounts
<1>8. Plan.total \in Nat
  BY <1>2, <1>3, FractionIs
<1> QED BY <1>1, <1>3, <1>4, <1>6, <1>7, <1>8

\* There is room for all amounts of a finished call, so they are exact.
LEMMA LoadIsExact ==
    ASSUME AmountsFit, SolverInv, RoomInv
    PROVE  /\ RecycleLoad = SumOfTiers(Padded(Recycled, ExactCrafted(materials)))
           /\ RecycleLoad \in Nat
<1>0. /\ input \in Inputs /\ AllNumbers /\ iter \in 0 .. loopSolverMaxIterations
      /\ Held <= Scale * (iter + 1) /\ Held \in Nat
      /\ \A i \in LoopTiers : materials[i] \in Nat
  BY TotalIsHeld DEF SolverInv, RoomInv, TypeOK, AllNumbers
<1>1. /\ LoopTiers \in SUBSET Tiers /\ Recycled \in SUBSET Tiers
      /\ Unit(Target) \in Nat \ {0}
  BY <1>0, InputsAre
<1>2. Held <= MaxFinite
  <2> DEFINE h == Held
             max == loopSolverMaxIterations
  <2>1. /\ h \in Nat /\ h <= Scale * (iter + 1) /\ Scale * (max + 1) <= MaxFinite
        /\ Scale \in Nat /\ max \in Nat /\ iter \in 0 .. max /\ MaxFinite \in Nat
    BY <1>0, SolverAssumption DEF AmountsFit
  <2> HIDE DEF h, max
  <2>2. Scale * (iter + 1) <= Scale * (max + 1)
    BY <2>1, ProductGrows
  <2>3. Scale * (iter + 1) \in Nat /\ Scale * (max + 1) \in Nat
    BY <2>1
  <2>4. h <= MaxFinite
    BY <2>1, <2>2, <2>3
  <2> QED BY <2>4 DEF h
<1>3. ASSUME NEW r \in Recycled
      PROVE  CraftedOf(r) = ExactCrafted(materials)[r] /\ ExactCrafted(materials)[r] \in Nat
  <2> DEFINE exact == MixSum(LoopTiers, CraftShares(r), materials) \div Unit(Target)
  <2>1. CraftedOf(r) = Bounded(exact)
    BY <1>0, <1>1, PassIs, SharesAreNat, MixOfNumbers
  <2>2. ExactCrafted(materials)[r] = exact
    BY DEF ExactCrafted
  <2>3. ExactCrafted(materials)[r] \in Nat
    BY <1>0, ExactIsNat
  <2>4. ExactCrafted(materials)[r] <= Held
    BY <1>0, PassPays DEF Held
  <2> HIDE DEF exact
  <2>5. exact \in Nat /\ exact <= MaxFinite
    BY <1>0, <1>2, <2>2, <2>3, <2>4, SolverAssumption
  <2> QED BY <2>1, <2>2, <2>5, NumbersAre
<1> DEFINE f == [t \in Recycled |-> CraftedOf(t)]
           crafted == Padded(Recycled, ExactCrafted(materials))
<1>4. \A t \in Recycled : f[t] = ExactCrafted(materials)[t] /\ IsNumber(f[t])
  BY <1>3, NumbersAre
<1>5. [t \in Tiers |-> IF t \in Recycled THEN f[t] ELSE 0] = crafted
  BY <1>4 DEF Padded
<1>6. SumOver(Recycled, f) = SumOfTiers(crafted)
  <2> HIDE DEF f, crafted
  <2> QED BY <1>4, <1>5 DEF SumOver, IsNumber
<1>7. SumOfTiers(crafted) \in Nat
  <2>1. \A t \in Tiers : crafted[t] \in Nat
    BY <1>3 DEF Padded
  <2> HIDE DEF crafted
  <2> QED BY <2>1, SumIsNat
<1> QED BY <1>6, <1>7 DEF RecycleLoad

\* What is recycled, of which a quarter comes back, is what the loop holds beyond
\* the unit that was fed to it.
LoadIsSupplied ==
    /\ 400 * (Total - Scale) <= OutputPercent * RecycleLoad
    /\ OutputPercent * RecycleLoad < 400 * (Total - Scale + Slack)

\* A plan is made of the call's input, its amounts and the request alone.
LEMMA SamePlan ==
    ASSUME input' = input, materials' = materials, request' = request
    PROVE  /\ Plan' = Plan /\ HasNoShare' = HasNoShare
           /\ LoadIsSupplied' = LoadIsSupplied
<1>1. /\ LoopTiers' = LoopTiers /\ Recycled' = Recycled /\ OutputPercent' = OutputPercent
      /\ Target' = Target
  BY DEF LoopTiers, Recycled, OutputPercent, Target
<1>2. \A i : assemblerProb(i)' = assemblerProb(i)
  BY <1>1 DEF assemblerProb
<1>3. Total' = Total
  BY <1>1 DEF Total
<1>4. \A t : CraftedOf(t)' = CraftedOf(t)
  BY <1>1, <1>2 DEF CraftedOf
<1>5. RecycleLoad' = RecycleLoad
  BY <1>1, <1>4 DEF RecycleLoad
<1>6. \A t : Ratio(t)' = Ratio(t) /\ Share(t)' = Share(t)
  BY <1>3 DEF Ratio, Share
<1>7. TotalMachines' = TotalMachines /\ Counted' = Counted
  BY <1>6 DEF TotalMachines, Counted
<1>8. \A t : Machines(t)' = Machines(t)
  BY <1>3, <1>6, <1>7 DEF Machines
<1>9. RequiredRecyclers' = RequiredRecyclers
  BY <1>1, <1>3, <1>5 DEF RequiredRecyclers
<1>10. Plan' = Plan
  BY <1>1, <1>3, <1>7, <1>8, <1>9 DEF Plan
<1>11. HasNoShare' = HasNoShare
  BY <1>3 DEF HasNoShare
<1>12. LoadIsSupplied' = LoadIsSupplied
  BY <1>1, <1>3, <1>5 DEF LoadIsSupplied, Slack
<1> QED BY <1>10, <1>11, <1>12

PageOK == page = None \/ /\ page.total \in Int
                         /\ page.machines \in [Tiers -> Int]
                         /\ page.recyclers \in Int
                         /\ page.for \in Inputs

LEMMA RecyclersAreCounted ==
    ASSUME AmountsFit, Finished, input.recyclerPerSecond > 0
    PROVE  RequiredRecyclers \in Nat
<1> DEFINE per == IF request.box = TotalBox THEN Total ELSE materials[request.box]
           rps == input.recyclerPerSecond
           load == request.count * RecycleLoad * OutputPercent * input.craftRate
<1>1. per \in Nat \ {0}
  BY FinishedAmounts, FinishedTotal
<1>2. input \in Inputs /\ rps \in Nat \ {0} /\ input.craftRate \in Nat
  BY FinishedAmounts, CountsAssumption
<1>3. RecycleLoad \in Nat
  BY FinishedAmounts, LoadIsExact DEF Finished
<1>4. OutputPercent \in Nat /\ request.count \in Nat
  BY <1>2, InputsAre, BoxIsTier DEF Finished
<1>5. load \in Nat
  <2>1. request.count * RecycleLoad \in Nat
    BY <1>3, <1>4
  <2>2. request.count * RecycleLoad * OutputPercent \in Nat
    BY <1>4, <2>1
  <2> QED BY <1>2, <2>2
<1>6. per * 100 * rps \in Nat \ {0}
  <2> HIDE DEF per, rps
  <2>1. per * 100 \in Nat \ {0}
    BY <1>1
  <2> QED BY <1>2, <2>1
<1>7. RequiredRecyclers = CeilDiv(load, per * 100 * rps)
  BY DEF RequiredRecyclers
<1> HIDE DEF load, per, rps
<1> QED BY <1>5, <1>6, <1>7, CeilDivIs

-----------------------------------------------------------------------------
(* What a settled loop recycles                                            *)

\* What is spread by shares of the whole loses no more than rounding takes.
LEMMA SpreadIsAll ==
    ASSUME NEW W \in Nat \ {0}, NEW P, NEW x, NEW z,
           \A t \in Tiers : x[t] \in Nat /\ z[t] \in Nat,
           \A i, t \in Tiers : P[i][t] \in Nat,
           \A i \in Tiers : x[i] = 0 \/ SumOfTiers(P[i]) = W,
           \A t \in Tiers : SumOfTiers([i \in Tiers |-> P[i][t] * x[i]]) <= W * z[t]
    PROVE  SumOfTiers(x) <= SumOfTiers(z)
<1> DEFINE part(i, t) == P[i][t] * x[i]
<1>1. \A i, t \in Tiers : part(i, t) \in Nat
  OBVIOUS
<1>2. ASSUME NEW t \in Tiers
      PROVE  part(0, t) + part(1, t) + part(2, t) + part(3, t) + part(4, t) <= W * z[t]
  BY TiersAre DEF SumOfTiers
<1>3. ASSUME NEW i \in Tiers
      PROVE  part(i, 0) + part(i, 1) + part(i, 2) + part(i, 3) + part(i, 4) = W * x[i]
  <2>1. CASE x[i] = 0
    <3>1. \A t \in Tiers : part(i, t) = 0
      BY <2>1
    <3>2. W * x[i] = 0
      BY <2>1
    <3> HIDE DEF part
    <3> QED BY <3>1, <3>2, TiersAre
  <2>2. CASE x[i] # 0
    <3> DEFINE row == SumOfTiers(P[i])
    <3>1. row = W
      BY <2>2
    <3>2. row = P[i][0] + P[i][1] + P[i][2] + P[i][3] + P[i][4]
      BY DEF SumOfTiers
    <3>3. \A t \in Tiers : P[i][t] \in Nat
      OBVIOUS
    <3> HIDE DEF row
    <3> DEFINE k == x[i]
               a(t) == P[i][t]
    <3>4. k \in Nat /\ \A t \in Tiers : a(t) \in Nat /\ part(i, t) = a(t) * k
      BY <3>3
    <3>5. row = a(0) + a(1) + a(2) + a(3) + a(4)
      BY <3>2
    <3> HIDE DEF k, a, part
    <3>6. row * k = a(0) * k + a(1) * k + a(2) * k + a(3) * k + a(4) * k
      BY <3>4, <3>5, TiersAre
    <3>7. row * x[i] = part(i, 0) + part(i, 1) + part(i, 2) + part(i, 3) + part(i, 4)
      BY <3>4, <3>6, TiersAre DEF k
    <3> QED BY <3>1, <3>7
  <2> QED BY <2>1, <2>2
<1> HIDE DEF part
<1> DEFINE sx == x[0] + x[1] + x[2] + x[3] + x[4]
           sz == z[0] + z[1] + z[2] + z[3] + z[4]
<1>4. W * sx <= W * sz
  <2>1. \A t \in Tiers : W * z[t] \in Nat /\ W * x[t] \in Nat
    OBVIOUS
  <2>2. W * sz = W * z[0] + W * z[1] + W * z[2] + W * z[3] + W * z[4]
    BY TiersAre
  <2>3. W * sx = W * x[0] + W * x[1] + W * x[2] + W * x[3] + W * x[4]
    BY TiersAre
  <2> DEFINE a(t) == W * x[t]
             b(t) == W * z[t]
  <2>4. \A t \in Tiers :
           /\ a(t) \in Nat /\ b(t) \in Nat
           /\ part(t, 0) + part(t, 1) + part(t, 2) + part(t, 3) + part(t, 4) = a(t)
           /\ part(0, t) + part(1, t) + part(2, t) + part(3, t) + part(4, t) <= b(t)
    BY <1>2, <1>3, <2>1
  <2> HIDE DEF a, b
  <2>5. a(0) + a(1) + a(2) + a(3) + a(4) <= b(0) + b(1) + b(2) + b(3) + b(4)
    BY <1>1, <2>4, TiersAre
  <2> QED BY <2>2, <2>3, <2>5 DEF a, b
<1>5. SumOfTiers(x) = sx /\ SumOfTiers(z) = sz
  BY DEF SumOfTiers
<1> HIDE DEF sx, sz
<1>6. sx \in Nat /\ sz \in Nat
  BY <1>5, SumIsNat
<1> QED BY <1>4, <1>5, <1>6, Cancel

\* A tier's share of a mix, and the one part that rounding may have taken from it.
OneMore(to, y) == Padded(to, [t \in to |-> y[t] + 1])

LEMMA MixesLoseLittle ==
    ASSUME NEW from \in SUBSET Tiers, NEW to \in SUBSET Tiers, NEW W \in Nat \ {0}, NEW Q,
           NEW x, NEW y,
           \A i \in from : x[i] \in Nat /\ SumOfTiers(Q[i]) = W,
           \A i \in from, t \in Tiers : Q[i][t] \in Nat /\ (t \notin to => Q[i][t] = 0),
           \A t \in to : y[t] = MixSum(from, [i \in from |-> Q[i][t]], x) \div W
    PROVE  SumOfTiers(Padded(from, x)) <= SumOfTiers(OneMore(to, y))
<1> DEFINE P == [i \in Tiers |-> [t \in Tiers |-> IF i \in from THEN Q[i][t] ELSE 0]]
           px == Padded(from, x)
           z == OneMore(to, y)
           column(t) == [i \in Tiers |-> P[i][t] * px[i]]
<1>1. ASSUME NEW i \in Tiers, NEW t \in Tiers
      PROVE  /\ P[i][t] \in Nat /\ px[i] \in Nat
             /\ P[i][t] * px[i] = IF i \in from THEN Q[i][t] * x[i] ELSE 0
  BY DEF Padded
<1>2. ASSUME NEW t \in to
      PROVE  /\ y[t] \in Nat
             /\ SumOfTiers(column(t)) <= W * (y[t] + 1)
  <2> DEFINE k == [i \in from |-> Q[i][t]]
             f == [i \in Tiers |-> IF i \in from THEN k[i] * x[i] ELSE 0]
             a == MixSum(from, k, x)
  <2>1. \A i \in from : k[i] = Q[i][t] /\ k[i] \in Nat
    OBVIOUS
  <2>2. f = column(t)
    BY <1>1, <2>1
  <2>3. a = SumOfTiers(column(t))
    BY <2>2 DEF MixSum
  <2>4. a \in Nat
    <3> HIDE DEF k
    <3> QED BY <2>1, MixOfNumbers
  <2>5. y[t] = a \div W
    OBVIOUS
  <2> HIDE DEF k, f, a, column
  <2>6. y[t] \in Nat /\ a < W * y[t] + W
    BY <2>4, <2>5, Division
  <2>7. W * (y[t] + 1) = W * y[t] + W /\ W * y[t] \in Nat
    BY <2>6
  <2> QED BY <2>3, <2>4, <2>6, <2>7
<1>3. ASSUME NEW t \in Tiers
      PROVE  z[t] \in Nat /\ SumOfTiers(column(t)) <= W * z[t]
  <2>1. CASE t \in to
    <3>1. z[t] = y[t] + 1
      BY <2>1 DEF OneMore, Padded
    <3> HIDE DEF z, column
    <3> QED BY <1>2, <2>1, <3>1
  <2>2. CASE t \notin to
    <3>1. z[t] = 0
      BY <2>2 DEF OneMore, Padded
    <3>2. \A i \in Tiers : column(t)[i] = 0
      <4> SUFFICES ASSUME NEW i \in Tiers PROVE P[i][t] * px[i] = 0
        OBVIOUS
      <4>1. i \in from => Q[i][t] = 0 /\ x[i] \in Nat
        BY <2>2
      <4> QED BY <1>1, <4>1
    <3> HIDE DEF column, z
    <3>3. SumOfTiers(column(t)) = 0
      BY <3>2, TiersAre DEF SumOfTiers
    <3> QED BY <3>1, <3>3
  <2> QED BY <2>1, <2>2
<1>4. ASSUME NEW i \in Tiers PROVE px[i] = 0 \/ SumOfTiers(P[i]) = W
  <2>1. CASE i \in from
    <3>1. \A t \in Tiers : P[i][t] = Q[i][t]
      BY <2>1
    <3>2. SumOfTiers(P[i]) = SumOfTiers(Q[i])
      <4> HIDE DEF P
      <4> QED BY <3>1, TiersAre DEF SumOfTiers
    <3> HIDE DEF P
    <3> QED BY <2>1, <3>2
  <2>2. CASE i \notin from
    BY <2>2 DEF Padded
  <2> QED BY <2>1, <2>2
<1>5. \A t \in Tiers : SumOfTiers([i \in Tiers |-> P[i][t] * px[i]]) <= W * z[t]
  BY <1>3
<1>6. /\ \A t \in Tiers : px[t] \in Nat /\ z[t] \in Nat
      /\ \A i, t \in Tiers : P[i][t] \in Nat
  BY <1>1, <1>3
<1> HIDE DEF P, px, z, column
<1>7. SumOfTiers(px) <= SumOfTiers(z)
  BY <1>4, <1>5, <1>6, SpreadIsAll
<1> QED BY <1>7 DEF px, z

\* Tiers up to n: n + 1 of them.
LEMMA CountOfTiers ==
    ASSUME NEW n \in Tiers, NEW k \in Nat, NEW y, \A t \in 0 .. n : y[t] \in Nat
    PROVE  /\ SumOfTiers(Padded(0 .. n, [t \in 0 .. n |-> y[t] + k]))
                = SumOfTiers(Padded(0 .. n, y)) + k * (n + 1)
           /\ SumOfTiers(Padded(0 .. n, y)) \in Nat
<1>1. \A t \in Tiers : t \in 0 .. n <=> t <= n
  BY TiersAre
<1>2. \A t \in Tiers : Padded(0 .. n, y)[t] = IF t <= n THEN y[t] ELSE 0
  BY <1>1 DEF Padded
<1>3. \A t \in Tiers : Padded(0 .. n, [s \in 0 .. n |-> y[s] + k])[t]
                         = IF t <= n THEN y[t] + k ELSE 0
  BY <1>1 DEF Padded
<1>4. \A t \in Tiers : t <= n => y[t] \in Nat
  BY <1>1
<1> DEFINE p == Padded(0 .. n, y)
           q == Padded(0 .. n, [t \in 0 .. n |-> y[t] + k])
<1>5. \A t \in Tiers : /\ p[t] = IF t <= n THEN y[t] ELSE 0
                       /\ q[t] = IF t <= n THEN y[t] + k ELSE 0
                       /\ p[t] \in Nat
  BY <1>2, <1>3, <1>4
<1> HIDE DEF p, q
<1>6. SumOfTiers(p) \in Nat
  BY <1>5, SumIsNat
<1>7. SumOfTiers(q) = SumOfTiers(p) + k * (n + 1)
  <2>1. n \in {0, 1, 2, 3, 4}
    BY TiersAre
  <2>2. CASE n = 0
    BY <1>5, <2>2, TiersAre DEF SumOfTiers
  <2>3. CASE n = 1
    BY <1>5, <2>3, TiersAre DEF SumOfTiers
  <2>4. CASE n = 2
    BY <1>5, <2>4, TiersAre DEF SumOfTiers
  <2>5. CASE n = 3
    BY <1>5, <2>5, TiersAre DEF SumOfTiers
  <2>6. CASE n = 4
    BY <1>5, <2>6, TiersAre DEF SumOfTiers
  <2> QED BY <2>1, <2>2, <2>3, <2>4, <2>5, <2>6
<1> QED BY <1>6, <1>7 DEF p, q

LEMMA SameOfAll ==
    ASSUME NEW n \in Tiers, NEW k \in Nat
    PROVE  /\ SumOfTiers(Padded(0 .. n, [t \in 0 .. n |-> k])) = k * (n + 1)
           /\ k * (n + 1) \in Nat
<1> DEFINE zero == [t \in 0 .. n |-> 0]
<1>1. SumOfTiers(Padded(0 .. n, [t \in 0 .. n |-> zero[t] + k]))
        = SumOfTiers(Padded(0 .. n, zero)) + k * (n + 1)
  BY CountOfTiers
<1>2. [t \in 0 .. n |-> zero[t] + k] = [t \in 0 .. n |-> k]
  OBVIOUS
<1>3. SumOfTiers(Padded(0 .. n, zero)) = 0
  <2>1. \A t \in Tiers : Padded(0 .. n, zero)[t] = 0
    BY DEF Padded
  <2> HIDE DEF zero
  <2> QED BY <2>1, TiersAre DEF SumOfTiers
<1> HIDE DEF zero
<1>4. n \in Nat
  BY TiersAre
<1> DEFINE all == k * (n + 1)
<1>5. all \in Nat
  BY <1>4
<1>6. SumOfTiers(Padded(0 .. n, [t \in 0 .. n |-> k])) = 0 + all
  BY <1>1, <1>2, <1>3
<1> HIDE DEF all
<1>7. SumOfTiers(Padded(0 .. n, [t \in 0 .. n |-> k])) = all
  BY <1>5, <1>6
<1> QED BY <1>5, <1>7 DEF all

LEMMA LoopTiersAre ==
    ASSUME input \in Inputs
    PROVE  /\ Target \in Tiers /\ Target \in Nat /\ LoopTiers = 0 .. Target
           /\ LoopTiers \in SUBSET Tiers /\ Recycled \in SUBSET Tiers /\ Recycled \subseteq LoopTiers
           /\ OutputPercent \in Nat /\ Unit(Target) \in Nat \ {0}
           /\ Tolerance \in Nat \ {0} /\ Scale \in Nat
BY InputsAre, TiersAre, SolverAssumption DEF LoopTiers, QualityNormal

\* What is crafted for the recyclers of amounts that differ by less than Tolerance.
LEMMA CraftedGrowsLittle ==
    ASSUME input \in Inputs, NEW m, NEW n,
           \A i \in LoopTiers : m[i] \in Nat /\ n[i] \in Nat /\ m[i] <= n[i] /\ n[i] < m[i] + Tolerance
    PROVE  LET before == SumOfTiers(Padded(Recycled, ExactCrafted(m)))
               after == SumOfTiers(Padded(Recycled, ExactCrafted(n)))
           IN  before \in Nat /\ after \in Nat /\ before <= after
               /\ after <= before + Tolerance * (Target + 1)
<1> DEFINE d == [i \in 0 .. Target |-> Tolerance - 1]
           pm == Padded(Recycled, ExactCrafted(m))
           pn == Padded(Recycled, ExactCrafted(n))
           pd == Padded(Recycled, ExactCrafted(d))
           one == Padded(0 .. Target, [t \in 0 .. Target |-> 1])
           W == Unit(Target)
<1>0. /\ Target \in Tiers /\ Target \in Nat /\ LoopTiers = 0 .. Target
      /\ LoopTiers \in SUBSET Tiers /\ Recycled \in SUBSET Tiers /\ Recycled \subseteq LoopTiers
      /\ W \in Nat \ {0} /\ Tolerance \in Nat \ {0} /\ Tolerance - 1 \in Nat
  BY LoopTiersAre
<1>1. \A i \in LoopTiers : d[i] = Tolerance - 1 /\ d[i] \in Nat
  BY <1>0
<1>2. /\ \A r \in Recycled : /\ ExactCrafted(m)[r] \in Nat /\ ExactCrafted(n)[r] \in Nat
                             /\ ExactCrafted(d)[r] \in Nat
  <2> HIDE DEF d
  <2> QED BY <1>0, <1>1, ExactIsNat
<1>3. SumOfTiers(pd) <= (Tolerance - 1) * (Target + 1) /\ (Tolerance - 1) * (Target + 1) \in Nat
  <2>1. SumOfTiers(pd) <= SumOfTiers(Padded(LoopTiers, d))
    <3> HIDE DEF d
    <3> QED BY <1>1, PassPays
  <2>2. /\ SumOfTiers(Padded(LoopTiers, d)) = (Tolerance - 1) * (Target + 1)
        /\ (Tolerance - 1) * (Target + 1) \in Nat
    BY <1>0, SameOfAll
  <2> HIDE DEF d, pd
  <2> QED BY <2>1, <2>2
<1>4. SumOfTiers(one) = Target + 1
  <2>1. SumOfTiers(one) = 1 * (Target + 1)
    BY <1>0, SameOfAll
  <2> HIDE DEF one
  <2> QED BY <1>0, <2>1
<1>5. ASSUME NEW r \in Recycled
      PROVE  /\ ExactCrafted(m)[r] <= ExactCrafted(n)[r]
             /\ ExactCrafted(n)[r] <= ExactCrafted(m)[r] + ExactCrafted(d)[r] + 1
  <2> DEFINE k == CraftShares(r)
             a == MixSum(LoopTiers, k, m)
             b == MixSum(LoopTiers, k, n)
             c == MixSum(LoopTiers, k, d)
             f == [i \in Tiers |-> IF i \in LoopTiers THEN k[i] * m[i] ELSE 0]
             g == [i \in Tiers |-> IF i \in LoopTiers THEN k[i] * n[i] ELSE 0]
             h == [i \in Tiers |-> IF i \in LoopTiers THEN k[i] * d[i] ELSE 0]
  <2>1. \A i \in LoopTiers : k[i] \in Nat
    BY <1>0, SharesAreNat
  <2>2. a \in Nat /\ b \in Nat /\ c \in Nat
    <3> HIDE DEF k, d
    <3> QED BY <1>0, <1>1, <2>1, MixOfNumbers
  <2>3. ASSUME NEW i \in Tiers
        PROVE  f[i] \in Nat /\ g[i] \in Nat /\ h[i] \in Nat /\ g[i] <= f[i] + h[i]
    <3>1. CASE i \in LoopTiers
      <4> DEFINE ki == k[i]
                 mi == m[i]
                 ni == n[i]
                 di == d[i]
      <4>1. /\ ki \in Nat /\ mi \in Nat /\ ni \in Nat /\ di \in Nat /\ ni <= mi + di
            /\ f[i] = ki * mi /\ g[i] = ki * ni /\ h[i] = ki * di
        BY <1>0, <1>1, <2>1, <3>1
      <4> HIDE DEF ki, mi, ni, di, f, g, h
      <4>2. ki * ni <= ki * (mi + di) /\ ki * (mi + di) = ki * mi + ki * di
        BY <4>1, ProductGrows
      <4>3. ki * ni \in Nat /\ ki * mi \in Nat /\ ki * di \in Nat
        BY <4>1
      <4> QED BY <4>1, <4>2, <4>3
    <3>2. CASE i \notin LoopTiers
      <4>1. f[i] = 0 /\ g[i] = 0 /\ h[i] = 0
        BY <3>2
      <4> HIDE DEF f, g, h
      <4> QED BY <4>1
    <3> QED BY <3>1, <3>2
  <2>4. a = SumOfTiers(f) /\ b = SumOfTiers(g) /\ c = SumOfTiers(h)
    BY DEF MixSum
  <2>5. /\ ExactCrafted(m)[r] = a \div W /\ ExactCrafted(n)[r] = b \div W
        /\ ExactCrafted(d)[r] = c \div W
    BY DEF ExactCrafted
  <2>6. a \div W <= b \div W
    <3> HIDE DEF k, W
    <3> QED BY <1>0, <2>1, MixGrows
  <2> HIDE DEF k, a, b, c, f, g, h, d, W
  <2>7. b <= a + c
    BY <2>3, <2>4, TiersAre DEF SumOfTiers
  <2> DEFINE p == a \div W
             q == b \div W
             s == c \div W
  <2>8. /\ p \in Nat /\ q \in Nat /\ s \in Nat
        /\ a < W * p + W /\ W * q <= b /\ c < W * s + W
    BY <1>0, <2>2, Division
  <2> HIDE DEF p, q, s
  <2>9. q <= p + s + 1
    <3> SUFFICES ASSUME p + s + 2 <= q PROVE FALSE
      BY <2>8
    <3>1. W * (p + s + 2) <= W * q /\ W * (p + s + 2) = W * p + W * s + W + W
      BY <1>0, <2>8
    <3> DEFINE Wp == W * p
               Wq == W * q
               Ws == W * s
    <3>2. /\ Wp \in Nat /\ Ws \in Nat /\ Wq \in Nat /\ Wp + Ws + W + W <= Wq
          /\ a < Wp + W /\ Wq <= b /\ c < Ws + W
      BY <1>0, <2>8, <3>1
    <3> HIDE DEF Wp, Wq, Ws
    <3> QED BY <1>0, <2>2, <2>7, <3>2
  <2> QED BY <2>5, <2>6, <2>9 DEF p, q, s
<1>6. ASSUME NEW t \in Tiers
      PROVE  /\ pm[t] \in Nat /\ pn[t] \in Nat /\ pd[t] \in Nat /\ one[t] \in Nat
             /\ pm[t] <= pn[t] /\ pn[t] <= pm[t] + pd[t] + one[t]
  <2>1. one[t] \in Nat /\ (t \in Recycled => one[t] = 1)
    BY <1>0 DEF Padded
  <2>2. CASE t \in Recycled
    <3>1. /\ pm[t] = ExactCrafted(m)[t] /\ pn[t] = ExactCrafted(n)[t]
          /\ pd[t] = ExactCrafted(d)[t]
      BY <2>2 DEF Padded
    <3> HIDE DEF pm, pn, pd, one, d
    <3> QED BY <1>2, <1>5, <2>1, <2>2, <3>1
  <2>3. CASE t \notin Recycled
    <3>1. pm[t] = 0 /\ pn[t] = 0 /\ pd[t] = 0
      BY <2>3 DEF Padded
    <3> HIDE DEF pm, pn, pd, one
    <3> QED BY <2>1, <3>1
  <2> QED BY <2>2, <2>3
<1> HIDE DEF pm, pn, pd, one, d, W
<1>7. /\ SumOfTiers(pm) \in Nat /\ SumOfTiers(pn) \in Nat /\ SumOfTiers(pd) \in Nat
      /\ SumOfTiers(pm) <= SumOfTiers(pn)
  BY <1>6, SumIsNat, SumGrows
<1>8. SumOfTiers(pn) <= SumOfTiers(pm) + SumOfTiers(pd) + SumOfTiers(one)
  BY <1>6, TiersAre DEF SumOfTiers
<1>9. (Tolerance - 1) * (Target + 1) + (Target + 1) = Tolerance * (Target + 1)
  <2> DEFINE T == Target + 1
             tol == Tolerance
  <2>1. T \in Nat /\ tol \in Nat
    BY <1>0
  <2> HIDE DEF T, tol
  <2>2. (tol - 1) * T + T = tol * T
    BY <2>1
  <2> QED BY <2>2 DEF T, tol
<1>10. SumOfTiers(pn) <= SumOfTiers(pm) + Tolerance * (Target + 1)
  <2> DEFINE less == (Tolerance - 1) * (Target + 1)
             all == Tolerance * (Target + 1)
  <2>1. less \in Nat /\ SumOfTiers(pd) <= less /\ less + (Target + 1) = all
    BY <1>3, <1>9
  <2> HIDE DEF less, all
  <2>2. SumOfTiers(pn) <= SumOfTiers(pm) + all
    BY <1>0, <1>4, <1>7, <1>8, <2>1
  <2> QED BY <2>2 DEF all
<1> QED BY <1>7, <1>10 DEF pm, pn

LEMMA ProductOfSum ==
    ASSUME NEW k \in Nat, NEW f, \A t \in Tiers : f[t] \in Nat
    PROVE  k * SumOfTiers(f) = k * f[0] + k * f[1] + k * f[2] + k * f[3] + k * f[4]
<1> DEFINE a == f[0]
           b == f[1]
           c == f[2]
           d == f[3]
           e == f[4]
<1>1. {a, b, c, d, e} \subseteq Nat
  BY TiersAre
<1>2. SumOfTiers(f) = a + b + c + d + e
  BY DEF SumOfTiers
<1> HIDE DEF a, b, c, d, e
<1>3. k * (a + b + c + d + e) = k * a + k * b + k * c + k * d + k * e
  BY <1>1
<1> QED BY <1>2, <1>3 DEF a, b, c, d, e

\* A pass that changed no amount by Tolerance or more made what was recycled of it.
LEMMA SettledLoad ==
    ASSUME input \in Inputs, OutputPercent <= 400, NEW m,
           \A i \in LoopTiers : /\ m[i] \in Nat /\ m[i] <= ExactNext(m)[i]
                                /\ ExactNext(m)[i] < m[i] + Tolerance
    PROVE  LET made == SumOfTiers(ExactNext(m))
               load == SumOfTiers(Padded(Recycled, ExactCrafted(ExactNext(m))))
           IN  /\ 400 * (made - Scale) <= OutputPercent * load
               /\ OutputPercent * load < 400 * (made - Scale + (Tolerance + 2) * (Target + 1))
<1> DEFINE n == ExactNext(m)
           back == Padded(LoopTiers, ExactContribution(m))
           one == Padded(0 .. Target, [t \in 0 .. Target |-> 1])
           made == SumOfTiers(n)
           before == SumOfTiers(Padded(Recycled, ExactCrafted(m)))
           load == SumOfTiers(Padded(Recycled, ExactCrafted(n)))
           returned == SumOfTiers(back)
           O == OutputPercent
           T == Target + 1
           extra == Tolerance * T
<1>0. /\ Target \in Tiers /\ LoopTiers = 0 .. Target
      /\ LoopTiers \in SUBSET Tiers /\ Recycled \in SUBSET Tiers /\ Recycled \subseteq LoopTiers
      /\ Unit(Target) \in Nat \ {0} /\ Tolerance \in Nat \ {0} /\ Scale \in Nat
      /\ O \in Nat /\ O <= 400 /\ T \in Nat \ {0} /\ extra \in Nat
  <2>1. /\ T \in Nat \ {0} /\ Tolerance \in Nat
    BY LoopTiersAre
  <2>2. extra \in Nat
    <3> HIDE DEF T
    <3> QED BY <2>1
  <2> QED BY <2>1, <2>2, LoopTiersAre
<1>1. /\ \A r \in Recycled : ExactCrafted(m)[r] \in Nat
      /\ \A t \in LoopTiers : ExactContribution(m)[t] \in Nat
      /\ n \in [Tiers -> Nat]
  BY ExactIsNat
<1>2. /\ before \in Nat /\ load \in Nat /\ before <= load /\ load <= before + extra
  <2>1. \A i \in LoopTiers : m[i] \in Nat /\ n[i] \in Nat /\ m[i] <= n[i] /\ n[i] < m[i] + Tolerance
    BY <1>0, <1>1
  <2> HIDE DEF n
  <2> QED BY <2>1, CraftedGrowsLittle
<1>3. made \in Nat /\ 400 * made <= 400 * Scale + O * before
  <2>1. made \in Nat
    <3> HIDE DEF n
    <3> QED BY <1>1, SumIsNat
  <2> QED BY <2>1, PassPays
<1>4. returned \in Nat /\ before <= returned + T
  <2> DEFINE Q == [r \in Recycled |-> recyclerProb(r)]
             x == ExactCrafted(m)
             y == ExactContribution(m)
  <2>1. \A r \in Recycled : x[r] \in Nat /\ SumOfTiers(Q[r]) = Unit(Target)
    BY <1>0, <1>1, SharesAre
  <2>2. ASSUME NEW r \in Recycled, NEW t \in Tiers
        PROVE  Q[r][t] \in Nat /\ (t \notin LoopTiers => Q[r][t] = 0)
    <3>1. r \in LoopTiers /\ r \in 0 .. Target
      BY <1>0
    <3>2. qualityChance(input.RecyclerQuality) \in 0 .. Whole
      BY SolverAssumption, ChanceInRange
    <3>3. t \notin LoopTiers => t \notin r .. Target
      BY <1>0, <3>1, TiersAre
    <3> QED BY <1>0, <3>1, <3>2, <3>3, SharesStayInRange DEF recyclerProb
  <2>3. ASSUME NEW t \in LoopTiers
        PROVE  y[t] = MixSum(Recycled, [r \in Recycled |-> Q[r][t]], x) \div Unit(Target)
    <3>1. [r \in Recycled |-> Q[r][t]] = RecycleShares(t)
      BY DEF RecycleShares
    <3> HIDE DEF Q
    <3> QED BY <3>1 DEF ExactContribution
  <2> DEFINE W == Unit(Target)
  <2>4. /\ Recycled \in SUBSET Tiers /\ LoopTiers \in SUBSET Tiers /\ W \in Nat \ {0}
        /\ \A i \in Recycled : x[i] \in Nat /\ SumOfTiers(Q[i]) = W
        /\ \A i \in Recycled, t \in Tiers : Q[i][t] \in Nat /\ (t \notin LoopTiers => Q[i][t] = 0)
        /\ \A t \in LoopTiers : y[t] = MixSum(Recycled, [i \in Recycled |-> Q[i][t]], x) \div W
    BY <1>0, <2>1, <2>2, <2>3
  <2> HIDE DEF Q, x, y, W
  <2>5. SumOfTiers(Padded(Recycled, x)) <= SumOfTiers(OneMore(LoopTiers, y))
    BY <2>4, MixesLoseLittle
  <2>6. /\ SumOfTiers(OneMore(LoopTiers, y)) = SumOfTiers(Padded(LoopTiers, y)) + 1 * T
        /\ SumOfTiers(Padded(LoopTiers, y)) \in Nat
    BY <1>0, <1>1, CountOfTiers DEF OneMore, y
  <2> HIDE DEF T
  <2>7. SumOfTiers(Padded(Recycled, x)) <= SumOfTiers(Padded(LoopTiers, y)) + T
    BY <1>0, <2>5, <2>6
  <2> QED BY <2>6, <2>7 DEF x, y
<1>5. ASSUME NEW t \in Tiers
      PROVE  /\ back[t] \in Nat /\ n[t] \in Nat /\ one[t] \in Nat /\ Source[t] \in Nat
             /\ 400 * Source[t] + O * back[t] <= 400 * n[t] + 399 * one[t]
  <2>1. n[t] \in Nat /\ Source[t] \in Nat
    BY <1>1, SourceIs
  <2>2. CASE t \in LoopTiers
    <3> DEFINE product == OutputPercent * ExactContribution(m)[t]
               quarter == product \div 400
    <3>1. product \in Nat
      BY <1>0, <1>1, <2>2
    <3>2. quarter \in Nat /\ product <= 400 * quarter + 399
      <4> HIDE DEF product
      <4> QED BY <3>1, Division
    <3>3. n[t] = quarter + Source[t]
      BY <2>2 DEF ExactNext, ExactReturned
    <3>4. back[t] = ExactContribution(m)[t] /\ back[t] \in Nat /\ one[t] = 1
      BY <1>0, <1>1, <2>2 DEF Padded
    <3>5. product = O * back[t]
      BY <3>4
    <3> HIDE DEF product, quarter, n, back, one, O
    <3> QED BY <2>1, <3>1, <3>2, <3>3, <3>4, <3>5
  <2>3. CASE t \notin LoopTiers
    <3>1. n[t] = 0 /\ back[t] = 0 /\ one[t] = 0 /\ Source[t] = 0
      BY <1>0, <2>3, InputsAre DEF ExactNext, Padded, Source
    <3> HIDE DEF n, back, one, O
    <3> QED BY <1>0, <3>1
  <2> QED BY <2>2, <2>3
<1>6. SumOfTiers(one) = T
  <2>1. SumOfTiers(one) = 1 * (Target + 1)
    BY <1>0, SameOfAll
  <2> HIDE DEF one
  <2> QED BY <1>0, <2>1
<1> HIDE DEF n, back, one, O, T
<1>7. 400 * Scale + O * returned <= 400 * made + 399 * T
  <2> DEFINE ob(t) == O * back[t]
  <2>1. \A t \in Tiers :
           /\ n[t] \in Nat /\ one[t] \in Nat /\ Source[t] \in Nat /\ ob(t) \in Nat
           /\ 400 * Source[t] + ob(t) <= 400 * n[t] + 399 * one[t]
    BY <1>0, <1>5
  <2>2. O * SumOfTiers(back) = ob(0) + ob(1) + ob(2) + ob(3) + ob(4)
    BY <1>0, <1>5, ProductOfSum
  <2> HIDE DEF ob
  <2>3. 400 * SumOfTiers(Source) + (ob(0) + ob(1) + ob(2) + ob(3) + ob(4))
          <= 400 * SumOfTiers(n) + 399 * SumOfTiers(one)
    BY <2>1, TiersAre DEF SumOfTiers
  <2> QED BY <1>6, <2>2, <2>3, SourceIs
<1> HIDE DEF made, before, load, returned, extra
<1>8. /\ O * before \in Nat /\ O * load \in Nat /\ O * returned \in Nat
      /\ O * before <= O * load
      /\ O * load <= O * before + 400 * extra
      /\ O * before <= O * returned + 400 * T
  <2>1. O * before <= O * load
    BY <1>0, <1>2, ProductGrows
  <2>2. O * load <= O * (before + extra) /\ O * (before + extra) = O * before + O * extra
    BY <1>0, <1>2, ProductGrows
  <2>3. O * before <= O * (returned + T) /\ O * (returned + T) = O * returned + O * T
    BY <1>0, <1>2, <1>4, ProductGrows
  <2>4. O * extra <= 400 * extra /\ O * T <= 400 * T
    BY <1>0
  <2>5. /\ O * before \in Nat /\ O * load \in Nat /\ O * returned \in Nat
        /\ O * extra \in Nat /\ O * T \in Nat
    BY <1>0, <1>2, <1>4
  <2> DEFINE ob == O * before
             ol == O * load
             oe == O * extra
             or == O * returned
             ot == O * T
  <2>6. /\ ob \in Nat /\ ol \in Nat /\ oe \in Nat /\ or \in Nat /\ ot \in Nat
        /\ ob <= ol /\ ol <= ob + oe /\ ob <= or + ot /\ oe <= 400 * extra /\ ot <= 400 * T
    BY <2>1, <2>2, <2>3, <2>4, <2>5
  <2> HIDE DEF ob, ol, oe, or, ot
  <2>7. ol <= ob + 400 * extra /\ ob <= or + 400 * T
    BY <1>0, <2>6
  <2> QED BY <2>6, <2>7 DEF ob, ol, or
<1>9. (Tolerance + 2) * T = extra + 2 * T
  BY <1>0 DEF extra
<1> DEFINE ob == O * before
           ol == O * load
           or == O * returned
           slack == (Tolerance + 2) * T
<1>10. /\ ob \in Nat /\ ol \in Nat /\ or \in Nat
       /\ ob <= ol /\ ol <= ob + 400 * extra /\ ob <= or + 400 * T
       /\ 400 * Scale + or <= 400 * made + 399 * T /\ 400 * made <= 400 * Scale + ob
       /\ slack = extra + 2 * T
  BY <1>3, <1>7, <1>8, <1>9
<1> HIDE DEF ob, ol, or, slack
<1>11. 400 * (made - Scale) <= ol /\ ol < 400 * (made - Scale + slack)
  BY <1>0, <1>3, <1>10
<1> QED BY <1>11 DEF ol, slack, made, load, n, O, T

-----------------------------------------------------------------------------
(* The invariant                                                           *)

\* A call refused at once leaves the amounts of the call before it.
CallInv == answer = "refused" \/ (SolverInv /\ RoomInv)

AnswerInv == Answered => page = Plan /\ ~HasNoShare /\ input.recyclerPerSecond > 0

LoadInv ==
    ((pc = "solved" \/ Answered) /\ iter < loopSolverMaxIterations) => LoadIsSupplied

PlannerInv ==
    /\ TypeOK /\ RequestOK /\ PageOK
    /\ answer \in {"none", "plan", "refused"}
    /\ answer # "none" => pc = "idle"
    /\ CallInv
    /\ AnswerInv
    /\ LoadInv

\* A loop that ends as it begins recycles nothing.
NoLoopIsSettled ==
    (AmountsFit /\ SolverInv /\ RoomInv /\ Target = QualityNormal /\ materials = Source)
        => LoadIsSupplied

LEMMA NoLoopIsSettledSo == NoLoopIsSettled
<1> SUFFICES ASSUME AmountsFit, SolverInv, RoomInv, Target = QualityNormal, materials = Source
             PROVE  LoadIsSupplied
  BY DEF NoLoopIsSettled
<1>1. input \in Inputs /\ TypeOK /\ AllNumbers
  BY DEF SolverInv, TypeOK, RoomInv
<1>2. Total = Held /\ Held = Scale
  BY <1>1, TotalIsHeld, SourceIsInvariant
<1>3. Recycled = {} /\ Target = 0
  BY DEF Recycled, QualityNormal
<1>4. RecycleLoad = 0
  <2>1. \A t \in Tiers : Padded(Recycled, ExactCrafted(materials))[t] = 0
    BY <1>3 DEF Padded
  <2>2. SumOfTiers(Padded(Recycled, ExactCrafted(materials))) = 0
    BY <2>1, TiersAre DEF SumOfTiers
  <2> QED BY <2>2, LoadIsExact
<1>5. /\ Scale \in Nat /\ Tolerance \in Nat \ {0} /\ OutputPercent \in Nat
      /\ OutputPercent * 0 = 0
  BY <1>1, LoopTiersAre
<1> QED BY <1>2, <1>3, <1>4, <1>5 DEF LoadIsSupplied, Slack

LoadFact ==
    (AmountsFit /\ SolverInv /\ RoomInv) =>
        /\ RecycleLoad = SumOfTiers(Padded(Recycled, ExactCrafted(materials)))
        /\ Total = Held

LEMMA LoadFactSo == LoadFact
BY LoadIsExact, TotalIsHeld DEF LoadFact, SolverInv, RoomInv

\* While there is room, the amounts are what they are without a limit.
LEMMA IterateIsExact ==
    ASSUME AmountsFit, SolverInv, RoomInv, Iterate
    PROVE  /\ SolverInv' /\ RoomInv' /\ input' = input /\ materials' = NextMaterials
           /\ materials' = ExactNext(materials)
           /\ \A t \in LoopTiers : /\ materials[t] \in Nat /\ NextMaterials[t] \in Nat
                                   /\ NextMaterials[t] = ExactNext(materials)[t]
<1>1. SolverInv' /\ RoomInv' /\ input' = input /\ materials' = NextMaterials
  BY IterateKeepsInv, IterateKeepsRoom DEF Iterate
<1>2. /\ input \in Inputs
      /\ \A i \in LoopTiers : materials[i] \in Amounts
      /\ \A i \in LoopTiers : materials[i] \in Nat
  BY InputsAre DEF SolverInv, TypeOK, RoomInv, AllNumbers
<1>3. \A t \in LoopTiers : NextMaterials[t] \in Nat
  BY <1>1, SamePass DEF RoomInv, AllNumbers
<1>4. \A t \in LoopTiers : NextMaterials[t] = ExactNext(materials)[t]
  BY <1>2, <1>3, NumbersAre, NumbersAreExact DEF SolverInv, Iterate
<1>5. materials' = ExactNext(materials)
  <2>1. ExactNext(materials) \in [Tiers -> Nat]
    BY <1>2, ExactIsNat
  <2>2. \A t \in Tiers : NextMaterials[t] = ExactNext(materials)[t]
    BY <1>4 DEF NextMaterials, ExactNext
  <2> QED BY <1>1, <2>1, <2>2 DEF NextMaterials, ExactNext
<1> QED BY <1>1, <1>2, <1>3, <1>4, <1>5

LEMMA IterateSettles ==
    ASSUME AmountsFit, SolverInv, RoomInv, Iterate, pc' = "solved"
    PROVE  LoadIsSupplied'
<1>1. SolverInv' /\ RoomInv' /\ input' = input /\ materials' = NextMaterials
  BY IterateIsExact
<1>2. /\ input \in Inputs /\ TypeOK /\ Target # QualityNormal
      /\ \A i \in LoopTiers : materials[i] \in Amounts
      /\ \A i \in LoopTiers : materials[i] \in Nat
      /\ LoopTiers \in SUBSET Tiers
  BY InputsAre DEF SolverInv, TypeOK, RoomInv, AllNumbers, Iterate
<1>3. /\ LoopTiers' = LoopTiers /\ OutputPercent' = OutputPercent /\ Target' = Target
      /\ Recycled' = Recycled /\ ExactCrafted(materials)' = ExactCrafted(materials')
  BY <1>1, SamePass
<1>4. \A t \in LoopTiers : NextMaterials[t] \in Nat
  BY IterateIsExact
<1>5. \A t \in LoopTiers : NextMaterials[t] = ExactNext(materials)[t]
  BY IterateIsExact
<1>6. materials' = ExactNext(materials)
  BY IterateIsExact
<1>7. ASSUME NEW t \in LoopTiers
      PROVE  /\ materials[t] <= ExactNext(materials)[t]
             /\ ExactNext(materials)[t] < materials[t] + Tolerance
  <2>1. materials[t] <= ExactNext(materials)[t]
    BY DEF SolverInv, GrowInv, RoomInv
  <2>2. ~FarFrom(NextMaterials[t], materials[t])
    BY DEF Iterate
  <2>3. IsNumber(NextMaterials[t]) /\ IsNumber(materials[t])
    BY <1>2, <1>4, NumbersAre
  <2>4. NextMaterials[t] - materials[t] \in 1 - Tolerance .. Tolerance - 1
    BY <2>2, <2>3 DEF FarFrom
  <2>5. Tolerance \in Nat \ {0} /\ materials[t] \in Nat /\ NextMaterials[t] \in Nat
    BY <1>2, <1>4, LoopTiersAre
  <2> QED BY <1>5, <2>1, <2>4, <2>5
<1>8. OutputPercent <= 400
  <2> DEFINE productivity == input.Productivity
  <2>1. productivity \in Int /\ productivity <= 300
    BY <1>2, SolverAssumption DEF AmountsFit
  <2>2. OutputPercent = IF productivity < -100 THEN 0 ELSE 100 + productivity
    BY DEF OutputPercent
  <2> HIDE DEF productivity
  <2> QED BY <2>1, <2>2
<1> DEFINE made == SumOfTiers(ExactNext(materials))
           load == SumOfTiers(Padded(Recycled, ExactCrafted(ExactNext(materials))))
<1>9. /\ 400 * (made - Scale) <= OutputPercent * load
      /\ OutputPercent * load < 400 * (made - Scale + (Tolerance + 2) * (Target + 1))
  BY <1>2, <1>7, <1>8, SettledLoad
<1>10. RecycleLoad' = load /\ Total' = made
  <2>1. LoadFact'
    BY LoadFactSo, PTL
  <2>2. RecycleLoad' = SumOfTiers(Padded(Recycled', ExactCrafted(materials)')) /\ Total' = Held'
    BY <1>1, <2>1 DEF LoadFact
  <2>3. Padded(LoopTiers, materials)' = ExactNext(materials)
    BY <1>3, <1>6 DEF Padded, ExactNext
  <2>4. Held' = made
    BY <2>3 DEF Held
  <2> QED BY <1>3, <1>6, <2>2, <2>4
<1> HIDE DEF made, load
<1> QED BY <1>3, <1>9, <1>10 DEF LoadIsSupplied, Slack

LEMMA PlannerInvIsInitial ==
    ASSUME PlannerInit
    PROVE  PlannerInv
<1>1. SolverInv /\ RoomInv
  BY InvIsInitial, RoomIsInitial DEF PlannerInit
<1>2. RequestOK
  BY CountsAssumption DEF PlannerInit, RequestOK, Boxes
<1> QED BY <1>1, <1>2
        DEF PlannerInit, PlannerInv, SolverInv, PageOK, Init, CallInv, AnswerInv, LoadInv, Answered

LEMMA SubmitMakesInv ==
    ASSUME AmountsFit, PlannerInv,
           NEW i \in Inputs, NEW box \in Boxes, NEW n \in Int, Submit(i, box, n)
    PROVE  PlannerInv'
<1>1. SolverInv' /\ RoomInv'
  BY CallMakesInv, CallMakesRoom DEF Submit
<1>2. clampInt(n, 0, maxMachineCount) \in 0 .. maxMachineCount
  BY CountsAssumption DEF clampInt
<1>3. RequestOK'
  BY <1>2 DEF Submit, RequestOK
<1>4. PageOK' /\ answer' = "none"
  BY DEF Submit, PlannerInv, PageOK
<1>5. pc' = "solved" => LoadIsSupplied'
  <2>1. NoLoopIsSettled'
    BY NoLoopIsSettledSo, PTL
  <2>2. materials' = Source' /\ (pc' = "solved" => Target' = QualityNormal)
    BY DEF Submit, Call, Source, Target
  <2> QED BY <1>1, <2>1, <2>2 DEF NoLoopIsSettled
<1> QED BY <1>1, <1>3, <1>4, <1>5
        DEF PlannerInv, SolverInv, CallInv, AnswerInv, LoadInv, Answered

LEMMA CallKeepsInv ==
    ASSUME AmountsFit, PlannerInv, Iterate \/ GiveUp, UNCHANGED <<request, page, answer>>
    PROVE  PlannerInv'
<1>1. answer = "none" /\ SolverInv /\ RoomInv
  BY DEF PlannerInv, CallInv, Iterate, GiveUp
<1>2. SolverInv' /\ RoomInv'
  BY <1>1, InvIsKept, RoomIsKept DEF Next
<1>3. RequestOK' /\ PageOK'
  BY DEF PlannerInv, RequestOK, PageOK
<1>4. LoadInv'
  <2>1. CASE Iterate
    BY <1>1, <2>1, IterateSettles DEF LoadInv, Answered
  <2>2. CASE GiveUp
    <3>1. iter' = loopSolverMaxIterations /\ loopSolverMaxIterations \in Nat
      BY <2>2, SolverAssumption DEF GiveUp
    <3> QED BY <3>1 DEF LoadInv
  <2> QED BY <2>1, <2>2
<1> QED BY <1>1, <1>2, <1>3, <1>4 DEF PlannerInv, SolverInv, CallInv, AnswerInv, LoadInv, Answered

LEMMA AnswerKeepsInv ==
    ASSUME AmountsFit, PlannerInv, Answer
    PROVE  PlannerInv'
<1>1. pc = "solved" /\ ~HasNoShare /\ input.recyclerPerSecond > 0
  BY DEF Answer, Return
<1>2. SolverInv /\ RoomInv /\ RequestOK /\ Finished
  BY <1>1 DEF PlannerInv, CallInv, Finished
<1>3. SolverInv' /\ RoomInv'
  BY <1>2, InvIsKept, RoomIsKept DEF Answer, Next
<1>4. /\ page' = Plan /\ Plan' = Plan /\ HasNoShare' = HasNoShare
      /\ LoadIsSupplied' = LoadIsSupplied /\ iter' = iter
  BY SamePlan DEF Answer, Return
<1>5. PageOK'
  <2>1. Plan.machines \in [Tiers -> Int]
    <3> DEFINE X == TotalMachines
               m == MaterialsByTier
    <3>1. Plan.machines = BoxCounts(X, Target, m)
      BY <1>2, FinishedPlan
    <3>2. /\ IsFloat(X) /\ Target \in Tiers /\ SumOfTiers(m) \in Nat \ {0}
          /\ \A t \in Tiers : m[t] \in Nat /\ (t > Target => m[t] = 0)
      BY <1>2, FinishedAmounts, FinishedTotal
    <3> HIDE DEF X, m
    <3>3. \A t \in Tiers : BoxCounts(X, Target, m)[t] \in Nat
      BY <3>2, BoxesAdd
    <3> QED BY <3>1, <3>3 DEF BoxCounts
  <2>2. Plan.total \in Int /\ Plan.recyclers \in Int /\ Plan.for \in Inputs
    BY <1>1, <1>2, FinishedPlan, FinishedAmounts, RecyclersAreCounted
  <2> QED BY <1>4, <2>1, <2>2 DEF PageOK
<1>6. RequestOK' /\ answer' = "plan" /\ pc' = "idle" /\ input' = input
  BY DEF PlannerInv, Answer, Return, RequestOK
<1>7. LoadInv'
  BY <1>1, <1>4 DEF PlannerInv, LoadInv
<1> QED BY <1>1, <1>3, <1>4, <1>5, <1>6, <1>7 DEF PlannerInv, SolverInv, CallInv, AnswerInv

LEMMA PlannerInvIsKept ==
    ASSUME AmountsFit, PlannerInv, [PlannerNext]_vars
    PROVE  PlannerInv'
<1>1. CASE SubmitTyped
  BY <1>1, SubmitMakesInv, CountsAssumption DEF SubmitTyped
<1>2. CASE SubmitShown
  <2>1. page.total \in Int /\ \A t \in Tiers : page.machines[t] \in Int
    BY <1>2 DEF SubmitShown, PlannerInv, PageOK
  <2>2. TotalBox \in Boxes /\ Tiers \subseteq Boxes
    BY DEF Boxes
  <2> QED BY <1>2, <2>1, <2>2, SubmitMakesInv DEF SubmitShown
<1>3. ASSUME NEW i \in Inputs, RefuseAtOnce(i) PROVE PlannerInv'
  BY <1>3 DEF RefuseAtOnce, PlannerInv, TypeOK, RequestOK, PageOK, CallInv, AnswerInv, LoadInv, Answered
<1>4. CASE Solve \/ SolveNoMore
  BY <1>4, CallKeepsInv DEF Solve, SolveNoMore
<1>5. CASE Answer
  BY <1>5, AnswerKeepsInv
<1>6. CASE Refuse
  <2>1. pc' = "idle" /\ UNCHANGED <<input, iter, materials, request, page>> /\ answer' = "refused"
    BY <1>6 DEF Refuse, Return
  <2> QED BY <2>1 DEF PlannerInv, TypeOK, RequestOK, PageOK, CallInv, AnswerInv, LoadInv, Answered
<1>7. CASE UNCHANGED vars
  <2>1. UNCHANGED <<pc, input, iter, materials, request, page, answer>>
    BY <1>7 DEF vars, solverVars
  <2>2. CASE answer = "refused"
    BY <2>1, <2>2 DEF PlannerInv, TypeOK, RequestOK, PageOK, CallInv, AnswerInv, LoadInv, Answered
  <2>3. CASE answer # "refused"
    <3>1. SolverInv' /\ RoomInv'
      BY <2>1, <2>3, InvIsKept, RoomIsKept DEF PlannerInv, CallInv, solverVars
    <3>2. Plan' = Plan /\ HasNoShare' = HasNoShare /\ LoadIsSupplied' = LoadIsSupplied
      BY <2>1, SamePlan
    <3> QED BY <2>1, <3>1, <3>2
            DEF PlannerInv, SolverInv, RequestOK, PageOK, CallInv, AnswerInv, LoadInv, Answered
  <2> QED BY <2>2, <2>3
<1> QED BY <1>1, <1>2, <1>3, <1>4, <1>5, <1>6, <1>7 DEF PlannerNext

LEMMA AnswerIsFinished ==
    ASSUME PlannerInv, Answered
    PROVE  Finished /\ page = Plan /\ input.recyclerPerSecond > 0
BY DEF PlannerInv, CallInv, AnswerInv, LoadInv, Answered, Finished

-----------------------------------------------------------------------------
(* The theorems                                                            *)

\* Whatever is asked, the counts of a plan are numbers that the page can show and
\* submit again (cmd/web/main.go:418-521, internal/planner.go:94-160): no share is
\* divided by that is zero, and no amount leaves the numbers.
THEOREM PlannerTypeCorrect ==
    ASSUME AmountsFit
    PROVE  PlannerSpec => []PlannerTypeOK
<1>1. PlannerInit => PlannerInv
  BY PlannerInvIsInitial
<1>2. PlannerInv /\ [PlannerNext]_vars => PlannerInv'
  BY PlannerInvIsKept
<1>3. PlannerInv => PlannerTypeOK
  BY DEF PlannerInv, RequestOK, PageOK, PlannerTypeOK
<1> QED BY <1>1, <1>2, <1>3, PTL DEF PlannerSpec

\* The tier a request is for gets what was asked of it or one machine more
\* (internal/planner.go:118-160): the anchor is divided by its share and the total
\* multiplied by it, which rounding can move by less than one machine.
THEOREM AnchorComesBack ==
    ASSUME AmountsFit
    PROVE  PlannerSpec => []AnchorWithinOne
<1>1. PlannerInit => PlannerInv
  BY PlannerInvIsInitial
<1>2. PlannerInv /\ [PlannerNext]_vars => PlannerInv'
  BY PlannerInvIsKept
<1>3. ASSUME PlannerInv, Answered, request.box \in Tiers
      PROVE  page.machines[request.box] - request.count \in {0, 1}
  <2> DEFINE N == request.count
             s == Share(request.box)
             c == page.machines[request.box]
  <2>1. Finished /\ page = Plan /\ RequestOK
    BY <1>3, AnswerIsFinished DEF PlannerInv
  <2>2. N \in Nat /\ 3 * N <= PowerOfTwo[Precision] /\ request.box # TotalBox
    BY <1>3, <2>1, BoxIsTier
  <2>3. /\ request.box \in LoopTiers /\ IsFloat(s) /\ s.man # 0
        /\ TotalMachines = FloatDiv(Float(N, 0), s)
    BY <2>1, <2>2, FinishedTotal
  <2>4. c = FloatCeil(FloatMul(FloatDiv(Float(N, 0), s), s))
    BY <2>1, <2>3, FinishedPlan
  <2> HIDE DEF N, s, c
  <2>5. c \in {N, N + 1}
    BY <2>2, <2>3, <2>4, CountComesBack
  <2> QED BY <2>2, <2>5 DEF N, c
<1>4. PlannerInv => AnchorWithinOne
  BY <1>3 DEF AnchorWithinOne
<1> QED BY <1>1, <1>2, <1>4, PTL DEF PlannerSpec

\* The boxes add up to the total but for what rounding adds or takes
\* (internal/planner.go:94-160).
THEOREM BoxesAddUp ==
    ASSUME AmountsFit
    PROVE  PlannerSpec => []BoxesCoverTotal
<1>1. PlannerInit => PlannerInv
  BY PlannerInvIsInitial
<1>2. PlannerInv /\ [PlannerNext]_vars => PlannerInv'
  BY PlannerInvIsKept
<1>3. ASSUME PlannerInv, Answered, 3 * page.total <= PowerOfTwo[Precision]
      PROVE  SumOfMachines - page.total \in
                 (IF request.box = TotalBox THEN 0 ELSE -1) .. Target + 1
  <2> DEFINE X == TotalMachines
             m == MaterialsByTier
             n == Target
             R == PowerOfTwo[Precision]
             x == Numerator(X)
             w == Denominator(X)
             C == SumOfMachines
             N == page.total
  <2>1. Finished /\ page = Plan /\ RequestOK
    BY <1>3, AnswerIsFinished DEF PlannerInv
  <2>2. /\ IsFloat(X) /\ n \in Tiers /\ SumOfTiers(m) \in Nat \ {0}
        /\ \A t \in Tiers : m[t] \in Nat /\ (t > n => m[t] = 0)
    BY <2>1, FinishedAmounts, FinishedTotal
  <2>3. x \in Nat /\ w \in Nat \ {0} /\ n \in Nat /\ R \in Nat /\ R >= 4
    BY <2>2, FractionIs, PrecisionIs, TiersAre
  <2>4. N = CeilDiv(x, w) /\ 3 * N <= R /\ N \in Nat
    BY <1>3, <2>1, FinishedPlan DEF FloatCeil
  <2>5. C = SumOfTiers(BoxCounts(X, n, m))
    BY <2>1, FinishedPlan DEF SumOfMachines
  <2>6. request.box = TotalBox => w = 1
    BY <2>1, FinishedTotal, WholeFloat, BoxIsTier
  <2> HIDE DEF X, m, n, C, N
  <2>7. /\ C \in Nat
        /\ ((R - 1) * (R - 1)) * x <= (R * R) * (C * w)
        /\ (R * R) * ((C - (n + 1)) * w) < ((R + 1) * (R + 1)) * x
    BY <2>2, <2>5, BoxesAdd
  <2> HIDE DEF R, x, w
  <2>8. C - N \in -1 .. n + 1 /\ (w = 1 => C - N \in 0 .. n + 1)
    BY <2>3, <2>4, <2>7, BoxesAreAbout
  <2>9. C - N \in (IF request.box = TotalBox THEN 0 ELSE -1) .. n + 1
    BY <2>6, <2>8
  <2> QED BY <2>9 DEF C, N, n
<1>4. PlannerInv => BoxesCoverTotal
  BY <1>3 DEF BoxesCoverTotal
<1> QED BY <1>1, <1>2, <1>4, PTL DEF PlannerSpec

\* A number of recyclers for a load of cc units of x, where x is between a and b.
LEMMA RecyclersFor ==
    ASSUME NEW cc \in Nat, NEW x \in Nat, NEW per \in Nat \ {0}, NEW rps \in Nat \ {0},
           NEW a \in Int, NEW b \in Int, 400 * a <= x, x <= 400 * b
    PROVE  LET k == CeilDiv(cc * x, per * 100 * rps)
           IN  /\ k * rps * per >= 4 * a * cc
               /\ (k - 1) * rps * per < 4 * b * cc
<1> DEFINE U == per * rps
           V == per * 100 * rps
           load == cc * x
           k == CeilDiv(load, V)
<1>1. U \in Nat \ {0} /\ V = 100 * U /\ load \in Nat
  OBVIOUS
<1> HIDE DEF U
<1>2. V \in Nat \ {0}
  BY <1>1
<1> HIDE DEF V, load
<1>3. k \in Nat /\ load <= k * V /\ k * V < load + V
  BY <1>1, <1>2, CeilDivIs
<1> HIDE DEF k
<1> DEFINE kU == k * U
<1>4. kU \in Nat /\ k * V = 100 * kU
  BY <1>1, <1>3
<1>5. k * rps * per = kU /\ (k - 1) * rps * per = kU - U
  <2>1. k * rps * per = k * (per * rps)
    BY <1>3
  <2>2. (k - 1) * rps * per = k * (per * rps) - per * rps
    BY <1>3
  <2> QED BY <2>1, <2>2 DEF U
<1> HIDE DEF kU
<1> DEFINE ca == a * cc
           cb == b * cc
<1>6. ca \in Int /\ cb \in Int /\ 4 * a * cc = 4 * ca /\ 4 * b * cc = 4 * cb
  OBVIOUS
<1>7. 400 * ca <= load /\ load <= 400 * cb
  <2>1. (400 * a) * cc <= x * cc /\ x * cc <= (400 * b) * cc
    <3> DEFINE p == 400 * a
               q == 400 * b
    <3>1. p \in Int /\ q \in Int /\ p <= x /\ x <= q
      OBVIOUS
    <3> HIDE DEF p, q
    <3>2. p * cc <= x * cc /\ x * cc <= q * cc
      BY <3>1
    <3> QED BY <3>2 DEF p, q
  <2>2. (400 * a) * cc = 400 * (a * cc) /\ (400 * b) * cc = 400 * (b * cc) /\ x * cc = cc * x
    OBVIOUS
  <2> QED BY <2>1, <2>2 DEF load
<1> HIDE DEF ca, cb
<1>8. kU >= 4 * ca /\ kU - U < 4 * cb
  BY <1>1, <1>3, <1>4, <1>6, <1>7
<1> QED BY <1>5, <1>6, <1>8 DEF k, V, load

\* The recyclers of a plan, whose load is derived from what the machines of each tier
\* make, are those that the loop's amounts stand for (internal/planner.go:125-160 and
\* 214-249): never too few and, once the loop has settled, too many only for what its
\* last pass added and rounding took.
THEOREM RecyclersAreEnough ==
    ASSUME AmountsFit
    PROVE  PlannerSpec => []RecyclersMatchLoop
<1>1. PlannerInit => PlannerInv
  BY PlannerInvIsInitial
<1>2. PlannerInv /\ [PlannerNext]_vars => PlannerInv'
  BY PlannerInvIsKept
<1>3. ASSUME PlannerInv, Answered, iter < loopSolverMaxIterations,
             NEW per, per = IF request.box = TotalBox THEN Total ELSE materials[request.box]
      PROVE  /\ page.recyclers * input.recyclerPerSecond * per
                  >= 4 * (Total - Scale) * request.count * input.craftRate
             /\ (page.recyclers - 1) * input.recyclerPerSecond * per
                  < 4 * (Total - Scale + Slack) * request.count * input.craftRate
  <2> DEFINE rps == input.recyclerPerSecond
             craft == input.craftRate
             count == request.count
             L == RecycleLoad
             O == OutputPercent
             k == page.recyclers
             a == Total - Scale
             b == Total - Scale + Slack
             cc == count * craft
             x == O * L
  <2>1. Finished /\ page = Plan /\ rps > 0
    BY <1>3, AnswerIsFinished
  <2>2. input \in Inputs /\ RequestOK /\ SolverInv /\ RoomInv
    BY <2>1, FinishedAmounts DEF Finished
  <2>3. /\ per \in Nat \ {0} /\ Total \in Nat
    BY <1>3, <2>1, FinishedAmounts, FinishedTotal
  <2>4. /\ rps \in Nat \ {0} /\ craft \in Nat /\ count \in Nat /\ L \in Nat /\ O \in Nat
        /\ Scale \in Nat /\ Tolerance \in Nat /\ Target \in Nat
    BY <2>1, <2>2, CountsAssumption, LoadIsExact, LoopTiersAre, BoxIsTier
  <2>5. a \in Int /\ b \in Int
    <3>1. (Tolerance + 2) * (Target + 1) \in Int
      BY <2>4
    <3> QED BY <2>3, <2>4, <3>1 DEF Slack
  <2>6. 400 * a <= O * L /\ O * L < 400 * b
    BY <1>3 DEF PlannerInv, LoadInv, LoadIsSupplied
  <2>7. k = CeilDiv(count * L * O * craft, per * 100 * rps)
    BY <1>3, <2>1, FinishedPlan DEF RequiredRecyclers
  <2> HIDE DEF rps, craft, count, L, O, k, a, b
  <2>8. cc \in Nat /\ x \in Nat /\ count * L * O * craft = cc * x
    BY <2>4
  <2>9. /\ 4 * a * cc = 4 * a * count * craft
        /\ 4 * b * cc = 4 * b * count * craft
    BY <2>4, <2>5
  <2>10. 400 * a <= x /\ x <= 400 * b
    <3> HIDE DEF x
    <3>1. 400 * a <= x /\ x < 400 * b
      BY <2>6 DEF x
    <3> QED BY <2>5, <2>8, <3>1
  <2> HIDE DEF cc, x
  <2>11. LET q == CeilDiv(cc * x, per * 100 * rps)
         IN  /\ q * rps * per >= 4 * a * cc
             /\ (q - 1) * rps * per < 4 * b * cc
    <3>1. cc \in Nat /\ x \in Nat /\ per \in Nat \ {0} /\ rps \in Nat \ {0} /\ a \in Int /\ b \in Int
      BY <2>3, <2>4, <2>5, <2>8
    <3> QED BY <2>10, <3>1, RecyclersFor, Zenon
  <2>12. k = CeilDiv(cc * x, per * 100 * rps)
    BY <2>7, <2>8
  <2>13. /\ k * rps * per >= 4 * a * cc
         /\ (k - 1) * rps * per < 4 * b * cc
    BY <2>11, <2>12, Zenon
  <2> QED BY <2>9, <2>13 DEF rps, craft, count, k, a, b
<1>4. PlannerInv => RecyclersMatchLoop
  BY <1>3 DEF RecyclersMatchLoop
<1> QED BY <1>1, <1>2, <1>4, PTL DEF PlannerSpec

-----------------------------------------------------------------------------
(* A plan that is asked for again                                          *)

\* The count c1 of a tier with m of T, in a plan that was asked for by the count n of
\* a tier with b of T, as a plan with c0 of the first showed it.
LEMMA ResubmittedCount ==
    ASSUME NEW R \in Nat, R >= 4, NEW T \in Nat \ {0}, NEW b \in Nat \ {0}, NEW m \in Nat,
           NEW x0 \in Nat, NEW w0 \in Nat \ {0}, NEW x1 \in Nat, NEW w1 \in Nat \ {0},
           NEW n \in Nat, NEW c0 \in Nat, NEW c1 \in Nat,
           ((R - 1) * (R - 1)) * (x0 * b) <= (R * R) * (n * (w0 * T)),
           ((R - 1) * (n * T)) * w1 <= ((R + 1) * b) * x1,
           ((R - 1) * (R - 1)) * (x1 * m) <= (R * R) * (c1 * (w1 * T)),
           (R * R) * ((c0 - 1) * (w0 * T)) < ((R + 1) * (R + 1)) * (x0 * m),
           8 * c0 <= R
    PROVE  c1 >= c0 - 1
<1> DEFINE S == R * R
           L == (R - 1) * (R - 1)
           G == (R + 1) * (R + 1)
           P == R - 1
           Q == R + 1
           k == c0 - 1
<1>1. /\ S \in Nat \ {0} /\ L \in Nat \ {0} /\ G \in Nat \ {0} /\ P \in Nat \ {0}
      /\ Q \in Nat \ {0} /\ k \in Int
  <2>1. P \in Nat \ {0} /\ Q \in Nat \ {0} /\ k \in Int
    OBVIOUS
  <2>2. R * R \in Nat \ {0}
    OBVIOUS
  <2>3. P * P \in Nat \ {0} /\ Q * Q \in Nat \ {0}
    <3> HIDE DEF P, Q
    <3> QED BY <2>1
  <2> QED BY <2>1, <2>2, <2>3
<1>2. SUFFICES ASSUME c1 <= k - 1 PROVE FALSE
  OBVIOUS
<1>3. 8 * k <= R - 8
  OBVIOUS
<1> DEFINE wT == w0 * T
           vT == w1 * T
<1>4. wT \in Nat \ {0} /\ vT \in Nat \ {0}
  OBVIOUS
<1>5. /\ L * (x0 * b) <= S * (n * wT)
      /\ (P * (n * T)) * w1 <= (Q * b) * x1
      /\ L * (x1 * m) <= S * (c1 * vT)
      /\ S * (k * wT) < G * (x0 * m)
  OBVIOUS
<1>6. (P * n) * vT <= (Q * b) * x1
  <2>1. (P * (n * T)) * w1 = (P * n) * (w1 * T)
    BY <1>1
  <2> QED BY <1>5, <2>1
<1> HIDE DEF S, L, G, P, Q, k, wT, vT
\* The new total covers the old one.
<1>7. (k * L) * b < (G * m) * n
  <2> DEFINE f == L * b
             g == G * m
             p == S * (k * wT)
             q == G * (x0 * m)
             u == L * (x0 * b)
             v == S * (n * wT)
  <2>1. f \in Nat \ {0} /\ g \in Nat /\ p \in Int /\ q \in Nat /\ u \in Nat /\ v \in Nat
    <3>1. k * wT \in Int /\ x0 * m \in Nat /\ x0 * b \in Nat /\ n * wT \in Nat
      BY <1>1, <1>4
    <3> QED BY <1>1, <3>1
  <2>2. f * p < f * q
    <3>1. p < q
      BY <1>5
    <3> HIDE DEF f, p, q
    <3> QED BY <2>1, <3>1
  <2>3. g * u <= g * v
    <3>1. u <= v
      BY <1>5
    <3> HIDE DEF g, u, v
    <3> QED BY <2>1, <3>1
  <2>4. f * q = g * u
    BY <1>1
  <2>5. f * p = (S * wT) * ((k * L) * b) /\ g * v = (S * wT) * ((G * m) * n)
    BY <1>1, <1>4
  <2>6. (S * wT) * ((k * L) * b) < (S * wT) * ((G * m) * n)
    <3>1. f * p \in Int /\ f * q \in Int /\ g * u \in Int /\ g * v \in Int
      BY <2>1
    <3>2. f * p < g * v
      BY <2>2, <2>3, <2>4, <3>1
    <3> QED BY <2>5, <3>2
  <2>7. S * wT \in Nat \ {0}
    BY <1>1, <1>4
  <2>8. (k * L) * b \in Int /\ (G * m) * n \in Int
    <3>1. k * L \in Int /\ G * m \in Int
      BY <1>1
    <3> QED BY <3>1
  <2> QED BY <2>6, <2>7, <2>8, CancelStrict
<1>8. ((P * n) * m) * L <= ((Q * b) * S) * c1
  <2> DEFINE f == m * L
             p == (P * n) * vT
             q == (Q * b) * x1
             g == Q * b
             u == L * (x1 * m)
             v == S * (c1 * vT)
  <2>1. f \in Nat /\ g \in Nat /\ p \in Nat /\ q \in Nat /\ u \in Nat /\ v \in Nat
    <3>1. P * n \in Nat /\ Q * b \in Nat /\ x1 * m \in Nat /\ c1 * vT \in Nat
      BY <1>1, <1>4
    <3> QED BY <1>1, <1>4, <3>1
  <2>2. f * p <= f * q
    <3>1. p <= q
      BY <1>6
    <3> HIDE DEF f, p, q
    <3> QED BY <2>1, <3>1
  <2>3. g * u <= g * v
    <3>1. u <= v
      BY <1>5
    <3> HIDE DEF g, u, v
    <3> QED BY <2>1, <3>1
  <2>4. f * q = g * u
    BY <1>1
  <2>5. f * p = vT * (((P * n) * m) * L) /\ g * v = vT * (((Q * b) * S) * c1)
    BY <1>1, <1>4
  <2>6. vT * (((P * n) * m) * L) <= vT * (((Q * b) * S) * c1)
    <3>1. f * p \in Int /\ f * q \in Int /\ g * u \in Int /\ g * v \in Int
      BY <2>1
    <3>2. f * p <= g * v
      BY <2>2, <2>3, <2>4, <3>1
    <3> QED BY <2>5, <3>2
  <2>7. ((P * n) * m) * L \in Int /\ ((Q * b) * S) * c1 \in Int
    <3>1. P * n \in Nat /\ Q * b \in Nat
      BY <1>1
    <3>2. (P * n) * m \in Nat /\ (Q * b) * S \in Nat
      BY <1>1, <3>1
    <3> QED BY <1>1, <3>2
  <2> QED BY <1>4, <2>6, <2>7, Cancel
<1>9. (k * L) * (P * L) < (G * Q) * (S * c1)
  <2> DEFINE f == P * L
             p == (k * L) * b
             q == (G * m) * n
             u == ((P * n) * m) * L
             v == ((Q * b) * S) * c1
  <2>1. f \in Nat \ {0} /\ p \in Int /\ q \in Nat /\ u \in Nat /\ v \in Nat
    <3>1. k * L \in Int /\ G * m \in Nat /\ P * n \in Nat /\ Q * b \in Nat
      BY <1>1
    <3>2. (P * n) * m \in Nat /\ (Q * b) * S \in Nat
      BY <1>1, <3>1
    <3> QED BY <1>1, <3>1, <3>2
  <2>2. f * p < f * q
    <3>1. p < q
      BY <1>7
    <3> HIDE DEF f, p, q
    <3> QED BY <2>1, <3>1
  <2>3. G * u <= G * v
    <3>1. u <= v
      BY <1>8
    <3> HIDE DEF u, v
    <3> QED BY <1>1, <2>1, <3>1
  <2>4. f * q = G * u
    BY <1>1
  <2>5. f * p = b * ((k * L) * (P * L)) /\ G * v = b * ((G * Q) * (S * c1))
    BY <1>1
  <2>6. b * ((k * L) * (P * L)) < b * ((G * Q) * (S * c1))
    <3>1. f * p \in Int /\ f * q \in Int /\ G * u \in Int /\ G * v \in Int
      BY <1>1, <2>1
    <3>2. f * p < G * v
      BY <2>2, <2>3, <2>4, <3>1
    <3> QED BY <2>5, <3>2
  <2>7. (k * L) * (P * L) \in Int /\ (G * Q) * (S * c1) \in Int
    <3>1. k * L \in Int /\ P * L \in Int /\ G * Q \in Int /\ S * c1 \in Int
      BY <1>1
    <3> QED BY <3>1
  <2> QED BY <2>6, <2>7, CancelStrict
\* (R - 1)^5 is no less than (R + 1)^3 * R^2 but for eight parts in R.
<1> DEFINE A == (G * Q) * S
           B == (P * L) * L
           F == S * S
<1>10. /\ A \in Nat \ {0} /\ B \in Nat /\ F \in Nat \ {0}
       /\ B + 8 * F >= A /\ A >= F * R
  <2>1. G * Q \in Nat \ {0} /\ P * L \in Nat \ {0}
    BY <1>1
  <2>2. A \in Nat \ {0} /\ B \in Nat /\ F \in Nat \ {0}
    BY <1>1, <2>1
  <2> DEFINE R2 == R * R
             R3 == R2 * R
             R4 == R3 * R
             R5 == R4 * R
  <2>3. /\ R2 \in Nat /\ R3 \in Nat /\ R4 \in Nat /\ R5 \in Nat
    <3>1. R2 \in Nat
      OBVIOUS
    <3>2. R3 \in Nat
      <4> HIDE DEF R2
      <4> QED BY <3>1
    <3>3. R4 \in Nat
      <4> HIDE DEF R3
      <4> QED BY <3>2
    <3>4. R5 \in Nat
      <4> HIDE DEF R4
      <4> QED BY <3>3
    <3> QED BY <3>1, <3>2, <3>3, <3>4
  <2>4. R3 >= 4 * R2 /\ R2 >= 4 * R
    <3>1. R2 >= 4 * R
      OBVIOUS
    <3>2. R3 >= 4 * R2
      <4> HIDE DEF R2
      <4> QED BY <2>3
    <3> QED BY <3>1, <3>2
  <2>5. A = R5 + 3 * R4 + 3 * R3 + R2
    BY DEF G, Q, S
  <2>6. B = R5 - 5 * R4 + 10 * R3 - 10 * R2 + 5 * R - 1
    BY DEF P, L
  <2>7. F = R4 /\ F * R = R5
    BY DEF S
  <2> HIDE DEF A, B, F, R2, R3, R4, R5
  <2>8. B + 8 * F >= A /\ A >= F * R
    BY <2>3, <2>4, <2>5, <2>6, <2>7
  <2> QED BY <2>2, <2>8 DEF A, B, F
<1>11. k * B < A * c1
  <2>1. (k * L) * (P * L) = k * B /\ (G * Q) * (S * c1) = A * c1
    BY <1>1
  <2> QED BY <1>9, <2>1
<1> HIDE DEF A, B, F
<1>12. k >= 1
  BY <1>1, <1>2
<1>13. k * A - k * (8 * F) <= k * B /\ A * c1 <= A * k - A
  <2>1. k * (A - 8 * F) <= k * B
    <3> DEFINE d == A - 8 * F
    <3>1. d \in Int /\ d <= B
      BY <1>10
    <3> HIDE DEF d
    <3>2. k * d <= k * B
      BY <1>1, <1>10, <1>12, <3>1
    <3> QED BY <3>2 DEF d
  <2>2. k * (A - 8 * F) = k * A - k * (8 * F)
    BY <1>1, <1>10
  <2>3. A * c1 <= A * (k - 1) /\ A * (k - 1) = A * k - A
    BY <1>1, <1>2, <1>10
  <2> QED BY <2>1, <2>2, <2>3
<1>14. A < F * R
  <2> DEFINE kA == k * A
             kF == k * (8 * F)
             kB == k * B
             Ac == A * c1
  <2>1. kA \in Int /\ kF \in Int /\ kB \in Int /\ Ac \in Int /\ A * k = kA
    BY <1>1, <1>10
  <2>2. kA - kF <= kB /\ kB < Ac /\ Ac <= kA - A
    BY <1>11, <1>13, <2>1
  <2>3. kF <= F * R - 8 * F /\ F * R \in Int
    <3>1. k * (8 * F) = F * (8 * k) /\ F * (8 * k) <= F * (R - 8) /\ F * (R - 8) = F * R - 8 * F
      BY <1>1, <1>3, <1>10
    <3>2. F * R \in Int
      BY <1>10
    <3> QED BY <3>1, <3>2
  <2> HIDE DEF kA, kF, kB, Ac
  <2> DEFINE FR == F * R
  <2>4. FR \in Int /\ kF <= FR - 8 * F
    BY <2>3
  <2> HIDE DEF FR
  <2>5. A < FR
    BY <1>10, <2>1, <2>2, <2>4
  <2> QED BY <2>5 DEF FR
<1> QED BY <1>10, <1>14

\* The total that n machines of a tier with b of T stand for.
LEMMA TotalOfCount ==
    ASSUME NEW n \in Nat, NEW b \in Nat \ {0}, NEW T \in Nat \ {0}
    PROVE  LET R == PowerOfTwo[Precision]
               s == RoundedQuotient(b, T, 0)
               X == FloatDiv(Float(n, 0), s)
           IN  /\ s.man # 0 /\ IsFloat(X)
               /\ ((R - 1) * (n * T)) * Denominator(X) <= ((R + 1) * b) * Numerator(X)
<1> DEFINE R == PowerOfTwo[Precision]
           s == RoundedQuotient(b, T, 0)
           F == Float(n, 0)
           X == FloatDiv(F, s)
           q == Numerator(s)
           d == Denominator(s)
           x == Numerator(X)
           w == Denominator(X)
<1>1. IsFloat(s) /\ Near(q * T, b * d)
  BY QuotientIsNear
<1> HIDE DEF s
<1>2. q \in Nat /\ d \in Nat \ {0} /\ (q = 0 <=> s.man = 0)
  BY <1>1, FractionIs
<1>3. s.man # 0
  <2> DEFINE a == q * T
             c == b * d
  <2>1. a \in Nat /\ c \in Nat \ {0} /\ (s.man = 0 => a = 0)
    BY <1>2
  <2>2. Near(a, c)
    BY <1>1
  <2> HIDE DEF a, c
  <2> QED BY <2>1, <2>2, NearIsPositive
<1>4. IsFloat(F) /\ Numerator(F) = n /\ Denominator(F) = 1
  BY WholeFloat
<1> HIDE DEF F
<1>5. IsFloat(X) /\ Near(x * (1 * q), (n * d) * w)
  BY <1>1, <1>3, <1>4, DivisionIsNear
<1> HIDE DEF X
<1>6. x \in Nat /\ w \in Nat \ {0} /\ R \in Nat /\ R >= 4
  BY <1>5, FractionIs, PrecisionIs
<1> HIDE DEF q, d, x, w
<1>7. (R - 1) * ((n * d) * w) <= R * (x * q)
  <2> DEFINE a == x * (1 * q)
             c == (n * d) * w
  <2>1. a \in Nat /\ c \in Nat /\ a = x * q
    <3>1. n * d \in Nat
      BY <1>2
    <3> QED BY <1>2, <1>6, <3>1
  <2>2. R * (c - a) <= c
    BY <1>5 DEF Near
  <2> HIDE DEF a, c, R
  <2>3. (R - 1) * c <= R * a
    BY <1>6, <2>1, <2>2
  <2> QED BY <2>1, <2>3 DEF c
<1>8. R * (q * T) <= (R + 1) * (b * d)
  <2> DEFINE a == q * T
             c == b * d
  <2>1. a \in Nat /\ c \in Nat
    BY <1>2
  <2>2. R * (a - c) <= c
    BY <1>1 DEF Near
  <2> HIDE DEF a, c, R
  <2>3. R * a <= (R + 1) * c
    BY <1>6, <2>1, <2>2
  <2> QED BY <2>3 DEF a, c
<1> HIDE DEF R
<1> DEFINE p == (R - 1) * ((n * d) * w)
           u == R * (x * q)
           v == R * (q * T)
           y == (R + 1) * (b * d)
           left == ((R - 1) * (n * T)) * w
           right == ((R + 1) * b) * x
<1>9. p \in Nat /\ u \in Nat /\ v \in Nat /\ y \in Nat /\ left \in Nat /\ right \in Nat
  <2>1. /\ R - 1 \in Nat /\ R + 1 \in Nat /\ n * d \in Nat /\ x * q \in Nat /\ q * T \in Nat
        /\ b * d \in Nat /\ n * T \in Nat
    BY <1>2, <1>6
  <2>2. (n * d) * w \in Nat /\ (R - 1) * (n * T) \in Nat /\ (R + 1) * b \in Nat
    BY <1>6, <2>1
  <2> QED BY <1>6, <2>1, <2>2
<1>10. T * p <= T * u /\ x * v <= x * y
  <2> HIDE DEF p, u, v, y
  <2>1. p <= u /\ v <= y
    BY <1>7, <1>8 DEF p, u, v, y
  <2> QED BY <1>6, <1>9, <2>1
<1>11. T * u = x * v /\ T * p = d * left /\ x * y = d * right
  BY <1>2, <1>6
<1>12. d * left <= d * right
  <2>1. T * p \in Int /\ T * u \in Int /\ x * v \in Int /\ x * y \in Int
    BY <1>6, <1>9
  <2> QED BY <1>10, <1>11, <2>1
<1> HIDE DEF left, right
<1>13. left <= right
  BY <1>2, <1>9, <1>12, Cancel
<1> QED BY <1>3, <1>5, <1>13 DEF R, F, X, s, x, w, left, right

\* A plan from a box of another with the same amounts: each count loses one at most.
LEMMA ResubmittedBoxes ==
    ASSUME NEW X, IsFloat(X), NEW n \in Tiers, NEW m,
           \A t \in Tiers : m[t] \in Nat /\ (t > n => m[t] = 0),
           SumOfTiers(m) \in Nat \ {0},
           NEW box \in Tiers, box <= n, m[box] # 0,
           NEW Y, Y = FloatDiv(Float(BoxCounts(X, n, m)[box], 0),
                               RoundedQuotient(m[box], SumOfTiers(m), 0)),
           NEW t \in Tiers, 8 * BoxCounts(X, n, m)[t] <= PowerOfTwo[Precision]
    PROVE  BoxCounts(Y, n, m)[t] >= BoxCounts(X, n, m)[t] - 1
<1> DEFINE R == PowerOfTwo[Precision]
           T == SumOfTiers(m)
           b == m[box]
           mt == m[t]
           count == FloatCeil(FloatMul(X, RoundedQuotient(b, T, 0)))
           c0 == FloatCeil(FloatMul(X, RoundedQuotient(mt, T, 0)))
           c1 == FloatCeil(FloatMul(Y, RoundedQuotient(mt, T, 0)))
           x0 == Numerator(X)
           w0 == Denominator(X)
           x1 == Numerator(Y)
           w1 == Denominator(Y)
<1>1. CASE t > n
  <2>1. ~(t <= n)
    BY <1>1, TiersAre
  <2>2. BoxCounts(X, n, m)[t] = 0 /\ BoxCounts(Y, n, m)[t] = 0
    BY <2>1 DEF BoxCounts
  <2> QED BY <2>2
<1>2. CASE t <= n
  <2>1. /\ BoxCounts(X, n, m)[box] = count /\ BoxCounts(X, n, m)[t] = c0
        /\ BoxCounts(Y, n, m)[t] = c1
    BY <1>2 DEF BoxCounts
  <2>2. T \in Nat \ {0} /\ b \in Nat \ {0} /\ mt \in Nat /\ R \in Nat /\ R >= 4
    BY PrecisionIs
  <2>3. Y = FloatDiv(Float(count, 0), RoundedQuotient(b, T, 0))
    BY <2>1
  <2>4. 8 * c0 <= R
    BY <2>1
  <2> HIDE DEF T, b, mt
  <2>5. /\ count \in Nat
        /\ ((R - 1) * (R - 1)) * (x0 * b) <= (R * R) * (count * (w0 * T))
    BY <2>2, BoxIs
  <2>6. /\ c0 \in Nat
        /\ (R * R) * ((c0 - 1) * (w0 * T)) < ((R + 1) * (R + 1)) * (x0 * mt)
    BY <2>2, BoxIs
  <2> HIDE DEF count
  <2>7. /\ IsFloat(Y)
        /\ ((R - 1) * (count * T)) * w1 <= ((R + 1) * b) * x1
    BY <2>2, <2>3, <2>5, TotalOfCount
  <2>8. /\ c1 \in Nat
        /\ ((R - 1) * (R - 1)) * (x1 * mt) <= (R * R) * (c1 * (w1 * T))
    BY <2>2, <2>7, BoxIs
  <2>9. x0 \in Nat /\ w0 \in Nat \ {0} /\ x1 \in Nat /\ w1 \in Nat \ {0}
    BY <2>7, FractionIs
  <2> HIDE DEF R, c0, c1, x0, w0, x1, w1
  <2>10. c1 >= c0 - 1
    BY <2>2, <2>4, <2>5, <2>6, <2>7, <2>8, <2>9, ResubmittedCount
  <2> QED BY <2>1, <2>10
<1> QED BY <1>1, <1>2, TiersAre

-----------------------------------------------------------------------------
(* Runs of the loop: what a call ends with depends on its input alone.     *)

\* The pass of ExactNext, for an input that need not be that of the call.
CraftedFor(i, m) ==
    [r \in QualityNormal .. i.TargetQuality - 1 |->
        MixSum(QualityNormal .. i.TargetQuality,
               [k \in QualityNormal .. i.TargetQuality |->
                   qualityDistribution(k, i.TargetQuality, qualityChance(i.MachineQuality))[r]],
               m) \div Unit(i.TargetQuality)]

ContributionFor(i, m) ==
    [t \in QualityNormal .. i.TargetQuality |->
        MixSum(QualityNormal .. i.TargetQuality - 1,
               [r \in QualityNormal .. i.TargetQuality - 1 |->
                   qualityDistribution(r, i.TargetQuality, qualityChance(i.RecyclerQuality))[t]],
               CraftedFor(i, m)) \div Unit(i.TargetQuality)]

NextFor(i, m) ==
    [t \in Tiers |->
        IF t \in QualityNormal .. i.TargetQuality
          THEN ((IF i.Productivity < -100 THEN 0 ELSE 100 + i.Productivity)
                    * ContributionFor(i, m)[t]) \div 400 + Source[t]
          ELSE 0]

FarApart(i, m, n) == \E t \in QualityNormal .. i.TargetQuality : FarFrom(m[t], n[t])

\* s[0] to s[k] are the amounts of k passes, none before the last of which settled.
RunOf(i, s, k) ==
    /\ k \in 0 .. loopSolverMaxIterations
    /\ s[0] = Source
    /\ \A j \in 1 .. k : s[j] = NextFor(i, s[j - 1])
    /\ \A j \in 1 .. k - 1 : FarApart(i, s[j], s[j - 1])

\* A run that ends where the code ends it.
Complete(i, s, k) ==
    /\ RunOf(i, s, k)
    /\ IF i.TargetQuality = QualityNormal THEN k = 0
       ELSE k = loopSolverMaxIterations \/ (k # 0 /\ ~FarApart(i, s[k], s[k - 1]))

LEMMA NextIsFor ==
    ASSUME NEW m
    PROVE  ExactNext(m) = NextFor(input, m)
<1>1. ExactCrafted(m) = CraftedFor(input, m)
  BY DEF ExactCrafted, CraftedFor, CraftShares, assemblerProb, Recycled, LoopTiers, Target
<1>2. ExactContribution(m) = ContributionFor(input, m)
  BY <1>1 DEF ExactContribution, ContributionFor, RecycleShares, recyclerProb, Recycled,
              LoopTiers, Target
<1> QED BY <1>2 DEF ExactNext, ExactReturned, NextFor, OutputPercent, LoopTiers, Target

LEMMA RunsAgree ==
    ASSUME NEW i, NEW s, NEW u, NEW k \in Nat, NEW l \in Nat, RunOf(i, s, k), RunOf(i, u, l),
           NEW j \in Nat, j <= k, j <= l
    PROVE  s[j] = u[j]
<1> DEFINE S == {n \in Nat : n <= k /\ n <= l => s[n] = u[n]}
<1>1. 0 \in S
  BY DEF RunOf
<1>2. ASSUME NEW n \in Nat, n \in S PROVE n + 1 \in S
  <2> SUFFICES ASSUME n + 1 <= k, n + 1 <= l PROVE s[n + 1] = u[n + 1]
    OBVIOUS
  <2>1. s[n] = u[n] /\ n + 1 \in 1 .. k /\ n + 1 \in 1 .. l /\ (n + 1) - 1 = n
    BY <1>2
  <2>2. s[n + 1] = NextFor(i, s[n]) /\ u[n + 1] = NextFor(i, u[n])
    BY <2>1 DEF RunOf
  <2> QED BY <2>1, <2>2
<1> HIDE DEF S
<1>3. Nat \subseteq S
  BY <1>1, <1>2, AllNumbersAreIn
<1> QED BY <1>3 DEF S

LEMMA NoneIsLonger ==
    ASSUME NEW i, NEW s, NEW u, NEW k \in Nat, NEW l \in Nat, Complete(i, s, k), RunOf(i, u, l),
           i.TargetQuality = QualityNormal => l = 0
    PROVE  l <= k
<1> SUFFICES ASSUME k < l PROVE FALSE
  OBVIOUS
<1>1. i.TargetQuality # QualityNormal /\ k < loopSolverMaxIterations
  BY SolverAssumption DEF RunOf
<1>2. k # 0 /\ ~FarApart(i, s[k], s[k - 1]) /\ RunOf(i, s, k)
  BY <1>1, SolverAssumption DEF Complete
<1>3. k \in 1 .. l - 1 /\ k - 1 \in Nat
  BY <1>2
<1>4. FarApart(i, u[k], u[k - 1])
  BY <1>3 DEF RunOf
<1>5. s[k] = u[k] /\ s[k - 1] = u[k - 1]
  BY <1>2, <1>3, RunsAgree
<1> QED BY <1>2, <1>4, <1>5

\* Calls with the same input end with the same amounts.
LEMMA SameRun ==
    ASSUME NEW i, NEW s, NEW u, NEW k, NEW l, Complete(i, s, k), Complete(i, u, l)
    PROVE  s[k] = u[l]
<1>1. /\ k \in Nat /\ l \in Nat /\ RunOf(i, s, k) /\ RunOf(i, u, l)
      /\ i.TargetQuality = QualityNormal => k = 0 /\ l = 0
  BY SolverAssumption DEF Complete, RunOf
<1>2. k <= l /\ l <= k
  BY <1>1, NoneIsLonger
<1>3. k = l
  BY <1>1, <1>2
<1> QED BY <1>1, <1>3, RunsAgree

\* The amounts of a call are those of a run of its input, which goes on while the
\* call does and has ended where the call has.
CallRuns ==
    /\ pc = "solving" =>
         \E s : /\ RunOf(input, s, iter) /\ s[iter] = materials
                /\ iter # 0 => FarApart(input, s[iter], s[iter - 1])
    /\ pc = "solved" => \E s : Complete(input, s, iter) /\ s[iter] = materials

\* A plan is made of the amounts of a finished run, for some total.
PageRuns ==
    page # None =>
        \E s, k, X : /\ Complete(page.for, s, k) /\ IsFloat(X)
                     /\ page.machines = BoxCounts(X, page.for.TargetQuality, s[k])

RunInv == PlannerInv /\ CallRuns /\ PageRuns

LEMMA CallRunsFromSource ==
    ASSUME NEW i \in Inputs, Call(i)
    PROVE  CallRuns'
<1> DEFINE s == [j \in {0} |-> Source]
<1>1. /\ input' = i /\ iter' = 0 /\ materials' = Source
      /\ pc' = IF i.TargetQuality = QualityNormal THEN "solved" ELSE "solving"
  BY DEF Call
<1>2. RunOf(i, s, 0) /\ s[0] = Source
  BY SolverAssumption DEF RunOf
<1> HIDE DEF s
<1>3. CASE i.TargetQuality = QualityNormal
  <2>1. Complete(i, s, 0)
    BY <1>2, <1>3 DEF Complete
  <2> QED BY <1>1, <1>2, <1>3, <2>1 DEF CallRuns
<1>4. CASE i.TargetQuality # QualityNormal
  BY <1>1, <1>2, <1>4 DEF CallRuns
<1> QED BY <1>3, <1>4

LEMMA IterateKeepsRuns ==
    ASSUME SolverInv, RoomInv, AmountsFit, CallRuns, Iterate
    PROVE  CallRuns'
<1>1. /\ pc = "solving" /\ input' = input /\ iter' = iter + 1 /\ iter < loopSolverMaxIterations
      /\ iter \in Nat /\ Target # QualityNormal
      /\ pc' = IF \E t \in LoopTiers : FarFrom(NextMaterials[t], materials[t])
                 THEN "solving" ELSE "solved"
  BY DEF Iterate, SolverInv, TypeOK
<1>2. materials' = NextMaterials /\ materials' = NextFor(input, materials)
  BY IterateIsExact, NextIsFor DEF Iterate
<1>3. PICK s : /\ RunOf(input, s, iter) /\ s[iter] = materials
               /\ iter # 0 => FarApart(input, s[iter], s[iter - 1])
  BY <1>1 DEF CallRuns
<1> DEFINE u == [j \in 0 .. iter + 1 |-> IF j = iter + 1 THEN materials' ELSE s[j]]
<1>4. /\ u[iter + 1] = materials' /\ u[iter] = materials /\ (iter + 1) - 1 = iter
      /\ \A j \in 0 .. iter : u[j] = s[j]
  BY <1>1, <1>3
<1> HIDE DEF u
<1>5. RunOf(input, u, iter + 1)
  <2>1. iter + 1 \in 0 .. loopSolverMaxIterations /\ u[0] = Source
    BY <1>1, <1>3, <1>4, SolverAssumption DEF RunOf
  <2>2. ASSUME NEW j \in 1 .. iter + 1 PROVE u[j] = NextFor(input, u[j - 1])
    <3>1. CASE j = iter + 1
      BY <1>2, <1>4, <3>1
    <3>2. CASE j # iter + 1
      <4>1. j \in 1 .. iter /\ j \in 0 .. iter /\ j - 1 \in 0 .. iter
        BY <1>1, <3>2
      <4> QED BY <1>3, <1>4, <4>1 DEF RunOf
    <3> QED BY <3>1, <3>2
  <2>3. ASSUME NEW j \in 1 .. (iter + 1) - 1 PROVE FarApart(input, u[j], u[j - 1])
    <3>1. j \in 1 .. iter /\ j \in 0 .. iter /\ j - 1 \in 0 .. iter
      BY <1>1
    <3>2. CASE j = iter
      BY <1>3, <1>4, <3>1, <3>2
    <3>3. CASE j # iter
      <4>1. j \in 1 .. iter - 1
        BY <1>1, <3>1, <3>3
      <4> QED BY <1>3, <1>4, <3>1, <4>1 DEF RunOf
    <3> QED BY <3>2, <3>3
  <2> QED BY <2>1, <2>2, <2>3 DEF RunOf
<1>6. pc' = "solving" <=> FarApart(input, u[iter + 1], u[(iter + 1) - 1])
  BY <1>1, <1>2, <1>4 DEF FarApart, LoopTiers, Target
<1>7. CASE pc' = "solving"
  BY <1>1, <1>4, <1>5, <1>6, <1>7 DEF CallRuns
<1>8. CASE pc' # "solving"
  <2>1. pc' = "solved" /\ iter + 1 # 0
    BY <1>1, <1>8
  <2>2. Complete(input, u, iter + 1)
    BY <1>1, <1>5, <1>6, <1>8, <2>1 DEF Complete, Target
  <2> QED BY <1>1, <1>4, <2>1, <2>2 DEF CallRuns
<1> QED BY <1>7, <1>8

LEMMA GiveUpKeepsRuns ==
    ASSUME SolverInv, CallRuns, GiveUp
    PROVE  CallRuns'
<1>1. /\ pc = "solving" /\ pc' = "solved" /\ iter = loopSolverMaxIterations
      /\ UNCHANGED <<input, iter, materials>> /\ Target # QualityNormal
  BY DEF GiveUp, SolverInv
<1>2. PICK s : RunOf(input, s, iter) /\ s[iter] = materials
  BY <1>1 DEF CallRuns
<1>3. Complete(input, s, iter)
  BY <1>1, <1>2 DEF Complete, Target
<1> QED BY <1>1, <1>2, <1>3 DEF CallRuns

\* A finished call has the amounts of a finished run, by tier.
LEMMA FinishedRun ==
    ASSUME PlannerInv, CallRuns, Answer
    PROVE  /\ Finished
           /\ \E s : Complete(input, s, iter) /\ s[iter] = MaterialsByTier
<1>1. Finished /\ pc = "solved"
  BY DEF Answer, Return, PlannerInv, CallInv, Finished
<1>2. materials = MaterialsByTier
  <2>1. materials \in [Tiers -> Amounts]
    BY DEF PlannerInv, TypeOK
  <2>2. MaterialsByTier = [t \in Tiers |-> MaterialsByTier[t]]
    BY DEF MaterialsByTier, Padded
  <2>3. \A t \in Tiers : MaterialsByTier[t] = materials[t]
    BY <1>1, FinishedAmounts
  <2> QED BY <2>1, <2>2, <2>3
<1> QED BY <1>1, <1>2 DEF CallRuns

LEMMA AnswerMakesRuns ==
    ASSUME PlannerInv, CallRuns, Answer
    PROVE  PageRuns'
<1>1. Finished
  BY FinishedRun
<1>2. PICK s : Complete(input, s, iter) /\ s[iter] = MaterialsByTier
  BY FinishedRun
<1>3. /\ Plan.machines = BoxCounts(TotalMachines, Target, MaterialsByTier)
      /\ Plan.for = input /\ IsFloat(TotalMachines)
  BY <1>1, FinishedPlan, FinishedTotal
<1>4. page' = Plan
  BY DEF Answer
<1> QED BY <1>2, <1>3, <1>4 DEF PageRuns, Target

LEMMA RunInvIsKept ==
    ASSUME AmountsFit, RunInv, [PlannerNext]_vars
    PROVE  RunInv'
<1>1. PlannerInv' /\ PlannerInv
  BY PlannerInvIsKept DEF RunInv
<1>2. ASSUME NEW i \in Inputs, NEW box \in Boxes, NEW n, Submit(i, box, n)
      PROVE  RunInv'
  BY <1>1, <1>2, CallRunsFromSource DEF Submit, RunInv, PageRuns
<1>3. CASE SubmitTyped
  BY <1>2, <1>3 DEF SubmitTyped
<1>4. CASE SubmitShown
  BY <1>2, <1>4 DEF SubmitShown, Boxes
<1>5. ASSUME NEW i \in Inputs, RefuseAtOnce(i) PROVE RunInv'
  BY <1>1, <1>5 DEF RefuseAtOnce, RunInv, CallRuns, PageRuns
<1>6. CASE Solve
  BY <1>1, <1>6, IterateKeepsRuns DEF Solve, Iterate, RunInv, PlannerInv, CallInv, PageRuns
<1>7. CASE SolveNoMore
  BY <1>1, <1>7, GiveUpKeepsRuns DEF SolveNoMore, GiveUp, RunInv, PlannerInv, CallInv, PageRuns
<1>8. CASE Answer
  BY <1>1, <1>8, AnswerMakesRuns DEF Answer, Return, RunInv, CallRuns
<1>9. CASE Refuse
  BY <1>1, <1>9 DEF Refuse, Return, RunInv, CallRuns, PageRuns
<1>10. CASE UNCHANGED vars
  BY <1>1, <1>10 DEF vars, solverVars, RunInv, CallRuns, PageRuns
<1> QED BY <1>3, <1>4, <1>5, <1>6, <1>7, <1>8, <1>9, <1>10 DEF PlannerNext

\* A tier's box submitted as it is shown takes at most one machine away from any tier
\* (cmd/web/main.go:418-521, internal/planner.go:118-160): the same input makes the
\* loop take the same passes, so the new total is multiplied by the shares that the
\* old one was.
THEOREM ResubmittedPlanLosesOne ==
    ASSUME AmountsFit
    PROVE  PlannerSpec => ResubmitCostsAtMostOne
<1> DEFINE Keeps ==
             (Answer /\ page # None /\ page.for = input
               /\ request.box \in Tiers /\ page.machines[request.box] = request.count)
             => \A t \in Tiers :
                   8 * page.machines[t] <= PowerOfTwo[Precision]
                       => page'.machines[t] >= page.machines[t] - 1
<1>1. PlannerInit => RunInv
  BY PlannerInvIsInitial DEF PlannerInit, Init, RunInv, CallRuns, PageRuns
<1>2. RunInv /\ [PlannerNext]_vars => RunInv'
  BY RunInvIsKept
<1>3. ASSUME RunInv, Answer, page # None, page.for = input,
             request.box \in Tiers, page.machines[request.box] = request.count,
             NEW t \in Tiers, 8 * page.machines[t] <= PowerOfTwo[Precision]
      PROVE  page'.machines[t] >= page.machines[t] - 1
  <2> DEFINE m == MaterialsByTier
             Y == TotalMachines
             box == request.box
  <2>1. Finished /\ PlannerInv /\ CallRuns /\ PageRuns
    BY <1>3, FinishedRun DEF RunInv
  <2>2. PICK s : Complete(input, s, iter) /\ s[iter] = m
    BY <1>3, <2>1, FinishedRun
  <2>3. PICK u, k, X : /\ Complete(input, u, k) /\ IsFloat(X)
                       /\ page.machines = BoxCounts(X, Target, u[k])
    BY <1>3, <2>1 DEF PageRuns, Target
  <2>4. u[k] = m
    BY <2>2, <2>3, SameRun
  <2>5. page'.machines = BoxCounts(Y, Target, m)
    BY <1>3, <2>1, FinishedPlan DEF Answer
  <2>6. /\ Target \in Tiers /\ SumOfTiers(m) \in Nat \ {0} /\ Total = SumOfTiers(m)
        /\ \A r \in Tiers : m[r] \in Nat /\ (r > Target => m[r] = 0)
        /\ \A r \in Tiers : r \in LoopTiers <=> r <= Target
        /\ \A r \in Tiers : m[r] = materials[r]
    BY <2>1, FinishedAmounts
  <2>7. /\ box \in Tiers /\ box <= Target /\ m[box] # 0
        /\ Y = FloatDiv(Float(request.count, 0), RoundedQuotient(m[box], SumOfTiers(m), 0))
    <3>1. box \in Tiers /\ box # TotalBox
      BY <1>3, CountsAssumption
    <3>2. box \in LoopTiers /\ materials[box] # 0 /\ Y = FloatDiv(Float(request.count, 0), Share(box))
      BY <2>1, <3>1, FinishedTotal
    <3> QED BY <2>6, <3>1, <3>2 DEF Share
  <2>8. request.count = BoxCounts(X, Target, m)[box]
    BY <1>3, <2>3, <2>4
  <2>9. 8 * BoxCounts(X, Target, m)[t] <= PowerOfTwo[Precision]
    BY <1>3, <2>3, <2>4
  <2> HIDE DEF m, Y, box
  <2>10. BoxCounts(Y, Target, m)[t] >= BoxCounts(X, Target, m)[t] - 1
    BY <2>3, <2>6, <2>7, <2>8, <2>9, ResubmittedBoxes
  <2> QED BY <2>3, <2>4, <2>5, <2>10
<1>4. RunInv /\ [PlannerNext]_vars => [Keeps]_vars
  BY <1>3
<1>5. PlannerSpec => [][Keeps]_vars
  BY <1>1, <1>2, <1>4, PTL DEF PlannerSpec
<1> QED BY <1>5 DEF ResubmitCostsAtMostOne
=============================================================================
