----------------------------- MODULE QualityTiers -----------------------------
(***************************************************************************)
(* Quality tiers and the split of a craft's output between them            *)
(* (internal/machine.go, internal/recycler.go).                            *)
(*                                                                         *)
(* A chance is a number of parts out of Whole. A share is a number of      *)
(* parts out of Unit(max): fine enough that 0.9 and every power of 0.1 the *)
(* code multiplies by leaves an integer, so that nothing here is rounded.  *)
(***************************************************************************)
EXTENDS Integers

CONSTANT Whole    \* parts in a chance of 100 %

ASSUME WholeAssumption == Whole \in Nat \ {0}

QualityNormal == 0
QualityLegendary == 4

Tiers == QualityNormal .. QualityLegendary

\* Ten to the power of n, for the n that tiers can differ by.
PowerOfTen(n) ==
    IF n = 0 THEN 1 ELSE IF n = 1 THEN 10 ELSE IF n = 2 THEN 100
    ELSE IF n = 3 THEN 1000 ELSE 10000

Unit(max) == Whole * PowerOfTen(max)

\* Negative chances count as none and those above 100 % as certain.
qualityChance(percentage) ==
    IF percentage < 0 THEN 0 ELSE IF percentage > Whole THEN Whole ELSE percentage

\* The share of each tier in what is made from input of the given quality. A
\* tier that the code's map has no entry for reads as 0.
qualityDistribution(input, max, chance) ==
    [tier \in Tiers |->
        IF tier < input \/ tier > max THEN 0
        ELSE IF input = max THEN Unit(max)
        ELSE IF tier = input THEN (Whole - chance) * PowerOfTen(max)
        ELSE IF tier < max THEN 9 * chance * PowerOfTen(max - (tier - input))
        ELSE chance * PowerOfTen(max - (max - input - 1))]

SumOfTiers(f) == f[0] + f[1] + f[2] + f[3] + f[4]
=============================================================================
