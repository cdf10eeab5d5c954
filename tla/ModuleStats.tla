----------------------------- MODULE ModuleStats -----------------------------
(***************************************************************************)
(* What modules and quality make of a machine and of a recycler            *)
(* (cmd/web/main.go: scaledModuleBonus, the handler of                     *)
(* /partials/module-stats, calculateRecyclerStats).                        *)
(*                                                                         *)
(* Percentages are in tenths, multipliers in tenths, speeds and times in   *)
(* thousandths, which are also what a field of the page shows; a time that *)
(* was divided by sixteen is in sixteenths of them. Nothing is rounded but *)
(* where the code rounds.                                                  *)
(***************************************************************************)
EXTENDS Integers, Functions

QualityNormal == 0
QualityLegendary == 4
Tiers == QualityNormal .. QualityLegendary

\* A tier, or the empty value of a select that is not sent: no multiplier.
qualityMultiplierByTierKey(tier) ==
    IF tier = 1 THEN 13 ELSE IF tier = 2 THEN 16 ELSE IF tier = 3 THEN 19
    ELSE IF tier = QualityLegendary THEN 25 ELSE 10

NoModule == "no module"

Effect(speed, slowdown, productivity, quality, dilution) ==
    [SpeedBonus |-> speed, SpeedPenalty |-> slowdown, ProductivityBonus |-> productivity,
     QualityBonus |-> quality, QualityPenalty |-> dilution]

moduleEffectsByID ==
    [id \in {"speed-module", "speed-module-2", "speed-module-3", "productivity-module",
             "productivity-module-2", "productivity-module-3", "quality-module",
             "quality-module-2", "quality-module-3"} |->
        IF id = "speed-module" THEN Effect(200, 0, 0, 0, -10)
        ELSE IF id = "speed-module-2" THEN Effect(300, 0, 0, 0, -15)
        ELSE IF id = "speed-module-3" THEN Effect(500, 0, 0, 0, -25)
        ELSE IF id = "productivity-module" THEN Effect(0, -50, 40, 0, 0)
        ELSE IF id = "productivity-module-2" THEN Effect(0, -100, 60, 0, 0)
        ELSE IF id = "productivity-module-3" THEN Effect(0, -150, 100, 0, 0)
        ELSE IF id = "quality-module" THEN Effect(0, -50, 0, 10, 0)
        ELSE IF id = "quality-module-2" THEN Effect(0, -50, 0, 20, 0)
        ELSE Effect(0, -50, 0, 25, 0)]

ModuleIDs == DOMAIN moduleEffectsByID

isQualityModule(id) == id \in {"quality-module", "quality-module-2", "quality-module-3"}

\* Bonuses are rounded down: those of quality modules to 0.1 %, others to 1 %.
scaledModuleBonus(id, bonus, multiplier) ==
    IF bonus <= 0 THEN 0
    ELSE IF isQualityModule(id) THEN (bonus * multiplier) \div 10
    ELSE 10 * ((bonus * multiplier) \div 100)

\* What the module of a slot adds to speed, productivity and quality.
SlotSpeed(slot) ==
    IF slot.module \notin ModuleIDs THEN 0
    ELSE LET e == moduleEffectsByID[slot.module]
         IN  scaledModuleBonus(slot.module, e.SpeedBonus,
                               qualityMultiplierByTierKey(slot.quality)) + e.SpeedPenalty

SlotProductivity(slot) ==
    IF slot.module \notin ModuleIDs THEN 0
    ELSE scaledModuleBonus(slot.module, moduleEffectsByID[slot.module].ProductivityBonus,
                           qualityMultiplierByTierKey(slot.quality))

SlotQuality(slot) ==
    IF slot.module \notin ModuleIDs THEN 0
    ELSE LET e == moduleEffectsByID[slot.module]
         IN  scaledModuleBonus(slot.module, e.QualityBonus,
                               qualityMultiplierByTierKey(slot.quality)) + e.QualityPenalty

NotBelow(low, value) == IF value < low THEN low ELSE value

\* A value rounded to the nearest thousandth, as formatStatValue shows it.
formatStatValue(numerator, denominator) ==
    (numerator + denominator \div 2) \div denominator

\* The divisor of a speed in thousandths: multiplier and modifier are applied.
SpeedParts == 10 * 1000

SpeedMultiplier(slots) ==
    NotBelow(200, 1000 + SumFunction([i \in DOMAIN slots |-> SlotSpeed(slots[i])]))

\* The fields of a machine: its own numbers, the tier's multiplier, the modules.
EffectiveMachine(base, tier, slots) ==
    [speed |-> formatStatValue(base.speed * qualityMultiplierByTierKey(tier)
                                          * SpeedMultiplier(slots), SpeedParts),
     productivity |->
        NotBelow(0, base.productivity
                      + SumFunction([i \in DOMAIN slots |-> SlotProductivity(slots[i])])),
     quality |->
        NotBelow(0, base.quality
                      + SumFunction([i \in DOMAIN slots |-> SlotQuality(slots[i])]))]

\* A craft's time over sixteen; a craft that has none counts as one second.
recycleTimeSourceFromCraftTime(craftTime) == IF craftTime <= 0 THEN 1000 ELSE craftTime

\* The hidden field keeps that time in thousandths, and loses the rest.
ShownSource(source) == 16 * formatStatValue(source, 16)

clampTo(value, low, high) == IF value < low THEN low ELSE IF value > high THEN high ELSE value

minRecycleTime == 16
maxRecycleTime == 3600 * 16000

RecyclerSpeed == 500    \* base_recycler_craft_speed and its default
RecyclerQuality == 0    \* base_recycler_quality_percentage and its default

\* The time of a cycle is divided by the speed before that is rounded.
calculateRecyclerStats(source, tier, slots) ==
    LET parts == qualityMultiplierByTierKey(tier) * SpeedMultiplier(slots)
        time == clampTo(source, minRecycleTime, maxRecycleTime)
    IN  [speed |-> formatStatValue(RecyclerSpeed * parts, SpeedParts),
         quality |->
            NotBelow(0, RecyclerQuality
                          + SumFunction([i \in DOMAIN slots |-> SlotQuality(slots[i])])),
         time |-> formatStatValue(time * ((1000 * SpeedParts) \div (16 * RecyclerSpeed)), parts)]
=============================================================================
