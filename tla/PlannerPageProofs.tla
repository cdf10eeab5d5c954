-------------------------- MODULE PlannerPageProofs --------------------------
(***************************************************************************)
(* What the page shows, for any items, machines and modules and any number *)
(* of the user's actions, whatever replies come when: the selects of every *)
(* slot agree; no element has two requests under way; the plan is the one  *)
(* for the form, if plans came one at a time; and the fields are those of  *)
(* the selects, if every partial was asked for alone.                      *)
(*                                                                         *)
(* Each invariant, from IInv to WatchInv, says of the replies that are     *)
(* still to come what the property says of the page once they have come.   *)
(***************************************************************************)
EXTENDS PlannerPage, FiniteSetTheorems, TLAPS

\* A slot whose selects agree.
AgreeingSlot(slot) ==
    /\ slot \in [module : ModuleIDs \union {NoModule}, quality : Tiers,
                 disabled : BOOLEAN, top : Tiers]
    /\ slot.disabled <=> slot.module = NoModule
    /\ slot.disabled => slot.quality = QualityNormal
    /\ slot.quality <= slot.top

AgreeingSlots(all) ==
    /\ all = [side \in Sides |-> all[side]]
    /\ \A side \in Sides :
         /\ DOMAIN all[side] \subseteq Int
         /\ all[side] = [i \in DOMAIN all[side] |-> all[side][i]]
         /\ \A i \in DOMAIN all[side] : AgreeingSlot(all[side][i])

\* A request is for what was selected, and unlocked, when it was sent.
AskedFor(sent) ==
    /\ sent.kind \in {"item-details", "machine-details"} => sent.max \in Tiers
    /\ sent.kind = "item-details" => sent.item \in Items \union {NoItem}
    /\ sent.kind = "machine-details" => sent.craft \in Machines \union {NoMachine}

RequestsAskedFor ==
    \A r \in inflight :
      /\ r = [id |-> r.id, owner |-> r.owner, sent |-> r.sent]
      /\ AskedFor(r.sent)

Selected ==
    /\ maxUnlocked \in Tiers
    /\ item \in Items \union {NoItem} /\ craft \in Machines \union {NoMachine}

IInv == Selected /\ AgreeingSlots(slots) /\ RequestsAskedFor

-----------------------------------------------------------------------------
\* The slots that a reply makes agree.
LEMMA EmptySlotsAgree ==
    ASSUME NEW n \in Nat, NEW top \in Tiers
    PROVE  /\ DOMAIN EmptySlots(n, top) \subseteq Int
           /\ EmptySlots(n, top) = [i \in DOMAIN EmptySlots(n, top) |-> EmptySlots(n, top)[i]]
           /\ \A i \in DOMAIN EmptySlots(n, top) : AgreeingSlot(EmptySlots(n, top)[i])
  BY DEF EmptySlots, AgreeingSlot, Tiers, QualityNormal, QualityLegendary

\* Slots that are changed on one side only agree if those of that side do.
LEMMA OneSide ==
    ASSUME AgreeingSlots(slots), NEW side \in Sides, NEW some,
           DOMAIN some \subseteq Int,
           some = [i \in DOMAIN some |-> some[i]],
           \A i \in DOMAIN some : AgreeingSlot(some[i])
    PROVE  AgreeingSlots([slots EXCEPT ![side] = some])
  BY DEF AgreeingSlots, Sides

\* Three fields of a slot are replaced and one is kept.
LEMMA ReplacedFields ==
    ASSUME NEW M, NEW Q, NEW D, NEW T,
           NEW slot \in [module : M, quality : Q, disabled : D, top : T],
           NEW module \in M, NEW quality0 \in Q, NEW disabled \in D
    PROVE  LET made == [slot EXCEPT !.module = module, !.disabled = disabled,
                                    !.quality = quality0]
           IN  /\ made \in [module : M, quality : Q, disabled : D, top : T]
               /\ made.module = module /\ made.quality = quality0
               /\ made.disabled = disabled /\ made.top = slot.top
  OBVIOUS

\* A module that is chosen leaves the slots of its side in agreement.
LEMMA ModulesFromAgree ==
    ASSUME AgreeingSlots(slots), NEW side \in Sides, NEW i \in DOMAIN slots[side],
           NEW module \in ModuleIDs \union {NoModule}
    PROVE  /\ DOMAIN ModulesFrom(side, i, module) \subseteq Int
           /\ ModulesFrom(side, i, module) = [j \in DOMAIN ModulesFrom(side, i, module) |->
                                                ModulesFrom(side, i, module)[j]]
           /\ \A j \in DOMAIN ModulesFrom(side, i, module) :
                AgreeingSlot(ModulesFrom(side, i, module)[j])
<1> DEFINE slot(j) == slots[side][j]
           chosen == slots[side][i].quality
<1>1. \A j \in DOMAIN slots[side] : AgreeingSlot(slot(j))
  BY DEF AgreeingSlots
<1>2. chosen \in Tiers
  BY <1>1 DEF AgreeingSlot
<1>3. DOMAIN ModulesFrom(side, i, module) = DOMAIN slots[side]
  BY DEF ModulesFrom
<1>4. ASSUME NEW j \in DOMAIN slots[side]
      PROVE  AgreeingSlot(ModulesFrom(side, i, module)[j])
  <2> DEFINE disabled == module = NoModule
             quality0 == IF module = NoModule \/ chosen > slot(j).top
                         THEN QualityNormal ELSE chosen
             made == [slot(j) EXCEPT !.module = module, !.disabled = disabled,
                                     !.quality = quality0]
  <2>1. AgreeingSlot(slot(j))
    BY <1>1
  <2>2. disabled \in BOOLEAN /\ (disabled <=> module = NoModule)
    OBVIOUS
  <2>3. /\ quality0 \in Tiers /\ quality0 <= slot(j).top
        /\ disabled => quality0 = QualityNormal
    BY <1>2, <2>1 DEF AgreeingSlot, Tiers, QualityNormal, QualityLegendary
  <2>4. AgreeingSlot(made)
    <3> HIDE DEF disabled, quality0
    <3>1. slot(j) \in [module : ModuleIDs \union {NoModule}, quality : Tiers,
                      disabled : BOOLEAN, top : Tiers]
      BY <2>1 DEF AgreeingSlot
    <3>2. /\ made \in [module : ModuleIDs \union {NoModule}, quality : Tiers,
                       disabled : BOOLEAN, top : Tiers]
          /\ made.module = module /\ made.quality = quality0
          /\ made.disabled = disabled /\ made.top = slot(j).top
      BY <2>2, <2>3, <3>1, ReplacedFields
    <3>3. slot(j).top \in Tiers
      BY <3>1
    <3> HIDE DEF made
    <3>4. made.quality <= made.top
      BY <2>3, <3>2, <3>3
    <3>5. made.disabled <=> made.module = NoModule
      BY <2>2, <3>2
    <3>6. made.disabled => made.quality = QualityNormal
      BY <2>3, <3>2
    <3> QED
      BY <3>2, <3>4, <3>5, <3>6 DEF AgreeingSlot
  <2>5. ModulesFrom(side, i, module)[j] = IF j < i THEN slot(j) ELSE made
    BY DEF ModulesFrom
  <2> QED
    BY <2>1, <2>4, <2>5
<1> QED
  BY <1>3, <1>4 DEF ModulesFrom, AgreeingSlots

\* So does the quality of a module that is chosen.
LEMMA QualitiesFromAgree ==
    ASSUME AgreeingSlots(slots), NEW side \in Sides, NEW i \in DOMAIN slots[side],
           ~slots[side][i].disabled, NEW tier \in Tiers
    PROVE  /\ DOMAIN QualitiesFrom(side, i, tier) \subseteq Int
           /\ QualitiesFrom(side, i, tier) = [j \in DOMAIN QualitiesFrom(side, i, tier) |->
                                                QualitiesFrom(side, i, tier)[j]]
           /\ \A j \in DOMAIN QualitiesFrom(side, i, tier) :
                AgreeingSlot(QualitiesFrom(side, i, tier)[j])
<1> DEFINE slot(j) == slots[side][j]
<1>1. \A j \in DOMAIN slots[side] : AgreeingSlot(slot(j))
  BY DEF AgreeingSlots
<1>2. DOMAIN QualitiesFrom(side, i, tier) = DOMAIN slots[side]
  BY DEF QualitiesFrom
<1>3. ASSUME NEW j \in DOMAIN slots[side]
      PROVE  AgreeingSlot(QualitiesFrom(side, i, tier)[j])
  <2> DEFINE made == [slot(j) EXCEPT !.quality = IF tier > slot(j).top
                                                 THEN QualityNormal ELSE tier]
  <2>1. AgreeingSlot(slot(j))
    BY <1>1
  <2>2. QualitiesFrom(side, i, tier)[j]
          = IF j < i \/ (j > i /\ slot(j).module = NoModule) THEN slot(j) ELSE made
    BY DEF QualitiesFrom
  <2>3. CASE slot(j).module # NoModule
    <3>1. made = [module |-> slot(j).module,
                  quality |-> IF tier > slot(j).top THEN QualityNormal ELSE tier,
                  disabled |-> slot(j).disabled, top |-> slot(j).top]
      BY <2>1 DEF AgreeingSlot
    <3>2. AgreeingSlot(made)
      BY <2>1, <2>3, <3>1 DEF AgreeingSlot, Tiers, QualityNormal, QualityLegendary
    <3> QED
      BY <2>1, <2>2, <3>2
  <2>4. CASE slot(j).module = NoModule
    <3>1. j # i /\ j \in Int /\ i \in Int
      BY <2>1, <2>4 DEF AgreeingSlot, AgreeingSlots
    <3> QED
      BY <2>1, <2>2, <2>4, <3>1
  <2> QED
    BY <2>3, <2>4
<1> QED
  BY <1>2, <1>3 DEF QualitiesFrom, AgreeingSlots

\* So does another quality that is unlocked, on both sides.
LEMMA SlotsUpToAgree ==
    ASSUME AgreeingSlots(slots), NEW max \in Tiers
    PROVE  AgreeingSlots(SlotsUpTo(max))
<1>1. ASSUME NEW side \in Sides, NEW i \in DOMAIN slots[side]
      PROVE  AgreeingSlot(SlotsUpTo(max)[side][i])
  <2> DEFINE slot == slots[side][i]
  <2>1. AgreeingSlot(slot)
    BY DEF AgreeingSlots
  <2>2. SlotsUpTo(max)[side][i]
          = [slot EXCEPT !.top = max, !.quality = Capped(@, max, max),
                         !.disabled = (slot.module = NoModule)]
    BY DEF SlotsUpTo
  <2>3. SlotsUpTo(max)[side][i]
          = [module |-> slot.module, quality |-> Capped(slot.quality, max, max),
             disabled |-> (slot.module = NoModule), top |-> max]
    BY <2>1, <2>2 DEF AgreeingSlot
  <2> QED
    BY <2>1, <2>3 DEF AgreeingSlot, Capped, Tiers, QualityNormal, QualityLegendary
<1>2. /\ SlotsUpTo(max) = [side \in Sides |-> SlotsUpTo(max)[side]]
      /\ \A side \in Sides :
           /\ DOMAIN SlotsUpTo(max)[side] = DOMAIN slots[side]
           /\ SlotsUpTo(max)[side] = [i \in DOMAIN SlotsUpTo(max)[side] |->
                                        SlotsUpTo(max)[side][i]]
  BY DEF SlotsUpTo
<1> QED
  BY <1>1, <1>2 DEF AgreeingSlots
-----------------------------------------------------------------------------
\* What an element sends is what is selected.
LEMMA SentIsSelected ==
    ASSUME Selected', NEW e
    PROVE  AskedFor(Sent(e)')
<1>1. CASE e = Item
  BY <1>1 DEF Sent, AskedFor, Selected
<1>2. CASE e # Item /\ e = Craft
  BY <1>2 DEF Sent, AskedFor, Selected
<1>3. CASE e # Item /\ e # Craft
  BY <1>3 DEF Sent, AskedFor
<1> QED
  BY <1>1, <1>2, <1>3

LEMMA TriggerAsks ==
    ASSUME RequestsAskedFor, Selected', NEW es, Trigger(es)
    PROVE  RequestsAskedFor'
  BY SentIsSelected DEF RequestsAskedFor, Trigger

LEMMA FinishAsks ==
    ASSUME RequestsAskedFor, Selected', NEW r, NEW replaced, Finish(r, replaced)
    PROVE  RequestsAskedFor'
<1> DEFINE Renamed(q) == [q EXCEPT !.owner = IF @ \in replaced THEN Gone ELSE @]
           others == {Renamed(q) : q \in inflight \ {r}}
           next == {r.owner} \intersect (queued \ replaced)
           Fresh(e) == [id |-> FreshId(others), owner |-> e, sent |-> Sent(e)']
<1>1. inflight' = others \union {Fresh(e) : e \in next}
  BY DEF Finish
<1>2. ASSUME NEW q \in inflight
      PROVE  LET p == Renamed(q)
             IN  p = [id |-> p.id, owner |-> p.owner, sent |-> p.sent] /\ AskedFor(p.sent)
  <2>1. q = [id |-> q.id, owner |-> q.owner, sent |-> q.sent] /\ AskedFor(q.sent)
    BY DEF RequestsAskedFor
  <2>2. Renamed(q) = [id |-> q.id, owner |-> IF q.owner \in replaced THEN Gone ELSE q.owner,
                      sent |-> q.sent]
    BY <2>1
  <2> QED
    BY <2>1, <2>2
<1>3. ASSUME NEW e
      PROVE  LET p == Fresh(e)
             IN  p = [id |-> p.id, owner |-> p.owner, sent |-> p.sent] /\ AskedFor(p.sent)
  BY SentIsSelected
<1> HIDE DEF Renamed, Fresh
<1>4. \A p \in inflight' : /\ p = [id |-> p.id, owner |-> p.owner, sent |-> p.sent]
                           /\ AskedFor(p.sent)
  BY <1>1, <1>2, <1>3
<1> QED
  BY <1>4 DEF RequestsAskedFor, AskedFor

\* A machine has a number of slots, whether or not its page can be had.
LEMMA SlotsOfMachines ==
    ASSUME NEW m \in Machines \union {NoMachine}, NEW details \in Resolved(m)
    PROVE  details.slots \in Nat
  BY PageAssumption DEF Resolved, Details, DefaultMachine

LEMMA SelectedFromProducers ==
    ASSUME NEW i \in Items, NEW preferred
    PROVE  selectMachine(Producers[i], preferred) \in Machines \union {NoMachine}
<1>1. Producers[i] \in Seq(Machines)
  BY PageAssumption
<1> QED
  BY <1>1 DEF selectMachine, Range

\* A machine that comes in brings slots that agree.
LEMMA NewMachineAgrees ==
    ASSUME AgreeingSlots(slots), NEW n \in Nat, NEW top \in Tiers
    PROVE  AgreeingSlots([slots EXCEPT !["machine"] = EmptySlots(n, top)])
<1>1. "machine" \in Sides
  BY DEF Sides
<1> QED
  BY <1>1, EmptySlotsAgree, OneSide

-----------------------------------------------------------------------------
LEMMA InitIInv == Init => IInv
<1> SUFFICES ASSUME Init PROVE IInv
  OBVIOUS
<1>1. RecyclerSlots \in Nat /\ QualityLegendary \in Tiers
  BY PageAssumption DEF Tiers, QualityNormal, QualityLegendary
<1>2. \A side \in Sides : slots[side] = EmptySlots(IF side = "machine" THEN 0 ELSE RecyclerSlots,
                                                  QualityLegendary)
  BY DEF Init
<1>3. slots = [side \in Sides |-> slots[side]]
  BY DEF Init
<1>4. AgreeingSlots(slots)
  BY <1>1, <1>2, <1>3, EmptySlotsAgree DEF AgreeingSlots
<1> QED
  BY <1>1, <1>4 DEF Init, IInv, Selected, RequestsAskedFor

LEMMA UserActsKeepIInv ==
    ASSUME IInv, UserActs
    PROVE  IInv'
<1> USE DEF IInv
<1>1. ASSUME NEW i \in Items \union {NoItem}, ChooseItem(i) PROVE IInv'
  <2>1. Selected' /\ AgreeingSlots(slots)'
    BY <1>1 DEF ChooseItem, Selected
  <2> QED
    BY <1>1, <2>1, TriggerAsks DEF ChooseItem
<1>2. ASSUME NEW m \in Machines, ChooseMachine(m) PROVE IInv'
  <2>1. Selected' /\ AgreeingSlots(slots)'
    BY <1>2 DEF ChooseMachine, Selected
  <2> QED
    BY <1>2, <2>1, TriggerAsks DEF ChooseMachine
<1>3. ASSUME NEW side \in Sides, NEW tier \in Choices, ChooseQuality(side, tier) PROVE IInv'
  <2>1. Selected' /\ AgreeingSlots(slots)'
    BY <1>3 DEF ChooseQuality, Selected
  <2> QED
    BY <1>3, <2>1, TriggerAsks DEF ChooseQuality
<1>4. ASSUME NEW side \in Sides, NEW i \in DOMAIN slots[side],
             NEW module \in Modules \union {NoModule}, ChooseModule(side, i, module)
      PROVE  IInv'
  <2>1. Selected' /\ slots' = [slots EXCEPT ![side] = ModulesFrom(side, i, module)]
    BY <1>4 DEF ChooseModule, Selected
  <2>2. module \in ModuleIDs \union {NoModule}
    BY PageAssumption
  <2>3. AgreeingSlots(slots')
    BY <2>1, <2>2, ModulesFromAgree, OneSide
  <2> QED
    BY <1>4, <2>1, <2>3, TriggerAsks DEF ChooseModule, AgreeingSlots
<1>5. ASSUME NEW side \in Sides, NEW i \in DOMAIN slots[side], NEW tier \in Choices,
             ChooseModuleQuality(side, i, tier)
      PROVE  IInv'
  <2>1. Selected' /\ slots' = [slots EXCEPT ![side] = QualitiesFrom(side, i, tier)]
    BY <1>5 DEF ChooseModuleQuality, Selected
  <2>2. tier \in Tiers /\ ~slots[side][i].disabled
    BY <1>5, PageAssumption DEF ChooseModuleQuality
  <2>3. AgreeingSlots(slots')
    BY <2>1, <2>2, QualitiesFromAgree, OneSide
  <2> QED
    BY <1>5, <2>1, <2>3, TriggerAsks DEF ChooseModuleQuality, AgreeingSlots
<1>6. ASSUME NEW tier \in Choices, ChooseTarget(tier) PROVE IInv'
  BY <1>6 DEF ChooseTarget, Selected, RequestsAskedFor
<1>7. ASSUME NEW max \in Unlockable, ChooseMaxUnlocked(max) PROVE IInv'
  <2>1. max \in Tiers
    BY PageAssumption
  <2>2. Selected' /\ slots' = SlotsUpTo(max)
    BY <1>7, <2>1 DEF ChooseMaxUnlocked, Selected
  <2>3. AgreeingSlots(slots')
    BY <2>1, <2>2, SlotsUpToAgree
  <2>4. PICK es : Trigger({Quality("recycler")} \union es
                            \union (IF craft = NoMachine THEN {} ELSE {Quality("machine")}))
    BY <1>7 DEF ChooseMaxUnlocked
  <2> QED
    BY <2>2, <2>3, <2>4, TriggerAsks DEF AgreeingSlots
<1>8. ASSUME NEW b, NEW count, EditBox(b, count) PROVE IInv'
  <2>1. Selected' /\ AgreeingSlots(slots)'
    BY <1>8 DEF EditBox, Selected, form
  <2> QED
    BY <1>8, <2>1, TriggerAsks DEF EditBox
<1>9. ASSUME NEW b, NEW count, TypeInBox(b, count) PROVE IInv'
  BY <1>9 DEF TypeInBox, Selected, RequestsAskedFor, form
<1> QED
  BY <1>1, <1>2, <1>3, <1>4, <1>5, <1>6, <1>7, <1>8, <1>9 DEF UserActs

LEMMA PageStepsKeepIInv ==
    ASSUME IInv, PageSteps
    PROVE  IInv'
<1> USE DEF IInv
<1>1. ASSUME NEW e \in timers, DelayEnds(e) PROVE IInv'
  <2>1. Selected' /\ AgreeingSlots(slots)'
    BY <1>1 DEF DelayEnds, Selected, form
  <2> QED
    BY <1>1, <2>1, TriggerAsks DEF DelayEnds
<1>2. ASSUME NEW r \in inflight, ItemReply(r) PROVE IInv'
  <2> DEFINE m == selectMachine(Producers[r.sent.item], r.sent.craft)
  <2>1. r.sent.item \in Items /\ r.sent.max \in Tiers
    BY <1>2 DEF ItemReply, RequestsAskedFor, AskedFor
  <2>2. m \in Machines \union {NoMachine}
    BY <2>1, SelectedFromProducers
  <2>3. PICK details \in Resolved(m) :
           /\ craft' = m
           /\ slots' = [slots EXCEPT !["machine"] = EmptySlots(details.slots, r.sent.max)]
    BY <1>2 DEF ItemReply
  <2>4. Selected'
    BY <1>2, <2>2, <2>3 DEF ItemReply, Selected
  <2>5. details.slots \in Nat
    BY <2>2, SlotsOfMachines
  <2>6. AgreeingSlots(slots')
    BY <2>1, <2>3, <2>5, NewMachineAgrees
  <2> QED
    BY <1>2, <2>4, <2>6, FinishAsks DEF ItemReply, AgreeingSlots
<1>3. ASSUME NEW r \in inflight, MachineReply(r) PROVE IInv'
  <2>1. r.sent.craft \in Machines \union {NoMachine} /\ r.sent.max \in Tiers
    BY <1>3 DEF MachineReply, RequestsAskedFor, AskedFor
  <2>2. PICK details \in Resolved(r.sent.craft) :
           slots' = [slots EXCEPT !["machine"] = EmptySlots(details.slots, r.sent.max)]
    BY <1>3 DEF MachineReply
  <2>3. Selected'
    BY <1>3 DEF MachineReply, Selected
  <2>4. details.slots \in Nat
    BY <2>1, SlotsOfMachines
  <2>5. AgreeingSlots(slots')
    BY <2>1, <2>2, <2>4, NewMachineAgrees
  <2> QED
    BY <1>3, <2>3, <2>5, FinishAsks DEF MachineReply, AgreeingSlots
<1>4. ASSUME NEW r \in inflight, ModuleStatsReply(r) PROVE IInv'
  <2>1. Selected' /\ AgreeingSlots(slots)'
    BY <1>4 DEF ModuleStatsReply, Selected
  <2> QED
    BY <1>4, <2>1, FinishAsks DEF ModuleStatsReply
<1>5. ASSUME NEW r \in inflight, RecyclerStatsReply(r) PROVE IInv'
  <2>1. Selected' /\ AgreeingSlots(slots)'
    BY <1>5 DEF RecyclerStatsReply, Selected
  <2> QED
    BY <1>5, <2>1, FinishAsks DEF RecyclerStatsReply
<1>6. ASSUME NEW r \in inflight, PlanReply(r) PROVE IInv'
  <2>1. Selected' /\ AgreeingSlots(slots)'
    BY <1>6 DEF PlanReply, Selected, form
  <2> QED
    BY <1>6, <2>1, FinishAsks DEF PlanReply
<1>7. ASSUME NEW r \in inflight, EmptyReply(r) PROVE IInv'
  <2>1. Selected' /\ AgreeingSlots(slots)'
    BY <1>7 DEF EmptyReply, Selected, form
  <2> QED
    BY <1>7, <2>1, FinishAsks DEF EmptyReply
<1> QED
  BY <1>1, <1>2, <1>3, <1>4, <1>5, <1>6, <1>7 DEF PageSteps, Reply

\* In every state of the page the quality of a slot can be chosen if and only if
\* the slot has a module, is Normal if it has none, and is one the select offers.
THEOREM SlotsAlwaysAgree == Spec => []SlotsAgree
<1>1. IInv /\ UNCHANGED vars => IInv'
  BY DEF IInv, Selected, RequestsAskedFor, vars, form, net
<1>2. IInv /\ [Next]_vars => IInv'
  BY <1>1, UserActsKeepIInv, PageStepsKeepIInv DEF Next
<1>3. IInv => SlotsAgree
  BY DEF IInv, AgreeingSlots, AgreeingSlot, SlotsAgree
<1> QED
  BY InitIInv, <1>2, <1>3, PTL DEF Spec

-----------------------------------------------------------------------------
(* Elements and the requests they have                                     *)

PlanElements == {Form} \union {Box(b) : b \in Boxes}

PartialElement(e) ==
    \/ e \in {Item, Craft}
    \/ \E side \in Sides :
         \/ e = Quality(side)
         \/ \E i \in Int : e = Module(side, i) \/ e = ModuleQuality(side, i)

IsPlan(r) == r.sent.kind = "plan"

\* What an element asks for follows from what it is, until it is replaced.
OwnersAsk ==
    \A r \in inflight :
      r.owner # Gone => \/ r.owner \in PlanElements /\ IsPlan(r)
                        \/ PartialElement(r.owner) /\ ~IsPlan(r)

NetInv ==
    /\ IsFiniteSet(inflight)
    /\ timers \subseteq PlanElements
    /\ \A e \in queued : (e \in PlanElements \/ PartialElement(e)) /\ Busy(e)
    /\ OwnersAsk
    /\ \A q, r \in inflight : q.owner = r.owner /\ q.owner # Gone => q = r

\* The values that the page holds and that the requests for a plan carry.
ValuesInv ==
    /\ maxUnlocked \in Unlockable /\ target \in 0 .. maxUnlocked
    /\ recipe \in Items \union {NoItem} /\ source \in Nat
    /\ quality \in [Sides -> 0 .. maxUnlocked]
    /\ \A side \in Sides : \A i \in DOMAIN slots[side] :
         slots[side][i].module \in Modules \union {NoModule}
    /\ boxes \in [Boxes -> Boxes \X Nat]
    /\ \A r \in inflight : IsPlan(r) => r.sent.origin \in Boxes \X Nat

-----------------------------------------------------------------------------
(* Partials                                                                *)

\* A request for a partial carries what is selected.
Current(r) ==
    LET sent == r.sent
    IN  /\ sent.kind = "item-details" =>
             /\ sent.item = item /\ sent.max = maxUnlocked
             /\ sent.tier = quality["recycler"] /\ sent.slots = SentSlots("recycler")
        /\ sent.kind = "machine-details" => sent.craft = craft /\ sent.max = maxUnlocked
        /\ sent.kind = "module-stats" =>
             /\ sent.craft = craft
             /\ sent.tier = quality["machine"] /\ sent.slots = SentSlots("machine")
        /\ sent.kind = "recycler-stats" =>
             /\ sent.source = source
             /\ sent.tier = quality["recycler"] /\ sent.slots = SentSlots("recycler")

BringsItem(r) == r.sent.kind = "item-details" /\ r.sent.item # NoItem

Awaits(kind) == \E r \in inflight : r.sent.kind = kind

TopsAre(side, top) == \A i \in DOMAIN slots[side] : slots[side][i].top = top

MachineShown ==
    \/ \E tier \in ShownTiers :
         stats["machine"] = EffectiveMachine(Details(craft), tier, slots["machine"])
    \/ /\ stats["machine"] = FieldsOf(Details(craft))
       /\ \A i \in DOMAIN slots["machine"] : slots["machine"][i].disabled

RecyclerShown ==
    \E time \in {source, ExactSource} :
      stats["recycler"] = calculateRecyclerStats(time, quality["recycler"], slots["recycler"])

\* What is not awaited is as the selects have it.
Shown ==
    /\ item # NoItem => recipe = item
    /\ TopsAre("machine", maxUnlocked)
    /\ ~Awaits("recycler-stats") => RecyclerShown
    /\ recipe # NoItem =>
         /\ craft = selectMachine(Producers[recipe], craft)
         /\ ~Awaits("machine-details") =>
              /\ DOMAIN slots["machine"] = 1 .. Details(craft).slots
              /\ ~Awaits("module-stats") => MachineShown

\* While each partial is asked for alone, the requests are for what is selected, none
\* waits behind another, and that of an item or a machine is the only one.
OrderlyInv ==
    /\ \A r \in inflight : Current(r)
    /\ \A e \in queued : e \in PlanElements
    /\ \A q, r \in inflight :
         r.sent.kind \in {"item-details", "machine-details"} /\ ~IsPlan(q) => q = r
    /\ (\A r \in inflight : ~BringsItem(r)) => Shown

FieldsInv ==
    /\ TopsAre("recycler", maxUnlocked)
    /\ orderly => OrderlyInv

-----------------------------------------------------------------------------
(* Plans                                                                   *)

\* While plans come one by one, the one that is awaited, or the last, is for the
\* target unless the form is about to submit itself, and is for the boxes unless an
\* element is about to ask for another.
AloneInv ==
    alone =>
      /\ \A q, r \in inflight : IsPlan(q) /\ IsPlan(r) => q = r
      /\ Form \notin timers \union queued =>
           /\ \A r \in inflight : IsPlan(r) => r.sent.inputs.target = target
           /\ plan # NoPlan /\ (\A r \in inflight : ~IsPlan(r)) => plan.inputs.target = target
      /\ plan # NoPlan /\ timers = {} /\ (\A r \in inflight : ~IsPlan(r)) =>
           \A b \in Boxes : boxes[b] = plan.origin

\* A target or a count that was given to a quiet page has a delay, is then asked for,
\* and at last is planned for.
WatchInv ==
    watched.since = "plan" =>
      /\ queued = {}
      /\ \/ /\ inflight = {}
            /\ \E e \in PlanElements : timers = {e} /\ boxes[Anchor(e)] = watched.origin
         \/ /\ timers = {}
            /\ \E r \in inflight : /\ inflight = {r} /\ IsPlan(r)
                      /\ r.sent.origin = watched.origin /\ r.sent.inputs = PlanInputs
         \/ Quiet /\ plan = [inputs |-> PlanInputs, origin |-> watched.origin]

-----------------------------------------------------------------------------
(* What a trigger and a reply do to the requests                           *)

LEMMA PlanElementAsks ==
    ASSUME NEW e \in PlanElements
    PROVE  /\ Sent(e)' = [kind |-> "plan", anchor |-> Anchor(e), origin |-> boxes'[Anchor(e)],
                          inputs |-> PlanInputs']
           /\ Anchor(e) \in Boxes
           /\ e # Gone /\ ~PartialElement(e)
<1>1. CASE e = Form
  <2>1. Anchor(e) = 0
    BY <1>1 DEF Anchor, QualityNormal
  <2>2. e # Item /\ e # Craft /\ e[1] = "form" /\ e # Gone
    BY <1>1 DEF Form, Item, Craft, Gone
  <2>3. ~PartialElement(e)
    BY <1>1 DEF Form, Item, Craft, PartialElement, Quality, Module, ModuleQuality
  <2> QED BY <2>1, <2>2, <2>3 DEF Sent, Boxes, Tiers, QualityNormal, QualityLegendary
<1>2. ASSUME NEW b \in Boxes, e = Box(b) PROVE Anchor(e) \in Boxes /\ e # Form /\ e[1] = "box"
                                         /\ e # Item /\ e # Craft /\ e # Gone /\ ~PartialElement(e)
  <2>1. e = <<"box", b>>
    BY <1>2 DEF Box
  <2>2. e # Form /\ e # Item /\ e # Craft /\ e # Gone
    BY <2>1 DEF Form, Item, Craft, Gone
  <2>3. Anchor(e) = b
    BY <2>1, <2>2 DEF Anchor
  <2>4. ~PartialElement(e)
    BY <2>1, <2>2 DEF PartialElement, Quality, Module, ModuleQuality
  <2> QED BY <2>1, <2>2, <2>3, <2>4
<1>3. CASE e # Form
  <2>1. Anchor(e) \in Boxes /\ e[1] = "box" /\ e # Item /\ e # Craft /\ e # Gone
        /\ ~PartialElement(e)
    BY <1>2, <1>3 DEF PlanElements
  <2> QED BY <2>1 DEF Sent
<1> QED BY <1>1, <1>3

LEMMA PartialElementAsks ==
    ASSUME NEW e, PartialElement(e)
    PROVE  /\ Sent(e)'.kind \in {"item-details", "machine-details", "module-stats",
                                 "recycler-stats"}
           /\ Sent(e)'.kind # "plan"
           /\ e # Gone /\ e \notin PlanElements
<1> DEFINE Named(d) == d[1] \in {"item", "craft", "quality", "module", "module quality"}
<1>0. Named(e)
  <2>1. CASE e \in {Item, Craft}
    <3>1. Item[1] = "item" /\ Craft[1] = "craft"
      BY DEF Item, Craft
    <3> QED BY <2>1, <3>1
  <2>2. ASSUME NEW side \in Sides, e = Quality(side) PROVE Named(e)
    BY <2>2 DEF Quality
  <2>3. ASSUME NEW side \in Sides, NEW i \in Int, e = Module(side, i) PROVE Named(e)
    BY <2>3 DEF Module
  <2>4. ASSUME NEW side \in Sides, NEW i \in Int, e = ModuleQuality(side, i) PROVE Named(e)
    BY <2>4 DEF ModuleQuality
  <2> QED BY <2>1, <2>2, <2>3, <2>4 DEF PartialElement
<1>1. e # Gone
  <2>1. Gone[1] = "gone"
    BY DEF Gone
  <2>2. "gone" \notin {"item", "craft", "quality", "module", "module quality"}
    OBVIOUS
  <2> QED BY <1>0, <2>1, <2>2
<1>2. e \notin PlanElements
  BY PlanElementAsks
<1>3. CASE e \in {Item, Craft}
  BY <1>1, <1>2, <1>3 DEF Sent
<1>4. CASE e \notin {Item, Craft}
  <2>1. e[1] \notin {"form", "box"}
    BY <1>0
  <2> QED BY <1>1, <1>2, <1>4, <2>1 DEF Sent
<1> QED BY <1>3, <1>4

\* The request that e sends among others.
Request(e, others) == [id |-> FreshId(others), owner |-> e, sent |-> Sent(e)']

LEMMA TriggerMade ==
    ASSUME NEW es, Trigger(es)
    PROVE  /\ inflight \subseteq inflight'
           /\ \A p \in inflight' :
                \/ p \in inflight
                \/ \E e \in es : ~Busy(e) /\ p = Request(e, inflight)
           /\ \A e \in es : ~Busy(e) => Request(e, inflight) \in inflight'
           /\ queued' = queued \union {e \in es : Busy(e)}
BY DEF Trigger, Request

\* A request that is under way when elements are replaced.
Renamed(q, replaced) == [q EXCEPT !.owner = IF @ \in replaced THEN Gone ELSE @]

LEMMA RenamedIs ==
    ASSUME NEW q, NEW replaced, q = [id |-> q.id, owner |-> q.owner, sent |-> q.sent]
    PROVE  /\ Renamed(q, replaced).sent = q.sent
           /\ Renamed(q, replaced).owner = IF q.owner \in replaced THEN Gone ELSE q.owner
           /\ q.owner \notin replaced => Renamed(q, replaced) = q
<1>1. Renamed(q, replaced) = [id |-> q.id, sent |-> q.sent,
                              owner |-> IF q.owner \in replaced THEN Gone ELSE q.owner]
  BY DEF Renamed
<1> QED BY <1>1

\* The others of the requests are left, and maybe a new one of the element of r.
Finished(r, replaced, others) ==
    /\ others = {Renamed(q, replaced) : q \in inflight \ {r}}
    /\ others \subseteq inflight'
    /\ \A p \in inflight' :
         \/ p \in others
         \/ r.owner \in queued \ replaced /\ p = Request(r.owner, others)
    /\ r.owner \in queued \ replaced => Request(r.owner, others) \in inflight'
    /\ queued' = queued \ (replaced \union {r.owner})
    /\ timers' = timers \ replaced

LEMMA FinishMade ==
    ASSUME NEW r, NEW replaced, Finish(r, replaced)
    PROVE  \E others : Finished(r, replaced, others)
<1> DEFINE others == {Renamed(q, replaced) : q \in inflight \ {r}}
           next == {r.owner} \intersect (queued \ replaced)
<1>1. /\ inflight' = others \union {Request(e, others) : e \in next}
      /\ queued' = queued \ (replaced \union next)
      /\ timers' = timers \ replaced
  BY DEF Finish, Renamed, Request
<1> QED BY <1>1 DEF Finished

LEMMA FiniteImage ==
    ASSUME NEW S, IsFiniteSet(S), NEW f, f = [x \in S |-> f[x]], NEW T, T = {f[x] : x \in S}
    PROVE  IsFiniteSet(T)
<1>1. f \in Surjection(S, T)
  <2>1. f \in [S -> T]
    OBVIOUS
  <2> QED BY <2>1 DEF Surjection
<1> QED BY <1>1, FS_Surjection

IsElement(e) == e \in PlanElements \/ PartialElement(e)

LEMMA ElementAsks ==
    ASSUME NEW e, IsElement(e), NEW others
    PROVE  /\ Request(e, others).owner = e /\ Request(e, others).sent = Sent(e)'
           /\ e # Gone
           /\ \/ e \in PlanElements /\ IsPlan(Request(e, others))
              \/ PartialElement(e) /\ ~IsPlan(Request(e, others))
<1>1. Request(e, others).owner = e /\ Request(e, others).sent = Sent(e)'
  BY DEF Request
<1>2. CASE e \in PlanElements
  <2>1. Sent(e)'.kind = "plan" /\ e # Gone
    BY <1>2, PlanElementAsks
  <2> QED BY <1>1, <1>2, <2>1 DEF IsPlan
<1>3. CASE PartialElement(e)
  <2>1. Sent(e)'.kind # "plan" /\ e # Gone
    BY <1>3, PartialElementAsks
  <2> QED BY <1>1, <1>3, <2>1 DEF IsPlan
<1> QED BY <1>2, <1>3 DEF IsElement

LEMMA TriggerKeepsNet ==
    ASSUME NetInv, NEW es, IsFiniteSet(es), \A e \in es : IsElement(e), Trigger(es),
           timers' \subseteq PlanElements
    PROVE  NetInv'
<1>1. /\ inflight \subseteq inflight'
      /\ \A p \in inflight' :
           \/ p \in inflight
           \/ \E e \in es : ~Busy(e) /\ p = Request(e, inflight)
      /\ \A e \in es : ~Busy(e) => Request(e, inflight) \in inflight'
      /\ queued' = queued \union {e \in es : Busy(e)}
  BY TriggerMade
<1>2. \A e \in es : /\ Request(e, inflight).owner = e /\ e # Gone
                    /\ \/ e \in PlanElements /\ IsPlan(Request(e, inflight))
                       \/ PartialElement(e) /\ ~IsPlan(Request(e, inflight))
  BY ElementAsks
<1>3. IsFiniteSet(inflight')
  <2> DEFINE free == {e \in es : ~Busy(e)}
             f == [e \in free |-> Request(e, inflight)]
             made == {f[e] : e \in free}
  <2>1. IsFiniteSet(free)
    BY FS_Subset
  <2>2. IsFiniteSet(made)
    <3>1. f = [e \in free |-> f[e]]
      OBVIOUS
    <3> HIDE DEF f, free
    <3> QED BY <2>1, <3>1, FiniteImage
  <2>3. inflight' = inflight \union made
    BY DEF Trigger, Request
  <2> HIDE DEF made
  <2> QED BY <2>2, <2>3, FS_Union DEF NetInv
<1>4. \A e \in queued' : IsElement(e) /\ Busy(e)'
  BY <1>1 DEF NetInv, Busy, IsElement
<1>5. OwnersAsk'
  <2> SUFFICES ASSUME NEW p \in inflight', p.owner # Gone
               PROVE  \/ p.owner \in PlanElements /\ IsPlan(p)
                      \/ PartialElement(p.owner) /\ ~IsPlan(p)
    BY DEF OwnersAsk, IsPlan, PlanElements, PartialElement
  <2>1. CASE p \in inflight
    BY <2>1 DEF NetInv, OwnersAsk
  <2>2. CASE p \notin inflight
    BY <2>2, <1>1, <1>2
  <2> QED BY <2>1, <2>2
<1>6. \A q, p \in inflight' : q.owner = p.owner /\ q.owner # Gone => q = p
  <2> SUFFICES ASSUME NEW q \in inflight', NEW p \in inflight', q.owner = p.owner,
                      q.owner # Gone
               PROVE  q = p
    OBVIOUS
  <2>1. CASE q \in inflight /\ p \in inflight
    BY <2>1 DEF NetInv
  <2>2. ASSUME NEW a \in inflight', NEW b \in inflight', a \in inflight, b \notin inflight,
               a.owner = b.owner
        PROVE  FALSE
    <3>1. PICK e \in es : ~Busy(e) /\ b = Request(e, inflight)
      BY <1>1, <2>2
    <3> QED BY <2>2, <3>1, <1>2 DEF Busy
  <2>3. CASE q \notin inflight /\ p \notin inflight
    BY <2>3, <1>1, <1>2
  <2> QED BY <2>1, <2>2, <2>3
<1> QED BY <1>3, <1>4, <1>5, <1>6 DEF NetInv, IsElement

LEMMA FinishKeepsNet ==
    ASSUME NetInv, RequestsAskedFor, NEW r \in inflight, NEW replaced, Finish(r, replaced)
    PROVE  NetInv'
<1>0. PICK others : Finished(r, replaced, others)
  BY FinishMade
<1>1. /\ others = {Renamed(q, replaced) : q \in inflight \ {r}}
      /\ others \subseteq inflight'
      /\ \A p \in inflight' :
           \/ p \in others
           \/ r.owner \in queued \ replaced /\ p = Request(r.owner, others)
      /\ r.owner \in queued \ replaced => Request(r.owner, others) \in inflight'
      /\ queued' = queued \ (replaced \union {r.owner})
      /\ timers' = timers \ replaced
  BY <1>0 DEF Finished
<1>2. \A q \in inflight :
        /\ Renamed(q, replaced).sent = q.sent
        /\ Renamed(q, replaced).owner = IF q.owner \in replaced THEN Gone ELSE q.owner
        /\ q.owner \notin replaced => Renamed(q, replaced) = q
  BY RenamedIs DEF RequestsAskedFor
<1>3. r.owner \in queued =>
        /\ Request(r.owner, others).owner = r.owner /\ r.owner # Gone
        /\ \/ r.owner \in PlanElements /\ IsPlan(Request(r.owner, others))
           \/ PartialElement(r.owner) /\ ~IsPlan(Request(r.owner, others))
  BY ElementAsks DEF NetInv, IsElement
<1>4. IsFiniteSet(inflight')
  <2> DEFINE left == inflight \ {r}
             f == [q \in left |-> Renamed(q, replaced)]
  <2>1. IsFiniteSet(left)
    BY FS_Subset DEF NetInv
  <2>2. IsFiniteSet(others)
    <3>1. f = [q \in left |-> f[q]] /\ others = {f[q] : q \in left}
      BY <1>1
    <3> HIDE DEF f, left
    <3> QED BY <2>1, <3>1, FiniteImage
  <2>3. IsFiniteSet(others \union {Request(r.owner, others)})
    BY <2>2, FS_AddElement
  <2>4. inflight' \subseteq others \union {Request(r.owner, others)}
    BY <1>1
  <2> QED BY <2>3, <2>4, FS_Subset
<1>5. \A e \in queued' : IsElement(e) /\ Busy(e)'
  <2> SUFFICES ASSUME NEW e \in queued' PROVE IsElement(e) /\ Busy(e)'
    OBVIOUS
  <2>1. e \in queued /\ e \notin replaced /\ e # r.owner
    BY <1>1
  <2>2. PICK q \in inflight : q.owner = e
    BY <2>1 DEF NetInv, Busy
  <2>3. q \in inflight'
    BY <2>1, <2>2, <1>1, <1>2
  <2> QED BY <2>1, <2>2, <2>3 DEF NetInv, IsElement, Busy
<1>6. OwnersAsk'
  <2> SUFFICES ASSUME NEW p \in inflight', p.owner # Gone
               PROVE  \/ p.owner \in PlanElements /\ IsPlan(p)
                      \/ PartialElement(p.owner) /\ ~IsPlan(p)
    BY DEF OwnersAsk, IsPlan, PlanElements, PartialElement
  <2>1. CASE p \in others
    <3>1. PICK q \in inflight : p = Renamed(q, replaced)
      BY <2>1, <1>1
    <3>2. p = q
      BY <3>1, <1>2
    <3> QED BY <3>2 DEF NetInv, OwnersAsk
  <2>2. CASE p \notin others
    BY <2>2, <1>1, <1>3
  <2> QED BY <2>1, <2>2
<1>7. \A q, p \in inflight' : q.owner = p.owner /\ q.owner # Gone => q = p
  <2>1. \A p \in others : p.owner # Gone => p \in inflight \ {r}
    <3> SUFFICES ASSUME NEW p \in others, p.owner # Gone PROVE p \in inflight \ {r}
      OBVIOUS
    <3>1. PICK q \in inflight \ {r} : p = Renamed(q, replaced)
      BY <1>1
    <3>2. p = q
      BY <3>1, <1>2
    <3> QED BY <3>1, <3>2
  <2> SUFFICES ASSUME NEW q \in inflight', NEW p \in inflight', q.owner = p.owner,
                      q.owner # Gone
               PROVE  q = p
    OBVIOUS
  <2>2. CASE q \in others /\ p \in others
    BY <2>1, <2>2 DEF NetInv
  <2>3. ASSUME NEW a \in others, NEW b \in inflight', b \notin others, a.owner = b.owner,
               a.owner # Gone
        PROVE  FALSE
    BY <2>1, <2>3, <1>1, <1>3 DEF NetInv
  <2>4. CASE q \notin others /\ p \notin others
    BY <2>4, <1>1
  <2> QED BY <2>2, <2>3, <2>4
<1> QED BY <1>1, <1>4, <1>5, <1>6, <1>7 DEF NetInv, IsElement

LEMMA ElementsAre ==
    /\ IsElement(Form) /\ Form \in PlanElements
    /\ IsElement(Item) /\ IsElement(Craft)
    /\ \A side \in Sides : IsElement(Quality(side))
    /\ \A side \in Sides, i \in Int :
         IsElement(Module(side, i)) /\ IsElement(ModuleQuality(side, i))
    /\ \A b \in Boxes : IsElement(Box(b)) /\ Box(b) \in PlanElements
    /\ \A side : SlotTimers(side) \subseteq PlanElements
BY DEF IsElement, PlanElements, PartialElement, SlotTimers

LEMMA FewAreFinite ==
    ASSUME NEW a, NEW b, NEW c
    PROVE  IsFiniteSet({}) /\ IsFiniteSet({a}) /\ IsFiniteSet({a, b}) /\ IsFiniteSet({a, b, c})
<1>1. {a, b} = {a} \union {b} /\ {a, b, c} = {a, b} \union {c}
  OBVIOUS
<1>2. IsFiniteSet({}) /\ IsFiniteSet({a})
  BY FS_EmptySet, FS_Singleton
<1>3. IsFiniteSet({a} \union {b})
  BY <1>2, FS_AddElement
<1>4. IsFiniteSet({a, b} \union {c})
  BY <1>1, <1>3, FS_AddElement
<1> QED BY <1>1, <1>2, <1>3, <1>4

LEMMA OneTriggerKeepsNet ==
    ASSUME NetInv, NEW e, IsElement(e), Trigger({e}), timers' \subseteq PlanElements
    PROVE  NetInv'
BY FewAreFinite, TriggerKeepsNet

LEMMA NetStays ==
    ASSUME NetInv, UNCHANGED <<inflight, queued>>, timers' \subseteq PlanElements
    PROVE  NetInv'
BY DEF NetInv, OwnersAsk, IsPlan, Busy, PartialElement

\* Another quality unlocked triggers those of the sides, and at most one box.
LEMMA UnlockTriggers ==
    ASSUME NEW max \in Unlockable, ChooseMaxUnlocked(max)
    PROVE  \E es :
             /\ Trigger(es) /\ IsFiniteSet(es)
             /\ \A e \in es : e \in {Quality(side) : side \in Sides} \union {Box(b) : b \in Boxes}
             /\ Quality("recycler") \in es
             /\ craft # NoMachine => Quality("machine") \in es
             /\ Form \in timers'
             /\ timers' \subseteq timers \union {Form} /\ timers \ timers' \subseteq es
<1>1. PICK boxed \in {{}} \union {{Box(b)} : b \in Boxes} :
        /\ Trigger({Quality("recycler")} \union boxed
                     \union (IF craft = NoMachine THEN {} ELSE {Quality("machine")}))
        /\ timers' = (timers \ boxed) \union {Form}
  BY DEF ChooseMaxUnlocked
<1> DEFINE es == {Quality("recycler")} \union boxed
                   \union (IF craft = NoMachine THEN {} ELSE {Quality("machine")})
<1>2. IsFiniteSet(es)
  <2>1. IsFiniteSet(boxed)
    BY FewAreFinite
  <2>2. IsFiniteSet({Quality("recycler")})
    BY FewAreFinite
  <2>3. IsFiniteSet(IF craft = NoMachine THEN {} ELSE {Quality("machine")})
    <3>1. IsFiniteSet({}) /\ IsFiniteSet({Quality("machine")})
      BY FewAreFinite
    <3> QED BY <3>1
  <2>4. IsFiniteSet({Quality("recycler")} \union boxed)
    BY <2>1, <2>2, FS_Union
  <2> QED BY <2>3, <2>4, FS_Union
<1>3. \A e \in es : e \in {Quality(side) : side \in Sides} \union {Box(b) : b \in Boxes}
  BY DEF Sides
<1>4. Trigger(es)
  BY <1>1
<1>5. Quality("recycler") \in es /\ (craft # NoMachine => Quality("machine") \in es)
  OBVIOUS
<1>6. Form \in timers' /\ timers' \subseteq timers \union {Form} /\ timers \ timers' \subseteq es
  BY <1>1
<1> HIDE DEF es
<1> QED BY <1>2, <1>3, <1>4, <1>5, <1>6

LEMMA UserActsKeepNet ==
    ASSUME IInv, NetInv, UserActs
    PROVE  NetInv'
<1>0. timers \subseteq PlanElements
  BY DEF NetInv
<1>1. ASSUME NEW i \in Items \union {NoItem}, ChooseItem(i) PROVE NetInv'
  BY <1>0, <1>1, ElementsAre, OneTriggerKeepsNet DEF ChooseItem
<1>2. ASSUME NEW m \in Machines, ChooseMachine(m) PROVE NetInv'
  BY <1>0, <1>2, ElementsAre, OneTriggerKeepsNet DEF ChooseMachine
<1>3. ASSUME NEW side \in Sides, NEW tier \in Choices, ChooseQuality(side, tier) PROVE NetInv'
  BY <1>0, <1>3, ElementsAre, OneTriggerKeepsNet DEF ChooseQuality
<1>4. ASSUME NEW side \in Sides, NEW i \in DOMAIN slots[side] PROVE i \in Int
  BY <1>4 DEF IInv, AgreeingSlots
<1>5. ASSUME NEW side \in Sides, NEW i \in DOMAIN slots[side], NEW module,
             ChooseModule(side, i, module)
      PROVE  NetInv'
  <2>1. i \in Int
    BY <1>4
  <2> QED BY <1>0, <2>1, <1>5, ElementsAre, OneTriggerKeepsNet DEF ChooseModule
<1>6. ASSUME NEW side \in Sides, NEW i \in DOMAIN slots[side], NEW tier,
             ChooseModuleQuality(side, i, tier)
      PROVE  NetInv'
  <2>1. i \in Int
    BY <1>4
  <2> QED BY <1>0, <2>1, <1>6, ElementsAre, OneTriggerKeepsNet DEF ChooseModuleQuality
<1>7. ASSUME NEW tier, ChooseTarget(tier) PROVE NetInv'
  BY <1>0, <1>7, ElementsAre, NetStays DEF ChooseTarget
<1>8. ASSUME NEW max \in Unlockable, ChooseMaxUnlocked(max) PROVE NetInv'
  <2>1. PICK es :
          /\ Trigger(es) /\ IsFiniteSet(es)
          /\ \A e \in es : e \in {Quality(side) : side \in Sides} \union {Box(b) : b \in Boxes}
          /\ timers' \subseteq timers \union {Form}
    BY <1>8, UnlockTriggers
  <2>2. \A e \in es : IsElement(e)
    BY <2>1, ElementsAre
  <2> QED BY <1>0, <2>1, <2>2, ElementsAre, TriggerKeepsNet
<1>9. ASSUME NEW b \in Edited, NEW count, EditBox(b, count) PROVE NetInv'
  <2>1. b \in Boxes
    BY EditsAssumption
  <2> QED BY <1>0, <1>9, <2>1, ElementsAre, OneTriggerKeepsNet DEF EditBox
<1>10. ASSUME NEW b \in Edited, NEW count, TypeInBox(b, count) PROVE NetInv'
  <2>1. b \in Boxes
    BY EditsAssumption
  <2> QED BY <1>0, <1>10, <2>1, ElementsAre, NetStays DEF TypeInBox
<1> QED BY <1>1, <1>2, <1>3, <1>5, <1>6, <1>7, <1>8, <1>9, <1>10 DEF UserActs

\* Every reply ends its request.
LEMMA RepliesFinish ==
    ASSUME NEW r, Reply(r)
    PROVE  \E replaced : Finish(r, replaced)
BY DEF Reply, ItemReply, MachineReply, ModuleStatsReply, RecyclerStatsReply, PlanReply, EmptyReply

LEMMA PageStepsKeepNet ==
    ASSUME IInv, NetInv, PageSteps
    PROVE  NetInv'
<1>1. ASSUME NEW e \in timers, DelayEnds(e) PROVE NetInv'
  <2>1. IsElement(e) /\ timers' \subseteq PlanElements
    BY <1>1 DEF DelayEnds, NetInv, IsElement
  <2> QED BY <1>1, <2>1, OneTriggerKeepsNet DEF DelayEnds
<1>2. ASSUME NEW r \in inflight, Reply(r) PROVE NetInv'
  BY <1>2, RepliesFinish, FinishKeepsNet DEF IInv
<1> QED BY <1>1, <1>2 DEF PageSteps

-----------------------------------------------------------------------------
(* Values                                                                  *)

Chosen == Modules \union {NoModule}

HaveModules(all) ==
    \A side \in Sides : \A i \in DOMAIN all[side] : all[side][i].module \in Chosen

FieldsTyped ==
    /\ maxUnlocked \in Unlockable /\ target \in 0 .. maxUnlocked
    /\ recipe \in Items \union {NoItem} /\ source \in Nat
    /\ quality \in [Sides -> 0 .. maxUnlocked]
    /\ HaveModules(slots)
    /\ boxes \in [Boxes -> Boxes \X Nat]

PlansTyped == \A r \in inflight : IsPlan(r) => r.sent.origin \in Boxes \X Nat

LEMMA ValuesAre == ValuesInv <=> FieldsTyped /\ PlansTyped
BY DEF ValuesInv, FieldsTyped, PlansTyped, HaveModules, Chosen

LEMMA TriggerKeepsPlans ==
    ASSUME PlansTyped, FieldsTyped', NEW es, Trigger(es), \A e \in es : IsElement(e)
    PROVE  PlansTyped'
<1>1. \A p \in inflight' :
        \/ p \in inflight
        \/ \E e \in es : ~Busy(e) /\ p = Request(e, inflight)
  BY TriggerMade
<1>2. ASSUME NEW e \in es, IsPlan(Request(e, inflight))
      PROVE  Request(e, inflight).sent.origin \in Boxes \X Nat
  <2>1. e \in PlanElements /\ Request(e, inflight).sent = Sent(e)'
    BY <1>2, ElementAsks
  <2>2. Sent(e)'.origin = boxes'[Anchor(e)] /\ Anchor(e) \in Boxes
    BY <2>1, PlanElementAsks
  <2> QED BY <2>1, <2>2 DEF FieldsTyped
<1> QED BY <1>1, <1>2 DEF PlansTyped, IsPlan

LEMMA FinishKeepsPlans ==
    ASSUME NetInv, RequestsAskedFor, PlansTyped, FieldsTyped',
           NEW r \in inflight, NEW replaced, Finish(r, replaced)
    PROVE  PlansTyped'
<1>0. PICK others : Finished(r, replaced, others)
  BY FinishMade
<1>1. /\ others = {Renamed(q, replaced) : q \in inflight \ {r}}
      /\ \A p \in inflight' :
           \/ p \in others
           \/ r.owner \in queued \ replaced /\ p = Request(r.owner, others)
  BY <1>0 DEF Finished
<1>2. \A q \in inflight : Renamed(q, replaced).sent = q.sent
  BY RenamedIs DEF RequestsAskedFor
<1>3. ASSUME r.owner \in queued, IsPlan(Request(r.owner, others))
      PROVE  Request(r.owner, others).sent.origin \in Boxes \X Nat
  <2>1. r.owner \in PlanElements /\ Request(r.owner, others).sent = Sent(r.owner)'
    BY <1>3, ElementAsks DEF NetInv, IsElement
  <2>2. Sent(r.owner)'.origin = boxes'[Anchor(r.owner)] /\ Anchor(r.owner) \in Boxes
    BY <2>1, PlanElementAsks
  <2> QED BY <2>1, <2>2 DEF FieldsTyped
<1> QED BY <1>1, <1>2, <1>3 DEF PlansTyped, IsPlan

\* What the scripts make of the slots of a side has modules that can be chosen.
LEMMA OneSideHasModules ==
    ASSUME AgreeingSlots(slots), HaveModules(slots), NEW side \in Sides, NEW some,
           \A i \in DOMAIN some : some[i].module \in Chosen
    PROVE  HaveModules([slots EXCEPT ![side] = some])
BY DEF AgreeingSlots, HaveModules

LEMMA ModulesFromHave ==
    ASSUME AgreeingSlots(slots), HaveModules(slots), NEW side \in Sides,
           NEW i \in DOMAIN slots[side], NEW module \in Chosen
    PROVE  /\ DOMAIN ModulesFrom(side, i, module) = DOMAIN slots[side]
           /\ \A j \in DOMAIN slots[side] :
                /\ ModulesFrom(side, i, module)[j].module \in Chosen
                /\ ModulesFrom(side, i, module)[j].top = slots[side][j].top
<1>1. DOMAIN ModulesFrom(side, i, module) = DOMAIN slots[side]
  BY DEF ModulesFrom
<1>2. ASSUME NEW j \in DOMAIN slots[side]
      PROVE  /\ ModulesFrom(side, i, module)[j].module \in Chosen
             /\ ModulesFrom(side, i, module)[j].top = slots[side][j].top
  <2> DEFINE slot == slots[side][j]
             chosen == slots[side][i].quality
             level == IF module = NoModule \/ chosen > slot.top THEN QualityNormal ELSE chosen
             made == [slot EXCEPT !.module = module, !.disabled = (module = NoModule),
                                  !.quality = level]
  <2>1. ModulesFrom(side, i, module)[j] = IF j < i THEN slot ELSE made
    BY DEF ModulesFrom
  <2>2. slot.module \in Chosen
    BY DEF HaveModules
  <2>3. made.module = module /\ made.top = slot.top
    <3>1. slot \in [module : ModuleIDs \union {NoModule}, quality : Tiers,
                    disabled : BOOLEAN, top : Tiers]
      BY DEF AgreeingSlots, AgreeingSlot
    <3> HIDE DEF slot, level
    <3> QED BY <3>1
  <2> QED BY <2>1, <2>2, <2>3
<1> QED BY <1>1, <1>2

LEMMA QualitiesFromHave ==
    ASSUME AgreeingSlots(slots), HaveModules(slots), NEW side \in Sides,
           NEW i \in DOMAIN slots[side], NEW tier
    PROVE  /\ DOMAIN QualitiesFrom(side, i, tier) = DOMAIN slots[side]
           /\ \A j \in DOMAIN slots[side] :
                /\ QualitiesFrom(side, i, tier)[j].module \in Chosen
                /\ QualitiesFrom(side, i, tier)[j].top = slots[side][j].top
<1>1. DOMAIN QualitiesFrom(side, i, tier) = DOMAIN slots[side]
  BY DEF QualitiesFrom
<1>2. ASSUME NEW j \in DOMAIN slots[side]
      PROVE  /\ QualitiesFrom(side, i, tier)[j].module \in Chosen
             /\ QualitiesFrom(side, i, tier)[j].top = slots[side][j].top
  <2> DEFINE slot == slots[side][j]
             level == IF tier > slot.top THEN QualityNormal ELSE tier
             made == [slot EXCEPT !.quality = level]
  <2>1. \/ QualitiesFrom(side, i, tier)[j] = slot
        \/ QualitiesFrom(side, i, tier)[j] = made
    BY DEF QualitiesFrom
  <2>2. slot.module \in Chosen
    BY DEF HaveModules
  <2>3. made.module = slot.module /\ made.top = slot.top
    <3>1. slot \in [module : ModuleIDs \union {NoModule}, quality : Tiers,
                    disabled : BOOLEAN, top : Tiers]
      BY DEF AgreeingSlots, AgreeingSlot
    <3> HIDE DEF slot, level
    <3> QED BY <3>1
  <2> QED BY <2>1, <2>2, <2>3
<1> QED BY <1>1, <1>2

LEMMA SlotsUpToHave ==
    ASSUME AgreeingSlots(slots), HaveModules(slots), NEW max
    PROVE  /\ HaveModules(SlotsUpTo(max))
           /\ \A side \in Sides :
                /\ DOMAIN SlotsUpTo(max)[side] = DOMAIN slots[side]
                /\ \A i \in DOMAIN slots[side] : SlotsUpTo(max)[side][i].top = max
<1>1. \A side \in Sides : DOMAIN SlotsUpTo(max)[side] = DOMAIN slots[side]
  BY DEF SlotsUpTo
<1>2. ASSUME NEW side \in Sides, NEW i \in DOMAIN slots[side]
      PROVE  SlotsUpTo(max)[side][i].module \in Chosen /\ SlotsUpTo(max)[side][i].top = max
  <2> DEFINE slot == slots[side][i]
             level == Capped(slot.quality, max, max)
             made == [slot EXCEPT !.top = max, !.quality = level,
                                  !.disabled = (slot.module = NoModule)]
  <2>1. SlotsUpTo(max)[side][i] = made
    BY DEF SlotsUpTo
  <2>2. slot.module \in Chosen
    BY DEF HaveModules
  <2>3. made.module = slot.module /\ made.top = max
    <3>1. slot \in [module : ModuleIDs \union {NoModule}, quality : Tiers,
                    disabled : BOOLEAN, top : Tiers]
      BY DEF AgreeingSlots, AgreeingSlot
    <3> HIDE DEF slot, level
    <3> QED BY <3>1
  <2> QED BY <2>1, <2>2, <2>3
<1> QED BY <1>1, <1>2 DEF HaveModules

LEMMA EmptySlotsHave ==
    ASSUME NEW n, NEW top
    PROVE  /\ DOMAIN EmptySlots(n, top) = 1 .. n
           /\ \A i \in DOMAIN EmptySlots(n, top) :
                /\ EmptySlots(n, top)[i].module \in Chosen
                /\ EmptySlots(n, top)[i].top = top
                /\ EmptySlots(n, top)[i].disabled
BY DEF EmptySlots, Chosen

LEMMA SourceIsTime ==
    ASSUME NEW i \in Items
    PROVE  ShownSource(recycleTimeSourceFromCraftTime(CraftTime[i])) \in Nat
<1> DEFINE exact == recycleTimeSourceFromCraftTime(CraftTime[i])
<1>1. exact \in Nat
  BY PageAssumption DEF recycleTimeSourceFromCraftTime
<1> HIDE DEF exact
<1>2. 16 \div 2 = 8
  OBVIOUS
<1>3. (exact + 8) \div 16 \in Nat
  BY <1>1
<1>4. formatStatValue(exact, 16) \in Nat
  BY <1>2, <1>3 DEF formatStatValue
<1>5. ShownSource(exact) \in Nat
  BY <1>4 DEF ShownSource
<1> QED BY <1>5 DEF exact

LEMMA OneTriggerKeepsPlans ==
    ASSUME PlansTyped, FieldsTyped', NEW e, IsElement(e), Trigger({e})
    PROVE  PlansTyped'
BY TriggerKeepsPlans

LEMMA UserActsKeepValues ==
    ASSUME IInv, NetInv, ValuesInv, UserActs
    PROVE  ValuesInv'
<1>0. FieldsTyped /\ PlansTyped /\ AgreeingSlots(slots)
  BY ValuesAre DEF IInv
<1>1. SUFFICES FieldsTyped' /\ PlansTyped'
  <2>1. (FieldsTyped /\ PlansTyped)' => ValuesInv'
    BY DEF ValuesInv, FieldsTyped, PlansTyped, HaveModules, Chosen
  <2> QED BY <2>1
<1>2. ASSUME NEW i \in Items \union {NoItem}, ChooseItem(i) PROVE FieldsTyped' /\ PlansTyped'
  <2>1. FieldsTyped'
    BY <1>0, <1>2 DEF ChooseItem, FieldsTyped, HaveModules
  <2> QED BY <1>0, <1>2, <2>1, ElementsAre, OneTriggerKeepsPlans DEF ChooseItem
<1>3. ASSUME NEW m \in Machines, ChooseMachine(m) PROVE FieldsTyped' /\ PlansTyped'
  <2>1. FieldsTyped'
    BY <1>0, <1>3 DEF ChooseMachine, FieldsTyped, HaveModules
  <2> QED BY <1>0, <1>3, <2>1, ElementsAre, OneTriggerKeepsPlans DEF ChooseMachine
<1>4. ASSUME NEW side \in Sides, NEW tier \in Choices, ChooseQuality(side, tier)
      PROVE  FieldsTyped' /\ PlansTyped'
  <2>1. maxUnlocked \in Tiers /\ tier \in Tiers
    BY <1>0, PageAssumption DEF FieldsTyped
  <2>2. tier \in 0 .. maxUnlocked
    BY <1>4, <2>1 DEF ChooseQuality, Tiers, QualityNormal, QualityLegendary
  <2>3. FieldsTyped'
    BY <1>0, <1>4, <2>2 DEF ChooseQuality, FieldsTyped, HaveModules
  <2> QED BY <1>0, <1>4, <2>3, ElementsAre, OneTriggerKeepsPlans DEF ChooseQuality
<1>5. ASSUME NEW side \in Sides, NEW i \in DOMAIN slots[side], NEW module \in Chosen,
             ChooseModule(side, i, module)
      PROVE  FieldsTyped' /\ PlansTyped'
  <2>1. HaveModules([slots EXCEPT ![side] = ModulesFrom(side, i, module)])
    BY <1>0, ModulesFromHave, OneSideHasModules DEF FieldsTyped
  <2>2. FieldsTyped'
    BY <1>0, <1>5, <2>1 DEF ChooseModule, FieldsTyped, HaveModules
  <2>3. i \in Int
    BY <1>0 DEF AgreeingSlots
  <2> QED BY <1>0, <1>5, <2>2, <2>3, ElementsAre, OneTriggerKeepsPlans DEF ChooseModule
<1>6. ASSUME NEW side \in Sides, NEW i \in DOMAIN slots[side], NEW tier,
             ChooseModuleQuality(side, i, tier)
      PROVE  FieldsTyped' /\ PlansTyped'
  <2>1. HaveModules([slots EXCEPT ![side] = QualitiesFrom(side, i, tier)])
    BY <1>0, QualitiesFromHave, OneSideHasModules DEF FieldsTyped
  <2>2. FieldsTyped'
    BY <1>0, <1>6, <2>1 DEF ChooseModuleQuality, FieldsTyped, HaveModules
  <2>3. i \in Int
    BY <1>0 DEF AgreeingSlots
  <2> QED BY <1>0, <1>6, <2>2, <2>3, ElementsAre, OneTriggerKeepsPlans DEF ChooseModuleQuality
<1>7. ASSUME NEW tier \in Choices, ChooseTarget(tier) PROVE FieldsTyped' /\ PlansTyped'
  <2>1. maxUnlocked \in Tiers /\ tier \in Tiers
    BY <1>0, PageAssumption DEF FieldsTyped
  <2>2. tier \in 0 .. maxUnlocked
    BY <1>7, <2>1 DEF ChooseTarget, Tiers, QualityNormal, QualityLegendary
  <2> QED BY <1>0, <1>7, <2>2 DEF ChooseTarget, FieldsTyped, HaveModules, PlansTyped, IsPlan
<1>8. ASSUME NEW max \in Unlockable, ChooseMaxUnlocked(max) PROVE FieldsTyped' /\ PlansTyped'
  <2>1. max \in Tiers /\ maxUnlocked \in Tiers
    BY <1>0, PageAssumption DEF FieldsTyped
  <2>2. \A tier \in 0 .. maxUnlocked :
          Capped(tier, max, max) \in 0 .. max /\ Capped(tier, QualityNormal, max) \in 0 .. max
    BY <2>1 DEF Capped, Tiers, QualityNormal, QualityLegendary
  <2>3. HaveModules(SlotsUpTo(max))
    BY <1>0, SlotsUpToHave DEF FieldsTyped
  <2>4. Zero \in Boxes \X Nat
    BY DEF Zero, Boxes
  <2>5. FieldsTyped'
    <3>1. /\ maxUnlocked' = max /\ target' = Capped(target, max, max)
          /\ quality' = [side \in Sides |-> Capped(quality[side], QualityNormal, max)]
          /\ slots' = SlotsUpTo(max)
          /\ boxes' = [b \in Boxes |-> IF b > max THEN Zero ELSE boxes[b]]
          /\ recipe' = recipe /\ source' = source
      BY <1>8 DEF ChooseMaxUnlocked
    <3>2. quality' \in [Sides -> 0 .. max]
      BY <1>0, <2>2, <3>1 DEF FieldsTyped
    <3>3. boxes' \in [Boxes -> Boxes \X Nat]
      BY <1>0, <2>4, <3>1 DEF FieldsTyped
    <3>4. HaveModules(slots')
      BY <2>3, <3>1
    <3> QED BY <1>0, <2>2, <3>1, <3>2, <3>3, <3>4 DEF FieldsTyped, HaveModules
  <2>6. PICK es :
          /\ Trigger(es)
          /\ \A e \in es : e \in {Quality(side) : side \in Sides} \union {Box(b) : b \in Boxes}
    BY <1>8, UnlockTriggers
  <2>7. \A e \in es : IsElement(e)
    BY <2>6, ElementsAre
  <2> QED BY <1>0, <2>5, <2>6, <2>7, TriggerKeepsPlans
<1>9. ASSUME NEW b \in Edited, NEW count \in Counts, EditBox(b, count)
      PROVE  FieldsTyped' /\ PlansTyped'
  <2>1. b \in Boxes /\ <<b, count>> \in Boxes \X Nat
    BY EditsAssumption
  <2>2. FieldsTyped'
    BY <1>0, <1>9, <2>1 DEF EditBox, FieldsTyped, HaveModules, form
  <2> QED BY <1>0, <1>9, <2>1, <2>2, ElementsAre, OneTriggerKeepsPlans DEF EditBox
<1>10. ASSUME NEW b \in Edited, NEW count \in Counts, TypeInBox(b, count)
       PROVE  FieldsTyped' /\ PlansTyped'
  <2>1. b \in Boxes /\ <<b, count>> \in Boxes \X Nat
    BY EditsAssumption
  <2> QED BY <1>0, <1>10, <2>1 DEF TypeInBox, FieldsTyped, HaveModules, form, PlansTyped, IsPlan
<1> QED BY <1>2, <1>3, <1>4, <1>5, <1>6, <1>7, <1>8, <1>9, <1>10 DEF UserActs, Chosen

LEMMA RepliesKeepValues ==
    ASSUME IInv, NetInv, ValuesInv, NEW r \in inflight, Reply(r)
    PROVE  FieldsTyped'
<1>0. FieldsTyped /\ PlansTyped /\ AgreeingSlots(slots) /\ RequestsAskedFor
  BY ValuesAre DEF IInv
<1>1. "machine" \in Sides
  BY DEF Sides
<1>2. CASE ItemReply(r)
  <2>1. r.sent.item \in Items
    BY <1>0, <1>2 DEF ItemReply, RequestsAskedFor, AskedFor
  <2>2. PICK n : slots' = [slots EXCEPT !["machine"] = EmptySlots(n, r.sent.max)]
    BY <1>2 DEF ItemReply
  <2>3. HaveModules(slots')
    BY <1>0, <1>1, <2>2, EmptySlotsHave, OneSideHasModules DEF FieldsTyped
  <2>4. /\ recipe' = r.sent.item
        /\ source' = ShownSource(recycleTimeSourceFromCraftTime(CraftTime[r.sent.item]))
        /\ UNCHANGED <<maxUnlocked, target, quality, boxes>>
    BY <1>2 DEF ItemReply
  <2> QED BY <1>0, <2>1, <2>3, <2>4, SourceIsTime DEF FieldsTyped, HaveModules
<1>3. CASE MachineReply(r)
  <2>1. PICK n : slots' = [slots EXCEPT !["machine"] = EmptySlots(n, r.sent.max)]
    BY <1>3 DEF MachineReply
  <2>2. HaveModules(slots')
    BY <1>0, <1>1, <2>1, EmptySlotsHave, OneSideHasModules DEF FieldsTyped
  <2>3. UNCHANGED <<maxUnlocked, target, recipe, source, quality, boxes>>
    BY <1>3 DEF MachineReply
  <2> QED BY <1>0, <2>2, <2>3 DEF FieldsTyped, HaveModules
<1>4. CASE ModuleStatsReply(r)
  BY <1>0, <1>4 DEF ModuleStatsReply, FieldsTyped, HaveModules
<1>5. CASE RecyclerStatsReply(r)
  BY <1>0, <1>5 DEF RecyclerStatsReply, FieldsTyped, HaveModules
<1>6. CASE PlanReply(r)
  <2>1. r.sent.origin \in Boxes \X Nat
    BY <1>0, <1>6 DEF PlanReply, PlansTyped, IsPlan
  <2> QED BY <1>0, <1>6, <2>1 DEF PlanReply, FieldsTyped, HaveModules, form
<1>7. CASE EmptyReply(r)
  BY <1>0, <1>7 DEF EmptyReply, FieldsTyped, HaveModules, form
<1> QED BY <1>2, <1>3, <1>4, <1>5, <1>6, <1>7 DEF Reply

LEMMA PageStepsKeepValues ==
    ASSUME IInv, NetInv, ValuesInv, PageSteps
    PROVE  ValuesInv'
<1>0. FieldsTyped /\ PlansTyped /\ RequestsAskedFor
  BY ValuesAre DEF IInv
<1>1. SUFFICES FieldsTyped' /\ PlansTyped'
  <2>1. (FieldsTyped /\ PlansTyped)' => ValuesInv'
    BY DEF ValuesInv, FieldsTyped, PlansTyped, HaveModules, Chosen
  <2> QED BY <2>1
<1>2. ASSUME NEW e \in timers, DelayEnds(e) PROVE FieldsTyped' /\ PlansTyped'
  <2>1. IsElement(e)
    BY DEF NetInv, IsElement
  <2>2. FieldsTyped'
    BY <1>0, <1>2 DEF DelayEnds, FieldsTyped, HaveModules, form
  <2> QED BY <1>0, <1>2, <2>1, <2>2, OneTriggerKeepsPlans DEF DelayEnds
<1>3. ASSUME NEW r \in inflight, Reply(r) PROVE FieldsTyped' /\ PlansTyped'
  BY <1>0, <1>3, RepliesKeepValues, RepliesFinish, FinishKeepsPlans
<1> QED BY <1>2, <1>3 DEF PageSteps

-----------------------------------------------------------------------------
\* The invariant of all of this.
PageInv == IInv /\ NetInv /\ ValuesInv

LEMMA PageInvInitially == Init => PageInv
<1> SUFFICES ASSUME Init PROVE PageInv
  OBVIOUS
<1>1. NetInv
  BY FewAreFinite DEF Init, NetInv, OwnersAsk
<1>2. ValuesInv
  <2>1. Zero \in Boxes \X Nat
    BY DEF Zero, Boxes
  <2>2. \A side \in Sides : \A i \in DOMAIN slots[side] : slots[side][i].module \in Chosen
    <3> SUFFICES ASSUME NEW side \in Sides, NEW i \in DOMAIN slots[side]
                 PROVE  slots[side][i].module \in Chosen
      OBVIOUS
    <3>1. PICK n : slots[side] = EmptySlots(n, QualityLegendary)
      BY DEF Init
    <3> QED BY <3>1, EmptySlotsHave
  <2> QED BY <2>1, <2>2, PageAssumption
          DEF Init, ValuesInv, Chosen, QualityNormal, QualityLegendary
<1> QED BY <1>1, <1>2, InitIInv DEF PageInv

LEMMA PageInvIsPreserved == PageInv /\ [Next]_vars => PageInv'
<1> SUFFICES ASSUME PageInv, [Next]_vars PROVE PageInv'
  OBVIOUS
<1>1. CASE UserActs
  BY <1>1, UserActsKeepIInv, UserActsKeepNet, UserActsKeepValues DEF PageInv
<1>2. CASE PageSteps
  BY <1>2, PageStepsKeepIInv, PageStepsKeepNet, PageStepsKeepValues DEF PageInv
<1>3. CASE UNCHANGED vars
  <2>1. IInv'
    BY <1>3 DEF PageInv, IInv, Selected, RequestsAskedFor, vars, form, net
  <2>2. NetInv'
    BY <1>3, NetStays DEF PageInv, vars, net, NetInv
  <2>3. ValuesInv'
    BY <1>3 DEF PageInv, ValuesInv, IsPlan, vars, form, net
  <2> QED BY <2>1, <2>2, <2>3 DEF PageInv
<1> QED BY <1>1, <1>2, <1>3 DEF Next

LEMMA PageInvHolds == Spec => []PageInv
BY PageInvInitially, PageInvIsPreserved, PTL DEF Spec

\* No select outside the slots keeps a quality that is locked, every count in a box
\* goes back to one that was typed, and no element has two requests under way, or
\* keeps one that it does not wait with, however replies replace what sent them
\* (templates/index.html, static/js/ui-dropdowns.js:1-45, main.go:140-332).
THEOREM PageTypeCorrect == Spec => []TypeOK
<1>1. PageInv => TypeOK
  <2> SUFFICES ASSUME PageInv PROVE TypeOK
    OBVIOUS
  <2>1. \A side \in Sides : \A i \in DOMAIN slots[side] : slots[side][i] \in Slot
    <3> SUFFICES ASSUME NEW side \in Sides, NEW i \in DOMAIN slots[side]
                 PROVE  slots[side][i] \in Slot
      OBVIOUS
    <3>1. slots[side][i].module \in Modules \union {NoModule}
      BY DEF PageInv, ValuesInv
    <3>2. slots[side][i] \in [module : ModuleIDs \union {NoModule}, quality : Tiers,
                              disabled : BOOLEAN, top : Tiers]
      BY DEF PageInv, IInv, AgreeingSlots, AgreeingSlot
    <3> QED BY <3>1, <3>2 DEF Slot
  <2> QED BY <2>1 DEF TypeOK, PageInv, IInv, Selected, NetInv, ValuesInv
<1> QED BY <1>1, PageInvHolds, PTL

-----------------------------------------------------------------------------
(* Plans                                                                   *)

NoPlanAwaited == \A r \in inflight : ~IsPlan(r)

LEMMA FewPlans ==
    ASSUME NEW requests, IsFiniteSet(requests), Cardinality(Plans(requests)) < 2,
           NEW q \in requests, NEW r \in requests, IsPlan(q), IsPlan(r)
    PROVE  q = r
<1> SUFFICES ASSUME q # r PROVE FALSE
  OBVIOUS
<1>1. IsFiniteSet(Plans(requests)) /\ Cardinality(Plans(requests)) \in Nat
  BY FS_Subset, FS_CardinalityType DEF Plans
<1>2. {q} \union {r} \in SUBSET Plans(requests)
  BY DEF Plans, IsPlan
<1>3. IsFiniteSet({q}) /\ Cardinality({q}) = 1
  BY FS_Singleton
<1>4. Cardinality({q} \union {r}) = 2
  <2>1. r \notin {q}
    OBVIOUS
  <2>2. Cardinality({q} \union {r}) = Cardinality({q}) + 1
    BY <1>3, <2>1, FS_AddElement
  <2> QED BY <1>3, <2>2
<1> QED BY <1>1, <1>2, <1>4, FS_Subset

\* A trigger of an element of the form, while plans come alone, leaves one that is
\* awaited.
LEMMA AskedIsAwaited ==
    ASSUME NetInv, NEW es, Trigger(es), NEW e \in es, e \in PlanElements
    PROVE  ~NoPlanAwaited'
<1>1. /\ inflight \subseteq inflight'
      /\ ~Busy(e) => Request(e, inflight) \in inflight'
  BY TriggerMade
<1>2. CASE Busy(e)
  <2>1. PICK r \in inflight : r.owner = e
    BY <1>2 DEF Busy
  <2>2. e # Gone /\ ~PartialElement(e)
    BY PlanElementAsks
  <2>3. IsPlan(r)
    BY <2>1, <2>2 DEF NetInv, OwnersAsk
  <2> QED BY <1>1, <2>1, <2>3 DEF NoPlanAwaited, IsPlan
<1>3. CASE ~Busy(e)
  <2>1. IsPlan(Request(e, inflight))
    <3>1. IsElement(e) /\ ~PartialElement(e)
      BY PlanElementAsks DEF IsElement
    <3> QED BY <3>1, ElementAsks
  <2> QED BY <1>1, <1>3, <2>1 DEF NoPlanAwaited, IsPlan
<1> QED BY <1>2, <1>3

LEMMA TriggerKeepsAlone ==
    ASSUME NetInv, NetInv', AloneInv, NEW es, Trigger(es), \A e \in es : IsElement(e),
           UNCHANGED plan, target' = target \/ Form \in timers', timers \ timers' \subseteq es,
           boxes' = boxes \/ timers' # {} \/ \E e \in es : e \in PlanElements
    PROVE  AloneInv'
<1> SUFFICES ASSUME alone' PROVE AloneInv'
  BY DEF AloneInv
<1>1. /\ inflight \subseteq inflight'
      /\ \A p \in inflight' :
           \/ p \in inflight
           \/ \E e \in es : ~Busy(e) /\ p = Request(e, inflight)
      /\ \A e \in es : ~Busy(e) => Request(e, inflight) \in inflight'
      /\ queued' = queued \union {e \in es : Busy(e)}
  BY TriggerMade
<1>2. /\ Cardinality(Plans(inflight')) < 2
      /\ alone \/ (Plans(inflight) = {} /\ Plans(inflight') # {})
  BY DEF Trigger, ReviewPlans
<1>3. \A q, r \in inflight' : IsPlan(q) /\ IsPlan(r) => q = r
  BY <1>2, FewPlans DEF NetInv
<1>4. \A e \in es : IsPlan(Request(e, inflight)) =>
                      Request(e, inflight).sent.inputs.target = target'
  <2> SUFFICES ASSUME NEW e \in es, IsPlan(Request(e, inflight))
               PROVE  Request(e, inflight).sent.inputs.target = target'
    OBVIOUS
  <2>1. e \in PlanElements /\ Request(e, inflight).sent = Sent(e)'
    BY ElementAsks
  <2>2. Sent(e)'.inputs = PlanInputs'
    BY <2>1, PlanElementAsks
  <2> QED BY <2>1, <2>2 DEF PlanInputs
<1>5. ASSUME ~alone
      PROVE  /\ ~NoPlanAwaited'
             /\ \A r \in inflight' : IsPlan(r) => r.sent.inputs.target = target'
  BY <1>1, <1>2, <1>4, <1>5 DEF Plans, IsPlan, NoPlanAwaited
<1>6. ASSUME Form \notin (timers \union queued)'
      PROVE  /\ \A r \in inflight' : IsPlan(r) => r.sent.inputs.target = target'
             /\ plan' # NoPlan /\ NoPlanAwaited' => plan'.inputs.target = target'
  <2>1. CASE ~alone
    BY <2>1, <1>5
  <2>2. CASE alone /\ Form \in timers
    <3>1. Form \in es /\ ~Busy(Form)
      BY <2>2, <1>1, <1>6
    <3>2. IsPlan(Request(Form, inflight)) /\ Request(Form, inflight) \in inflight'
      BY <3>1, <1>1, ElementAsks, ElementsAre, PlanElementAsks
    <3>3. \A r \in inflight' : IsPlan(r) => r = Request(Form, inflight)
      BY <3>2, <1>3
    <3>4. ~NoPlanAwaited'
      BY <3>2 DEF NoPlanAwaited, IsPlan
    <3> QED BY <3>1, <3>2, <3>3, <3>4, <1>4
  <2>3. CASE alone /\ Form \notin timers
    <3>1. Form \notin timers \union queued /\ target' = target
      BY <2>3, <1>1, <1>6
    <3>2. /\ \A r \in inflight : IsPlan(r) => r.sent.inputs.target = target
          /\ plan # NoPlan /\ NoPlanAwaited => plan.inputs.target = target
      BY <2>3, <3>1 DEF AloneInv, NoPlanAwaited
    <3>3. NoPlanAwaited' => NoPlanAwaited
      BY <1>1 DEF NoPlanAwaited, IsPlan
    <3> QED BY <3>1, <3>2, <3>3, <1>1, <1>4
  <2> QED BY <2>1, <2>2, <2>3
<1>7. ASSUME plan' # NoPlan, timers' = {}, NoPlanAwaited'
      PROVE  \A b \in Boxes : boxes'[b] = plan'.origin
  <2>1. \A e \in es : e \notin PlanElements
    BY <1>7, AskedIsAwaited
  <2>2. timers = {}
    BY <1>7, <2>1 DEF NetInv
  <2>3. alone /\ NoPlanAwaited
    BY <1>1, <1>5, <1>7 DEF NoPlanAwaited, IsPlan
  <2> QED BY <1>7, <2>1, <2>2, <2>3 DEF AloneInv, NoPlanAwaited
<1>8. /\ \A q, r \in inflight' : IsPlan(q) /\ IsPlan(r) => q = r
      /\ Form \notin (timers \union queued)' =>
           /\ \A r \in inflight' : IsPlan(r) => r.sent.inputs.target = target'
           /\ plan' # NoPlan /\ NoPlanAwaited' => plan'.inputs.target = target'
      /\ plan' # NoPlan /\ timers' = {} /\ NoPlanAwaited' =>
           \A b \in Boxes : boxes'[b] = plan'.origin
  BY <1>3, <1>6, <1>7
<1> QED BY <1>8 DEF AloneInv, NoPlanAwaited, IsPlan

LEMMA UserActsKeepAlone ==
    ASSUME PageInv, PageInv', AloneInv, UserActs
    PROVE  AloneInv'
<1>0. NetInv /\ NetInv' /\ AgreeingSlots(slots)
  BY DEF PageInv, IInv
<1>1. ASSUME NEW e, IsElement(e), Trigger({e}), UNCHANGED <<plan, target>>,
             timers \ timers' \subseteq {e}, boxes' = boxes \/ e \in PlanElements
      PROVE  AloneInv'
  BY <1>0, <1>1, TriggerKeepsAlone
<1>2. ASSUME NEW i \in Items \union {NoItem}, ChooseItem(i) PROVE AloneInv'
  BY <1>1, <1>2, ElementsAre DEF ChooseItem
<1>3. ASSUME NEW m \in Machines, ChooseMachine(m) PROVE AloneInv'
  BY <1>1, <1>3, ElementsAre DEF ChooseMachine
<1>4. ASSUME NEW side \in Sides, NEW tier \in Choices, ChooseQuality(side, tier) PROVE AloneInv'
  BY <1>1, <1>4, ElementsAre DEF ChooseQuality
<1>5. ASSUME NEW side \in Sides, NEW i \in DOMAIN slots[side], NEW module,
             ChooseModule(side, i, module)
      PROVE  AloneInv'
  <2>1. i \in Int
    BY <1>0 DEF AgreeingSlots
  <2> QED BY <1>1, <1>5, <2>1, ElementsAre DEF ChooseModule
<1>6. ASSUME NEW side \in Sides, NEW i \in DOMAIN slots[side], NEW tier,
             ChooseModuleQuality(side, i, tier)
      PROVE  AloneInv'
  <2>1. i \in Int
    BY <1>0 DEF AgreeingSlots
  <2> QED BY <1>1, <1>6, <2>1, ElementsAre DEF ChooseModuleQuality
<1>7. ASSUME NEW tier, ChooseTarget(tier) PROVE AloneInv'
  <2>1. Form \in timers' /\ UNCHANGED <<inflight, plan, alone, boxes>> /\ timers' # {}
    BY <1>7 DEF ChooseTarget
  <2> QED BY <2>1 DEF AloneInv, IsPlan
<1>8. ASSUME NEW max \in Unlockable, ChooseMaxUnlocked(max) PROVE AloneInv'
  <2>1. PICK es :
          /\ Trigger(es)
          /\ \A e \in es : e \in {Quality(side) : side \in Sides} \union {Box(b) : b \in Boxes}
          /\ Form \in timers' /\ timers \ timers' \subseteq es
    BY <1>8, UnlockTriggers
  <2>2. \A e \in es : IsElement(e)
    BY <2>1, ElementsAre
  <2>3. UNCHANGED plan /\ timers' # {}
    BY <1>8, <2>1 DEF ChooseMaxUnlocked
  <2> QED BY <1>0, <2>1, <2>2, <2>3, TriggerKeepsAlone
<1>9. ASSUME NEW b \in Edited, NEW count, EditBox(b, count) PROVE AloneInv'
  <2>1. b \in Boxes
    BY EditsAssumption
  <2>2. /\ Trigger({Box(b)}) /\ UNCHANGED <<plan, target>>
        /\ timers \ timers' \subseteq {Box(b)}
    BY <1>9 DEF EditBox, form
  <2> QED BY <1>1, <2>1, <2>2, ElementsAre
<1>10. ASSUME NEW b \in Edited, NEW count, TypeInBox(b, count) PROVE AloneInv'
  <2>1. /\ timers' = timers \union {Box(b)} /\ Form # Box(b)
        /\ UNCHANGED <<inflight, queued, plan, alone, target>>
    BY <1>10 DEF TypeInBox, form, Form, Box
  <2>2. timers' # {} /\ (Form \in timers' <=> Form \in timers)
    BY <2>1
  <2> QED BY <2>1, <2>2 DEF AloneInv, IsPlan
<1> QED BY <1>2, <1>3, <1>4, <1>5, <1>6, <1>7, <1>8, <1>9, <1>10 DEF UserActs

LEMMA OthersAsBefore ==
    ASSUME RequestsAskedFor, NEW r, NEW replaced, NEW others,
           Finished(r, replaced, others), NEW p \in others
    PROVE  \E q \in inflight \ {r} : p = Renamed(q, replaced) /\ p.sent = q.sent
BY RenamedIs DEF Finished, RequestsAskedFor

\* A reply that is no plan leaves the plans as they are.
LEMMA PartialKeepsAlone ==
    ASSUME PageInv, PageInv', AloneInv, NEW r \in inflight, ~IsPlan(r), NEW replaced,
           Finish(r, replaced), UNCHANGED <<plan, target, boxes>>,
           \A e \in replaced : e \notin PlanElements
    PROVE  AloneInv'
<1> SUFFICES ASSUME alone' PROVE AloneInv'
  BY DEF AloneInv
<1>0. NetInv /\ NetInv' /\ RequestsAskedFor
  BY DEF PageInv, IInv
<1>1. PICK others : Finished(r, replaced, others)
  BY FinishMade
<1>2. /\ Cardinality(Plans(inflight')) < 2
      /\ alone \/ (Plans(inflight) = {} /\ Plans(inflight') # {})
  BY DEF Finish, ReviewPlans
<1>3. \A q, p \in inflight' : IsPlan(q) /\ IsPlan(p) => q = p
  BY <1>0, <1>2, FewPlans DEF NetInv
<1>4. r.owner \in queued => r.owner \notin PlanElements /\ ~IsPlan(Request(r.owner, others))
  <2> SUFFICES ASSUME r.owner \in queued
               PROVE  r.owner \notin PlanElements /\ ~IsPlan(Request(r.owner, others))
    OBVIOUS
  <2>1. IsElement(r.owner)
    BY <1>0 DEF NetInv, IsElement
  <2>2. r.owner # Gone
    BY <2>1, ElementAsks
  <2>3. PartialElement(r.owner)
    BY <1>0, <2>2 DEF NetInv, OwnersAsk
  <2> QED BY <2>1, <2>3, ElementAsks, PartialElementAsks
<1>5. \A p \in inflight' : IsPlan(p) => \E q \in inflight : IsPlan(q) /\ p.sent = q.sent
  <2> SUFFICES ASSUME NEW p \in inflight', IsPlan(p)
               PROVE  \E q \in inflight : IsPlan(q) /\ p.sent = q.sent
    OBVIOUS
  <2>1. p \in others
    BY <1>1, <1>4 DEF Finished
  <2>2. PICK q \in inflight \ {r} : p.sent = q.sent
    BY <1>0, <1>1, <2>1, OthersAsBefore
  <2> QED BY <2>2 DEF IsPlan
<1>6. \A q \in inflight : IsPlan(q) => \E p \in inflight' : IsPlan(p)
  <2> SUFFICES ASSUME NEW q \in inflight, IsPlan(q) PROVE \E p \in inflight' : IsPlan(p)
    OBVIOUS
  <2>1. q \in inflight \ {r}
    OBVIOUS
  <2>2. Renamed(q, replaced) \in inflight'
    BY <1>1, <2>1 DEF Finished
  <2>3. Renamed(q, replaced).sent = q.sent
    BY <1>0, RenamedIs DEF RequestsAskedFor
  <2> QED BY <2>2, <2>3 DEF IsPlan
<1>7. alone
  BY <1>2, <1>5 DEF Plans, IsPlan
<1>8. timers' = timers
  BY <1>0, <1>1 DEF Finished, NetInv
<1>9. Form \in queued' <=> Form \in queued
  <2>1. Form \notin replaced
    BY ElementsAre
  <2>2. Form \in queued => r.owner # Form
    BY <1>4, ElementsAre
  <2> QED BY <1>1, <2>1, <2>2 DEF Finished
<1>10. NoPlanAwaited' => NoPlanAwaited
  BY <1>6 DEF NoPlanAwaited, IsPlan
<1>11. Form \notin (timers \union queued)' =>
         /\ \A p \in inflight' : IsPlan(p) => p.sent.inputs.target = target'
         /\ plan' # NoPlan /\ NoPlanAwaited' => plan'.inputs.target = target'
  BY <1>5, <1>7, <1>8, <1>9, <1>10 DEF AloneInv, NoPlanAwaited
<1>12. plan' # NoPlan /\ timers' = {} /\ NoPlanAwaited' =>
         \A b \in Boxes : boxes'[b] = plan'.origin
  BY <1>7, <1>8, <1>10 DEF AloneInv, NoPlanAwaited
<1> QED BY <1>3, <1>11, <1>12 DEF AloneInv, NoPlanAwaited, IsPlan

LEMMA PlanKeepsAlone ==
    ASSUME PageInv, PageInv', AloneInv, NEW r \in inflight, PlanReply(r)
    PROVE  AloneInv'
<1> SUFFICES ASSUME alone' PROVE AloneInv'
  BY DEF AloneInv
<1>0. NetInv /\ NetInv' /\ RequestsAskedFor
  BY DEF PageInv, IInv
<1> DEFINE replaced == {Box(b) : b \in Boxes}
<1>1. /\ IsPlan(r) /\ Finish(r, replaced)
      /\ plan' = [inputs |-> r.sent.inputs, origin |-> r.sent.origin]
      /\ boxes' = [b \in Boxes |-> r.sent.origin]
      /\ target' = target
  BY DEF PlanReply, IsPlan, form
<1>2. Form \notin replaced
  BY DEF Form, Box
<1> HIDE DEF replaced
<1>3. PICK others : Finished(r, replaced, others)
  BY <1>1, FinishMade
<1>4. /\ Cardinality(Plans(inflight')) < 2
      /\ alone \/ (Plans(inflight) = {} /\ Plans(inflight') # {})
  BY <1>1 DEF Finish, ReviewPlans
<1>5. alone
  BY <1>1, <1>4 DEF Plans, IsPlan
<1>6. \A q, p \in inflight' : IsPlan(q) /\ IsPlan(p) => q = p
  BY <1>0, <1>4, FewPlans DEF NetInv
<1>7. \A p \in others : ~IsPlan(p)
  <2> SUFFICES ASSUME NEW p \in others, IsPlan(p) PROVE FALSE
    OBVIOUS
  <2>1. PICK q \in inflight \ {r} : p.sent = q.sent
    BY <1>0, <1>3, OthersAsBefore
  <2>2. IsPlan(q)
    BY <2>1 DEF IsPlan
  <2> QED BY <1>1, <1>5, <2>1, <2>2 DEF AloneInv
<1>8. ASSUME NEW p \in inflight', IsPlan(p)
      PROVE  p.sent.inputs.target = target'
  <2>1. r.owner \in queued /\ p = Request(r.owner, others)
    BY <1>3, <1>7, <1>8 DEF Finished
  <2>2. IsElement(r.owner)
    BY <1>0, <2>1 DEF NetInv, IsElement
  <2>3. r.owner \in PlanElements /\ p.sent = Sent(r.owner)'
    BY <1>8, <2>1, <2>2, ElementAsks
  <2>4. Sent(r.owner)'.inputs = PlanInputs'
    BY <2>3, PlanElementAsks
  <2> QED BY <2>3, <2>4 DEF PlanInputs
<1>9. ASSUME Form \notin (timers \union queued)', NoPlanAwaited'
      PROVE  plan'.inputs.target = target'
  <2>1. Form \notin timers
    BY <1>2, <1>3, <1>9 DEF Finished
  <2>2. Form \notin queued
    <3> SUFFICES ASSUME Form \in queued PROVE FALSE
      OBVIOUS
    <3>1. r.owner = Form
      BY <1>2, <1>3, <1>9 DEF Finished
    <3>2. Request(Form, others) \in inflight'
      BY <1>2, <1>3, <3>1 DEF Finished
    <3>3. IsPlan(Request(Form, others))
      BY ElementsAre, ElementAsks, PlanElementAsks
    <3> QED BY <1>9, <3>2, <3>3 DEF NoPlanAwaited, IsPlan
  <2>3. r.sent.inputs.target = target
    BY <1>1, <1>5, <2>1, <2>2 DEF AloneInv
  <2> QED BY <1>1, <2>3
<1>10. \A b \in Boxes : boxes'[b] = plan'.origin
  BY <1>1
<1> QED BY <1>6, <1>8, <1>9, <1>10 DEF AloneInv, NoPlanAwaited, IsPlan

LEMMA PageStepsKeepAlone ==
    ASSUME PageInv, PageInv', AloneInv, PageSteps
    PROVE  AloneInv'
<1>0. NetInv /\ NetInv' /\ AgreeingSlots(slots)
  BY DEF PageInv, IInv
<1>1. ASSUME NEW e \in timers, DelayEnds(e) PROVE AloneInv'
  <2>1. IsElement(e)
    BY <1>0 DEF NetInv, IsElement
  <2>2. /\ Trigger({e}) /\ UNCHANGED <<plan, target, boxes>>
        /\ timers \ timers' \subseteq {e}
    BY <1>1 DEF DelayEnds, form
  <2> QED BY <1>0, <2>1, <2>2, TriggerKeepsAlone
<1>2. \A e \in MachineSlotElements \union {Craft} : e \notin PlanElements
  <2>1. ASSUME NEW e, PartialElement(e) PROVE e \notin PlanElements
    BY <2>1, PartialElementAsks
  <2>2. \A i \in DOMAIN slots["machine"] :
          PartialElement(Module("machine", i)) /\ PartialElement(ModuleQuality("machine", i))
    BY <1>0 DEF AgreeingSlots, Sides, PartialElement
  <2>3. PartialElement(Craft)
    BY DEF PartialElement
  <2> QED BY <2>1, <2>2, <2>3 DEF MachineSlotElements
<1>3. ASSUME NEW r \in inflight, ItemReply(r) PROVE AloneInv'
  <2>1. /\ ~IsPlan(r) /\ Finish(r, MachineSlotElements \union {Craft})
        /\ UNCHANGED <<plan, target, boxes>>
    BY <1>3 DEF ItemReply, IsPlan
  <2> QED BY <1>2, <2>1, PartialKeepsAlone
<1>4. ASSUME NEW r \in inflight, MachineReply(r) PROVE AloneInv'
  <2>1. /\ ~IsPlan(r) /\ Finish(r, MachineSlotElements)
        /\ UNCHANGED <<plan, target, boxes>>
    BY <1>4 DEF MachineReply, IsPlan
  <2> QED BY <1>2, <2>1, PartialKeepsAlone
<1>5. ASSUME NEW r \in inflight, ModuleStatsReply(r) \/ RecyclerStatsReply(r) PROVE AloneInv'
  <2>1. /\ ~IsPlan(r) /\ Finish(r, {})
        /\ UNCHANGED <<plan, target, boxes>>
    BY <1>5 DEF ModuleStatsReply, RecyclerStatsReply, IsPlan
  <2> QED BY <2>1, PartialKeepsAlone
<1>6. ASSUME NEW r \in inflight, EmptyReply(r) PROVE AloneInv'
  <2>1. Finish(r, {}) /\ UNCHANGED <<plan, target, boxes>>
    BY <1>6 DEF EmptyReply, form
  <2>2. CASE ~IsPlan(r)
    BY <2>1, <2>2, PartialKeepsAlone
  <2>3. CASE IsPlan(r)
    <3>1. Plans({r}) # {} /\ Plans(inflight) # {}
      BY <2>3 DEF Plans, IsPlan
    <3>2. ~alone'
      BY <2>1, <3>1 DEF Finish, ReviewPlans
    <3> QED BY <3>2 DEF AloneInv
  <2> QED BY <2>2, <2>3
<1> QED BY <1>1, <1>3, <1>4, <1>5, <1>6, PlanKeepsAlone DEF PageSteps, Reply

\* What is typed or chosen on a quiet page is at its delay, or asked for at once.
LEMMA UserActsKeepWatch ==
    ASSUME PageInv, PageInv', WatchInv, UserActs
    PROVE  WatchInv'
<1>0. NetInv
  BY DEF PageInv
<1> SUFFICES ASSUME watched'.since = "plan" PROVE WatchInv'
  BY DEF WatchInv
<1>1. watched' # Unwatched
  BY DEF Unwatched
<1>2. Quiet => queued = {}
  BY <1>0 DEF NetInv, Busy, Quiet
<1>3. ASSUME NEW origin, Watch(origin)
      PROVE  Quiet /\ plan # NoPlan /\ watched'.origin = origin /\ queued = {}
  <2>1. Quiet /\ watched' = [since |-> IF plan = NoPlan THEN "load" ELSE "plan",
                             origin |-> origin]
    BY <1>1, <1>3 DEF Watch
  <2> QED BY <1>2, <2>1
<1>4. ASSUME Unremarked PROVE FALSE
  BY <1>1, <1>4 DEF Unremarked
<1>5. ASSUME NEW i, ChooseItem(i) PROVE FALSE
  BY <1>1, <1>5 DEF ChooseItem
<1>6. ASSUME NEW tier, ChooseTarget(tier) PROVE WatchInv'
  <2>1. /\ Quiet /\ watched'.origin = boxes[0] /\ queued = {}
        /\ UNCHANGED <<plan, boxes, inflight, queued>> /\ timers' = timers \union {Form}
    BY <1>3, <1>6 DEF ChooseTarget, QualityNormal
  <2>2. Anchor(Form) = 0
    BY DEF Anchor, QualityNormal
  <2> QED BY <2>1, <2>2, ElementsAre DEF WatchInv, Quiet
<1>7. ASSUME NEW b \in Edited, NEW count, TypeInBox(b, count) PROVE WatchInv'
  <2>0. b \in Boxes
    BY EditsAssumption
  <2>1. /\ Quiet /\ watched'.origin = <<b, count>> /\ queued = {}
        /\ boxes' = [boxes EXCEPT ![b] = <<b, count>>]
        /\ UNCHANGED <<plan, inflight, queued>> /\ timers' = timers \union {Box(b)}
    BY <1>3, <1>7 DEF TypeInBox
  <2>2. Anchor(Box(b)) = b
    BY DEF Anchor, Box, Form
  <2>3. boxes'[b] = <<b, count>>
    BY <2>0, <2>1 DEF PageInv, ValuesInv
  <2>4. timers' = {Box(b)} /\ Box(b) \in PlanElements /\ boxes'[Anchor(Box(b))] = watched'.origin
    BY <2>0, <2>1, <2>2, <2>3, ElementsAre DEF Quiet
  <2> QED BY <2>1, <2>4 DEF WatchInv, Quiet
<1>8. ASSUME NEW b \in Edited, NEW count, EditBox(b, count) PROVE WatchInv'
  <2>0. b \in Boxes
    BY EditsAssumption
  <2>1. /\ Quiet /\ watched'.origin = <<b, count>> /\ queued = {}
        /\ boxes' = [boxes EXCEPT ![b] = <<b, count>>]
        /\ Trigger({Box(b)}) /\ timers' = {}
        /\ UNCHANGED <<form, plan>>
    BY <1>3, <1>8 DEF EditBox, Quiet
  <2>2. Anchor(Box(b)) = b
    BY DEF Anchor, Box, Form
  <2>3. boxes'[b] = <<b, count>>
    BY <2>0, <2>1 DEF PageInv, ValuesInv
  <2>4. ~Busy(Box(b))
    BY <2>1 DEF Quiet, Busy
  <2>5. inflight' = {Request(Box(b), inflight)} /\ queued' = {}
    BY <2>1, <2>4 DEF Trigger, Request, Quiet
  <2>6. Request(Box(b), inflight).sent = Sent(Box(b))'
    BY <2>0, ElementsAre, ElementAsks
  <2>7. /\ Sent(Box(b))'.kind = "plan" /\ Sent(Box(b))'.origin = boxes'[Anchor(Box(b))]
        /\ Sent(Box(b))'.inputs = PlanInputs'
    <3>1. Box(b) \in PlanElements
      BY <2>0, ElementsAre
    <3> QED BY <3>1, PlanElementAsks
  <2>8. \E r \in inflight' : /\ inflight' = {r} /\ r.sent.kind = "plan"
                             /\ r.sent.origin = watched'.origin /\ r.sent.inputs = PlanInputs'
    BY <2>1, <2>2, <2>3, <2>5, <2>6, <2>7
  <2> QED BY <2>1, <2>5, <2>8 DEF WatchInv, IsPlan
<1> QED BY <1>4, <1>5, <1>6, <1>7, <1>8
        DEF UserActs, ChooseMachine, ChooseQuality, ChooseModule, ChooseModuleQuality,
            ChooseMaxUnlocked

LEMMA PageStepsKeepWatch ==
    ASSUME PageInv, PageInv', WatchInv, PageSteps
    PROVE  WatchInv'
<1> SUFFICES ASSUME watched'.since = "plan" PROVE WatchInv'
  BY DEF WatchInv
<1>1. ASSUME NEW e \in timers, DelayEnds(e) PROVE WatchInv'
  <2>1. /\ UNCHANGED <<form, boxes, plan, watched>> /\ Trigger({e}) /\ timers' = timers \ {e}
    BY <1>1 DEF DelayEnds
  <2>2. /\ queued = {} /\ inflight = {} /\ timers = {e} /\ e \in PlanElements
        /\ boxes[Anchor(e)] = watched.origin
    BY <2>1 DEF WatchInv, Quiet
  <2>3. inflight' = {Request(e, inflight)} /\ queued' = {}
    BY <2>1, <2>2 DEF Trigger, Request, Busy
  <2>4. Request(e, inflight).sent = Sent(e)'
    BY <2>2, ElementAsks DEF IsElement
  <2>5. /\ Sent(e)'.kind = "plan" /\ Sent(e)'.origin = boxes'[Anchor(e)]
        /\ Sent(e)'.inputs = PlanInputs'
    BY <2>2, PlanElementAsks
  <2>6. \E r \in inflight' : /\ inflight' = {r} /\ r.sent.kind = "plan"
                             /\ r.sent.origin = watched'.origin /\ r.sent.inputs = PlanInputs'
    BY <2>1, <2>2, <2>3, <2>4, <2>5
  <2> QED BY <2>1, <2>2, <2>3, <2>6 DEF WatchInv, IsPlan
<1>2. ASSUME NEW r \in inflight, Reply(r) PROVE WatchInv'
  <2>1. watched'.since = watched.since \/ watched' = Unwatched
    BY <1>2 DEF Reply, ItemReply, MachineReply, ModuleStatsReply, RecyclerStatsReply, PlanReply,
       EmptyReply
  <2>2. watched.since = "plan"
    BY <2>1 DEF Unwatched
  <2>3. /\ queued = {} /\ timers = {} /\ inflight = {r} /\ IsPlan(r)
        /\ r.sent.origin = watched.origin /\ r.sent.inputs = PlanInputs
    BY <2>2 DEF WatchInv, Quiet
  <2>4. PlanReply(r)
    <3>1. ~EmptyReply(r)
      BY <2>3 DEF EmptyReply, IsPlan, Unwatched
    <3> QED BY <1>2, <2>3, <3>1
            DEF Reply, ItemReply, MachineReply, ModuleStatsReply, RecyclerStatsReply, IsPlan
  <2>5. /\ plan' = [inputs |-> r.sent.inputs, origin |-> r.sent.origin]
        /\ UNCHANGED <<form, watched>> /\ Finish(r, {Box(b) : b \in Boxes})
    BY <2>4 DEF PlanReply
  <2>6. PICK others : Finished(r, {Box(b) : b \in Boxes}, others)
    BY <2>5, FinishMade
  <2>7. others = {}
    BY <2>3, <2>6 DEF Finished
  <2>8. inflight' = {} /\ queued' = {} /\ timers' = {}
    BY <2>3, <2>6, <2>7 DEF Finished
  <2>9. plan' = [inputs |-> PlanInputs', origin |-> watched'.origin]
    BY <2>3, <2>5 DEF PlanInputs, form
  <2> QED BY <2>8, <2>9 DEF WatchInv, Quiet
<1> QED BY <1>1, <1>2 DEF PageSteps

LEMMA PlansArePreserved ==
    ASSUME PageInv, PageInv', AloneInv, WatchInv, [Next]_vars
    PROVE  AloneInv' /\ WatchInv'
<1>1. CASE UserActs
  BY <1>1, UserActsKeepAlone, UserActsKeepWatch
<1>2. CASE PageSteps
  BY <1>2, PageStepsKeepAlone, PageStepsKeepWatch
<1>3. CASE UNCHANGED vars
  BY <1>3 DEF AloneInv, WatchInv, Quiet, IsPlan, PlanInputs, vars, form, net
<1> QED BY <1>1, <1>2, <1>3 DEF Next

\* When the page waits for nothing and plans came one at a time, the plan that is
\* shown is for the target that is selected and for every box; and a target or a
\* count that a quiet page with a plan was given leads to the plan for it, whatever
\* replies are lost or refused in between (templates/index.html:25-27, 305-331,
\* main.go:333-526).
THEOREM PlanFollowsTheForm == Spec => []PlanIsForTheForm
<1>1. Init => AloneInv /\ WatchInv
  BY DEF Init, AloneInv, WatchInv, Unwatched
<1>2. PageInv /\ AloneInv /\ WatchInv => PlanIsForTheForm
  <2> SUFFICES ASSUME PageInv, AloneInv, WatchInv PROVE PlanIsForTheForm
    OBVIOUS
  <2>1. Quiet => queued = {}
    BY DEF PageInv, NetInv, Busy, Quiet
  <2>2. ASSUME Quiet, alone, plan # NoPlan
        PROVE  plan.inputs.target = target /\ \A b \in Boxes : boxes[b] = plan.origin
    BY <2>1, <2>2 DEF AloneInv, Quiet
  <2>3. ASSUME watched.since = "plan" PROVE PlanFollows
    BY <2>3 DEF WatchInv, PlanFollows, Quiet
  <2> QED BY <2>2, <2>3 DEF PlanIsForTheForm
<1> QED BY <1>1, <1>2, PlansArePreserved, PageInvHolds, PTL DEF Spec

-----------------------------------------------------------------------------
(* Fields                                                                  *)

SideKind(side) == IF side = "machine" THEN "module-stats" ELSE "recycler-stats"

LEMMA SentKinds ==
    /\ Sent(Item)'.kind = "item-details" /\ Sent(Item)'.item = item'
    /\ Sent(Craft)'.kind = "machine-details"
    /\ \A side \in Sides :
         /\ Sent(Quality(side))'.kind = SideKind(side)
         /\ \A i \in Int : /\ Sent(Module(side, i))'.kind = SideKind(side)
                           /\ Sent(ModuleQuality(side, i))'.kind = SideKind(side)
<1>1. Sent(Item)'.kind = "item-details" /\ Sent(Item)'.item = item'
  BY DEF Sent
<1>2. Sent(Craft)'.kind = "machine-details"
  <2>1. Craft # Item
    BY DEF Craft, Item
  <2> QED BY <2>1 DEF Sent
<1>3. ASSUME NEW side \in Sides, NEW e, e # Item, e # Craft, e[1] \notin {"form", "box"},
             e[2] = side
      PROVE  Sent(e)'.kind = SideKind(side)
  BY <1>3 DEF Sent, SideKind, Sides
<1>4. ASSUME NEW side \in Sides
      PROVE  /\ Sent(Quality(side))'.kind = SideKind(side)
             /\ \A i \in Int : /\ Sent(Module(side, i))'.kind = SideKind(side)
                               /\ Sent(ModuleQuality(side, i))'.kind = SideKind(side)
  <2>1. /\ Quality(side) # Item /\ Quality(side) # Craft
        /\ Quality(side)[1] = "quality" /\ Quality(side)[2] = side
    BY DEF Quality, Item, Craft
  <2>2. \A i \in Int : /\ Module(side, i) # Item /\ Module(side, i) # Craft
                       /\ Module(side, i)[1] = "module" /\ Module(side, i)[2] = side
    BY DEF Module, Item, Craft
  <2>3. \A i \in Int : /\ ModuleQuality(side, i) # Item /\ ModuleQuality(side, i) # Craft
                       /\ ModuleQuality(side, i)[1] = "module quality"
                       /\ ModuleQuality(side, i)[2] = side
    BY DEF ModuleQuality, Item, Craft
  <2> QED BY <1>3, <2>1, <2>2, <2>3
<1> QED BY <1>1, <1>2, <1>4

\* What is sent is what is selected when it is sent.
LEMMA SentIsCurrent ==
    ASSUME NEW p, NEW e, p.sent = Sent(e)'
    PROVE  Current(p)'
<1>1. CASE e = Item
  BY <1>1 DEF Sent, Current
<1>2. CASE e # Item /\ e = Craft
  BY <1>2 DEF Sent, Current
<1>3. CASE e # Item /\ e # Craft /\ e[1] \in {"form", "box"}
  BY <1>3 DEF Sent, Current
<1>4. CASE e # Item /\ e # Craft /\ e[1] \notin {"form", "box"}
  BY <1>4 DEF Sent, Current
<1> QED BY <1>1, <1>2, <1>3, <1>4

SameModules(some, others) ==
    /\ DOMAIN some = DOMAIN others
    /\ \A i \in DOMAIN some : /\ some[i].module = others[i].module
                              /\ some[i].quality = others[i].quality

LEMMA SameStats ==
    ASSUME NEW some, NEW others, SameModules(some, others), NEW base, NEW tier, NEW time
    PROVE  /\ EffectiveMachine(base, tier, some) = EffectiveMachine(base, tier, others)
           /\ calculateRecyclerStats(time, tier, some) = calculateRecyclerStats(time, tier, others)
<1>1. ASSUME NEW i \in DOMAIN some
      PROVE  /\ SlotSpeed(some[i]) = SlotSpeed(others[i])
             /\ SlotProductivity(some[i]) = SlotProductivity(others[i])
             /\ SlotQuality(some[i]) = SlotQuality(others[i])
  BY DEF SameModules, SlotSpeed, SlotProductivity, SlotQuality
<1>2. /\ [i \in DOMAIN some |-> SlotSpeed(some[i])]
           = [i \in DOMAIN others |-> SlotSpeed(others[i])]
      /\ [i \in DOMAIN some |-> SlotProductivity(some[i])]
           = [i \in DOMAIN others |-> SlotProductivity(others[i])]
      /\ [i \in DOMAIN some |-> SlotQuality(some[i])]
           = [i \in DOMAIN others |-> SlotQuality(others[i])]
  BY <1>1 DEF SameModules
<1>3. SpeedMultiplier(some) = SpeedMultiplier(others)
  BY <1>2 DEF SpeedMultiplier
<1> DEFINE P(all) == SumFunction([i \in DOMAIN all |-> SlotProductivity(all[i])])
           Q(all) == SumFunction([i \in DOMAIN all |-> SlotQuality(all[i])])
           Machine(multiplier, productivity, level) ==
             [speed |-> formatStatValue(base.speed * qualityMultiplierByTierKey(tier)
                                          * multiplier, SpeedParts),
              productivity |-> NotBelow(0, base.productivity + productivity),
              quality |-> NotBelow(0, base.quality + level)]
           Recycler(multiplier, level) ==
             LET parts == qualityMultiplierByTierKey(tier) * multiplier
                 cycle == clampTo(time, minRecycleTime, maxRecycleTime)
             IN  [speed |-> formatStatValue(RecyclerSpeed * parts, SpeedParts),
                  quality |-> NotBelow(0, RecyclerQuality + level),
                  time |-> formatStatValue(cycle * ((1000 * SpeedParts) \div (16 * RecyclerSpeed)),
                                           parts)]
<1>4. P(some) = P(others) /\ Q(some) = Q(others)
  BY <1>2
<1>5. ASSUME NEW all
      PROVE  /\ EffectiveMachine(base, tier, all) = Machine(SpeedMultiplier(all), P(all), Q(all))
             /\ calculateRecyclerStats(time, tier, all) = Recycler(SpeedMultiplier(all), Q(all))
  BY Zenon DEF EffectiveMachine, calculateRecyclerStats
<1> HIDE DEF P, Q, Machine, Recycler
<1> QED BY <1>3, <1>4, <1>5

LEMMA SentSlotsSame ==
    ASSUME NEW side
    PROVE  SameModules(SentSlots(side), slots[side])
BY DEF SentSlots, SameModules

\* Everything is as the selects have it.
AllShown ==
    /\ item # NoItem => recipe = item
    /\ TopsAre("machine", maxUnlocked)
    /\ RecyclerShown
    /\ recipe # NoItem =>
         /\ craft = selectMachine(Producers[recipe], craft)
         /\ DOMAIN slots["machine"] = 1 .. Details(craft).slots
         /\ MachineShown

LEMMA NothingAwaited == OrderlyInv /\ ~PartialPending => AllShown
BY DEF OrderlyInv, PartialPending, BringsItem, Shown, Awaits, AllShown

\* The item or the machine is asked for by itself.
AskTogether(es) == (\A d, e \in es : d = e) \/ (Item \notin es /\ Craft \notin es)

\* Partials that are asked for when none is awaited are for what is selected.
LEMMA AskedAlone ==
    ASSUME PageInv, ~PartialPending, NEW es, Trigger(es), \A e \in es : IsElement(e),
           AskTogether(es)
    PROVE  /\ \A p \in inflight' : Current(p)'
           /\ \A e \in queued' : e \in PlanElements
           /\ \A q, p \in inflight' :
                p.sent.kind \in {"item-details", "machine-details"} /\ ~IsPlan(q) => q = p
           /\ \A e \in es : PartialElement(e) => \E p \in inflight' : p.sent = Sent(e)'
<1>0. NetInv
  BY DEF PageInv
<1>1. /\ inflight \subseteq inflight'
      /\ \A p \in inflight' :
           \/ p \in inflight
           \/ \E e \in es : ~Busy(e) /\ p = Request(e, inflight)
      /\ \A e \in es : ~Busy(e) => Request(e, inflight) \in inflight'
      /\ queued' = queued \union {e \in es : Busy(e)}
  BY TriggerMade
<1>2. \A p \in inflight : IsPlan(p)
  BY DEF PartialPending, IsPlan
<1>3. ASSUME NEW e, IsElement(e), Busy(e) PROVE e \in PlanElements
  <2>1. PICK r \in inflight : r.owner = e
    BY <1>3 DEF Busy
  <2>2. e # Gone
    BY <1>3, ElementAsks
  <2> QED BY <1>0, <1>2, <2>1, <2>2 DEF NetInv, OwnersAsk
<1>4. \A p \in inflight' : Current(p)'
  <2> SUFFICES ASSUME NEW p \in inflight' PROVE Current(p)'
    OBVIOUS
  <2>1. CASE p \in inflight
    <3>1. p.sent.kind = "plan"
      BY <1>2, <2>1 DEF IsPlan
    <3> QED BY <3>1 DEF Current
  <2>2. CASE p \notin inflight
    <3>1. PICK e \in es : p = Request(e, inflight)
      BY <1>1, <2>2
    <3>2. p.sent = Sent(e)'
      BY <3>1, ElementAsks
    <3> QED BY <3>2, SentIsCurrent
  <2> QED BY <2>1, <2>2
<1>5. \A e \in queued' : e \in PlanElements
  BY <1>0, <1>1, <1>3 DEF NetInv, IsElement
<1>6. ASSUME NEW q \in inflight', NEW p \in inflight',
             p.sent.kind \in {"item-details", "machine-details"}, ~IsPlan(q)
      PROVE  q = p
  <2>1. ~IsPlan(p)
    BY <1>6 DEF IsPlan
  <2>2. PICK d \in es : q = Request(d, inflight)
    BY <1>1, <1>2, <1>6
  <2>3. PICK e \in es : p = Request(e, inflight)
    BY <1>1, <1>2, <2>1
  <2>4. e \in {Item, Craft}
    <3> SUFFICES ASSUME e \notin {Item, Craft} PROVE FALSE
      OBVIOUS
    <3>1. PartialElement(e) /\ p.sent = Sent(e)'
      BY <2>1, <2>3, ElementAsks
    <3>2. PICK side \in Sides : Sent(e)'.kind = SideKind(side)
      BY <3>1, SentKinds DEF PartialElement
    <3> QED BY <1>6, <3>1, <3>2 DEF SideKind
  <2>5. d = e
    BY <2>4 DEF AskTogether
  <2> QED BY <2>2, <2>3, <2>5
<1>7. ASSUME NEW e \in es, PartialElement(e) PROVE \E p \in inflight' : p.sent = Sent(e)'
  <2>1. e \notin PlanElements
    BY <1>7, PartialElementAsks
  <2>2. ~Busy(e)
    BY <1>3, <2>1
  <2> QED BY <1>1, <2>2, ElementAsks
<1> QED BY <1>4, <1>5, <1>6, <1>7

\* The values that Current and Shown read.
fields == <<maxUnlocked, item, craft, recipe, source, quality, slots, stats>>

LEMMA ShownStays ==
    ASSUME Shown, UNCHANGED fields, Awaits("recycler-stats") => Awaits("recycler-stats")',
           Awaits("machine-details") => Awaits("machine-details")',
           Awaits("module-stats") => Awaits("module-stats")'
    PROVE  Shown'
<1>1. RecyclerShown => RecyclerShown'
  BY DEF RecyclerShown, ExactSource, fields
<1>2. MachineShown => MachineShown'
  BY DEF MachineShown, ShownTiers, fields
<1> QED BY <1>1, <1>2 DEF Shown, TopsAre, fields

LEMMA CurrentStays ==
    ASSUME NEW r, Current(r), UNCHANGED <<maxUnlocked, item, craft, source, quality, slots>>
    PROVE  Current(r)'
BY DEF Current, SentSlots

LEMMA OrderStays ==
    ASSUME OrderlyInv, UNCHANGED fields, UNCHANGED <<inflight, queued>>
    PROVE  OrderlyInv'
<1>1. \A r \in inflight : Current(r)'
  BY CurrentStays DEF OrderlyInv, fields
<1>2. \A kind : Awaits(kind) <=> Awaits(kind)'
  BY DEF Awaits
<1>3. (\A r \in inflight : ~BringsItem(r)) => Shown'
  BY <1>2, ShownStays DEF OrderlyInv
<1>4. \A q \in inflight' : (IsPlan(q) <=> IsPlan(q)') /\ (BringsItem(q) <=> BringsItem(q)')
  BY DEF IsPlan, BringsItem
<1> QED BY <1>1, <1>3, <1>4 DEF OrderlyInv, PlanElements

\* A plan that is asked for changes nothing of the partials.
LEMMA PlansKeepOrder ==
    ASSUME PageInv, OrderlyInv, NEW e \in PlanElements, Trigger({e}), UNCHANGED fields
    PROVE  OrderlyInv'
<1>1. /\ inflight \subseteq inflight'
      /\ \A p \in inflight' : p \in inflight \/ p = Request(e, inflight)
      /\ \A d \in queued' : d \in queued \/ d = e
  BY TriggerMade
<1>2. IsPlan(Request(e, inflight))
  BY ElementAsks, PlanElementAsks DEF IsElement
<1>3. \A p \in inflight' : Current(p)'
  <2> SUFFICES ASSUME NEW p \in inflight' PROVE Current(p)'
    OBVIOUS
  <2>1. CASE p \in inflight
    BY <2>1, CurrentStays DEF OrderlyInv, fields
  <2>2. CASE p \notin inflight
    <3>1. p.sent.kind = "plan"
      BY <1>1, <1>2, <2>2 DEF IsPlan
    <3> QED BY <3>1 DEF Current
  <2> QED BY <2>1, <2>2
<1>4. \A p \in inflight' : ~IsPlan(p) => p \in inflight
  BY <1>1, <1>2
<1>5. ASSUME NEW q \in inflight', NEW p \in inflight',
             p.sent.kind \in {"item-details", "machine-details"}, ~IsPlan(q)
      PROVE  q = p
  <2>1. ~IsPlan(p)
    BY <1>5 DEF IsPlan
  <2> QED BY <1>4, <1>5, <2>1 DEF OrderlyInv
<1>6. ASSUME \A p \in inflight' : ~BringsItem(p) PROVE Shown'
  <2>1. Shown
    BY <1>1, <1>6 DEF OrderlyInv
  <2>2. \A kind : Awaits(kind) => Awaits(kind)'
    BY <1>1 DEF Awaits
  <2> QED BY <2>1, <2>2, ShownStays
<1>7. \A d \in queued' : d \in PlanElements
  BY <1>1 DEF OrderlyInv
<1> QED BY <1>3, <1>5, <1>6, <1>7 DEF OrderlyInv, IsPlan, BringsItem, PlanElements

\* What is shown while one side's fields are asked for again.
LEMMA SideIsAsked ==
    ASSUME AllShown, NEW side \in Sides, Awaits(SideKind(side))',
           UNCHANGED <<maxUnlocked, item, craft, recipe, source, stats>>,
           \A other \in Sides \ {side} : /\ slots'[other] = slots[other]
                                         /\ quality'[other] = quality[other],
           DOMAIN slots'[side] = DOMAIN slots[side],
           \A i \in DOMAIN slots[side] : slots'[side][i].top = slots[side][i].top
    PROVE  Shown' /\ (TopsAre("recycler", maxUnlocked) => TopsAre("recycler", maxUnlocked)')
<1>1. CASE side = "machine"
  <2>1. slots'["recycler"] = slots["recycler"] /\ quality'["recycler"] = quality["recycler"]
    BY <1>1 DEF Sides
  <2>2. RecyclerShown'
    BY <2>1 DEF AllShown, RecyclerShown, ExactSource
  <2>3. Awaits("module-stats")'
    BY <1>1 DEF SideKind
  <2> QED BY <1>1, <2>1, <2>2, <2>3 DEF AllShown, Shown, TopsAre, Sides
<1>2. CASE side = "recycler"
  <2>1. slots'["machine"] = slots["machine"] /\ quality'["machine"] = quality["machine"]
    BY <1>2 DEF Sides
  <2>2. MachineShown => MachineShown'
    BY <2>1 DEF MachineShown, ShownTiers
  <2>3. Awaits("recycler-stats")'
    BY <1>2 DEF SideKind
  <2> QED BY <1>2, <2>1, <2>2, <2>3 DEF AllShown, Shown, TopsAre, Sides
<1> QED BY <1>1, <1>2 DEF Sides

\* An element that is asked for alone is what is awaited of its side.
LEMMA AskedKinds ==
    ASSUME NEW p \in inflight', NEW e, p.sent = Sent(e)'
    PROVE  /\ e = Item /\ item' # NoItem => BringsItem(p)'
           /\ e = Craft => Awaits("machine-details")'
           /\ \A side \in Sides :
                /\ e = Quality(side) => Awaits(SideKind(side))'
                /\ \A i \in Int : e \in {Module(side, i), ModuleQuality(side, i)}
                                    => Awaits(SideKind(side))'
BY SentKinds DEF BringsItem, Awaits

LEMMA OneAskedAlone ==
    ASSUME PageInv, ~PartialPending, NEW d, PartialElement(d), Trigger({d})
    PROVE  /\ \A p \in inflight' : Current(p)'
           /\ \A e \in queued' : e \in PlanElements
           /\ \A q, p \in inflight' :
                p.sent.kind \in {"item-details", "machine-details"} /\ ~IsPlan(q) => q = p
           /\ \E p \in inflight' : p.sent = Sent(d)'
<1>1. PICK es : es = {d} /\ Trigger(es)
  OBVIOUS
<1>2. (\A e \in es : IsElement(e)) /\ AskTogether(es)
  BY <1>1 DEF IsElement, AskTogether
<1>3. /\ \A p \in inflight' : Current(p)'
      /\ \A e \in queued' : e \in PlanElements
      /\ \A q, p \in inflight' :
           p.sent.kind \in {"item-details", "machine-details"} /\ ~IsPlan(q) => q = p
      /\ \A e \in es : PartialElement(e) => \E p \in inflight' : p.sent = Sent(e)'
  BY <1>1, <1>2, AskedAlone
<1> QED BY <1>1, <1>3

\* The fields that an action leaves to the reply of a side's request.
LEMMA SideActKeepsFields ==
    ASSUME PageInv, FieldsInv, NEW side \in Sides, NEW e, PartialElement(e), Trigger({e}),
           \A p \in inflight' : p.sent = Sent(e)' => Awaits(SideKind(side))',
           UNCHANGED <<maxUnlocked, item, craft, recipe, source, stats>>, Unremarked,
           \A other \in Sides \ {side} : /\ slots'[other] = slots[other]
                                         /\ quality'[other] = quality[other],
           DOMAIN slots'[side] = DOMAIN slots[side],
           \A i \in DOMAIN slots[side] : slots'[side][i].top = slots[side][i].top
    PROVE  FieldsInv'
<1>1. TopsAre("recycler", maxUnlocked)'
  BY DEF FieldsInv, TopsAre, Sides
<1>2. ASSUME orderly' PROVE OrderlyInv'
  <2>1. orderly /\ ~PartialPending
    BY <1>2 DEF Unremarked
  <2>2. AllShown
    BY <2>1, NothingAwaited DEF FieldsInv
  <2>3. /\ \A p \in inflight' : Current(p)'
        /\ \A d \in queued' : d \in PlanElements
        /\ \A q, p \in inflight' :
             p.sent.kind \in {"item-details", "machine-details"} /\ ~IsPlan(q) => q = p
        /\ Awaits(SideKind(side))'
    BY <2>1, OneAskedAlone
  <2>4. Shown'
    BY <2>2, <2>3, SideIsAsked
  <2> QED BY <2>3, <2>4 DEF OrderlyInv, IsPlan, PlanElements
<1> QED BY <1>1, <1>2 DEF FieldsInv

LEMMA ChooseItemKeepsFields ==
    ASSUME PageInv, FieldsInv, NEW i \in Items \union {NoItem}, ChooseItem(i)
    PROVE  FieldsInv'
<1>1. TopsAre("recycler", maxUnlocked)'
  BY DEF ChooseItem, FieldsInv, TopsAre
<1>2. ASSUME orderly' PROVE OrderlyInv'
  <2>1. ~PartialPending /\ (orderly \/ i # NoItem)
    BY <1>2 DEF ChooseItem
  <2>2. PartialElement(Item) /\ Trigger({Item})
    BY DEF PartialElement, ChooseItem
  <2>3. /\ \A p \in inflight' : Current(p)'
        /\ \A d \in queued' : d \in PlanElements
        /\ \A q, p \in inflight' :
             p.sent.kind \in {"item-details", "machine-details"} /\ ~IsPlan(q) => q = p
        /\ \E p \in inflight' : p.sent = Sent(Item)'
    BY <2>1, <2>2, OneAskedAlone
  <2>4. CASE i # NoItem
    <3>1. \E p \in inflight' : BringsItem(p)'
      BY <2>3, <2>4, AskedKinds DEF ChooseItem
    <3> QED BY <2>3, <3>1 DEF OrderlyInv, IsPlan, PlanElements, BringsItem
  <2>5. CASE i = NoItem
    <3>1. AllShown
      BY <2>1, <2>5, NothingAwaited DEF FieldsInv
    <3>2. RecyclerShown' /\ (MachineShown => MachineShown')
      BY <3>1 DEF ChooseItem, AllShown, RecyclerShown, ExactSource, MachineShown, ShownTiers
    <3>3. Shown'
      BY <2>5, <3>1, <3>2 DEF ChooseItem, AllShown, Shown, TopsAre
    <3> QED BY <2>3, <3>3 DEF OrderlyInv, IsPlan, PlanElements
  <2> QED BY <2>4, <2>5
<1> QED BY <1>1, <1>2 DEF FieldsInv

LEMMA ChooseMachineKeepsFields ==
    ASSUME PageInv, FieldsInv, NEW m \in Machines, ChooseMachine(m)
    PROVE  FieldsInv'
<1>1. TopsAre("recycler", maxUnlocked)'
  BY DEF ChooseMachine, FieldsInv, TopsAre
<1>2. ASSUME orderly' PROVE OrderlyInv'
  <2>1. orderly /\ ~PartialPending
    BY <1>2 DEF ChooseMachine, Unremarked
  <2>2. PartialElement(Craft) /\ Trigger({Craft})
    BY DEF PartialElement, ChooseMachine
  <2>3. /\ \A p \in inflight' : Current(p)'
        /\ \A d \in queued' : d \in PlanElements
        /\ \A q, p \in inflight' :
             p.sent.kind \in {"item-details", "machine-details"} /\ ~IsPlan(q) => q = p
        /\ \E p \in inflight' : p.sent = Sent(Craft)'
    BY <2>1, <2>2, OneAskedAlone
  <2>4. Awaits("machine-details")'
    BY <2>3, AskedKinds
  <2>5. AllShown
    BY <2>1, NothingAwaited DEF FieldsInv
  <2>6. RecyclerShown'
    BY <2>5 DEF ChooseMachine, AllShown, RecyclerShown, ExactSource
  <2>7. craft' = selectMachine(Producers[recipe], craft')
    BY DEF ChooseMachine, selectMachine
  <2>8. Shown'
    BY <2>4, <2>5, <2>6, <2>7 DEF ChooseMachine, AllShown, Shown, TopsAre
  <2> QED BY <2>3, <2>8 DEF OrderlyInv, IsPlan, PlanElements
<1> QED BY <1>1, <1>2 DEF FieldsInv

LEMMA SideElements ==
    /\ \A side \in Sides : PartialElement(Quality(side))
    /\ \A side \in Sides, i \in Int :
         PartialElement(Module(side, i)) /\ PartialElement(ModuleQuality(side, i))
BY DEF PartialElement

LEMMA SideActsKeepFields ==
    ASSUME PageInv, FieldsInv, NEW side \in Sides,
           \/ \E tier \in Choices : ChooseQuality(side, tier)
           \/ \E i \in DOMAIN slots[side] :
                \/ \E module \in Chosen : ChooseModule(side, i, module)
                \/ \E tier \in Choices : ChooseModuleQuality(side, i, tier)
    PROVE  FieldsInv'
<1>0. AgreeingSlots(slots) /\ HaveModules(slots) /\ quality \in [Sides -> 0 .. maxUnlocked]
  BY DEF PageInv, IInv, ValuesInv, HaveModules, Chosen
<1>1. ASSUME NEW tier \in Choices, ChooseQuality(side, tier) PROVE FieldsInv'
  <2> DEFINE e == Quality(side)
  <2>1. Trigger({e}) /\ PartialElement(e)
    BY <1>1, SideElements DEF ChooseQuality
  <2>2. \A p \in inflight' : p.sent = Sent(e)' => Awaits(SideKind(side))'
    BY AskedKinds
  <2>3. /\ UNCHANGED <<maxUnlocked, item, craft, recipe, source, slots, stats>> /\ Unremarked
        /\ \A other \in Sides \ {side} : quality'[other] = quality[other]
    BY <1>0, <1>1 DEF ChooseQuality
  <2> HIDE DEF e
  <2> QED BY <2>1, <2>2, <2>3, SideActKeepsFields
<1>2. ASSUME NEW i \in DOMAIN slots[side], NEW some, NEW e, e \in {Module(side, i), ModuleQuality(side, i)},
             Trigger({e}), slots' = [slots EXCEPT ![side] = some],
             DOMAIN some = DOMAIN slots[side],
             \A j \in DOMAIN slots[side] : some[j].top = slots[side][j].top,
             UNCHANGED <<maxUnlocked, item, craft, recipe, source, quality, stats>>, Unremarked
      PROVE  FieldsInv'
  <2>1. i \in Int
    BY <1>0 DEF AgreeingSlots
  <2>2. PartialElement(e)
    BY <1>2, <2>1, SideElements
  <2>3. \A p \in inflight' : p.sent = Sent(e)' => Awaits(SideKind(side))'
    BY <1>2, <2>1, AskedKinds
  <2>4. /\ slots'[side] = some
        /\ \A other \in Sides \ {side} : slots'[other] = slots[other]
    BY <1>0, <1>2 DEF AgreeingSlots
  <2> QED BY <1>2, <2>2, <2>3, <2>4, SideActKeepsFields
<1>3. ASSUME NEW i \in DOMAIN slots[side], NEW module \in Chosen, ChooseModule(side, i, module)
      PROVE  FieldsInv'
  <2> DEFINE some == ModulesFrom(side, i, module)
  <2>1. /\ Trigger({Module(side, i)}) /\ slots' = [slots EXCEPT ![side] = some]
        /\ UNCHANGED <<maxUnlocked, item, craft, recipe, source, quality, stats>> /\ Unremarked
    BY <1>3 DEF ChooseModule
  <2>2. /\ DOMAIN some = DOMAIN slots[side]
        /\ \A j \in DOMAIN slots[side] : some[j].top = slots[side][j].top
    BY <1>0, ModulesFromHave
  <2> HIDE DEF some
  <2> QED BY <1>2, <2>1, <2>2
<1>4. ASSUME NEW i \in DOMAIN slots[side], NEW tier \in Choices, ChooseModuleQuality(side, i, tier)
      PROVE  FieldsInv'
  <2> DEFINE some == QualitiesFrom(side, i, tier)
  <2>1. /\ Trigger({ModuleQuality(side, i)}) /\ slots' = [slots EXCEPT ![side] = some]
        /\ UNCHANGED <<maxUnlocked, item, craft, recipe, source, quality, stats>> /\ Unremarked
    BY <1>4 DEF ChooseModuleQuality
  <2>2. /\ DOMAIN some = DOMAIN slots[side]
        /\ \A j \in DOMAIN slots[side] : some[j].top = slots[side][j].top
    BY <1>0, QualitiesFromHave
  <2> HIDE DEF some
  <2> QED BY <1>2, <2>1, <2>2
<1> QED BY <1>1, <1>3, <1>4

LEMMA UnlockingKeepsFields ==
    ASSUME PageInv, FieldsInv, NEW max \in Unlockable, ChooseMaxUnlocked(max)
    PROVE  FieldsInv'
<1>0. AgreeingSlots(slots) /\ HaveModules(slots)
  BY DEF PageInv, IInv, ValuesInv, HaveModules, Chosen
<1>1. /\ maxUnlocked' = max /\ slots' = SlotsUpTo(max)
      /\ UNCHANGED <<item, craft, recipe, source, stats>> /\ Unremarked
  BY DEF ChooseMaxUnlocked
<1>2. \A side \in Sides : /\ DOMAIN slots'[side] = DOMAIN slots[side]
                          /\ \A i \in DOMAIN slots[side] : slots'[side][i].top = max
  BY <1>0, <1>1, SlotsUpToHave
<1>3. \A side \in Sides : TopsAre(side, maxUnlocked)'
  BY <1>1, <1>2 DEF TopsAre
<1>4. ASSUME orderly' PROVE OrderlyInv'
  <2>1. orderly /\ ~PartialPending
    BY <1>1, <1>4 DEF Unremarked
  <2>2. AllShown
    BY <2>1, NothingAwaited DEF FieldsInv
  <2>3. PICK es :
          /\ Trigger(es)
          /\ \A e \in es : e \in {Quality(side) : side \in Sides} \union {Box(b) : b \in Boxes}
          /\ Quality("recycler") \in es
          /\ craft # NoMachine => Quality("machine") \in es
    BY UnlockTriggers
  <2>4. \A e \in es : IsElement(e)
    BY <2>3, ElementsAre
  <2>5. AskTogether(es)
    <3>1. Item[1] = "item" /\ Craft[1] = "craft"
      BY DEF Item, Craft
    <3>2. \A e \in es : e[1] \in {"quality", "box"}
      BY <2>3 DEF Quality, Box
    <3> QED BY <3>1, <3>2 DEF AskTogether
  <2>6. /\ \A p \in inflight' : Current(p)'
        /\ \A e \in queued' : e \in PlanElements
        /\ \A q, p \in inflight' :
             p.sent.kind \in {"item-details", "machine-details"} /\ ~IsPlan(q) => q = p
        /\ \A e \in es : PartialElement(e) => \E p \in inflight' : p.sent = Sent(e)'
    BY <2>1, <2>3, <2>4, <2>5, AskedAlone
  <2>7. Awaits("recycler-stats")' /\ (craft # NoMachine => Awaits("module-stats")')
    <3>1. ASSUME NEW side \in Sides, Quality(side) \in es PROVE Awaits(SideKind(side))'
      BY <2>6, <3>1, SideElements, AskedKinds
    <3> QED BY <2>3, <3>1 DEF Sides, SideKind
  <2>8. ASSUME recipe # NoItem
        PROVE  /\ craft = selectMachine(Producers[recipe], craft)
               /\ DOMAIN slots'["machine"] = 1 .. Details(craft).slots
               /\ craft = NoMachine => MachineShown'
    <3>1. /\ craft = selectMachine(Producers[recipe], craft)
          /\ DOMAIN slots["machine"] = 1 .. Details(craft).slots /\ MachineShown
      BY <2>2, <2>8 DEF AllShown
    <3>2. DOMAIN slots'["machine"] = DOMAIN slots["machine"]
      BY <1>2 DEF Sides
    <3>3. CASE craft = NoMachine
      <4>1. DOMAIN slots["machine"] = {}
        BY <3>1, <3>3 DEF Details, DefaultMachine
      <4>2. SameModules(slots["machine"], slots'["machine"])
        BY <3>2, <4>1 DEF SameModules
      <4>3. \A tier : EffectiveMachine(Details(craft), tier, slots["machine"])
                        = EffectiveMachine(Details(craft), tier, slots'["machine"])
        BY <4>2, SameStats
      <4> QED BY <1>1, <3>1, <3>2, <3>3, <4>1, <4>3 DEF MachineShown, ShownTiers
    <3> QED BY <3>1, <3>2, <3>3
  <2>9. Shown'
    BY <1>1, <1>3, <2>2, <2>7, <2>8 DEF Shown, AllShown, Sides
  <2> QED BY <2>6, <2>9 DEF OrderlyInv, IsPlan, PlanElements
<1> QED BY <1>3, <1>4 DEF FieldsInv, Sides

LEMMA UserActsKeepFields ==
    ASSUME PageInv, FieldsInv, UserActs
    PROVE  FieldsInv'
<1>1. ASSUME NEW tier, ChooseTarget(tier) PROVE FieldsInv'
  BY <1>1, OrderStays DEF ChooseTarget, Watch, FieldsInv, TopsAre, fields
<1>2. ASSUME NEW b \in Edited, NEW count, EditBox(b, count) PROVE FieldsInv'
  <2>1. Box(b) \in PlanElements
    BY EditsAssumption, ElementsAre
  <2> QED BY <1>2, <2>1, PlansKeepOrder DEF EditBox, Watch, FieldsInv, TopsAre, fields, form
<1>3. ASSUME NEW b, NEW count, TypeInBox(b, count) PROVE FieldsInv'
  BY <1>3, OrderStays DEF TypeInBox, Watch, FieldsInv, TopsAre, fields, form
<1> QED BY <1>1, <1>2, <1>3, ChooseItemKeepsFields, ChooseMachineKeepsFields, SideActsKeepFields,
           UnlockingKeepsFields
        DEF UserActs, Chosen

\* Replies: the partials that are left were awaited before, and a kept request is a plan.
LEMMA FinishInOrder ==
    ASSUME PageInv, OrderlyInv, NEW r \in inflight, NEW replaced, Finish(r, replaced)
    PROVE  /\ \A p \in inflight' :
                IsPlan(p) \/ \E q \in inflight \ {r} : p = Renamed(q, replaced) /\ p.sent = q.sent
           /\ \A q \in inflight \ {r} : \E p \in inflight' : p.sent = q.sent
           /\ \A e \in queued' : e \in PlanElements
<1>0. PICK others : Finished(r, replaced, others)
  BY FinishMade
<1>1. /\ others = {Renamed(q, replaced) : q \in inflight \ {r}}
      /\ others \subseteq inflight'
      /\ \A p \in inflight' :
           \/ p \in others
           \/ r.owner \in queued \ replaced /\ p = Request(r.owner, others)
      /\ queued' = queued \ (replaced \union {r.owner})
  BY <1>0 DEF Finished
<1>2. \A q \in inflight : Renamed(q, replaced).sent = q.sent
  BY RenamedIs DEF PageInv, IInv, RequestsAskedFor
<1>3. \A e \in queued : e \in PlanElements
  BY DEF OrderlyInv
<1>4. r.owner \in queued => IsPlan(Request(r.owner, others))
  BY <1>3, ElementAsks, PlanElementAsks DEF IsElement
<1> QED BY <1>1, <1>2, <1>3, <1>4

\* What a reply must do for the others to stay in order.
LEMMA FinishKeepsOrder ==
    ASSUME PageInv, OrderlyInv, NEW r \in inflight, NEW replaced, Finish(r, replaced),
           \A q \in inflight \ {r} : IsPlan(q) \/ Current(q)',
           (\A q \in inflight \ {r} : ~BringsItem(q)) => Shown'
    PROVE  OrderlyInv'
<1>1. /\ \A p \in inflight' :
           IsPlan(p) \/ \E q \in inflight \ {r} : p = Renamed(q, replaced) /\ p.sent = q.sent
      /\ \A q \in inflight \ {r} : \E p \in inflight' : p.sent = q.sent
      /\ \A e \in queued' : e \in PlanElements
  BY FinishInOrder
<1>2. \A p \in inflight' : Current(p)'
  <2> SUFFICES ASSUME NEW p \in inflight' PROVE Current(p)'
    OBVIOUS
  <2>1. CASE p.sent.kind = "plan"
    BY <2>1 DEF Current
  <2>2. CASE p.sent.kind # "plan"
    <3>1. PICK q \in inflight \ {r} : p.sent = q.sent
      BY <1>1, <2>2 DEF IsPlan
    <3>2. Current(q)'
      BY <2>2, <3>1 DEF IsPlan
    <3> QED BY <3>1, <3>2 DEF Current
  <2> QED BY <2>1, <2>2
<1>3. ASSUME NEW q \in inflight', NEW p \in inflight',
             p.sent.kind \in {"item-details", "machine-details"}, ~IsPlan(q)
      PROVE  q = p
  <2>1. ~IsPlan(p)
    BY <1>3 DEF IsPlan
  <2>2. PICK a \in inflight \ {r} : q = Renamed(a, replaced) /\ q.sent = a.sent
    BY <1>1, <1>3
  <2>3. PICK b \in inflight \ {r} : p = Renamed(b, replaced) /\ p.sent = b.sent
    BY <1>1, <2>1
  <2>4. a = b
    BY <1>3, <2>2, <2>3 DEF OrderlyInv, IsPlan
  <2> QED BY <2>2, <2>3, <2>4
<1>4. ASSUME \A p \in inflight' : ~BringsItem(p) PROVE Shown'
  BY <1>1, <1>4 DEF BringsItem
<1> QED BY <1>1, <1>2, <1>3, <1>4 DEF OrderlyInv, IsPlan, BringsItem, PlanElements

\* A reply that changes no field, and leaves all that is awaited of the fields.
LEMMA SameFieldsKeepOrder ==
    ASSUME PageInv, OrderlyInv, NEW r \in inflight, NEW replaced, Finish(r, replaced),
           UNCHANGED fields, r.sent.kind \in {"plan", "item-details"}, ~BringsItem(r)
    PROVE  OrderlyInv'
<1>1. \A q \in inflight : Current(q)'
  BY CurrentStays DEF OrderlyInv, fields
<1>2. ASSUME \A q \in inflight \ {r} : ~BringsItem(q) PROVE Shown'
  <2>1. Shown
    BY <1>2 DEF OrderlyInv
  <2>2. \A q \in inflight \ {r} : \E p \in inflight' : p.sent = q.sent
    BY FinishInOrder
  <2>3. \A kind : kind \notin {"plan", "item-details"} => (Awaits(kind) => Awaits(kind)')
    BY <2>2 DEF Awaits
  <2> QED BY <2>1, <2>3, ShownStays
<1> QED BY <1>1, <1>2, FinishKeepsOrder

\* The only partial that is awaited comes, and brings everything as it is selected.
LEMMA LastKeepsOrder ==
    ASSUME PageInv, OrderlyInv, NEW r \in inflight, NEW replaced, Finish(r, replaced),
           r.sent.kind \in {"item-details", "machine-details"}, AllShown'
    PROVE  OrderlyInv'
<1>1. \A q \in inflight \ {r} : IsPlan(q)
  BY DEF OrderlyInv
<1>2. Shown'
  BY DEF AllShown, Shown
<1> QED BY <1>1, <1>2, FinishKeepsOrder

LEMMA SelectedAgain ==
    ASSUME NEW i \in Items, NEW preferred
    PROVE  LET m == selectMachine(Producers[i], preferred)
           IN  m = selectMachine(Producers[i], m)
<1>1. Producers[i] \in Seq(Machines)
  BY PageAssumption
<1>2. CASE Producers[i] = <<>>
  BY <1>2 DEF selectMachine, Range
<1>3. CASE Producers[i] # <<>>
  <2>1. 1 \in DOMAIN Producers[i] /\ Head(Producers[i]) = Producers[i][1]
    BY <1>1, <1>3
  <2>2. Head(Producers[i]) \in Range(Producers[i])
    BY <2>1 DEF Range
  <2> QED BY <1>3, <2>2 DEF selectMachine
<1> QED BY <1>2, <1>3

SidesHaveStats == DOMAIN stats = Sides

LEMMA ItemReplyKeepsOrder ==
    ASSUME PageInv, OrderlyInv, NEW r \in inflight, ItemReply(r), orderly'
    PROVE  OrderlyInv'
<1> DEFINE i == r.sent.item
           m == selectMachine(Producers[i], r.sent.craft)
           exact == recycleTimeSourceFromCraftTime(CraftTime[i])
<1>0. AgreeingSlots(slots)
  BY DEF PageInv, IInv
<1>1. i \in Items /\ i # NoItem
  BY DEF ItemReply, PageInv, IInv, RequestsAskedFor, AskedFor
<1>2. PICK details \in Resolved(m) :
        /\ slots' = [slots EXCEPT !["machine"] = EmptySlots(details.slots, r.sent.max)]
        /\ stats' = [side \in Sides |->
                       IF side = "machine" THEN FieldsOf(details)
                       ELSE calculateRecyclerStats(exact, r.sent.tier, r.sent.slots)]
        /\ orderly' = (orderly /\ ~Troubled(m, details))
  BY DEF ItemReply
<1>3. recipe' = i /\ craft' = m /\ UNCHANGED <<maxUnlocked, item, quality>>
  BY DEF ItemReply
<1>4. details = Details(m)
  BY <1>2 DEF Troubled
<1>5. /\ i = item /\ r.sent.max = maxUnlocked
      /\ r.sent.tier = quality["recycler"] /\ r.sent.slots = SentSlots("recycler")
  BY DEF ItemReply, OrderlyInv, Current
<1>6. PICK replaced : Finish(r, replaced)
  BY DEF ItemReply
<1>7. m = selectMachine(Producers[i], m)
  BY <1>1, SelectedAgain
<1>8. /\ slots'["machine"] = EmptySlots(Details(m).slots, maxUnlocked)
      /\ slots'["recycler"] = slots["recycler"]
      /\ stats'["machine"] = FieldsOf(Details(m))
      /\ stats'["recycler"] = calculateRecyclerStats(exact, quality["recycler"],
                                                     SentSlots("recycler"))
  BY <1>0, <1>2, <1>4, <1>5 DEF AgreeingSlots, Sides
<1>9. RecyclerShown'
  <2>1. calculateRecyclerStats(exact, quality["recycler"], SentSlots("recycler"))
          = calculateRecyclerStats(exact, quality["recycler"], slots["recycler"])
    BY SentSlotsSame, SameStats
  <2>2. ExactSource' = exact
    BY <1>1, <1>3 DEF ExactSource
  <2> HIDE DEF exact
  <2> QED BY <1>3, <1>8, <2>1, <2>2 DEF RecyclerShown
<1> DEFINE empty == EmptySlots(Details(m).slots, maxUnlocked)
<1>10. /\ DOMAIN empty = 1 .. Details(m).slots
       /\ \A j \in DOMAIN empty : empty[j].top = maxUnlocked /\ empty[j].disabled
  BY EmptySlotsHave
<1> HIDE DEF m, i, exact, empty
<1>11. AllShown'
  BY <1>3, <1>5, <1>7, <1>8, <1>9, <1>10 DEF empty, AllShown, TopsAre, MachineShown
<1> QED BY <1>6, <1>11, LastKeepsOrder DEF ItemReply

LEMMA MachineReplyKeepsOrder ==
    ASSUME PageInv, SidesHaveStats, OrderlyInv, NEW r \in inflight, MachineReply(r), orderly'
    PROVE  OrderlyInv'
<1>0. AgreeingSlots(slots)
  BY DEF PageInv, IInv
<1>1. PICK details \in Resolved(r.sent.craft) :
        /\ slots' = [slots EXCEPT !["machine"] = EmptySlots(details.slots, r.sent.max)]
        /\ stats' = [stats EXCEPT !["machine"] = FieldsOf(details)]
        /\ orderly' = (orderly /\ ~Troubled(r.sent.craft, details))
  BY DEF MachineReply
<1>2. UNCHANGED <<maxUnlocked, item, craft, recipe, source, quality>>
  BY DEF MachineReply
<1>3. r.sent.craft = craft /\ r.sent.max = maxUnlocked
  BY DEF MachineReply, OrderlyInv, Current
<1>4. details = Details(craft)
  BY <1>1, <1>3 DEF Troubled
<1>5. PICK replaced : Finish(r, replaced)
  BY DEF MachineReply
<1>6. \A q \in inflight : q.sent.kind \in {"plan", "machine-details"}
  BY DEF MachineReply, OrderlyInv, IsPlan
<1>7. Shown /\ ~Awaits("recycler-stats")
  BY <1>6 DEF OrderlyInv, BringsItem, Awaits
<1>8. /\ slots'["machine"] = EmptySlots(Details(craft).slots, maxUnlocked)
      /\ slots'["recycler"] = slots["recycler"]
  BY <1>0, <1>1, <1>3, <1>4 DEF AgreeingSlots, Sides
<1>9. /\ stats'["machine"] = FieldsOf(Details(craft))
      /\ stats'["recycler"] = stats["recycler"]
  BY <1>1, <1>4 DEF SidesHaveStats, Sides
<1>10. RecyclerShown'
  BY <1>2, <1>7, <1>8, <1>9 DEF Shown, RecyclerShown, ExactSource
<1> DEFINE empty == EmptySlots(Details(craft).slots, maxUnlocked)
<1>11. /\ DOMAIN empty = 1 .. Details(craft).slots
       /\ \A j \in DOMAIN empty : empty[j].top = maxUnlocked /\ empty[j].disabled
  BY EmptySlotsHave
<1> HIDE DEF empty
<1>12. AllShown'
  BY <1>2, <1>7, <1>8, <1>9, <1>10, <1>11 DEF empty, Shown, AllShown, TopsAre, MachineShown
<1> QED BY <1>5, <1>12, LastKeepsOrder DEF MachineReply

\* The stats of a side come, and those of the other are as they were.
LEMMA StatsKeepOrder ==
    ASSUME PageInv, OrderlyInv, NEW r \in inflight, NEW replaced, Finish(r, replaced),
           r.sent.kind \in {"module-stats", "recycler-stats"},
           UNCHANGED <<maxUnlocked, item, craft, recipe, source, quality, slots>>,
           r.sent.kind = "module-stats" =>
             /\ stats'["recycler"] = stats["recycler"]
             /\ DOMAIN slots["machine"] = 1 .. Details(craft).slots => MachineShown',
           r.sent.kind = "recycler-stats" =>
             stats'["machine"] = stats["machine"] /\ RecyclerShown'
    PROVE  OrderlyInv'
<1>1. \A q \in inflight : Current(q)'
  BY CurrentStays DEF OrderlyInv
<1>2. ASSUME \A q \in inflight \ {r} : ~BringsItem(q) PROVE Shown'
  <2>1. Shown
    BY <1>2 DEF OrderlyInv, BringsItem
  <2>2. \A q \in inflight \ {r} : \E p \in inflight' : p.sent = q.sent
    BY FinishInOrder
  <2>3. \A kind : kind # r.sent.kind => (Awaits(kind) => Awaits(kind)')
    BY <2>2 DEF Awaits
  <2>4. r.sent.kind = "module-stats" => (RecyclerShown => RecyclerShown')
    BY DEF RecyclerShown, ExactSource
  <2>5. r.sent.kind = "recycler-stats" => (MachineShown => MachineShown')
    BY DEF MachineShown, ShownTiers
  <2> QED BY <2>1, <2>3, <2>4, <2>5 DEF Shown, TopsAre
<1> QED BY <1>1, <1>2, FinishKeepsOrder

LEMMA ModuleStatsReplyKeepsOrder ==
    ASSUME PageInv, SidesHaveStats, OrderlyInv, NEW r \in inflight, ModuleStatsReply(r), orderly'
    PROVE  OrderlyInv'
<1> DEFINE Read(details) ==
             [i \in (1 .. details.slots) \intersect DOMAIN r.sent.slots |-> r.sent.slots[i]]
<1>1. PICK details \in Resolved(r.sent.craft) :
        /\ stats' = [stats EXCEPT !["machine"] =
                       EffectiveMachine(details, r.sent.tier, Read(details))]
        /\ orderly' = (orderly /\ ~Troubled(r.sent.craft, details))
  BY DEF ModuleStatsReply
<1>2. UNCHANGED <<maxUnlocked, item, craft, recipe, source, quality, slots>>
  BY DEF ModuleStatsReply
<1>3. /\ r.sent.craft = craft /\ r.sent.tier = quality["machine"]
      /\ r.sent.slots = SentSlots("machine")
  BY DEF ModuleStatsReply, OrderlyInv, Current
<1>4. details = Details(craft)
  BY <1>1, <1>3 DEF Troubled
<1>5. Finish(r, {}) /\ r.sent.kind = "module-stats"
  BY DEF ModuleStatsReply
<1>6. quality["machine"] \in ShownTiers
  <2>1. quality["machine"] \in 0 .. maxUnlocked /\ maxUnlocked \in 0 .. 4
    BY PageAssumption
    DEF PageInv, ValuesInv, Sides, Tiers, QualityNormal, QualityLegendary
  <2> QED BY <2>1 DEF ShownTiers, Tiers, QualityNormal, QualityLegendary
<1>7. /\ stats'["recycler"] = stats["recycler"]
      /\ stats'["machine"]
           = EffectiveMachine(Details(craft), quality["machine"], Read(Details(craft)))
  BY <1>1, <1>3, <1>4 DEF SidesHaveStats, Sides
<1>8. ASSUME DOMAIN slots["machine"] = 1 .. Details(craft).slots PROVE MachineShown'
  <2>1. SameModules(Read(Details(craft)), slots["machine"])
    BY <1>3, <1>8 DEF SameModules, SentSlots
  <2>2. EffectiveMachine(Details(craft), quality["machine"], Read(Details(craft)))
          = EffectiveMachine(Details(craft), quality["machine"], slots["machine"])
    BY <2>1, SameStats
  <2>3. quality["machine"] \in ShownTiers'
    BY <1>2, <1>6 DEF ShownTiers
  <2> QED BY <1>2, <1>7, <2>2, <2>3 DEF MachineShown
<1> QED BY <1>2, <1>5, <1>7, <1>8, StatsKeepOrder

LEMMA RecyclerStatsReplyKeepsOrder ==
    ASSUME PageInv, SidesHaveStats, OrderlyInv, NEW r \in inflight, RecyclerStatsReply(r)
    PROVE  OrderlyInv'
<1>1. UNCHANGED <<maxUnlocked, item, craft, recipe, source, quality, slots>>
  BY DEF RecyclerStatsReply
<1>2. /\ r.sent.source = source /\ r.sent.tier = quality["recycler"]
      /\ r.sent.slots = SentSlots("recycler")
  BY DEF RecyclerStatsReply, OrderlyInv, Current
<1>3. Finish(r, {}) /\ r.sent.kind = "recycler-stats"
  BY DEF RecyclerStatsReply
<1>4. /\ stats'["machine"] = stats["machine"]
      /\ stats'["recycler"] = calculateRecyclerStats(source, quality["recycler"],
                                                     SentSlots("recycler"))
  BY <1>2 DEF RecyclerStatsReply, SidesHaveStats, Sides
<1>5. RecyclerShown'
  <2>1. calculateRecyclerStats(source, quality["recycler"], SentSlots("recycler"))
          = calculateRecyclerStats(source, quality["recycler"], slots["recycler"])
    BY SentSlotsSame, SameStats
  <2> QED BY <1>1, <1>4, <2>1 DEF RecyclerShown
<1> QED BY <1>1, <1>3, <1>4, <1>5, StatsKeepOrder

LEMMA PageStepsKeepFields ==
    ASSUME PageInv, SidesHaveStats, FieldsInv, PageSteps
    PROVE  FieldsInv'
<1>1. ASSUME NEW e \in timers, DelayEnds(e) PROVE FieldsInv'
  <2>1. e \in PlanElements
    BY DEF PageInv, NetInv
  <2> QED BY <1>1, <2>1, PlansKeepOrder DEF DelayEnds, FieldsInv, TopsAre, fields, form
<1>2. ASSUME NEW r \in inflight, Reply(r) PROVE FieldsInv'
  <2>1. TopsAre("recycler", maxUnlocked)'
    <3>1. AgreeingSlots(slots) /\ maxUnlocked' = maxUnlocked
      BY <1>2 DEF PageInv, IInv, Reply, ItemReply, MachineReply, ModuleStatsReply,
                  RecyclerStatsReply, PlanReply, EmptyReply, form
    <3>2. slots'["recycler"] = slots["recycler"]
      BY <1>2, <3>1 DEF Reply, ItemReply, MachineReply, ModuleStatsReply,
                        RecyclerStatsReply, PlanReply, EmptyReply, form, AgreeingSlots, Sides
    <3> QED BY <3>1, <3>2 DEF FieldsInv, TopsAre
  <2>2. ASSUME orderly' PROVE OrderlyInv'
    <3>1. OrderlyInv
      BY <1>2, <2>2 DEF Reply, ItemReply, MachineReply, ModuleStatsReply, RecyclerStatsReply,
                        PlanReply, EmptyReply, FieldsInv
    <3>2. CASE PlanReply(r)
      BY <3>1, <3>2, SameFieldsKeepOrder DEF PlanReply, BringsItem, fields, form
    <3>3. CASE EmptyReply(r)
      <4>1. r.sent.kind \in {"plan", "item-details"} /\ ~BringsItem(r)
        BY <2>2, <3>3 DEF EmptyReply, BringsItem
      <4> QED BY <3>1, <3>3, <4>1, SameFieldsKeepOrder DEF EmptyReply, fields, form
    <3> QED BY <1>2, <2>2, <3>1, <3>2, <3>3, ItemReplyKeepsOrder, MachineReplyKeepsOrder,
               ModuleStatsReplyKeepsOrder, RecyclerStatsReplyKeepsOrder
            DEF Reply
  <2> QED BY <2>1, <2>2 DEF FieldsInv
<1> QED BY <1>1, <1>2 DEF PageSteps

LEMMA SidesKeepStats ==
    ASSUME SidesHaveStats, Next
    PROVE  SidesHaveStats'
<1>1. CASE UserActs
  <2>1. stats' = stats
    BY <1>1 DEF UserActs, ChooseItem, ChooseMachine, ChooseQuality, ChooseModule,
                ChooseModuleQuality, ChooseTarget, ChooseMaxUnlocked, EditBox, TypeInBox, form
  <2> QED BY <2>1 DEF SidesHaveStats
<1>2. ASSUME NEW e, DelayEnds(e) PROVE SidesHaveStats'
  BY <1>2 DEF DelayEnds, form, SidesHaveStats
<1>3. ASSUME NEW r, Reply(r) PROVE SidesHaveStats'
  BY <1>3 DEF Reply, ItemReply, MachineReply, ModuleStatsReply, RecyclerStatsReply, PlanReply,
              EmptyReply, form, SidesHaveStats
<1> QED BY <1>1, <1>2, <1>3 DEF Next, PageSteps

LEMMA FieldsInvInitially == Init => SidesHaveStats /\ FieldsInv
<1> SUFFICES ASSUME Init PROVE SidesHaveStats /\ FieldsInv
  OBVIOUS
<1>1. \A side \in Sides : \E n : slots[side] = EmptySlots(n, QualityLegendary)
  BY DEF Init
<1>2. TopsAre("machine", maxUnlocked) /\ TopsAre("recycler", maxUnlocked)
  BY <1>1, EmptySlotsHave DEF Init, TopsAre, Sides
<1>3. RecyclerShown
  BY LoadedAssumption DEF Init, RecyclerShown, ExactSource, Sides
<1>4. DOMAIN stats = Sides
  BY DEF Init
<1>5. OrderlyInv
  BY <1>2, <1>3 DEF Init, OrderlyInv, Shown
<1> QED BY <1>2, <1>4, <1>5 DEF FieldsInv, SidesHaveStats

LEMMA FieldsArePreserved ==
    PageInv /\ SidesHaveStats /\ FieldsInv /\ [Next]_vars => SidesHaveStats' /\ FieldsInv'
<1> SUFFICES ASSUME PageInv, SidesHaveStats, FieldsInv, [Next]_vars
             PROVE  SidesHaveStats' /\ FieldsInv'
  OBVIOUS
<1>1. CASE Next
  BY <1>1, SidesKeepStats, UserActsKeepFields, PageStepsKeepFields DEF Next
<1>2. CASE UNCHANGED vars
  BY <1>2, OrderStays DEF vars, form, net, SidesHaveStats, FieldsInv, TopsAre, fields
<1> QED BY <1>1, <1>2

\* While every partial was asked for alone, and came, the fields of a page that awaits
\* none are what its selects make of the item and the machine that are selected, and no
\* slot offers a quality that is locked, whatever plans are under way
\* (templates/index.html, static/js/machine-stats.js:1-13, ui-dropdowns.js:1-45,
\* main.go:140-332, 642-760).
THEOREM FieldsFollowTheSelects == Spec => []FieldsMatchSelects
<1>1. PageInv /\ FieldsInv => FieldsMatchSelects
  <2> SUFFICES ASSUME PageInv, FieldsInv, orderly, ~PartialPending PROVE FieldsMatchSelects
    BY DEF FieldsMatchSelects
  <2>1. AllShown
    BY NothingAwaited DEF FieldsInv
  <2>2. \A side \in Sides : TopsAre(side, maxUnlocked)
    BY <2>1 DEF AllShown, FieldsInv, Sides
  <2>3. recipe # NoItem => MachineFieldsMatch
    BY <2>1 DEF AllShown, MachineFieldsMatch, MachineShown
  <2> QED BY <2>1, <2>2, <2>3 DEF FieldsMatchSelects, AllShown, RecyclerShown, TopsAre
<1> QED BY <1>1, PageInvHolds, FieldsInvInitially, FieldsArePreserved, PTL DEF Spec
=============================================================================
