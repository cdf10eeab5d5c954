----------------------------- MODULE PlannerPage -----------------------------
(***************************************************************************)
(* The planner's page: the selects and fields of templates/index.html, the *)
(* scripts that keep them together, the requests htmx sends for them, and  *)
(* the handlers of /partials/* and /plan, whose replies replace parts of   *)
(* the page in the order they arrive.                                      *)
(*                                                                         *)
(* An element has one request of its own in flight; while it waits, one    *)
(* more is kept for it, and that one is made of what the page holds when   *)
(* it is sent at last. An element that a reply replaces loses the request  *)
(* it kept and its timers, but the reply it waits for is still applied.    *)
(* What is listened to is fixed when the page is loaded: the form submits  *)
(* itself 300 ms after a change of an element that is there since then.    *)
(***************************************************************************)
EXTENDS ModuleStats, Sequences, FiniteSets

CONSTANTS
    Items,          \* items that can be typed
    Producers,      \* Producers[i]: the machines the wiki gives for i, in order
    CraftTime,      \* CraftTime[i]: thousandths of a second
    Machines,
    MachineData,    \* MachineData[m]: its speed, productivity, quality and slots
    Modules,        \* modules that are put in slots
    Unlockable,     \* what max-quality-unlocked can be set to
    Choices,        \* qualities that are chosen elsewhere
    RecyclerSlots,
    Edited,         \* boxes that are edited
    Counts,         \* what is typed into them
    MaxActions,     \* bound: actions of the user
    NoItem,
    NoMachine,
    NoPlan

ASSUME PageAssumption ==
    /\ NoItem \notin Items /\ NoMachine \notin Machines
    /\ Producers \in [Items -> Seq(Machines)]
    /\ CraftTime \in [Items -> Nat]
    /\ MachineData \in [Machines -> [speed : Nat, productivity : Nat, quality : Nat, slots : Nat]]
    /\ Modules \subseteq ModuleIDs
    /\ QualityLegendary \in Unlockable /\ Unlockable \subseteq Tiers /\ Choices \subseteq Tiers
    /\ RecyclerSlots \in Nat /\ MaxActions \in Nat

Sides == {"machine", "recycler"}

\* Elements that send requests. Gone stands for one that has been replaced.
Form == <<"form">>
Item == <<"item">>
Craft == <<"craft">>
Quality(side) == <<"quality", side>>
Module(side, i) == <<"module", side, i>>
ModuleQuality(side, i) == <<"module quality", side, i>>
TotalBox == -1
Boxes == {TotalBox} \union Tiers
Box(b) == <<"box", b>>
Gone == <<"gone">>

ASSUME EditsAssumption == Edited \subseteq Boxes /\ Counts \subseteq Nat

\* Where a count that is shown goes back to: the box and the number typed. The
\* zeros that the page is loaded with, or a script writes, go back to no machines.
Zero == <<TotalBox, 0>>

VARIABLES
    maxUnlocked, target, item,
    craft,          \* the crafting machine selected
    recipe,         \* the item whose recipe, producers and recycling time are shown
    source,         \* base_recycle_time_seconds_source
    quality,        \* quality[side]
    slots,          \* slots[side]: the two selects of each module slot
    stats,          \* stats[side]: the read-only fields
    boxes,          \* boxes[b]: where the count in the box goes back to
    plan,           \* what the plan that is shown was computed from
    timers,         \* elements whose delay is running
    inflight,       \* requests that have no reply yet
    queued,         \* elements that keep a request
    actions,        \* number of the user's actions
    \* History variables, of no effect on the others:
    orderly,        \* every partial since the last item was asked for alone, and came
    alone,          \* the plans since the page last waited for none came one by one
    watched         \* what a target or a count given to a quiet page should lead to

form == <<maxUnlocked, target, item, craft, recipe, source, quality, slots, stats>>
net == <<timers, inflight, queued>>
vars == <<form, boxes, plan, net, actions, orderly, alone, watched>>

DefaultMachine == [speed |-> 1000, productivity |-> 0, quality |-> 0, slots |-> 0]
Details(m) == IF m = NoMachine THEN DefaultMachine ELSE MachineData[m]

FieldsOf(details) ==
    [speed |-> details.speed, productivity |-> details.productivity,
     quality |-> details.quality]

\* Slots as renderMachineModuleField makes them.
EmptySlots(n, top) ==
    [i \in 1 .. n |->
        [module |-> NoModule, quality |-> QualityNormal, disabled |-> TRUE, top |-> top]]

Unwatched == [since |-> "nothing", origin |-> Zero]

\* The recycler's fields that the page is loaded with. They are those of slots without
\* modules: a sum of zeros, which is assumed to be zero, as TLC finds it to be.
LoadedRecycler == [speed |-> 500, quality |-> 0, time |-> 125]

ASSUME LoadedAssumption ==
    LoadedRecycler = calculateRecyclerStats(1000, QualityNormal,
                                            EmptySlots(RecyclerSlots, QualityLegendary))

Init ==
    /\ maxUnlocked = QualityLegendary /\ target = QualityLegendary
    /\ item = NoItem /\ craft = NoMachine /\ recipe = NoItem
    /\ source = 1000
    /\ quality = [side \in Sides |-> QualityNormal]
    /\ slots = [side \in Sides |->
                  EmptySlots(IF side = "machine" THEN 0 ELSE RecyclerSlots, QualityLegendary)]
    /\ stats = [side \in Sides |->
                  IF side = "machine" THEN [speed |-> 1000, productivity |-> 0, quality |-> 100]
                  ELSE LoadedRecycler]
    /\ boxes = [b \in Boxes |-> Zero]
    /\ plan = NoPlan
    /\ timers = {} /\ inflight = {} /\ queued = {}
    /\ actions = 0
    /\ orderly = TRUE /\ alone = TRUE
    /\ watched = Unwatched

-----------------------------------------------------------------------------
(* Requests                                                                *)

\* The values of a side's selects that are sent with every request of the form.
SentSlots(side) ==
    [i \in DOMAIN slots[side] |->
        [module |-> slots[side][i].module, quality |-> slots[side][i].quality]]

PlanInputs ==
    [target |-> target, recipe |-> recipe,
     machine |-> stats["machine"], recycler |-> stats["recycler"]]

\* The form's own changed_quality is normal; a box overrides it.
Anchor(e) == IF e = Form THEN QualityNormal ELSE e[2]

\* What the request of an element carries, of what its handler reads.
Sent(e) ==
    IF e = Item
    THEN [kind |-> "item-details", item |-> item, craft |-> craft, max |-> maxUnlocked,
          tier |-> quality["recycler"], slots |-> SentSlots("recycler")]
    ELSE IF e = Craft
    THEN [kind |-> "machine-details", craft |-> craft, max |-> maxUnlocked]
    ELSE IF e[1] \in {"form", "box"}
    THEN [kind |-> "plan", anchor |-> Anchor(e), origin |-> boxes[Anchor(e)],
          inputs |-> PlanInputs]
    ELSE IF e[2] = "machine"
    THEN [kind |-> "module-stats", craft |-> craft, tier |-> quality["machine"],
          slots |-> SentSlots("machine")]
    ELSE [kind |-> "recycler-stats", source |-> source, tier |-> quality["recycler"],
          slots |-> SentSlots("recycler")]

Busy(e) == \E r \in inflight : r.owner = e

\* A number that tells a request from one of the same content.
FreshId(requests) ==
    CHOOSE n \in 0 .. Cardinality(requests) : \A r \in requests : r.id # n

Plans(requests) == {r \in requests : r.sent.kind = "plan"}

\* Two requests for a plan at a time, or one that brings none, end a time of plans
\* that come alone; the next one that is sent when none is awaited begins another.
ReviewPlans(came) ==
    alone' = (/\ Cardinality(Plans(inflight')) < 2
              /\ \/ alone /\ came
                 \/ Plans(inflight) = {} /\ Plans(inflight') # {})

\* The elements of es are triggered, after the form has changed.
Trigger(es) ==
    /\ inflight' = inflight \union
                     {[id |-> FreshId(inflight), owner |-> e, sent |-> Sent(e)'] :
                        e \in {d \in es : ~Busy(d)}}
    /\ queued' = queued \union {e \in es : Busy(e)}
    /\ ReviewPlans(TRUE)

PartialPending == \E r \in inflight : r.sent.kind # "plan"
Quiet == inflight = {} /\ timers = {}

-----------------------------------------------------------------------------
(* What the user does                                                      *)

Act == actions < MaxActions /\ actions' = actions + 1

\* An action that leads to a request for a partial, or to none that is watched.
Unremarked ==
    /\ orderly' = (orderly /\ ~PartialPending)
    /\ watched' = Unwatched

ChooseItem(i) ==
    /\ Act
    /\ i # item
    /\ item' = i
    /\ UNCHANGED <<maxUnlocked, target, craft, recipe, source, quality, slots, stats, boxes, plan>>
    /\ Trigger({Item})
    /\ timers' = timers \union {Form}
    /\ orderly' = (~PartialPending /\ (orderly \/ i # NoItem))
    /\ watched' = Unwatched

ChooseMachine(m) ==
    /\ Act
    /\ recipe # NoItem
    /\ m \in Range(Producers[recipe]) \ {craft}
    /\ craft' = m
    /\ UNCHANGED <<maxUnlocked, target, item, recipe, source, quality, slots, stats, boxes, plan>>
    /\ Trigger({Craft})
    /\ UNCHANGED timers
    /\ Unremarked

ChooseQuality(side, tier) ==
    /\ Act
    /\ tier <= maxUnlocked /\ tier # quality[side]
    /\ quality' = [quality EXCEPT ![side] = tier]
    /\ UNCHANGED <<maxUnlocked, target, item, craft, recipe, source, slots, stats, boxes, plan>>
    /\ Trigger({Quality(side)})
    /\ timers' = timers \union {Form}
    /\ Unremarked

\* Only the recycler's slots have been there since the page was loaded.
SlotTimers(side) == IF side = "recycler" THEN {Form} ELSE {}

\* MUTANT: the slots below get the module and keep their own quality select.
ModulesWithoutQuality(side, i, module) ==
    [j \in DOMAIN slots[side] |->
        LET slot == slots[side][j]
        IN  IF j < i THEN slot
            ELSE IF j = i
            THEN [slot EXCEPT !.module = module, !.disabled = (module = NoModule),
                              !.quality = IF module = NoModule THEN QualityNormal ELSE @]
            ELSE [slot EXCEPT !.module = module]]

\* A module is put in its slot and in every slot below, with the slot's quality.
ModulesFrom(side, i, module) ==
    [j \in DOMAIN slots[side] |->
        LET slot == slots[side][j]
            chosen == slots[side][i].quality
        IN  IF j < i THEN slot
            ELSE [slot EXCEPT
                    !.module = module,
                    !.disabled = (module = NoModule),
                    !.quality = IF module = NoModule \/ chosen > slot.top
                                THEN QualityNormal ELSE chosen]]

ChooseModule(side, i, module) ==
    /\ Act
    /\ module # slots[side][i].module
    /\ slots' = [slots EXCEPT ![side] = ModulesFrom(side, i, module)]
    /\ UNCHANGED <<maxUnlocked, target, item, craft, recipe, source, quality, stats, boxes, plan>>
    /\ Trigger({Module(side, i)})
    /\ timers' = timers \union SlotTimers(side)
    /\ Unremarked

\* A module's quality is given to every module below.
QualitiesFrom(side, i, tier) ==
    [j \in DOMAIN slots[side] |->
        LET slot == slots[side][j]
        IN  IF j < i \/ (j > i /\ slot.module = NoModule) THEN slot
            ELSE [slot EXCEPT !.quality = IF tier > slot.top THEN QualityNormal ELSE tier]]

ChooseModuleQuality(side, i, tier) ==
    /\ Act
    /\ ~slots[side][i].disabled
    /\ tier <= slots[side][i].top /\ tier # slots[side][i].quality
    /\ slots' = [slots EXCEPT ![side] = QualitiesFrom(side, i, tier)]
    /\ UNCHANGED <<maxUnlocked, target, item, craft, recipe, source, quality, stats, boxes, plan>>
    /\ Trigger({ModuleQuality(side, i)})
    /\ timers' = timers \union SlotTimers(side)
    /\ Unremarked

Watch(origin) ==
    /\ watched' = IF Quiet
                  THEN [since |-> IF plan = NoPlan THEN "load" ELSE "plan", origin |-> origin]
                  ELSE Unwatched
    /\ UNCHANGED orderly

ChooseTarget(tier) ==
    /\ Act
    /\ tier <= maxUnlocked /\ tier # target
    /\ target' = tier
    /\ UNCHANGED <<maxUnlocked, item, craft, recipe, source, quality, slots, stats, boxes, plan>>
    /\ UNCHANGED <<inflight, queued, alone>>
    /\ timers' = timers \union {Form}
    /\ Watch(boxes[QualityNormal])

\* A change event: the number was typed and the box left, or an arrow clicked.
EditBox(b, count) ==
    /\ Act
    /\ boxes' = [boxes EXCEPT ![b] = <<b, count>>]
    /\ UNCHANGED <<form, plan>>
    /\ Trigger({Box(b)})
    /\ timers' = (timers \ {Box(b)}) \union (IF plan = NoPlan THEN {Form} ELSE {})
    /\ Watch(<<b, count>>)

\* A keystroke: the box waits 300 ms for the next one.
TypeInBox(b, count) ==
    /\ Act
    /\ boxes' = [boxes EXCEPT ![b] = <<b, count>>]
    /\ UNCHANGED <<form, plan, inflight, queued, alone>>
    /\ timers' = timers \union {Box(b)}
    /\ Watch(<<b, count>>)

-----------------------------------------------------------------------------
(* Another quality is unlocked, or fewer are: syncFromMaxUnlocked          *)

\* MUTANT: a quality that is locked now stays selected.
CappedNever(tier, low, max) == IF tier > QualityLegendary THEN low ELSE tier

Capped(tier, low, max) == IF tier > max THEN low ELSE tier

\* MUTANT: module qualities above the new limit stay selected.
SlotsUncapped(max) ==
    [side \in Sides |->
        [i \in DOMAIN slots[side] |-> [slots[side][i] EXCEPT !.top = max]]]

SlotsUpTo(max) ==
    [side \in Sides |->
        [i \in DOMAIN slots[side] |->
            LET slot == slots[side][i]
            IN  [slot EXCEPT !.top = max, !.quality = Capped(@, max, max),
                             !.disabled = (slot.module = NoModule)]]]

\* The count of a tier is not 0 for certain when it was typed or planned for that
\* tier. Other tiers of a plan up to its target can have one.
HasCount(b) == boxes[b] # Zero /\ boxes[b][1] = b
MayHaveCount(b) ==
    \/ HasCount(b)
    \/ boxes[b] # Zero /\ plan # NoPlan /\ b <= plan.inputs.target

\* The lowest box above the limit whose count is not 0 already, or none.
LowestReset(max, es) ==
    \/ /\ es = {}
       /\ \A b \in max + 1 .. QualityLegendary : ~HasCount(b)
    \/ \E b \in max + 1 .. QualityLegendary :
         /\ es = {Box(b)}
         /\ MayHaveCount(b)
         /\ \A lower \in max + 1 .. b - 1 : ~HasCount(lower)

ChooseMaxUnlocked(max) ==
    /\ Act
    /\ max # maxUnlocked
    /\ maxUnlocked' = max
    /\ target' = Capped(target, max, max)
    /\ quality' = [side \in Sides |-> Capped(quality[side], QualityNormal, max)]
    /\ slots' = SlotsUpTo(max)
    /\ boxes' = [b \in Boxes |-> IF b > max THEN Zero ELSE boxes[b]]
    /\ UNCHANGED <<item, craft, recipe, source, stats, plan>>
    /\ \E es \in {{}} \union {{Box(b)} : b \in Boxes} :
         /\ LowestReset(max, es)
         /\ Trigger({Quality("recycler")} \union es
                      \union (IF craft = NoMachine THEN {} ELSE {Quality("machine")}))
         /\ timers' = (timers \ es) \union {Form}
    /\ Unremarked

-----------------------------------------------------------------------------
(* Delays and replies                                                      *)

DelayEnds(e) ==
    /\ e \in timers
    /\ timers' = timers \ {e}
    /\ UNCHANGED <<form, boxes, plan, actions, orderly, watched>>
    /\ Trigger({e})

\* The end of r, whose reply has replaced elements: its own element sends the
\* request it kept, unless it is one of them.
Finish(r, replaced) ==
    LET others == {[q EXCEPT !.owner = IF @ \in replaced THEN Gone ELSE @] : q \in inflight \ {r}}
        next == {r.owner} \intersect (queued \ replaced)
    IN  /\ inflight' = others \union
                         {[id |-> FreshId(others), owner |-> e, sent |-> Sent(e)'] : e \in next}
        /\ queued' = queued \ (replaced \union next)
        /\ timers' = timers \ replaced
        /\ ReviewPlans(Plans({r}) = {} \/ replaced # {})

MachineSlotElements ==
    {Module("machine", i) : i \in DOMAIN slots["machine"]}
      \union {ModuleQuality("machine", i) : i \in DOMAIN slots["machine"]}

selectMachine(producers, preferred) ==
    IF preferred \in Range(producers) THEN preferred
    ELSE IF producers = <<>> THEN NoMachine ELSE Head(producers)

\* What resolveMachineDetails can return: the defaults when there is no machine,
\* or when its page cannot be had.
Resolved(m) == {Details(m), DefaultMachine}
Troubled(m, details) == details # Details(m)

\* The reply of /partials/item-details to an item whose page was found.
ItemReply(r) ==
    /\ r.sent.kind = "item-details"
    /\ r.sent.item # NoItem
    /\ LET i == r.sent.item
           m == selectMachine(Producers[i], r.sent.craft)
           exact == recycleTimeSourceFromCraftTime(CraftTime[i])
       IN  \E details \in Resolved(m) :
             /\ recipe' = i
             /\ source' = ShownSource(exact)
             /\ craft' = m
             /\ slots' = [slots EXCEPT !["machine"] = EmptySlots(details.slots, r.sent.max)]
             /\ stats' = [side \in Sides |->
                            IF side = "machine" THEN FieldsOf(details)
                            ELSE calculateRecyclerStats(exact, r.sent.tier, r.sent.slots)]
             /\ orderly' = (orderly /\ ~Troubled(m, details))
    /\ UNCHANGED <<maxUnlocked, target, item, quality, boxes, plan, actions, watched>>
    /\ Finish(r, MachineSlotElements \union {Craft})

\* MUTANT: a new machine keeps the modules of the old one in the slots it has.
MachineReplyKeepingModules(r) ==
    /\ r.sent.kind = "machine-details"
    /\ \E details \in Resolved(r.sent.craft) :
         /\ slots' = [slots EXCEPT !["machine"] =
                        [i \in 1 .. details.slots |->
                            IF i \in DOMAIN @ THEN @[i] ELSE EmptySlots(i, r.sent.max)[i]]]
         /\ stats' = [stats EXCEPT !["machine"] = FieldsOf(details)]
         /\ orderly' = (orderly /\ ~Troubled(r.sent.craft, details))
    /\ UNCHANGED <<maxUnlocked, target, item, craft, recipe, source, quality>>
    /\ UNCHANGED <<boxes, plan, actions, watched>>
    /\ Finish(r, MachineSlotElements)

MachineReply(r) ==
    /\ r.sent.kind = "machine-details"
    /\ \E details \in Resolved(r.sent.craft) :
         /\ slots' = [slots EXCEPT !["machine"] = EmptySlots(details.slots, r.sent.max)]
         /\ stats' = [stats EXCEPT !["machine"] = FieldsOf(details)]
         /\ orderly' = (orderly /\ ~Troubled(r.sent.craft, details))
    /\ UNCHANGED <<maxUnlocked, target, item, craft, recipe, source, quality>>
    /\ UNCHANGED <<boxes, plan, actions, watched>>
    /\ Finish(r, MachineSlotElements)

\* Only the slots that the machine has are read.
ModuleStatsReply(r) ==
    /\ r.sent.kind = "module-stats"
    /\ \E details \in Resolved(r.sent.craft) :
         LET read == [i \in (1 .. details.slots) \intersect DOMAIN r.sent.slots |-> r.sent.slots[i]]
         IN  /\ stats' = [stats EXCEPT !["machine"] =
                            EffectiveMachine(details, r.sent.tier, read)]
             /\ orderly' = (orderly /\ ~Troubled(r.sent.craft, details))
    /\ UNCHANGED <<maxUnlocked, target, item, craft, recipe, source, quality, slots>>
    /\ UNCHANGED <<boxes, plan, actions, watched>>
    /\ Finish(r, {})

RecyclerStatsReply(r) ==
    /\ r.sent.kind = "recycler-stats"
    /\ stats' = [stats EXCEPT !["recycler"] =
                   calculateRecyclerStats(r.sent.source, r.sent.tier, r.sent.slots)]
    /\ UNCHANGED <<maxUnlocked, target, item, craft, recipe, source, quality, slots>>
    /\ UNCHANGED <<boxes, plan, actions, orderly, watched>>
    /\ Finish(r, {})

\* MUTANT: the reply brings the boxes of the tiers and leaves the total as it is.
PlanReplyWithoutTotal(r) ==
    /\ r.sent.kind = "plan"
    /\ r.sent.anchor <= r.sent.inputs.target
    /\ plan' = [inputs |-> r.sent.inputs, origin |-> r.sent.origin]
    /\ boxes' = [b \in Boxes |-> IF b = TotalBox THEN boxes[b] ELSE r.sent.origin]
    /\ UNCHANGED <<form, actions, orderly, watched>>
    /\ Finish(r, {Box(b) : b \in Tiers})

\* A plan replaces all boxes. There is none for a tier that has no share.
PlanReply(r) ==
    /\ r.sent.kind = "plan"
    /\ r.sent.anchor <= r.sent.inputs.target
    /\ plan' = [inputs |-> r.sent.inputs, origin |-> r.sent.origin]
    /\ boxes' = [b \in Boxes |-> r.sent.origin]
    /\ UNCHANGED <<form, actions, orderly, watched>>
    /\ Finish(r, {Box(b) : b \in Boxes})

\* A reply that replaces no field: of an item that was cleared or is not known, of
\* status 400 or 429, or none at all.
EmptyReply(r) ==
    /\ UNCHANGED <<form, boxes, plan, actions>>
    /\ orderly' = (orderly /\ (r.sent.kind = "plan"
                                \/ (r.sent.kind = "item-details" /\ r.sent.item = NoItem)))
    /\ watched' = IF r.sent.kind = "plan" THEN Unwatched ELSE watched
    /\ Finish(r, {})

Reply(r) ==
    \/ ItemReply(r) \/ MachineReply(r) \/ ModuleStatsReply(r) \/ RecyclerStatsReply(r)
    \/ PlanReply(r) \/ EmptyReply(r)

UserActs ==
    \/ \E i \in Items \union {NoItem} : ChooseItem(i)
    \/ \E m \in Machines : ChooseMachine(m)
    \/ \E side \in Sides :
         \/ \E tier \in Choices : ChooseQuality(side, tier)
         \/ \E i \in DOMAIN slots[side] :
              \/ \E module \in Modules \union {NoModule} : ChooseModule(side, i, module)
              \/ \E tier \in Choices : ChooseModuleQuality(side, i, tier)
    \/ \E tier \in Choices : ChooseTarget(tier)
    \/ \E max \in Unlockable : ChooseMaxUnlocked(max)
    \/ \E b \in Edited, count \in Counts : EditBox(b, count) \/ TypeInBox(b, count)

PageSteps == (\E e \in timers : DelayEnds(e)) \/ (\E r \in inflight : Reply(r))

Next == UserActs \/ PageSteps

Spec == Init /\ [][Next]_vars
-----------------------------------------------------------------------------
Slot == [module : Modules \union {NoModule}, quality : Tiers, disabled : BOOLEAN, top : Tiers]

\* No select outside the slots keeps a quality that is locked, and an element has
\* one request in flight at a time and keeps one only while it waits for that.
TypeOK ==
    /\ maxUnlocked \in Unlockable /\ target \in 0 .. maxUnlocked
    /\ item \in Items \union {NoItem} /\ recipe \in Items \union {NoItem}
    /\ craft \in Machines \union {NoMachine}
    /\ source \in Nat
    /\ quality \in [Sides -> 0 .. maxUnlocked]
    /\ \A side \in Sides : \A i \in DOMAIN slots[side] : slots[side][i] \in Slot
    /\ boxes \in [Boxes -> Boxes \X Nat]
    /\ \A e \in queued : Busy(e)
    /\ \A q, r \in inflight : q.owner = r.owner /\ q.owner # Gone => q = r

\* The two selects of a slot agree whatever arrives when: the quality can be
\* chosen if and only if there is a module, is Normal if there is none, and is one
\* of those the select offers.
SlotsAgree ==
    \A side \in Sides : \A i \in DOMAIN slots[side] :
      LET slot == slots[side][i]
      IN  /\ slot.disabled <=> slot.module = NoModule
          /\ slot.disabled => slot.quality = QualityNormal
          /\ slot.quality <= slot.top

ExactSource == IF recipe = NoItem THEN 1000 ELSE recycleTimeSourceFromCraftTime(CraftTime[recipe])

\* Nothing is asked for where there is no machine and the quality selected for it is
\* locked: the fields are then for one that was.
ShownTiers == IF craft = NoMachine THEN Tiers ELSE {quality["machine"]}

MachineFieldsMatch ==
    /\ craft = selectMachine(Producers[recipe], craft)
    /\ DOMAIN slots["machine"] = 1 .. Details(craft).slots
    /\ \/ \E tier \in ShownTiers :
            stats["machine"] = EffectiveMachine(Details(craft), tier, slots["machine"])
       \/ /\ stats["machine"] = FieldsOf(Details(craft))
          /\ \A i \in DOMAIN slots["machine"] : slots["machine"][i].disabled

\* No slot of the selected machine, or of the recycler, has more to choose from
\* than is unlocked, and the fields are what the selects make of the item and the
\* machine that are selected, if each partial was asked for alone. (A machine that
\* was just selected shows its own numbers, without its quality. Where none makes
\* the item, they can be for a quality that was selected before it was locked.)
FieldsMatchSelects ==
    orderly /\ ~PartialPending =>
      /\ item # NoItem => recipe = item
      /\ recipe # NoItem => MachineFieldsMatch
      /\ \E time \in {source, ExactSource} :
           stats["recycler"]
             = calculateRecyclerStats(time, quality["recycler"], slots["recycler"])
      /\ \A side \in Sides : \A i \in DOMAIN slots[side] : slots[side][i].top = maxUnlocked

PlanFollows == Quiet => plan = [inputs |-> PlanInputs, origin |-> watched.origin]

\* A page that waits for nothing shows the plan of its target, and no box holds a
\* count that the plan is not for, whatever was changed while the page waited, if
\* the plans came one at a time. And a target or a count that is given to a page
\* that waits for nothing leads to the plan for it.
PlanIsForTheForm ==
    /\ Quiet /\ alone /\ plan # NoPlan =>
         plan.inputs.target = target /\ \A b \in Boxes : boxes[b] = plan.origin
    /\ watched.since = "plan" => PlanFollows

\* The first target or count that is given to the page as it was loaded leads to
\* the plan for it.
FirstEditIsAnswered == watched.since = "load" => PlanFollows
=============================================================================
