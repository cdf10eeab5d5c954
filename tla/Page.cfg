SPECIFICATION Spec
CONSTANTS
    i1 = i1
    i2 = i2
    i3 = i3
    m1 = m1
    m2 = m2
    Items <- MCItems
    Producers <- MCProducers
    CraftTime <- MCCraftTime
    Machines <- MCMachines
    MachineData <- MCMachineData
    Modules = {"quality-module-3"}
    Unlockable = {2, 4}
    Choices = {0, 4}
    RecyclerSlots = 1
    Edited <- TotalAndLegendary
    Counts = {1, 2}
    MaxActions = 3
    NoItem = NoItem
    NoMachine = NoMachine
    NoPlan = NoPlan
INVARIANTS
    TypeOK
    SlotsAgree
    FieldsMatchSelects
    PlanIsForTheForm
CHECK_DEADLOCK FALSE
