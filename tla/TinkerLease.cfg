CONSTANTS
    m1 = m1
    m2 = m2
    s1 = s1
    Model <- TwoModels
    Session <- OneSession
    MortalSessions <- OneSession
    ModelSeqs = {0, 1}
    NSlots = 1
    MaxSeq = 2
    MaxDatums = 2
    TokenBudget = 1
    PackKeys = {"ce"}
    Offers <- LeaseOffers
    Retention <- SecondExpires
    TrainerFaults = {"error", "raise"}
    EagerClients = FALSE
SPECIFICATION FairSpec
INVARIANTS
    SlotInv
    NoOrphanedModel
    UnitsFindTheirAdapter
PROPERTIES
    ImplementsSlotPool
    VerdictsAreFinal
    RequestsSettle
    LapsedLeasesAreReclaimed
