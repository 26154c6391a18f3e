CONSTANTS
    m1 = m1
    m2 = m2
    s1 = s1
    Model <- TwoModels
    Session <- OneSession
    MortalSessions <- NoSessions
    ModelSeqs = {0, 1}
    NSlots = 2
    MaxSeq = 2
    MaxDatums = 2
    TokenBudget = 2
    PackKeys = {"ce", "ppo"}
    Offers <- OrderOffers
    Retention <- NoFutures
    TrainerFaults = {"error"}
    EagerClients = TRUE
SPECIFICATION Spec
INVARIANTS
    UnitsRespectSeqOrder
    CommandsRunOnce
PROPERTIES
    FailedModelsRunNothing
    ModelsCloseForCause
