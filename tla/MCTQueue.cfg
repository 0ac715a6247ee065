SPECIFICATION FairSpec
CONSTANTS
    Producers = {worker}
    Consumers = {main}
    Items = {a, b}
    NoItem = NoItem
    NoThread = NoThread
    size = 3
    lock = FALSE
    CountMod = 4
INVARIANTS TypeOK SlotOwnership Contiguous
PROPERTIES ImplementsFifo DrainedMeansReturned AddReturns EveryItemIsTaken
