SPECIFICATION TriggerSpec
CONSTANTS
    MaxEvents = 4
    InflightLimits <- TwoLimits
    QueueSizes <- SmallQueues
    EventIds <- TwoIds
    MaxEntries = 1
INVARIANTS
    QueueLaws
    EachEventOnce
PROPERTIES
    QuietAfterClose
    EventsSettle
CHECK_DEADLOCK FALSE
