\* Four frames through a queue of two; Kafka, the exchange and the process fail at will.
SPECIFICATION FairSpec
CONSTANTS
    QueueMax = 2
    MaxReceived = 4
INVARIANTS
    TypeOK
    LanesInOrder
    OnlyMishapsLose
PROPERTIES
    ReceivesAgain
    ReceivedIsDelivered
CHECK_DEADLOCK FALSE
