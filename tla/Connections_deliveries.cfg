SPECIFICATION FairSpec
CONSTANTS
    Requests = {r1, r2, r3}
    Locks = {k1}
    NoOne = NoOne
    Size = 2
    MaxDeliveries = 2
PROPERTY DeliveriesRecorded
CHECK_DEADLOCK FALSE
