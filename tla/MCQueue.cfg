SPECIFICATION FairSpec
CONSTANTS
    Node = {n1}
    Message = {m1, m2}
    NumPartitions = 2
    NumConsumers = 2
    BatchSize = 1
    MaxRetries = 2
    MaxFaults = 1
INVARIANTS
    TypeOK
    OnePlace
    FreshInOrder
    EachPartitionAssigned
PROPERTIES
    DeliveredAsPromised
    EverySettled
CHECK_DEADLOCK FALSE
