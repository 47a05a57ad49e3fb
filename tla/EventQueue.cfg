CONSTANTS
    Producers = {p1, p2}
    Consumers = {c1, c2}
    Owner = owner
    NoThread = none
    MaxPush = 3
    MaxSpurious = 1
SPECIFICATION FairSpec
INVARIANTS NoLostWakeup
PROPERTIES ImplementsFifo EverythingEnds
