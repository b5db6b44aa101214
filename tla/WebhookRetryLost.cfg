CONSTANTS
    first = first  again = again  other = other
    Delivery = {first, again, other}
    Worker = Worker
    NoJob = NoJob
    Key = {"k1", "k2"}
    KeyOf <- MCKeyOf
    Durable = {"k1"}
    Window = 1
    Capacity = 1
    MaxTime = 2
    MaxFaults = 0
SPECIFICATION Spec
INVARIANT RetryLaterIsHonoured
CHECK_DEADLOCK FALSE
