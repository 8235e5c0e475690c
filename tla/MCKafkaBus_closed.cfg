\* Senders holding a producer another goroutine closes.
CONSTANTS
    s1 = s1
    s2 = s2
    a1 = a1
    a2 = a2
    none = none
    Senders <- MCSenders
    Addrs <- MCAddrs
    None = none
    MaxProducers = 3
    MaxEnvOps = 2
SPECIFICATION Spec
INVARIANT
    NoSendOnClosedInput
