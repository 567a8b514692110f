SPECIFICATION Spec
CONSTANTS
    t1 = t1
    t2 = t2
    cb1 = cb1
    cb2 = cb2
    Readers = {t1, t2}
    Callbacks = {cb1, cb2}
    MaxStamps = 3
    FifoDepth = 2
    FIFO_MAX_ENTRIES = 2
    EventGroups <- AllGroups
INVARIANTS TypeOK StampsAccounted NoUnaskedInterrupt
PROPERTIES StampReported OldCallbackRetires DeliversOnce
