SPECIFICATION Spec
CONSTANTS
    None = None
    Tasks = {t1, t2, t3}
    WRITE_LOG_CH_SIZE = 1
    WRITE_LOG_FLUSH_POINT = 1
    MaxSpins = 1
    Notifier = FALSE
    MayDrop = FALSE
    Ticker = None
    MaxCalls = 1
CHECK_DEADLOCK FALSE
PROPERTY EveryCallReturns
