CONSTANTS
    Thread = {t1, bg}
    Op = {o1, o2}
    NoOp = NoOp
    Background = bg
SPECIFICATION BTFairSpec
CHECK_DEADLOCK FALSE
INVARIANTS OwnedByOne NotifiedExactlyOnce FailsOnlyIfCancelled QuietAfterShutdown
PROPERTIES NoStartAfterShutdown OperationsComplete RunReturns ShutdownReturns
