CONSTANTS
    Thread = {t1, t2}
    NoThread = NoThread
    MaxId = 2
    MaxSeverity = 1
    Promise = {p1, p2}
    Future = {f1, f2}
    State = {s1, s2, s3}
    FunctorOutcome = {"value", "exception", "future_error", "keep_argument", "invalid_future", "future", "own_argument"}
    NoState = NoState
    NoFuture = NoFuture
    NoPromise = NoPromise
SPECIFICATION MCSpec
CHECK_DEADLOCK FALSE
INVARIANTS EmptyIsCurrent OneStdClog RecordReachesBackends IdsAreFresh
PROPERTIES CallsReturn ResultDelivered
