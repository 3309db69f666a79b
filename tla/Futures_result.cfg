CONSTANTS
    Thread = {t1}
    Promise = {p1}
    Future = {f1}
    State = {s1, s2}
    FunctorOutcome = {"value", "future_error"}
    NoState = NoState
    NoFuture = NoFuture
    NoPromise = NoPromise
SPECIFICATION FairSpec
CHECK_DEADLOCK FALSE
PROPERTIES ThenDelivers
