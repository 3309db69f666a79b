CONSTANTS
    Thread = {t1}
    Promise = {p1}
    Future = {f1}
    State = {s1, s2}
    FunctorOutcome = {"future_error"}
    NoState = NoState
    NoFuture = NoFuture
    NoPromise = NoPromise
SPECIFICATION Spec
CHECK_DEADLOCK FALSE
INVARIANTS ThenThrowsUnchanged
