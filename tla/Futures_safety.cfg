CONSTANTS
    Thread = {t1, t2}
    Promise = {p1, p2}
    Future = {f1, f2}
    State = {s1, s2, s3}
    FunctorOutcome = {"value", "exception", "future_error", "keep_argument", "invalid_future", "future", "own_argument"}
    NoState = NoState
    NoFuture = NoFuture
    NoPromise = NoPromise
SPECIFICATION Spec
SYMMETRY Symmetry
CHECK_DEADLOCK FALSE
INVARIANTS NoLostWakeup NoWaiterWithContinuation SingleWriter ContinuationNotForgotten CancelCallable
PROPERTIES ImplementsContract
