CONSTANTS
    Thread = {t1, t2}
    Op = {o1, o2}
    NoOp = NoOp
SPECIFICATION TFSpec
CHECK_DEADLOCK FALSE
INVARIANTS FunctorOnRunner
