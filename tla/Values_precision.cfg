CONSTANTS
    Obj = {o1, o2}
    Error = {"kUnknown", "kNotFound"}
    Role = {"reader", "writer"}
    Member = {"m1", "m2"}
    MaxVector = 2
    Base = 4
    Sizes = {1, 2, 4}
SPECIFICATION Spec
INVARIANTS FullPrecision
