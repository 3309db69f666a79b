------------------------------ MODULE StatusOr ------------------------------
(***************************************************************************)
(* google::cloud::StatusOr<T>: a Status and a union that holds a T only    *)
(* while the status is OK.  The class constructs, assigns and destroys the *)
(* T by hand in its special member functions, any of which an exception    *)
(* may leave half way (status_or.h, status.h).                             *)
(*                                                                         *)
(* Client contract: operator* is used only if ok(), and nobody assigns     *)
(* through the reference that status() returns.                            *)
(*                                                                         *)
(* A definition named Faulty... is a variant of the one that follows it    *)
(* with a plausible mistake, kept to show that a property can fail.        *)
(***************************************************************************)
CONSTANTS
    Obj,   \* StatusOr<T> variables
    Error  \* the status codes other than kOk

VARIABLES
    code,  \* status_.code_, "none" for a variable that is not constructed
    value  \* value_: "raw" memory, a "live" T, or "ub" after undefined behaviour

vars == <<code, value>>

TypeOK ==
    /\ code \in [Obj -> Error \cup {"kOk", "none"}]
    /\ value \in [Obj -> {"raw", "live", "ub"}]

Init ==
    /\ code = [o \in Obj |-> "none"]
    /\ value = [o \in Obj |-> "raw"]

exists(o) == code[o] # "none"
ok(o) == code[o] = "kOk"

\* What C++ makes of the storage: a T is constructed in raw memory only; only a
\* live T is assigned to, read, moved from (it stays live) or destroyed.
Construct(v) == IF v = "raw" THEN "live" ELSE "ub"
Use(v) == IF v = "live" THEN "live" ELSE "ub"
Destroy(v) == IF v = "live" THEN "raw" ELSE "ub"

\* Status has message_ before code_, and the copy of the message throws.
FaultySetStatus(o, c) == code' \in {code, [code EXCEPT ![o] = c]}

\* status_ = ...: code_ is assigned before message_, whose copy may throw.
SetStatus(o, c) == code' = [code EXCEPT ![o] = c]

-----------------------------------------------------------------------------
(* Constructors.  One that throws leaves no object, so it changes nothing. *)

\* StatusOr(Status) throws if the status is OK; StatusOr() is kUnknown.
ConstructStatus(o, c) ==
    /\ ~exists(o) /\ c # "kOk"
    /\ code' = [code EXCEPT ![o] = c]
    /\ UNCHANGED value

ConstructValue(o) ==
    /\ ~exists(o)
    /\ code' = [code EXCEPT ![o] = "kOk"]
    /\ value' = [value EXCEPT ![o] = Construct(@)]

\* The copy and the move constructor: the code of a moved Status stays.
ConstructFrom(o, rhs) ==
    /\ ~exists(o) /\ exists(rhs)
    /\ code' = [code EXCEPT ![o] = code[rhs]]
    /\ value' = IF ok(rhs) THEN [value EXCEPT ![o] = Construct(@), ![rhs] = Use(@)] ELSE value

\* ~StatusOr()
Destructor(o) ==
    /\ exists(o)
    /\ code' = [code EXCEPT ![o] = "none"]
    /\ value' = IF ok(o) THEN [value EXCEPT ![o] = Destroy(@)] ELSE value

-----------------------------------------------------------------------------
(* Assignments.  throws: the constructor or the assignment of T throws.    *)

\* The status is assigned before the value is constructed.
FaultyAssign(o, rhs, throws) ==
    /\ exists(o) /\ exists(rhs)
    /\ SetStatus(o, code[rhs])
    /\ \/ ~ok(o) /\ ~ok(rhs) /\ UNCHANGED value
       \/ /\ ~ok(o) /\ ok(rhs)
          /\ value' = IF throws THEN value ELSE [value EXCEPT ![o] = Construct(@), ![rhs] = Use(@)]
       \/ ok(o) /\ ~ok(rhs) /\ value' = [value EXCEPT ![o] = Destroy(@)]
       \/ ok(o) /\ ok(rhs) /\ value' = [value EXCEPT ![o] = Use(@), ![rhs] = Use(@)]

\* The copy and the move assignment, also with o = rhs
Assign(o, rhs, throws) ==
    /\ exists(o) /\ exists(rhs)
    /\ \/ /\ ~ok(o) /\ ~ok(rhs)
          /\ SetStatus(o, code[rhs])
          /\ UNCHANGED value
       \/ /\ ~ok(o) /\ ok(rhs)
          /\ IF throws THEN UNCHANGED vars
             ELSE /\ value' = [value EXCEPT ![o] = Construct(@), ![rhs] = Use(@)]
                  /\ SetStatus(o, "kOk")
       \/ /\ ok(o) /\ ~ok(rhs)
          /\ value' = [value EXCEPT ![o] = Destroy(@)]
          /\ SetStatus(o, code[rhs])
       \/ /\ ok(o) /\ ok(rhs)
          /\ value' = [value EXCEPT ![o] = Use(@), ![rhs] = Use(@)]
          /\ UNCHANGED code

\* operator=(U&&)
AssignValue(o, throws) ==
    /\ exists(o)
    /\ \/ /\ ~ok(o)
          /\ IF throws THEN UNCHANGED vars
             ELSE value' = [value EXCEPT ![o] = Construct(@)] /\ SetStatus(o, "kOk")
       \/ /\ ok(o)
          /\ value' = [value EXCEPT ![o] = Use(@)]
          /\ UNCHANGED code

\* operator=(Status): the temporary StatusOr throws, before anything is changed,
\* if the status is OK; it is then the rhs of a move assignment.
AssignStatus(o, c) ==
    /\ exists(o) /\ c # "kOk"
    /\ SetStatus(o, c)
    /\ value' = IF ok(o) THEN [value EXCEPT ![o] = Destroy(@)] ELSE value

\* value(): the reference is read, or moved from, if CheckHasValue() returns.
Value(o) ==
    /\ exists(o) /\ ok(o)
    /\ value' = [value EXCEPT ![o] = Use(@)]
    /\ UNCHANGED code

Next ==
    \E o \in Obj :
        \/ \E c \in Error \cup {"kOk"} : ConstructStatus(o, c) \/ AssignStatus(o, c)
        \/ ConstructValue(o) \/ Destructor(o) \/ Value(o)
        \/ \E rhs \in Obj : ConstructFrom(o, rhs)
        \/ \E rhs \in Obj, throws \in BOOLEAN : Assign(o, rhs, throws)
        \/ \E throws \in BOOLEAN : AssignValue(o, throws)

Spec == Init /\ [][Next]_vars

-----------------------------------------------------------------------------
\* After any sequence of calls, exceptions included, the union holds a live T if
\* and only if ok(): no T is leaked, destroyed twice, constructed twice or read
\* from raw memory by the special member functions.
ValueIffOk ==
    \A o \in Obj : value[o] = IF ok(o) THEN "live" ELSE "raw"
=============================================================================
