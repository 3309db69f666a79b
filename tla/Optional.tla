------------------------------ MODULE Optional ------------------------------
(***************************************************************************)
(* google::cloud::optional<T>: has_value_ and aligned storage in which the *)
(* class constructs, assigns and destroys a T by hand (optional.h).        *)
(*                                                                         *)
(* Client contract: operator* and operator-> are used only if has_value(), *)
(* and the argument of emplace() is not the value of the same object.      *)
(*                                                                         *)
(* A definition named Faulty... is a variant of the one that follows it    *)
(* with a plausible mistake, kept to show that a property can fail.        *)
(***************************************************************************)
CONSTANT
    Obj  \* optional<T> variables

VARIABLES
    objects,    \* the variables that are constructed
    has_value,  \* has_value_
    buffer      \* buffer_: "raw" memory, a "live" T, or "ub" after undefined behaviour

vars == <<objects, has_value, buffer>>

TypeOK ==
    /\ objects \in SUBSET Obj
    /\ has_value \in [Obj -> BOOLEAN]
    /\ buffer \in [Obj -> {"raw", "live", "ub"}]

Init ==
    /\ objects = {}
    /\ has_value = [o \in Obj |-> FALSE]
    /\ buffer = [o \in Obj |-> "raw"]

\* What C++ makes of the storage: a T is constructed in raw memory only; only a
\* live T is assigned to, read, moved from (it stays live) or destroyed.
Construct(v) == IF v = "raw" THEN "live" ELSE "ub"
Use(v) == IF v = "live" THEN "live" ELSE "ub"
Destroy(v) == IF v = "live" THEN "raw" ELSE "ub"

-----------------------------------------------------------------------------
(* Constructors.  One that throws leaves no object, so it changes nothing. *)

\* optional()
ConstructEmpty(o) ==
    /\ o \notin objects
    /\ objects' = objects \cup {o}
    /\ has_value' = [has_value EXCEPT ![o] = FALSE]
    /\ UNCHANGED buffer

\* optional(U&&)
ConstructValue(o) ==
    /\ o \notin objects
    /\ objects' = objects \cup {o}
    /\ has_value' = [has_value EXCEPT ![o] = TRUE]
    /\ buffer' = [buffer EXCEPT ![o] = Construct(@)]

\* The copy and the move constructor: the source keeps has_value_.
ConstructFrom(o, rhs) ==
    /\ o \notin objects /\ rhs \in objects
    /\ objects' = objects \cup {o}
    /\ has_value' = [has_value EXCEPT ![o] = has_value[rhs]]
    /\ buffer' = IF has_value[rhs] THEN [buffer EXCEPT ![o] = Construct(@), ![rhs] = Use(@)]
                                   ELSE buffer

\* reset() leaves has_value_ set.
FaultyReset(o) ==
    /\ buffer' = IF has_value[o] THEN [buffer EXCEPT ![o] = Destroy(@)] ELSE buffer
    /\ UNCHANGED has_value

\* The body of reset()
Reset(o) ==
    /\ buffer' = IF has_value[o] THEN [buffer EXCEPT ![o] = Destroy(@)] ELSE buffer
    /\ has_value' = [has_value EXCEPT ![o] = FALSE]

reset(o) == o \in objects /\ Reset(o) /\ UNCHANGED objects

\* ~optional()
Destructor(o) == o \in objects /\ Reset(o) /\ objects' = objects \ {o}

-----------------------------------------------------------------------------
(* Assignments.  throws: the constructor or the assignment of T throws.    *)

\* The copy assignment, also with o = rhs; the move assignment is the same and
\* noexcept, so that the program ends if it throws.
Assign(o, rhs, throws) ==
    /\ o \in objects /\ rhs \in objects
    /\ \/ ~has_value[o] /\ ~has_value[rhs] /\ UNCHANGED <<has_value, buffer>>
       \/ /\ ~has_value[o] /\ has_value[rhs]
          /\ IF throws THEN UNCHANGED <<has_value, buffer>>
             ELSE /\ buffer' = [buffer EXCEPT ![o] = Construct(@), ![rhs] = Use(@)]
                  /\ has_value' = [has_value EXCEPT ![o] = TRUE]
       \/ has_value[o] /\ ~has_value[rhs] /\ Reset(o)
       \/ /\ has_value[o] /\ has_value[rhs]
          /\ buffer' = [buffer EXCEPT ![o] = Use(@), ![rhs] = Use(@)]
          /\ UNCHANGED has_value
    /\ UNCHANGED objects

\* operator=(U&&)
AssignValue(o, throws) ==
    /\ o \in objects
    /\ \/ /\ ~has_value[o]
          /\ IF throws THEN UNCHANGED <<has_value, buffer>>
             ELSE /\ buffer' = [buffer EXCEPT ![o] = Construct(@)]
                  /\ has_value' = [has_value EXCEPT ![o] = TRUE]
       \/ /\ has_value[o]
          /\ buffer' = [buffer EXCEPT ![o] = Use(@)]
          /\ UNCHANGED has_value
    /\ UNCHANGED objects

\* emplace() constructs without a reset().
FaultyEmplace(o, throws) ==
    /\ o \in objects
    /\ IF throws THEN UNCHANGED <<has_value, buffer>>
       ELSE /\ buffer' = [buffer EXCEPT ![o] = Construct(@)]
            /\ has_value' = [has_value EXCEPT ![o] = TRUE]
    /\ UNCHANGED objects

\* emplace(): reset(), then the constructor of T; if it throws the object is empty.
emplace(o, throws) ==
    /\ o \in objects
    /\ IF throws THEN Reset(o)
       ELSE /\ buffer' = [buffer EXCEPT ![o] = Construct(IF has_value[o] THEN Destroy(@) ELSE @)]
            /\ has_value' = [has_value EXCEPT ![o] = TRUE]
    /\ UNCHANGED objects

\* value() and value_or(): the T is read, or moved from, if there is one.
Value(o) ==
    /\ o \in objects /\ has_value[o]
    /\ buffer' = [buffer EXCEPT ![o] = Use(@)]
    /\ UNCHANGED <<objects, has_value>>

Next ==
    \E o \in Obj :
        \/ ConstructEmpty(o) \/ ConstructValue(o) \/ reset(o) \/ Destructor(o) \/ Value(o)
        \/ \E rhs \in Obj : ConstructFrom(o, rhs)
        \/ \E rhs \in Obj, throws \in BOOLEAN : Assign(o, rhs, throws)
        \/ \E throws \in BOOLEAN : AssignValue(o, throws) \/ emplace(o, throws)

Spec == Init /\ [][Next]_vars

-----------------------------------------------------------------------------
\* After any sequence of calls, exceptions included, the storage holds a live T
\* if and only if the object exists and has_value(): the special member functions
\* leak no T, destroy none twice and touch none in raw memory.
ValueIffHasValue ==
    \A o \in Obj : buffer[o] = IF o \in objects /\ has_value[o] THEN "live" ELSE "raw"
=============================================================================
