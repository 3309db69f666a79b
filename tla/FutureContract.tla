--------------------------- MODULE FutureContract ---------------------------
(***************************************************************************)
(* What futures and continuations promise, with no threads, locks or       *)
(* objects: a shared state is a write-once cell; a continuation is         *)
(* attached to one cell (its input) and owns another one (its output); its *)
(* functor runs at most once, only after the input is satisfied; and the   *)
(* output of a continuation is satisfied only once its functor has run.    *)
(***************************************************************************)
CONSTANTS State, NoState

VARIABLES
    cell,    \* "free" before the shared state exists
    source,  \* the input of the continuation that owns the state, NoState for a promise's
    functor  \* the functor of that continuation: "none", "pending" or "ran"

cvars == <<cell, source, functor>>

Settled == {"has_value", "has_exception", "has_future_error"}

ContractInit ==
    /\ cell = [s \in State |-> "free"]
    /\ source = [s \in State |-> NoState]
    /\ functor = [s \in State |-> "none"]

\* promise<T>()
NewPromise(s) ==
    /\ cell[s] = "free"
    /\ cell' = [cell EXCEPT ![s] = "not_ready"]
    /\ UNCHANGED <<source, functor>>

\* then(): o is the state of the future it returns.
NewContinuation(s, o) ==
    /\ cell[s] # "free" /\ cell[o] = "free"
    /\ cell' = [cell EXCEPT ![o] = "not_ready"]
    /\ source' = [source EXCEPT ![o] = s]
    /\ functor' = [functor EXCEPT ![o] = "pending"]

\* The functor runs; if it returns a future, or throws a future_error, the
\* output is not satisfied in the same step.
RunFunctor(o) ==
    /\ functor[o] = "pending"
    /\ cell[source[o]] \in Settled
    /\ functor' = [functor EXCEPT ![o] = "ran"]
    /\ UNCHANGED <<cell, source>>

\* A promise is satisfied or abandoned, or the future a functor returned is.
Settle(s) ==
    /\ cell[s] = "not_ready"
    /\ functor[s] # "pending"
    /\ \E v \in Settled : cell' = [cell EXCEPT ![s] = v]
    /\ UNCHANGED <<source, functor>>

RunAndSettle(o) ==
    /\ functor[o] = "pending"
    /\ cell[source[o]] \in Settled
    /\ cell[o] = "not_ready"
    /\ functor' = [functor EXCEPT ![o] = "ran"]
    /\ \E v \in Settled : cell' = [cell EXCEPT ![o] = v]
    /\ UNCHANGED source

ContractNext ==
    \E s \in State :
        \/ NewPromise(s)
        \/ \E o \in State : NewContinuation(s, o)
        \/ RunFunctor(s)
        \/ Settle(s)
        \/ RunAndSettle(s)

Contract == ContractInit /\ [][ContractNext]_cvars
=============================================================================
