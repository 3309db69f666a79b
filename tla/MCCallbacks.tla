---------------------------- MODULE MCCallbacks -----------------------------
(***************************************************************************)
(* Two parts that run code of the application with no lock held, in one    *)
(* instance for TLC: the sink that calls log backends, and the futures     *)
(* that call continuations.  They do not interact, so each behaviour runs  *)
(* one of them, and the other stays in an initial state.                   *)
(***************************************************************************)
EXTENDS LogSink

CONSTANTS Promise, Future, State, FunctorOutcome, NoState, NoFuture, NoPromise

VARIABLES
    active,  \* the part that runs in this behaviour
    allocated, current_state, retrieved, cancelled, callback, cont, output, promise, future,
    thr, asleep, input, runs, taken, abandoned, unwound

F == INSTANCE Futures

futures == <<allocated, current_state, retrieved, cancelled, callback, cont, output, promise, future,
             thr, asleep, input, runs, taken, abandoned, unwound>>
allVars == <<active, vars, futures>>

MCInit ==
    /\ active \in {"log", "futures"}
    /\ Init /\ F!Init
    /\ active = "futures" => empty /\ minimum_severity = 0

\* Bound: the clients of the futures do not block and do not cancel.  These calls
\* leave alone everything that promises and continuations look at; get() takes a
\* future away, as dropping it does.
FuturesNext == F!Next /\ \A t \in Thread : thr'[t].pc \notin {"wait", "wait_for", "get", "cancel"}

Sink(A) == active = "log" /\ A /\ UNCHANGED <<active, futures>>
Futures(A) == active = "futures" /\ A /\ UNCHANGED <<active, vars>>

MCNext == Sink(Next) \/ Futures(FuturesNext)

\* The fairness of the part that runs, as its module states it.
MCSpec ==
    /\ MCInit /\ [][MCNext]_allVars
    /\ \A t \in Thread :
          /\ WF_allVars(Sink(Store(t) \/ CheckEnabled(t) \/ Process(t) \/ LogReturns(t)))
          /\ SF_allVars(Sink(Change(t) \/ Log(t)))
          /\ WF_allVars(Futures(F!Step(t)))

\* The output of every then() is satisfied as soon as nothing is left to wait
\* for, unless a future_error left the continuation.
ResultDelivered == F!ResultDelivered
=============================================================================
