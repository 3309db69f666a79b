------------------------------ MODULE Futures ------------------------------
(***************************************************************************)
(* google::cloud::future<T> and google::cloud::promise<T>: shared states,  *)
(* the promise and future objects that point to them, blocking waits,      *)
(* continuations (then), their unwrapping form, and cancellation           *)
(* (internal/future_impl.h, internal/future_base.h, future_generic.h,      *)
(* future_void.h, internal/future_then_impl.h).                            *)
(*                                                                         *)
(* A section of code that holds mu_ is one step; user code (functors and   *)
(* cancellation callbacks) runs with no lock held, so other threads act    *)
(* between the two.  A functor's own calls into the library are the steps  *)
(* of another thread.                                                      *)
(*                                                                         *)
(* Client contract (as for std::future): wait, wait_for, is_ready and      *)
(* cancel may share a future object; get and then have it for themselves;  *)
(* a promise is neither moved nor destroyed while a thread is inside       *)
(* set_value() or set_exception() of it.                                   *)
(*                                                                         *)
(* A definition named Faulty... is a variant of the one that follows it    *)
(* with a plausible mistake, kept to show that a property can fail.        *)
(***************************************************************************)
EXTENDS Naturals

CONSTANTS
    Thread,          \* threads of the application
    Promise,         \* promise<T> variables
    Future,          \* future<T> variables
    State,           \* shared states that may be allocated, never recycled
    FunctorOutcome,  \* what the functors given to then() do
    NoState, NoFuture, NoPromise

\* "value": returns a value; "exception": throws; "future_error": throws a
\* std::future_error (what get() of a broken promise throws);
\* "keep_argument": moves its argument to another variable, returns a value;
\* "invalid_future", "future", "own_argument": returns a future with no shared
\* state, some other future, or the future it was called with.
Outcome == {"value", "exception", "future_error", "keep_argument",
            "invalid_future", "future", "own_argument"}

ASSUME ConstantsAssumption ==
    /\ FunctorOutcome \subseteq Outcome
    /\ NoState \notin State
    /\ NoFuture \notin Future
    /\ NoPromise \notin Promise

VARIABLES
    allocated,      \* the shared states created so far
    current_state,  \* current_state_, with exception_ reduced to whether it is a future_error
    retrieved,      \* retrieved_
    cancelled,      \* cancelled_
    callback,       \* whether cancellation_callback_ is a non-empty function
    cont,           \* the kind of continuation_, "none" for a null pointer
    output,         \* continuation_->output
    promise,        \* promise<T>::shared_state_
    future,         \* future<T>::shared_state_
    thr,            \* what each thread is executing
    asleep,         \* the threads blocked in cv_
    input,          \* history: continuation::input of the continuation that satisfies a state
    runs,           \* history: runs of the functor whose result goes to a state
    taken,          \* history: how often the value of a state was handed out
    abandoned,      \* history: the states satisfied by abandon()
    unwound         \* history: the outputs whose continuation was left by a future_error

shared == <<allocated, current_state, retrieved, cancelled, callback, cont, output>>
handles == <<promise, future>>
history == <<input, runs, taken, abandoned, unwound>>
vars == <<shared, handles, thr, asleep, history>>

Satisfied == {"has_value", "has_exception", "has_future_error"}
Continuation == {"plain", "unwrap", "forward"}
PC == {"idle", "wait", "wait_for", "get", "exec", "attach", "return", "cancel"}

\* The frame of a thread: st is the shared state it works on, ct and out the
\* continuation it executes, fu and pr the object whose member function it is in.
Frame == [pc: PC, st: State \cup {NoState}, ct: Continuation \cup {"none"},
          out: State \cup {NoState}, fu: Future \cup {NoFuture},
          pr: Promise \cup {NoPromise}]

Idle == [pc |-> "idle", st |-> NoState, ct |-> "none", out |-> NoState,
         fu |-> NoFuture, pr |-> NoPromise]

TypeOK ==
    /\ allocated \in SUBSET State
    /\ current_state \in [State -> Satisfied \cup {"not_ready"}]
    /\ retrieved \in [State -> BOOLEAN]
    /\ cancelled \in [State -> BOOLEAN]
    /\ callback \in [State -> BOOLEAN]
    /\ cont \in [State -> Continuation \cup {"none"}]
    /\ output \in [State -> State \cup {NoState}]
    /\ promise \in [Promise -> State \cup {NoState}]
    /\ future \in [Future -> State \cup {NoState}]
    /\ thr \in [Thread -> Frame]
    /\ asleep \in SUBSET Thread
    /\ input \in [State -> State \cup {NoState}]
    /\ runs \in [State -> Nat]
    /\ taken \in [State -> Nat]
    /\ abandoned \in SUBSET State
    /\ unwound \in SUBSET State

Init ==
    /\ allocated = {}
    /\ current_state = [s \in State |-> "not_ready"]
    /\ retrieved = [s \in State |-> FALSE]
    /\ cancelled = [s \in State |-> FALSE]
    /\ callback = [s \in State |-> FALSE]
    /\ cont = [s \in State |-> "none"]
    /\ output = [s \in State |-> NoState]
    /\ promise = [p \in Promise |-> NoState]
    /\ future = [f \in Future |-> NoState]
    /\ thr = [t \in Thread |-> Idle]
    /\ asleep = {}
    /\ input = [s \in State |-> NoState]
    /\ runs = [s \in State |-> 0]
    /\ taken = [s \in State |-> 0]
    /\ abandoned = {}
    /\ unwound = {}

-----------------------------------------------------------------------------
(* Helpers.                                                                *)

is_ready(s) == current_state[s] # "not_ready"

IsIdle(t) == thr[t].pc = "idle"

\* The client contract.
InSet(p) == \E t \in Thread : thr[t].pr = p
InThen(f) == \E t \in Thread : thr[t].fu = f /\ thr[t].pc \in {"exec", "attach", "return"}
InUse(f) == \E t \in Thread : thr[t].fu = f

\* cv_.notify_all() on the condition variable of s.
NotifyAll(s) == asleep' = {t \in asleep : thr[t].st # s}

\* The thread has nothing left to do in the library, but then() still has to
\* reset the future and to return the new one.
Finish(t) ==
    thr' = [thr EXCEPT ![t] = IF @.fu = NoFuture THEN Idle ELSE [@ EXCEPT !.pc = "return"]]

\* A std::future_error leaves the continuation, and the set_value() or then()
\* that runs it; then() leaves its future as it was.
Unwind(t) ==
    /\ thr' = [thr EXCEPT ![t] = Idle]
    /\ unwound' = unwound \cup {thr[t].out}

\* notify_now() forgets to look for a continuation.
FaultySatisfyAndNotify(t, s, what, pr) ==
    /\ current_state' = [current_state EXCEPT ![s] = what]
    /\ NotifyAll(s)
    /\ Finish(t)

\* Store the result in s, whose lock is held, then notify_now().  pr is the
\* promise the thread is in, if any.
SatisfyAndNotify(t, s, what, pr) ==
    /\ current_state' = [current_state EXCEPT ![s] = what]
    /\ \/ /\ cont[s] # "none"
          /\ thr' = [thr EXCEPT ![t] = [pc |-> "exec", st |-> s, ct |-> cont[s],
                                        out |-> output[s], fu |-> thr[t].fu, pr |-> pr]]
          /\ UNCHANGED asleep
       \/ /\ cont[s] = "none"
          /\ NotifyAll(s)
          /\ Finish(t)

\* abandon() without cv_.notify_all().
FaultyAbandonSilent(s) ==
    IF s # NoState /\ current_state[s] = "not_ready"
    THEN /\ current_state' = [current_state EXCEPT ![s] = "has_future_error"]
         /\ abandoned' = abandoned \cup {s}
         /\ UNCHANGED asleep
    ELSE UNCHANGED <<current_state, abandoned, asleep>>

\* future_shared_state_base::abandon(): a stored continuation is left alone.
abandon(s) ==
    IF s # NoState /\ current_state[s] = "not_ready"
    THEN /\ current_state' = [current_state EXCEPT ![s] = "has_future_error"]
         /\ abandoned' = abandoned \cup {s}
         /\ NotifyAll(s)
    ELSE UNCHANGED <<current_state, abandoned, asleep>>

-----------------------------------------------------------------------------
(* promise<T>                                                              *)

MakePromise(p) ==
    /\ promise[p] = NoState
    /\ \E s \in State \ allocated :
          /\ allocated' = allocated \cup {s}
          /\ callback' = [callback EXCEPT ![s] = TRUE]
          /\ promise' = [promise EXCEPT ![p] = s]
    /\ UNCHANGED <<current_state, retrieved, cancelled, cont, output, future, thr, asleep, history>>

\* q = std::move(p)
MovePromise(p, q) ==
    /\ p # q
    /\ promise[p] # NoState
    /\ ~InSet(p) /\ ~InSet(q)
    /\ promise' = [promise EXCEPT ![q] = promise[p], ![p] = NoState]
    /\ abandon(promise[q])
    /\ UNCHANGED <<allocated, retrieved, cancelled, callback, cont, output, future, thr,
                   input, runs, taken, unwound>>

DestroyPromise(p) ==
    /\ promise[p] # NoState
    /\ ~InSet(p)
    /\ promise' = [promise EXCEPT ![p] = NoState]
    /\ abandon(promise[p])
    /\ UNCHANGED <<allocated, retrieved, cancelled, callback, cont, output, future, thr,
                   input, runs, taken, unwound>>

\* Throws, with no effect, if the promise has no state or the flag was set.
get_future(p, f) ==
    /\ promise[p] # NoState
    /\ ~retrieved[promise[p]]
    /\ future[f] = NoState
    /\ retrieved' = [retrieved EXCEPT ![promise[p]] = TRUE]
    /\ future' = [future EXCEPT ![f] = promise[p]]
    /\ UNCHANGED <<allocated, current_state, cancelled, callback, cont, output, promise, thr,
                   asleep, history>>

\* A satisfied state may be satisfied again.
FaultySet(t, p, what) ==
    /\ IsIdle(t)
    /\ promise[p] # NoState
    /\ SatisfyAndNotify(t, promise[p], what, p)
    /\ UNCHANGED <<allocated, retrieved, cancelled, callback, cont, output, handles, history>>

\* set_value() and set_exception(); they throw, with no effect, if the promise
\* has no state or the state is already satisfied.
set(t, p, what) ==
    /\ IsIdle(t)
    /\ promise[p] # NoState
    /\ ~is_ready(promise[p])
    /\ SatisfyAndNotify(t, promise[p], what, p)
    /\ UNCHANGED <<allocated, retrieved, cancelled, callback, cont, output, handles, history>>

set_value(t, p) == set(t, p, "has_value")
set_exception(t, p) == set(t, p, "has_exception")

-----------------------------------------------------------------------------
(* future<T>: the blocking calls                                           *)

\* wait() and wait_for()/wait_until()
Wait(t, f, pc) ==
    /\ IsIdle(t)
    /\ future[f] # NoState
    /\ ~InThen(f)
    /\ thr' = [thr EXCEPT ![t] = [Idle EXCEPT !.pc = pc, !.st = future[f], !.fu = f]]
    /\ UNCHANGED <<shared, handles, asleep, history>>

wait(t, f) == Wait(t, f, "wait")
wait_for(t, f) == Wait(t, f, "wait_for")

\* get() leaves the future valid while it blocks.
FaultyGet(t, f) ==
    /\ IsIdle(t)
    /\ future[f] # NoState
    /\ ~InUse(f)
    /\ thr' = [thr EXCEPT ![t] = [Idle EXCEPT !.pc = "get", !.st = future[f]]]
    /\ UNCHANGED <<shared, handles, asleep, history>>

\* get() takes the state out of the future before it blocks.
get(t, f) ==
    /\ IsIdle(t)
    /\ future[f] # NoState
    /\ ~InUse(f)
    /\ thr' = [thr EXCEPT ![t] = [Idle EXCEPT !.pc = "get", !.st = future[f]]]
    /\ future' = [future EXCEPT ![f] = NoState]
    /\ UNCHANGED <<shared, promise, asleep, history>>

\* A thread in one of the three calls evaluates the predicate under the lock.
CheckReady(t) ==
    /\ thr[t].pc \in {"wait", "wait_for", "get"}
    /\ t \notin asleep
    /\ IF is_ready(thr[t].st)
       THEN /\ thr' = [thr EXCEPT ![t] = Idle]
            /\ taken' = IF thr[t].pc = "get" THEN [taken EXCEPT ![thr[t].st] = @ + 1] ELSE taken
            /\ UNCHANGED asleep
       ELSE /\ asleep' = asleep \cup {t}
            /\ UNCHANGED <<thr, taken>>
    /\ UNCHANGED <<shared, handles, input, runs, abandoned, unwound>>

SpuriousWakeup(t) ==
    /\ t \in asleep
    /\ asleep' = asleep \ {t}
    /\ UNCHANGED <<shared, handles, thr, history>>

\* The predicate is evaluated a last time; the call returns in any case.
TimeOut(t) ==
    /\ thr[t].pc = "wait_for"
    /\ thr' = [thr EXCEPT ![t] = Idle]
    /\ asleep' = asleep \ {t}
    /\ UNCHANGED <<shared, handles, history>>

\* The future is destroyed, or overwritten by an invalid one.
DropFuture(f) ==
    /\ future[f] # NoState
    /\ ~InUse(f)
    /\ future' = [future EXCEPT ![f] = NoState]
    /\ UNCHANGED <<shared, promise, thr, asleep, history>>

-----------------------------------------------------------------------------
(* future<T>::then()                                                       *)

\* The continuation is created with a new shared state o for its output, which
\* takes the cancellation callback of its input s.
make_continuation(s, o) ==
    /\ allocated' = allocated \cup {o}
    /\ callback' = [callback EXCEPT ![s] = FALSE, ![o] = callback[s]]
    /\ input' = [input EXCEPT ![o] = s]

\* set_continuation() runs the continuation without a look at the state.
FaultyThenEager(t, f, kind) ==
    /\ IsIdle(t)
    /\ future[f] # NoState
    /\ ~InUse(f)
    /\ \E o \in State \ allocated :
          LET s == future[f] IN
          /\ make_continuation(s, o)
          /\ thr' = [thr EXCEPT ![t] = [pc |-> "exec", st |-> s, ct |-> kind, out |-> o,
                                        fu |-> f, pr |-> NoPromise]]
    /\ UNCHANGED <<current_state, retrieved, cancelled, cont, output, handles, asleep, runs, taken,
                   abandoned, unwound>>

\* make_continuation() and set_continuation()
then(t, f, kind) ==
    /\ IsIdle(t)
    /\ future[f] # NoState
    /\ ~InUse(f)
    /\ cont[future[f]] = "none"
    /\ \E o \in State \ allocated :
          LET s == future[f] IN
          /\ make_continuation(s, o)
          /\ \/ /\ is_ready(s)
                /\ thr' = [thr EXCEPT ![t] = [pc |-> "exec", st |-> s, ct |-> kind, out |-> o,
                                              fu |-> f, pr |-> NoPromise]]
                /\ UNCHANGED <<cont, output>>
             \/ /\ ~is_ready(s)
                /\ cont' = [cont EXCEPT ![s] = kind]
                /\ output' = [output EXCEPT ![s] = o]
                /\ thr' = [thr EXCEPT ![t] = [pc |-> "return", st |-> s, ct |-> "none", out |-> o,
                                              fu |-> f, pr |-> NoPromise]]
    /\ UNCHANGED <<current_state, retrieved, cancelled, handles, asleep, runs, taken, abandoned,
                   unwound>>

\* set_continuation() throws future_already_retrieved: the new continuation and
\* its output are destroyed, the callback goes with them.
then_throws(t, f) ==
    /\ IsIdle(t)
    /\ future[f] # NoState
    /\ ~InUse(f)
    /\ cont[future[f]] # "none"
    /\ callback' = [callback EXCEPT ![future[f]] = FALSE]
    /\ UNCHANGED <<allocated, current_state, retrieved, cancelled, cont, output, handles, thr,
                   asleep, history>>

\* The future is not reset: it stays valid, next to the new one.
FaultyThenReturns(t) ==
    /\ thr[t].pc = "return"
    /\ \E g \in Future : /\ future[g] = NoState
                         /\ future' = [future EXCEPT ![g] = thr[t].out]
    /\ thr' = [thr EXCEPT ![t] = Idle]
    /\ UNCHANGED <<shared, promise, asleep, history>>

\* The future is reset and the new future stored in the same variable.
then_returns(t) ==
    /\ thr[t].pc = "return"
    /\ future' = [future EXCEPT ![thr[t].fu] = thr[t].out]
    /\ thr' = [thr EXCEPT ![t] = Idle]
    /\ UNCHANGED <<shared, promise, asleep, history>>

-----------------------------------------------------------------------------
(* continuation_base::execute()                                            *)
(*                                                                         *)
(* input.lock() always finds the input: a continuation is executed by      *)
(* set_value(), set_exception() or set_continuation() of that state, which *)
(* the promise, the continuation or then() that calls it owns.             *)

CountRun(t) == runs' = [runs EXCEPT ![thr[t].out] = @ + 1]
Take(t) == taken' = [taken EXCEPT ![thr[t].st] = @ + 1]

\* continuation::execute() with the user's functor, and the two
\* continuation_execute_delegate(): a future_error is thrown on.
ExecPlain(t) ==
    /\ thr[t].pc = "exec" /\ thr[t].ct = "plain"
    /\ CountRun(t)
    /\ \/ /\ "value" \in FunctorOutcome
          /\ SatisfyAndNotify(t, thr[t].out, "has_value", thr[t].pr)
          /\ Take(t)
          /\ UNCHANGED <<future, unwound>>
       \/ /\ "exception" \in FunctorOutcome
          /\ SatisfyAndNotify(t, thr[t].out, "has_exception", thr[t].pr)
          /\ Take(t)
          /\ UNCHANGED <<future, unwound>>
       \/ /\ "future_error" \in FunctorOutcome
          /\ Unwind(t)
          /\ Take(t)
          /\ UNCHANGED <<current_state, asleep, future>>
       \/ /\ "keep_argument" \in FunctorOutcome
          /\ \E g \in Future :
                /\ future[g] = NoState
                /\ future' = [future EXCEPT ![g] = thr[t].st]
          /\ SatisfyAndNotify(t, thr[t].out, "has_value", thr[t].pr)
          /\ UNCHANGED <<taken, unwound>>
    /\ UNCHANGED <<allocated, retrieved, cancelled, callback, cont, output, promise, input, abandoned>>

\* unwrapping_continuation::execute() up to the functor's return; whatever the
\* functor throws goes to the output.
ExecUnwrap(t) ==
    /\ thr[t].pc = "exec" /\ thr[t].ct = "unwrap"
    /\ CountRun(t)
    /\ \/ /\ "exception" \in FunctorOutcome
          /\ SatisfyAndNotify(t, thr[t].out, "has_exception", thr[t].pr)
          /\ Take(t)
          /\ UNCHANGED <<future, unwound>>
       \/ /\ FunctorOutcome \cap {"future_error", "invalid_future"} # {}
          /\ SatisfyAndNotify(t, thr[t].out, "has_future_error", thr[t].pr)
          /\ Take(t)
          /\ UNCHANGED <<future, unwound>>
       \/ /\ "future" \in FunctorOutcome
          /\ \E g \in Future :
                /\ future[g] # NoState /\ ~InUse(g)
                /\ future' = [future EXCEPT ![g] = NoState]
                /\ thr' = [thr EXCEPT ![t] = [@ EXCEPT !.pc = "attach", !.st = future[g]]]
          /\ Take(t)
          /\ UNCHANGED <<current_state, asleep, unwound>>
       \/ /\ "own_argument" \in FunctorOutcome
          /\ thr' = [thr EXCEPT ![t] = [@ EXCEPT !.pc = "attach"]]
          /\ UNCHANGED <<current_state, asleep, future, taken, unwound>>
    /\ UNCHANGED <<allocated, retrieved, cancelled, callback, cont, output, promise, input, abandoned>>

\* intermediate->set_continuation(...), the end of unwrapping_continuation::execute()
Attach(t) ==
    /\ thr[t].pc = "attach"
    /\ LET s == thr[t].st IN
       \/ /\ cont[s] # "none"
          /\ Unwind(t)
          /\ UNCHANGED <<cont, output>>
       \/ /\ cont[s] = "none" /\ is_ready(s)
          /\ thr' = [thr EXCEPT ![t] = [@ EXCEPT !.pc = "exec", !.ct = "forward"]]
          /\ UNCHANGED <<cont, output, unwound>>
       \/ /\ cont[s] = "none" /\ ~is_ready(s)
          /\ cont' = [cont EXCEPT ![s] = "forward"]
          /\ output' = [output EXCEPT ![s] = thr[t].out]
          /\ Finish(t)
          /\ UNCHANGED unwound
    /\ UNCHANGED <<allocated, current_state, retrieved, cancelled, callback, handles, asleep,
                   input, runs, taken, abandoned>>

\* continuation::execute() with the unwrapper as functor: get() throws what the
\* intermediate state holds, and a future_error is thrown on.
ExecForward(t) ==
    /\ thr[t].pc = "exec" /\ thr[t].ct = "forward"
    /\ Take(t)
    /\ \/ /\ current_state[thr[t].st] = "has_future_error"
          /\ Unwind(t)
          /\ UNCHANGED <<current_state, asleep>>
       \/ /\ current_state[thr[t].st] # "has_future_error"
          /\ SatisfyAndNotify(t, thr[t].out, current_state[thr[t].st], thr[t].pr)
          /\ UNCHANGED unwound
    /\ UNCHANGED <<allocated, retrieved, cancelled, callback, cont, output, handles,
                   input, runs, abandoned>>

-----------------------------------------------------------------------------
(* cancel()                                                                *)

\* cancellable(), which locks and unlocks mu_.
cancel(t, f) ==
    /\ IsIdle(t)
    /\ future[f] # NoState
    /\ ~InThen(f)
    /\ ~is_ready(future[f]) /\ ~cancelled[future[f]]
    /\ thr' = [thr EXCEPT ![t] = [Idle EXCEPT !.pc = "cancel", !.st = future[f], !.fu = f]]
    /\ UNCHANGED <<shared, handles, asleep, history>>

\* The callback; an empty std::function throws and cancelled_ is not set.
CancelCall(t) ==
    /\ thr[t].pc = "cancel"
    /\ cancelled' = [cancelled EXCEPT ![thr[t].st] = @ \/ callback[thr[t].st]]
    /\ thr' = [thr EXCEPT ![t] = Idle]
    /\ UNCHANGED <<allocated, current_state, retrieved, callback, cont, output, handles, asleep, history>>

-----------------------------------------------------------------------------
PromiseStep(p) ==
    \/ MakePromise(p)
    \/ DestroyPromise(p)
    \/ \E q \in Promise : MovePromise(p, q)
    \/ \E f \in Future : get_future(p, f)
    \/ \E t \in Thread : set_value(t, p) \/ set_exception(t, p)

Call(t, f) ==
    \/ wait(t, f) \/ wait_for(t, f) \/ get(t, f)
    \/ \E kind \in {"plain", "unwrap"} : then(t, f, kind)
    \/ then_throws(t, f)
    \/ cancel(t, f)

\* What a thread inside a call does next.
Step(t) ==
    \/ CheckReady(t) \/ then_returns(t)
    \/ ExecPlain(t) \/ ExecUnwrap(t) \/ Attach(t) \/ ExecForward(t)
    \/ CancelCall(t)

Next ==
    \/ \E p \in Promise : PromiseStep(p)
    \/ \E f \in Future : DropFuture(f)
    \/ \E t \in Thread, f \in Future : Call(t, f)
    \/ \E t \in Thread : Step(t) \/ SpuriousWakeup(t) \/ TimeOut(t)

Spec == Init /\ [][Next]_vars

\* The scheduler runs every thread that can run; nothing is assumed of clients,
\* of time-outs or of spurious wake-ups.
FairSpec == Spec /\ \A t \in Thread : WF_vars(Step(t))
-----------------------------------------------------------------------------
(* Properties                                                              *)

\* No thread sleeps on the condition variable of a satisfied shared state:
\* every path that satisfies one either notifies (notify_now, abandon) or runs
\* a continuation that excludes waiters.
NoLostWakeup == \A t \in asleep : ~is_ready(thr[t].st)

\* "If there is a continuation there can be no threads blocked on get() or
\* wait() because then() invalidates the future" (notify_now): a thread in a
\* blocking call never waits for an unsatisfied state that has a continuation.
NoWaiterWithContinuation ==
    \A t \in Thread :
        thr[t].pc \in {"wait", "wait_for", "get"} /\ cont[thr[t].st] # "none"
            => is_ready(thr[t].st)

\* Who is going to satisfy o: a promise, a continuation that was not executed
\* yet, or a thread that executes one.
PromiseWrites(p, o) == promise[p] = o
PendingWrites(s, o) == cont[s] # "none" /\ ~is_ready(s) /\ output[s] = o
ThreadWrites(t, o) == thr[t].pc \in {"exec", "attach"} /\ thr[t].out = o

\* An unsatisfied shared state has at most one writer, and a continuation
\* never finds its output already satisfied: set_value() and set_exception()
\* inside execute() cannot throw promise_already_satisfied.
SingleWriter ==
    \A o \in State :
        /\ \A p, q \in Promise : PromiseWrites(p, o) /\ PromiseWrites(q, o) => p = q
        /\ \A r, s \in State : PendingWrites(r, o) /\ PendingWrites(s, o) => r = s
        /\ \A t, u \in Thread : ThreadWrites(t, o) /\ ThreadWrites(u, o) => t = u
        /\ \A s \in State : PendingWrites(s, o) =>
              /\ ~is_ready(o)
              /\ \A p \in Promise : ~PromiseWrites(p, o)
              /\ \A t \in Thread : ~ThreadWrites(t, o)
        /\ \A t \in Thread : ThreadWrites(t, o) =>
              /\ ~is_ready(o)
              /\ \A p \in Promise : ~PromiseWrites(p, o)

\* A satisfied state runs its continuation unless it was abandoned: once
\* set_value(), set_exception() or execute() satisfied it, the functor has run
\* or a thread is about to run it.
ContinuationNotForgotten ==
    \A s \in State \ abandoned :
        is_ready(s) /\ cont[s] \in {"plain", "unwrap"}
            => \/ runs[output[s]] = 1
               \/ \E t \in Thread : thr[t].pc = "exec" /\ thr[t].st = s /\ thr[t].out = output[s]

\* No functor passed its argument on to be the input of a second continuation.
ContinuedOnce == \A o, r \in State : input[o] = input[r] /\ input[o] # NoState => o = r

\* cancel() never calls an empty std::function: the callback moves along with
\* the future, from the input to the output of a continuation, as long as no
\* state is given to then() twice.  (The second output would have no callback,
\* and cancel() on it throws std::bad_function_call.)
CancelCallable ==
    ContinuedOnce => \A t \in Thread : thr[t].pc = "cancel" => callback[thr[t].st]

\* "Nothing throws after this point, and we have not changed the state if
\* anything did throw." (then_impl): after a then() that threw, the future that
\* is still valid has its cancellation callback and its value.
ThenThrowsUnchanged ==
    \A f \in Future, o \in unwound : input[o] = future[f] /\ ~InThen(f)
        => callback[future[f]] /\ taken[future[f]] = 0

\* "Attach a callable func to be invoked when the future is ready"
\* (future<T>::then): once the input is satisfied the functor runs.
FunctorInvoked == \A o \in State : (input[o] # NoState /\ is_ready(input[o])) ~> (runs[o] > 0)

\* The continuation that will satisfy o is stored in a state that is not
\* satisfied, or that abandon() satisfied.
Pending(o) ==
    \E s \in State : /\ cont[s] # "none" /\ output[s] = o
                     /\ ~is_ready(s) \/ s \in abandoned

\* "The returned future will contain the result of func" (future<T>::then): a
\* client that keeps the future which then() returned sees it satisfied as soon as
\* nothing is left to wait for.
ThenDelivers ==
    \A f \in Future, o \in State :
        (future[f] = o /\ input[o] # NoState /\ ~Pending(o))
            ~> (is_ready(o) \/ Pending(o) \/ future[f] # o)

\* The output of every then(), across threads and chains and whether anybody keeps
\* the future or not, is satisfied as soon as nothing is left to wait for, unless
\* a future_error left the continuation.
ResultDelivered ==
    \A o \in State : (input[o] # NoState /\ ~Pending(o))
                        ~> (is_ready(o) \/ Pending(o) \/ o \in unwound)

\* Futures implement the contract of write-once cells and run-once functors.
FC == INSTANCE FutureContract WITH
        cell <- [s \in State |-> IF s \in allocated THEN current_state[s] ELSE "free"],
        source <- input,
        functor <- [s \in State |-> IF input[s] = NoState THEN "none"
                                    ELSE IF runs[s] = 0 THEN "pending" ELSE "ran"]
ImplementsContract == FC!Contract
-----------------------------------------------------------------------------
(* The inductive invariant                                                 *)

Waiting == {"wait", "wait_for", "get"}
Executing == {"exec", "attach"}

\* The local variables of a thread fit the place it has reached; the future a
\* thread works on stays valid, and then() has it for itself.
FrameOK ==
    \A t \in Thread :
        /\ thr[t].pc = "idle" => thr[t] = Idle
        /\ thr[t].pc # "idle" => thr[t].st \in State
        /\ thr[t].pc \in Executing \cup {"return"} => thr[t].out \in State
        /\ thr[t].pc = "exec" => thr[t].ct \in Continuation /\ is_ready(thr[t].st)
        /\ thr[t].pc = "return" => thr[t].fu \in Future
        /\ thr[t].pc = "get" => thr[t].fu = NoFuture
        /\ thr[t].pc = "attach" /\ thr[t].fu # NoFuture => thr[t].st # thr[t].out
        /\ thr[t].pc \in {"wait", "wait_for", "cancel"} =>
              thr[t].fu \in Future /\ future[thr[t].fu] = thr[t].st
        /\ thr[t].fu \in Future => future[thr[t].fu] \in State
        /\ t \in asleep => thr[t].pc \in Waiting
        /\ \A u \in Thread :
              /\ thr[t].pc \in Executing \cup {"return"}
              /\ thr[t].fu \in Future
              /\ thr[u].fu = thr[t].fu
              => u = t

\* Only allocated states are pointed to, and a state that was not allocated is
\* as its constructor will leave it.
AllocatedOK ==
    /\ \A s \in State \ allocated : ~is_ready(s) /\ cont[s] = "none" /\ ~retrieved[s]
    /\ \A p \in Promise : promise[p] \in allocated \cup {NoState}
    /\ \A f \in Future : future[f] \in allocated \cup {NoState}
    /\ \A s \in State : cont[s] # "none" => output[s] \in allocated
    /\ \A t \in Thread : /\ thr[t].st \in allocated \cup {NoState}
                          /\ thr[t].out \in allocated \cup {NoState}

\* Who can still ask for the result of s: a future, a thread in get(), a thread
\* that attaches the unwrapper to s, the caller of the then() that creates s.
FutureReads(f, s) ==
    future[f] = s /\ ~\E t \in Thread : thr[t].pc = "return" /\ thr[t].fu = f
GetReads(t, s) == thr[t].pc = "get" /\ thr[t].st = s
AttachReads(t, s) == thr[t].pc = "attach" /\ thr[t].st = s
OutReads(t, s) == thr[t].pc \in Executing \cup {"return"} /\ thr[t].fu # NoFuture /\ thr[t].out = s
ThreadReads(t, s) == GetReads(t, s) \/ AttachReads(t, s) \/ OutReads(t, s)

\* get_future() was not called yet.
Unretrieved(s) == ~retrieved[s] /\ \E p \in Promise : promise[p] = s

\* An unsatisfied state has at most one reader, none once it has a continuation,
\* and none before its promise's get_future().
SingleReader ==
    \A s \in State : ~is_ready(s) =>
        /\ \A f, g \in Future : FutureReads(f, s) /\ FutureReads(g, s) => f = g
        /\ \A t, u \in Thread : ThreadReads(t, s) /\ ThreadReads(u, s) => t = u
        /\ \A f \in Future, t \in Thread : ~(FutureReads(f, s) /\ ThreadReads(t, s))
        /\ cont[s] # "none" \/ Unretrieved(s) =>
              /\ \A f \in Future : ~FutureReads(f, s)
              /\ \A t \in Thread : ~ThreadReads(t, s)
        /\ Unretrieved(s) => cont[s] = "none"

IInv == TypeOK /\ FrameOK /\ AllocatedOK /\ SingleWriter /\ SingleReader /\ NoLostWakeup
-----------------------------------------------------------------------------
(* What the histories say of functors and of the cancellation callback,    *)
(* inductive together with IInv                                            *)

\* The continuations that run a functor of the client.
ClientFunctor == {"plain", "unwrap"}

\* A functor runs once, on the input it was attached to: it is stored in that
\* input, or held by one thread, until it runs, and what it leaves to do to an
\* unwrapper (a forwarding continuation) is never done by the functor again.
FunctorOnce ==
    /\ \A s \in State : /\ runs[s] \in {0, 1}
                        /\ input[s] = NoState => runs[s] = 0
                        /\ s \notin allocated => input[s] = NoState
    /\ \A p \in Promise : promise[p] \in State => input[promise[p]] = NoState
    /\ \A s \in State :
          /\ cont[s] \in ClientFunctor => /\ input[output[s]] = s
                                          /\ ~is_ready(s) => runs[output[s]] = 0
          /\ cont[s] = "forward" => runs[output[s]] = 1
    /\ \A t \in Thread :
          /\ thr[t].pc = "exec" /\ thr[t].ct \in ClientFunctor =>
                input[thr[t].out] = thr[t].st /\ runs[thr[t].out] = 0
          /\ thr[t].pc = "attach" \/ (thr[t].pc = "exec" /\ thr[t].ct = "forward") =>
                runs[thr[t].out] = 1

Continued(s) == \E o \in State : input[o] = s

\* then() reaches a state through a future: the state is allocated, and either
\* satisfied or left with the continuation.
ContinuedOK ==
    /\ \A s \in State : Continued(s) => s \in allocated /\ (is_ready(s) \/ cont[s] # "none")
    /\ \A t \in Thread, f \in Future, s \in State :
          thr[t].pc \in Executing \cup {"return"} /\ thr[t].fu = f /\ future[f] = s =>
              is_ready(s) \/ cont[s] # "none"

\* The callback stays with a state until then() takes it, or throws it away with
\* a continuation that it cannot store.
CallbackOK ==
    ContinuedOnce =>
        \A s \in allocated : ~Continued(s) /\ (is_ready(s) => cont[s] = "none") => callback[s]

\* The state that cancel() works on, satisfied or not, is out of the reach of
\* everybody but the future that cancel() was called on.
CancelExclusive ==
    \A t \in Thread, s \in State : thr[t].pc = "cancel" /\ thr[t].st = s =>
        /\ cont[s] = "none" /\ ~Continued(s) /\ ~Unretrieved(s)
        /\ \A f \in Future : future[f] = s => f = thr[t].fu
        /\ \A u \in Thread : (thr[u].pc \in Executing => thr[u].st # s) /\ ~OutReads(u, s)

CancelInv == ContinuedOK /\ CallbackOK /\ CancelExclusive
=============================================================================
