---------------------------- MODULE TimerFutures ----------------------------
(***************************************************************************)
(* What the clients of a CompletionQueue do with the future of a timer:    *)
(* RunAsync(), which attaches a functor to a timer that expires at once,   *)
(* and future::cancel(), whose callback calls Cancel() on the operation    *)
(* (completion_queue.h, completion_queue.cc, internal/future_impl.h).      *)
(***************************************************************************)
EXTENDS CompletionQueue

VARIABLES
    functor,     \* the functor of RunAsync() on the timer: where it is, or which thread ran it
    future_cancelled, \* cancelled_ of the shared state of the timer's future
    cancelling   \* the timer whose cancellation callback a thread is about to call

futures == <<functor, future_cancelled, cancelling>>
allVars == <<vars, futures>>

TFTypeOK ==
    /\ TypeOK
    /\ functor \in [Op -> {"none", "requested", "attached", "on_runner", "on_caller"}]
    /\ future_cancelled \in SUBSET Op
    /\ cancelling \in [Thread -> Op \cup {NoOp}]

TFInit ==
    /\ Init
    /\ functor = [o \in Op |-> "none"]
    /\ future_cancelled = {}
    /\ cancelling = [t \in Thread |-> NoOp]

Free(t) == cancelling[t] = NoOp

\* A thread calls the functor.
RunFunctor(t) == IF loop[t] = "callback" THEN "on_runner" ELSE "on_caller"

-----------------------------------------------------------------------------
\* MakeRelativeTimer() for a future that the client keeps, or for RunAsync()
MakeTimer(t, request) ==
    /\ Free(t)
    /\ MakeOperation(t)
    /\ functor' = [functor EXCEPT ![new'[t]] = request]
    /\ future_cancelled' = future_cancelled \ {new'[t]}
    /\ UNCHANGED cancelling

\* The timer's future is returned; RunAsync() attaches the functor with then(),
\* which calls it at once if the future is ready.
Then(t) ==
    /\ GetFuture(t)
    /\ functor' = [functor EXCEPT ![new[t]] =
                      IF @ # "requested" THEN @
                      ELSE IF notifications[new[t]] = 0 THEN "attached" ELSE RunFunctor(t)]
    /\ UNCHANGED <<future_cancelled, cancelling>>

\* promise_.set_value() runs the continuation on the thread in Run().
NotifyTimer(t) ==
    /\ NotifyEvent(t)
    /\ functor' = [functor EXCEPT ![op[t]] = IF @ = "attached" THEN "on_runner" ELSE @]
    /\ UNCHANGED <<future_cancelled, cancelling>>

\* cancel(): the client has the future, and cancellable() is true.
FutureCancel(t) ==
    /\ Free(t) /\ InClient(t)
    /\ \E o \in used \ future_cancelled :
          /\ functor[o] = "none" /\ \A u \in Thread : new[u] # o
          /\ notifications[o] = 0
          /\ cancelling' = [cancelling EXCEPT ![t] = o]
    /\ UNCHANGED <<vars, functor, future_cancelled>>

\* cancellation_callback_(): [this] { Cancel(); }, and cancelled_ = true
CancelCallback(t) ==
    /\ ~Free(t)
    /\ cancelled' = cancelled \cup {cancelling[t]}
    /\ future_cancelled' = future_cancelled \cup {cancelling[t]}
    /\ cancelling' = [cancelling EXCEPT ![t] = NoOp]
    /\ UNCHANGED <<pending, shutdown, cq_shutdown, outstanding, event, runner, client, history,
                   functor>>

-----------------------------------------------------------------------------
\* The steps of the queue that do not touch the futures
Other(t) ==
    \/ Free(t) /\ (Run(t) \/ Shutdown(t) \/ CancelAll(t) \/ ForgetOperation(t))
    \/ StartOperation(t) \/ NotifyRefused(t)
    \/ FindOperation(t) \/ GotShutdown(t)
    \/ ShutdownGrpc(t) \/ Cancel(t) \/ CancelAllReturns(t)

TFNext ==
    \/ \E t \in Thread :
          \/ \E request \in {"none", "requested"} : MakeTimer(t, request)
          \/ Then(t) \/ NotifyTimer(t)
          \/ FutureCancel(t) \/ CancelCallback(t)
          \/ Other(t) /\ UNCHANGED futures
    \/ \E t \in Thread, o \in Op : GotEvent(t, o) /\ UNCHANGED futures
    \/ \E o \in Op : Complete(o) /\ UNCHANGED futures

TFSpec == TFInit /\ [][TFNext]_allVars

-----------------------------------------------------------------------------
(* Properties                                                              *)

\* "Asynchronously run a functor on a thread `Run()`ning the
\* `CompletionQueue`." (RunAsync): no functor runs on the thread that called
\* RunAsync(), unless that thread is itself in Run().
FunctorOnRunner == \A o \in Op : functor[o] # "on_caller"

\* "A shared pointer to the `AsyncOperation` is returned by the completion queue
\* so library developers can cancel the operation if needed."
\* (AsyncGrpcOperation): the operation exists when cancel() of its future gets to
\* call Cancel() on it.
CancelsLiveTimer == \A t \in Thread : ~Free(t) => Alive(cancelling[t])
=============================================================================
