------------------------- MODULE BackgroundThreads -------------------------
(***************************************************************************)
(* The BackgroundThreads object of a connection, over the CompletionQueue  *)
(* that it owns or was given (background_threads.h, internal/              *)
(* background_threads_impl.h and .cc, connection_options.h and .cc).       *)
(*                                                                         *)
(* A connection has the default factory, whose object creates a queue and  *)
(* the one thread that runs it, and shuts down and joins that thread; or,  *)
(* after DisableBackgroundThreads(cq), an object that shares the           *)
(* application's queue and leaves its threads to the application.          *)
(*                                                                         *)
(* Client contract: only the background thread runs a queue that the       *)
(* default factory created; Shutdown() and the destructor are not called   *)
(* at the same time, nor on the background thread, which cannot join       *)
(* itself.  Copies of the queue outlive the object.                        *)
(*                                                                         *)
(* A definition named Faulty... is a variant of the one that follows it    *)
(* with a plausible mistake, kept to show that a property can fail.        *)
(***************************************************************************)
EXTENDS CompletionQueue

CONSTANT Background  \* the thread of runner_, an ordinary thread otherwise

ASSUME BackgroundAssumption == Background \in Thread

VARIABLES
    factory,   \* background_threads_factory_: "default" or "customer"
    object,    \* the BackgroundThreads object: "alive" or "destroyed"
    joinable,  \* runner_.joinable()
    stopping   \* the function of the object each thread is in

threads == <<factory, object, joinable, stopping>>
allVars == <<vars, threads>>

BTTypeOK ==
    /\ TypeOK
    /\ factory \in {"default", "customer"}
    /\ object \in {"alive", "destroyed"}
    /\ joinable \in BOOLEAN
    /\ stopping \in [Thread -> {"none", "Shutdown", "destructor"}]

\* The factory has made the object; the new thread has not reached Run() yet.
BTInit ==
    /\ Init
    /\ factory \in {"default", "customer"}
    /\ object = "alive"
    /\ joinable = (factory = "default")
    /\ stopping = [t \in Thread |-> "none"]

\* The thread executes application code that does not wait for runner_.  The
\* background thread does so only in a callback.
Free(t) ==
    /\ stopping[t] = "none"
    /\ factory = "default" /\ t = Background => loop[t] = "callback"

-----------------------------------------------------------------------------
\* [](CompletionQueue cq) { cq.Run(); }
RunBackground ==
    /\ factory = "default"
    /\ Run(Background)
    /\ UNCHANGED threads

\* The threads of an application that disabled the background threads
RunCustomer(t) ==
    /\ factory = "customer"
    /\ Run(t)
    /\ UNCHANGED threads

\* Any other use of a queue obtained from cq()
UseQueue(t) ==
    /\ Free(t)
    /\ MakeOperation(t) \/ Shutdown(t) \/ CancelAll(t)
    /\ UNCHANGED threads

\* The thread is joined but the queue is not shut down.
FaultyStop(t, function) ==
    /\ factory = "default" /\ object = "alive"
    /\ t # Background /\ InClient(t) /\ \A u \in Thread : stopping[u] = "none"
    /\ stopping' = [stopping EXCEPT ![t] = function]
    /\ UNCHANGED <<vars, factory, object, joinable>>

\* AutomaticallyCreatedBackgroundThreads::Shutdown() up to join(), called by
\* the client or by the destructor
Stop(t, function) ==
    /\ factory = "default" /\ object = "alive"
    /\ t # Background /\ \A u \in Thread : stopping[u] = "none"
    /\ Shutdown(t)
    /\ stopping' = [stopping EXCEPT ![t] = function]
    /\ UNCHANGED <<factory, object, joinable>>

\* runner_ is detached instead of joined.
FaultyJoin(t) ==
    /\ stopping[t] # "none" /\ call[t] = "none"
    /\ joinable' = FALSE
    /\ object' = IF stopping[t] = "destructor" THEN "destroyed" ELSE object
    /\ stopping' = [stopping EXCEPT ![t] = "none"]
    /\ UNCHANGED <<vars, factory>>

\* if (runner_.joinable()) runner_.join(); and the return
Join(t) ==
    /\ stopping[t] # "none" /\ call[t] = "none"
    /\ joinable => loop[Background] = "returned"
    /\ joinable' = FALSE
    /\ object' = IF stopping[t] = "destructor" THEN "destroyed" ELSE object
    /\ stopping' = [stopping EXCEPT ![t] = "none"]
    /\ UNCHANGED <<vars, factory>>

\* ~CustomerSuppliedBackgroundThreads() = default
DestroyCustomer ==
    /\ factory = "customer" /\ object = "alive"
    /\ object' = "destroyed"
    /\ UNCHANGED <<vars, factory, joinable, stopping>>

-----------------------------------------------------------------------------
StepInQueue(t) == Step(t) /\ UNCHANGED threads
CallbackReturns(t) == ForgetOperation(t) /\ UNCHANGED threads
TakeEvent(o) == (\E t \in Thread : GotEvent(t, o)) /\ UNCHANGED threads
CompleteOp(o) == Complete(o) /\ UNCHANGED threads

BTNext ==
    \/ RunBackground \/ DestroyCustomer
    \/ \E t \in Thread :
          \/ RunCustomer(t) \/ UseQueue(t) \/ Join(t)
          \/ \E function \in {"Shutdown", "destructor"} : Stop(t, function)
          \/ StepInQueue(t) \/ CallbackReturns(t)
    \/ \E o \in Op : TakeEvent(o) \/ CompleteOp(o)

BTSpec == BTInit /\ [][BTNext]_allVars

\* As in CompletionQueue; and the thread that was created runs, and join()
\* returns when that thread has ended.
BTFairness ==
    /\ WF_allVars(RunBackground)
    /\ \A t \in Thread :
          /\ WF_allVars(StepInQueue(t)) /\ WF_allVars(Join(t))
          /\ SF_allVars(CallbackReturns(t))
    /\ \A o \in Op : WF_allVars(CompleteOp(o)) /\ SF_allVars(TakeEvent(o))

BTFairSpec == BTSpec /\ BTFairness

-----------------------------------------------------------------------------
(* Properties                                                              *)

\* When Shutdown() or the destructor has joined the background thread, every
\* operation that was started has been notified and forgotten, gRPC has nothing
\* left, and no callback runs on it or ever will: what the callbacks use may be
\* destroyed.
QuietAfterShutdown ==
    factory = "default" /\ ~joinable =>
        /\ loop[Background] = "returned"
        /\ pending = {} /\ outstanding = {} /\ \A o \in Op : event[o] = "none"

\* Shutdown() and the destructor return, whatever operations are pending and
\* however many the callbacks start while they wait.
ShutdownReturns == \A t \in Thread : (stopping[t] # "none") ~> (stopping[t] = "none")
-----------------------------------------------------------------------------
(* The inductive invariant                                                 *)

\* No other thread is ever in Run() of a queue that the default factory made.
OnlyRunner == factory = "default" => \A t \in Thread \ {Background} : loop[t] = "out"

\* The thread that was joined had returned from Run(), and does not go back.
JoinedReturned == factory = "default" /\ ~joinable => loop[Background] = "returned"

BTInv == BTTypeOK /\ IInv /\ OnlyRunner /\ JoinedReturned
=============================================================================
