-------------------------- MODULE CompletionQueue --------------------------
(***************************************************************************)
(* google::cloud::CompletionQueue over internal::CompletionQueueImpl: a    *)
(* table of pending operations, a pool of threads in Run(), clients that   *)
(* start timers and unary RPCs, Shutdown() and CancelAll()                 *)
(* (completion_queue.h, completion_queue.cc, internal/                     *)
(* completion_queue_impl.h, internal/completion_queue_impl.cc).            *)
(*                                                                         *)
(* gRPC is external: it completes what was started on it, hands every      *)
(* completion to one AsyncNext(), and reports SHUTDOWN once it was shut    *)
(* down and nothing is outstanding.  An operation is identified by its     *)
(* address, which is also its tag; the address is free again when the last *)
(* shared_ptr to the operation is gone.                                    *)
(*                                                                         *)
(* The callbacks an operation triggers run inside Notify() on the thread   *)
(* in Run(), with no lock held, and may call the completion queue.         *)
(*                                                                         *)
(* A definition named Faulty... is a variant of the one that follows it    *)
(* with a plausible mistake, kept to show that a property can fail.        *)
(***************************************************************************)
EXTENDS Naturals

CONSTANTS
    Thread,  \* application threads; any of them may call Run()
    Op,      \* addresses of AsyncGrpcOperation objects
    NoOp

ASSUME NoOpAssumption == NoOp \notin Op

VARIABLES
    pending,        \* keys of pending_ops_
    shutdown,       \* shutdown_
    cq_shutdown,    \* gRPC: cq_.Shutdown() was called
    outstanding,    \* gRPC: operations started and not completed
    event,          \* gRPC: completions not yet returned by AsyncNext()
    cancelled,      \* gRPC: operations whose Cancel() was called
    loop,           \* where each thread is in Run()
    op, ok,         \* the local variables tag/op and ok of Run()
    call,           \* the completion queue function each thread is in
    new,            \* the local variable op of MakeDeadlineTimer() and MakeUnaryRpc()
    snapshot, todo, \* the local copy in CancelAll(), and what it has still to cancel
    used,           \* history: addresses where an operation was ever created
    notifications,  \* history: calls of Notify() on the operation, each satisfies its promise
    outcome         \* history: the argument of the last Notify()

grpc == <<cq_shutdown, outstanding, event, cancelled>>
runner == <<loop, op, ok>>
client == <<call, new, snapshot, todo>>
history == <<used, notifications, outcome>>
vars == <<pending, shutdown, grpc, runner, client, history>>

Result == {"ok", "not_ok"}
InLoop == {"poll", "event", "found", "callback"}

TypeOK ==
    /\ pending \in SUBSET Op
    /\ shutdown \in BOOLEAN
    /\ cq_shutdown \in BOOLEAN
    /\ outstanding \in SUBSET Op
    /\ event \in [Op -> Result \cup {"none"}]
    /\ cancelled \in SUBSET Op
    /\ loop \in [Thread -> InLoop \cup {"out", "returned"}]
    /\ op \in [Thread -> Op \cup {NoOp}]
    /\ ok \in [Thread -> Result]
    /\ call \in [Thread -> {"none", "start", "notify", "get_future", "shutdown", "cancel_all"}]
    /\ new \in [Thread -> Op \cup {NoOp}]
    /\ snapshot \in [Thread -> SUBSET Op]
    /\ todo \in [Thread -> SUBSET Op]
    /\ used \in SUBSET Op
    /\ notifications \in [Op -> Nat]
    /\ outcome \in [Op -> Result \cup {"none"}]

Init ==
    /\ pending = {}
    /\ shutdown = FALSE
    /\ cq_shutdown = FALSE
    /\ outstanding = {}
    /\ event = [o \in Op |-> "none"]
    /\ cancelled = {}
    /\ loop = [t \in Thread |-> "out"]
    /\ op = [t \in Thread |-> NoOp]
    /\ ok = [t \in Thread |-> "ok"]
    /\ call = [t \in Thread |-> "none"]
    /\ new = [t \in Thread |-> NoOp]
    /\ snapshot = [t \in Thread |-> {}]
    /\ todo = [t \in Thread |-> {}]
    /\ used = {}
    /\ notifications = [o \in Op |-> 0]
    /\ outcome = [o \in Op |-> "none"]

\* Some shared_ptr points to the operation.  A thread that has only received the
\* tag from AsyncNext() holds none.
Alive(o) ==
    \/ o \in pending
    \/ \E t \in Thread : \/ op[t] = o /\ loop[t] \in {"found", "callback"}
                         \/ new[t] = o
                         \/ o \in snapshot[t]

\* Application code runs: outside Run(), or in a callback inside Notify().
InClient(t) == loop[t] \in {"out", "callback", "returned"} /\ call[t] = "none"

Notify(o, r) ==
    /\ notifications' = [notifications EXCEPT ![o] = @ + 1]
    /\ outcome' = [outcome EXCEPT ![o] = r]
    /\ UNCHANGED used

-----------------------------------------------------------------------------
(* MakeDeadlineTimer(), MakeRelativeTimer() and MakeUnaryRpc()             *)

\* std::make_shared<AsyncTimerFuture>() or <AsyncUnaryRpcFuture>()
MakeOperation(t) ==
    /\ InClient(t)
    /\ \E o \in Op :
          /\ ~Alive(o)
          /\ new' = [new EXCEPT ![t] = o]
          /\ used' = used \cup {o}
          /\ notifications' = [notifications EXCEPT ![o] = 0]
          /\ outcome' = [outcome EXCEPT ![o] = "none"]
          /\ cancelled' = cancelled \ {o}
    /\ call' = [call EXCEPT ![t] = "start"]
    /\ UNCHANGED <<pending, shutdown, cq_shutdown, outstanding, event, runner, snapshot, todo>>

\* The test of shutdown_ is forgotten.
FaultyStartOperation(t) ==
    /\ call[t] = "start"
    /\ pending' = pending \cup {new[t]}
    /\ outstanding' = outstanding \cup {new[t]}
    /\ call' = [call EXCEPT ![t] = "get_future"]
    /\ UNCHANGED <<shutdown, cq_shutdown, event, cancelled, runner, new, snapshot, todo, history>>

\* The operation is started on gRPC but not registered.
FaultyStartUnregistered(t) ==
    /\ call[t] = "start"
    /\ IF shutdown
       THEN /\ call' = [call EXCEPT ![t] = "notify"]
            /\ UNCHANGED <<pending, outstanding>>
       ELSE /\ outstanding' = outstanding \cup {new[t]}
            /\ call' = [call EXCEPT ![t] = "get_future"]
            /\ UNCHANGED pending
    /\ UNCHANGED <<shutdown, cq_shutdown, event, cancelled, runner, new, snapshot, todo, history>>

\* CompletionQueueImpl::StartOperation(), the section that holds mu_; start(tag)
\* is called in it.
StartOperation(t) ==
    /\ call[t] = "start"
    /\ IF shutdown
       THEN /\ call' = [call EXCEPT ![t] = "notify"]
            /\ UNCHANGED <<pending, outstanding>>
       ELSE /\ pending' = pending \cup {new[t]}
            /\ outstanding' = outstanding \cup {new[t]}
            /\ call' = [call EXCEPT ![t] = "get_future"]
    /\ UNCHANGED <<shutdown, cq_shutdown, event, cancelled, runner, new, snapshot, todo, history>>

\* A refused operation is dropped without Notify().
FaultyNotifyRefused(t) ==
    /\ call[t] = "notify"
    /\ call' = [call EXCEPT ![t] = "get_future"]
    /\ UNCHANGED <<pending, shutdown, grpc, runner, new, snapshot, todo, history>>

\* op->Notify(false), after the lock is released
NotifyRefused(t) ==
    /\ call[t] = "notify"
    /\ Notify(new[t], "not_ok")
    /\ call' = [call EXCEPT ![t] = "get_future"]
    /\ UNCHANGED <<pending, shutdown, grpc, runner, new, snapshot, todo>>

\* return op->GetFuture(); the local shared_ptr is released.
GetFuture(t) ==
    /\ call[t] = "get_future"
    /\ call' = [call EXCEPT ![t] = "none"]
    /\ new' = [new EXCEPT ![t] = NoOp]
    /\ UNCHANGED <<pending, shutdown, grpc, runner, snapshot, todo, history>>

-----------------------------------------------------------------------------
(* CompletionQueueImpl::Run()                                              *)

Run(t) ==
    /\ loop[t] = "out" /\ call[t] = "none"
    /\ loop' = [loop EXCEPT ![t] = "poll"]
    /\ UNCHANGED <<pending, shutdown, grpc, op, ok, client, history>>

\* AsyncNext() returns GOT_EVENT.  (TIMEOUT changes nothing.)
GotEvent(t, o) ==
    /\ loop[t] = "poll"
    /\ event[o] # "none"
    /\ op' = [op EXCEPT ![t] = o]
    /\ ok' = [ok EXCEPT ![t] = event[o]]
    /\ event' = [event EXCEPT ![o] = "none"]
    /\ loop' = [loop EXCEPT ![t] = "event"]
    /\ UNCHANGED <<pending, shutdown, cq_shutdown, outstanding, cancelled, client, history>>

\* AsyncNext() returns SHUTDOWN
GotShutdown(t) ==
    /\ loop[t] = "poll"
    /\ cq_shutdown
    /\ outstanding = {} /\ \A o \in Op : event[o] = "none"
    /\ loop' = [loop EXCEPT ![t] = "returned"]
    /\ UNCHANGED <<pending, shutdown, grpc, op, ok, client, history>>

\* Throws if the tag is not found; OwnedByOne says that this does not happen.
FindOperation(t) ==
    /\ loop[t] = "event"
    /\ op[t] \in pending
    /\ loop' = [loop EXCEPT ![t] = "found"]
    /\ UNCHANGED <<pending, shutdown, grpc, op, ok, client, history>>

\* The sense of ok is inverted.
FaultyNotifyEvent(t) ==
    /\ loop[t] = "found"
    /\ Notify(op[t], IF ok[t] = "ok" THEN "not_ok" ELSE "ok")
    /\ loop' = [loop EXCEPT ![t] = "callback"]
    /\ UNCHANGED <<pending, shutdown, grpc, op, ok, client>>

NotifyEvent(t) ==
    /\ loop[t] = "found"
    /\ Notify(op[t], ok[t])
    /\ loop' = [loop EXCEPT ![t] = "callback"]
    /\ UNCHANGED <<pending, shutdown, grpc, op, ok, client>>

\* The result of Notify() is ignored and the operation stays registered.
FaultyForgetOperation(t) ==
    /\ loop[t] = "callback" /\ call[t] = "none"
    /\ op' = [op EXCEPT ![t] = NoOp]
    /\ loop' = [loop EXCEPT ![t] = "poll"]
    /\ UNCHANGED <<pending, shutdown, grpc, ok, client, history>>

\* Notify() returns true for timers and unary RPCs; the erase finds the tag by
\* OwnedByOne.
ForgetOperation(t) ==
    /\ loop[t] = "callback" /\ call[t] = "none"
    /\ pending' = pending \ {op[t]}
    /\ op' = [op EXCEPT ![t] = NoOp]
    /\ loop' = [loop EXCEPT ![t] = "poll"]
    /\ UNCHANGED <<shutdown, grpc, ok, client, history>>

-----------------------------------------------------------------------------
(* Shutdown() and CancelAll()                                              *)

\* shutdown_ = true under mu_
Shutdown(t) ==
    /\ InClient(t)
    /\ shutdown' = TRUE
    /\ call' = [call EXCEPT ![t] = "shutdown"]
    /\ UNCHANGED <<pending, grpc, runner, new, snapshot, todo, history>>

\* cq_.Shutdown() is forgotten.
FaultyShutdownGrpc(t) ==
    /\ call[t] = "shutdown"
    /\ call' = [call EXCEPT ![t] = "none"]
    /\ UNCHANGED <<pending, shutdown, grpc, runner, new, snapshot, todo, history>>

\* cq_.Shutdown()
ShutdownGrpc(t) ==
    /\ call[t] = "shutdown"
    /\ cq_shutdown' = TRUE
    /\ call' = [call EXCEPT ![t] = "none"]
    /\ UNCHANGED <<pending, shutdown, outstanding, event, cancelled, runner, new, snapshot, todo,
                   history>>

\* The copy of pending_ops_ under mu_
CancelAll(t) ==
    /\ InClient(t)
    /\ snapshot' = [snapshot EXCEPT ![t] = pending]
    /\ todo' = [todo EXCEPT ![t] = pending]
    /\ call' = [call EXCEPT ![t] = "cancel_all"]
    /\ UNCHANGED <<pending, shutdown, grpc, runner, new, history>>

\* kv.second->Cancel(): alarm_->Cancel() or context_->TryCancel()
Cancel(t) ==
    /\ call[t] = "cancel_all"
    /\ \E o \in todo[t] :
          /\ todo' = [todo EXCEPT ![t] = @ \ {o}]
          /\ cancelled' = cancelled \cup {o}
    /\ UNCHANGED <<pending, shutdown, cq_shutdown, outstanding, event, runner, call, new, snapshot,
                   history>>

CancelAllReturns(t) ==
    /\ call[t] = "cancel_all" /\ todo[t] = {}
    /\ snapshot' = [snapshot EXCEPT ![t] = {}]
    /\ call' = [call EXCEPT ![t] = "none"]
    /\ UNCHANGED <<pending, shutdown, grpc, runner, new, todo, history>>

-----------------------------------------------------------------------------
(* gRPC                                                                    *)

\* A timer expires or an RPC finishes; only a cancelled timer completes with
\* ok == false.
Complete(o) ==
    /\ o \in outstanding
    /\ outstanding' = outstanding \ {o}
    /\ \E r \in Result :
          /\ r = "not_ok" => o \in cancelled
          /\ event' = [event EXCEPT ![o] = r]
    /\ UNCHANGED <<pending, shutdown, cq_shutdown, cancelled, runner, client, history>>

-----------------------------------------------------------------------------
\* What a thread inside a completion queue function does next.
Step(t) ==
    \/ StartOperation(t) \/ NotifyRefused(t) \/ GetFuture(t)
    \/ FindOperation(t) \/ NotifyEvent(t) \/ GotShutdown(t)
    \/ ShutdownGrpc(t) \/ Cancel(t) \/ CancelAllReturns(t)

\* What application code may decide to do.
Call(t) == MakeOperation(t) \/ Run(t) \/ Shutdown(t) \/ CancelAll(t)

Next ==
    \/ \E t \in Thread : Call(t) \/ Step(t) \/ ForgetOperation(t)
    \/ \E t \in Thread, o \in Op : GotEvent(t, o)
    \/ \E o \in Op : Complete(o)

Spec == Init /\ [][Next]_vars

\* Threads that can run do run; callbacks return, however many calls they make;
\* gRPC completes every operation and does not starve a completion.
Fairness ==
    /\ \A t \in Thread : WF_vars(Step(t)) /\ SF_vars(ForgetOperation(t))
    /\ \A o \in Op : WF_vars(Complete(o)) /\ SF_vars(\E t \in Thread : GotEvent(t, o))

FairSpec == Spec /\ Fairness

-----------------------------------------------------------------------------
(* Properties                                                              *)

Handling(t) == loop[t] \in {"event", "found", "callback"}

\* Every registered operation is in the hands of exactly one of gRPC, its
\* event queue and one thread in Run(), and nothing else is.  So the assertions
\* of FindOperation(), ForgetOperation() and StartOperation() ("assertion
\* failure: ...") never fire, whatever addresses are reused.
OwnedByOne ==
    /\ \A o \in Op : o \in pending <=> \/ o \in outstanding
                                      \/ event[o] # "none"
                                      \/ \E t \in Thread : Handling(t) /\ op[t] = o
    /\ \A o \in outstanding : event[o] = "none"
    /\ \A t \in Thread :
          Handling(t) => op[t] \in Op /\ op[t] \notin outstanding /\ event[op[t]] = "none"
    /\ \A t, u \in Thread : Handling(t) /\ Handling(u) /\ op[t] = op[u] => t = u
    /\ \A t \in Thread : call[t] \in {"start", "notify"} => new[t] \notin pending

\* Notify() is called exactly once on every operation before it is destroyed:
\* its promise is never satisfied twice and never abandoned, so the
\* continuations of its future do run.
NotifiedExactlyOnce ==
    \A o \in used : /\ notifications[o] <= 1
                    /\ ~Alive(o) => notifications[o] = 1

\* A timer or RPC fails with ok == false only if somebody cancelled it or the
\* queue was shut down.
FailsOnlyIfCancelled ==
    \A o \in Op : outcome[o] = "not_ok" => o \in cancelled \/ shutdown

\* No operation is started on a gRPC queue that was shut down: shutdown_ is set
\* before cq_.Shutdown() and tested under the lock that start(tag) holds.
NoStartAfterShutdown == [][cq_shutdown => outstanding' \subseteq outstanding]_vars

\* When one Run() has returned, no operation is left to gRPC: what is still
\* registered is being notified by another thread in Run().
ReturnsOnlyWhenDrained ==
    \A t \in Thread : loop[t] = "returned" =>
        \A o \in pending : \E u \in Thread : Handling(u) /\ op[u] = o

\* While a thread is in Run() every registered operation is notified and
\* forgotten.
OperationsComplete ==
    \A o \in Op : (o \in pending /\ \E t \in Thread : loop[t] \in InLoop) ~> o \notin pending

\* After Shutdown() every Run() returns, even if callbacks go on starting
\* operations.
RunReturns == \A t \in Thread : (shutdown /\ loop[t] \in InLoop) ~> loop[t] = "returned"
-----------------------------------------------------------------------------
(* The inductive invariant                                                 *)

Creating(t) == call[t] \in {"start", "notify"}

\* The local variable op of Make...() and the thread's place in it; an
\* operation that is being created is known to its creator only.
NewIsLocal ==
    /\ \A t \in Thread : new[t] \in Op <=> call[t] \in {"start", "notify", "get_future"}
    /\ \A t, u \in Thread : Creating(t) /\ t # u => new[u] # new[t]

\* shutdown_ is set before cq_.Shutdown() is called, and stays set.
ShutdownOrder ==
    /\ cq_shutdown => shutdown
    /\ \A t \in Thread : call[t] = "shutdown" => shutdown

\* A Run() returns when gRPC is drained, and gRPC stays drained.
ReturnedDrained ==
    (\E t \in Thread : loop[t] = "returned")
        => cq_shutdown /\ outstanding = {} /\ \A o \in Op : event[o] = "none"

\* How often an operation was notified, by where it is.
NotificationCount ==
    /\ pending \subseteq used
    /\ \A t \in Thread : Creating(t) => new[t] \in used /\ notifications[new[t]] = 0
    /\ \A o \in Op : o \in outstanding \/ event[o] # "none" => notifications[o] = 0
    /\ \A t \in Thread :
          /\ loop[t] \in {"event", "found"} => notifications[op[t]] = 0
          /\ loop[t] = "callback" => notifications[op[t]] = 1
    /\ \A o \in used \ pending :
          (\A t \in Thread : Creating(t) => new[t] # o) => notifications[o] = 1

\* A failure still on its way to Notify(): gRPC reports it for a cancelled
\* operation only, and StartOperation() refuses only after Shutdown().
HonestResults ==
    /\ \A o \in Op : event[o] = "not_ok" => o \in cancelled
    /\ \A t \in Thread : loop[t] \in {"event", "found"} /\ ok[t] = "not_ok" => op[t] \in cancelled
    /\ \A t \in Thread : call[t] = "notify" => shutdown

IInv == TypeOK /\ OwnedByOne /\ NewIsLocal /\ ShutdownOrder /\ ReturnedDrained /\ NotificationCount
=============================================================================
