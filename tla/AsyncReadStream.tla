-------------------------- MODULE AsyncReadStream --------------------------
(***************************************************************************)
(* internal::AsyncReadStreamImpl: an asynchronous streaming read RPC over  *)
(* a completion queue, as started by CompletionQueue::                     *)
(* MakeStreamingReadRpc() (internal/async_read_stream_impl.h,              *)
(* completion_queue.h).                                                    *)
(*                                                                         *)
(* The stream has one operation at a time: it is handed to                 *)
(* StartOperation(), waits in gRPC, and comes back through Notify(), on a  *)
(* thread in Run(), or at once on the calling thread when the queue was    *)
(* shut down.  Between a Read() and the next operation the stream waits    *)
(* for the future<bool> that the user's on_read returned, which any thread *)
(* may satisfy.  Shutdown() and Cancel() come at any time from other       *)
(* threads.  CancelAll() calls Cancel() of the registered adapter, which   *)
(* does nothing, and is no step of the stream.                             *)
(*                                                                         *)
(* A definition named Faulty... is a variant of the one that follows it    *)
(* with a plausible mistake, kept to show that a property can fail.        *)
(***************************************************************************)
EXTENDS Naturals, Sequences

CONSTANT MaxMessages  \* how many messages the server can send

ASSUME MaxMessagesAssumption == MaxMessages \in Nat

VARIABLES
    at,          \* where the stream's one flow of control is
    kind,        \* the operation it has started, or is about to start
    ok,          \* the argument of the next Notify()
    reader,      \* whether reader_ was set
    try_cancel,  \* context_->TryCancel() was called
    shutdown,    \* shutdown_ of the completion queue
    sent,        \* gRPC: how many messages the server sends before it closes the stream
    received,    \* gRPC: how many were handed to Read()
    ended,       \* gRPC: StartCall() or a Read() has failed
    delivered,   \* history: the messages given to on_read
    stopped,     \* history: the user answered false
    finished     \* history: the statuses given to on_finish

grpc == <<sent, received, ended>>
history == <<delivered, stopped, finished>>
vars == <<at, kind, ok, reader, try_cancel, shutdown, grpc, history>>

Kind == {"start", "read", "discard", "finish"}

TypeOK ==
    /\ at \in {"idle", "call", "pending", "notify", "on_read", "answer", "stuck", "done"}
    /\ kind \in Kind
    /\ ok \in BOOLEAN
    /\ reader \in BOOLEAN
    /\ try_cancel \in BOOLEAN
    /\ shutdown \in BOOLEAN
    /\ sent \in 0..MaxMessages
    /\ received \in 0..sent
    /\ ended \in BOOLEAN
    /\ delivered \in Seq(1..MaxMessages)
    /\ stopped \in BOOLEAN
    /\ finished \in Seq({"status", "cancelled"})

Init ==
    /\ at = "idle"
    /\ kind = "start"
    /\ ok = FALSE
    /\ reader = FALSE
    /\ try_cancel = FALSE
    /\ shutdown \in BOOLEAN
    /\ sent \in 0..MaxMessages
    /\ received = 0
    /\ ended = FALSE
    /\ delivered = <<>>
    /\ stopped = FALSE
    /\ finished = <<>>

-----------------------------------------------------------------------------
(* Starting an operation                                                   *)

\* The stream is about to hand an operation of this kind to StartOperation().
Call(k) == at' = "call" /\ kind' = k

Start ==
    /\ at = "idle"
    /\ Call("start")
    /\ UNCHANGED <<ok, reader, try_cancel, shutdown, grpc, history>>

\* cq_->StartOperation(): a queue that was shut down calls Notify(false) and
\* nothing else; the lambda of Start() sets reader_.
StartOperation ==
    /\ at = "call"
    /\ \/ /\ shutdown
          /\ at' = "notify" /\ ok' = FALSE
          /\ UNCHANGED reader
       \/ /\ ~shutdown
          /\ at' = "pending"
          /\ reader' = (reader \/ kind = "start")
          /\ UNCHANGED ok
    /\ UNCHANGED <<kind, try_cancel, shutdown, grpc, history>>

\* gRPC completes the operation and a thread in Run() picks it up.  A Read()
\* yields the next message, or fails: at the end of the stream, or earlier if
\* the RPC breaks or is cancelled.  Finish() always succeeds.
Complete ==
    /\ at = "pending"
    /\ at' = "notify"
    /\ \/ /\ kind = "start"
          /\ ok' \in BOOLEAN
          /\ ended' = ~ok'
          /\ UNCHANGED received
       \/ /\ kind \in {"read", "discard"} /\ ~ended /\ received < sent
          /\ ok' = TRUE
          /\ received' = received + 1
          /\ UNCHANGED ended
       \/ /\ kind \in {"read", "discard"}
          /\ ok' = FALSE
          /\ ended' = TRUE
          /\ UNCHANGED received
       \/ /\ kind = "finish"
          /\ ok' = TRUE
          /\ UNCHANGED <<ended, received>>
    /\ UNCHANGED <<kind, reader, try_cancel, shutdown, sent, history>>

-----------------------------------------------------------------------------
(* Notify() of the five adapters                                           *)

OnStart ==
    /\ at = "notify" /\ kind = "start"
    /\ Call(IF ok THEN "read" ELSE "finish")
    /\ UNCHANGED <<ok, reader, try_cancel, shutdown, grpc, history>>

\* A failed Read() is followed by another one.
FaultyOnRead ==
    /\ at = "notify" /\ kind = "read"
    /\ \/ /\ ~ok
          /\ Call("read")
          /\ UNCHANGED delivered
       \/ /\ ok
          /\ at' = "on_read"
          /\ delivered' = Append(delivered, received)
          /\ UNCHANGED kind
    /\ UNCHANGED <<ok, reader, try_cancel, shutdown, grpc, stopped, finished>>

\* The handler is called for a failed Read() too, with the last response.
FaultyOnReadAlways ==
    /\ at = "notify" /\ kind = "read"
    /\ at' = "on_read"
    /\ delivered' = Append(delivered, received)
    /\ UNCHANGED <<kind, ok, reader, try_cancel, shutdown, grpc, stopped, finished>>

\* OnRead() up to the call of on_read_.
OnRead ==
    /\ at = "notify" /\ kind = "read"
    /\ \/ /\ ~ok
          /\ Call("finish")
          /\ UNCHANGED delivered
       \/ /\ ok
          /\ at' = "on_read"
          /\ delivered' = Append(delivered, received)
          /\ UNCHANGED kind
    /\ UNCHANGED <<ok, reader, try_cancel, shutdown, grpc, stopped, finished>>

\* A discarded message is followed by a Read() whose message goes to on_read.
FaultyOnDiscard ==
    /\ at = "notify" /\ kind = "discard"
    /\ Call(IF ok THEN "read" ELSE "finish")
    /\ UNCHANGED <<ok, reader, try_cancel, shutdown, grpc, history>>

OnDiscard ==
    /\ at = "notify" /\ kind = "discard"
    /\ Call(IF ok THEN "discard" ELSE "finish")
    /\ UNCHANGED <<ok, reader, try_cancel, shutdown, grpc, history>>

\* NotifyFinish stays registered and is notified again.
FaultyOnFinishAgain ==
    /\ at = "notify" /\ kind = "finish"
    /\ finished' = Append(finished, IF ok THEN "status" ELSE "cancelled")
    /\ Len(finished) < 2
    /\ UNCHANGED <<at, kind, ok, reader, try_cancel, shutdown, grpc, delivered, stopped>>

\* The status of gRPC is reported whatever ok says.
FaultyOnFinish ==
    /\ at = "notify" /\ kind = "finish"
    /\ finished' = Append(finished, "status")
    /\ at' = "done"
    /\ UNCHANGED <<kind, ok, reader, try_cancel, shutdown, grpc, delivered, stopped>>

OnFinish ==
    /\ at = "notify" /\ kind = "finish"
    /\ finished' = Append(finished, IF ok THEN "status" ELSE "cancelled")
    /\ at' = "done"
    /\ UNCHANGED <<kind, ok, reader, try_cancel, shutdown, grpc, delivered, stopped>>

-----------------------------------------------------------------------------
(* The user's future<bool>                                                 *)

\* on_read_ returns and continue_reading.then() is called.
ReadReturns ==
    /\ at = "on_read"
    /\ at' = "answer"
    /\ UNCHANGED <<kind, ok, reader, try_cancel, shutdown, grpc, history>>

\* Finish() is called without reading what is left.
FaultyAnswer(continue) ==
    /\ at = "answer"
    /\ \/ continue /\ Call("read") /\ UNCHANGED <<try_cancel, stopped>>
       \/ ~continue /\ Call("finish") /\ try_cancel' = TRUE /\ stopped' = TRUE
    /\ UNCHANGED <<ok, reader, shutdown, grpc, delivered, finished>>

\* The continuation of the user's future, on the thread that satisfies it or,
\* if it is satisfied already, on the thread in Run().
Answer(continue) ==
    /\ at = "answer"
    /\ \/ continue /\ Call("read") /\ UNCHANGED <<try_cancel, stopped>>
       \/ ~continue /\ Call("discard") /\ try_cancel' = TRUE /\ stopped' = TRUE
    /\ UNCHANGED <<ok, reader, shutdown, grpc, delivered, finished>>

\* The future is abandoned, and the continuation never runs, or holds an
\* exception, and result.get() throws into a future that nobody holds.
NoAnswer ==
    /\ at = "answer"
    /\ at' = "stuck"
    /\ UNCHANGED <<kind, ok, reader, try_cancel, shutdown, grpc, history>>

-----------------------------------------------------------------------------
(* Other threads                                                           *)

\* AsyncOperation::Cancel(), on the handle that MakeStreamingReadRpc() returned
Cancel ==
    /\ at # "idle" /\ ~(at = "call" /\ kind = "start")
    /\ try_cancel' = TRUE
    /\ UNCHANGED <<at, kind, ok, reader, shutdown, grpc, history>>

\* Shutdown() can be undone.
FaultyShutdown ==
    /\ shutdown' = ~shutdown
    /\ UNCHANGED <<at, kind, ok, reader, try_cancel, grpc, history>>

\* CompletionQueue::Shutdown()
Shutdown ==
    /\ shutdown' = TRUE
    /\ UNCHANGED <<at, kind, ok, reader, try_cancel, grpc, history>>

-----------------------------------------------------------------------------
Step == StartOperation \/ Complete \/ OnStart \/ OnRead \/ OnDiscard \/ OnFinish \/ ReadReturns

Next ==
    \/ Start \/ Step
    \/ (\E continue \in BOOLEAN : Answer(continue)) \/ NoAnswer
    \/ Cancel \/ Shutdown

Spec == Init /\ [][Next]_vars

\* Threads run, gRPC completes what was started, and the user's handler and the
\* future that it returns come to an end.
FairSpec == Spec /\ WF_vars(Step) /\ WF_vars(NoAnswer \/ \E continue \in BOOLEAN : Answer(continue))

-----------------------------------------------------------------------------
(* Properties                                                              *)

\* reader_ is not null when it is used: only StartOperation() of a Read() or a
\* Finish() that was not refused uses it, and "This is safe since `Shutdown()`
\* cannot be undone" (Start).
ReaderNotNull == at = "pending" => reader

\* "gRPC requires that any pending messages are read before calling Finish()"
\* (OnRead): Finish() reaches gRPC only after StartCall() or a Read() failed.
FinishAfterDrained == at = "pending" /\ kind = "finish" => ended

\* on_finish is called at most once and is the last callback: afterwards the
\* stream does nothing.
FinishIsLast == [][finished # <<>> => UNCHANGED <<at, delivered, finished>>]_vars

\* A stream that ends with a status from gRPC has given the messages that it
\* received to on_read, in order and each one once, up to the one for which the
\* user answered false.
DeliveredInOrder ==
    /\ delivered = [i \in 1..Len(delivered) |-> i]
    /\ ~stopped /\ at \in {"call", "pending", "answer", "done"} => Len(delivered) = received

\* No message reaches on_read once the user answered false (OnRead: "this is
\* what the user meant by returning `false`").
NoReadAfterStop == [][stopped => UNCHANGED delivered]_vars

\* on_finish gets "call cancelled" only from a queue that was shut down, and a
\* status of gRPC only from a stream that was closed or broken.
StatusIsHonest ==
    \A i \in 1..Len(finished) : IF finished[i] = "cancelled" THEN shutdown ELSE ended

\* A stream that was started calls on_finish, however the queue is shut down,
\* cancelled or stopped, unless the user's future has no bool to give.
FinishesEventually == (at = "call") ~> (at \in {"done", "stuck"})

-----------------------------------------------------------------------------
(* The inductive invariant                                                 *)

\* What each place says of reader_, of the queue and of gRPC.
PlaceOK ==
    /\ at = "idle" => kind = "start" /\ ~reader
    /\ at = "pending" => reader
    /\ at = "call" /\ kind # "start" /\ ~reader => shutdown
    /\ at = "notify" /\ ~reader => shutdown /\ ~ok
    /\ at \in {"on_read", "answer"} => reader
    /\ at \in {"call", "pending"} /\ kind = "finish" => ended \/ shutdown
    /\ at = "pending" /\ kind = "finish" => ended
    /\ at = "notify" /\ ~ok => ended \/ shutdown
    /\ at = "notify" /\ kind = "finish" => IF ok THEN ended ELSE shutdown
    /\ at = "notify" /\ kind \in {"read", "discard"} /\ ok => received > 0
    /\ at \in {"on_read", "answer"} => kind = "read"
    /\ stopped /\ at \notin {"stuck", "done"} => at \in {"call", "pending", "notify"} /\ kind \in {"discard", "finish"}

\* on_finish was called once the stream is done, and not before.
FinishedOK == finished # <<>> <=> at = "done"

IInv == TypeOK /\ PlaceOK /\ FinishedOK /\ StatusIsHonest

\* Until the user answers false, the only message that gRPC handed out and
\* on_read did not see is the one that Notify() is about to deliver; messages
\* are discarded only after that answer.
DeliveryOK ==
    /\ delivered = [i \in 1..Len(delivered) |-> i]
    /\ kind = "discard" => stopped
    /\ ~stopped => received = Len(delivered) + IF at = "notify" /\ kind = "read" /\ ok THEN 1 ELSE 0
=============================================================================
