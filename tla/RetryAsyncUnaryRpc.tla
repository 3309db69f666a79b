------------------------- MODULE RetryAsyncUnaryRpc -------------------------
(***************************************************************************)
(* internal::RetryAsyncUnaryRpc: the asynchronous retry loop around        *)
(* CompletionQueue::MakeUnaryRpc() and MakeRelativeTimer(), with its retry *)
(* policy (LimitedErrorCountRetryPolicy or LimitedTimeRetryPolicy) and its *)
(* ExponentialBackoffPolicy (internal/async_retry_unary_rpc.h,             *)
(* internal/retry_policy.h, internal/backoff_policy.h and .cc).            *)
(*                                                                         *)
(* The completion queue is reduced to what the loop sees of it: an         *)
(* operation that is refused after Shutdown(), an RPC that completes with  *)
(* some status, a timer that fires when it is due or is cancelled by       *)
(* CancelAll().  The clock counts milliseconds, delays are drawn in        *)
(* microseconds and truncated.                                             *)
(*                                                                         *)
(* A definition named Faulty... is a variant of the one that follows it    *)
(* with a plausible mistake, kept to show that a property can fail.        *)
(***************************************************************************)
EXTENDS Integers

CONSTANTS
    MaximumFailures,           \* of LimitedErrorCountRetryPolicy
    MaximumDuration,           \* of LimitedTimeRetryPolicy, in milliseconds
    InitialDelay,              \* of ExponentialBackoffPolicy, in microseconds
    MaximumDelay,              \* of ExponentialBackoffPolicy, in microseconds
    ScalingNum, ScalingDen,    \* scaling_, a fraction
    MicrosPerMilli,            \* microseconds in a millisecond
    Horizon                    \* the clock stops here; no deadline lies beyond

\* What the constructors accept, and the bounds of the model.
Parameters ==
    /\ MaximumFailures \in Nat
    /\ InitialDelay \in Nat
    /\ MaximumDelay \in Nat
    /\ MicrosPerMilli \in Nat \ {0}
    /\ Horizon \in Nat
    /\ MaximumDuration \in 0..Horizon
    /\ ScalingNum \in Nat /\ ScalingDen \in Nat \ {0}
    /\ ScalingNum > ScalingDen  \* the constructor throws otherwise

VARIABLES
    policy,                  \* which retry policy the application chose
    is_idempotent,           \* is_idempotent_
    cancelled_is_permanent,  \* RetryableTraits::IsPermanentFailure() of kCancelled
    shutdown,                \* shutdown_ of the completion queue
    at,                      \* where the loop is
    result,                  \* the status of the last RPC, or whether the timer fired
    interrupted,             \* CancelAll() reached the pending RPC or timer
    failure_count,           \* failure_count_
    current_delay_range,     \* current_delay_range_, in microseconds
    delay,                   \* what OnCompletion() of the backoff policy drew, in microseconds
    clock,
    due,                     \* when the timer fires
    final,                   \* final_result_
    attempts                 \* history: RPCs started, counted up to MaximumFailures + 2

settings == <<policy, is_idempotent, cancelled_is_permanent>>
policies == <<failure_count, current_delay_range, delay>>
vars == <<settings, shutdown, at, result, interrupted, policies, clock, due, final, attempts>>

RpcStatus == {"ok", "transient", "permanent", "cancelled"}
Final == {"value", "non-idempotent operation failed", "permanent failure",
          "retry policy exhausted", "timer error"}

Least(a, b) == IF a < b THEN a ELSE b
Greatest(a, b) == IF a < b THEN b ELSE a

TypeOK ==
    /\ policy \in {"count", "time"}
    /\ is_idempotent \in BOOLEAN
    /\ cancelled_is_permanent \in BOOLEAN
    /\ shutdown \in BOOLEAN
    /\ at \in {"idle", "start_rpc", "rpc", "on_completion", "start_timer", "timer", "on_timer", "done"}
    /\ result \in RpcStatus \cup {"none", "fired", "timer_cancelled"}
    /\ interrupted \in BOOLEAN
    /\ failure_count \in 0..(MaximumFailures + 1)
    /\ current_delay_range \in 0..Greatest(2 * InitialDelay, MaximumDelay)
    /\ delay \in 0..Greatest(2 * InitialDelay, MaximumDelay)
    /\ clock \in 0..Horizon
    /\ due \in 0..Horizon
    /\ final \in Final \cup {"none"}
    /\ attempts \in 0..(MaximumFailures + 2)

Init ==
    /\ policy \in {"count", "time"}
    /\ is_idempotent \in BOOLEAN
    /\ cancelled_is_permanent \in BOOLEAN
    /\ shutdown \in BOOLEAN
    /\ at = "idle"
    /\ result = "none"
    /\ interrupted = FALSE
    /\ failure_count = 0
    /\ current_delay_range = 2 * InitialDelay
    /\ delay = 0
    /\ clock = 0
    /\ due = 0
    /\ final = "none"
    /\ attempts = 0

-----------------------------------------------------------------------------
(* The policies                                                            *)

IsPermanentFailure(s) == s = "permanent" \/ (s = "cancelled" /\ cancelled_is_permanent)

\* Off by one: the policies expire one failure and one millisecond early.
FaultyIsExhausted(failures) ==
    IF policy = "count" THEN failures >= MaximumFailures ELSE clock + 1 >= MaximumDuration

\* IsExhausted() of the two policies; LimitedTimeRetryPolicy was created at 0.
IsExhausted(failures) ==
    IF policy = "count" THEN failures > MaximumFailures ELSE clock >= MaximumDuration

\* OnFailureImpl() of the two policies
FailureCount == IF policy = "count" THEN failure_count + 1 ELSE failure_count

\* The growth of the delay does not stop at the maximum.
FaultyScaled(range) == (range * ScalingNum) \div ScalingDen

\* The next current_delay_range_: scaled, and truncated to the maximum
Scaled(range) == Least((range * ScalingNum) \div ScalingDen, MaximumDelay)

\* ExponentialBackoffPolicy::OnCompletion()
Backoff ==
    /\ delay' \in (current_delay_range \div 2)..current_delay_range
    /\ current_delay_range' = Scaled(current_delay_range)

-----------------------------------------------------------------------------
(* The retry loop                                                          *)

Finish(f) == at' = "done" /\ final' = f

Start ==
    /\ at = "idle"
    /\ at' = "start_rpc"
    /\ UNCHANGED <<settings, shutdown, result, interrupted, policies, clock, due, final, attempts>>

\* An RPC that is refused after Shutdown() is never reported.
FaultyStartIteration ==
    /\ at = "start_rpc"
    /\ ~shutdown
    /\ at' = "rpc" /\ interrupted' = FALSE
    /\ attempts' = Least(attempts + 1, MaximumFailures + 2)
    /\ UNCHANGED <<settings, shutdown, result, policies, clock, due, final>>

\* cq.MakeUnaryRpc(), refused after Shutdown()
StartIteration ==
    /\ at = "start_rpc"
    /\ \/ /\ shutdown
          /\ at' = "on_completion" /\ result' = "cancelled"
          /\ UNCHANGED <<interrupted, attempts>>
       \/ /\ ~shutdown
          /\ at' = "rpc" /\ interrupted' = FALSE
          /\ attempts' = Least(attempts + 1, MaximumFailures + 2)
          /\ UNCHANGED result
    /\ UNCHANGED <<settings, shutdown, policies, clock, due, final>>

\* gRPC completes the RPC.
RpcCompletes ==
    /\ at = "rpc"
    /\ at' = "on_completion"
    /\ result' \in RpcStatus
    /\ UNCHANGED <<settings, shutdown, interrupted, policies, clock, due, final, attempts>>

OnCompletion ==
    /\ at = "on_completion"
    /\ \/ /\ result = "ok"
          /\ Finish("value")
          /\ UNCHANGED policies
       \/ /\ result # "ok" /\ ~is_idempotent
          /\ Finish("non-idempotent operation failed")
          /\ UNCHANGED policies
       \/ /\ result # "ok" /\ is_idempotent /\ IsPermanentFailure(result)
          /\ Finish("permanent failure")
          /\ UNCHANGED policies
       \/ /\ result # "ok" /\ is_idempotent /\ ~IsPermanentFailure(result)
          /\ failure_count' = FailureCount
          /\ \/ /\ IsExhausted(failure_count')
                /\ Finish("retry policy exhausted")
                /\ UNCHANGED <<current_delay_range, delay>>
             \/ /\ ~IsExhausted(failure_count')
                /\ Backoff
                /\ at' = "start_timer"
                /\ UNCHANGED final
    /\ UNCHANGED <<settings, shutdown, result, interrupted, clock, due, attempts>>

\* cq.MakeRelativeTimer(), refused after Shutdown()
StartTimer ==
    /\ at = "start_timer"
    /\ \/ /\ shutdown
          /\ at' = "on_timer" /\ result' = "timer_cancelled"
          /\ UNCHANGED <<interrupted, due>>
       \/ /\ ~shutdown
          /\ at' = "timer" /\ interrupted' = FALSE
          /\ due' = Least(clock + delay \div MicrosPerMilli, Horizon)
          /\ UNCHANGED result
    /\ UNCHANGED <<settings, shutdown, policies, clock, final, attempts>>

\* gRPC reports that the timer is due, or that it was cancelled.
TimerCompletes ==
    /\ at = "timer"
    /\ at' = "on_timer"
    /\ \/ clock >= due /\ result' = "fired"
       \/ interrupted /\ result' = "timer_cancelled"
    /\ UNCHANGED <<settings, shutdown, interrupted, policies, clock, due, final, attempts>>

\* The continuation of the timer
OnTimer ==
    /\ at = "on_timer"
    /\ \/ result = "fired" /\ at' = "start_rpc" /\ UNCHANGED final
       \/ result = "timer_cancelled" /\ Finish("timer error")
    /\ UNCHANGED <<settings, shutdown, result, interrupted, policies, clock, due, attempts>>

-----------------------------------------------------------------------------
(* The environment                                                         *)

Shutdown ==
    /\ ~shutdown
    /\ shutdown' = TRUE
    /\ UNCHANGED <<settings, at, result, interrupted, policies, clock, due, final, attempts>>

CancelAll ==
    /\ at \in {"rpc", "timer"}
    /\ interrupted' = TRUE
    /\ UNCHANGED <<settings, shutdown, at, result, policies, clock, due, final, attempts>>

Tick ==
    /\ clock < Horizon
    /\ clock' = clock + 1
    /\ UNCHANGED <<settings, shutdown, at, result, interrupted, policies, due, final, attempts>>

-----------------------------------------------------------------------------
Step == StartIteration \/ RpcCompletes \/ OnCompletion \/ StartTimer \/ TimerCompletes \/ OnTimer

Next == Start \/ Step \/ Shutdown \/ CancelAll \/ Tick

Spec == Init /\ [][Next]_vars

\* Threads run, gRPC completes what was started, and time passes.
FairSpec == Spec /\ WF_vars(Step) /\ WF_vars(Tick)

-----------------------------------------------------------------------------
(* Properties                                                              *)

\* LimitedErrorCountRetryPolicy tolerates MaximumFailures failures: there is
\* one attempt more, and the policy expires at no earlier failure.
AttemptsBounded ==
    policy = "count" => /\ attempts <= MaximumFailures + 1
                        /\ final = "retry policy exhausted" => failure_count = MaximumFailures + 1

\* The loop waits for a retry only after a retryable failure of an idempotent
\* request and before its policy expired, for a delay in the range of the backoff
\* policy, which only the first one may exceed the maximum of, and an RPC is
\* started again only after a timer that ran to its end: never after a success, a
\* permanent failure or a cancelled timer.
RetriesAreJustified ==
    [][/\ at' = "start_timer" /\ at # at' =>
             /\ is_idempotent
             /\ result \in {"transient", "cancelled"} /\ ~IsPermanentFailure(result)
             /\ policy = "count" => failure_count' <= MaximumFailures
             /\ policy = "time" => clock < MaximumDuration
             /\ delay' >= Least(2 * InitialDelay, MaximumDelay) \div 2
             /\ delay' <= IF delay = 0 THEN Greatest(2 * InitialDelay, MaximumDelay) ELSE MaximumDelay
       /\ at' = "rpc" /\ at # at' /\ attempts > 0 => result = "fired" /\ clock >= due]_vars

\* The loop reports a timer error only if the queue was shut down or cancelled
\* while it waited, and a policy that expired only when it did.
FinalIsHonest ==
    /\ final = "timer error" => shutdown \/ interrupted
    /\ final = "retry policy exhausted" /\ policy = "time" => clock >= MaximumDuration
    /\ final = "value" => result = "ok"

\* The future that Start() returns is satisfied, under either policy, whatever
\* the RPCs return and whenever the queue is shut down or cancelled.
LoopEnds == (at = "start_rpc") ~> (final # "none")

-----------------------------------------------------------------------------
(* The inductive invariant                                                 *)

\* What each place says of the last result, of the queue and of the clock.
PlaceOK ==
    /\ final # "none" <=> at = "done"
    /\ at = "idle" => attempts = 0
    /\ at = "start_rpc" /\ attempts > 0 => result = "fired" /\ clock >= due
    /\ at = "on_completion" => result \in RpcStatus
    /\ at = "on_timer" /\ result = "fired" => clock >= due
    /\ at = "on_timer" /\ result = "timer_cancelled" => shutdown \/ interrupted

\* No more attempts than tolerated failures and the one that is under way; an
\* RPC that the queue refused is a failure and no attempt.
CountOK ==
    policy = "count" =>
        /\ attempts <= failure_count + IF at \in {"rpc", "on_completion", "done"} THEN 1 ELSE 0
        /\ at # "done" => failure_count <= MaximumFailures
        /\ at = "done" => attempts <= MaximumFailures + 1

\* The delays never shrink below the first one, or the maximum if that is less,
\* and after the first one they do not exceed the maximum.
DelayOK ==
    /\ current_delay_range >= Least(2 * InitialDelay, MaximumDelay)
    /\ delay # 0 => current_delay_range <= MaximumDelay

IInv == TypeOK /\ PlaceOK /\ CountOK /\ DelayOK /\ AttemptsBounded /\ FinalIsHonest
=============================================================================
