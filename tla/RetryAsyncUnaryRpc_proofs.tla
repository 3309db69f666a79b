--------------------- MODULE RetryAsyncUnaryRpc_proofs ----------------------
(***************************************************************************)
(* Proofs of the safety properties of RetryAsyncUnaryRpc, for every number *)
(* of tolerated failures, every duration and every backoff policy that the *)
(* constructors accept.                                                    *)
(***************************************************************************)
EXTENDS RetryAsyncUnaryRpc, TLAPS

-----------------------------------------------------------------------------
(* The arithmetic of the backoff policy                                    *)

\* The product of two natural numbers is one.
LEMMA NatProduct == ASSUME NEW a \in Nat, NEW b \in Nat PROVE a * b \in Nat
OBVIOUS

\* The quotient of natural numbers is the largest factor that fits.
LEMMA QuotientBound ==
    ASSUME NEW p \in Nat, NEW d \in Nat \ {0}, NEW r \in Nat, p >= r * d
    PROVE  p \div d \in Nat /\ p \div d >= r
OBVIOUS

\* Scaling by a fraction above one does not make a number smaller.
LEMMA ScalingGrows ==
    ASSUME NEW r \in Nat, NEW num \in Nat, NEW den \in Nat \ {0}, num > den
    PROVE  (r * num) \div den \in Nat /\ (r * num) \div den >= r
<1>1. r * num \in Nat
      BY NatProduct
<1>2. r * num >= r * den
      OBVIOUS
<1> QED BY <1>1, <1>2, QuotientBound

\* The next delay is in the range of the policy, and not below the first one.
LEMMA ScaledRange ==
    ASSUME Parameters, NEW r \in 0..Greatest(2 * InitialDelay, MaximumDelay),
           r >= Least(2 * InitialDelay, MaximumDelay)
    PROVE  /\ Scaled(r) \in 0..Greatest(2 * InitialDelay, MaximumDelay)
           /\ Scaled(r) >= Least(2 * InitialDelay, MaximumDelay)
           /\ Scaled(r) <= MaximumDelay
<1> DEFINE q == (r * ScalingNum) \div ScalingDen
<1>1. r \in Nat /\ InitialDelay \in Nat /\ MaximumDelay \in Nat
      BY DEF Parameters, Greatest
<1>2. q \in Nat /\ q >= r
      BY <1>1, ScalingGrows DEF Parameters
<1> HIDE DEF q
<1>3. Least(q, MaximumDelay) \in 0..Greatest(2 * InitialDelay, MaximumDelay)
      /\ Least(q, MaximumDelay) >= Least(2 * InitialDelay, MaximumDelay)
      /\ Least(q, MaximumDelay) <= MaximumDelay
      BY <1>1, <1>2 DEF Greatest, Least
<1> QED BY <1>3 DEF Scaled, q
-----------------------------------------------------------------------------
(* The inductive invariant                                                 *)

\* The initial states satisfy the inductive invariant.
LEMMA InitInv == ASSUME Parameters PROVE Init => IInv
<1> SUFFICES ASSUME Init PROVE IInv
    OBVIOUS
<1> USE DEF Parameters
<1>1. TypeOK
      <2>1. 2 * InitialDelay \in 0..Greatest(2 * InitialDelay, MaximumDelay)
            /\ 0 \in 0..Greatest(2 * InitialDelay, MaximumDelay)
            BY DEF Greatest
      <2>2. 0 \in 0..Horizon /\ 0 \in 0..(MaximumFailures + 1) /\ 0 \in 0..(MaximumFailures + 2)
            OBVIOUS
      <2> QED BY <2>1, <2>2 DEF Init, TypeOK
<1>2. PlaceOK
      BY DEF Init, PlaceOK
<1>3. CountOK
      BY DEF Init, CountOK
<1>4. DelayOK
      BY DEF Init, DelayOK, Least
<1>5. AttemptsBounded /\ FinalIsHonest
      BY DEF Init, AttemptsBounded, FinalIsHonest
<1> QED BY <1>1, <1>2, <1>3, <1>4, <1>5 DEF IInv

\* Every step keeps the variables in their types: the counters stay below their
\* caps and the delays within the range of the policy.
LEMMA TypeStep == ASSUME Parameters PROVE IInv /\ [Next]_vars => TypeOK' /\ DelayOK'
<1> SUFFICES ASSUME IInv, [Next]_vars PROVE TypeOK' /\ DelayOK'
    OBVIOUS
<1> USE DEF settings, policies
<1>0. TypeOK /\ CountOK /\ DelayOK /\ PlaceOK
      BY DEF IInv
<1>1. CASE UNCHANGED vars
      BY <1>0, <1>1 DEF vars, TypeOK, DelayOK
<1>2. CASE Start
      BY <1>0, <1>2 DEF Start, TypeOK, DelayOK
<1>3. CASE StartIteration
      <2>1. attempts' \in 0..(MaximumFailures + 2)
            BY <1>0, <1>3 DEF StartIteration, TypeOK, Least, Parameters
      <2> QED BY <1>0, <1>3, <2>1 DEF StartIteration, TypeOK, DelayOK, RpcStatus
<1>4. CASE RpcCompletes
      BY <1>0, <1>4 DEF RpcCompletes, TypeOK, DelayOK
<1>5. CASE OnCompletion
      <2>1. failure_count' \in 0..(MaximumFailures + 1)
            <3>1. failure_count' \in {failure_count, FailureCount} /\ at = "on_completion"
                  BY <1>5 DEF OnCompletion
            <3>2. policy = "count" => failure_count <= MaximumFailures
                  BY <1>0, <3>1 DEF CountOK
            <3>3. failure_count \in 0..(MaximumFailures + 1) /\ MaximumFailures \in Nat
                  BY <1>0 DEF TypeOK, Parameters
            <3>4. CASE policy = "count"
                  BY <3>1, <3>2, <3>3, <3>4 DEF FailureCount
            <3>5. CASE policy # "count"
                  BY <3>1, <3>3, <3>5 DEF FailureCount
            <3> QED BY <3>4, <3>5
      <2>2. current_delay_range' \in 0..Greatest(2 * InitialDelay, MaximumDelay) /\ DelayOK'
            <3>1. CASE current_delay_range' = current_delay_range /\ delay' = delay
                  BY <1>0, <3>1 DEF TypeOK, DelayOK
            <3>2. CASE current_delay_range' = Scaled(current_delay_range)
                  BY <1>0, <3>2, ScaledRange DEF TypeOK, DelayOK
            <3> QED BY <1>5, <3>1, <3>2 DEF OnCompletion, Backoff
      <2>3. delay' \in 0..Greatest(2 * InitialDelay, MaximumDelay)
            <3>1. CASE delay' = delay
                  BY <1>0, <3>1 DEF TypeOK
            <3>2. CASE delay' \in (current_delay_range \div 2)..current_delay_range
                  BY <1>0, <3>2 DEF TypeOK, Greatest, Parameters
            <3> QED BY <1>5, <3>1, <3>2 DEF OnCompletion, Backoff
      <2>4. final' \in Final \cup {"none"} /\ at' \in {"done", "start_timer"}
            BY <1>0, <1>5 DEF OnCompletion, Finish, TypeOK, Final
      <2> QED BY <1>0, <1>5, <2>1, <2>2, <2>3, <2>4 DEF OnCompletion, TypeOK
<1>6. CASE StartTimer
      <2>1. delay \div MicrosPerMilli \in Nat
            BY <1>0, QuotientBound DEF TypeOK, Parameters, Greatest
      <2>2. Least(clock + delay \div MicrosPerMilli, Horizon) \in 0..Horizon
            BY <1>0, <2>1 DEF TypeOK, Parameters, Least
      <2>3. due' \in 0..Horizon
            BY <1>0, <1>6, <2>2 DEF StartTimer, TypeOK
      <2> QED BY <1>0, <1>6, <2>3 DEF StartTimer, TypeOK, DelayOK
<1>7. CASE TimerCompletes
      BY <1>0, <1>7 DEF TimerCompletes, TypeOK, DelayOK
<1>8. CASE OnTimer
      BY <1>0, <1>8 DEF OnTimer, Finish, TypeOK, DelayOK, Final
<1>9. CASE Shutdown \/ CancelAll
      BY <1>0, <1>9 DEF Shutdown, CancelAll, TypeOK, DelayOK
<1>10. CASE Tick
      <2>1. clock' \in 0..Horizon
            BY <1>0, <1>10 DEF Tick, TypeOK, Parameters
      <2> QED BY <1>0, <1>10, <2>1 DEF Tick, TypeOK, DelayOK
<1> QED BY <1>1, <1>2, <1>3, <1>4, <1>5, <1>6, <1>7, <1>8, <1>9, <1>10 DEF Next, Step

\* Every step keeps the relation of the attempts, the failures and the policy.
LEMMA CountStep == ASSUME Parameters PROVE IInv /\ [Next]_vars => CountOK' /\ AttemptsBounded'
<1> SUFFICES ASSUME IInv, [Next]_vars PROVE CountOK' /\ AttemptsBounded'
    OBVIOUS
<1> USE DEF settings, policies
<1>0. CountOK /\ AttemptsBounded /\ PlaceOK
      BY DEF IInv
<1>t. attempts \in Nat /\ failure_count \in Nat /\ MaximumFailures \in Nat
      BY DEF IInv, TypeOK, Parameters
<1>1. CASE at' = at /\ UNCHANGED <<policy, failure_count, attempts, final>>
      BY <1>0, <1>1 DEF CountOK, AttemptsBounded
<1>2. CASE Start
      BY <1>0, <1>2, <1>t DEF Start, CountOK, AttemptsBounded
<1>3. CASE StartIteration
      <2>1. attempts' <= attempts + 1 /\ (at' = "on_completion" => attempts' = attempts) /\ attempts' \in Nat
            BY <1>3, <1>t DEF StartIteration, Least
      <2>2. at = "start_rpc" /\ at' \in {"rpc", "on_completion"} /\ UNCHANGED <<policy, failure_count, final>>
            BY <1>3 DEF StartIteration
      <2>3. policy = "count" => attempts <= failure_count /\ failure_count <= MaximumFailures
            BY <1>0, <1>t, <2>2 DEF CountOK
      <2>4. policy = "count" => attempts' <= failure_count' + 1 /\ attempts' <= MaximumFailures + 1
            BY <1>t, <2>1, <2>2, <2>3
      <2> QED BY <1>0, <2>2, <2>3, <2>4 DEF CountOK, AttemptsBounded
<1>4. CASE RpcCompletes
      BY <1>0, <1>4, <1>t DEF RpcCompletes, CountOK, AttemptsBounded
<1>5. CASE OnCompletion
      <2>0. UNCHANGED <<policy, attempts>> /\ at = "on_completion"
            BY <1>5 DEF OnCompletion
      <2>c. policy = "count" => attempts <= failure_count + 1 /\ failure_count <= MaximumFailures
            BY <1>0, <2>0 DEF CountOK
      <2>1. CASE at' = "done"
            <3>1. CASE failure_count' = failure_count /\ final' # "retry policy exhausted"
                  BY <1>0, <1>t, <2>0, <2>1, <3>1 DEF CountOK, AttemptsBounded
            <3>2. CASE failure_count' = FailureCount /\ IsExhausted(failure_count')
                  <4>1. policy = "count" => failure_count' = failure_count + 1 /\ failure_count' > MaximumFailures
                        BY <3>2 DEF FailureCount, IsExhausted
                  <4>2. policy = "count" => /\ failure_count' = MaximumFailures + 1
                                            /\ attempts' <= MaximumFailures + 1
                                            /\ attempts' <= failure_count' + 1
                        BY <1>t, <2>0, <2>c, <4>1
                  <4> QED BY <2>0, <2>1, <4>2 DEF CountOK, AttemptsBounded
            <3> QED BY <1>5, <2>1, <3>1, <3>2 DEF OnCompletion, Finish
      <2>2. CASE at' = "start_timer"
            <3>1. failure_count' = FailureCount /\ ~IsExhausted(failure_count') /\ final' = final
                  BY <1>5, <2>2 DEF OnCompletion, Finish
            <3>2. policy = "count" => failure_count' = failure_count + 1 /\ ~(failure_count' > MaximumFailures)
                  BY <3>1 DEF FailureCount, IsExhausted
            <3>3. policy = "count" => /\ failure_count' <= MaximumFailures
                                      /\ attempts' <= MaximumFailures + 1
                                      /\ attempts' <= failure_count' + 0
                  BY <1>t, <2>0, <2>c, <3>2
            <3>4. final' # "retry policy exhausted"
                  BY <1>0, <2>0, <3>1 DEF PlaceOK
            <3> QED BY <2>0, <2>2, <3>3, <3>4 DEF CountOK, AttemptsBounded
      <2> QED BY <1>5, <2>1, <2>2 DEF OnCompletion, Finish
<1>6. CASE StartTimer \/ TimerCompletes
      BY <1>0, <1>6, <1>t DEF StartTimer, TimerCompletes, CountOK, AttemptsBounded
<1>7. CASE OnTimer
      <2>1. /\ UNCHANGED <<policy, failure_count, attempts>> /\ at = "on_timer" /\ at' \in {"start_rpc", "done"}
            /\ final' \in {final, "timer error"} /\ final # "retry policy exhausted"
            BY <1>0, <1>7 DEF OnTimer, Finish, PlaceOK
      <2>2. policy = "count" => attempts <= failure_count + 0 /\ failure_count <= MaximumFailures
            BY <1>0, <2>1 DEF CountOK
      <2>3. policy = "count" => /\ attempts <= failure_count + 1
                                /\ attempts <= MaximumFailures + 1
            BY <1>t, <2>2
      <2> QED BY <2>1, <2>2, <2>3 DEF CountOK, AttemptsBounded
<1> QED BY <1>1, <1>2, <1>3, <1>4, <1>5, <1>6, <1>7 DEF Next, Step, vars, Shutdown, CancelAll, Tick

\* Every step keeps what the places say, and the verdict honest.
LEMMA PlaceStep == ASSUME Parameters PROVE IInv /\ [Next]_vars => PlaceOK' /\ FinalIsHonest'
<1> SUFFICES ASSUME IInv, [Next]_vars PROVE PlaceOK' /\ FinalIsHonest'
    OBVIOUS
<1> USE DEF settings, policies
<1>0. PlaceOK /\ FinalIsHonest
      BY DEF IInv
<1>t. /\ attempts \in Nat /\ clock \in Nat /\ due \in Nat /\ MaximumDuration \in Nat
      /\ final \in Final \cup {"none"} /\ policy \in {"count", "time"}
      BY DEF IInv, TypeOK, Parameters
<1>1. CASE UNCHANGED vars
      BY <1>0, <1>1 DEF vars, PlaceOK, FinalIsHonest
<1>2. CASE Start
      BY <1>0, <1>2 DEF Start, PlaceOK, FinalIsHonest
<1>3. CASE StartIteration
      BY <1>0, <1>3 DEF StartIteration, PlaceOK, FinalIsHonest, RpcStatus
<1>4. CASE RpcCompletes
      BY <1>0, <1>4 DEF RpcCompletes, PlaceOK, FinalIsHonest
<1>5. CASE OnCompletion
      <2>0. UNCHANGED <<policy, result, clock>> /\ at = "on_completion" /\ final = "none"
            BY <1>0, <1>5, <1>t DEF OnCompletion, PlaceOK
      <2>1. CASE at' = "start_timer"
            BY <1>0, <1>5, <2>0, <2>1 DEF OnCompletion, Finish, PlaceOK, FinalIsHonest
      <2>2. CASE at' = "done"
            <3>1. final' \in {"value", "non-idempotent operation failed", "permanent failure",
                              "retry policy exhausted"}
                  BY <1>5, <2>2 DEF OnCompletion, Finish
            <3>2. final' = "value" => result = "ok"
                  BY <1>5, <2>2 DEF OnCompletion, Finish
            <3>3. final' = "retry policy exhausted" /\ policy = "time" => clock >= MaximumDuration
                  BY <1>5, <2>2 DEF OnCompletion, Finish, IsExhausted
            <3> QED BY <2>0, <2>2, <3>1, <3>2, <3>3 DEF PlaceOK, FinalIsHonest
      <2> QED BY <1>5, <2>1, <2>2 DEF OnCompletion, Finish
<1>6. CASE StartTimer
      BY <1>0, <1>6 DEF StartTimer, PlaceOK, FinalIsHonest
<1>7. CASE TimerCompletes
      BY <1>0, <1>7 DEF TimerCompletes, PlaceOK, FinalIsHonest
<1>8. CASE OnTimer
      BY <1>0, <1>8, <1>t DEF OnTimer, Finish, PlaceOK, FinalIsHonest
<1>9. CASE Shutdown \/ CancelAll
      BY <1>0, <1>9 DEF Shutdown, CancelAll, PlaceOK, FinalIsHonest
<1>10. CASE Tick
      <2>1. /\ clock >= due => clock' >= due'
            /\ clock >= MaximumDuration => clock' >= MaximumDuration
            BY <1>10, <1>t DEF Tick
      <2>2. UNCHANGED <<policy, shutdown, at, result, interrupted, final, attempts>>
            BY <1>10 DEF Tick
      <2> QED BY <1>0, <2>1, <2>2 DEF PlaceOK, FinalIsHonest
<1> QED BY <1>1, <1>2, <1>3, <1>4, <1>5, <1>6, <1>7, <1>8, <1>9, <1>10 DEF Next, Step

\* The inductive invariant holds for every policy, whatever the RPCs return and
\* whenever the queue is shut down or cancelled.
THEOREM Invariant == ASSUME Parameters PROVE Spec => []IInv
<1>1. Init => IInv
      BY InitInv
<1>2. IInv /\ [Next]_vars => IInv'
      BY TypeStep, CountStep, PlaceStep DEF IInv
<1> QED BY <1>1, <1>2, PTL DEF Spec

-----------------------------------------------------------------------------
(* The theorems                                                            *)

\* failure_count_ and current_delay_range_ stay within the bounds that the
\* policies were constructed with.
THEOREM TypeCorrect == ASSUME Parameters PROVE Spec => []TypeOK
<1>1. IInv => TypeOK
      BY DEF IInv
<1> QED BY Invariant, <1>1, PTL

\* LimitedErrorCountRetryPolicy allows one attempt more than it tolerates
\* failures, and does not expire earlier.
THEOREM Bounded == ASSUME Parameters PROVE Spec => []AttemptsBounded
<1>1. IInv => AttemptsBounded
      BY DEF IInv
<1> QED BY Invariant, <1>1, PTL

\* The loop's last message says "timer error", or that the policy expired, only
\* if that is what happened.
THEOREM HonestFinal == ASSUME Parameters PROVE Spec => []FinalIsHonest
<1>1. IInv => FinalIsHonest
      BY DEF IInv
<1> QED BY Invariant, <1>1, PTL

\* OnCompletion() starts a timer only for a retryable failure of an idempotent
\* request under a policy that has not expired, with a delay in the range of the
\* backoff policy, and StartIteration() repeats an RPC only after a timer that
\* ran to its end.
THEOREM Justified == ASSUME Parameters PROVE Spec => RetriesAreJustified
<1> DEFINE Wait == at' = "start_timer" /\ at # at' =>
                /\ is_idempotent
                /\ result \in {"transient", "cancelled"} /\ ~IsPermanentFailure(result)
                /\ policy = "count" => failure_count' <= MaximumFailures
                /\ policy = "time" => clock < MaximumDuration
                /\ delay' >= Least(2 * InitialDelay, MaximumDelay) \div 2
                /\ delay' <= IF delay = 0 THEN Greatest(2 * InitialDelay, MaximumDelay) ELSE MaximumDelay
           Again == at' = "rpc" /\ at # at' /\ attempts > 0 => result = "fired" /\ clock >= due
<1>1. IInv /\ [Next]_vars => [Wait /\ Again]_vars
      <2> SUFFICES ASSUME IInv, Next PROVE Wait /\ Again
          OBVIOUS
      <2> USE DEF settings, policies
      <2>0. TypeOK /\ PlaceOK /\ DelayOK
            BY DEF IInv
      <2>1. Wait
            <3> SUFFICES ASSUME at' = "start_timer", at # at' PROVE Wait
                OBVIOUS
            <3>1. OnCompletion
                  BY DEF Next, Step, Start, StartIteration, RpcCompletes, StartTimer, TimerCompletes,
                     OnTimer, Finish, Shutdown, CancelAll, Tick
            <3>2. /\ is_idempotent /\ result # "ok" /\ ~IsPermanentFailure(result)
                  /\ ~IsExhausted(failure_count') /\ failure_count' = FailureCount /\ Backoff
                  BY <3>1 DEF OnCompletion, Finish
            <3>3. result \in {"transient", "cancelled"}
                  BY <2>0, <3>1, <3>2 DEF OnCompletion, PlaceOK, RpcStatus, IsPermanentFailure
            <3>4. /\ policy = "count" => failure_count' <= MaximumFailures
                  /\ policy = "time" => clock < MaximumDuration
                  BY <2>0, <3>2 DEF IsExhausted, FailureCount, TypeOK, Parameters
            <3>5. /\ delay' >= Least(2 * InitialDelay, MaximumDelay) \div 2
                  /\ delay' <= IF delay = 0 THEN Greatest(2 * InitialDelay, MaximumDelay) ELSE MaximumDelay
                  BY <2>0, <3>2 DEF Backoff, DelayOK, TypeOK, Parameters, Least, Greatest
            <3> QED BY <3>2, <3>3, <3>4, <3>5
      <2>2. Again
            <3> SUFFICES ASSUME at' = "rpc", at # at', attempts > 0 PROVE result = "fired" /\ clock >= due
                OBVIOUS
            <3>1. at = "start_rpc"
                  BY DEF Next, Step, Start, StartIteration, RpcCompletes, OnCompletion, StartTimer,
                     TimerCompletes, OnTimer, Finish, Shutdown, CancelAll, Tick
            <3> QED BY <2>0, <3>1 DEF PlaceOK
      <2> QED BY <2>1, <2>2
<1> QED BY Invariant, <1>1, PTL DEF Spec, RetriesAreJustified
=============================================================================
