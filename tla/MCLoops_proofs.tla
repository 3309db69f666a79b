--------------------------- MODULE MCLoops_proofs ---------------------------
(***************************************************************************)
(* Proofs of the safety properties of the three loops.  Those of the       *)
(* stream are proved here, for streams of any length.  The retry loop and  *)
(* the range are shown to implement their own specifications, so that the  *)
(* theorems of RetryAsyncUnaryRpc_proofs and PaginationRange_proofs hold   *)
(* for them, for all parameters of the policies and all collections.       *)
(***************************************************************************)
EXTENDS MCLoops, TLAPS

-----------------------------------------------------------------------------
(* The stream                                                              *)

USE MaxMessagesAssumption

\* The initial state satisfies the inductive invariant.
LEMMA InitInv == Init => IInv
<1> SUFFICES ASSUME Init PROVE IInv
    OBVIOUS
<1>1. TypeOK
      <2>1. received \in 0..sent
            BY DEF Init
      <2>2. delivered \in Seq(1..MaxMessages) /\ finished \in Seq({"status", "cancelled"})
            BY DEF Init
      <2> QED BY <2>1, <2>2 DEF Init, TypeOK, Kind
<1>2. PlaceOK
      BY DEF Init, PlaceOK
<1>3. FinishedOK
      BY DEF Init, FinishedOK
<1>4. StatusIsHonest
      BY DEF Init, StatusIsHonest
<1> QED BY <1>1, <1>2, <1>3, <1>4 DEF IInv

\* Every step keeps the variables in their types.
LEMMA TypeStep == IInv /\ [Next]_vars => TypeOK'
<1> SUFFICES ASSUME IInv, [Next]_vars PROVE TypeOK'
    OBVIOUS
<1> USE DEF grpc, history
<1>0. TypeOK /\ PlaceOK
      BY DEF IInv
<1>1. CASE UNCHANGED vars
      BY <1>0, <1>1 DEF vars, TypeOK
<1>2. CASE Start
      BY <1>0, <1>2 DEF Start, Call, TypeOK, Kind
<1>3. CASE StartOperation
      BY <1>0, <1>3 DEF StartOperation, TypeOK
<1>4. CASE Complete
      <2>1. received' \in 0..sent'
            BY <1>0, <1>4 DEF Complete, TypeOK
      <2>2. ended' \in BOOLEAN /\ ok' \in BOOLEAN
            BY <1>0, <1>4 DEF Complete, TypeOK
      <2> QED BY <1>0, <1>4, <2>1, <2>2 DEF Complete, TypeOK
<1>5. CASE OnStart \/ OnDiscard
      BY <1>0, <1>5 DEF OnStart, OnDiscard, Call, TypeOK, Kind
<1>6. CASE OnRead
      <2>1. ASSUME ok PROVE received \in 1..MaxMessages
            BY <1>0, <1>6, <2>1 DEF OnRead, TypeOK, PlaceOK
      <2>2. delivered' \in Seq(1..MaxMessages)
            <3>1. CASE ~ok
                  BY <1>0, <1>6, <3>1 DEF OnRead, TypeOK
            <3>2. CASE ok
                  <4>1. delivered \in Seq(1..MaxMessages) /\ received \in 1..MaxMessages
                        BY <1>0, <2>1, <3>2 DEF TypeOK
                  <4>2. delivered' = Append(delivered, received)
                        BY <1>6, <3>2 DEF OnRead
                  <4> QED BY <4>1, <4>2
            <3> QED BY <3>1, <3>2
      <2> QED BY <1>0, <1>6, <2>2 DEF OnRead, Call, TypeOK, Kind
<1>7. CASE OnFinish
      <2>1. finished' \in Seq({"status", "cancelled"})
            BY <1>0, <1>7 DEF OnFinish, TypeOK
      <2> QED BY <1>0, <1>7, <2>1 DEF OnFinish, TypeOK
<1>8. CASE ReadReturns \/ NoAnswer
      BY <1>0, <1>8 DEF ReadReturns, NoAnswer, TypeOK
<1>9. ASSUME NEW continue \in BOOLEAN, Answer(continue) PROVE TypeOK'
      BY <1>0, <1>9 DEF Answer, Call, TypeOK, Kind
<1>10. CASE Cancel \/ Shutdown
      BY <1>0, <1>10 DEF Cancel, Shutdown, TypeOK
<1> QED BY <1>1, <1>2, <1>3, <1>4, <1>5, <1>6, <1>7, <1>8, <1>9, <1>10 DEF Next, Step

\* Every step keeps the inductive invariant.
LEMMA InvStep == IInv /\ [Next]_vars => IInv'
<1> SUFFICES ASSUME IInv, [Next]_vars PROVE IInv'
    OBVIOUS
<1> USE DEF grpc, history
<1>0. TypeOK /\ PlaceOK /\ FinishedOK /\ StatusIsHonest
      BY DEF IInv
<1>t. TypeOK'
      BY TypeStep
<1>1. PlaceOK'
      <2> USE <1>0 DEF PlaceOK
      <2>1. CASE UNCHANGED vars
            BY <2>1 DEF vars
      <2>2. CASE Start
            BY <2>2 DEF Start, Call, TypeOK
      <2>10. CASE StartOperation
            <3>1. CASE shutdown
                  BY <2>10, <3>1 DEF StartOperation, TypeOK
            <3>2. CASE ~shutdown
                  BY <2>10, <3>2 DEF StartOperation, TypeOK
            <3> QED BY <3>1, <3>2
      <2>3. CASE Complete
            <3>0. at = "pending" /\ reader /\ reader' = reader /\ kind' = kind /\ at' = "notify"
                  /\ stopped' = stopped /\ received \in Nat
                  BY <2>3 DEF Complete, TypeOK
            <3>1. CASE kind = "start"
                  <4>1. ok' \/ ended'
                        BY <2>3, <3>1 DEF Complete
                  <4>2. ~stopped'
                        BY <3>0, <3>1
                  <4> QED BY <3>0, <3>1, <4>1, <4>2
            <3>2. CASE kind \in {"read", "discard"}
                  <4>1. CASE ok'
                        BY <2>3, <3>0, <3>2, <4>1 DEF Complete
                  <4>2. CASE ~ok'
                        BY <2>3, <3>0, <3>2, <4>2 DEF Complete
                  <4> QED BY <4>1, <4>2
            <3>3. CASE kind = "finish"
                  BY <2>3, <3>0, <3>3 DEF Complete
            <3> QED BY <3>1, <3>2, <3>3 DEF TypeOK, Kind
      <2>4. CASE OnStart \/ OnDiscard
            BY <2>4 DEF OnStart, OnDiscard, Call, TypeOK
      <2>5. CASE OnRead
            BY <2>5 DEF OnRead, Call, TypeOK
      <2>6. CASE OnFinish
            BY <2>6 DEF OnFinish
      <2>7. CASE ReadReturns \/ NoAnswer
            BY <2>7 DEF ReadReturns, NoAnswer
      <2>8. ASSUME NEW continue \in BOOLEAN, Answer(continue) PROVE PlaceOK'
            BY <2>8 DEF Answer, Call
      <2>9. CASE Cancel \/ Shutdown
            BY <2>9 DEF Cancel, Shutdown
      <2> QED BY <2>1, <2>2, <2>3, <2>4, <2>5, <2>6, <2>7, <2>8, <2>9, <2>10 DEF Next, Step
<1>2. FinishedOK' /\ StatusIsHonest'
      <2>1. CASE OnFinish
            <3>1. finished = <<>>
                  BY <1>0, <2>1 DEF OnFinish, FinishedOK
            <3>2. finished' = <<IF ok THEN "status" ELSE "cancelled">>
                  BY <2>1, <3>1 DEF OnFinish
            <3>3. finished' # <<>> /\ at' = "done"
                  BY <2>1, <3>2 DEF OnFinish
            <3>4. IF ok THEN ended' ELSE shutdown'
                  BY <1>0, <2>1 DEF OnFinish, PlaceOK
            <3> QED BY <3>2, <3>3, <3>4 DEF FinishedOK, StatusIsHonest
      <2>2. CASE ~OnFinish
            <3>1. finished' = finished /\ (shutdown => shutdown') /\ (ended => ended' \/ at = "pending")
                  BY <1>0, <2>2 DEF Next, Step, vars, Start, StartOperation, Complete, OnStart, OnRead,
                     OnDiscard, ReadReturns, Answer, NoAnswer, Cancel, Shutdown, Call
            <3>2. at = "done" <=> at' = "done"
                  BY <1>0, <2>2 DEF Next, Step, vars, Start, StartOperation, Complete, OnStart, OnRead,
                     OnDiscard, ReadReturns, Answer, NoAnswer, Cancel, Shutdown, Call
            <3> QED BY <1>0, <3>1, <3>2 DEF FinishedOK, StatusIsHonest, TypeOK
      <2> QED BY <2>1, <2>2
<1> QED BY <1>t, <1>1, <1>2 DEF IInv

\* The inductive invariant holds for every stream, handler and order of
\* Shutdown(), Cancel() and completions.
THEOREM Invariant == Spec => []IInv
<1>1. Init => IInv
      BY InitInv
<1>2. IInv /\ [Next]_vars => IInv'
      BY InvStep
<1> QED BY <1>1, <1>2, PTL DEF Spec

\* The types of the variables of the stream, as declared in the class and in
\* the adapters.
THEOREM TypeCorrect == Spec => []TypeOK
<1>1. IInv => TypeOK
      BY DEF IInv
<1> QED BY Invariant, <1>1, PTL

\* Read() and Finish() never dereference a null reader_, however Shutdown()
\* races Start() and the callbacks.
THEOREM ReaderSet == Spec => []ReaderNotNull
<1>1. IInv => ReaderNotNull
      BY DEF IInv, PlaceOK, ReaderNotNull
<1> QED BY Invariant, <1>1, PTL

\* Finish() reaches gRPC only after StartCall() or a Read() failed.
THEOREM Drained == Spec => []FinishAfterDrained
<1>1. IInv => FinishAfterDrained
      BY DEF IInv, PlaceOK, FinishAfterDrained
<1> QED BY Invariant, <1>1, PTL

\* on_finish_ reports "call cancelled" only from a queue that was shut down, and
\* a status of gRPC only from a stream that has ended.
THEOREM HonestStatus == Spec => []StatusIsHonest
<1>1. IInv => StatusIsHonest
      BY DEF IInv
<1> QED BY Invariant, <1>1, PTL

\* on_read_ is never called once the user answered false.
THEOREM Stops == Spec => NoReadAfterStop
<1>1. IInv /\ [Next]_vars => [stopped => UNCHANGED delivered]_vars
      <2> SUFFICES ASSUME IInv, Next, stopped PROVE UNCHANGED delivered
          OBVIOUS
      <2>1. at = "notify" => kind # "read"
            BY DEF IInv, PlaceOK
      <2> QED BY <2>1 DEF Next, Step, Start, StartOperation, Complete, OnStart, OnRead, OnDiscard,
                 OnFinish, ReadReturns, Answer, NoAnswer, Cancel, Shutdown, grpc, history
<1> QED BY Invariant, <1>1, PTL DEF Spec, NoReadAfterStop

\* on_finish_ is called at most once, and nothing is called after it.
THEOREM FinishOnce == Spec => FinishIsLast
<1>1. IInv /\ [Next]_vars => [finished # <<>> => UNCHANGED <<at, delivered, finished>>]_vars
      <2> SUFFICES ASSUME IInv, Next, finished # <<>> PROVE UNCHANGED <<at, delivered, finished>>
          OBVIOUS
      <2>1. at = "done"
            BY DEF IInv, FinishedOK
      <2> QED BY <2>1 DEF Next, Step, Start, StartOperation, Complete, OnStart, OnRead, OnDiscard,
                 OnFinish, ReadReturns, Answer, NoAnswer, Cancel, Shutdown, grpc, history
<1> QED BY Invariant, <1>1, PTL DEF Spec, FinishIsLast
\* Every step keeps the count of messages received and delivered.
LEMMA DeliveryStep == IInv /\ DeliveryOK /\ [Next]_vars => DeliveryOK'
<1> SUFFICES ASSUME IInv, DeliveryOK, [Next]_vars PROVE DeliveryOK'
    OBVIOUS
<1> USE DEF grpc, history
<1>0. TypeOK /\ PlaceOK
      BY DEF IInv
<1>t. Len(delivered) \in Nat /\ received \in Nat /\ stopped \in BOOLEAN /\ ok \in BOOLEAN
      BY <1>0 DEF TypeOK
<1>1. CASE OnRead /\ ok
      <2>1. delivered' = Append(delivered, received) /\ received' = received /\ stopped' = stopped
            /\ kind' = "read" /\ at' = "on_read"
            BY <1>1 DEF OnRead
      <2>2. ~stopped /\ received = Len(delivered) + 1
            BY <1>0, <1>1, <1>t DEF OnRead, PlaceOK, DeliveryOK
      <2>3. Len(delivered') = Len(delivered) + 1
            BY <1>0, <2>1 DEF TypeOK
      <2>4. delivered' = [i \in 1..Len(delivered') |-> i]
            <3> DEFINE n == Len(delivered)
            <3>1. delivered = [i \in 1..n |-> i] /\ n \in Nat
                  BY <1>t DEF DeliveryOK
            <3>2. delivered \in Seq(Nat) /\ received \in Nat
                  BY <1>0 DEF TypeOK
            <3>3. delivered' \in Seq(Nat)
                  BY <2>1, <3>2
            <3>4. \A i \in 1..n : delivered'[i] = i
                  BY <2>1, <3>1, <3>2
            <3>5. delivered'[n + 1] = n + 1
                  BY <2>1, <2>2, <3>2
            <3>6. ASSUME NEW i \in 1..Len(delivered') PROVE delivered'[i] = i
                  BY <2>3, <3>1, <3>4, <3>5
            <3>7. delivered' = [i \in 1..Len(delivered') |-> delivered'[i]]
                  BY <3>3
            <3> QED BY <3>6, <3>7
      <2> QED BY <2>1, <2>2, <2>3, <2>4 DEF DeliveryOK
<1>2. CASE Complete
      <2>1. UNCHANGED <<delivered, stopped, kind>> /\ at = "pending"
            BY <1>2 DEF Complete
      <2>2. ~stopped => received = Len(delivered) /\ kind # "discard"
            BY <1>t, <2>1 DEF DeliveryOK
      <2>3. ~stopped => received' = received + IF at' = "notify" /\ kind' = "read" /\ ok' THEN 1 ELSE 0
            BY <1>2, <1>t, <2>2 DEF Complete
      <2> QED BY <1>t, <2>1, <2>2, <2>3 DEF DeliveryOK
<1>3. CASE ~(OnRead /\ ok) /\ ~Complete
      <2>1. UNCHANGED <<delivered, received>>
            BY <1>3 DEF Next, Step, vars, Start, StartOperation, OnStart, OnRead, OnDiscard, OnFinish,
               ReadReturns, Answer, NoAnswer, Cancel, Shutdown, Call
      <2>2. (stopped => stopped') /\ (kind' = "discard" => kind = "discard" \/ stopped')
            BY <1>3, <1>t DEF Next, Step, vars, Start, StartOperation, OnStart, OnRead, OnDiscard, OnFinish,
               ReadReturns, Answer, NoAnswer, Cancel, Shutdown, Call
      <2>3. at' = "notify" /\ kind' = "read" /\ ok' <=> at = "notify" /\ kind = "read" /\ ok
            BY <1>0, <1>3, <1>t DEF Next, Step, vars, Start, StartOperation, OnStart, OnRead, OnDiscard, OnFinish,
               ReadReturns, Answer, NoAnswer, Cancel, Shutdown, Call
      <2> QED BY <1>t, <2>1, <2>2, <2>3 DEF DeliveryOK
<1> QED BY <1>1, <1>2, <1>3

\* on_read_ gets the messages of the stream in order and each one once, whatever
\* fails, and none that was received is skipped before the user answers false.
THEOREM InOrder == Spec => []DeliveredInOrder
<1>1. Init => DeliveryOK
      BY DEF Init, DeliveryOK
<1>2. IInv /\ DeliveryOK /\ [Next]_vars => DeliveryOK'
      BY DeliveryStep
<1>3. IInv /\ DeliveryOK => DeliveredInOrder
      <2> SUFFICES ASSUME IInv, DeliveryOK PROVE DeliveredInOrder
          OBVIOUS
      <2>1. CASE ~stopped /\ at \in {"call", "pending", "answer", "done"}
            <3>1. received = Len(delivered) + 0
                  BY <2>1 DEF DeliveryOK
            <3>2. Len(delivered) = received
                  BY <3>1 DEF IInv, TypeOK
            <3> QED BY <3>2 DEF DeliveryOK, DeliveredInOrder
      <2> QED BY <2>1 DEF DeliveryOK, DeliveredInOrder
<1> QED BY Invariant, <1>1, <1>2, <1>3, PTL DEF Spec
-----------------------------------------------------------------------------
(* The retry loop and the range, next to a stream: MCLoops implements the  *)
(* specifications of both, whose theorems carry over.                      *)

RetryProofs == INSTANCE RetryAsyncUnaryRpc_proofs WITH at <- place
RangeProofs == INSTANCE PaginationRange_proofs

\* The queue is shut down and stays so: the stream changes what it shares with the
\* retry loop in Shutdown() only.
LEMMA StreamShutdown == Next => UNCHANGED shutdown \/ shutdown' = TRUE
BY Zenon DEF Next, Step, Start, StartOperation, Complete, OnStart, OnRead, OnDiscard, OnFinish, ReadReturns,
       Answer, NoAnswer, Cancel, Shutdown

\* The steps of the retry loop are those that the proofs are about.
LEMMA RetryStep == Retry!Next => RetryProofs!Next
BY Zenon DEF Retry!Next, Retry!Step, Retry!Start, Retry!StartIteration, Retry!RpcCompletes, Retry!OnCompletion,
       Retry!StartTimer, Retry!TimerCompletes, Retry!OnTimer, Retry!Shutdown, Retry!CancelAll, Retry!Tick,
       Retry!Finish, Retry!Backoff, Retry!Scaled, Retry!FailureCount, Retry!IsExhausted,
       Retry!IsPermanentFailure, Retry!Least, Retry!RpcStatus, Retry!settings, Retry!policies,
       RetryProofs!Next, RetryProofs!Step, RetryProofs!Start, RetryProofs!StartIteration,
       RetryProofs!RpcCompletes, RetryProofs!OnCompletion, RetryProofs!StartTimer, RetryProofs!TimerCompletes,
       RetryProofs!OnTimer, RetryProofs!Shutdown, RetryProofs!CancelAll, RetryProofs!Tick,
       RetryProofs!Finish, RetryProofs!Backoff, RetryProofs!Scaled, RetryProofs!FailureCount,
       RetryProofs!IsExhausted, RetryProofs!IsPermanentFailure, RetryProofs!Least, RetryProofs!RpcStatus,
       RetryProofs!settings, RetryProofs!policies

\* The steps of the range are those that the proofs are about.
LEMMA RangeStep == Range!Next => RangeProofs!Next
BY Zenon DEF Range!Next, Range!begin, Range!Increment, Range!GetNext, Range!NextInPage, Range!PastTheEnd,
       Range!LoadFails, Range!Loads, Range!Yield, Range!range,
       RangeProofs!Next, RangeProofs!begin, RangeProofs!Increment, RangeProofs!GetNext, RangeProofs!NextInPage,
       RangeProofs!PastTheEnd, RangeProofs!LoadFails, RangeProofs!Loads, RangeProofs!Yield, RangeProofs!range

\* What MCLoops assumes of its constants is what the proofs need.
LEMMA ParametersHold == RetryProofs!Parameters /\ RangeProofs!Bounds
BY Zenon, ParametersAssumption DEF Retry!Parameters, RetryProofs!Parameters, Range!Bounds, RangeProofs!Bounds

\* shutdown_ stays a Boolean, whichever loop runs.
LEMMA ShutdownStep == shutdown \in BOOLEAN /\ [MCNext]_allVars => (shutdown \in BOOLEAN)'
<1>1. Retry!Next => UNCHANGED shutdown \/ shutdown' = TRUE
      BY Zenon DEF Retry!Next, Retry!Step, Retry!Start, Retry!StartIteration, Retry!RpcCompletes,
         Retry!OnCompletion, Retry!StartTimer, Retry!TimerCompletes, Retry!OnTimer, Retry!Shutdown,
         Retry!CancelAll, Retry!Tick
<1> QED BY Zenon, <1>1, StreamShutdown DEF MCNext, Stream, RetryLoop, Pages, allVars, vars

\* Whichever loop runs, the retry loop takes a step of its own or none; the
\* Shutdown() of a stream is one of them.
LEMMA RetrySimulated ==
    shutdown \in BOOLEAN /\ [MCNext]_allVars => [RetryProofs!Next]_(RetryProofs!vars)
<1> SUFFICES ASSUME shutdown \in BOOLEAN, [MCNext]_allVars PROVE [RetryProofs!Next]_(RetryProofs!vars)
    OBVIOUS
<1>1. ASSUME UNCHANGED <<retry, shutdown>> PROVE UNCHANGED RetryProofs!vars
      BY Zenon, <1>1 DEF retry, RetryProofs!vars, RetryProofs!settings, RetryProofs!policies
<1>2. ASSUME UNCHANGED retry, UNCHANGED shutdown \/ shutdown' = TRUE
      PROVE  [RetryProofs!Next]_(RetryProofs!vars)
      <2>1. CASE shutdown' = shutdown
            BY Zenon, <1>1, <1>2, <2>1
      <2>2. CASE shutdown' # shutdown
            <3>1. ~shutdown /\ shutdown' = TRUE
                  BY Zenon, <1>2, <2>2
            <3> QED BY Zenon, <1>2, <3>1 DEF retry, RetryProofs!Next, RetryProofs!Shutdown,
                       RetryProofs!settings, RetryProofs!policies
      <2> QED BY Zenon, <2>1, <2>2
<1>3. CASE Stream(Next)
      BY Zenon, <1>2, <1>3, StreamShutdown DEF Stream
<1>4. CASE RetryLoop(Retry!Next)
      BY Zenon, <1>4, RetryStep DEF RetryLoop
<1>5. CASE Pages(Range!Next)
      BY Zenon, <1>2, <1>5 DEF Pages, vars
<1>6. CASE UNCHANGED allVars
      BY Zenon, <1>2, <1>6 DEF allVars, vars
<1> QED BY Zenon, <1>3, <1>4, <1>5, <1>6 DEF MCNext

\* The retry loop next to a stream and a range is the one of its module.
THEOREM ImplementsRetry == MCSpec => RetryProofs!Spec
<1>1. MCInit => RetryProofs!Init /\ shutdown \in BOOLEAN
      BY Zenon DEF MCInit, Retry!Init, RetryProofs!Init
<1> QED BY <1>1, ShutdownStep, RetrySimulated, PTL DEF MCSpec, RetryProofs!Spec

\* The range next to a stream and a retry loop is the one of its module.
THEOREM ImplementsRange == MCSpec => RangeProofs!Spec
<1>1. MCInit => RangeProofs!Init
      BY Zenon DEF MCInit, Range!Init, RangeProofs!Init
<1>2. [MCNext]_allVars => [RangeProofs!Next]_(RangeProofs!vars)
      <2>1. UNCHANGED range => UNCHANGED RangeProofs!vars
            BY Zenon DEF range, RangeProofs!vars, RangeProofs!range
      <2> QED BY Zenon, <2>1, RangeStep DEF MCNext, Stream, RetryLoop, Pages, allVars
<1> QED BY <1>1, <1>2, PTL DEF MCSpec, RangeProofs!Spec

\* LimitedErrorCountRetryPolicy allows one attempt more than the failures that it
\* tolerates, and expires at no earlier failure.
THEOREM Bounded == MCSpec => []AttemptsBounded
<1>1. RetryProofs!Spec => []RetryProofs!AttemptsBounded
      BY ParametersHold, RetryProofs!Bounded
<1>2. RetryProofs!AttemptsBounded => AttemptsBounded
      BY Zenon DEF AttemptsBounded, Retry!AttemptsBounded, RetryProofs!AttemptsBounded
<1> QED BY <1>1, <1>2, ImplementsRetry, PTL

\* The retry loop reports a timer error only if the queue was shut down or
\* cancelled, an expired time limit only when it is over, and a value only if the
\* last RPC succeeded.
THEOREM HonestFinal == MCSpec => []FinalIsHonest
<1>1. RetryProofs!Spec => []RetryProofs!FinalIsHonest
      BY ParametersHold, RetryProofs!HonestFinal
<1>2. RetryProofs!FinalIsHonest => FinalIsHonest
      BY Zenon DEF FinalIsHonest, Retry!FinalIsHonest, RetryProofs!FinalIsHonest
<1> QED BY <1>1, <1>2, ImplementsRetry, PTL

\* A retry follows a retryable failure of an idempotent request before the policy
\* expires, and a timer with a delay in the range of the backoff policy that ran to
\* its end.
THEOREM Justified == MCSpec => RetriesAreJustified
<1>1. RetryProofs!Spec => RetryProofs!RetriesAreJustified
      BY ParametersHold, RetryProofs!Justified
<1>2. RetryProofs!RetriesAreJustified => RetriesAreJustified
      BY DEF RetriesAreJustified, Retry!RetriesAreJustified, RetryProofs!RetriesAreJustified,
         Retry!IsPermanentFailure, RetryProofs!IsPermanentFailure, Retry!Least, RetryProofs!Least,
         Retry!Greatest, RetryProofs!Greatest, Retry!vars, RetryProofs!vars,
         Retry!settings, RetryProofs!settings, Retry!policies, RetryProofs!policies
<1> QED BY <1>1, <1>2, ImplementsRetry, PTL

\* The client of a range sees the items in order, none twice and none skipped, and
\* has seen all of them at the end of the last page.
THEOREM RangeInOrder == MCSpec => []SeenInOrder
<1>1. RangeProofs!Spec => []RangeProofs!SeenInOrder
      BY ParametersHold, RangeProofs!InOrder
<1>2. RangeProofs!SeenInOrder => SeenInOrder
      BY Zenon DEF SeenInOrder, Range!SeenInOrder, RangeProofs!SeenInOrder, Range!Items, RangeProofs!Items,
         Range!Precedes, RangeProofs!Precedes
<1> QED BY <1>1, <1>2, ImplementsRange, PTL

\* Every page is requested at most once and in order, with the token of the page
\* before it.
THEOREM LoadedOnce == MCSpec => []PagesLoadedOnce
<1>1. RangeProofs!Spec => []RangeProofs!PagesLoadedOnce
      BY ParametersHold, RangeProofs!LoadedOnce
<1>2. RangeProofs!PagesLoadedOnce => PagesLoadedOnce
      BY Zenon DEF PagesLoadedOnce, Range!PagesLoadedOnce, RangeProofs!PagesLoadedOnce
<1> QED BY <1>1, <1>2, ImplementsRange, PTL
=============================================================================
