----------------------- MODULE CompletionQueue_proofs -----------------------
(***************************************************************************)
(* Proofs of the safety properties of CompletionQueue, for any set of      *)
(* threads and of addresses, from the inductive invariant IInv.            *)
(***************************************************************************)
EXTENDS CompletionQueue, TLAPS

USE NoOpAssumption

\* The initial state satisfies the inductive invariant.
LEMMA InitInv == Init => IInv
<1> SUFFICES ASSUME Init PROVE IInv
    OBVIOUS
<1> USE DEF Init
<1>1. TypeOK
      BY DEF TypeOK, Result, InLoop
<1>2. OwnedByOne
      BY DEF OwnedByOne, Handling
<1>3. NewIsLocal
      BY DEF NewIsLocal, Creating
<1>4. ShutdownOrder /\ ReturnedDrained
      BY DEF ShutdownOrder, ReturnedDrained
<1>5. NotificationCount
      BY DEF NotificationCount, Creating
<1> QED BY <1>1, <1>2, <1>3, <1>4, <1>5 DEF IInv

\* Every step of a thread or of gRPC keeps the variables in their types.
LEMMA TypeStep == TypeOK /\ NewIsLocal /\ OwnedByOne /\ [Next]_vars => TypeOK'
<1> SUFFICES ASSUME TypeOK, NewIsLocal, OwnedByOne, [Next]_vars PROVE TypeOK'
    OBVIOUS
<1> USE DEF TypeOK, Result, InLoop
<1>1. CASE UNCHANGED vars
      BY <1>1 DEF vars, grpc, runner, client, history
<1>2. ASSUME NEW t \in Thread, MakeOperation(t) PROVE TypeOK'
      BY <1>2 DEF MakeOperation, runner
<1>3. ASSUME NEW t \in Thread, Run(t) PROVE TypeOK'
      BY <1>3 DEF Run, grpc, client, history
<1>4. ASSUME NEW t \in Thread, Shutdown(t) PROVE TypeOK'
      BY <1>4 DEF Shutdown, grpc, runner, history
<1>5. ASSUME NEW t \in Thread, CancelAll(t) PROVE TypeOK'
      BY <1>5 DEF CancelAll, grpc, runner, history
<1>6. ASSUME NEW t \in Thread, StartOperation(t) PROVE TypeOK'
      <2>1. new[t] \in Op
            BY <1>6 DEF StartOperation, NewIsLocal
      <2> QED BY <1>6, <2>1 DEF StartOperation, runner, history
<1>7. ASSUME NEW t \in Thread, NotifyRefused(t) PROVE TypeOK'
      <2>1. new[t] \in Op
            BY <1>7 DEF NotifyRefused, NewIsLocal
      <2> QED BY <1>7, <2>1 DEF NotifyRefused, Notify, grpc, runner
<1>8. ASSUME NEW t \in Thread, GetFuture(t) PROVE TypeOK'
      BY <1>8 DEF GetFuture, grpc, runner, history
<1>9. ASSUME NEW t \in Thread, FindOperation(t) PROVE TypeOK'
      BY <1>9 DEF FindOperation, grpc, client, history
<1>10. ASSUME NEW t \in Thread, NotifyEvent(t) PROVE TypeOK'
      <2>1. op[t] \in Op
            BY <1>10 DEF NotifyEvent, OwnedByOne, Handling
      <2> QED BY <1>10, <2>1 DEF NotifyEvent, Notify, grpc, client
<1>11. ASSUME NEW t \in Thread, GotShutdown(t) PROVE TypeOK'
      BY <1>11 DEF GotShutdown, grpc, client, history
<1>12. ASSUME NEW t \in Thread, ShutdownGrpc(t) PROVE TypeOK'
      BY <1>12 DEF ShutdownGrpc, runner, history
<1>13. ASSUME NEW t \in Thread, Cancel(t) PROVE TypeOK'
      BY <1>13 DEF Cancel, runner, history
<1>14. ASSUME NEW t \in Thread, CancelAllReturns(t) PROVE TypeOK'
      BY <1>14 DEF CancelAllReturns, grpc, runner, history
<1>15. ASSUME NEW t \in Thread, ForgetOperation(t) PROVE TypeOK'
      BY <1>15 DEF ForgetOperation, grpc, client, history
<1>16. ASSUME NEW t \in Thread, NEW o \in Op, GotEvent(t, o) PROVE TypeOK'
      BY <1>16 DEF GotEvent, client, history
<1>17. ASSUME NEW o \in Op, Complete(o) PROVE TypeOK'
      BY <1>17 DEF Complete, runner, client, history
<1> QED BY <1>1, <1>2, <1>3, <1>4, <1>5, <1>6, <1>7, <1>8, <1>9, <1>10, <1>11, <1>12, <1>13,
           <1>14, <1>15, <1>16, <1>17 DEF Next, Call, Step

\* Every step keeps the inductive invariant.
LEMMA InvStep == IInv /\ [Next]_vars => IInv'
<1> SUFFICES ASSUME IInv, [Next]_vars PROVE IInv'
    OBVIOUS
<1>0. TypeOK /\ OwnedByOne /\ NewIsLocal /\ ShutdownOrder /\ ReturnedDrained /\ NotificationCount
      BY DEF IInv
<1>1. TypeOK'
      BY <1>0, TypeStep
<1> USE <1>0, <1>1 DEF TypeOK, Result, InLoop
<1>2. CASE UNCHANGED vars
      BY <1>2 DEF vars, grpc, runner, client, history, IInv, OwnedByOne, Handling, NewIsLocal,
                  Creating, ShutdownOrder, ReturnedDrained, NotificationCount
<1>3. ASSUME NEW t \in Thread, MakeOperation(t) PROVE IInv'
      <2> USE <1>3 DEF MakeOperation, InClient, Alive, runner
      <2>1. OwnedByOne'
            BY DEF OwnedByOne, NewIsLocal, Creating, Handling
      <2>2. NewIsLocal'
            BY DEF NewIsLocal, Creating
      <2>3. ShutdownOrder'
            BY DEF ShutdownOrder
      <2>4. ReturnedDrained'
            BY DEF ReturnedDrained, ShutdownOrder
      <2>5. NotificationCount'
            BY DEF NotificationCount, OwnedByOne, NewIsLocal, Creating, Handling
      <2> QED BY <2>1, <2>2, <2>3, <2>4, <2>5 DEF IInv
<1>4. ASSUME NEW t \in Thread, Run(t) PROVE IInv'
      <2> USE <1>4 DEF Run, grpc, client, history
      <2>1. OwnedByOne'
            BY DEF OwnedByOne, NewIsLocal, Creating, Handling
      <2>2. NewIsLocal'
            BY DEF NewIsLocal, Creating
      <2>3. ShutdownOrder'
            BY DEF ShutdownOrder
      <2>4. ReturnedDrained'
            BY DEF ReturnedDrained, ShutdownOrder
      <2>5. NotificationCount'
            BY DEF NotificationCount, OwnedByOne, NewIsLocal, Creating, Handling
      <2> QED BY <2>1, <2>2, <2>3, <2>4, <2>5 DEF IInv
<1>5. ASSUME NEW t \in Thread, Shutdown(t) PROVE IInv'
      <2> USE <1>5 DEF Shutdown, InClient, grpc, runner, history
      <2>1. OwnedByOne'
            BY DEF OwnedByOne, NewIsLocal, Creating, Handling
      <2>2. NewIsLocal'
            BY DEF NewIsLocal, Creating
      <2>3. ShutdownOrder'
            BY DEF ShutdownOrder
      <2>4. ReturnedDrained'
            BY DEF ReturnedDrained, ShutdownOrder
      <2>5. NotificationCount'
            BY DEF NotificationCount, OwnedByOne, NewIsLocal, Creating, Handling
      <2> QED BY <2>1, <2>2, <2>3, <2>4, <2>5 DEF IInv
<1>6. ASSUME NEW t \in Thread, CancelAll(t) PROVE IInv'
      <2> USE <1>6 DEF CancelAll, InClient, grpc, runner, history
      <2>1. OwnedByOne'
            BY DEF OwnedByOne, NewIsLocal, Creating, Handling
      <2>2. NewIsLocal'
            BY DEF NewIsLocal, Creating
      <2>3. ShutdownOrder'
            BY DEF ShutdownOrder
      <2>4. ReturnedDrained'
            BY DEF ReturnedDrained, ShutdownOrder
      <2>5. NotificationCount'
            BY DEF NotificationCount, OwnedByOne, NewIsLocal, Creating, Handling
      <2> QED BY <2>1, <2>2, <2>3, <2>4, <2>5 DEF IInv
<1>7. ASSUME NEW t \in Thread, StartOperation(t) PROVE IInv'
      <2> USE <1>7 DEF StartOperation, runner, history
      <2>1. OwnedByOne'
            BY DEF OwnedByOne, NewIsLocal, Creating, Handling
      <2>2. NewIsLocal'
            BY DEF NewIsLocal, Creating
      <2>3. ShutdownOrder'
            BY DEF ShutdownOrder
      <2>4. ReturnedDrained'
            BY DEF ReturnedDrained, ShutdownOrder
      <2>5. NotificationCount'
            BY DEF NotificationCount, OwnedByOne, NewIsLocal, Creating, Handling
      <2> QED BY <2>1, <2>2, <2>3, <2>4, <2>5 DEF IInv
<1>8. ASSUME NEW t \in Thread, NotifyRefused(t) PROVE IInv'
      <2> USE <1>8 DEF NotifyRefused, Notify, grpc, runner
      <2>1. OwnedByOne'
            BY DEF OwnedByOne, NewIsLocal, Creating, Handling
      <2>2. NewIsLocal'
            BY DEF NewIsLocal, Creating
      <2>3. ShutdownOrder'
            BY DEF ShutdownOrder
      <2>4. ReturnedDrained'
            BY DEF ReturnedDrained, ShutdownOrder
      <2>5. NotificationCount'
            BY DEF NotificationCount, OwnedByOne, NewIsLocal, Creating, Handling
      <2> QED BY <2>1, <2>2, <2>3, <2>4, <2>5 DEF IInv
<1>9. ASSUME NEW t \in Thread, GetFuture(t) PROVE IInv'
      <2> USE <1>9 DEF GetFuture, grpc, runner, history
      <2>1. OwnedByOne'
            BY DEF OwnedByOne, NewIsLocal, Creating, Handling
      <2>2. NewIsLocal'
            BY DEF NewIsLocal, Creating
      <2>3. ShutdownOrder'
            BY DEF ShutdownOrder
      <2>4. ReturnedDrained'
            BY DEF ReturnedDrained, ShutdownOrder
      <2>5. NotificationCount'
            BY DEF NotificationCount, OwnedByOne, NewIsLocal, Creating, Handling
      <2> QED BY <2>1, <2>2, <2>3, <2>4, <2>5 DEF IInv
<1>10. ASSUME NEW t \in Thread, FindOperation(t) PROVE IInv'
      <2> USE <1>10 DEF FindOperation, grpc, client, history
      <2>1. OwnedByOne'
            BY DEF OwnedByOne, NewIsLocal, Creating, Handling
      <2>2. NewIsLocal'
            BY DEF NewIsLocal, Creating
      <2>3. ShutdownOrder'
            BY DEF ShutdownOrder
      <2>4. ReturnedDrained'
            BY DEF ReturnedDrained, ShutdownOrder
      <2>5. NotificationCount'
            BY DEF NotificationCount, OwnedByOne, NewIsLocal, Creating, Handling
      <2> QED BY <2>1, <2>2, <2>3, <2>4, <2>5 DEF IInv
<1>11. ASSUME NEW t \in Thread, NotifyEvent(t) PROVE IInv'
      <2> USE <1>11 DEF NotifyEvent, Notify, grpc, client
      <2>1. OwnedByOne'
            BY DEF OwnedByOne, NewIsLocal, Creating, Handling
      <2>2. NewIsLocal'
            BY DEF NewIsLocal, Creating
      <2>3. ShutdownOrder'
            BY DEF ShutdownOrder
      <2>4. ReturnedDrained'
            BY DEF ReturnedDrained, ShutdownOrder
      <2>5. NotificationCount'
            BY DEF NotificationCount, OwnedByOne, NewIsLocal, Creating, Handling
      <2> QED BY <2>1, <2>2, <2>3, <2>4, <2>5 DEF IInv
<1>12. ASSUME NEW t \in Thread, GotShutdown(t) PROVE IInv'
      <2> USE <1>12 DEF GotShutdown, grpc, client, history
      <2>1. OwnedByOne'
            BY DEF OwnedByOne, NewIsLocal, Creating, Handling
      <2>2. NewIsLocal'
            BY DEF NewIsLocal, Creating
      <2>3. ShutdownOrder'
            BY DEF ShutdownOrder
      <2>4. ReturnedDrained'
            BY DEF ReturnedDrained, ShutdownOrder
      <2>5. NotificationCount'
            BY DEF NotificationCount, OwnedByOne, NewIsLocal, Creating, Handling
      <2> QED BY <2>1, <2>2, <2>3, <2>4, <2>5 DEF IInv
<1>13. ASSUME NEW t \in Thread, ShutdownGrpc(t) PROVE IInv'
      <2> USE <1>13 DEF ShutdownGrpc, runner, history
      <2>1. OwnedByOne'
            BY DEF OwnedByOne, NewIsLocal, Creating, Handling
      <2>2. NewIsLocal'
            BY DEF NewIsLocal, Creating
      <2>3. ShutdownOrder'
            BY DEF ShutdownOrder
      <2>4. ReturnedDrained'
            BY DEF ReturnedDrained, ShutdownOrder
      <2>5. NotificationCount'
            BY DEF NotificationCount, OwnedByOne, NewIsLocal, Creating, Handling
      <2> QED BY <2>1, <2>2, <2>3, <2>4, <2>5 DEF IInv
<1>14. ASSUME NEW t \in Thread, Cancel(t) PROVE IInv'
      <2> USE <1>14 DEF Cancel, runner, history
      <2>1. OwnedByOne'
            BY DEF OwnedByOne, NewIsLocal, Creating, Handling
      <2>2. NewIsLocal'
            BY DEF NewIsLocal, Creating
      <2>3. ShutdownOrder'
            BY DEF ShutdownOrder
      <2>4. ReturnedDrained'
            BY DEF ReturnedDrained, ShutdownOrder
      <2>5. NotificationCount'
            BY DEF NotificationCount, OwnedByOne, NewIsLocal, Creating, Handling
      <2> QED BY <2>1, <2>2, <2>3, <2>4, <2>5 DEF IInv
<1>15. ASSUME NEW t \in Thread, CancelAllReturns(t) PROVE IInv'
      <2> USE <1>15 DEF CancelAllReturns, grpc, runner, history
      <2>1. OwnedByOne'
            BY DEF OwnedByOne, NewIsLocal, Creating, Handling
      <2>2. NewIsLocal'
            BY DEF NewIsLocal, Creating
      <2>3. ShutdownOrder'
            BY DEF ShutdownOrder
      <2>4. ReturnedDrained'
            BY DEF ReturnedDrained, ShutdownOrder
      <2>5. NotificationCount'
            BY DEF NotificationCount, OwnedByOne, NewIsLocal, Creating, Handling
      <2> QED BY <2>1, <2>2, <2>3, <2>4, <2>5 DEF IInv
<1>16. ASSUME NEW t \in Thread, ForgetOperation(t) PROVE IInv'
      <2> USE <1>16 DEF ForgetOperation, grpc, client, history
      <2>1. OwnedByOne'
            BY DEF OwnedByOne, NewIsLocal, Creating, Handling
      <2>2. NewIsLocal'
            BY DEF NewIsLocal, Creating
      <2>3. ShutdownOrder'
            BY DEF ShutdownOrder
      <2>4. ReturnedDrained'
            BY DEF ReturnedDrained, ShutdownOrder
      <2>5. NotificationCount'
            BY DEF NotificationCount, OwnedByOne, NewIsLocal, Creating, Handling
      <2> QED BY <2>1, <2>2, <2>3, <2>4, <2>5 DEF IInv
<1>17. ASSUME NEW t \in Thread, NEW o \in Op, GotEvent(t, o) PROVE IInv'
      <2> USE <1>17 DEF GotEvent, client, history
      <2>1. OwnedByOne'
            BY DEF OwnedByOne, NewIsLocal, Creating, Handling
      <2>2. NewIsLocal'
            BY DEF NewIsLocal, Creating
      <2>3. ShutdownOrder'
            BY DEF ShutdownOrder
      <2>4. ReturnedDrained'
            BY DEF ReturnedDrained, ShutdownOrder
      <2>5. NotificationCount'
            BY DEF NotificationCount, OwnedByOne, NewIsLocal, Creating, Handling
      <2> QED BY <2>1, <2>2, <2>3, <2>4, <2>5 DEF IInv
<1>18. ASSUME NEW o \in Op, Complete(o) PROVE IInv'
      <2> USE <1>18 DEF Complete, runner, client, history
      <2>1. OwnedByOne'
            BY DEF OwnedByOne, NewIsLocal, Creating, Handling
      <2>2. NewIsLocal'
            BY DEF NewIsLocal, Creating
      <2>3. ShutdownOrder'
            BY DEF ShutdownOrder
      <2>4. ReturnedDrained'
            BY DEF ReturnedDrained, ShutdownOrder
      <2>5. NotificationCount'
            BY DEF NotificationCount, OwnedByOne, NewIsLocal, Creating, Handling
      <2> QED BY <2>1, <2>2, <2>3, <2>4, <2>5 DEF IInv
<1> QED BY <1>2, <1>3, <1>4, <1>5, <1>6, <1>7, <1>8, <1>9, <1>10,
           <1>11, <1>12, <1>13, <1>14, <1>15, <1>16, <1>17, <1>18 DEF Next, Call, Step

\* The inductive invariant holds in every reachable state.
THEOREM Invariant == Spec => []IInv
<1>1. Init => IInv
      BY InitInv
<1>2. IInv /\ [Next]_vars => IInv'
      BY InvStep
<1> QED BY <1>1, <1>2, PTL DEF Spec

-----------------------------------------------------------------------------
\* The variables of the completion queue, its threads and gRPC keep their types.
THEOREM TypeCorrect == Spec => []TypeOK
<1>1. IInv => TypeOK
      BY DEF IInv
<1> QED BY <1>1, Invariant, PTL

\* A registered operation is in the hands of exactly one of gRPC, its event
\* queue and one thread in Run(): the run-time assertions of StartOperation(),
\* FindOperation() and ForgetOperation() never fire.
THEOREM Ownership == Spec => []OwnedByOne
<1>1. IInv => OwnedByOne
      BY DEF IInv
<1> QED BY <1>1, Invariant, PTL

\* Every operation is notified once and only once before it is destroyed, also
\* when StartOperation() races with Shutdown(): no promise of a timer or RPC is
\* abandoned or satisfied twice.
THEOREM ExactlyOnce == Spec => []NotifiedExactlyOnce
<1>1. ASSUME IInv PROVE NotifiedExactlyOnce
      <2> USE <1>1 DEF IInv, TypeOK
      <2> SUFFICES ASSUME NEW o \in used
                   PROVE  notifications[o] <= 1 /\ (~Alive(o) => notifications[o] = 1)
          BY DEF NotifiedExactlyOnce
      <2>1. CASE o \in pending
            BY <2>1 DEF OwnedByOne, NotificationCount, Handling, Alive
      <2>2. CASE \E t \in Thread : Creating(t) /\ new[t] = o
            BY <2>2 DEF NotificationCount, Alive
      <2>3. CASE o \notin pending /\ \A t \in Thread : Creating(t) => new[t] # o
            BY <2>3 DEF NotificationCount
      <2> QED BY <2>1, <2>2, <2>3
<1> QED BY <1>1, Invariant, PTL

\* When one Run() has returned, whatever is still registered is being notified
\* by another thread in Run().
THEOREM Drained == Spec => []ReturnsOnlyWhenDrained
<1>1. IInv => ReturnsOnlyWhenDrained
      BY DEF IInv, TypeOK, OwnedByOne, ReturnedDrained, ReturnsOnlyWhenDrained
<1> QED BY <1>1, Invariant, PTL

\* StartOperation() never starts an operation on a gRPC queue that was shut
\* down, although cq_.Shutdown() is called without the lock.
THEOREM NoLateStart == Spec => NoStartAfterShutdown
<1>1. IInv /\ [Next]_vars => [cq_shutdown => outstanding' \subseteq outstanding]_vars
      <2> SUFFICES ASSUME IInv, Next, cq_shutdown PROVE outstanding' \subseteq outstanding
          OBVIOUS
      <2>1. shutdown
            BY DEF IInv, ShutdownOrder
      <2>2. CASE \E t \in Thread : Call(t)
            BY <2>2 DEF Call, MakeOperation, Run, Shutdown, CancelAll, grpc
      <2>3. CASE \E t \in Thread : Step(t)
            BY <2>1, <2>3 DEF Step, StartOperation, NotifyRefused, GetFuture, FindOperation,
                              NotifyEvent, GotShutdown, ShutdownGrpc, Cancel, CancelAllReturns, grpc
      <2>4. CASE \E t \in Thread : ForgetOperation(t)
            BY <2>4 DEF ForgetOperation, grpc
      <2>5. CASE \E t \in Thread, o \in Op : GotEvent(t, o)
            BY <2>5 DEF GotEvent
      <2>6. CASE \E o \in Op : Complete(o)
            BY <2>6 DEF Complete
      <2> QED BY <2>2, <2>3, <2>4, <2>5, <2>6 DEF Next
<1> QED BY <1>1, Invariant, PTL DEF Spec, NoStartAfterShutdown
-----------------------------------------------------------------------------
\* A failure that is reported, or on its way, is justified: MakeOperation() may
\* clear the cancellation only of an address that nobody holds, for which no
\* result is under way.
LEMMA HonestStep ==
    IInv /\ HonestResults /\ FailsOnlyIfCancelled /\ [Next]_vars
        => (HonestResults /\ FailsOnlyIfCancelled)'
<1> SUFFICES ASSUME IInv, HonestResults, FailsOnlyIfCancelled, [Next]_vars
             PROVE  (HonestResults /\ FailsOnlyIfCancelled)'
    OBVIOUS
<1>0. TypeOK /\ OwnedByOne /\ NewIsLocal
      BY DEF IInv
<1> USE <1>0 DEF TypeOK, Result, InLoop, HonestResults, FailsOnlyIfCancelled, OwnedByOne, Handling,
                 NewIsLocal
<1>1. CASE UNCHANGED vars
      BY <1>1 DEF vars, grpc, runner, client, history
<1>2. ASSUME NEW t \in Thread, MakeOperation(t)
      PROVE  (HonestResults /\ FailsOnlyIfCancelled)'
      BY <1>2 DEF MakeOperation, InClient, Alive, runner
<1>3. ASSUME NEW t \in Thread, Run(t)
      PROVE  (HonestResults /\ FailsOnlyIfCancelled)'
      BY <1>3 DEF Run, grpc, client, history
<1>4. ASSUME NEW t \in Thread, Shutdown(t)
      PROVE  (HonestResults /\ FailsOnlyIfCancelled)'
      BY <1>4 DEF Shutdown, grpc, runner, history
<1>5. ASSUME NEW t \in Thread, CancelAll(t)
      PROVE  (HonestResults /\ FailsOnlyIfCancelled)'
      BY <1>5 DEF CancelAll, grpc, runner, history
<1>6. ASSUME NEW t \in Thread, StartOperation(t)
      PROVE  (HonestResults /\ FailsOnlyIfCancelled)'
      BY <1>6 DEF StartOperation, runner, history
<1>7. ASSUME NEW t \in Thread, NotifyRefused(t)
      PROVE  (HonestResults /\ FailsOnlyIfCancelled)'
      BY <1>7 DEF NotifyRefused, Notify, grpc, runner
<1>8. ASSUME NEW t \in Thread, GetFuture(t)
      PROVE  (HonestResults /\ FailsOnlyIfCancelled)'
      BY <1>8 DEF GetFuture, grpc, runner, history
<1>9. ASSUME NEW t \in Thread, FindOperation(t)
      PROVE  (HonestResults /\ FailsOnlyIfCancelled)'
      BY <1>9 DEF FindOperation, grpc, client, history
<1>10. ASSUME NEW t \in Thread, NotifyEvent(t)
      PROVE  (HonestResults /\ FailsOnlyIfCancelled)'
      BY <1>10 DEF NotifyEvent, Notify, grpc, client
<1>11. ASSUME NEW t \in Thread, GotShutdown(t)
      PROVE  (HonestResults /\ FailsOnlyIfCancelled)'
      BY <1>11 DEF GotShutdown, grpc, client, history
<1>12. ASSUME NEW t \in Thread, ShutdownGrpc(t)
      PROVE  (HonestResults /\ FailsOnlyIfCancelled)'
      BY <1>12 DEF ShutdownGrpc, runner, history
<1>13. ASSUME NEW t \in Thread, Cancel(t)
      PROVE  (HonestResults /\ FailsOnlyIfCancelled)'
      BY <1>13 DEF Cancel, runner, history
<1>14. ASSUME NEW t \in Thread, CancelAllReturns(t)
      PROVE  (HonestResults /\ FailsOnlyIfCancelled)'
      BY <1>14 DEF CancelAllReturns, grpc, runner, history
<1>15. ASSUME NEW t \in Thread, ForgetOperation(t)
      PROVE  (HonestResults /\ FailsOnlyIfCancelled)'
      BY <1>15 DEF ForgetOperation, grpc, client, history
<1>16. ASSUME NEW t \in Thread, NEW o \in Op, GotEvent(t, o)
      PROVE  (HonestResults /\ FailsOnlyIfCancelled)'
      BY <1>16 DEF GotEvent, client, history
<1>17. ASSUME NEW o \in Op, Complete(o)
      PROVE  (HonestResults /\ FailsOnlyIfCancelled)'
      BY <1>17 DEF Complete, runner, client, history
<1> QED BY <1>1, <1>2, <1>3, <1>4, <1>5, <1>6, <1>7, <1>8, <1>9, <1>10, <1>11, <1>12, <1>13,
           <1>14, <1>15, <1>16, <1>17 DEF Next, Call, Step

\* An operation is notified with ok == false only if it was cancelled or the
\* queue was shut down, also when its address belonged to a cancelled operation
\* before: a continuation may take a failure for a cancellation.
THEOREM HonestFailures == Spec => []FailsOnlyIfCancelled
<1>1. Init => HonestResults /\ FailsOnlyIfCancelled
      BY DEF Init, HonestResults, FailsOnlyIfCancelled
<1> QED BY <1>1, HonestStep, Invariant, PTL DEF Spec
=============================================================================
