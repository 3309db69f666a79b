---------------------- MODULE BackgroundThreads_proofs ----------------------
(***************************************************************************)
(* Proofs about BackgroundThreads.  Its steps are steps of the completion  *)
(* queue or leave the queue alone, so that what is proved of the queue     *)
(* holds of it, for any number of threads and operations.                  *)
(***************************************************************************)
EXTENDS BackgroundThreads, CompletionQueue_proofs

\* A step of the object, of its thread or of its clients is a step of the queue
\* or changes nothing in it.
LEMMA QueueStep == [BTNext]_allVars => [Next]_vars
<1> SUFFICES ASSUME [BTNext]_allVars PROVE [Next]_vars
    OBVIOUS
<1>1. CASE RunBackground
      BY <1>1, BackgroundAssumption DEF RunBackground, Next, Call
<1>2. CASE DestroyCustomer
      BY <1>2 DEF DestroyCustomer
<1>3. ASSUME NEW t \in Thread, RunCustomer(t) PROVE Next
      BY <1>3 DEF RunCustomer, Next, Call
<1>4. ASSUME NEW t \in Thread, UseQueue(t) PROVE Next
      BY <1>4 DEF UseQueue, Next, Call
<1>5. ASSUME NEW t \in Thread, Join(t) PROVE UNCHANGED vars
      BY <1>5 DEF Join
<1>6. ASSUME NEW t \in Thread, NEW function \in {"Shutdown", "destructor"}, Stop(t, function)
      PROVE  Next
      BY <1>6 DEF Stop, Next, Call
<1>7. ASSUME NEW t \in Thread, StepInQueue(t) PROVE Next
      BY <1>7 DEF StepInQueue, Next
<1>8. ASSUME NEW t \in Thread, CallbackReturns(t) PROVE Next
      BY <1>8 DEF CallbackReturns, Next
<1>9. ASSUME NEW o \in Op, TakeEvent(o) PROVE Next
      BY <1>9 DEF TakeEvent, Next
<1>10. ASSUME NEW o \in Op, CompleteOp(o) PROVE Next
      BY <1>10 DEF CompleteOp, Next
<1>11. CASE UNCHANGED allVars
      BY <1>11 DEF allVars
<1> QED BY <1>1, <1>2, <1>3, <1>4, <1>5, <1>6, <1>7, <1>8, <1>9, <1>10, <1>11 DEF BTNext

\* Whatever the background threads do, the queue under them behaves as a
\* completion queue.
THEOREM ImplementsQueue == BTSpec => Spec
<1>1. BTInit => Init
      BY DEF BTInit
<1>2. [BTNext]_allVars => [Next]_vars
      BY QueueStep
<1> QED BY <1>1, <1>2, PTL DEF BTSpec, Spec

\* The invariant holds when the connection was just created.
LEMMA BTInitInv == BTInit => BTInv
<1> SUFFICES ASSUME BTInit PROVE BTInv
    OBVIOUS
<1>1. IInv
      BY InitInv DEF BTInit
<1>2. BTTypeOK
      BY <1>1 DEF BTInit, BTTypeOK, IInv
<1>3. OnlyRunner
      BY DEF BTInit, Init, OnlyRunner
<1>4. JoinedReturned
      BY DEF BTInit, JoinedReturned
<1> QED BY <1>1, <1>2, <1>3, <1>4 DEF BTInv

\* A thread that is out of Run(), before or after it, stays out unless it calls
\* Run().
LEMMA OutStaysOut ==
    ASSUME TypeOK, NEW t \in Thread,
           \/ \E u \in Thread : Step(u) \/ ForgetOperation(u)
           \/ \E u \in Thread, o \in Op : GotEvent(u, o)
           \/ \E o \in Op : Complete(o)
    PROVE  loop[t] \in {"out", "returned"} => loop'[t] = loop[t]
<1> USE DEF TypeOK
<1>1. CASE \E u \in Thread : Step(u)
      BY <1>1 DEF Step, StartOperation, NotifyRefused, GetFuture, FindOperation, NotifyEvent,
                  GotShutdown, ShutdownGrpc, Cancel, CancelAllReturns, runner
<1>2. CASE \E u \in Thread : ForgetOperation(u)
      BY <1>2 DEF ForgetOperation
<1>3. CASE \E u \in Thread, o \in Op : GotEvent(u, o)
      BY <1>3 DEF GotEvent
<1>4. CASE \E o \in Op : Complete(o)
      BY <1>4 DEF Complete, runner
<1> QED BY <1>1, <1>2, <1>3, <1>4

\* No step of the queue, of the background thread or of the destructor breaks it.
LEMMA BTInvStep == BTInv /\ [BTNext]_allVars => BTInv'
<1> SUFFICES ASSUME BTInv, [BTNext]_allVars PROVE BTInv'
    OBVIOUS
<1> USE BackgroundAssumption
<1>1. IInv'
      BY QueueStep, InvStep DEF BTInv
<1>2. TypeOK /\ TypeOK'
      BY <1>1 DEF BTInv, IInv
<1> DEFINE Rest == /\ factory \in {"default", "customer"}
                   /\ object \in {"alive", "destroyed"}
                   /\ joinable \in BOOLEAN
                   /\ stopping \in [Thread -> {"none", "Shutdown", "destructor"}]
           Mine == Rest /\ OnlyRunner /\ JoinedReturned
<1>3. Mine
      BY DEF BTInv, BTTypeOK
<1> HIDE DEF Rest
<1>4. ASSUME UNCHANGED threads,
             \A t \in Thread : loop[t] \in {"out", "returned"} => loop'[t] = loop[t]
      PROVE  Mine'
      <2>1. Rest'
            BY <1>3, <1>4 DEF threads, Rest
      <2> QED BY <1>3, <1>4, <2>1 DEF threads, OnlyRunner, JoinedReturned
<1>5. ASSUME RunBackground PROVE Mine'
      <2>1. Rest'
            BY <1>3, <1>5 DEF RunBackground, threads, Rest
      <2> QED BY <1>2, <1>3, <1>5, <2>1
              DEF RunBackground, Run, threads, OnlyRunner, JoinedReturned, TypeOK
<1>6. ASSUME DestroyCustomer PROVE Mine'
      <2>1. Rest'
            BY <1>3, <1>6 DEF DestroyCustomer, Rest
      <2> QED BY <1>3, <1>6, <2>1 DEF DestroyCustomer, vars, runner, OnlyRunner, JoinedReturned
<1>7. ASSUME NEW t \in Thread, RunCustomer(t) PROVE Mine'
      <2>1. Rest'
            BY <1>3, <1>7 DEF RunCustomer, threads, Rest
      <2> QED BY <1>7, <2>1 DEF RunCustomer, threads, OnlyRunner, JoinedReturned
<1>8. ASSUME NEW t \in Thread, UseQueue(t) PROVE Mine'
      BY <1>4, <1>8 DEF UseQueue, MakeOperation, Shutdown, CancelAll, runner
<1>9. ASSUME NEW t \in Thread, Join(t) PROVE Mine'
      <2>1. Rest'
            BY <1>3, <1>9 DEF Join, Rest
      <2> QED BY <1>3, <1>9, <2>1 DEF Join, vars, runner, OnlyRunner, JoinedReturned
<1>10. ASSUME NEW t \in Thread, NEW function \in {"Shutdown", "destructor"}, Stop(t, function)
       PROVE  Mine'
      <2>1. Rest'
            BY <1>3, <1>10 DEF Stop, Rest
      <2> QED BY <1>3, <1>10, <2>1 DEF Stop, Shutdown, runner, OnlyRunner, JoinedReturned
<1>11. ASSUME NEW t \in Thread, StepInQueue(t) \/ CallbackReturns(t) PROVE Mine'
      BY <1>2, <1>4, <1>11, OutStaysOut DEF StepInQueue, CallbackReturns
<1>12. ASSUME NEW o \in Op, TakeEvent(o) \/ CompleteOp(o) PROVE Mine'
      BY <1>2, <1>4, <1>12, OutStaysOut DEF TakeEvent, CompleteOp
<1>13. ASSUME UNCHANGED allVars PROVE Mine'
      BY <1>4, <1>13 DEF allVars, vars, threads, runner
<1>14. Mine'
      BY <1>5, <1>6, <1>7, <1>8, <1>9, <1>10, <1>11, <1>12, <1>13 DEF BTNext
<1> QED BY <1>1, <1>2, <1>14 DEF BTInv, BTTypeOK, Rest

\* The inductive invariant: the invariant of the queue, no other thread in Run()
\* of a queue of the default factory, and a joined thread that had returned.
THEOREM BTInvariant == BTSpec => []BTInv
<1>1. BTInit => BTInv
      BY BTInitInv
<1>2. BTInv /\ [BTNext]_allVars => BTInv'
      BY BTInvStep
<1> QED BY <1>1, <1>2, PTL DEF BTSpec

\* After Shutdown() or the destructor has joined the background thread nothing
\* is registered and gRPC has nothing left, for any number of operations and
\* client threads.
THEOREM Quiet == BTSpec => []QuietAfterShutdown
<1>1. ASSUME BTInv PROVE QuietAfterShutdown
      <2> SUFFICES ASSUME factory = "default", ~joinable
                   PROVE  /\ loop[Background] = "returned"
                          /\ pending = {} /\ outstanding = {}
                          /\ \A o \in Op : event[o] = "none"
          BY DEF QuietAfterShutdown
      <2>1. loop[Background] = "returned"
            BY <1>1 DEF BTInv, JoinedReturned
      <2>2. outstanding = {} /\ \A o \in Op : event[o] = "none"
            BY <1>1, <2>1, BackgroundAssumption DEF BTInv, IInv, ReturnedDrained
      <2>3. \A t \in Thread : ~Handling(t)
            BY <1>1, <2>1 DEF BTInv, OnlyRunner, Handling
      <2>4. pending = {}
            BY <1>1, <2>2, <2>3 DEF BTInv, IInv, TypeOK, OwnedByOne
      <2> QED BY <2>1, <2>2, <2>4
<1> QED BY <1>1, BTInvariant, PTL
=============================================================================
