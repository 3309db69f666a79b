--------------------------- MODULE Futures_proofs ---------------------------
(***************************************************************************)
(* Proofs of the safety properties of Futures, for any sets of threads,    *)
(* variables, shared states and functor outcomes, from the inductive       *)
(* invariant IInv.                                                         *)
(***************************************************************************)
EXTENDS Futures, TLAPS

USE ConstantsAssumption

\* The initial state satisfies the inductive invariant.
LEMMA InitInv == Init => IInv
<1> SUFFICES ASSUME Init PROVE IInv
    OBVIOUS
<1> USE DEF Init
<1>1. TypeOK
      BY DEF TypeOK, Frame, Idle, PC, Continuation, Satisfied
<1>2. FrameOK
      BY DEF FrameOK, Idle, Executing, Waiting
<1>3. AllocatedOK
      BY DEF AllocatedOK, is_ready, Idle
<1>4. SingleWriter
      BY DEF SingleWriter, PromiseWrites, PendingWrites, ThreadWrites, is_ready, Idle
<1>5. SingleReader
      BY DEF SingleReader, FutureReads, ThreadReads, GetReads, AttachReads, OutReads, Executing, Idle
<1>6. NoLostWakeup
      BY DEF NoLostWakeup
<1> QED BY <1>1, <1>2, <1>3, <1>4, <1>5, <1>6 DEF IInv

\* Changing one field keeps the type of a frame.
LEMMA FrameUpdate ==
    ASSUME NEW r \in Frame
    PROVE  /\ \A pc \in PC : [r EXCEPT !.pc = pc] \in Frame
           /\ \A s \in State : [r EXCEPT !.st = s] \in Frame
           /\ \A c \in Continuation : [r EXCEPT !.ct = c] \in Frame
BY DEF Frame

\* Storing a result keeps the types.
LEMMA SatisfyType ==
    ASSUME TypeOK, NEW t \in Thread, NEW s \in State, NEW what \in Satisfied,
           NEW pr \in Promise \cup {NoPromise}, SatisfyAndNotify(t, s, what, pr)
    PROVE  /\ current_state' \in [State -> Satisfied \cup {"not_ready"}]
           /\ thr' \in [Thread -> Frame]
           /\ asleep' \in SUBSET Thread
<1> USE DEF TypeOK
<1>1. current_state' \in [State -> Satisfied \cup {"not_ready"}]
      BY DEF SatisfyAndNotify
<1>2. CASE cont[s] # "none"
      <2>1. [pc |-> "exec", st |-> s, ct |-> cont[s], out |-> output[s], fu |-> thr[t].fu, pr |-> pr]
               \in Frame
            BY DEF Frame, PC
      <2>2. thr' \in [Thread -> Frame]
            BY <1>2, <2>1 DEF SatisfyAndNotify
      <2> QED BY <1>1, <1>2, <2>2 DEF SatisfyAndNotify
<1>3. CASE cont[s] = "none"
      <2>1. Finish(t) /\ NotifyAll(s)
            BY <1>3 DEF SatisfyAndNotify
      <2>2. thr' \in [Thread -> Frame]
            BY <2>1 DEF Finish, Frame, Idle, PC
      <2> QED BY <1>1, <2>1, <2>2 DEF NotifyAll
<1> QED BY <1>2, <1>3

\* Abandoning keeps the types.
LEMMA AbandonType ==
    ASSUME TypeOK, NEW s \in State \cup {NoState}, abandon(s)
    PROVE  /\ current_state' \in [State -> Satisfied \cup {"not_ready"}]
           /\ abandoned' \in SUBSET State
           /\ asleep' \in SUBSET Thread
BY DEF TypeOK, abandon, NotifyAll, Satisfied

\* Every step keeps the variables in their types.
LEMMA TypeStep == TypeOK /\ FrameOK /\ [Next]_vars => TypeOK'
<1> SUFFICES ASSUME TypeOK, FrameOK, [Next]_vars PROVE TypeOK'
    OBVIOUS
<1> USE DEF shared, handles, history
<1>1. CASE UNCHANGED vars
      BY <1>1 DEF vars, TypeOK
<1>2. ASSUME NEW p \in Promise, MakePromise(p) PROVE TypeOK'
      BY <1>2 DEF MakePromise, TypeOK
<1>3. ASSUME NEW p \in Promise, DestroyPromise(p) PROVE TypeOK'
      BY <1>3, AbandonType DEF DestroyPromise, TypeOK
<1>4. ASSUME NEW p \in Promise, NEW q \in Promise, MovePromise(p, q) PROVE TypeOK'
      BY <1>4, AbandonType DEF MovePromise, TypeOK
<1>5. ASSUME NEW p \in Promise, NEW f \in Future, get_future(p, f) PROVE TypeOK'
      BY <1>5 DEF get_future, TypeOK
<1>6. ASSUME NEW p \in Promise, NEW t \in Thread, NEW what \in Satisfied, set(t, p, what) PROVE TypeOK'
      BY <1>6, SatisfyType DEF set, TypeOK
<1>7. ASSUME NEW f \in Future, DropFuture(f) PROVE TypeOK'
      BY <1>7 DEF DropFuture, TypeOK
<1>8. ASSUME NEW t \in Thread, NEW f \in Future, NEW pc \in {"wait", "wait_for"}, Wait(t, f, pc)
      PROVE  TypeOK'
      BY <1>8 DEF Wait, TypeOK, Frame, Idle, PC
<1>9. ASSUME NEW t \in Thread, NEW f \in Future, get(t, f) PROVE TypeOK'
      BY <1>9 DEF get, TypeOK, Frame, Idle, PC
<1>10. ASSUME NEW t \in Thread, CheckReady(t) PROVE TypeOK'
      <2>1. thr[t].st \in State
            BY <1>10 DEF CheckReady, FrameOK
      <2> QED BY <1>10, <2>1 DEF CheckReady, TypeOK, Frame, Idle, PC
<1>11. ASSUME NEW t \in Thread, SpuriousWakeup(t) PROVE TypeOK'
      BY <1>11 DEF SpuriousWakeup, TypeOK
<1>12. ASSUME NEW t \in Thread, TimeOut(t) PROVE TypeOK'
      BY <1>12 DEF TimeOut, TypeOK, Frame, Idle, PC
<1>13. ASSUME NEW t \in Thread, NEW f \in Future, NEW kind \in {"plain", "unwrap"}, then(t, f, kind)
       PROVE  TypeOK'
      <2>1. PICK o \in State \ allocated : then(t, f, kind)!5!(o)
            BY <1>13 DEF then
      <2>2. ASSUME NEW pc \in PC
            PROVE  [pc |-> pc, st |-> future[f], ct |-> IF pc = "exec" THEN kind ELSE "none",
                    out |-> o, fu |-> f, pr |-> NoPromise] \in Frame
            BY <1>13 DEF then, TypeOK, Frame, Continuation
      <2>3. thr' \in [Thread -> Frame]
            BY <2>1, <2>2 DEF TypeOK, PC
      <2>4. cont' \in [State -> Continuation \cup {"none"}] /\ output' \in [State -> State \cup {NoState}]
            BY <2>1 DEF TypeOK, Continuation
      <2>5. allocated' \in SUBSET State /\ callback' \in [State -> BOOLEAN]
            BY <1>13, <2>1 DEF then, make_continuation, TypeOK
      <2>6. input' \in [State -> State \cup {NoState}]
            BY <2>1 DEF make_continuation, TypeOK
      <2> QED BY <1>13, <2>3, <2>4, <2>5, <2>6 DEF then, TypeOK
<1>14. ASSUME NEW t \in Thread, NEW f \in Future, then_throws(t, f) PROVE TypeOK'
      BY <1>14 DEF then_throws, TypeOK
<1>15. ASSUME NEW t \in Thread, then_returns(t) PROVE TypeOK'
      BY <1>15 DEF then_returns, FrameOK, TypeOK, Frame, Idle, PC
<1>16. ASSUME NEW t \in Thread, ExecPlain(t) PROVE TypeOK'
      <2>1. thr[t].st \in State /\ thr[t].out \in State /\ thr[t].pr \in Promise \cup {NoPromise}
            BY <1>16 DEF ExecPlain, FrameOK, TypeOK, Frame, Executing
      <2>2. /\ current_state' \in [State -> Satisfied \cup {"not_ready"}]
            /\ thr' \in [Thread -> Frame]
            /\ asleep' \in SUBSET Thread
            <3>1. CASE Unwind(t) /\ UNCHANGED <<current_state, asleep>>
                  BY <3>1 DEF Unwind, TypeOK, Frame, Idle, PC
            <3>2. CASE \E what \in Satisfied : SatisfyAndNotify(t, thr[t].out, what, thr[t].pr)
                  BY <2>1, <3>2, SatisfyType
            <3> QED BY <1>16, <3>1, <3>2 DEF ExecPlain, Satisfied
      <2>3. future' \in [Future -> State \cup {NoState}] /\ unwound' \in SUBSET State
            BY <1>16, <2>1 DEF ExecPlain, Unwind, TypeOK, FrameOK, Frame
      <2>4. taken' \in [State -> Nat] /\ runs' \in [State -> Nat]
            BY <1>16, <2>1 DEF ExecPlain, CountRun, Take, TypeOK
      <2> QED BY <1>16, <2>2, <2>3, <2>4 DEF ExecPlain, TypeOK
<1>17. ASSUME NEW t \in Thread, ExecUnwrap(t) PROVE TypeOK'
      <2>1. thr[t].st \in State /\ thr[t].out \in State /\ thr[t].pr \in Promise \cup {NoPromise}
            BY <1>17 DEF ExecUnwrap, FrameOK, TypeOK, Frame, Executing
      <2>2. /\ current_state' \in [State -> Satisfied \cup {"not_ready"}]
            /\ thr' \in [Thread -> Frame]
            /\ asleep' \in SUBSET Thread
            <3>1. CASE \E s \in State : thr' = [thr EXCEPT ![t] = [@ EXCEPT !.pc = "attach", !.st = s]]
                       /\ UNCHANGED <<current_state, asleep>>
                  <4>1. PICK s \in State : thr' = [thr EXCEPT ![t] = [@ EXCEPT !.pc = "attach", !.st = s]]
                        BY <3>1
                  <4>2. [thr[t] EXCEPT !.pc = "attach", !.st = s] \in Frame
                        <5>1. [thr[t] EXCEPT !.pc = "attach"] \in Frame
                              BY FrameUpdate DEF TypeOK, PC
                        <5> QED BY <5>1, FrameUpdate
                  <4> QED BY <3>1, <4>1, <4>2 DEF TypeOK
            <3>2. CASE thr' = [thr EXCEPT ![t] = [@ EXCEPT !.pc = "attach"]]
                       /\ UNCHANGED <<current_state, asleep>>
                  BY <3>2 DEF TypeOK, Frame, PC
            <3>3. CASE \E what \in Satisfied : SatisfyAndNotify(t, thr[t].out, what, thr[t].pr)
                  BY <2>1, <3>3, SatisfyType
            <3> QED BY <1>17, <3>1, <3>2, <3>3 DEF ExecUnwrap, Satisfied, TypeOK
      <2>3. future' \in [Future -> State \cup {NoState}] /\ unwound' \in SUBSET State
            BY <1>17, <2>1 DEF ExecUnwrap, TypeOK
      <2>4. taken' \in [State -> Nat]
            <3>1. Take(t) \/ taken' = taken
                  BY <1>17 DEF ExecUnwrap
            <3> QED BY <2>1, <3>1 DEF Take, TypeOK
      <2>5. runs' \in [State -> Nat]
            <3>1. CountRun(t)
                  BY <1>17 DEF ExecUnwrap
            <3> QED BY <2>1, <3>1 DEF CountRun, TypeOK
      <2> QED BY <1>17, <2>2, <2>3, <2>4, <2>5 DEF ExecUnwrap, TypeOK
<1>18. ASSUME NEW t \in Thread, Attach(t) PROVE TypeOK'
      <2>1. thr[t].st \in State /\ thr[t].out \in State
            BY <1>18 DEF Attach, FrameOK, Executing
      <2>2. thr' \in [Thread -> Frame]
            <3>1. CASE Unwind(t)
                  BY <3>1 DEF Unwind, TypeOK, Frame, Idle, PC
            <3>2. CASE Finish(t)
                  <4>1. Idle \in Frame
                        BY DEF Idle, Frame, PC
                  <4>2. [thr[t] EXCEPT !.pc = "return"] \in Frame
                        BY FrameUpdate DEF TypeOK, PC
                  <4> QED BY <3>2, <4>1, <4>2 DEF Finish, TypeOK
            <3>3. CASE thr' = [thr EXCEPT ![t] = [@ EXCEPT !.pc = "exec", !.ct = "forward"]]
                  <4>1. [thr[t] EXCEPT !.pc = "exec", !.ct = "forward"] \in Frame
                        <5>1. [thr[t] EXCEPT !.pc = "exec"] \in Frame
                              BY FrameUpdate DEF TypeOK, PC
                        <5> QED BY <5>1, FrameUpdate DEF Continuation
                  <4> QED BY <3>3, <4>1 DEF TypeOK
            <3> QED BY <1>18, <3>1, <3>2, <3>3 DEF Attach
      <2>3. unwound' \in SUBSET State
            BY <1>18 DEF Attach, Unwind, TypeOK, FrameOK, Frame, Executing
      <2>4. cont' \in [State -> Continuation \cup {"none"}] /\ output' \in [State -> State \cup {NoState}]
            BY <1>18, <2>1 DEF Attach, TypeOK, Continuation
      <2> QED BY <1>18, <2>2, <2>3, <2>4 DEF Attach, TypeOK
<1>19. ASSUME NEW t \in Thread, ExecForward(t) PROVE TypeOK'
      <2>1. thr[t].st \in State /\ thr[t].out \in State /\ thr[t].pr \in Promise \cup {NoPromise}
            BY <1>19 DEF ExecForward, FrameOK, TypeOK, Frame, Executing
      <2>2. current_state[thr[t].st] \in Satisfied
            BY <1>19, <2>1 DEF ExecForward, FrameOK, TypeOK, is_ready
      <2>3. /\ current_state' \in [State -> Satisfied \cup {"not_ready"}]
            /\ thr' \in [Thread -> Frame]
            /\ asleep' \in SUBSET Thread
            <3>1. CASE Unwind(t) /\ UNCHANGED <<current_state, asleep>>
                  BY <3>1 DEF Unwind, TypeOK, Frame, Idle, PC
            <3>2. CASE \E what \in Satisfied : SatisfyAndNotify(t, thr[t].out, what, thr[t].pr)
                  BY <2>1, <3>2, SatisfyType
            <3> QED BY <1>19, <2>2, <3>1, <3>2 DEF ExecForward
      <2>4. taken' \in [State -> Nat] /\ unwound' \in SUBSET State
            BY <1>19, <2>1 DEF ExecForward, Take, Unwind, TypeOK, FrameOK, Frame
      <2> QED BY <1>19, <2>3, <2>4 DEF ExecForward, TypeOK
<1>20. ASSUME NEW t \in Thread, NEW f \in Future, cancel(t, f) PROVE TypeOK'
      BY <1>20 DEF cancel, TypeOK, Frame, Idle, PC
<1>21. ASSUME NEW t \in Thread, CancelCall(t) PROVE TypeOK'
      BY <1>21 DEF CancelCall, TypeOK, Frame, Idle, PC
<1> QED BY <1>1, <1>2, <1>3, <1>4, <1>5, <1>6, <1>7, <1>8, <1>9, <1>10, <1>11, <1>12, <1>13, <1>14,
           <1>15, <1>16, <1>17, <1>18, <1>19, <1>20, <1>21
        DEF Next, PromiseStep, Call, Step, set_value, set_exception, wait, wait_for, Satisfied

\* A thread that waits for a state that has a continuation waits for a
\* satisfied one: the readers of the state are the future and the thread.
LEMMA WaiterLemma == IInv => NoWaiterWithContinuation
<1> SUFFICES ASSUME IInv, NEW t \in Thread, thr[t].pc \in Waiting, cont[thr[t].st] # "none",
                    ~is_ready(thr[t].st)
             PROVE  FALSE
    BY DEF NoWaiterWithContinuation, Waiting
<1>1. thr[t].st \in State
      BY DEF IInv, FrameOK, Waiting
<1>2. CASE thr[t].pc = "get"
      BY <1>1, <1>2 DEF IInv, SingleReader, ThreadReads, GetReads
<1>3. CASE thr[t].pc \in {"wait", "wait_for"}
      <2>1. thr[t].fu \in Future /\ future[thr[t].fu] = thr[t].st
            BY <1>3 DEF IInv, FrameOK
      <2>2. FutureReads(thr[t].fu, thr[t].st)
            <3> SUFFICES ASSUME NEW u \in Thread, thr[u].pc = "return", thr[u].fu = thr[t].fu
                         PROVE  FALSE
                BY <2>1 DEF FutureReads
            <3>1. t = u
                  BY <2>1 DEF IInv, FrameOK
            <3> QED BY <1>3, <3>1
      <2> QED BY <1>1, <2>1, <2>2 DEF IInv, SingleReader
<1> QED BY <1>2, <1>3 DEF Waiting

\* Satisfying a state and notifying (set_value(), set_exception(), and the end
\* of a continuation) keeps the inductive invariant.  The functor may have left
\* its argument, a satisfied state, in another future variable.
LEMMA SatisfyInv ==
    ASSUME IInv, TypeOK', NEW t \in Thread, NEW s \in State, NEW what \in Satisfied, NEW pr,
           ~is_ready(s),
           \/ thr[t].pc = "idle" /\ \E p \in Promise : promise[p] = s
           \/ thr[t].pc = "exec" /\ thr[t].out = s,
           SatisfyAndNotify(t, s, what, pr),
           UNCHANGED <<allocated, retrieved, cont, output, promise>>,
           \/ future' = future
           \/ \E g \in Future, r \in allocated : /\ future[g] = NoState /\ is_ready(r)
                                                /\ future' = [future EXCEPT ![g] = r]
    PROVE  IInv'
<1> USE DEF Executing
<1>0. TypeOK /\ FrameOK /\ AllocatedOK /\ SingleWriter /\ SingleReader /\ NoLostWakeup
      BY DEF IInv
<1>1. /\ \A r \in State : is_ready(r)' <=> is_ready(r) \/ r = s
      /\ \A u \in Thread : u # t => thr'[u] = thr[u]
      /\ asleep' \subseteq asleep
      BY <1>0 DEF SatisfyAndNotify, Finish, NotifyAll, is_ready, TypeOK, Satisfied
<1>2. /\ \A f \in Future : future'[f] = future[f] \/ (future[f] = NoState /\ future'[f] \in allocated /\ is_ready(future'[f]))
      BY <1>0 DEF TypeOK
<1>3. /\ thr[t].pc = "idle" => thr[t].fu = NoFuture
      /\ t \notin asleep
      BY <1>0 DEF FrameOK, Idle, Waiting
<1>4. s \in allocated
      BY <1>0 DEF AllocatedOK, FrameOK
<1>5. \A u \in Thread : thr[u].fu \in Future => future'[thr[u].fu] = future[thr[u].fu]
      BY <1>0, <1>2 DEF FrameOK
<1>6. CASE cont[s] # "none"
      <2>1. thr[t].fu = NoFuture
            BY <1>0, <1>3, <1>6 DEF SingleReader, ThreadReads, OutReads, TypeOK, Frame
      <2>2. /\ thr'[t].pc = "exec" /\ thr'[t].st = s /\ thr'[t].ct = cont[s]
            /\ thr'[t].out = output[s] /\ thr'[t].fu = NoFuture
            BY <1>0, <1>6, <2>1 DEF SatisfyAndNotify, TypeOK
      <2>3. output[s] \in State /\ output[s] \in allocated /\ ~is_ready(output[s]) /\ output[s] # s
            BY <1>0, <1>6 DEF AllocatedOK, TypeOK, SingleWriter, PendingWrites, PromiseWrites, ThreadWrites
      <2>4. FrameOK'
            BY <1>0, <1>1, <1>5, <1>6, <2>2, <2>3 DEF FrameOK, TypeOK, Idle, Waiting
      <2>5. AllocatedOK'
            BY <1>0, <1>1, <1>2, <1>4, <2>2, <2>3 DEF AllocatedOK, TypeOK
      <2>6. SingleWriter'
            <3>1. \A p \in Promise, o \in State : PromiseWrites(p, o)' => PromiseWrites(p, o)
                  BY DEF PromiseWrites
            <3>2. \A r, o \in State : PendingWrites(r, o)' => PendingWrites(r, o) /\ r # s
                  BY <1>1 DEF PendingWrites
            <3>3. \A u \in Thread, o \in State :
                     ThreadWrites(u, o)' => (u # t /\ ThreadWrites(u, o)) \/ (u = t /\ o = output[s])
                  BY <1>1, <2>2 DEF ThreadWrites
            <3>4. PendingWrites(s, output[s])
                  BY <1>6 DEF PendingWrites
            <3>5. \A o \in State : is_ready(o)' => is_ready(o) \/ o = s
                  BY <1>1
            <3>6. (\E p \in Promise : PromiseWrites(p, s)) \/ ThreadWrites(t, s)
                  BY DEF PromiseWrites, ThreadWrites
            <3> QED BY <1>0, <2>3, <3>1, <3>2, <3>3, <3>4, <3>5, <3>6 DEF SingleWriter
      <2>7. SingleReader'
            <3>1. \A f \in Future, r \in State : ~is_ready(r)' /\ FutureReads(f, r)' => FutureReads(f, r)
                  BY <1>1, <1>2 DEF FutureReads, TypeOK
            <3>2. \A u \in Thread, r \in State : ~is_ready(r)' /\ ThreadReads(u, r)' => ThreadReads(u, r)
                  BY <1>1, <2>2 DEF ThreadReads, GetReads, AttachReads, OutReads
            <3>3. \A r \in State : Unretrieved(r)' <=> Unretrieved(r)
                  BY DEF Unretrieved
            <3> QED BY <1>0, <1>1, <3>1, <3>2, <3>3 DEF SingleReader
      <2>8. NoLostWakeup'
            BY <1>0, <1>1, <1>3, <1>6, WaiterLemma DEF NoLostWakeup, NoWaiterWithContinuation, FrameOK, Waiting, TypeOK
      <2> QED BY <2>4, <2>5, <2>6, <2>7, <2>8 DEF IInv
<1>7. CASE cont[s] = "none"
      <2>1. /\ thr[t].fu = NoFuture => thr'[t] = Idle
            /\ thr[t].fu # NoFuture => /\ thr'[t].pc = "return" /\ thr'[t].st = thr[t].st
                                       /\ thr'[t].out = thr[t].out /\ thr'[t].fu = thr[t].fu
            /\ asleep' = {u \in asleep : thr[u].st # s}
            BY <1>0, <1>7 DEF SatisfyAndNotify, NotifyAll, Finish, TypeOK, Frame
      <2>2. FrameOK'
            <3>1. CASE thr[t].fu = NoFuture
                  <4>1. Idle' = Idle /\ Idle.pc = "idle" /\ Idle.fu = NoFuture
                        BY DEF Idle
                  <4> QED BY <1>0, <1>1, <1>3, <1>5, <2>1, <3>1, <4>1 DEF FrameOK, TypeOK, Waiting
            <3>2. CASE thr[t].fu # NoFuture
                  <4>1. thr[t].fu \in Future /\ thr[t].pc = "exec"
                        BY <1>0, <1>3, <3>2 DEF TypeOK, Frame
                  <4> QED BY <1>0, <1>1, <1>3, <1>5, <2>1, <3>2, <4>1 DEF FrameOK, TypeOK, Waiting
            <3> QED BY <3>1, <3>2
      <2>3. AllocatedOK'
            BY <1>0, <1>1, <1>2, <1>4, <2>1 DEF AllocatedOK, TypeOK, Idle
      <2>4. SingleWriter'
            <3>1. \A p \in Promise, o \in State : PromiseWrites(p, o)' => PromiseWrites(p, o)
                  BY DEF PromiseWrites
            <3>2. \A r, o \in State : PendingWrites(r, o)' => PendingWrites(r, o)
                  BY <1>1 DEF PendingWrites
            <3>3. \A u \in Thread, o \in State : ThreadWrites(u, o)' => u # t /\ ThreadWrites(u, o)
                  BY <1>1, <2>1 DEF ThreadWrites, Idle
            <3>4. (\E p \in Promise : PromiseWrites(p, s)) \/ ThreadWrites(t, s)
                  BY DEF PromiseWrites, ThreadWrites
            <3>5. \A o \in State : is_ready(o)' => is_ready(o) \/ o = s
                  BY <1>1
            <3> QED BY <1>0, <3>1, <3>2, <3>3, <3>4, <3>5 DEF SingleWriter
      <2>5. SingleReader'
            <3>1. \A f \in Future, r \in State : ~is_ready(r)' /\ FutureReads(f, r)' => FutureReads(f, r)
                  BY <1>1, <1>2 DEF FutureReads, TypeOK
            <3>2. \A u \in Thread, r \in State : ~is_ready(r)' /\ ThreadReads(u, r)' => ThreadReads(u, r)
                  BY <1>1, <1>3, <2>1 DEF ThreadReads, GetReads, AttachReads, OutReads, Idle
            <3>3. \A r \in State : Unretrieved(r)' <=> Unretrieved(r)
                  BY DEF Unretrieved
            <3> QED BY <1>0, <1>1, <3>1, <3>2, <3>3 DEF SingleReader
      <2>6. NoLostWakeup'
            BY <1>0, <1>1, <1>3, <2>1 DEF NoLostWakeup, FrameOK, Waiting, TypeOK
      <2> QED BY <2>2, <2>3, <2>4, <2>5, <2>6 DEF IInv
<1> QED BY <1>6, <1>7

\* Only allocated states have writers and readers.
LEMMA KnownAllocated ==
    ASSUME IInv, NEW o \in State \ allocated
    PROVE  /\ \A p \in Promise : ~PromiseWrites(p, o)
           /\ \A s \in State : ~PendingWrites(s, o)
           /\ \A t \in Thread : ~ThreadWrites(t, o)
           /\ \A f \in Future : ~FutureReads(f, o)
           /\ \A t \in Thread : ~ThreadReads(t, o)
           /\ ~Unretrieved(o)
BY DEF IInv, AllocatedOK, PromiseWrites, PendingWrites, ThreadWrites, FutureReads, ThreadReads,
       GetReads, AttachReads, OutReads, Unretrieved

\* A step after which every writer was a writer before keeps SingleWriter, as
\* long as no state that is still to be written becomes satisfied.
LEMMA WritersShrink ==
    ASSUME SingleWriter,
           \A p \in Promise, o \in State : PromiseWrites(p, o)' => PromiseWrites(p, o),
           \A s, o \in State : PendingWrites(s, o)' => PendingWrites(s, o),
           \A t \in Thread, o \in State : ThreadWrites(t, o)' => ThreadWrites(t, o),
           \A o \in State : is_ready(o)' => is_ready(o) \/ \E p \in Promise : PromiseWrites(p, o)
    PROVE  SingleWriter'
BY DEF SingleWriter

\* A step after which every reader was a reader before keeps SingleReader.
LEMMA ReadersShrink ==
    ASSUME SingleReader,
           \A f \in Future, s \in State : ~is_ready(s)' /\ FutureReads(f, s)' => FutureReads(f, s),
           \A t \in Thread, s \in State : ~is_ready(s)' /\ ThreadReads(t, s)' => ThreadReads(t, s),
           \A s \in State : Unretrieved(s)' => Unretrieved(s),
           \A s \in State : is_ready(s) => is_ready(s)',
           cont' = cont
    PROVE  SingleReader'
BY DEF SingleReader

\* abandon() of a promise's state changes only whether states are satisfied, and
\* wakes the threads that sleep on the state.
LEMMA AbandonFacts ==
    ASSUME IInv, NEW s \in State \cup {NoState}, abandon(s)
    PROVE  /\ \A r \in State : is_ready(r)' <=> is_ready(r) \/ r = s
           /\ asleep' \subseteq asleep
           /\ \A t \in asleep' : thr[t].st # s \/ is_ready(s)
<1>1. CASE s # NoState /\ current_state[s] = "not_ready"
      BY <1>1 DEF IInv, TypeOK, abandon, NotifyAll, is_ready
<1>2. CASE ~(s # NoState /\ current_state[s] = "not_ready")
      <2>1. UNCHANGED <<current_state, asleep>> /\ (s = NoState \/ is_ready(s))
            BY <1>2 DEF abandon, is_ready
      <2>2. ASSUME NEW t \in asleep PROVE thr[t].st # NoState
            <3>1. t \in Thread /\ thr[t].pc # "idle"
                  BY DEF IInv, TypeOK, FrameOK, Waiting
            <3> QED BY <3>1 DEF IInv, FrameOK
      <2> QED BY <2>1, <2>2 DEF is_ready
<1> QED BY <1>1, <1>2

\* A new promise: its state has one writer and no reader.
LEMMA MakePromiseInv ==
    ASSUME IInv, TypeOK', NEW p \in Promise, MakePromise(p)
    PROVE  IInv'
<1> USE DEF shared, handles, history
<1>0. TypeOK /\ FrameOK /\ AllocatedOK /\ SingleWriter /\ SingleReader /\ NoLostWakeup
      BY DEF IInv
<1>a. PICK s \in State \ allocated : /\ allocated' = allocated \cup {s}
                                      /\ promise' = [promise EXCEPT ![p] = s]
      BY DEF MakePromise
<1>b. /\ \A r \in State : is_ready(r)' <=> is_ready(r)
      /\ UNCHANGED <<retrieved, cont, output, future, thr, asleep>>
      BY DEF MakePromise, is_ready
<1>1. FrameOK'
      BY <1>0, <1>b DEF FrameOK, Idle
<1>2. AllocatedOK'
      BY <1>0, <1>a, <1>b DEF AllocatedOK, TypeOK
<1>3. SingleWriter'
      <2>1. \A q \in Promise, o \in State : PromiseWrites(q, o)' => PromiseWrites(q, o) \/ (q = p /\ o = s)
            BY <1>0, <1>a DEF PromiseWrites, TypeOK
      <2>2. \A r, o \in State : PendingWrites(r, o)' => PendingWrites(r, o)
            BY <1>b DEF PendingWrites
      <2>3. \A t \in Thread, o \in State : ThreadWrites(t, o)' => ThreadWrites(t, o)
            BY <1>b DEF ThreadWrites
      <2> QED BY <1>0, <1>a, <1>b, <2>1, <2>2, <2>3, KnownAllocated DEF SingleWriter
<1>4. SingleReader'
      <2>1. \A f \in Future, r \in State : FutureReads(f, r)' => FutureReads(f, r)
            BY <1>b DEF FutureReads
      <2>2. \A t \in Thread, r \in State : ThreadReads(t, r)' => ThreadReads(t, r)
            BY <1>b DEF ThreadReads, GetReads, AttachReads, OutReads
      <2>3. \A r \in State : Unretrieved(r)' => Unretrieved(r) \/ r = s
            BY <1>0, <1>a, <1>b DEF Unretrieved, TypeOK
      <2>4. cont[s] = "none"
            BY <1>0 DEF AllocatedOK
      <2> QED BY <1>0, <1>a, <1>b, <2>1, <2>2, <2>3, <2>4, KnownAllocated DEF SingleReader
<1>5. NoLostWakeup'
      BY <1>0, <1>b DEF NoLostWakeup, FrameOK, Waiting, TypeOK
<1> QED BY <1>1, <1>2, <1>3, <1>4, <1>5 DEF IInv

\* The destructor of a promise.
LEMMA DestroyPromiseInv ==
    ASSUME IInv, TypeOK', NEW p \in Promise, DestroyPromise(p)
    PROVE  IInv'
<1> USE DEF shared, handles, history
<1>0. TypeOK /\ FrameOK /\ AllocatedOK /\ SingleWriter /\ SingleReader /\ NoLostWakeup
      BY DEF IInv
<1>a. /\ \A r \in State : is_ready(r)' <=> is_ready(r) \/ r = promise[p]
      /\ asleep' \subseteq asleep
      /\ \A t \in asleep' : thr[t].st # promise[p] \/ is_ready(promise[p])
      BY <1>0, AbandonFacts DEF DestroyPromise, TypeOK
<1>b. UNCHANGED <<allocated, retrieved, cont, output, future, thr>>
      BY DEF DestroyPromise
<1>c. \A o \in State : is_ready(o)' => is_ready(o) \/ PromiseWrites(p, o)
      BY <1>a DEF PromiseWrites
<1>1. FrameOK'
      BY <1>0, <1>a, <1>b DEF FrameOK, Idle
<1>2. AllocatedOK'
      BY <1>0, <1>a, <1>b DEF AllocatedOK, TypeOK, DestroyPromise
<1>3. SingleWriter'
      <2>1. \A r, o \in State : PendingWrites(r, o)' => PendingWrites(r, o)
            BY <1>a, <1>b DEF PendingWrites
      <2>2. \A t \in Thread, o \in State : ThreadWrites(t, o)' => ThreadWrites(t, o)
            BY <1>b DEF ThreadWrites
      <2>3. \A q \in Promise, o \in State : PromiseWrites(q, o)' => PromiseWrites(q, o)
            BY <1>0 DEF PromiseWrites, TypeOK, DestroyPromise
      <2> QED BY <1>0, <1>c, <2>1, <2>2, <2>3, WritersShrink
<1>4. SingleReader'
      <2>1. \A f \in Future, r \in State : FutureReads(f, r)' => FutureReads(f, r)
            BY <1>b DEF FutureReads
      <2>2. \A t \in Thread, r \in State : ThreadReads(t, r)' => ThreadReads(t, r)
            BY <1>b DEF ThreadReads, GetReads, AttachReads, OutReads
      <2>3. \A r \in State : Unretrieved(r)' => Unretrieved(r)
            BY <1>0, <1>b DEF Unretrieved, TypeOK, DestroyPromise
      <2> QED BY <1>0, <1>a, <1>b, <2>1, <2>2, <2>3, ReadersShrink
<1>5. NoLostWakeup'
      BY <1>0, <1>a, <1>b DEF NoLostWakeup, FrameOK, Waiting, TypeOK
<1> QED BY <1>1, <1>2, <1>3, <1>4, <1>5 DEF IInv

\* Move assignment of a promise: the state of q is abandoned.
LEMMA MovePromiseInv ==
    ASSUME IInv, TypeOK', NEW p \in Promise, NEW q \in Promise, MovePromise(p, q)
    PROVE  IInv'
<1> USE DEF shared, handles, history
<1>0. TypeOK /\ FrameOK /\ AllocatedOK /\ SingleWriter /\ SingleReader /\ NoLostWakeup
      BY DEF IInv
<1>a. /\ \A r \in State : is_ready(r)' <=> is_ready(r) \/ r = promise[q]
      /\ asleep' \subseteq asleep
      /\ \A t \in asleep' : thr[t].st # promise[q] \/ is_ready(promise[q])
      BY <1>0, AbandonFacts DEF MovePromise, TypeOK
<1>b. UNCHANGED <<allocated, retrieved, cont, output, future, thr>>
      BY DEF MovePromise
<1>c. \A o \in State : is_ready(o)' => is_ready(o) \/ PromiseWrites(q, o)
      BY <1>a DEF PromiseWrites
<1>1. FrameOK'
      BY <1>0, <1>a, <1>b DEF FrameOK, Idle
<1>2. AllocatedOK'
      BY <1>0, <1>a, <1>b DEF AllocatedOK, TypeOK, MovePromise
<1>3. SingleWriter'
      <2>1. \A r, o \in State : PendingWrites(r, o)' => PendingWrites(r, o)
            BY <1>a, <1>b DEF PendingWrites
      <2>2. \A t \in Thread, o \in State : ThreadWrites(t, o)' => ThreadWrites(t, o)
            BY <1>b DEF ThreadWrites
      <2>3. \A r \in Promise, o \in State :
               PromiseWrites(r, o)' => (r \notin {p, q} /\ PromiseWrites(r, o)) \/ (r = q /\ PromiseWrites(p, o))
            BY <1>0 DEF PromiseWrites, TypeOK, MovePromise
      <2> QED BY <1>0, <1>c, <2>1, <2>2, <2>3 DEF SingleWriter
<1>4. SingleReader'
      <2>1. \A f \in Future, r \in State : FutureReads(f, r)' => FutureReads(f, r)
            BY <1>b DEF FutureReads
      <2>2. \A t \in Thread, r \in State : ThreadReads(t, r)' => ThreadReads(t, r)
            BY <1>b DEF ThreadReads, GetReads, AttachReads, OutReads
      <2>3. \A r \in State : Unretrieved(r)' => Unretrieved(r)
            BY <1>0, <1>b DEF Unretrieved, TypeOK, MovePromise
      <2> QED BY <1>0, <1>a, <1>b, <2>1, <2>2, <2>3, ReadersShrink
<1>5. NoLostWakeup'
      BY <1>0, <1>a, <1>b DEF NoLostWakeup, FrameOK, Waiting, TypeOK
<1> QED BY <1>1, <1>2, <1>3, <1>4, <1>5 DEF IInv

\* get_future() makes the first reader of a promise's state.
LEMMA GetFutureInv ==
    ASSUME IInv, TypeOK', NEW p \in Promise, NEW f \in Future, get_future(p, f)
    PROVE  IInv'
<1> USE DEF shared, handles, history
<1>0. TypeOK /\ FrameOK /\ AllocatedOK /\ SingleWriter /\ SingleReader /\ NoLostWakeup
      BY DEF IInv
<1>a. /\ promise[p] \in State /\ ~retrieved[promise[p]] /\ future[f] = NoState
      /\ retrieved' = [retrieved EXCEPT ![promise[p]] = TRUE]
      /\ future' = [future EXCEPT ![f] = promise[p]]
      BY <1>0 DEF get_future, TypeOK
<1>b. /\ \A r \in State : is_ready(r)' <=> is_ready(r)
      /\ UNCHANGED <<allocated, cont, output, promise, thr, asleep>>
      BY DEF get_future, is_ready
<1>c. \A t \in Thread : thr[t].fu # f
      BY <1>0, <1>a DEF FrameOK
<1>1. FrameOK'
      BY <1>0, <1>a, <1>b, <1>c DEF FrameOK, TypeOK, Idle
<1>2. AllocatedOK'
      BY <1>0, <1>a, <1>b DEF AllocatedOK, TypeOK
<1>3. SingleWriter'
      BY <1>0, <1>b, WritersShrink DEF PromiseWrites, PendingWrites, ThreadWrites
<1>4. SingleReader'
      <2>1. \A g \in Future, r \in State : FutureReads(g, r)' => FutureReads(g, r) \/ (g = f /\ r = promise[p])
            BY <1>0, <1>a, <1>b DEF FutureReads, TypeOK
      <2>2. \A t \in Thread, r \in State : ThreadReads(t, r)' => ThreadReads(t, r)
            BY <1>b DEF ThreadReads, GetReads, AttachReads, OutReads
      <2>3. \A r \in State : Unretrieved(r)' => Unretrieved(r) /\ r # promise[p]
            BY <1>0, <1>a, <1>b DEF Unretrieved, TypeOK
      <2>4. Unretrieved(promise[p])
            BY <1>a DEF Unretrieved
      <2> QED BY <1>0, <1>a, <1>b, <2>1, <2>2, <2>3, <2>4 DEF SingleReader
<1>5. NoLostWakeup'
      BY <1>0, <1>b DEF NoLostWakeup, FrameOK, Waiting, TypeOK
<1> QED BY <1>1, <1>2, <1>3, <1>4, <1>5 DEF IInv

\* A step that moves a reader between the future g and the thread t keeps
\* SingleReader.
LEMMA ReaderMoves ==
    ASSUME SingleReader, NEW g \in Future, NEW t \in Thread,
           \A f \in Future \ {g}, s \in State : FutureReads(f, s)' => FutureReads(f, s),
           \A u \in Thread \ {t}, s \in State : ThreadReads(u, s)' => ThreadReads(u, s),
           \A s \in State : FutureReads(g, s)' => FutureReads(g, s) \/ ThreadReads(t, s),
           \A s \in State : ThreadReads(t, s)' => FutureReads(g, s) \/ ThreadReads(t, s),
           \A s \in State : ~(FutureReads(g, s)' /\ ThreadReads(t, s)'),
           \A s \in State : Unretrieved(s)' => Unretrieved(s),
           \A s \in State : is_ready(s)' <=> is_ready(s),
           cont' = cont
    PROVE  SingleReader'
BY DEF SingleReader

\* The parts of the inductive invariant that a step keeps when it changes only
\* what one thread executes, the futures and the sleeping threads, and when the
\* thread does not become a writer.
LEMMA LocalStep ==
    ASSUME IInv, TypeOK', NEW t \in Thread,
           UNCHANGED <<allocated, current_state, retrieved, cont, output, promise>>,
           \A u \in Thread : u # t => thr'[u] = thr[u],
           thr'[t].pc \in Executing => thr[t].pc \in Executing /\ thr'[t].out = thr[t].out,
           thr'[t].st \in allocated \cup {NoState},
           thr'[t].out \in allocated \cup {NoState},
           \A f \in Future : future'[f] \in allocated \cup {NoState},
           \A u \in asleep' : (u \in asleep /\ u # t) \/ (u = t /\ ~is_ready(thr'[t].st))
    PROVE  /\ AllocatedOK' /\ SingleWriter' /\ NoLostWakeup'
           /\ \A r \in State : is_ready(r)' <=> is_ready(r)
           /\ \A r \in State : Unretrieved(r)' => Unretrieved(r)
<1>0. TypeOK /\ FrameOK /\ AllocatedOK /\ SingleWriter /\ SingleReader /\ NoLostWakeup
      BY DEF IInv
<1>1. \A r \in State : is_ready(r)' <=> is_ready(r)
      BY DEF is_ready
<1>2. AllocatedOK'
      BY <1>0, <1>1 DEF AllocatedOK
<1>3. SingleWriter'
      <2>1. \A p \in Promise, o \in State : PromiseWrites(p, o)' => PromiseWrites(p, o)
            BY DEF PromiseWrites
      <2>2. \A s, o \in State : PendingWrites(s, o)' => PendingWrites(s, o)
            BY <1>1 DEF PendingWrites
      <2>3. \A u \in Thread, o \in State : ThreadWrites(u, o)' => ThreadWrites(u, o)
            BY DEF ThreadWrites, Executing
      <2> QED BY <1>0, <1>1, <2>1, <2>2, <2>3, WritersShrink
<1>4. NoLostWakeup'
      <2>1. \A u \in asleep' : u \in Thread
            BY DEF TypeOK
      <2> QED BY <1>0, <2>1 DEF NoLostWakeup, is_ready
<1>5. \A r \in State : Unretrieved(r)' => Unretrieved(r)
      BY DEF Unretrieved
<1> QED BY <1>1, <1>2, <1>3, <1>4, <1>5

\* A future that is in nobody's use is dropped.
LEMMA DropFutureInv ==
    ASSUME IInv, TypeOK', NEW f \in Future, DropFuture(f)
    PROVE  IInv'
<1> USE DEF shared, handles, history
<1>0. TypeOK /\ FrameOK /\ AllocatedOK /\ SingleWriter /\ SingleReader /\ NoLostWakeup
      BY DEF IInv
<1>a. /\ \A t \in Thread : thr[t].fu # f
      /\ future' = [future EXCEPT ![f] = NoState]
      /\ UNCHANGED <<allocated, current_state, retrieved, cont, output, promise, thr, asleep>>
      BY DEF DropFuture, InUse
<1>b. \A r \in State : is_ready(r)' <=> is_ready(r)
      BY <1>a DEF is_ready
<1>1. FrameOK'
      BY <1>0, <1>a, <1>b DEF FrameOK, TypeOK, Idle
<1>2. AllocatedOK'
      BY <1>0, <1>a, <1>b DEF AllocatedOK, TypeOK
<1>3. SingleWriter'
      BY <1>0, <1>a, <1>b, WritersShrink DEF PromiseWrites, PendingWrites, ThreadWrites
<1>4. SingleReader'
      <2>1. \A g \in Future, r \in State : FutureReads(g, r)' => FutureReads(g, r)
            BY <1>0, <1>a DEF FutureReads, TypeOK
      <2>2. \A t \in Thread, r \in State : ThreadReads(t, r)' => ThreadReads(t, r)
            BY <1>a DEF ThreadReads, GetReads, AttachReads, OutReads
      <2>3. \A r \in State : Unretrieved(r)' => Unretrieved(r)
            BY <1>a DEF Unretrieved
      <2> QED BY <1>0, <1>a, <1>b, <2>1, <2>2, <2>3, ReadersShrink
<1>5. NoLostWakeup'
      BY <1>0, <1>a DEF NoLostWakeup, is_ready
<1> QED BY <1>1, <1>2, <1>3, <1>4, <1>5 DEF IInv

\* The first step of wait(), wait_for() and cancel().
LEMMA EnterInv ==
    ASSUME IInv, TypeOK', NEW t \in Thread, NEW f \in Future, NEW pc \in {"wait", "wait_for", "cancel"},
           IsIdle(t), future[f] # NoState, ~InThen(f),
           thr' = [thr EXCEPT ![t] = [Idle EXCEPT !.pc = pc, !.st = future[f], !.fu = f]],
           UNCHANGED <<shared, handles, asleep>>
    PROVE  IInv'
<1> USE DEF shared, handles, Executing
<1>0. TypeOK /\ FrameOK /\ AllocatedOK /\ SingleWriter /\ SingleReader /\ NoLostWakeup
      BY DEF IInv
<1>a. /\ thr'[t].pc = pc /\ thr'[t].st = future[f] /\ thr'[t].out = NoState /\ thr'[t].fu = f
      /\ thr'[t].ct = "none"
      /\ \A u \in Thread : u # t => thr'[u] = thr[u]
      BY <1>0 DEF TypeOK, Idle
<1>b. future[f] \in State /\ thr[t].pc = "idle" /\ t \notin asleep
      BY <1>0 DEF IsIdle, TypeOK, FrameOK, Waiting
<1>c. \A u \in Thread : thr[u].pc \in {"exec", "attach", "return"} => thr[u].fu # f
      BY DEF InThen
<1>1. FrameOK'
      <2>1. \A r \in State : is_ready(r)' <=> is_ready(r)
            BY DEF is_ready
      <2> QED BY <1>0, <1>a, <1>b, <1>c, <2>1 DEF FrameOK, Waiting, TypeOK
<1>2. /\ AllocatedOK' /\ SingleWriter' /\ NoLostWakeup'
      /\ \A r \in State : is_ready(r)' <=> is_ready(r)
      /\ \A r \in State : Unretrieved(r)' => Unretrieved(r)
      <2>1. \A g \in Future : future'[g] \in allocated \cup {NoState}
            BY <1>0 DEF AllocatedOK
      <2>2. future[f] \in allocated
            BY <1>b, <2>1
      <2>3. UNCHANGED <<allocated, current_state, retrieved, cont, output, promise>>
            OBVIOUS
      <2>4. thr'[t].pc \in Executing => thr[t].pc \in Executing /\ thr'[t].out = thr[t].out
            BY <1>a
      <2>5. \A u \in asleep' : (u \in asleep /\ u # t) \/ (u = t /\ ~is_ready(thr'[t].st))
            BY <1>b
      <2>6. thr'[t].st \in allocated \cup {NoState} /\ thr'[t].out \in allocated \cup {NoState}
            BY <1>a, <2>2
      <2>7. \A u \in Thread : u # t => thr'[u] = thr[u]
            BY <1>a
      <2> QED BY <2>1, <2>3, <2>4, <2>5, <2>6, <2>7, LocalStep
<1>3. SingleReader'
      <2>1. \A g \in Future, r \in State : FutureReads(g, r)' => FutureReads(g, r)
            BY <1>a, <1>b DEF FutureReads
      <2>2. \A u \in Thread, r \in State : ThreadReads(u, r)' => ThreadReads(u, r)
            BY <1>a DEF ThreadReads, GetReads, AttachReads, OutReads
      <2> QED BY <1>0, <1>2, <2>1, <2>2, ReadersShrink
<1> QED BY <1>1, <1>2, <1>3 DEF IInv

\* get() moves the only reader of the state from the future to the thread.
LEMMA GetInv ==
    ASSUME IInv, TypeOK', NEW t \in Thread, NEW f \in Future, get(t, f)
    PROVE  IInv'
<1> USE DEF shared, handles, history, Executing
<1>0. TypeOK /\ FrameOK /\ AllocatedOK /\ SingleWriter /\ SingleReader /\ NoLostWakeup
      BY DEF IInv
<1>a. /\ thr'[t].pc = "get" /\ thr'[t].st = future[f] /\ thr'[t].out = NoState
      /\ thr'[t].fu = NoFuture /\ thr'[t].ct = "none"
      /\ \A u \in Thread : u # t => thr'[u] = thr[u]
      BY <1>0 DEF get, TypeOK, Idle
<1>b. future[f] \in State /\ thr[t].pc = "idle" /\ t \notin asleep /\ asleep' = asleep
      BY <1>0 DEF get, IsIdle, TypeOK, FrameOK, Waiting
<1>c. \A u \in Thread : thr[u].fu # f
      BY DEF get, InUse
<1>d. /\ future'[f] = NoState
      /\ \A g \in Future : g # f => future'[g] = future[g]
      BY <1>0 DEF get, TypeOK
<1>1. FrameOK'
      <2>1. \A r \in State : is_ready(r)' <=> is_ready(r)
            BY DEF get, is_ready
      <2>2. \A u \in Thread : u # t /\ thr[u].fu \in Future => future'[thr[u].fu] = future[thr[u].fu]
            BY <1>c, <1>d
      <2> QED BY <1>0, <1>a, <1>b, <2>1, <2>2 DEF FrameOK, Waiting, TypeOK
<1>2. /\ AllocatedOK' /\ SingleWriter' /\ NoLostWakeup'
      /\ \A r \in State : is_ready(r)' <=> is_ready(r)
      /\ \A r \in State : Unretrieved(r)' => Unretrieved(r)
      <2>1. \A g \in Future : future'[g] \in allocated \cup {NoState}
            BY <1>0, <1>d DEF AllocatedOK
      <2>2. future[f] \in allocated
            BY <1>0, <1>b DEF AllocatedOK
      <2>3. UNCHANGED <<allocated, current_state, retrieved, cont, output, promise>>
            BY DEF get
      <2>4. thr'[t].pc \in Executing => thr[t].pc \in Executing /\ thr'[t].out = thr[t].out
            BY <1>a
      <2>5. \A u \in asleep' : (u \in asleep /\ u # t) \/ (u = t /\ ~is_ready(thr'[t].st))
            BY <1>b
      <2>6. thr'[t].st \in allocated \cup {NoState} /\ thr'[t].out \in allocated \cup {NoState}
            BY <1>a, <2>2
      <2>7. \A u \in Thread : u # t => thr'[u] = thr[u]
            BY <1>a
      <2> QED BY <2>1, <2>3, <2>4, <2>5, <2>6, <2>7, LocalStep
<1>3. SingleReader'
      <2>1. \A g \in Future \ {f}, r \in State : FutureReads(g, r)' => FutureReads(g, r)
            BY <1>a, <1>b, <1>d DEF FutureReads
      <2>2. \A r \in State : ~FutureReads(f, r)'
            BY <1>d DEF FutureReads
      <2>3. \A u \in Thread \ {t}, r \in State : ThreadReads(u, r)' => ThreadReads(u, r)
            BY <1>a DEF ThreadReads, GetReads, AttachReads, OutReads
      <2>4. \A r \in State : ThreadReads(t, r)' => FutureReads(f, r)
            BY <1>a, <1>c DEF ThreadReads, GetReads, AttachReads, OutReads, FutureReads
      <2>5. cont' = cont
            BY DEF get
      <2> QED BY <1>0, <1>2, <2>1, <2>2, <2>3, <2>4, <2>5, ReaderMoves
<1> QED BY <1>1, <1>2, <1>3 DEF IInv

\* A thread leaves the library: a call returns, a time-out expires, or an
\* exception unwinds the stack.
LEMMA LeaveInv ==
    ASSUME IInv, TypeOK', NEW t \in Thread, thr[t].pc # "return",
           thr' = [thr EXCEPT ![t] = Idle],
           asleep' \subseteq asleep \ {t},
           UNCHANGED <<allocated, current_state, retrieved, cont, output, promise, future>>
    PROVE  IInv'
<1> USE DEF Executing
<1>0. TypeOK /\ FrameOK /\ AllocatedOK /\ SingleWriter /\ SingleReader /\ NoLostWakeup
      BY DEF IInv
<1>a. /\ thr'[t] = Idle
      /\ \A u \in Thread : u # t => thr'[u] = thr[u]
      BY <1>0 DEF TypeOK
<1>b. /\ Idle.pc = "idle" /\ Idle.st = NoState /\ Idle.out = NoState
      /\ Idle.fu = NoFuture /\ Idle.ct = "none"
      BY DEF Idle
<1>1. FrameOK'
      <2>1. \A r \in State : is_ready(r)' <=> is_ready(r)
            BY DEF is_ready
      <2>2. Idle' = Idle
            BY DEF Idle
      <2> QED BY <1>0, <1>a, <1>b, <2>1, <2>2 DEF FrameOK, Waiting, TypeOK
<1>2. /\ AllocatedOK' /\ SingleWriter' /\ NoLostWakeup'
      /\ \A r \in State : is_ready(r)' <=> is_ready(r)
      /\ \A r \in State : Unretrieved(r)' => Unretrieved(r)
      <2>1. \A g \in Future : future'[g] \in allocated \cup {NoState}
            BY <1>0 DEF AllocatedOK
      <2>2. thr'[t].pc \in Executing => thr[t].pc \in Executing /\ thr'[t].out = thr[t].out
            BY <1>a, <1>b
      <2>3. \A u \in asleep' : (u \in asleep /\ u # t) \/ (u = t /\ ~is_ready(thr'[t].st))
            OBVIOUS
      <2>4. thr'[t].st \in allocated \cup {NoState} /\ thr'[t].out \in allocated \cup {NoState}
            BY <1>a, <1>b
      <2> QED BY <1>a, <2>1, <2>2, <2>3, <2>4, LocalStep
<1>3. SingleReader'
      <2>1. \A g \in Future, r \in State : FutureReads(g, r)' => FutureReads(g, r)
            BY <1>a DEF FutureReads
      <2>2. \A u \in Thread, r \in State : ThreadReads(u, r)' => ThreadReads(u, r)
            BY <1>a, <1>b DEF ThreadReads, GetReads, AttachReads, OutReads
      <2> QED BY <1>0, <1>2, <2>1, <2>2, ReadersShrink
<1> QED BY <1>1, <1>2, <1>3 DEF IInv

\* A thread goes to sleep, only if the state is not satisfied, or wakes up.
LEMMA SleepInv ==
    ASSUME IInv, TypeOK', NEW t \in Thread,
           \/ asleep' = asleep \ {t}
           \/ asleep' = asleep \cup {t} /\ thr[t].pc \in Waiting /\ ~is_ready(thr[t].st),
           UNCHANGED <<shared, handles, thr>>
    PROVE  IInv'
<1> USE DEF shared, handles
<1>0. TypeOK /\ FrameOK /\ AllocatedOK /\ SingleWriter /\ SingleReader /\ NoLostWakeup
      BY DEF IInv
<1>a. \A r \in State : is_ready(r)' <=> is_ready(r)
      BY DEF is_ready
<1>1. FrameOK'
      <2>1. \A u \in asleep' : u \in asleep \/ thr[u].pc \in Waiting
            OBVIOUS
      <2>2. Idle' = Idle
            BY DEF Idle
      <2> QED BY <1>0, <1>a, <2>1, <2>2 DEF FrameOK
<1>2. AllocatedOK'
      BY <1>0, <1>a DEF AllocatedOK
<1>3. SingleWriter'
      BY <1>0, <1>a, WritersShrink DEF PromiseWrites, PendingWrites, ThreadWrites
<1>4. SingleReader'
      BY <1>0, <1>a, ReadersShrink
         DEF FutureReads, ThreadReads, GetReads, AttachReads, OutReads, Unretrieved
<1>5. NoLostWakeup'
      BY <1>0 DEF NoLostWakeup, is_ready
<1> QED BY <1>1, <1>2, <1>3, <1>4, <1>5 DEF IInv

\* The steps of the blocking calls.
LEMMA BlockingInv ==
    ASSUME IInv, TypeOK', NEW t \in Thread, CheckReady(t) \/ SpuriousWakeup(t) \/ TimeOut(t)
    PROVE  IInv'
<1> USE DEF shared, handles, history
<1>1. CASE CheckReady(t) /\ is_ready(thr[t].st)
      <2>1. asleep' \subseteq asleep \ {t}
            BY <1>1 DEF CheckReady
      <2> QED BY <1>1, <2>1, LeaveInv DEF CheckReady
<1>2. CASE CheckReady(t) /\ ~is_ready(thr[t].st)
      BY <1>2, SleepInv DEF CheckReady, Waiting
<1>3. CASE SpuriousWakeup(t)
      BY <1>3, SleepInv DEF SpuriousWakeup
<1>4. CASE TimeOut(t)
      <2>1. asleep' \subseteq asleep \ {t}
            BY <1>4 DEF TimeOut
      <2> QED BY <1>4, <2>1, LeaveInv DEF TimeOut
<1> QED BY <1>1, <1>2, <1>3, <1>4

\* The end of cancel().
LEMMA CancelCallInv ==
    ASSUME IInv, TypeOK', NEW t \in Thread, CancelCall(t)
    PROVE  IInv'
<1>1. t \notin asleep /\ asleep' = asleep
      BY DEF IInv, FrameOK, CancelCall, Waiting
<1> QED BY <1>1, LeaveInv DEF CancelCall, handles

\* A then() on a future whose state has a continuation throws.
LEMMA ThenThrowsInv ==
    ASSUME IInv, TypeOK', NEW t \in Thread, NEW f \in Future, then_throws(t, f)
    PROVE  IInv'
<1> USE DEF handles, history
<1>0. TypeOK /\ FrameOK /\ AllocatedOK /\ SingleWriter /\ SingleReader /\ NoLostWakeup
      BY DEF IInv
<1>a. UNCHANGED <<allocated, current_state, retrieved, cont, output, promise, future, thr, asleep>>
      BY DEF then_throws
<1>1. FrameOK'
      BY <1>0, <1>a DEF FrameOK, is_ready, Idle
<1>2. AllocatedOK'
      BY <1>0, <1>a DEF AllocatedOK, is_ready
<1>3. SingleWriter'
      BY <1>0, <1>a, WritersShrink DEF PromiseWrites, PendingWrites, ThreadWrites, is_ready
<1>4. SingleReader'
      BY <1>0, <1>a, ReadersShrink
         DEF FutureReads, ThreadReads, GetReads, AttachReads, OutReads, Unretrieved, is_ready
<1>5. NoLostWakeup'
      BY <1>0, <1>a DEF NoLostWakeup, is_ready
<1> QED BY <1>1, <1>2, <1>3, <1>4, <1>5 DEF IInv

\* then() stores the future it returns in the variable that it was called on.
LEMMA ThenReturnsInv ==
    ASSUME IInv, TypeOK', NEW t \in Thread, then_returns(t)
    PROVE  IInv'
<1> USE DEF shared, handles, history, Executing
<1>0. TypeOK /\ FrameOK /\ AllocatedOK /\ SingleWriter /\ SingleReader /\ NoLostWakeup
      BY DEF IInv
<1>a. /\ thr'[t] = Idle
      /\ \A u \in Thread : u # t => thr'[u] = thr[u]
      /\ UNCHANGED <<allocated, current_state, retrieved, cont, output, promise, asleep>>
      BY <1>0 DEF then_returns, TypeOK
<1>b. /\ Idle.pc = "idle" /\ Idle.st = NoState /\ Idle.out = NoState
      /\ Idle.fu = NoFuture /\ Idle.ct = "none"
      BY DEF Idle
<1>c. PICK f \in Future : f = thr[t].fu
      BY <1>0 DEF FrameOK, then_returns
<1>d. /\ thr[t].pc = "return" /\ thr[t].out \in State
      /\ future'[f] = thr[t].out
      /\ \A g \in Future : g # f => future'[g] = future[g]
      BY <1>0, <1>c DEF FrameOK, TypeOK, then_returns
<1>e. \A u \in Thread : u # t => thr[u].fu # f
      BY <1>0, <1>c, <1>d DEF FrameOK
<1>f. t \notin asleep
      BY <1>0, <1>d DEF FrameOK, Waiting
<1>1. FrameOK'
      <2>1. \A r \in State : is_ready(r)' <=> is_ready(r)
            BY <1>a DEF is_ready
      <2>2. Idle' = Idle
            BY DEF Idle
      <2>3. \A u \in Thread : u # t /\ thr[u].fu \in Future => future'[thr[u].fu] = future[thr[u].fu]
            BY <1>d, <1>e
      <2> QED BY <1>0, <1>a, <1>b, <1>f, <2>1, <2>2, <2>3 DEF FrameOK, Waiting, TypeOK
<1>2. /\ AllocatedOK' /\ SingleWriter' /\ NoLostWakeup'
      /\ \A r \in State : is_ready(r)' <=> is_ready(r)
      /\ \A r \in State : Unretrieved(r)' => Unretrieved(r)
      <2>1. \A g \in Future : future'[g] \in allocated \cup {NoState}
            BY <1>0, <1>d DEF AllocatedOK
      <2>2. thr'[t].pc \in Executing => thr[t].pc \in Executing /\ thr'[t].out = thr[t].out
            BY <1>a, <1>b
      <2>3. \A u \in asleep' : (u \in asleep /\ u # t) \/ (u = t /\ ~is_ready(thr'[t].st))
            BY <1>a, <1>f
      <2>4. thr'[t].st \in allocated \cup {NoState} /\ thr'[t].out \in allocated \cup {NoState}
            BY <1>a, <1>b
      <2> QED BY <1>a, <2>1, <2>2, <2>3, <2>4, LocalStep
<1>3. SingleReader'
      <2>1. \A g \in Future \ {f}, r \in State : FutureReads(g, r)' => FutureReads(g, r)
            BY <1>a, <1>c, <1>d DEF FutureReads
      <2>2. \A r \in State : FutureReads(f, r)' => ThreadReads(t, r)
            BY <1>c, <1>d DEF FutureReads, ThreadReads, OutReads
      <2>3. \A u \in Thread \ {t}, r \in State : ThreadReads(u, r)' => ThreadReads(u, r)
            BY <1>a DEF ThreadReads, GetReads, AttachReads, OutReads
      <2>4. \A r \in State : ~ThreadReads(t, r)'
            BY <1>a, <1>b DEF ThreadReads, GetReads, AttachReads, OutReads
      <2> QED BY <1>0, <1>2, <1>a, <2>1, <2>2, <2>3, <2>4, ReaderMoves
<1> QED BY <1>1, <1>2, <1>3 DEF IInv

\* then() creates a state with one writer, the continuation, and one reader,
\* the thread that is about to return its future.
LEMMA ThenInv ==
    ASSUME IInv, TypeOK', NEW t \in Thread, NEW f \in Future, NEW kind \in {"plain", "unwrap"},
           then(t, f, kind)
    PROVE  IInv'
<1> USE DEF handles, history, Executing
<1>0. TypeOK /\ FrameOK /\ AllocatedOK /\ SingleWriter /\ SingleReader /\ NoLostWakeup
      BY DEF IInv
<1>a. PICK o \in State \ allocated : then(t, f, kind)!5!(o)
      BY DEF then
<1>b. PICK s \in State : s = future[f]
      BY <1>0 DEF then, TypeOK
<1>c. /\ thr[t].pc = "idle" /\ cont[s] = "none" /\ s \in allocated /\ t \notin asleep
      /\ \A u \in Thread : thr[u].fu # f
      /\ UNCHANGED <<current_state, retrieved, promise, future, asleep>>
      /\ allocated' = allocated \cup {o}
      BY <1>0, <1>a, <1>b DEF then, make_continuation, IsIdle, InUse, AllocatedOK, FrameOK, Waiting
<1>d. \A r \in State : is_ready(r)' <=> is_ready(r)
      BY <1>c DEF is_ready
<1>e. /\ ~is_ready(o) /\ cont[o] = "none" /\ ~retrieved[o] /\ o # s
      BY <1>0, <1>c DEF AllocatedOK
<1>f. Idle' = Idle /\ f # NoFuture /\ Idle.fu = NoFuture
      BY DEF Idle
<1>1. CASE is_ready(s)
      <2>1. /\ thr'[t] = [pc |-> "exec", st |-> s, ct |-> kind, out |-> o, fu |-> f, pr |-> NoPromise]
            /\ \A u \in Thread : u # t => thr'[u] = thr[u]
            /\ UNCHANGED <<cont, output>>
            BY <1>0, <1>1, <1>a, <1>b DEF TypeOK
      <2>2. /\ thr'[t].pc = "exec" /\ thr'[t].st = s /\ thr'[t].ct = kind /\ thr'[t].out = o
            /\ thr'[t].fu = f
            BY <2>1
      <2>3. FrameOK'
            BY <1>0, <1>1, <1>b, <1>c, <1>d, <1>f, <2>1, <2>2 DEF FrameOK, Waiting, Continuation, TypeOK
      <2>4. AllocatedOK'
            BY <1>0, <1>c, <1>d, <2>1, <2>2 DEF AllocatedOK
      <2>5. SingleWriter'
            <3>1. \A p \in Promise, r \in State : PromiseWrites(p, r)' => PromiseWrites(p, r)
                  BY <1>c DEF PromiseWrites
            <3>2. \A q, r \in State : PendingWrites(q, r)' => PendingWrites(q, r)
                  BY <1>d, <2>1 DEF PendingWrites
            <3>3. \A u \in Thread, r \in State :
                     ThreadWrites(u, r)' => ThreadWrites(u, r) \/ (u = t /\ r = o)
                  BY <2>1, <2>2 DEF ThreadWrites
            <3> QED BY <1>0, <1>d, <1>e, <3>1, <3>2, <3>3, KnownAllocated DEF SingleWriter
      <2>6. SingleReader'
            <3>1. \A g \in Future, r \in State : FutureReads(g, r)' => FutureReads(g, r)
                  BY <1>c, <2>1, <2>2 DEF FutureReads
            <3>2. \A u \in Thread, r \in State : ThreadReads(u, r)' => ThreadReads(u, r) \/ (u = t /\ r = o)
                  BY <2>1, <2>2 DEF ThreadReads, GetReads, AttachReads, OutReads
            <3>3. \A r \in State : Unretrieved(r)' => Unretrieved(r)
                  BY <1>c DEF Unretrieved
            <3> QED BY <1>0, <1>d, <1>e, <2>1, <3>1, <3>2, <3>3, KnownAllocated DEF SingleReader
      <2>7. NoLostWakeup'
            BY <1>0, <1>c, <1>d, <2>1 DEF NoLostWakeup, is_ready, TypeOK
      <2> QED BY <2>3, <2>4, <2>5, <2>6, <2>7 DEF IInv
<1>2. CASE ~is_ready(s)
      <2>1. /\ thr'[t] = [pc |-> "return", st |-> s, ct |-> "none", out |-> o, fu |-> f, pr |-> NoPromise]
            /\ \A u \in Thread : u # t => thr'[u] = thr[u]
            BY <1>0, <1>2, <1>a, <1>b DEF TypeOK
      <2>2. /\ thr'[t].pc = "return" /\ thr'[t].st = s /\ thr'[t].ct = "none" /\ thr'[t].out = o
            /\ thr'[t].fu = f
            BY <2>1
      <2>3. /\ cont'[s] = kind /\ output'[s] = o
            /\ \A r \in State : r # s => cont'[r] = cont[r] /\ output'[r] = output[r]
            BY <1>0, <1>2, <1>a, <1>b DEF TypeOK
      <2>4. FrameOK'
            BY <1>0, <1>b, <1>c, <1>d, <1>f, <2>1, <2>2 DEF FrameOK, Waiting, TypeOK
      <2>5. AllocatedOK'
            <3>1. \A r \in State \ allocated' : ~is_ready(r)' /\ cont'[r] = "none" /\ ~retrieved'[r]
                  BY <1>0, <1>c, <1>d, <2>3 DEF AllocatedOK
            <3>2. \A r \in State : cont'[r] # "none" => output'[r] \in allocated'
                  BY <1>0, <1>c, <2>3 DEF AllocatedOK
            <3> QED BY <1>0, <1>c, <2>1, <2>2, <3>1, <3>2 DEF AllocatedOK
      <2>6. SingleWriter'
            <3>1. \A p \in Promise, r \in State : PromiseWrites(p, r)' => PromiseWrites(p, r)
                  BY <1>c DEF PromiseWrites
            <3>2. \A q, r \in State : PendingWrites(q, r)' => PendingWrites(q, r) \/ (q = s /\ r = o)
                  BY <1>d, <2>3 DEF PendingWrites
            <3>3. \A u \in Thread, r \in State : ThreadWrites(u, r)' => ThreadWrites(u, r)
                  BY <2>1, <2>2 DEF ThreadWrites
            <3> QED BY <1>0, <1>d, <1>e, <3>1, <3>2, <3>3, KnownAllocated DEF SingleWriter
      <2>7. SingleReader'
            <3>1. \A g \in Future, r \in State : FutureReads(g, r)' => FutureReads(g, r) /\ g # f
                  BY <1>c, <2>1, <2>2 DEF FutureReads
            <3>2. \A u \in Thread, r \in State : ThreadReads(u, r)' => ThreadReads(u, r) \/ (u = t /\ r = o)
                  BY <2>1, <2>2 DEF ThreadReads, GetReads, AttachReads, OutReads
            <3>3. \A r \in State : Unretrieved(r)' => Unretrieved(r)
                  BY <1>c DEF Unretrieved
            <3>4. FutureReads(f, s)
                  BY <1>b, <1>c DEF FutureReads
            <3> QED BY <1>0, <1>d, <1>e, <2>3, <3>1, <3>2, <3>3, <3>4, KnownAllocated DEF SingleReader
      <2>8. NoLostWakeup'
            BY <1>0, <1>c, <1>d, <2>1 DEF NoLostWakeup, is_ready, TypeOK
      <2> QED BY <2>4, <2>5, <2>6, <2>7, <2>8 DEF IInv
<1> QED BY <1>1, <1>2

\* A thread that executes a continuation is about to satisfy its output.
LEMMA ExecFacts ==
    ASSUME IInv, NEW t \in Thread, thr[t].pc \in Executing
    PROVE  /\ thr[t].st \in State /\ thr[t].st \in allocated
           /\ thr[t].out \in State /\ ~is_ready(thr[t].out)
           /\ thr[t].pr \in Promise \cup {NoPromise}
           /\ t \notin asleep
<1>1. thr[t].st \in State /\ thr[t].out \in State /\ t \notin asleep
      BY DEF IInv, FrameOK, Executing, Waiting
<1>2. thr[t].st \in allocated
      BY <1>1 DEF IInv, AllocatedOK
<1>3. ThreadWrites(t, thr[t].out)
      BY DEF ThreadWrites, Executing
<1>4. ~is_ready(thr[t].out)
      BY <1>1, <1>3 DEF IInv, SingleWriter
<1> QED BY <1>1, <1>2, <1>4 DEF IInv, TypeOK, Frame

\* continuation::execute()
LEMMA ExecPlainInv ==
    ASSUME IInv, TypeOK', NEW t \in Thread, ExecPlain(t)
    PROVE  IInv'
<1>1. thr[t].pc = "exec"
      BY DEF ExecPlain
<1>2. /\ thr[t].st \in allocated /\ is_ready(thr[t].st)
      /\ thr[t].out \in State /\ ~is_ready(thr[t].out) /\ t \notin asleep
      BY <1>1, ExecFacts DEF Executing, IInv, FrameOK
<1>3. CASE Unwind(t) /\ UNCHANGED <<current_state, asleep, future>>
      BY <1>1, <1>2, <1>3, LeaveInv DEF ExecPlain, Unwind
<1>4. CASE \E what \in Satisfied : /\ SatisfyAndNotify(t, thr[t].out, what, thr[t].pr)
                                   /\ UNCHANGED future
      BY <1>1, <1>2, <1>4, SatisfyInv DEF ExecPlain
<1>5. CASE /\ \E g \in Future : future[g] = NoState /\ future' = [future EXCEPT ![g] = thr[t].st]
           /\ SatisfyAndNotify(t, thr[t].out, "has_value", thr[t].pr)
      BY <1>1, <1>2, <1>5, SatisfyInv DEF ExecPlain, Satisfied
<1> QED BY <1>3, <1>4, <1>5 DEF ExecPlain, Satisfied

\* continuation::execute() with the unwrapper.
LEMMA ExecForwardInv ==
    ASSUME IInv, TypeOK', NEW t \in Thread, ExecForward(t)
    PROVE  IInv'
<1>1. thr[t].pc = "exec"
      BY DEF ExecForward
<1>2. /\ thr[t].st \in State /\ is_ready(thr[t].st)
      /\ thr[t].out \in State /\ ~is_ready(thr[t].out) /\ t \notin asleep
      BY <1>1, ExecFacts DEF Executing, IInv, FrameOK
<1>3. CASE Unwind(t) /\ UNCHANGED <<current_state, asleep>>
      BY <1>1, <1>2, <1>3, LeaveInv DEF ExecForward, Unwind, handles
<1>4. CASE SatisfyAndNotify(t, thr[t].out, current_state[thr[t].st], thr[t].pr)
      <2>1. current_state[thr[t].st] \in Satisfied
            BY <1>2 DEF IInv, TypeOK, is_ready
      <2> QED BY <1>1, <1>2, <1>4, <2>1, SatisfyInv DEF ExecForward, handles
<1> QED BY <1>3, <1>4 DEF ExecForward

\* unwrapping_continuation::execute() up to the functor's return: the future
\* that the functor returns is moved to the thread.
LEMMA ExecUnwrapInv ==
    ASSUME IInv, TypeOK', NEW t \in Thread, ExecUnwrap(t)
    PROVE  IInv'
<1> USE DEF Executing
<1>0. TypeOK /\ FrameOK /\ AllocatedOK /\ SingleWriter /\ SingleReader /\ NoLostWakeup
      BY DEF IInv
<1>1. thr[t].pc = "exec"
      BY DEF ExecUnwrap
<1>2. /\ thr[t].st \in State /\ thr[t].st \in allocated /\ is_ready(thr[t].st)
      /\ thr[t].out \in State /\ ~is_ready(thr[t].out) /\ t \notin asleep
      BY <1>0, <1>1, ExecFacts DEF FrameOK
<1>3. UNCHANGED <<allocated, retrieved, cont, output, promise>>
      BY DEF ExecUnwrap
<1>4. CASE \E what \in Satisfied : /\ SatisfyAndNotify(t, thr[t].out, what, thr[t].pr)
                                   /\ UNCHANGED future
      BY <1>1, <1>2, <1>3, <1>4, SatisfyInv
<1>5. ASSUME UNCHANGED <<current_state, asleep>>, NEW s \in State, s \in allocated,
             thr' = [thr EXCEPT ![t] = [@ EXCEPT !.pc = "attach", !.st = s]],
             \A f \in Future : future'[f] \in {future[f], NoState},
             \A u \in Thread : thr[u].fu \in Future => future'[thr[u].fu] = future[thr[u].fu],
             thr[t].fu # NoFuture => s # thr[t].out
      PROVE  /\ FrameOK' /\ AllocatedOK' /\ SingleWriter' /\ NoLostWakeup'
             /\ \A r \in State : is_ready(r)' <=> is_ready(r)
             /\ \A r \in State : Unretrieved(r)' => Unretrieved(r)
             /\ thr'[t].pc = "attach" /\ thr'[t].st = s /\ thr'[t].out = thr[t].out
             /\ thr'[t].fu = thr[t].fu
             /\ \A u \in Thread : u # t => thr'[u] = thr[u]
      <2>1. /\ thr'[t].pc = "attach" /\ thr'[t].st = s /\ thr'[t].out = thr[t].out
            /\ thr'[t].fu = thr[t].fu
            /\ \A u \in Thread : u # t => thr'[u] = thr[u]
            BY <1>0, <1>5 DEF TypeOK, Frame
      <2>2. FrameOK'
            <3>1. \A r \in State : is_ready(r)' <=> is_ready(r)
                  BY <1>5 DEF is_ready
            <3>2. Idle' = Idle
                  BY DEF Idle
            <3> QED BY <1>0, <1>1, <1>2, <1>5, <2>1, <3>1, <3>2 DEF FrameOK, Waiting
      <2>3. /\ AllocatedOK' /\ SingleWriter' /\ NoLostWakeup'
            /\ \A r \in State : is_ready(r)' <=> is_ready(r)
            /\ \A r \in State : Unretrieved(r)' => Unretrieved(r)
            <3>1. UNCHANGED <<allocated, current_state, retrieved, cont, output, promise>>
                  BY <1>3, <1>5
            <3>2. thr'[t].pc \in Executing => thr[t].pc \in Executing /\ thr'[t].out = thr[t].out
                  BY <1>1, <2>1
            <3>3. thr'[t].st \in allocated \cup {NoState} /\ thr'[t].out \in allocated \cup {NoState}
                  BY <1>0, <1>5, <2>1 DEF AllocatedOK
            <3>4. \A f \in Future : future'[f] \in allocated \cup {NoState}
                  BY <1>0, <1>5 DEF AllocatedOK
            <3>5. \A u \in asleep' : (u \in asleep /\ u # t) \/ (u = t /\ ~is_ready(thr'[t].st))
                  BY <1>2, <1>5
            <3> QED BY <2>1, <3>1, <3>2, <3>3, <3>4, <3>5, LocalStep
      <2> QED BY <2>1, <2>2, <2>3
<1>6. ASSUME NEW g \in Future, future[g] # NoState, ~InUse(g),
             future' = [future EXCEPT ![g] = NoState],
             thr' = [thr EXCEPT ![t] = [@ EXCEPT !.pc = "attach", !.st = future[g]]],
             UNCHANGED <<current_state, asleep>>
      PROVE  IInv'
      <2>1. future[g] \in State /\ future[g] \in allocated
            BY <1>0, <1>6 DEF TypeOK, AllocatedOK
      <2>2. \A u \in Thread : thr[u].fu # g
            BY <1>6 DEF InUse
      <2>3. FutureReads(g, future[g])
            BY <2>2 DEF FutureReads
      <2>4. thr[t].fu # NoFuture => future[g] # thr[t].out
            <3>1. thr[t].fu # NoFuture => ThreadReads(t, thr[t].out)
                  BY <1>1 DEF ThreadReads, OutReads
            <3> QED BY <1>0, <1>2, <2>3, <3>1 DEF SingleReader
      <2>5. /\ future'[g] = NoState
            /\ \A f \in Future : f # g => future'[f] = future[f]
            BY <1>0, <1>6 DEF TypeOK
      <2>6. /\ FrameOK' /\ AllocatedOK' /\ SingleWriter' /\ NoLostWakeup'
            /\ \A r \in State : is_ready(r)' <=> is_ready(r)
            /\ \A r \in State : Unretrieved(r)' => Unretrieved(r)
            /\ thr'[t].pc = "attach" /\ thr'[t].st = future[g] /\ thr'[t].out = thr[t].out
            /\ thr'[t].fu = thr[t].fu
            /\ \A u \in Thread : u # t => thr'[u] = thr[u]
            BY <1>5, <1>6, <2>1, <2>2, <2>4, <2>5
      <2>7. SingleReader'
            <3>1. \A f \in Future \ {g}, r \in State : FutureReads(f, r)' => FutureReads(f, r)
                  BY <1>1, <2>5, <2>6 DEF FutureReads
            <3>2. \A r \in State : ~FutureReads(g, r)'
                  BY <2>5 DEF FutureReads
            <3>3. \A u \in Thread \ {t}, r \in State : ThreadReads(u, r)' => ThreadReads(u, r)
                  BY <2>6 DEF ThreadReads, GetReads, AttachReads, OutReads
            <3>4. \A r \in State : ThreadReads(t, r)' => FutureReads(g, r) \/ ThreadReads(t, r)
                  BY <1>1, <2>3, <2>6 DEF ThreadReads, GetReads, AttachReads, OutReads
            <3> QED BY <1>0, <1>3, <2>6, <3>1, <3>2, <3>3, <3>4, ReaderMoves
      <2> QED BY <2>6, <2>7 DEF IInv
<1>7. ASSUME thr' = [thr EXCEPT ![t] = [@ EXCEPT !.pc = "attach"]],
             UNCHANGED <<current_state, asleep, future>>
      PROVE  IInv'
      <2>1. [thr[t] EXCEPT !.pc = "attach"] = [thr[t] EXCEPT !.pc = "attach", !.st = thr[t].st]
            BY <1>0 DEF TypeOK, Frame
      <2>2. thr' = [thr EXCEPT ![t] = [@ EXCEPT !.pc = "attach", !.st = thr[t].st]]
            BY <1>7, <2>1
      <2>3. thr[t].st # thr[t].out
            BY <1>2
      <2>4. /\ FrameOK' /\ AllocatedOK' /\ SingleWriter' /\ NoLostWakeup'
            /\ \A r \in State : is_ready(r)' <=> is_ready(r)
            /\ \A r \in State : Unretrieved(r)' => Unretrieved(r)
            /\ thr'[t].pc = "attach" /\ thr'[t].st = thr[t].st /\ thr'[t].out = thr[t].out
            /\ thr'[t].fu = thr[t].fu
            /\ \A u \in Thread : u # t => thr'[u] = thr[u]
            BY <1>2, <1>5, <1>7, <2>2, <2>3
      <2>5. SingleReader'
            <3>1. \A f \in Future, r \in State : FutureReads(f, r)' => FutureReads(f, r)
                  BY <1>1, <1>7, <2>4 DEF FutureReads
            <3>2. \A u \in Thread, r \in State : ~is_ready(r)' /\ ThreadReads(u, r)' => ThreadReads(u, r)
                  BY <1>1, <1>2, <2>4 DEF ThreadReads, GetReads, AttachReads, OutReads
            <3> QED BY <1>0, <1>3, <2>4, <3>1, <3>2, ReadersShrink
      <2> QED BY <2>4, <2>5 DEF IInv
<1> QED BY <1>4, <1>6, <1>7 DEF ExecUnwrap, Satisfied

\* The unwrapper becomes the continuation of the intermediate state.
LEMMA AttachInv ==
    ASSUME IInv, TypeOK', NEW t \in Thread, Attach(t)
    PROVE  IInv'
<1> USE DEF Executing, handles
<1>0. TypeOK /\ FrameOK /\ AllocatedOK /\ SingleWriter /\ SingleReader /\ NoLostWakeup
      BY DEF IInv
<1>a. thr[t].pc = "attach"
      BY DEF Attach
<1>b. /\ thr[t].st \in State /\ thr[t].st \in allocated
      /\ thr[t].out \in State /\ ~is_ready(thr[t].out) /\ t \notin asleep
      BY <1>a, ExecFacts
<1>c. UNCHANGED <<allocated, current_state, retrieved, promise, future, asleep>>
      BY DEF Attach
<1>d. \A r \in State : is_ready(r)' <=> is_ready(r)
      BY <1>c DEF is_ready
<1>1. CASE Unwind(t) /\ UNCHANGED <<cont, output>>
      BY <1>1, <1>a, <1>b, <1>c, LeaveInv DEF Unwind
<1>2. CASE /\ is_ready(thr[t].st)
           /\ thr' = [thr EXCEPT ![t] = [@ EXCEPT !.pc = "exec", !.ct = "forward"]]
           /\ UNCHANGED <<cont, output>>
      <2>1. /\ thr'[t].pc = "exec" /\ thr'[t].st = thr[t].st /\ thr'[t].out = thr[t].out
            /\ thr'[t].fu = thr[t].fu /\ thr'[t].ct = "forward"
            /\ \A u \in Thread : u # t => thr'[u] = thr[u]
            BY <1>0, <1>2 DEF TypeOK, Frame
      <2>2. FrameOK'
            <3>1. Idle' = Idle
                  BY DEF Idle
            <3> QED BY <1>0, <1>2, <1>a, <1>b, <1>c, <1>d, <2>1, <3>1 DEF FrameOK, Waiting, Continuation
      <2>3. /\ AllocatedOK' /\ SingleWriter' /\ NoLostWakeup'
            /\ \A r \in State : Unretrieved(r)' => Unretrieved(r)
            <3>1. UNCHANGED <<allocated, current_state, retrieved, cont, output, promise>>
                  BY <1>2, <1>c
            <3>2. thr'[t].pc \in Executing => thr[t].pc \in Executing /\ thr'[t].out = thr[t].out
                  BY <1>a, <2>1
            <3>3. thr'[t].st \in allocated \cup {NoState} /\ thr'[t].out \in allocated \cup {NoState}
                  BY <1>0, <2>1 DEF AllocatedOK
            <3>4. \A f \in Future : future'[f] \in allocated \cup {NoState}
                  BY <1>0, <1>c DEF AllocatedOK
            <3>5. \A u \in asleep' : (u \in asleep /\ u # t) \/ (u = t /\ ~is_ready(thr'[t].st))
                  BY <1>b, <1>c
            <3> QED BY <2>1, <3>1, <3>2, <3>3, <3>4, <3>5, LocalStep
      <2>4. SingleReader'
            <3>1. \A f \in Future, r \in State : FutureReads(f, r)' => FutureReads(f, r)
                  BY <1>a, <1>c, <2>1 DEF FutureReads
            <3>2. \A u \in Thread, r \in State : ThreadReads(u, r)' => ThreadReads(u, r)
                  BY <1>a, <2>1 DEF ThreadReads, GetReads, AttachReads, OutReads
            <3> QED BY <1>0, <1>2, <1>d, <2>3, <3>1, <3>2, ReadersShrink
      <2> QED BY <2>2, <2>3, <2>4 DEF IInv
<1>3. CASE /\ cont[thr[t].st] = "none" /\ ~is_ready(thr[t].st)
           /\ cont' = [cont EXCEPT ![thr[t].st] = "forward"]
           /\ output' = [output EXCEPT ![thr[t].st] = thr[t].out]
           /\ Finish(t)
      <2>s. PICK s \in State : s = thr[t].st
            BY <1>b
      <2>o. PICK o \in State : o = thr[t].out
            BY <1>b
      <2>1. /\ thr[t].fu = NoFuture => thr'[t] = Idle
            /\ thr[t].fu # NoFuture => /\ thr'[t].pc = "return" /\ thr'[t].st = s
                                       /\ thr'[t].out = o /\ thr'[t].fu = thr[t].fu
            /\ \A u \in Thread : u # t => thr'[u] = thr[u]
            BY <2>s, <2>o, <1>0, <1>3 DEF Finish, TypeOK, Frame
      <2>2. /\ Idle' = Idle /\ Idle.pc = "idle" /\ Idle.fu = NoFuture
            /\ Idle.st = NoState /\ Idle.out = NoState
            BY DEF Idle
      <2>3. /\ cont'[s] = "forward" /\ output'[s] = o
            /\ \A r \in State : r # s => cont'[r] = cont[r] /\ output'[r] = output[r]
            BY <2>s, <2>o, <1>0, <1>3, <1>b DEF TypeOK
      <2>4. o \in allocated
            BY <2>s, <2>o, <1>0, <1>b DEF AllocatedOK
      <2>5. thr[t].fu # NoFuture => thr[t].fu \in Future /\ s # o
            BY <2>s, <2>o, <1>0, <1>a DEF FrameOK, TypeOK, Frame
      <2>6. FrameOK'
            <3>1. CASE thr[t].fu = NoFuture
                  BY <2>s, <2>o, <1>0, <1>b, <1>c, <1>d, <2>1, <2>2, <3>1 DEF FrameOK, Waiting
            <3>2. CASE thr[t].fu # NoFuture
                  BY <2>s, <2>o, <1>0, <1>a, <1>b, <1>c, <1>d, <2>1, <2>2, <2>5, <3>2 DEF FrameOK, Waiting
            <3> QED BY <3>1, <3>2
      <2>7. AllocatedOK'
            <3>1. \A r \in State \ allocated' : ~is_ready(r)' /\ cont'[r] = "none" /\ ~retrieved'[r]
                  BY <2>s, <2>o, <1>0, <1>b, <1>c, <1>d, <2>3 DEF AllocatedOK
            <3>2. \A r \in State : cont'[r] # "none" => output'[r] \in allocated'
                  BY <1>0, <1>c, <2>3, <2>4 DEF AllocatedOK
            <3>3. \A u \in Thread : thr'[u].st \in allocated' \cup {NoState}
                                    /\ thr'[u].out \in allocated' \cup {NoState}
                  BY <2>s, <2>o, <1>0, <1>b, <1>c, <2>1, <2>2, <2>4 DEF AllocatedOK
            <3> QED BY <1>0, <1>c, <3>1, <3>2, <3>3 DEF AllocatedOK
      <2>8. SingleWriter'
            <3>1. \A p \in Promise, r \in State : PromiseWrites(p, r)' => PromiseWrites(p, r)
                  BY <1>c DEF PromiseWrites
            <3>2. \A q, r \in State : PendingWrites(q, r)' => PendingWrites(q, r) \/ (q = s /\ r = o)
                  BY <1>d, <2>3 DEF PendingWrites
            <3>3. \A u \in Thread, r \in State : ThreadWrites(u, r)' => u # t /\ ThreadWrites(u, r)
                  BY <2>1, <2>2 DEF ThreadWrites
            <3>4. ThreadWrites(t, o)
                  BY <2>s, <2>o, <1>a DEF ThreadWrites
            <3> QED BY <1>0, <1>d, <1>b, <3>1, <3>2, <3>3, <3>4 DEF SingleWriter
      <2>9. SingleReader'
            <3>1. \A f \in Future, r \in State : FutureReads(f, r)' => FutureReads(f, r)
                  BY <1>a, <1>c, <2>1, <2>2 DEF FutureReads
            <3>2. \A u \in Thread, r \in State : ThreadReads(u, r)' => ThreadReads(u, r)
                  BY <2>s, <2>o, <1>a, <2>1, <2>2 DEF ThreadReads, GetReads, AttachReads, OutReads
            <3>3. \A r \in State : Unretrieved(r)' => Unretrieved(r)
                  BY <1>c DEF Unretrieved
            <3>4. ThreadReads(t, s) /\ ~ThreadReads(t, s)'
                  BY <2>s, <2>o, <1>a, <2>1, <2>2, <2>5 DEF ThreadReads, GetReads, AttachReads, OutReads
            <3>5. \A r \in State : cont'[r] # "none" => cont[r] # "none" \/ r = s
                  BY <2>3
            <3>6. /\ \A f \in Future : ~FutureReads(f, s)
                  /\ \A u \in Thread : ThreadReads(u, s) => u = t
                  /\ ~Unretrieved(s)
                  BY <2>s, <2>o, <1>0, <1>3, <1>b, <3>4 DEF SingleReader
            <3> QED BY <1>0, <1>d, <3>1, <3>2, <3>3, <3>4, <3>5, <3>6 DEF SingleReader
      <2>10. NoLostWakeup'
            BY <1>0, <1>b, <1>c, <2>1 DEF NoLostWakeup, is_ready, TypeOK
      <2> QED BY <2>6, <2>7, <2>8, <2>9, <2>10 DEF IInv
<1> QED BY <1>1, <1>2, <1>3 DEF Attach

\* Every step keeps the inductive invariant.
LEMMA InvStep == IInv /\ [Next]_vars => IInv'
<1> SUFFICES ASSUME IInv, [Next]_vars PROVE IInv'
    OBVIOUS
<1>0. TypeOK'
      BY TypeStep DEF IInv
<1>1. CASE UNCHANGED vars
      BY <1>0, <1>1 DEF vars, shared, handles, history, IInv, TypeOK, FrameOK,
         AllocatedOK, SingleWriter, SingleReader, NoLostWakeup, is_ready, PromiseWrites, PendingWrites,
         ThreadWrites, FutureReads, ThreadReads, GetReads, AttachReads, OutReads, Unretrieved, Idle
<1>2. ASSUME NEW p \in Promise, PromiseStep(p) PROVE IInv'
      <2>1. ASSUME NEW t \in Thread, NEW what \in Satisfied, set(t, p, what) PROVE IInv'
            <3>1. promise[p] \in State
                  BY <2>1 DEF set, IInv, TypeOK
            <3>2. UNCHANGED <<allocated, retrieved, cont, output, promise, future>>
                  BY <2>1 DEF set, handles
            <3> QED BY <1>0, <2>1, <3>1, <3>2, SatisfyInv DEF set, IsIdle
      <2> QED BY <1>0, <1>2, <2>1, MakePromiseInv, DestroyPromiseInv, MovePromiseInv, GetFutureInv
              DEF PromiseStep, set_value, set_exception, Satisfied
<1>3. ASSUME NEW f \in Future, DropFuture(f) PROVE IInv'
      BY <1>0, <1>3, DropFutureInv
<1>4. ASSUME NEW t \in Thread, NEW f \in Future, Call(t, f) PROVE IInv'
      <2>1. CASE wait(t, f)
            BY <1>0, <2>1, EnterInv DEF wait, Wait
      <2>2. CASE wait_for(t, f)
            BY <1>0, <2>2, EnterInv DEF wait_for, Wait
      <2>3. CASE cancel(t, f)
            BY <1>0, <2>3, EnterInv DEF cancel
      <2> QED BY <1>0, <1>4, <2>1, <2>2, <2>3, GetInv, ThenInv, ThenThrowsInv DEF Call
<1>5. ASSUME NEW t \in Thread, Step(t) \/ SpuriousWakeup(t) \/ TimeOut(t) PROVE IInv'
      BY <1>0, <1>5, BlockingInv, ThenReturnsInv, ExecPlainInv, ExecUnwrapInv, AttachInv,
         ExecForwardInv, CancelCallInv DEF Step
<1> QED BY <1>1, <1>2, <1>3, <1>4, <1>5 DEF Next

\* The inductive invariant holds in every behaviour of the library under the
\* client contract: single writer, single reader, no lost wake-up.
THEOREM Invariant == Spec => []IInv
<1>1. Init => IInv
      BY InitInv
<1>2. IInv /\ [Next]_vars => IInv'
      BY InvStep
<1> QED BY <1>1, <1>2, PTL DEF Spec

\* Every variable keeps its type: no thread reads through a null shared state.
THEOREM TypeCorrect == Spec => []TypeOK
<1>1. IInv => TypeOK
      BY DEF IInv
<1> QED BY <1>1, Invariant, PTL

\* An unsatisfied shared state has one writer, so that set_value() and
\* set_exception() inside execute() never throw promise_already_satisfied.
THEOREM OneWriter == Spec => []SingleWriter
<1>1. IInv => SingleWriter
      BY DEF IInv
<1> QED BY <1>1, Invariant, PTL

\* No thread sleeps on a satisfied shared state, although notify_now() does not
\* notify when there is a continuation.
THEOREM WakeUps == Spec => []NoLostWakeup
<1>1. IInv => NoLostWakeup
      BY DEF IInv
<1> QED BY <1>1, Invariant, PTL

\* The comment in notify_now(): nobody waits for an unsatisfied state that has
\* a continuation.
THEOREM NoWaiter == Spec => []NoWaiterWithContinuation
<1>1. IInv => NoWaiterWithContinuation
      BY WaiterLemma
<1> QED BY <1>1, Invariant, PTL
-----------------------------------------------------------------------------
\* The initial state satisfies the invariants on the histories.
LEMMA InitHistory == Init => FunctorOnce /\ ContinuationNotForgotten /\ CancelInv
<1> SUFFICES ASSUME Init PROVE FunctorOnce /\ ContinuationNotForgotten /\ CancelInv
    OBVIOUS
<1> USE DEF Init, Idle
<1>1. FunctorOnce
      BY DEF FunctorOnce, ClientFunctor
<1>2. ContinuationNotForgotten
      BY DEF ContinuationNotForgotten, is_ready
<1>3. ~\E s \in State : Continued(s)
      BY DEF Continued
<1>4. CancelInv
      BY <1>3 DEF CancelInv, ContinuedOK, CallbackOK, CancelExclusive, Executing
<1> QED BY <1>1, <1>2, <1>4

\* A step that runs no functor, attaches no continuation and satisfies a state
\* only by abandoning it.
LEMMA QuietFunctors ==
    ASSUME IInv, FunctorOnce, ContinuationNotForgotten,
           UNCHANGED <<input, runs, cont, output>>,
           allocated \subseteq allocated',
           \A r \in State : is_ready(r) => is_ready(r)',
           \A r \in State \ abandoned' : r \notin abandoned /\ (is_ready(r)' => is_ready(r)),
           \A p \in Promise : \/ promise'[p] \notin allocated
                              \/ \E q \in Promise : promise'[p] = promise[q],
           \A u \in Thread : thr[u].pc \in Executing \/ thr'[u].pc \in Executing => thr'[u] = thr[u]
    PROVE  (FunctorOnce /\ ContinuationNotForgotten)'
<1>1. FunctorOnce'
      <2>1. \A s \in State : /\ runs'[s] \in {0, 1}
                             /\ input'[s] = NoState => runs'[s] = 0
                             /\ s \notin allocated' => input'[s] = NoState
            BY DEF FunctorOnce
      <2>2. \A p \in Promise : promise'[p] \in State => input'[promise'[p]] = NoState
            BY DEF FunctorOnce
      <2>3. \A s \in State :
              /\ cont'[s] \in ClientFunctor => /\ input'[output'[s]] = s
                                               /\ ~is_ready(s)' => runs'[output'[s]] = 0
              /\ cont'[s] = "forward" => runs'[output'[s]] = 1
            BY DEF FunctorOnce
      <2>4. ASSUME NEW u \in Thread
            PROVE  /\ thr'[u].pc = "exec" /\ thr'[u].ct \in ClientFunctor =>
                        input'[thr'[u].out] = thr'[u].st /\ runs'[thr'[u].out] = 0
                   /\ thr'[u].pc = "attach" \/ (thr'[u].pc = "exec" /\ thr'[u].ct = "forward") =>
                        runs'[thr'[u].out] = 1
            <3>1. thr'[u].pc \in {"exec", "attach"} => thr'[u] = thr[u]
                  BY DEF Executing
            <3> QED BY <3>1 DEF FunctorOnce
      <2> QED BY <2>1, <2>2, <2>3, <2>4 DEF FunctorOnce, ClientFunctor
<1>2. ContinuationNotForgotten'
      BY DEF ContinuationNotForgotten, Executing
<1> QED BY <1>1, <1>2
\* Satisfying a state: its continuation, if any, goes to the thread.  The
\* thread may have run the functor whose result it stores.
LEMMA SatisfyFunctors ==
    ASSUME IInv, FunctorOnce, ContinuationNotForgotten,
           NEW t \in Thread, NEW s \in State, NEW what \in Satisfied, NEW pr,
           ~is_ready(s),
           \/ /\ thr[t].pc = "idle" /\ (\E p \in Promise : promise[p] = s)
              /\ runs' = runs
           \/ /\ thr[t].pc = "exec" /\ thr[t].ct = "forward" /\ thr[t].out = s
              /\ runs' = runs
           \/ /\ thr[t].pc = "exec" /\ thr[t].ct \in ClientFunctor /\ thr[t].out = s
              /\ runs' = [runs EXCEPT ![s] = 1],
           SatisfyAndNotify(t, s, what, pr),
           UNCHANGED <<allocated, cont, output, promise, input, abandoned>>
    PROVE  (FunctorOnce /\ ContinuationNotForgotten)'
<1>0. TypeOK /\ FrameOK /\ AllocatedOK /\ SingleWriter
      BY DEF IInv
<1>1. /\ \A r \in State : is_ready(r)' <=> is_ready(r) \/ r = s
      /\ \A u \in Thread : u # t => thr'[u] = thr[u]
      BY <1>0 DEF SatisfyAndNotify, Finish, is_ready, TypeOK, Satisfied
<1>2. \/ /\ thr'[t].pc = "exec" /\ thr'[t].st = s /\ thr'[t].ct = cont[s]
         /\ thr'[t].out = output[s] /\ cont[s] # "none"
      \/ thr'[t].pc \in {"idle", "return"} /\ cont[s] = "none"
      BY <1>0 DEF SatisfyAndNotify, Finish, Idle, TypeOK, Frame
<1>3. cont[s] # "none" => output[s] \in State /\ output[s] # s
      BY <1>0 DEF AllocatedOK, TypeOK, SingleWriter, PendingWrites, PromiseWrites, ThreadWrites
<1>4. \A o \in State : \/ runs'[o] = runs[o]
                       \/ /\ o = s /\ runs'[o] = 1 /\ thr[t].pc = "exec" /\ thr[t].out = s
                          /\ thr[t].ct \in ClientFunctor
      BY <1>0 DEF TypeOK
<1>5. \A r \in State : PendingWrites(r, s) /\ ThreadWrites(t, s) => FALSE
      BY <1>0 DEF SingleWriter
<1>6. \A u \in Thread : ThreadWrites(u, s) /\ ThreadWrites(t, s) => u = t
      BY <1>0 DEF SingleWriter
<1>7. \A o \in State : /\ runs'[o] \in {0, 1}
                       /\ input'[o] = NoState => runs'[o] = 0
                       /\ o \notin allocated' => input'[o] = NoState
      <2> SUFFICES ASSUME NEW o \in State PROVE <1>7!(o)
          OBVIOUS
      <2>1. CASE runs'[o] = runs[o]
            BY <2>1 DEF FunctorOnce
      <2>2. CASE o = s /\ runs'[o] = 1 /\ thr[t].pc = "exec" /\ thr[t].out = s /\ thr[t].ct \in ClientFunctor
            <3>1. input[s] \in State
                  BY <1>0, <2>2 DEF FunctorOnce, FrameOK
            <3> QED BY <2>2, <3>1 DEF FunctorOnce
      <2> QED BY <1>4, <2>1, <2>2
<1>8. \A p \in Promise : promise'[p] \in State => input'[promise'[p]] = NoState
      BY DEF FunctorOnce
<1>9. \A r \in State :
          /\ cont'[r] \in ClientFunctor => /\ input'[output'[r]] = r
                                           /\ ~is_ready(r)' => runs'[output'[r]] = 0
          /\ cont'[r] = "forward" => runs'[output'[r]] = 1
      <2> SUFFICES ASSUME NEW r \in State, cont[r] # "none" PROVE <1>9!(r)
          BY DEF ClientFunctor
      <2>1. output[r] \in State
            BY <1>0 DEF AllocatedOK, TypeOK
      <2>2. CASE runs'[output[r]] = runs[output[r]]
            BY <1>1, <2>2 DEF FunctorOnce
      <2>3. CASE output[r] = s /\ runs'[s] = 1 /\ thr[t].pc = "exec" /\ thr[t].out = s
            <3>1. ThreadWrites(t, s)
                  BY <2>3 DEF ThreadWrites
            <3>2. is_ready(r)
                  BY <1>5, <2>3, <3>1 DEF PendingWrites
            <3> QED BY <1>1, <2>3, <3>2 DEF FunctorOnce
      <2> QED BY <1>4, <2>1, <2>2, <2>3
<1>10. \A u \in Thread :
          /\ thr'[u].pc = "exec" /\ thr'[u].ct \in ClientFunctor =>
                input'[thr'[u].out] = thr'[u].st /\ runs'[thr'[u].out] = 0
          /\ thr'[u].pc = "attach" \/ (thr'[u].pc = "exec" /\ thr'[u].ct = "forward") =>
                runs'[thr'[u].out] = 1
      <2> SUFFICES ASSUME NEW u \in Thread, thr'[u].pc \in {"exec", "attach"} PROVE <1>10!(u)
          OBVIOUS
      <2>1. CASE u = t
            <3>1. /\ thr'[t].pc = "exec" /\ thr'[t].st = s /\ thr'[t].ct = cont[s]
                  /\ thr'[t].out = output[s] /\ cont[s] # "none"
                  BY <1>2, <2>1
            <3>2. runs'[output[s]] = runs[output[s]]
                  BY <1>3, <1>4, <3>1
            <3> QED BY <2>1, <3>1, <3>2 DEF FunctorOnce
      <2>2. CASE u # t
            <3>1. thr'[u] = thr[u] /\ thr[u].out \in State
                  BY <1>0, <1>1, <2>2 DEF FrameOK, Executing
            <3>2. runs'[thr[u].out] = runs[thr[u].out]
                  BY <1>4, <1>6, <2>2, <3>1 DEF ThreadWrites
            <3> QED BY <3>1, <3>2 DEF FunctorOnce
      <2> QED BY <2>1, <2>2
<1>11. FunctorOnce'
      BY <1>7, <1>8, <1>9, <1>10 DEF FunctorOnce, ClientFunctor
<1>12. ContinuationNotForgotten'
      <2> SUFFICES ASSUME NEW r \in State \ abandoned, is_ready(r)', cont[r] \in {"plain", "unwrap"}
                   PROVE  \/ runs'[output[r]] = 1
                          \/ \E u \in Thread : /\ thr'[u].pc = "exec" /\ thr'[u].st = r
                                               /\ thr'[u].out = output[r]
          BY DEF ContinuationNotForgotten
      <2>1. CASE r = s
            BY <1>2, <2>1
      <2>2. CASE is_ready(r)
            <3>1. output[r] \in State
                  BY <1>0 DEF AllocatedOK, TypeOK
            <3>2. CASE runs[output[r]] = 1
                  BY <1>4, <3>1, <3>2
            <3>3. ASSUME NEW u \in Thread, thr[u].pc = "exec", thr[u].st = r, thr[u].out = output[r],
                         runs[output[r]] # 1
                  PROVE  \/ runs'[output[r]] = 1
                         \/ \E v \in Thread : /\ thr'[v].pc = "exec" /\ thr'[v].st = r
                                              /\ thr'[v].out = output[r]
                  <4>1. CASE u # t
                        BY <1>1, <3>3, <4>1
                  <4>2. CASE u = t
                        <5>1. thr[t].ct \in ClientFunctor
                              BY <3>3, <4>2 DEF FunctorOnce, FrameOK
                        <5>2. runs' = [runs EXCEPT ![s] = 1] /\ output[r] = s
                              BY <3>3, <4>2, <5>1 DEF ClientFunctor
                        <5> QED BY <1>0, <5>2 DEF TypeOK
                  <4> QED BY <4>1, <4>2
            <3> QED BY <2>2, <3>2, <3>3 DEF ContinuationNotForgotten
      <2> QED BY <1>1, <2>1, <2>2
<1> QED BY <1>11, <1>12

\* A functor runs and its result is not stored by the same step: it threw a
\* std::future_error, or returned a future.
LEMMA RunFunctors ==
    ASSUME IInv, FunctorOnce, ContinuationNotForgotten, NEW t \in Thread,
           thr[t].pc = "exec", thr[t].ct \in ClientFunctor,
           runs' = [runs EXCEPT ![thr[t].out] = 1],
           UNCHANGED <<allocated, cont, output, promise, input, abandoned, current_state>>,
           \A u \in Thread : u # t => thr'[u] = thr[u],
           \/ thr'[t].pc = "idle"
           \/ thr'[t].pc = "attach" /\ thr'[t].out = thr[t].out
    PROVE  (FunctorOnce /\ ContinuationNotForgotten)'
<1>0. TypeOK /\ FrameOK /\ AllocatedOK /\ SingleWriter
      BY DEF IInv
<1> DEFINE o == thr[t].out
<1>1. o \in State /\ input[o] \in State /\ ThreadWrites(t, o)
      BY <1>0 DEF FrameOK, Executing, FunctorOnce, ThreadWrites
<1> HIDE DEF o
<1>2. \A r \in State : runs'[r] = IF r = o THEN 1 ELSE runs[r]
      BY <1>0 DEF TypeOK, o
<1>3. \A r \in State : is_ready(r)' <=> is_ready(r)
      BY DEF is_ready
<1>4. \A r \in State : /\ runs'[r] \in {0, 1}
                       /\ input'[r] = NoState => runs'[r] = 0
                       /\ r \notin allocated' => input'[r] = NoState
      BY <1>1, <1>2 DEF FunctorOnce
<1>5. \A p \in Promise : promise'[p] \in State => input'[promise'[p]] = NoState
      BY DEF FunctorOnce
<1>6. \A r \in State :
          /\ cont'[r] \in ClientFunctor => /\ input'[output'[r]] = r
                                           /\ ~is_ready(r)' => runs'[output'[r]] = 0
          /\ cont'[r] = "forward" => runs'[output'[r]] = 1
      <2> SUFFICES ASSUME NEW r \in State, cont[r] # "none" PROVE <1>6!(r)
          BY DEF ClientFunctor
      <2>1. output[r] \in State
            BY <1>0 DEF AllocatedOK, TypeOK
      <2>2. ~is_ready(r) => output[r] # o
            BY <1>0, <1>1 DEF SingleWriter, PendingWrites
      <2> QED BY <1>2, <1>3, <2>1, <2>2 DEF FunctorOnce
<1>7. \A u \in Thread :
          /\ thr'[u].pc = "exec" /\ thr'[u].ct \in ClientFunctor =>
                input'[thr'[u].out] = thr'[u].st /\ runs'[thr'[u].out] = 0
          /\ thr'[u].pc = "attach" \/ (thr'[u].pc = "exec" /\ thr'[u].ct = "forward") =>
                runs'[thr'[u].out] = 1
      <2> SUFFICES ASSUME NEW u \in Thread, thr'[u].pc \in {"exec", "attach"} PROVE <1>7!(u)
          OBVIOUS
      <2>1. CASE u = t
            BY <1>1, <1>2, <2>1 DEF o
      <2>2. CASE u # t
            <3>1. thr'[u] = thr[u] /\ thr[u].out \in State
                  BY <1>0, <2>2 DEF FrameOK, Executing
            <3>2. thr[u].out # o
                  BY <1>0, <1>1, <2>2, <3>1 DEF SingleWriter, ThreadWrites
            <3> QED BY <1>2, <3>1, <3>2 DEF FunctorOnce
      <2> QED BY <2>1, <2>2
<1>8. FunctorOnce'
      BY <1>4, <1>5, <1>6, <1>7 DEF FunctorOnce, ClientFunctor
<1>9. ContinuationNotForgotten'
      <2> SUFFICES ASSUME NEW r \in State \ abandoned, is_ready(r), cont[r] \in {"plain", "unwrap"}
                   PROVE  \/ runs'[output[r]] = 1
                          \/ \E u \in Thread : /\ thr'[u].pc = "exec" /\ thr'[u].st = r
                                               /\ thr'[u].out = output[r]
          BY <1>3 DEF ContinuationNotForgotten
      <2>1. output[r] \in State
            BY <1>0 DEF AllocatedOK, TypeOK
      <2>2. CASE runs[output[r]] = 1
            BY <1>2, <2>1, <2>2
      <2>3. ASSUME NEW u \in Thread, thr[u].pc = "exec", thr[u].st = r, thr[u].out = output[r]
            PROVE  \/ runs'[output[r]] = 1
                   \/ \E v \in Thread : /\ thr'[v].pc = "exec" /\ thr'[v].st = r
                                        /\ thr'[v].out = output[r]
            BY <1>2, <2>1, <2>3 DEF o
      <2> QED BY <2>2, <2>3 DEF ContinuationNotForgotten
<1> QED BY <1>8, <1>9
\* The unwrapper is attached, executed or given up: its functor has run before.
LEMMA ForwardFunctors ==
    ASSUME IInv, FunctorOnce, ContinuationNotForgotten, NEW t \in Thread,
           thr[t].pc = "attach" \/ (thr[t].pc = "exec" /\ thr[t].ct = "forward"),
           UNCHANGED <<allocated, promise, input, runs, abandoned, current_state>>,
           \A u \in Thread : u # t => thr'[u] = thr[u],
           \/ thr'[t].pc \in {"idle", "return"}
           \/ thr'[t].pc = "exec" /\ thr'[t].ct = "forward" /\ thr'[t].out = thr[t].out,
           \A r \in State : \/ cont'[r] = cont[r] /\ output'[r] = output[r]
                            \/ cont'[r] = "forward" /\ output'[r] = thr[t].out
    PROVE  (FunctorOnce /\ ContinuationNotForgotten)'
<1>1. runs[thr[t].out] = 1
      BY DEF FunctorOnce
<1>2. \A r \in State : is_ready(r)' <=> is_ready(r)
      BY DEF is_ready
<1>3. \A r \in State :
          /\ cont'[r] \in ClientFunctor => /\ input'[output'[r]] = r
                                           /\ ~is_ready(r)' => runs'[output'[r]] = 0
          /\ cont'[r] = "forward" => runs'[output'[r]] = 1
      BY <1>1, <1>2 DEF FunctorOnce, ClientFunctor
<1>4. \A u \in Thread :
          /\ thr'[u].pc = "exec" /\ thr'[u].ct \in ClientFunctor =>
                input'[thr'[u].out] = thr'[u].st /\ runs'[thr'[u].out] = 0
          /\ thr'[u].pc = "attach" \/ (thr'[u].pc = "exec" /\ thr'[u].ct = "forward") =>
                runs'[thr'[u].out] = 1
      <2> SUFFICES ASSUME NEW u \in Thread PROVE <1>4!(u)
          OBVIOUS
      <2>1. CASE u = t
            BY <1>1, <2>1 DEF ClientFunctor
      <2>2. CASE u # t
            BY <2>2 DEF FunctorOnce
      <2> QED BY <2>1, <2>2
<1>5. FunctorOnce'
      BY <1>3, <1>4 DEF FunctorOnce, ClientFunctor
<1>6. ContinuationNotForgotten'
      <2> SUFFICES ASSUME NEW r \in State \ abandoned, is_ready(r), cont[r] \in {"plain", "unwrap"},
                          cont'[r] = cont[r], output'[r] = output[r]
                   PROVE  \/ runs[output[r]] = 1
                          \/ \E u \in Thread : /\ thr'[u].pc = "exec" /\ thr'[u].st = r
                                               /\ thr'[u].out = output[r]
          BY <1>2 DEF ContinuationNotForgotten
      <2> QED BY <1>1 DEF ContinuationNotForgotten
<1> QED BY <1>5, <1>6

\* then() attaches the functor to the state, or hands it to the thread.
LEMMA ThenFunctors ==
    ASSUME IInv, FunctorOnce, ContinuationNotForgotten, NEW t \in Thread, NEW f \in Future,
           NEW kind \in ClientFunctor, then(t, f, kind)
    PROVE  (FunctorOnce /\ ContinuationNotForgotten)'
<1>0. TypeOK /\ FrameOK /\ AllocatedOK
      BY DEF IInv
<1>1. PICK o \in State \ allocated : then(t, f, kind)!5!(o)
      BY DEF then
<1> DEFINE s == future[f]
<1>2. s \in State /\ s \in allocated /\ cont[s] = "none" /\ thr[t].pc = "idle"
      BY <1>0 DEF then, TypeOK, AllocatedOK, IsIdle
<1>3. UNCHANGED <<current_state, promise, runs, abandoned>>
      BY DEF then, handles
<1>4. \A r \in State : is_ready(r)' <=> is_ready(r)
      BY <1>3 DEF is_ready
<1>5. /\ allocated' = allocated \cup {o}
      /\ input' = [input EXCEPT ![o] = s]
      /\ \/ /\ is_ready(s)
            /\ thr' = [thr EXCEPT ![t] = [pc |-> "exec", st |-> s, ct |-> kind, out |-> o,
                                          fu |-> f, pr |-> NoPromise]]
            /\ UNCHANGED <<cont, output>>
         \/ /\ ~is_ready(s)
            /\ cont' = [cont EXCEPT ![s] = kind]
            /\ output' = [output EXCEPT ![s] = o]
            /\ thr' = [thr EXCEPT ![t] = [pc |-> "return", st |-> s, ct |-> "none", out |-> o,
                                          fu |-> f, pr |-> NoPromise]]
      BY <1>1 DEF make_continuation
<1> HIDE DEF s
<1>6. /\ \A r \in State : r # o => input'[r] = input[r]
      /\ input'[o] = s /\ runs[o] = 0 /\ input[o] = NoState
      BY <1>0, <1>5 DEF TypeOK, FunctorOnce
<1>7. /\ \A u \in Thread : u # t => thr'[u] = thr[u]
      /\ \/ /\ is_ready(s) /\ thr'[t].pc = "exec" /\ thr'[t].ct = kind
            /\ thr'[t].st = s /\ thr'[t].out = o
         \/ thr'[t].pc = "return"
      BY <1>0, <1>5 DEF TypeOK
<1>8. \A r \in State : \/ cont'[r] = cont[r] /\ output'[r] = output[r]
                       \/ r = s /\ ~is_ready(s) /\ cont'[r] = kind /\ output'[r] = o
      BY <1>0, <1>5 DEF TypeOK
<1>9. \A r \in State : /\ runs'[r] \in {0, 1}
                       /\ input'[r] = NoState => runs'[r] = 0
                       /\ r \notin allocated' => input'[r] = NoState
      BY <1>2, <1>3, <1>5, <1>6 DEF FunctorOnce
<1>10. \A p \in Promise : promise'[p] \in State => input'[promise'[p]] = NoState
      BY <1>0, <1>3, <1>6 DEF FunctorOnce, AllocatedOK
<1>11. \A r \in State :
          /\ cont'[r] \in ClientFunctor => /\ input'[output'[r]] = r
                                           /\ ~is_ready(r)' => runs'[output'[r]] = 0
          /\ cont'[r] = "forward" => runs'[output'[r]] = 1
      <2> SUFFICES ASSUME NEW r \in State, cont'[r] # "none" PROVE <1>11!(r)
          BY DEF ClientFunctor
      <2>1. CASE cont'[r] = cont[r] /\ output'[r] = output[r]
            <3>1. output[r] \in allocated
                  BY <1>0, <2>1 DEF AllocatedOK
            <3> QED BY <1>0, <1>3, <1>4, <1>6, <2>1, <3>1 DEF FunctorOnce, TypeOK
      <2>2. CASE r = s /\ cont'[r] = kind /\ output'[r] = o
            BY <1>3, <1>6, <2>2 DEF ClientFunctor
      <2> QED BY <1>8, <2>1, <2>2
<1>12. \A u \in Thread :
          /\ thr'[u].pc = "exec" /\ thr'[u].ct \in ClientFunctor =>
                input'[thr'[u].out] = thr'[u].st /\ runs'[thr'[u].out] = 0
          /\ thr'[u].pc = "attach" \/ (thr'[u].pc = "exec" /\ thr'[u].ct = "forward") =>
                runs'[thr'[u].out] = 1
      <2> SUFFICES ASSUME NEW u \in Thread, thr'[u].pc \in {"exec", "attach"} PROVE <1>12!(u)
          OBVIOUS
      <2>1. CASE u = t
            BY <1>3, <1>6, <1>7, <2>1 DEF ClientFunctor
      <2>2. CASE u # t
            <3>1. thr'[u] = thr[u] /\ thr[u].out \in State /\ thr[u].out \in allocated
                  BY <1>0, <1>7, <2>2 DEF FrameOK, AllocatedOK, Executing
            <3> QED BY <1>3, <1>6, <3>1 DEF FunctorOnce
      <2> QED BY <2>1, <2>2
<1>13. FunctorOnce'
      BY <1>9, <1>10, <1>11, <1>12 DEF FunctorOnce, ClientFunctor
<1>14. ContinuationNotForgotten'
      BY <1>2, <1>3, <1>4, <1>7, <1>8 DEF ContinuationNotForgotten
<1> QED BY <1>13, <1>14

\* What unwrapping_continuation::execute() does to the thread, field by field.
LEMMA UnwrapEffect ==
    ASSUME IInv, NEW t \in Thread, ExecUnwrap(t)
    PROVE  /\ thr[t].pc = "exec" /\ thr[t].ct = "unwrap" /\ CountRun(t)
           /\ UNCHANGED <<allocated, retrieved, callback, cont, output, promise, input, abandoned>>
           /\ \/ \E what \in Satisfied : /\ SatisfyAndNotify(t, thr[t].out, what, thr[t].pr)
                                         /\ UNCHANGED future
              \/ /\ UNCHANGED current_state
                 /\ \A u \in Thread : u # t => thr'[u] = thr[u]
                 /\ thr'[t].pc = "attach" /\ thr'[t].out = thr[t].out /\ thr'[t].fu = thr[t].fu
                 /\ \/ /\ future' = future /\ thr'[t].st = thr[t].st
                    \/ \E g \in Future : /\ future[g] # NoState /\ ~InUse(g)
                                         /\ future' = [future EXCEPT ![g] = NoState]
                                         /\ thr'[t].st = future[g]
<1> DEFINE Fields(s) == /\ \A u \in Thread : u # t => thr'[u] = thr[u]
                        /\ thr'[t].pc = "attach" /\ thr'[t].out = thr[t].out
                        /\ thr'[t].fu = thr[t].fu /\ thr'[t].st = s
           Stored == \E what \in Satisfied : /\ SatisfyAndNotify(t, thr[t].out, what, thr[t].pr)
                                             /\ UNCHANGED future
           Returned == \E g \in Future :
                          /\ future[g] # NoState /\ ~InUse(g)
                          /\ future' = [future EXCEPT ![g] = NoState]
                          /\ thr' = [thr EXCEPT ![t] = [@ EXCEPT !.pc = "attach", !.st = future[g]]]
<1>1. /\ thr[t].pc = "exec" /\ thr[t].ct = "unwrap" /\ CountRun(t)
      /\ UNCHANGED <<allocated, retrieved, callback, cont, output, promise, input, abandoned>>
      <2>1. UNCHANGED <<allocated, retrieved, cancelled, callback, cont, output, promise, input, abandoned>>
            BY Zenon DEF ExecUnwrap
      <2>2. thr[t].pc = "exec" /\ thr[t].ct = "unwrap" /\ CountRun(t)
            BY Zenon DEF ExecUnwrap
      <2> QED BY <2>1, <2>2
<1>2. \/ Stored
      \/ Returned /\ UNCHANGED current_state
      \/ /\ thr' = [thr EXCEPT ![t] = [@ EXCEPT !.pc = "attach"]]
         /\ UNCHANGED <<current_state, future>>
      BY Zenon DEF ExecUnwrap, Satisfied
<1>3. ASSUME NEW s, thr' = [thr EXCEPT ![t] = [@ EXCEPT !.pc = "attach", !.st = s]] PROVE Fields(s)
      BY <1>3 DEF IInv, TypeOK, Frame
<1>4. ASSUME thr' = [thr EXCEPT ![t] = [@ EXCEPT !.pc = "attach"]] PROVE Fields(thr[t].st)
      BY <1>4 DEF IInv, TypeOK, Frame
<1>5. CASE Stored
      BY <1>1, <1>5
<1>6. CASE Returned /\ UNCHANGED current_state
      <2>1. PICK g \in Future : /\ future[g] # NoState /\ ~InUse(g)
                                /\ future' = [future EXCEPT ![g] = NoState]
                                /\ thr' = [thr EXCEPT ![t] = [@ EXCEPT !.pc = "attach", !.st = future[g]]]
            BY Zenon, <1>6
      <2>2. Fields(future[g])
            BY Zenon, <1>3, <2>1
      <2>3. /\ future[g] # NoState /\ ~InUse(g)
            /\ future' = [future EXCEPT ![g] = NoState]
            BY <2>1
      <2> QED BY Zenon, <1>1, <1>6, <2>2, <2>3
<1>7. CASE /\ thr' = [thr EXCEPT ![t] = [@ EXCEPT !.pc = "attach"]]
           /\ UNCHANGED <<current_state, future>>
      <2>1. Fields(thr[t].st)
            BY <1>4, <1>7
      <2> QED BY Zenon, <1>1, <1>7, <2>1
<1> QED BY Zenon, <1>2, <1>5, <1>6, <1>7

\* What attaching the unwrapper does to the thread, field by field.
LEMMA AttachEffect ==
    ASSUME IInv, NEW t \in Thread, Attach(t)
    PROVE  /\ thr[t].pc = "attach" /\ thr[t].st \in State
           /\ UNCHANGED <<allocated, current_state, retrieved, callback, promise, future, input, runs, abandoned>>
           /\ \A u \in Thread : u # t => thr'[u] = thr[u]
           /\ \/ thr'[t].pc = "idle" /\ UNCHANGED <<cont, output>>
              \/ /\ thr'[t].pc = "exec" /\ thr'[t].ct = "forward" /\ thr'[t].st = thr[t].st
                 /\ thr'[t].out = thr[t].out /\ thr'[t].fu = thr[t].fu
                 /\ UNCHANGED <<cont, output>>
              \/ /\ cont[thr[t].st] = "none" /\ ~is_ready(thr[t].st)
                 /\ cont' = [cont EXCEPT ![thr[t].st] = "forward"]
                 /\ output' = [output EXCEPT ![thr[t].st] = thr[t].out]
                 /\ \/ thr'[t].pc = "idle"
                    \/ thr'[t].pc = "return" /\ thr'[t].out = thr[t].out /\ thr'[t].fu = thr[t].fu
<1>1. /\ thr[t].pc = "attach" /\ thr[t].st \in State
      /\ UNCHANGED <<allocated, current_state, retrieved, callback, promise, future, input, runs, abandoned>>
      BY DEF Attach, handles, IInv, FrameOK
<1>2. \/ Unwind(t) /\ UNCHANGED <<cont, output>>
      \/ /\ thr' = [thr EXCEPT ![t] = [@ EXCEPT !.pc = "exec", !.ct = "forward"]]
         /\ UNCHANGED <<cont, output>>
      \/ /\ cont[thr[t].st] = "none" /\ ~is_ready(thr[t].st)
         /\ cont' = [cont EXCEPT ![thr[t].st] = "forward"]
         /\ output' = [output EXCEPT ![thr[t].st] = thr[t].out]
         /\ Finish(t)
      BY Zenon DEF Attach
<1>3. CASE Unwind(t) /\ UNCHANGED <<cont, output>>
      BY <1>1, <1>3 DEF Unwind, Idle, IInv, TypeOK
<1>4. CASE /\ thr' = [thr EXCEPT ![t] = [@ EXCEPT !.pc = "exec", !.ct = "forward"]]
           /\ UNCHANGED <<cont, output>>
      <2>1. /\ \A u \in Thread : u # t => thr'[u] = thr[u]
            /\ thr'[t].pc = "exec" /\ thr'[t].ct = "forward" /\ thr'[t].st = thr[t].st
            /\ thr'[t].out = thr[t].out /\ thr'[t].fu = thr[t].fu
            BY <1>4 DEF IInv, TypeOK, Frame
      <2> QED BY Zenon, <1>1, <1>4, <2>1
<1>5. CASE /\ cont[thr[t].st] = "none" /\ ~is_ready(thr[t].st)
           /\ cont' = [cont EXCEPT ![thr[t].st] = "forward"]
           /\ output' = [output EXCEPT ![thr[t].st] = thr[t].out]
           /\ Finish(t)
      <2>1. /\ \A u \in Thread : u # t => thr'[u] = thr[u]
            /\ \/ thr'[t].pc = "idle"
               \/ thr'[t].pc = "return" /\ thr'[t].out = thr[t].out /\ thr'[t].fu = thr[t].fu
            BY <1>5 DEF Finish, Idle, IInv, TypeOK, Frame
      <2> QED BY Zenon, <1>1, <1>5, <2>1
<1> QED BY <1>2, <1>3, <1>4, <1>5

\* Every step keeps the account of the functors.
LEMMA FunctorStep ==
    IInv /\ FunctorOnce /\ ContinuationNotForgotten /\ [Next]_vars
        => (FunctorOnce /\ ContinuationNotForgotten)'
<1> SUFFICES ASSUME IInv, FunctorOnce, ContinuationNotForgotten, [Next]_vars
             PROVE  (FunctorOnce /\ ContinuationNotForgotten)'
    OBVIOUS
<1> DEFINE Goal == (FunctorOnce /\ ContinuationNotForgotten)'
<1>0. TypeOK /\ FrameOK /\ AllocatedOK
      BY DEF IInv
<1>1. ASSUME UNCHANGED <<input, runs, cont, output, allocated, promise, current_state, abandoned>>,
             \A u \in Thread : thr[u].pc \in Executing \/ thr'[u].pc \in Executing => thr'[u] = thr[u]
      PROVE  Goal
      <2>1. \A r \in State : is_ready(r)' <=> is_ready(r)
            BY <1>1 DEF is_ready
      <2> HIDE DEF Goal
      <2>2. (FunctorOnce /\ ContinuationNotForgotten)'
            BY <1>1, <2>1, QuietFunctors
      <2> QED BY <2>2 DEF Goal
<1>2. ASSUME NEW p \in Promise, abandon(promise[p]), UNCHANGED <<allocated, cont, output, thr, input, runs>>,
             \A q \in Promise : promise'[q] = NoState \/ \E r \in Promise : promise'[q] = promise[r]
      PROVE  Goal
      <2>1. promise[p] \in State \cup {NoState}
            BY <1>0 DEF TypeOK
      <2>2. \A r \in State : is_ready(r)' <=> is_ready(r) \/ r = promise[p]
            BY <1>2, <2>1, AbandonFacts
      <2>3. \A r \in State \ abandoned' : r \notin abandoned /\ (is_ready(r)' => is_ready(r))
            BY <1>2, <2>2 DEF abandon, is_ready
      <2>4. NoState \notin allocated
            BY <1>0 DEF TypeOK
      <2> QED BY <1>2, <2>2, <2>3, <2>4, QuietFunctors
<1>3. CASE UNCHANGED vars
      BY <1>1, <1>3 DEF vars, shared, handles, history
<1>4. ASSUME NEW p \in Promise, PromiseStep(p) PROVE Goal
      <2>1. CASE MakePromise(p)
            <3>1. PICK s \in State \ allocated : promise' = [promise EXCEPT ![p] = s]
                                                /\ allocated' = allocated \cup {s}
                  BY <2>1 DEF MakePromise
            <3>2. /\ UNCHANGED <<current_state, cont, output, thr, input, runs, abandoned>>
                  BY <2>1 DEF MakePromise, history
            <3>3. \A r \in State : is_ready(r)' <=> is_ready(r)
                  BY <3>2 DEF is_ready
            <3>4. \A q \in Promise : promise'[q] \notin allocated \/ promise'[q] = promise[q]
                  BY <1>0, <3>1 DEF TypeOK
            <3> QED BY <3>1, <3>2, <3>3, <3>4, QuietFunctors
      <2>2. CASE DestroyPromise(p)
            BY <1>0, <1>2, <2>2 DEF DestroyPromise, TypeOK
      <2>3. ASSUME NEW q \in Promise, MovePromise(p, q) PROVE Goal
            BY <1>0, <1>2, <2>3 DEF MovePromise, TypeOK
      <2>4. ASSUME NEW f \in Future, get_future(p, f) PROVE Goal
            BY <1>1, <2>4 DEF get_future, history
      <2>5. ASSUME NEW t \in Thread, NEW what \in Satisfied, set(t, p, what) PROVE Goal
            <3>1. promise[p] \in State
                  BY <1>0, <2>5 DEF set, TypeOK
            <3> QED BY <2>5, <3>1, SatisfyFunctors DEF set, IsIdle, handles, history
      <2> QED BY <1>4, <2>1, <2>2, <2>3, <2>4, <2>5 DEF PromiseStep, set_value, set_exception, Satisfied
<1>5. ASSUME NEW f \in Future, DropFuture(f) PROVE Goal
      BY <1>1, <1>5 DEF DropFuture, shared, history
<1>6. ASSUME NEW t \in Thread, NEW f \in Future, Call(t, f) PROVE Goal
      <2>1. ASSUME NEW pc \in {"wait", "wait_for"}, Wait(t, f, pc) PROVE Goal
            BY <1>0, <1>1, <2>1 DEF Wait, shared, handles, history, IsIdle, Idle, TypeOK, Executing
      <2>2. CASE get(t, f)
            BY <1>0, <1>1, <2>2 DEF get, shared, history, IsIdle, Idle, TypeOK, Executing
      <2>3. ASSUME NEW kind \in {"plain", "unwrap"}, then(t, f, kind) PROVE Goal
            BY <2>3, ThenFunctors DEF ClientFunctor
      <2>4. CASE then_throws(t, f)
            BY <1>1, <2>4 DEF then_throws, handles, history
      <2>5. CASE cancel(t, f)
            BY <1>0, <1>1, <2>5 DEF cancel, shared, handles, history, IsIdle, Idle, TypeOK, Executing
      <2> QED BY <1>6, <2>1, <2>2, <2>3, <2>4, <2>5 DEF Call, wait, wait_for
<1>7. ASSUME NEW t \in Thread, Step(t) \/ SpuriousWakeup(t) \/ TimeOut(t) PROVE Goal
      <2>1. CASE CheckReady(t) \/ TimeOut(t) \/ CancelCall(t) \/ SpuriousWakeup(t)
            <3>1. UNCHANGED <<input, runs, cont, output, allocated, promise, current_state, abandoned>>
                  BY <2>1 DEF CheckReady, TimeOut, CancelCall, SpuriousWakeup, shared, handles, history
            <3>2. \/ thr' = thr
                  \/ thr[t].pc \notin Executing /\ thr' = [thr EXCEPT ![t] = Idle]
                  BY <2>1 DEF CheckReady, TimeOut, CancelCall, SpuriousWakeup, Executing
            <3> QED BY <1>0, <1>1, <3>1, <3>2 DEF TypeOK, Idle, Executing
      <2>2. CASE then_returns(t)
            BY <1>0, <1>1, <2>2 DEF then_returns, shared, history, TypeOK, Idle, Executing
      <2>3. CASE ExecPlain(t)
            <3>1. /\ thr[t].pc = "exec" /\ thr[t].ct \in ClientFunctor
                  /\ thr[t].out \in State /\ ~is_ready(thr[t].out)
                  BY <2>3, ExecFacts DEF ExecPlain, ClientFunctor, Executing
            <3>2. runs' = [runs EXCEPT ![thr[t].out] = 1]
                  <4>1. runs[thr[t].out] = 0
                        BY <3>1 DEF FunctorOnce
                  <4> QED BY <2>3, <4>1 DEF ExecPlain, CountRun
            <3>3. UNCHANGED <<allocated, cont, output, promise, input, abandoned>>
                  BY <2>3 DEF ExecPlain
            <3>4. CASE Unwind(t) /\ UNCHANGED current_state
                  <4>1. (\A u \in Thread : u # t => thr'[u] = thr[u]) /\ thr'[t].pc = "idle"
                        BY <1>0, <3>4 DEF Unwind, TypeOK, Idle
                  <4> QED BY <3>1, <3>2, <3>3, <3>4, <4>1, RunFunctors
            <3>5. ASSUME NEW what \in Satisfied, SatisfyAndNotify(t, thr[t].out, what, thr[t].pr)
                  PROVE  Goal
                  BY <3>1, <3>2, <3>3, <3>5, SatisfyFunctors
            <3> QED BY <2>3, <3>4, <3>5 DEF ExecPlain, Satisfied
      <2>4. CASE ExecUnwrap(t)
            <3>1. /\ thr[t].pc = "exec" /\ thr[t].ct \in ClientFunctor
                  /\ thr[t].out \in State /\ ~is_ready(thr[t].out)
                  BY <2>4, UnwrapEffect, ExecFacts DEF ClientFunctor, Executing
            <3>2. runs' = [runs EXCEPT ![thr[t].out] = 1]
                  <4>1. runs[thr[t].out] = 0
                        BY <3>1 DEF FunctorOnce
                  <4> QED BY <2>4, <4>1, UnwrapEffect DEF CountRun
            <3>3. UNCHANGED <<allocated, cont, output, promise, input, abandoned>>
                  BY <2>4, UnwrapEffect
            <3>4. ASSUME UNCHANGED current_state, \A u \in Thread : u # t => thr'[u] = thr[u],
                         thr'[t].pc = "attach", thr'[t].out = thr[t].out
                  PROVE  Goal
                  BY <3>1, <3>2, <3>3, <3>4, RunFunctors
            <3>5. ASSUME NEW what \in Satisfied, SatisfyAndNotify(t, thr[t].out, what, thr[t].pr)
                  PROVE  Goal
                  BY <3>1, <3>2, <3>3, <3>5, SatisfyFunctors
            <3> QED BY <2>4, <3>4, <3>5, UnwrapEffect
      <2>5. CASE Attach(t)
            <3>1. \A r \in State : \/ cont'[r] = cont[r] /\ output'[r] = output[r]
                                   \/ cont'[r] = "forward" /\ output'[r] = thr[t].out
                  BY <1>0, <2>5, AttachEffect DEF TypeOK
            <3> QED BY <2>5, <3>1, AttachEffect, ForwardFunctors
      <2>6. CASE ExecForward(t)
            <3>1. /\ thr[t].pc = "exec" /\ thr[t].ct = "forward" /\ thr[t].st \in State
                  /\ thr[t].out \in State /\ ~is_ready(thr[t].out) /\ is_ready(thr[t].st)
                  BY <1>0, <2>6, ExecFacts DEF ExecForward, Executing, FrameOK
            <3>2. UNCHANGED <<allocated, cont, output, promise, input, runs, abandoned>>
                  BY <2>6 DEF ExecForward, handles
            <3>3. CASE Unwind(t) /\ UNCHANGED current_state
                  <4>1. (\A u \in Thread : u # t => thr'[u] = thr[u]) /\ thr'[t].pc = "idle"
                        BY <1>0, <3>3 DEF Unwind, TypeOK, Idle
                  <4> QED BY <3>1, <3>2, <3>3, <4>1, ForwardFunctors
            <3>4. CASE SatisfyAndNotify(t, thr[t].out, current_state[thr[t].st], thr[t].pr)
                  <4>1. current_state[thr[t].st] \in Satisfied
                        BY <1>0, <3>1 DEF TypeOK, is_ready
                  <4> QED BY <3>1, <3>2, <3>4, <4>1, SatisfyFunctors
            <3> QED BY <2>6, <3>3, <3>4 DEF ExecForward
      <2> QED BY <1>7, <2>1, <2>2, <2>3, <2>4, <2>5, <2>6 DEF Step
<1> QED BY <1>3, <1>4, <1>5, <1>6, <1>7 DEF Next
\* A functor runs at most once, on the state it was attached to, and the result
\* of a satisfied state is never left without its functor: once set_value(),
\* set_exception() or execute() satisfied a state, the functor stored in it has
\* run or is in the hands of a thread that runs it.
THEOREM NotForgotten == Spec => []ContinuationNotForgotten
<1>1. Init => FunctorOnce /\ ContinuationNotForgotten
      BY InitHistory
<1> QED BY <1>1, FunctorStep, Invariant, PTL DEF Spec

\* As an invariant of its own, for the refinement.
LEMMA FunctorInvariant == Spec => []FunctorOnce
<1>1. Init => FunctorOnce /\ ContinuationNotForgotten
      BY InitHistory
<1> QED BY <1>1, FunctorStep, Invariant, PTL DEF Spec

-----------------------------------------------------------------------------
(* The refinement of FutureContract                                        *)

\* Storing a result in the state of a promise, or in the state whose functor
\* returned the future it comes from.
LEMMA ContractSettle ==
    ASSUME IInv, FunctorOnce, NEW s \in allocated, NEW what \in Satisfied, ~is_ready(s),
           input[s] = NoState \/ runs[s] = 1,
           current_state' = [current_state EXCEPT ![s] = what],
           UNCHANGED <<allocated, input, runs>>
    PROVE  FC!ContractNext
<1>1. s \in State /\ current_state[s] = "not_ready" /\ current_state \in [State -> Satisfied \cup {"not_ready"}]
      BY DEF IInv, TypeOK, is_ready
<1>2. what \in FC!Settled
      BY DEF FC!Settled, Satisfied
<1>3. [r \in State |-> IF r \in allocated THEN current_state[r] ELSE "free"]'
        = [[r \in State |-> IF r \in allocated THEN current_state[r] ELSE "free"] EXCEPT ![s] = what]
      BY <1>1
<1>4. [r \in State |-> IF input[r] = NoState THEN "none"
                      ELSE IF runs[r] = 0 THEN "pending" ELSE "ran"][s] # "pending"
      BY <1>1
<1>5. FC!Settle(s)
      BY <1>1, <1>2, <1>3, <1>4 DEF FC!Settle
<1> QED BY <1>1, <1>5 DEF FC!ContractNext

\* Running a functor, with or without storing its result.
LEMMA ContractRun ==
    ASSUME IInv, FunctorOnce, NEW t \in Thread, thr[t].pc = "exec", thr[t].ct \in ClientFunctor,
           NEW o \in State, o = thr[t].out,
           UNCHANGED <<allocated, input>>,
           runs' = [runs EXCEPT ![o] = 1],
           \/ UNCHANGED current_state
           \/ \E what \in Satisfied : current_state' = [current_state EXCEPT ![o] = what]
    PROVE  FC!ContractNext
<1>1. /\ o \in allocated /\ current_state[o] = "not_ready"
      /\ thr[t].st \in State /\ thr[t].st \in allocated
      <2>1. ~is_ready(o) /\ thr[t].st \in State /\ thr[t].st \in allocated
            BY ExecFacts DEF Executing
      <2> QED BY <2>1 DEF IInv, AllocatedOK, is_ready
<1>2. is_ready(thr[t].st)
      BY DEF IInv, FrameOK
<1>3. input[o] = thr[t].st /\ runs[o] = 0
      BY DEF FunctorOnce
<1>4. current_state[thr[t].st] \in FC!Settled
      BY <1>1, <1>2 DEF FC!Settled, is_ready, IInv, TypeOK, Satisfied
<1>5. [s \in State |-> IF input[s] = NoState THEN "none" ELSE IF runs[s] = 0 THEN "pending" ELSE "ran"]'
        = [[s \in State |-> IF input[s] = NoState THEN "none"
                            ELSE IF runs[s] = 0 THEN "pending" ELSE "ran"] EXCEPT ![o] = "ran"]
      <2>1. runs \in [State -> Nat] /\ input[o] # NoState
            BY <1>1, <1>3 DEF IInv, TypeOK
      <2>2. \A s \in State : runs'[s] = IF s = o THEN 1 ELSE runs[s]
            BY <2>1
      <2>3. runs'[o] # 0 /\ \A s \in State : s # o => runs'[s] = runs[s]
            BY <2>2
      <2>4. input' = input
            OBVIOUS
      <2> QED BY <2>1, <2>3, <2>4
<1>6. CASE UNCHANGED current_state
      <2>1. FC!RunFunctor(o)
            BY <1>1, <1>3, <1>4, <1>5, <1>6 DEF FC!RunFunctor
      <2> QED BY <2>1 DEF FC!ContractNext
<1>7. ASSUME NEW what \in Satisfied, current_state' = [current_state EXCEPT ![o] = what]
      PROVE  FC!ContractNext
      <2>1. what \in FC!Settled
            BY DEF FC!Settled, Satisfied
      <2>2. [r \in State |-> IF r \in allocated THEN current_state[r] ELSE "free"]'
              = [[r \in State |-> IF r \in allocated THEN current_state[r] ELSE "free"] EXCEPT ![o] = what]
            <3>1. current_state \in [State -> Satisfied \cup {"not_ready"}]
                  BY DEF IInv, TypeOK
            <3>2. \A r \in State : current_state'[r] = IF r = o THEN what ELSE current_state[r]
                  BY <1>7, <3>1
            <3> QED BY <1>1, <3>2
      <2>3. FC!RunAndSettle(o)
            BY <1>1, <1>3, <1>4, <1>5, <2>1, <2>2 DEF FC!RunAndSettle
      <2> QED BY <2>3 DEF FC!ContractNext
<1> QED BY <1>6, <1>7

\* promise<T>() and then() bring a new cell into being.
LEMMA ContractNewPromise ==
    ASSUME IInv, FunctorOnce, NEW p \in Promise, MakePromise(p)
    PROVE  FC!ContractNext
<1>1. PICK s \in State \ allocated : allocated' = allocated \cup {s}
      BY DEF MakePromise
<1>2. UNCHANGED <<current_state, input, runs>>
      BY DEF MakePromise, history
<1>3. current_state[s] = "not_ready"
      BY DEF IInv, AllocatedOK, is_ready
<1>4. FC!NewPromise(s)
      BY <1>1, <1>2, <1>3 DEF FC!NewPromise
<1> QED BY <1>4 DEF FC!ContractNext

\* then() adds a cell whose input is the state of the future.
LEMMA ContractThen ==
    ASSUME IInv, FunctorOnce, NEW t \in Thread, NEW f \in Future, NEW kind \in ClientFunctor,
           then(t, f, kind)
    PROVE  FC!ContractNext
<1>1. PICK o \in State \ allocated : then(t, f, kind)!5!(o)
      BY DEF then
<1> DEFINE s == future[f]
<1>2. allocated' = allocated \cup {o} /\ input' = [input EXCEPT ![o] = s]
      BY <1>1 DEF make_continuation
<1>3. UNCHANGED <<current_state, runs>>
      BY DEF then
<1>4. s \in State /\ s \in allocated
      BY DEF then, IInv, TypeOK, AllocatedOK
<1>5. current_state[o] = "not_ready" /\ input[o] = NoState /\ runs[o] = 0
      BY DEF IInv, AllocatedOK, is_ready, FunctorOnce
<1>6. current_state[s] # "free"
      BY <1>4 DEF IInv, TypeOK, Satisfied
<1> HIDE DEF s
<1>7. FC!NewContinuation(s, o)
      BY <1>2, <1>3, <1>4, <1>5, <1>6 DEF FC!NewContinuation, IInv, TypeOK
<1> QED BY <1>4, <1>7 DEF FC!ContractNext

\* Every step is a step of the contract, or none.
LEMMA ContractStep == IInv /\ FunctorOnce /\ [Next]_vars => [FC!ContractNext]_(FC!cvars)
<1> SUFFICES ASSUME IInv, FunctorOnce, [Next]_vars PROVE FC!ContractNext \/ UNCHANGED FC!cvars
    OBVIOUS
<1>0. TypeOK /\ FrameOK /\ AllocatedOK
      BY DEF IInv
<1>1. ASSUME UNCHANGED <<allocated, current_state, input, runs>> PROVE UNCHANGED FC!cvars
      BY <1>1 DEF FC!cvars
<1>2. ASSUME NEW p \in Promise, abandon(promise[p]), UNCHANGED <<allocated, input, runs>>
      PROVE  FC!ContractNext \/ UNCHANGED FC!cvars
      <2>1. CASE promise[p] # NoState /\ ~is_ready(promise[p])
            <3>1. promise[p] \in allocated /\ input[promise[p]] = NoState
                  BY <1>0, <2>1 DEF TypeOK, AllocatedOK, FunctorOnce
            <3>2. current_state' = [current_state EXCEPT ![promise[p]] = "has_future_error"]
                  BY <1>2, <2>1 DEF abandon, is_ready
            <3> QED BY <1>2, <2>1, <3>1, <3>2, ContractSettle DEF Satisfied
      <2>2. CASE ~(promise[p] # NoState /\ ~is_ready(promise[p]))
            <3>1. UNCHANGED current_state
                  BY <1>2, <2>2 DEF abandon, is_ready
            <3> QED BY <1>1, <1>2, <3>1
      <2> QED BY <2>1, <2>2
<1>3. CASE UNCHANGED vars
      BY <1>1, <1>3 DEF vars, shared, history
<1>4. ASSUME NEW p \in Promise, PromiseStep(p) PROVE FC!ContractNext \/ UNCHANGED FC!cvars
      <2>1. CASE MakePromise(p)
            BY <2>1, ContractNewPromise
      <2>2. CASE DestroyPromise(p)
            BY <1>2, <2>2 DEF DestroyPromise
      <2>3. ASSUME NEW q \in Promise, MovePromise(p, q) PROVE FC!ContractNext \/ UNCHANGED FC!cvars
            BY <1>2, <2>3 DEF MovePromise
      <2>4. ASSUME NEW f \in Future, get_future(p, f) PROVE FC!ContractNext \/ UNCHANGED FC!cvars
            BY <1>1, <2>4 DEF get_future, history
      <2>5. ASSUME NEW t \in Thread, NEW what \in Satisfied, set(t, p, what)
            PROVE  FC!ContractNext
            <3>1. promise[p] \in allocated /\ input[promise[p]] = NoState /\ ~is_ready(promise[p])
                  BY <1>0, <2>5 DEF set, TypeOK, AllocatedOK, FunctorOnce
            <3>2. current_state' = [current_state EXCEPT ![promise[p]] = what]
                  BY <2>5 DEF set, SatisfyAndNotify
            <3>3. UNCHANGED <<allocated, input, runs>>
                  BY <2>5 DEF set, history
            <3> QED BY <3>1, <3>2, <3>3, ContractSettle
      <2> QED BY <1>4, <2>1, <2>2, <2>3, <2>4, <2>5 DEF PromiseStep, set_value, set_exception, Satisfied
<1>5. ASSUME NEW f \in Future, DropFuture(f) PROVE UNCHANGED FC!cvars
      BY <1>1, <1>5 DEF DropFuture, shared, history
<1>6. ASSUME NEW t \in Thread, NEW f \in Future, Call(t, f)
      PROVE  FC!ContractNext \/ UNCHANGED FC!cvars
      <2>1. ASSUME NEW kind \in {"plain", "unwrap"}, then(t, f, kind) PROVE FC!ContractNext
            BY <2>1, ContractThen DEF ClientFunctor
      <2>2. CASE wait(t, f) \/ wait_for(t, f) \/ get(t, f) \/ then_throws(t, f) \/ cancel(t, f)
            <3>1. UNCHANGED <<allocated, current_state, input, runs>>
                  BY <2>2 DEF wait, wait_for, Wait, get, then_throws, cancel, shared, history
            <3> QED BY <1>1, <3>1
      <2> QED BY <1>6, <2>1, <2>2 DEF Call
<1>7. ASSUME NEW t \in Thread, Step(t) \/ SpuriousWakeup(t) \/ TimeOut(t)
      PROVE  FC!ContractNext \/ UNCHANGED FC!cvars
      <2>1. CASE CheckReady(t) \/ TimeOut(t) \/ CancelCall(t) \/ SpuriousWakeup(t) \/ then_returns(t)
            <3>1. UNCHANGED <<allocated, current_state, input, runs>>
                  BY <2>1 DEF CheckReady, TimeOut, CancelCall, SpuriousWakeup, then_returns, shared, history
            <3> QED BY <1>1, <3>1
      <2>2. CASE ExecPlain(t)
            <3>1. thr[t].pc = "exec" /\ thr[t].ct \in ClientFunctor /\ UNCHANGED <<allocated, input>>
                  BY <2>2 DEF ExecPlain, ClientFunctor
            <3>2. runs' = [runs EXCEPT ![thr[t].out] = 1]
                  <4>1. runs[thr[t].out] = 0
                        BY <3>1 DEF FunctorOnce
                  <4> QED BY <2>2, <4>1 DEF ExecPlain, CountRun
            <3>3. \/ UNCHANGED current_state
                  \/ \E what \in Satisfied : current_state' = [current_state EXCEPT ![thr[t].out] = what]
                  BY <2>2 DEF ExecPlain, SatisfyAndNotify, Satisfied
            <3>4. thr[t].out \in State
                  BY <1>0, <3>1 DEF FrameOK, Executing
            <3> QED BY <3>1, <3>2, <3>3, <3>4, ContractRun
      <2>3. CASE ExecUnwrap(t)
            <3>1. thr[t].pc = "exec" /\ thr[t].ct \in ClientFunctor /\ UNCHANGED <<allocated, input>>
                  BY <2>3, UnwrapEffect DEF ClientFunctor
            <3>2. runs' = [runs EXCEPT ![thr[t].out] = 1]
                  <4>1. runs[thr[t].out] = 0
                        BY <3>1 DEF FunctorOnce
                  <4> QED BY <2>3, <4>1, UnwrapEffect DEF CountRun
            <3>3. \/ UNCHANGED current_state
                  \/ \E what \in Satisfied : current_state' = [current_state EXCEPT ![thr[t].out] = what]
                  BY <2>3, UnwrapEffect DEF SatisfyAndNotify
            <3>4. thr[t].out \in State
                  BY <1>0, <3>1 DEF FrameOK, Executing
            <3> QED BY <3>1, <3>2, <3>3, <3>4, ContractRun
      <2>4. CASE Attach(t)
            BY <1>1, <2>4, AttachEffect
      <2>5. CASE ExecForward(t)
            <3>1. /\ thr[t].pc = "exec" /\ thr[t].ct = "forward" /\ thr[t].st \in State
                  /\ thr[t].out \in State /\ ~is_ready(thr[t].out) /\ is_ready(thr[t].st)
                  BY <1>0, <2>5, ExecFacts DEF ExecForward, Executing, FrameOK
            <3>2. thr[t].out \in allocated /\ runs[thr[t].out] = 1
                  BY <1>0, <3>1 DEF AllocatedOK, FunctorOnce
            <3>3. UNCHANGED <<allocated, input, runs>>
                  BY <2>5 DEF ExecForward
            <3>4. CASE UNCHANGED current_state
                  BY <1>1, <3>3, <3>4
            <3>5. CASE SatisfyAndNotify(t, thr[t].out, current_state[thr[t].st], thr[t].pr)
                  <4>1. current_state[thr[t].st] \in Satisfied
                        BY <1>0, <3>1 DEF TypeOK, is_ready
                  <4>2. current_state' = [current_state EXCEPT ![thr[t].out] = current_state[thr[t].st]]
                        BY <3>5 DEF SatisfyAndNotify
                  <4> QED BY <3>1, <3>2, <3>3, <4>1, <4>2, ContractSettle
            <3> QED BY <2>5, <3>4, <3>5 DEF ExecForward
      <2> QED BY <1>7, <2>1, <2>2, <2>3, <2>4, <2>5 DEF Step
<1> QED BY <1>3, <1>4, <1>5, <1>6, <1>7 DEF Next

\* Futures and promises, with their threads, locks and objects, implement the
\* contract of write-once cells and run-once functors.
THEOREM Refinement == Spec => ImplementsContract
<1>1. Init => FC!ContractInit
      BY DEF Init, FC!ContractInit
<1> QED BY <1>1, ContractStep, Invariant, FunctorInvariant, PTL DEF Spec, ImplementsContract, FC!Contract
-----------------------------------------------------------------------------
(* cancel() and the callback                                               *)

\* A thread is inside cancel() of s.
CancelTarget(s) == \E t \in Thread : thr[t].pc = "cancel" /\ thr[t].st = s

\* What CancelExclusive says of the state that a thread cancels.
LEMMA TargetFacts ==
    ASSUME IInv, CancelExclusive, NEW s \in State, CancelTarget(s)
    PROVE  /\ s \in allocated /\ cont[s] = "none" /\ ~Unretrieved(s)
           /\ \A f \in Future : future[f] = s => InUse(f)
           /\ \A u \in Thread : /\ thr[u].pc \in Executing => thr[u].st # s
                                /\ ~OutReads(u, s)
<1>1. PICK t \in Thread : thr[t].pc = "cancel" /\ thr[t].st = s
      BY DEF CancelTarget
<1>2. s \in allocated
      BY <1>1 DEF IInv, AllocatedOK
<1> QED BY <1>1, <1>2 DEF CancelExclusive, InUse

\* Nobody starts a cancel() and nobody comes to reach a state in one.
LEMMA KeepExclusive ==
    ASSUME IInv, CancelExclusive, input' = input,
           \A t \in Thread : thr'[t].pc = "cancel" => thr'[t] = thr[t],
           \A s \in State : CancelTarget(s) =>
               /\ cont'[s] = cont[s]
               /\ Unretrieved(s)' => Unretrieved(s)
               /\ \A f \in Future : future'[f] = s => future[f] = s
               /\ \A u \in Thread :
                     /\ thr'[u].pc \in Executing /\ thr'[u].st = s => thr[u].pc \in Executing /\ thr[u].st = s
                     /\ OutReads(u, s)' => OutReads(u, s)
    PROVE  CancelExclusive'
<1> SUFFICES ASSUME NEW t \in Thread, NEW s \in State, thr'[t].pc = "cancel", thr'[t].st = s
             PROVE  /\ cont'[s] = "none" /\ ~Continued(s)' /\ ~Unretrieved(s)'
                    /\ \A f \in Future : future'[f] = s => f = thr'[t].fu
                    /\ \A u \in Thread : (thr'[u].pc \in Executing => thr'[u].st # s) /\ ~OutReads(u, s)'
    BY DEF CancelExclusive, Executing
<1>2. thr'[t] = thr[t] /\ thr[t].pc = "cancel" /\ thr[t].st = s /\ CancelTarget(s)
      BY DEF CancelTarget
<1>3. cont[s] = "none" /\ ~Continued(s) /\ ~Unretrieved(s)
      BY <1>2 DEF CancelExclusive
<1>4. \A f \in Future : future[f] = s => f = thr[t].fu
      BY <1>2 DEF CancelExclusive
<1>5. \A u \in Thread : (thr[u].pc \in Executing => thr[u].st # s) /\ ~OutReads(u, s)
      BY <1>2 DEF CancelExclusive
<1>6. ~Continued(s)'
      BY <1>3 DEF Continued
<1>7. cont'[s] = "none" /\ ~Unretrieved(s)'
      BY <1>2, <1>3
<1>8. \A f \in Future : future'[f] = s => f = thr[t].fu
      BY <1>2, <1>4
<1>9. \A u \in Thread : (thr'[u].pc \in Executing => thr'[u].st # s) /\ ~OutReads(u, s)'
      BY <1>2, <1>5
<1> QED BY <1>2, <1>6, <1>7, <1>8, <1>9

\* No continuation is attached with then(), and no future of a running then()
\* changes.
LEMMA KeepContinued ==
    ASSUME IInv, ContinuedOK, input' = input, allocated \subseteq allocated',
           \A s \in State : /\ is_ready(s) => is_ready(s)'
                            /\ cont[s] # "none" => cont'[s] # "none",
           \A u \in Thread : thr'[u].pc \in Executing \cup {"return"} /\ thr'[u].fu \in Future =>
               /\ thr[u].pc \in Executing \cup {"return"} /\ thr[u].fu = thr'[u].fu
               /\ future'[thr[u].fu] = future[thr[u].fu]
    PROVE  ContinuedOK'
<1>1. \A s \in State : Continued(s)' => s \in allocated' /\ (is_ready(s)' \/ cont'[s] # "none")
      BY DEF ContinuedOK, Continued
<1>2. ASSUME NEW u \in Thread, NEW f \in Future, NEW s \in State,
             thr'[u].pc \in Executing \cup {"return"}, thr'[u].fu = f, future'[f] = s
      PROVE  is_ready(s)' \/ cont'[s] # "none"
      <2>1. thr[u].pc \in Executing \cup {"return"} /\ thr[u].fu = f /\ future[f] = s
            BY <1>2
      <2>2. is_ready(s) \/ cont[s] # "none"
            BY <2>1 DEF ContinuedOK
      <2> QED BY <2>2
<1> QED BY <1>1, <1>2 DEF ContinuedOK, Executing

\* No callback is lost but that of a state that is satisfied and has a
\* continuation.
LEMMA KeepCallback ==
    ASSUME IInv, CallbackOK, input' = input,
           \A s \in State : s \in allocated' =>
               \/ callback'[s]
               \/ is_ready(s)' /\ cont'[s] # "none"
               \/ /\ s \in allocated /\ callback'[s] = callback[s]
                  /\ is_ready(s) => is_ready(s)'
                  /\ cont[s] # "none" => cont'[s] # "none",
           allocated' \subseteq State
    PROVE  CallbackOK'
<1> SUFFICES ASSUME ContinuedOnce', NEW s \in State, s \in allocated', ~Continued(s)',
                    is_ready(s)' => cont'[s] = "none"
             PROVE  callback'[s]
    BY DEF CallbackOK
<1>1. ContinuedOnce /\ ~Continued(s)
      BY DEF ContinuedOnce, Continued
<1> QED BY <1>1 DEF CallbackOK

\* The future of the thread that entered cancel() is the only way to its state.
LEMMA EnterCancel ==
    ASSUME IInv, ContinuedOK, CancelExclusive, NEW t \in Thread, NEW f \in Future, cancel(t, f)
    PROVE  CancelExclusive'
<1>0. TypeOK /\ FrameOK /\ SingleReader
      BY DEF IInv
<1>1. PICK s \in State : s = future[f] /\ ~is_ready(s)
      BY <1>0 DEF cancel, TypeOK
<1>2. /\ UNCHANGED <<cont, input, retrieved, promise, future>>
      /\ \A u \in Thread : u # t => thr'[u] = thr[u]
      /\ thr'[t].pc = "cancel" /\ thr'[t].st = s /\ thr'[t].fu = f
      /\ thr[t].pc = "idle"
      BY <1>0, <1>1 DEF cancel, shared, handles, history, TypeOK, Idle, IsIdle
<1>3. FutureReads(f, s)
      BY <1>1 DEF cancel, InThen, FutureReads
<1>4. /\ cont[s] = "none" /\ ~Unretrieved(s)
      /\ \A g \in Future : FutureReads(g, s) => g = f
      /\ \A u \in Thread : ~ThreadReads(u, s)
      BY <1>0, <1>1, <1>3 DEF SingleReader
<1>5. ~Continued(s)
      BY <1>1, <1>4 DEF ContinuedOK
<1>6. \A g \in Future : future[g] = s => g = f
      <2> SUFFICES ASSUME NEW g \in Future, future[g] = s, NEW u \in Thread,
                          thr[u].pc = "return", thr[u].fu = g
                   PROVE  FALSE
          BY <1>4 DEF FutureReads
      <2> QED BY <1>1, <1>4 DEF ContinuedOK
<1>7. \A u \in Thread : (thr[u].pc \in Executing => thr[u].st # s) /\ ~OutReads(u, s)
      <2>1. \A u \in Thread : ~AttachReads(u, s) /\ ~OutReads(u, s)
            BY <1>4 DEF ThreadReads
      <2>2. \A u \in Thread : thr[u].pc = "exec" => thr[u].st # s
            BY <1>0, <1>1 DEF FrameOK
      <2> QED BY <2>1, <2>2 DEF AttachReads, Executing
<1>8. \A r \in State : (Unretrieved(r)' <=> Unretrieved(r)) /\ (Continued(r)' <=> Continued(r))
      BY <1>2 DEF Unretrieved, Continued
<1>9. \A u \in Thread, r \in State : /\ thr'[u].pc \in Executing => u # t /\ thr'[u] = thr[u]
                                     /\ OutReads(u, r)' => u # t /\ OutReads(u, r)
      <2>1. \A u \in Thread : thr'[u].pc \in Executing \cup {"return"} => u # t /\ thr'[u] = thr[u]
            BY <1>2 DEF Executing
      <2> QED BY <2>1 DEF OutReads
<1> SUFFICES ASSUME NEW v \in Thread, NEW r \in State, thr'[v].pc = "cancel", thr'[v].st = r
             PROVE  /\ cont'[r] = "none" /\ ~Continued(r)' /\ ~Unretrieved(r)'
                    /\ \A g \in Future : future'[g] = r => g = thr'[v].fu
                    /\ \A u \in Thread : (thr'[u].pc \in Executing => thr'[u].st # r) /\ ~OutReads(u, r)'
    BY DEF CancelExclusive, Executing
<1>10. CASE v = t
      BY <1>2, <1>4, <1>5, <1>6, <1>7, <1>8, <1>9, <1>10
<1>11. CASE v # t
      <2>1. thr'[v] = thr[v] /\ thr[v].st = r
            BY <1>2, <1>11
      <2> QED BY <1>2, <1>8, <1>9, <2>1 DEF CancelExclusive
<1> QED BY <1>10, <1>11
\* A step that leaves then() and the callbacks alone, and gives no new way to a
\* state that a thread cancels.
LEMMA QuietCancel ==
    ASSUME IInv, CancelInv, UNCHANGED <<input, cont, callback, allocated>>,
           \A s \in State : is_ready(s) => is_ready(s)',
           \A u \in Thread : \/ thr'[u] = thr[u]
                             \/ thr'[u].pc \notin Executing \cup {"return", "cancel"},
           \A u \in Thread : /\ thr'[u].pc \in Executing \cup {"return"}
                             /\ thr[u].pc \in Executing \cup {"return"}
                             /\ thr[u].fu \in Future
                             => future'[thr[u].fu] = future[thr[u].fu],
           \A s \in State : CancelTarget(s) =>
               /\ \A f \in Future : future'[f] = s => future[f] = s
               /\ Unretrieved(s)' => Unretrieved(s)
    PROVE  CancelInv'
<1>0. ContinuedOK /\ CallbackOK /\ CancelExclusive
      BY DEF CancelInv
<1>1. \A u \in Thread : thr'[u].pc \in Executing \cup {"return", "cancel"} => thr'[u] = thr[u]
      OBVIOUS
<1>2. ContinuedOK'
      <2>1. \A u \in Thread : thr'[u].pc \in Executing \cup {"return"} /\ thr'[u].fu \in Future =>
               /\ thr[u].pc \in Executing \cup {"return"} /\ thr[u].fu = thr'[u].fu
               /\ future'[thr[u].fu] = future[thr[u].fu]
            BY <1>1
      <2> QED BY <1>0, <2>1, KeepContinued
<1>3. CallbackOK'
      <2>1. allocated' \subseteq State
            BY DEF IInv, TypeOK
      <2> QED BY <1>0, <2>1, KeepCallback
<1>4. CancelExclusive'
      <2>1. \A u \in Thread : thr'[u].pc = "cancel" => thr'[u] = thr[u]
            BY <1>1
      <2>2. \A u \in Thread, s \in State :
               /\ thr'[u].pc \in Executing /\ thr'[u].st = s => thr[u].pc \in Executing /\ thr[u].st = s
               /\ OutReads(u, s)' => OutReads(u, s)
            BY <1>1 DEF OutReads, Executing
      <2> QED BY <1>0, <2>1, <2>2, KeepExclusive
<1> QED BY <1>2, <1>3, <1>4 DEF CancelInv

\* A thread leaves a call, or enters one that blocks.
LEMMA LocalCancel ==
    ASSUME IInv, CancelInv, NEW t \in Thread,
           UNCHANGED <<input, cont, callback, allocated, current_state, retrieved, promise>>,
           \A u \in Thread : u # t => thr'[u] = thr[u],
           thr'[t].pc \notin Executing \cup {"return", "cancel"},
           \/ future' = future
           \/ \E f \in Future : ~InUse(f) /\ future' = [future EXCEPT ![f] = NoState]
           \/ /\ thr[t].pc = "return"
              /\ future' = [future EXCEPT ![thr[t].fu] = thr[t].out]
    PROVE  CancelInv'
<1>0. TypeOK /\ FrameOK /\ CancelExclusive
      BY DEF IInv, CancelInv
<1>1. \A s \in State : (is_ready(s) => is_ready(s)') /\ (Unretrieved(s)' => Unretrieved(s))
      BY DEF is_ready, Unretrieved
<1>2. ASSUME NEW u \in Thread, thr'[u].pc \in Executing \cup {"return"},
             thr[u].pc \in Executing \cup {"return"}, thr[u].fu \in Future
      PROVE  future'[thr[u].fu] = future[thr[u].fu]
      <2>1. u # t /\ InUse(thr[u].fu)
            BY <1>2 DEF InUse
      <2>2. thr[t].fu # thr[u].fu
            BY <1>0, <1>2, <2>1 DEF FrameOK
      <2> QED BY <1>0, <1>2, <2>1, <2>2 DEF TypeOK
<1>3. ASSUME NEW s \in State, CancelTarget(s), NEW f \in Future, future'[f] = s
      PROVE  future[f] = s
      <2>1. thr[t].pc = "return" => thr[t].out # s
            <3>1. ~OutReads(t, s)
                  BY <1>0, <1>3, TargetFacts
            <3>2. thr[t].pc = "return" => thr[t].fu # NoFuture
                  BY <1>0 DEF FrameOK
            <3> QED BY <3>1, <3>2 DEF OutReads
      <2> QED BY <1>0, <1>3, <2>1 DEF TypeOK
<1> QED BY <1>1, <1>2, <1>3, QuietCancel

\* Satisfying a state.  The functor may have left its argument in another
\* variable.
LEMMA SatisfyCancel ==
    ASSUME IInv, CancelInv, NEW t \in Thread, NEW s \in State, NEW what \in Satisfied, NEW pr,
           ~is_ready(s),
           \/ thr[t].pc = "idle" /\ \E p \in Promise : promise[p] = s
           \/ thr[t].pc = "exec" /\ thr[t].out = s,
           SatisfyAndNotify(t, s, what, pr),
           UNCHANGED <<allocated, retrieved, callback, cont, promise, input>>,
           \/ future' = future
           \/ /\ thr[t].pc = "exec"
              /\ \E g \in Future : future[g] = NoState /\ future' = [future EXCEPT ![g] = thr[t].st]
    PROVE  CancelInv'
<1>0. TypeOK /\ FrameOK /\ SingleReader
      BY DEF IInv
<1>a. ContinuedOK /\ CallbackOK /\ CancelExclusive
      BY DEF CancelInv
<1>1. \A r \in State : is_ready(r) => is_ready(r)'
      BY <1>0 DEF SatisfyAndNotify, is_ready, TypeOK, Satisfied
<1>2. \A u \in Thread : u # t => thr'[u] = thr[u]
      BY <1>0 DEF SatisfyAndNotify, Finish, TypeOK
<1>3. thr[t].pc = "idle" => thr[t].fu = NoFuture
      BY <1>0 DEF FrameOK, Idle
<1>4. thr[t].pc = "exec" /\ cont[s] # "none" => thr[t].fu = NoFuture
      BY <1>0 DEF SingleReader, ThreadReads, OutReads, Executing
<1>5. \/ /\ cont[s] # "none" /\ thr'[t].pc = "exec" /\ thr'[t].st = s /\ thr'[t].fu = NoFuture
      \/ /\ cont[s] = "none" /\ thr[t].pc = "exec" /\ thr'[t].pc = "return"
         /\ thr'[t].fu = thr[t].fu /\ thr'[t].out = s /\ thr[t].fu # NoFuture
      \/ thr'[t].pc = "idle"
      <2>1. CASE cont[s] # "none"
            BY <1>0, <1>3, <1>4, <2>1 DEF SatisfyAndNotify, TypeOK
      <2>2. CASE cont[s] = "none"
            BY <1>0, <1>3, <2>2 DEF SatisfyAndNotify, Finish, TypeOK, Frame, Idle
      <2> QED BY <2>1, <2>2
<1>6. \A u \in Thread : thr[u].fu \in Future => future'[thr[u].fu] = future[thr[u].fu]
      BY <1>0 DEF FrameOK, TypeOK
<1>7. ContinuedOK'
      <2>1. \A u \in Thread : thr'[u].pc \in Executing \cup {"return"} /\ thr'[u].fu \in Future =>
               /\ thr[u].pc \in Executing \cup {"return"} /\ thr[u].fu = thr'[u].fu
               /\ future'[thr[u].fu] = future[thr[u].fu]
            BY <1>2, <1>5, <1>6 DEF Executing
      <2> QED BY <1>1, <1>a, <2>1, KeepContinued
<1>8. CallbackOK'
      <2>1. allocated' \subseteq State
            BY <1>0 DEF TypeOK
      <2> QED BY <1>1, <1>a, <2>1, KeepCallback
<1>9. CancelExclusive'
      <2>1. \A u \in Thread : thr'[u].pc = "cancel" => thr'[u] = thr[u]
            BY <1>2, <1>5
      <2>2. ASSUME NEW r \in State, CancelTarget(r)
            PROVE  /\ cont'[r] = cont[r]
                   /\ Unretrieved(r)' => Unretrieved(r)
                   /\ \A f \in Future : future'[f] = r => future[f] = r
                   /\ \A u \in Thread :
                        /\ thr'[u].pc \in Executing /\ thr'[u].st = r
                              => thr[u].pc \in Executing /\ thr[u].st = r
                        /\ OutReads(u, r)' => OutReads(u, r)
            <3>1. /\ cont[r] = "none"
                  /\ \A u \in Thread : (thr[u].pc \in Executing => thr[u].st # r) /\ ~OutReads(u, r)
                  BY <1>a, <2>2, TargetFacts
            <3>2. Unretrieved(r)' => Unretrieved(r)
                  BY DEF Unretrieved
            <3>3. \A f \in Future : future'[f] = r => future[f] = r
                  BY <1>0, <3>1 DEF TypeOK, Executing
            <3>4. \A u \in Thread : thr'[u].pc \in Executing => thr'[u].st # r
                  BY <1>2, <1>5, <3>1 DEF Executing
            <3>5. ASSUME NEW u \in Thread, OutReads(u, r)' PROVE OutReads(u, r)
                  <4>1. CASE u # t
                        BY <1>2, <3>5, <4>1 DEF OutReads, Executing
                  <4>2. CASE u = t
                        BY <1>5, <3>5, <4>2 DEF OutReads, Executing
                  <4> QED BY <4>1, <4>2
            <3> QED BY <3>2, <3>3, <3>4, <3>5
      <2> QED BY <1>a, <2>1, <2>2, KeepExclusive
<1> QED BY <1>7, <1>8, <1>9 DEF CancelInv
\* The functor's future is handed to the unwrapper; the unwrapper is attached.
LEMMA AttachCancel ==
    ASSUME IInv, CancelInv, NEW t \in Thread, thr[t].pc \in Executing,
           UNCHANGED <<allocated, current_state, retrieved, callback, promise, input>>,
           \A u \in Thread : u # t => thr'[u] = thr[u],
           \/ thr'[t].pc = "idle"
           \/ thr'[t].pc = "return" /\ thr'[t].out = thr[t].out /\ thr'[t].fu = thr[t].fu
           \/ /\ thr'[t].pc \in Executing /\ thr'[t].out = thr[t].out /\ thr'[t].fu = thr[t].fu
              /\ \/ thr'[t].st = thr[t].st
                 \/ \E g \in Future : ~InUse(g) /\ thr'[t].st = future[g],
           \/ future' = future
           \/ \E g \in Future : ~InUse(g) /\ future' = [future EXCEPT ![g] = NoState],
           \/ UNCHANGED cont
           \/ cont[thr[t].st] = "none" /\ cont' = [cont EXCEPT ![thr[t].st] = "forward"]
    PROVE  CancelInv'
<1>0. TypeOK /\ FrameOK
      BY DEF IInv
<1>a. ContinuedOK /\ CallbackOK /\ CancelExclusive
      BY DEF CancelInv
<1>1. \A s \in State : (is_ready(s) => is_ready(s)') /\ (Unretrieved(s)' => Unretrieved(s))
      BY DEF is_ready, Unretrieved
<1>2. \A s \in State : cont[s] # "none" => cont'[s] # "none"
      BY <1>0 DEF TypeOK
<1>3. \A u \in Thread : thr[u].fu \in Future => future'[thr[u].fu] = future[thr[u].fu]
      BY <1>0 DEF TypeOK, InUse
<1>4. ContinuedOK'
      <2>1. \A u \in Thread : thr'[u].pc \in Executing \cup {"return"} /\ thr'[u].fu \in Future =>
               /\ thr[u].pc \in Executing \cup {"return"} /\ thr[u].fu = thr'[u].fu
               /\ future'[thr[u].fu] = future[thr[u].fu]
            BY <1>3 DEF Executing
      <2> QED BY <1>1, <1>2, <1>a, <2>1, KeepContinued
<1>5. CallbackOK'
      <2>1. allocated' \subseteq State
            BY <1>0 DEF TypeOK
      <2> QED BY <1>1, <1>2, <1>a, <2>1, KeepCallback
<1>6. CancelExclusive'
      <2>1. \A u \in Thread : thr'[u].pc = "cancel" => thr'[u] = thr[u]
            BY DEF Executing
      <2>2. ASSUME NEW r \in State, CancelTarget(r)
            PROVE  /\ cont'[r] = cont[r]
                   /\ \A f \in Future : future'[f] = r => future[f] = r
                   /\ \A u \in Thread :
                        /\ thr'[u].pc \in Executing /\ thr'[u].st = r
                              => thr[u].pc \in Executing /\ thr[u].st = r
                        /\ OutReads(u, r)' => OutReads(u, r)
            <3>1. /\ \A f \in Future : future[f] = r => InUse(f)
                  /\ \A u \in Thread : (thr[u].pc \in Executing => thr[u].st # r) /\ ~OutReads(u, r)
                  BY <1>a, <2>2, TargetFacts
            <3>2. cont'[r] = cont[r]
                  BY <1>0, <3>1 DEF TypeOK
            <3>3. \A f \in Future : future'[f] = r => future[f] = r
                  BY <1>0 DEF TypeOK
            <3>4. \A u \in Thread : thr'[u].pc \in Executing => thr'[u].st # r
                  BY <3>1 DEF Executing
            <3>5. ASSUME NEW u \in Thread, OutReads(u, r)' PROVE OutReads(u, r)
                  BY <3>5 DEF OutReads, Executing
            <3> QED BY <3>2, <3>3, <3>4, <3>5
      <2> QED BY <1>1, <1>a, <2>1, <2>2, KeepExclusive
<1> QED BY <1>4, <1>5, <1>6 DEF CancelInv

\* then() moves the callback to the state of the future it returns.
LEMMA ThenCancel ==
    ASSUME IInv, FunctorOnce, CancelInv, NEW t \in Thread, NEW f \in Future,
           NEW kind \in ClientFunctor, then(t, f, kind)
    PROVE  CancelInv'
<1>0. TypeOK /\ FrameOK /\ AllocatedOK
      BY DEF IInv
<1>a. ContinuedOK /\ CallbackOK /\ CancelExclusive
      BY DEF CancelInv
<1>1. PICK o \in State \ allocated : then(t, f, kind)!5!(o)
      BY DEF then
<1>2. PICK s \in State : s = future[f] /\ s \in allocated
      BY <1>0 DEF then, TypeOK, AllocatedOK
<1>3. cont[s] = "none" /\ thr[t].pc = "idle" /\ ~InUse(f) /\ s # o
      BY <1>2 DEF then, IsIdle
<1>4. UNCHANGED <<current_state, retrieved, promise, future>>
      BY DEF then, handles
<1>5. /\ allocated' = allocated \cup {o}
      /\ callback' = [callback EXCEPT ![s] = FALSE, ![o] = callback[s]]
      /\ input' = [input EXCEPT ![o] = s]
      /\ \/ /\ is_ready(s)
            /\ thr' = [thr EXCEPT ![t] = [pc |-> "exec", st |-> s, ct |-> kind, out |-> o,
                                          fu |-> f, pr |-> NoPromise]]
            /\ UNCHANGED cont
         \/ /\ ~is_ready(s)
            /\ cont' = [cont EXCEPT ![s] = kind]
            /\ thr' = [thr EXCEPT ![t] = [pc |-> "return", st |-> s, ct |-> "none", out |-> o,
                                          fu |-> f, pr |-> NoPromise]]
      BY <1>1, <1>2 DEF make_continuation
<1>6. \A r \in State : (is_ready(r) <=> is_ready(r)') /\ (Unretrieved(r)' <=> Unretrieved(r))
      BY <1>4 DEF is_ready, Unretrieved
<1>7. /\ input'[o] = s /\ input[o] = NoState
      /\ \A r \in State : r # o => input'[r] = input[r]
      BY <1>0, <1>5 DEF TypeOK, FunctorOnce
<1>8. \A r \in State : Continued(r)' <=> Continued(r) \/ r = s
      BY <1>7 DEF Continued
<1>9. /\ \A u \in Thread : u # t => thr'[u] = thr[u]
      /\ thr'[t].pc \in {"exec", "return"} /\ thr'[t].st = s /\ thr'[t].out = o /\ thr'[t].fu = f
      BY <1>0, <1>5 DEF TypeOK
<1>10. /\ \A r \in State : r # s => cont'[r] = cont[r]
       /\ is_ready(s) \/ cont'[s] # "none"
      BY <1>0, <1>5 DEF TypeOK, ClientFunctor
<1>11. ContinuedOK'
      <2>1. \A r \in State : Continued(r)' => r \in allocated' /\ (is_ready(r)' \/ cont'[r] # "none")
            BY <1>2, <1>5, <1>6, <1>8, <1>10, <1>a DEF ContinuedOK
      <2>2. ASSUME NEW u \in Thread, NEW g \in Future, NEW r \in State,
                   thr'[u].pc \in Executing \cup {"return"}, thr'[u].fu = g, future'[g] = r
            PROVE  is_ready(r)' \/ cont'[r] # "none"
            <3>1. CASE u = t
                  BY <1>2, <1>4, <1>6, <1>9, <1>10, <2>2, <3>1
            <3>2. CASE u # t
                  <4>1. thr[u].pc \in Executing \cup {"return"} /\ thr[u].fu = g /\ future[g] = r
                        BY <1>4, <1>9, <2>2, <3>2
                  <4>2. is_ready(r) \/ cont[r] # "none"
                        BY <1>a, <4>1 DEF ContinuedOK
                  <4> QED BY <1>6, <1>10, <4>2
            <3> QED BY <3>1, <3>2
      <2> QED BY <2>1, <2>2 DEF ContinuedOK, Executing
<1>12. CallbackOK'
      <2> SUFFICES ASSUME ContinuedOnce', NEW r \in allocated', ~Continued(r)',
                          is_ready(r)' => cont'[r] = "none"
                   PROVE  callback'[r]
          BY DEF CallbackOK
      <2>1. r \in State /\ ~Continued(r) /\ r # s
            BY <1>0, <1>5, <1>8 DEF TypeOK
      <2>2. ContinuedOnce
            <3> SUFFICES ASSUME NEW q \in State, NEW z \in State, input[q] = input[z], input[q] # NoState
                         PROVE  q = z
                BY DEF ContinuedOnce
            <3>1. q # o /\ z # o
                  BY <1>7
            <3>2. input'[q] = input[q] /\ input'[z] = input[z]
                  BY <1>7, <3>1
            <3> QED BY <3>2 DEF ContinuedOnce
      <2>3. ~Continued(s)
            <3> SUFFICES ASSUME NEW q \in State, input[q] = s PROVE FALSE
                BY DEF Continued
            <3>1. q # o /\ input'[q] = s /\ s # NoState
                  BY <1>7
            <3> QED BY <1>7, <3>1 DEF ContinuedOnce
      <2>4. callback[s]
            BY <1>2, <1>3, <1>a, <2>2, <2>3 DEF CallbackOK
      <2>5. CASE r = o
            BY <1>0, <1>3, <1>5, <2>4, <2>5 DEF TypeOK
      <2>6. CASE r # o
            <3>1. r \in allocated /\ callback'[r] = callback[r]
                  BY <1>0, <1>5, <2>1, <2>6 DEF TypeOK
            <3>2. is_ready(r) => cont[r] = "none"
                  BY <1>6, <1>10, <2>1
            <3> QED BY <1>a, <2>1, <2>2, <3>1, <3>2 DEF CallbackOK
      <2> QED BY <2>5, <2>6
<1>13. CancelExclusive'
      <2> SUFFICES ASSUME NEW v \in Thread, NEW r \in State, thr'[v].pc = "cancel", thr'[v].st = r
                   PROVE  /\ cont'[r] = "none" /\ ~Continued(r)' /\ ~Unretrieved(r)'
                          /\ \A g \in Future : future'[g] = r => g = thr'[v].fu
                          /\ \A u \in Thread : (thr'[u].pc \in Executing => thr'[u].st # r) /\ ~OutReads(u, r)'
          BY DEF CancelExclusive, Executing
      <2>1. v # t /\ thr'[v] = thr[v] /\ CancelTarget(r)
            BY <1>9 DEF CancelTarget
      <2>2. r # s /\ r # o
            BY <1>2, <1>3, <1>a, <2>1, TargetFacts
      <2>3. /\ cont[r] = "none" /\ ~Continued(r) /\ ~Unretrieved(r)
            /\ \A g \in Future : future[g] = r => g = thr[v].fu
            /\ \A u \in Thread : (thr[u].pc \in Executing => thr[u].st # r) /\ ~OutReads(u, r)
            BY <1>a, <2>1 DEF CancelExclusive
      <2>4. \A u \in Thread : (thr'[u].pc \in Executing => thr'[u].st # r) /\ ~OutReads(u, r)'
            <3> SUFFICES ASSUME NEW u \in Thread
                         PROVE  (thr'[u].pc \in Executing => thr'[u].st # r) /\ ~OutReads(u, r)'
                OBVIOUS
            <3>1. CASE u = t
                  BY <1>9, <2>2, <3>1 DEF OutReads
            <3>2. CASE u # t
                  BY <1>9, <2>3, <3>2 DEF OutReads, Executing
            <3> QED BY <3>1, <3>2
      <2> QED BY <1>4, <1>6, <1>8, <1>10, <2>1, <2>2, <2>3, <2>4
<1> QED BY <1>11, <1>12, <1>13 DEF CancelInv
\* Every step keeps the way of the callback.
LEMMA CancelStep == IInv /\ FunctorOnce /\ CancelInv /\ [Next]_vars => CancelInv'
<1> SUFFICES ASSUME IInv, FunctorOnce, CancelInv, [Next]_vars PROVE CancelInv'
    OBVIOUS
<1>0. TypeOK /\ FrameOK /\ AllocatedOK /\ SingleReader
      BY DEF IInv
<1>a. ContinuedOK /\ CallbackOK /\ CancelExclusive
      BY DEF CancelInv
<1>1. ASSUME NEW p \in Promise, abandon(promise[p]),
             UNCHANGED <<allocated, retrieved, callback, cont, future, thr, input>>,
             \A q \in Promise : promise'[q] = NoState \/ \E r \in Promise : promise'[q] = promise[r]
      PROVE  CancelInv'
      <2>1. \A s \in State : is_ready(s) => is_ready(s)'
            <3>1. promise[p] \in State \cup {NoState}
                  BY <1>0 DEF TypeOK
            <3> QED BY <1>1, <3>1, AbandonFacts
      <2>2. \A s \in State : Unretrieved(s)' => Unretrieved(s)
            BY <1>1 DEF Unretrieved
      <2> QED BY <1>1, <2>1, <2>2, QuietCancel
<1>2. CASE UNCHANGED vars
      <2>1. UNCHANGED <<input, cont, callback, allocated, current_state, retrieved, promise, future, thr>>
            BY <1>2 DEF vars, shared, handles, history
      <2>2. \A s \in State : (is_ready(s) => is_ready(s)') /\ (Unretrieved(s)' => Unretrieved(s))
            BY <2>1 DEF is_ready, Unretrieved
      <2> QED BY <2>1, <2>2, QuietCancel
<1>3. ASSUME NEW p \in Promise, PromiseStep(p) PROVE CancelInv'
      <2>1. CASE MakePromise(p)
            <3>1. PICK s \in State \ allocated : /\ allocated' = allocated \cup {s}
                                                 /\ callback' = [callback EXCEPT ![s] = TRUE]
                                                 /\ promise' = [promise EXCEPT ![p] = s]
                  BY <2>1 DEF MakePromise
            <3>2. UNCHANGED <<current_state, retrieved, cont, future, thr, input>>
                  BY <2>1 DEF MakePromise, history
            <3>3. \A r \in State : is_ready(r)' <=> is_ready(r)
                  BY <3>2 DEF is_ready
            <3>4. ContinuedOK'
                  BY <1>a, <3>1, <3>2, <3>3, KeepContinued
            <3>5. CallbackOK'
                  <4>1. \A r \in State : callback'[r] \/ (r # s /\ callback'[r] = callback[r])
                        BY <1>0, <3>1 DEF TypeOK
                  <4>2. allocated' \subseteq State
                        BY <1>0, <3>1 DEF TypeOK
                  <4>3. \A r \in State : r \in allocated' /\ r # s => r \in allocated
                        BY <3>1
                  <4> QED BY <1>a, <3>2, <3>3, <4>1, <4>2, <4>3, KeepCallback
            <3>6. CancelExclusive'
                  <4>1. ASSUME NEW r \in State, CancelTarget(r), Unretrieved(r)' PROVE Unretrieved(r)
                        <5>1. r # s
                              BY <1>a, <4>1, TargetFacts
                        <5> QED BY <1>0, <3>1, <3>2, <4>1, <5>1 DEF Unretrieved, TypeOK
                  <4>2. \A u \in Thread, r \in State : OutReads(u, r)' => OutReads(u, r)
                        BY <3>2 DEF OutReads
                  <4> QED BY <1>a, <3>2, <4>1, <4>2, KeepExclusive
            <3> QED BY <3>4, <3>5, <3>6 DEF CancelInv
      <2>2. CASE DestroyPromise(p)
            BY <1>0, <1>1, <2>2 DEF DestroyPromise, TypeOK
      <2>3. ASSUME NEW q \in Promise, MovePromise(p, q) PROVE CancelInv'
            BY <1>0, <1>1, <2>3 DEF MovePromise, TypeOK
      <2>4. ASSUME NEW f \in Future, get_future(p, f) PROVE CancelInv'
            <3>1. /\ promise[p] \in State /\ Unretrieved(promise[p]) /\ future[f] = NoState
                  /\ retrieved' = [retrieved EXCEPT ![promise[p]] = TRUE]
                  /\ future' = [future EXCEPT ![f] = promise[p]]
                  /\ UNCHANGED <<input, cont, callback, allocated, current_state, promise, thr>>
                  BY <1>0, <2>4 DEF get_future, history, TypeOK, Unretrieved
            <3>2. \A s \in State : is_ready(s) => is_ready(s)'
                  BY <3>1 DEF is_ready
            <3>3. \A u \in Thread : thr[u].fu \in Future => future'[thr[u].fu] = future[thr[u].fu]
                  BY <1>0, <3>1 DEF FrameOK, TypeOK
            <3>4. ASSUME NEW s \in State, CancelTarget(s)
                  PROVE  /\ \A g \in Future : future'[g] = s => future[g] = s
                         /\ Unretrieved(s)' => Unretrieved(s)
                  <4>1. ~Unretrieved(s) /\ s # promise[p]
                        BY <1>a, <3>1, <3>4, TargetFacts
                  <4> QED BY <1>0, <3>1, <4>1 DEF TypeOK, Unretrieved
            <3> QED BY <3>1, <3>2, <3>3, <3>4, QuietCancel
      <2>5. ASSUME NEW t \in Thread, NEW what \in Satisfied, set(t, p, what) PROVE CancelInv'
            <3>1. promise[p] \in State
                  BY <1>0, <2>5 DEF set, TypeOK
            <3>2. UNCHANGED <<allocated, retrieved, callback, cont, promise, input, future>>
                  BY <2>5 DEF set, handles, history
            <3> QED BY <2>5, <3>1, <3>2, SatisfyCancel DEF set, IsIdle
      <2> QED BY <1>3, <2>1, <2>2, <2>3, <2>4, <2>5 DEF PromiseStep, set_value, set_exception, Satisfied
<1>4. ASSUME NEW f \in Future, DropFuture(f) PROVE CancelInv'
      <2>1. /\ ~InUse(f) /\ future' = [future EXCEPT ![f] = NoState]
            /\ UNCHANGED <<input, cont, callback, allocated, current_state, retrieved, promise, thr>>
            BY <1>4 DEF DropFuture, shared, history
      <2>2. \A s \in State : (is_ready(s) => is_ready(s)') /\ (Unretrieved(s)' => Unretrieved(s))
            BY <2>1 DEF is_ready, Unretrieved
      <2>3. \A u \in Thread : thr[u].fu \in Future => future'[thr[u].fu] = future[thr[u].fu]
            BY <1>0, <2>1 DEF InUse, TypeOK
      <2>4. \A s \in State, g \in Future : future'[g] = s => future[g] = s
            BY <1>0, <2>1 DEF TypeOK
      <2> QED BY <2>1, <2>2, <2>3, <2>4, QuietCancel
<1>5. ASSUME NEW t \in Thread, NEW f \in Future, Call(t, f) PROVE CancelInv'
      <2>1. ASSUME NEW pc \in {"wait", "wait_for"}, Wait(t, f, pc) PROVE CancelInv'
            <3>1. UNCHANGED <<input, cont, callback, allocated, current_state, retrieved, promise, future>>
                  BY <2>1 DEF Wait, shared, handles, history
            <3>2. /\ \A u \in Thread : u # t => thr'[u] = thr[u]
                  /\ thr'[t].pc \notin Executing \cup {"return", "cancel"}
                  BY <1>0, <2>1 DEF Wait, TypeOK, Idle, Executing
            <3> QED BY <3>1, <3>2, LocalCancel
      <2>2. CASE get(t, f)
            <3>1. /\ UNCHANGED <<input, cont, callback, allocated, current_state, retrieved, promise>>
                  /\ ~InUse(f) /\ future' = [future EXCEPT ![f] = NoState]
                  BY <2>2 DEF get, shared, history
            <3>2. /\ \A u \in Thread : u # t => thr'[u] = thr[u]
                  /\ thr'[t].pc \notin Executing \cup {"return", "cancel"}
                  BY <1>0, <2>2 DEF get, TypeOK, Idle, Executing
            <3> QED BY <3>1, <3>2, LocalCancel
      <2>3. ASSUME NEW kind \in {"plain", "unwrap"}, then(t, f, kind) PROVE CancelInv'
            BY <2>3, ThenCancel DEF ClientFunctor
      <2>4. CASE then_throws(t, f)
            <3>1. PICK s \in State : /\ s = future[f] /\ cont[s] # "none" /\ ~InUse(f)
                                     /\ callback' = [callback EXCEPT ![s] = FALSE]
                  BY <1>0, <2>4 DEF then_throws, TypeOK
            <3>2. UNCHANGED <<input, cont, allocated, current_state, retrieved, promise, future, thr>>
                  BY <2>4 DEF then_throws, handles, history
            <3>3. is_ready(s)
                  <4>1. FutureReads(f, s)
                        BY <3>1 DEF InUse, FutureReads
                  <4> QED BY <1>0, <3>1, <4>1 DEF SingleReader
            <3>4. \A r \in State : is_ready(r)' <=> is_ready(r)
                  BY <3>2 DEF is_ready
            <3>5. ContinuedOK'
                  BY <1>a, <3>2, <3>4, KeepContinued
            <3>6. CallbackOK'
                  <4>1. \A r \in State : r = s \/ callback'[r] = callback[r]
                        BY <1>0, <3>1 DEF TypeOK
                  <4>2. allocated' \subseteq State
                        BY <1>0, <3>2 DEF TypeOK
                  <4> QED BY <1>a, <3>1, <3>2, <3>3, <3>4, <4>1, <4>2, KeepCallback
            <3>7. CancelExclusive'
                  <4>1. \A u \in Thread, r \in State : /\ OutReads(u, r)' => OutReads(u, r)
                                                       /\ Unretrieved(r)' => Unretrieved(r)
                        BY <3>2 DEF OutReads, Unretrieved
                  <4> QED BY <1>a, <3>2, <4>1, KeepExclusive
            <3> QED BY <3>5, <3>6, <3>7 DEF CancelInv
      <2>5. CASE cancel(t, f)
            <3>1. UNCHANGED <<input, cont, callback, allocated, current_state, future>>
                  BY <2>5 DEF cancel, shared, handles, history
            <3>2. /\ \A u \in Thread : u # t => thr'[u] = thr[u]
                  /\ thr'[t].pc = "cancel"
                  BY <1>0, <2>5 DEF cancel, TypeOK, Idle
            <3>3. \A r \in State : is_ready(r)' <=> is_ready(r)
                  BY <3>1 DEF is_ready
            <3>4. ContinuedOK'
                  <4>1. \A u \in Thread : thr'[u].pc \in Executing \cup {"return"} => thr'[u] = thr[u]
                        BY <3>2 DEF Executing
                  <4> QED BY <1>a, <3>1, <3>3, <4>1, KeepContinued
            <3>5. CallbackOK'
                  <4>1. allocated' \subseteq State
                        BY <1>0, <3>1 DEF TypeOK
                  <4> QED BY <1>a, <3>1, <3>3, <4>1, KeepCallback
            <3>6. CancelExclusive'
                  BY <1>a, <2>5, EnterCancel
            <3> QED BY <3>4, <3>5, <3>6 DEF CancelInv
      <2> QED BY <1>5, <2>1, <2>2, <2>3, <2>4, <2>5 DEF Call, wait, wait_for
<1>6. ASSUME NEW t \in Thread, Step(t) \/ SpuriousWakeup(t) \/ TimeOut(t) PROVE CancelInv'
      <2>1. CASE CheckReady(t) \/ TimeOut(t) \/ CancelCall(t) \/ SpuriousWakeup(t)
            <3>1. UNCHANGED <<input, cont, callback, allocated, current_state, retrieved, promise, future>>
                  BY <2>1 DEF CheckReady, TimeOut, CancelCall, SpuriousWakeup, shared, handles, history
            <3>2. CASE thr' = [thr EXCEPT ![t] = Idle]
                  <4>1. /\ \A u \in Thread : u # t => thr'[u] = thr[u]
                        /\ thr'[t].pc \notin Executing \cup {"return", "cancel"}
                        BY <1>0, <3>2 DEF TypeOK, Idle, Executing
                  <4> QED BY <3>1, <4>1, LocalCancel
            <3>3. CASE thr' = thr
                  <4>1. \A s \in State : (is_ready(s) => is_ready(s)') /\ (Unretrieved(s)' => Unretrieved(s))
                        BY <3>1 DEF is_ready, Unretrieved
                  <4> QED BY <3>1, <3>3, <4>1, QuietCancel
            <3> QED BY <2>1, <3>2, <3>3 DEF CheckReady, TimeOut, CancelCall, SpuriousWakeup
      <2>2. CASE then_returns(t)
            <3>1. /\ UNCHANGED <<input, cont, callback, allocated, current_state, retrieved, promise>>
                  /\ thr[t].pc = "return" /\ future' = [future EXCEPT ![thr[t].fu] = thr[t].out]
                  BY <2>2 DEF then_returns, shared, history
            <3>2. /\ \A u \in Thread : u # t => thr'[u] = thr[u]
                  /\ thr'[t].pc \notin Executing \cup {"return", "cancel"}
                  BY <1>0, <2>2 DEF then_returns, TypeOK, Idle, Executing
            <3> QED BY <3>1, <3>2, LocalCancel
      <2>3. CASE ExecPlain(t)
            <3>1. /\ thr[t].pc = "exec" /\ thr[t].out \in State /\ ~is_ready(thr[t].out)
                  BY <2>3, ExecFacts DEF ExecPlain, Executing
            <3>2. UNCHANGED <<allocated, retrieved, callback, cont, promise, input>>
                  BY <2>3 DEF ExecPlain
            <3>3. CASE Unwind(t) /\ UNCHANGED <<current_state, future>>
                  <4>1. (\A u \in Thread : u # t => thr'[u] = thr[u]) /\ thr'[t].pc = "idle"
                        BY <1>0, <3>3 DEF Unwind, TypeOK, Idle
                  <4> QED BY <3>1, <3>2, <3>3, <4>1, AttachCancel DEF Executing
            <3>4. ASSUME NEW what \in Satisfied, SatisfyAndNotify(t, thr[t].out, what, thr[t].pr),
                         \/ future' = future
                         \/ \E g \in Future : /\ future[g] = NoState
                                              /\ future' = [future EXCEPT ![g] = thr[t].st]
                  PROVE  CancelInv'
                  BY <3>1, <3>2, <3>4, SatisfyCancel
            <3> QED BY <2>3, <3>3, <3>4 DEF ExecPlain, Satisfied
      <2>4. CASE ExecUnwrap(t)
            <3>1. /\ thr[t].pc = "exec" /\ thr[t].out \in State /\ ~is_ready(thr[t].out)
                  BY <2>4, UnwrapEffect, ExecFacts DEF Executing
            <3>2. UNCHANGED <<allocated, retrieved, callback, cont, promise, input>>
                  BY <2>4, UnwrapEffect
            <3>3. ASSUME UNCHANGED current_state, \A u \in Thread : u # t => thr'[u] = thr[u],
                         thr'[t].pc = "attach", thr'[t].out = thr[t].out, thr'[t].fu = thr[t].fu,
                         \/ /\ future' = future /\ thr'[t].st = thr[t].st
                         \/ \E g \in Future : /\ ~InUse(g) /\ future' = [future EXCEPT ![g] = NoState]
                                              /\ thr'[t].st = future[g]
                  PROVE  CancelInv'
                  BY <3>1, <3>2, <3>3, AttachCancel DEF Executing
            <3>4. ASSUME NEW what \in Satisfied, SatisfyAndNotify(t, thr[t].out, what, thr[t].pr),
                         future' = future
                  PROVE  CancelInv'
                  BY <3>1, <3>2, <3>4, SatisfyCancel
            <3> QED BY <2>4, <3>3, <3>4, UnwrapEffect
      <2>5. CASE Attach(t)
            BY <2>5, AttachEffect, AttachCancel DEF Executing
      <2>6. CASE ExecForward(t)
            <3>1. /\ thr[t].pc = "exec" /\ thr[t].st \in State /\ is_ready(thr[t].st)
                  /\ thr[t].out \in State /\ ~is_ready(thr[t].out)
                  BY <1>0, <2>6, ExecFacts DEF ExecForward, Executing, FrameOK
            <3>2. UNCHANGED <<allocated, retrieved, callback, cont, promise, future, input>>
                  BY <2>6 DEF ExecForward, handles
            <3>3. CASE Unwind(t) /\ UNCHANGED current_state
                  <4>1. (\A u \in Thread : u # t => thr'[u] = thr[u]) /\ thr'[t].pc = "idle"
                        BY <1>0, <3>3 DEF Unwind, TypeOK, Idle
                  <4> QED BY <3>1, <3>2, <3>3, <4>1, AttachCancel DEF Executing
            <3>4. CASE SatisfyAndNotify(t, thr[t].out, current_state[thr[t].st], thr[t].pr)
                  <4>1. current_state[thr[t].st] \in Satisfied
                        BY <1>0, <3>1 DEF TypeOK, is_ready
                  <4> QED BY <3>1, <3>2, <3>4, <4>1, SatisfyCancel
            <3> QED BY <2>6, <3>3, <3>4 DEF ExecForward
      <2> QED BY <1>6, <2>1, <2>2, <2>3, <2>4, <2>5, <2>6 DEF Step
<1> QED BY <1>2, <1>3, <1>4, <1>5, <1>6 DEF Next

\* As long as no state is continued twice, cancel() finds a callback to call,
\* although then() moves the callback from state to state and cancel() reads it
\* after it released the lock.
THEOREM Cancellable == Spec => []CancelCallable
<1>1. Init => CancelInv
      BY InitHistory
<1>2. IInv /\ CancelInv => CancelCallable
      <2> SUFFICES ASSUME IInv, CancelInv, ContinuedOnce, NEW t \in Thread, thr[t].pc = "cancel"
                   PROVE  callback[thr[t].st]
          BY DEF CancelCallable
      <2>1. PICK s \in State : s = thr[t].st
            BY DEF IInv, FrameOK
      <2>2. s \in allocated
            BY <2>1 DEF IInv, AllocatedOK
      <2>3. cont[s] = "none" /\ ~Continued(s)
            BY <2>1 DEF CancelInv, CancelExclusive
      <2> QED BY <2>1, <2>2, <2>3 DEF CancelInv, CallbackOK
<1> QED BY <1>1, <1>2, CancelStep, Invariant, FunctorInvariant, PTL DEF Spec
=============================================================================
