--------------------------- MODULE LogSink_proofs ---------------------------
(***************************************************************************)
(* Proofs of the safety properties of LogSink, for any number of threads,  *)
(* backends and severities.                                                *)
(***************************************************************************)
EXTENDS LogSink, TLAPS

USE ConstantsAssumption

\* The initial state satisfies the inductive invariant.
LEMMA InitInv == Init => IInv
<1> SUFFICES ASSUME Init PROVE IInv
    OBVIOUS
<1> PICK added \in SUBSET (Id \cap {1}) : Instance(added)
    BY DEF Init
<1>1. MutexOK /\ OwedOK
      BY DEF Init, MutexOK, OwedOK, Storing
<1>a. CASE added = {}
      <2>1. /\ backends = {} /\ clog = {} /\ removed = {} /\ empty = TRUE
            /\ next_id = 0 /\ clog_backend_id = 0 /\ given = [id \in Id |-> 0]
            BY <1>a DEF Instance
      <2>2. TypeOK
            BY <2>1 DEF Init, TypeOK, PC
      <2>3. IdsOK
            BY <2>1 DEF IdsOK, Id
      <2>4. EmptyIsCurrent /\ OneStdClog
            BY <2>1 DEF EmptyIsCurrent, OneStdClog
      <2> QED BY <1>1, <2>2, <2>3, <2>4 DEF IInv
<1>b. CASE added # {}
      <2> PICK one \in added : TRUE
          BY <1>b
      <2>0. one = 1 /\ 1 \in 1..MaxId
            BY DEF Id
      <2>1. added = {1}
            BY <2>0
      <2>2. 1 \in Id /\ MaxId >= 1
            BY <2>0 DEF Id
      <2>3. /\ backends = {1} /\ clog = {1} /\ removed = {} /\ empty = FALSE
            /\ next_id = 1 /\ clog_backend_id = 1
            /\ given = [id \in Id |-> IF id = 1 THEN 1 ELSE 0]
            BY <1>b, <2>1 DEF Instance
      <2>4. backends \in SUBSET Id /\ clog \in SUBSET Id /\ removed \in SUBSET Id
            BY <2>2, <2>3
      <2>5. TypeOK
        <3>1. next_id \in 0..MaxId /\ clog_backend_id \in 0..MaxId
              BY <2>2, <2>3
        <3>2. given \in [Id -> Nat]
              BY <2>3
        <3> QED BY <2>3, <2>4, <3>1, <3>2 DEF Init, TypeOK, PC
      <2>6. IdsOK
        <3>1. \A id \in Id : given[id] = (IF id <= next_id THEN 1 ELSE 0)
              BY <2>3 DEF Id
        <3> QED BY <2>3, <3>1 DEF IdsOK
      <2>7. EmptyIsCurrent /\ OneStdClog
            BY <2>3 DEF EmptyIsCurrent, OneStdClog
      <2> QED BY <1>1, <2>5, <2>6, <2>7 DEF IInv
<1> QED BY <1>a, <1>b

\* A thread that changes the backends has taken mu_, and no thread had it.
LEMMA LockStep ==
    ASSUME IInv, NEW t \in Thread, NEW next \in Storing, Lock(t, next)
    PROVE  /\ MutexOK'
           /\ EmptyIsCurrent'
           /\ \A u \in Thread : pc[u] \notin Storing
           /\ pc' \in [Thread -> PC]
           /\ pc[t] = "call" /\ pc'[t] \in Storing /\ mu' = t
           /\ \A u \in Thread : u # t => pc'[u] = pc[u]
<1>0. TypeOK /\ MutexOK
      BY DEF IInv
<1>1. pc[t] = "call" /\ mu = NoThread /\ mu' = t /\ pc' = [pc EXCEPT ![t] = next]
      BY DEF Lock
<1>2. \A u \in Thread : pc[u] \notin Storing
      BY <1>0, <1>1 DEF MutexOK
<1>3. pc'[t] = next /\ \A u \in Thread : u # t => pc'[u] = pc[u]
      BY <1>0, <1>1 DEF TypeOK
<1>4. MutexOK'
      BY <1>1, <1>2, <1>3 DEF MutexOK
<1>5. EmptyIsCurrent'
      BY <1>1 DEF EmptyIsCurrent
<1>6. pc' \in [Thread -> PC]
      BY <1>0, <1>1 DEF TypeOK, PC
<1> QED BY <1>1, <1>2, <1>3, <1>4, <1>5, <1>6

\* A thread that took mu_ owes a record to the same backends as before, but for
\* those that it erased.
LEMMA OwedStep ==
    ASSUME IInv, NEW t \in Thread, pc[t] = "call", pc'[t] \in Storing,
           \A u \in Thread : u # t => pc'[u] = pc[u],
           NEW erased, owed' = [u \in Thread |-> owed[u] \ erased],
           backends \ erased \subseteq backends',
           UNCHANGED <<back, copy>>
    PROVE  OwedOK'
<1> SUFFICES ASSUME NEW u \in Thread
             PROVE  /\ pc'[u] \in {"check", "log"} => owed'[u] \subseteq backends'
                    /\ pc'[u] = "process" \/ (pc'[u] \in {"call"} \cup Storing /\ back'[u] = "process")
                          => owed'[u] \subseteq copy'[u]
                    /\ pc'[u] = "idle" \/ (pc'[u] \in {"call"} \cup Storing /\ back'[u] = "idle")
                          => owed'[u] = {}
    BY DEF OwedOK
<1>1. owed'[u] = owed[u] \ erased
      OBVIOUS
<1>2. pc'[u] = pc[u] \/ (pc[u] = "call" /\ pc'[u] \in Storing)
      OBVIOUS
<1> QED BY <1>1, <1>2 DEF IInv, OwedOK, Storing

\* The functions that erase backends keep the invariant.
LEMMA EraseStep ==
    ASSUME IInv, NEW t \in Thread, NEW next \in Storing, Lock(t, next),
           NEW erased \in SUBSET backends, Erase(erased),
           UNCHANGED <<next_id, empty, minimum_severity, back, copy, given, clog>>,
           \/ clog_backend_id' = clog_backend_id /\ removed' = removed \cup (erased \cap clog)
           \/ clog_backend_id' = 0 /\ removed' = removed /\ backends \cap clog \subseteq erased
    PROVE  IInv'
<1>0. TypeOK /\ MutexOK /\ IdsOK /\ OwedOK /\ OneStdClog
      BY DEF IInv
<1>l. /\ MutexOK'
      /\ EmptyIsCurrent'
      /\ pc' \in [Thread -> PC]
      /\ pc[t] = "call" /\ pc'[t] \in Storing /\ mu' = t
      /\ \A u \in Thread : u # t => pc'[u] = pc[u]
      BY LockStep
<1>1. TypeOK'
      BY <1>0, <1>l DEF TypeOK, Erase
<1>2. IdsOK'
      <2>1. \A id \in Id : given'[id] = (IF id <= next_id' THEN 1 ELSE 0)
            BY <1>0 DEF IdsOK
      <2>2. backends' \subseteq 1..next_id' /\ clog' \subseteq 1..next_id'
            BY <1>0 DEF IdsOK, Erase
      <2>3. clog_backend_id' \in 0..next_id'
            BY <1>0 DEF IdsOK, TypeOK
      <2>4. removed' \subseteq clog' \ backends'
            BY <1>0 DEF IdsOK, Erase
      <2> QED BY <2>1, <2>2, <2>3, <2>4 DEF IdsOK
<1>3. OwedOK'
      BY <1>l, OwedStep DEF Erase
<1>4. OneStdClog'
      BY <1>0 DEF OneStdClog, Erase
<1> QED BY <1>1, <1>2, <1>3, <1>4, <1>l DEF IInv

\* The functions that add a backend keep the invariant.
LEMMA AddStep ==
    ASSUME IInv, NEW t \in Thread, NEW id \in Id, AddBackendImpl(t, id),
           UNCHANGED <<empty, minimum_severity, back, copy, removed, owed>>,
           \/ UNCHANGED <<clog_backend_id, clog>>
           \/ clog_backend_id = 0 /\ clog_backend_id' = id /\ clog' = clog \cup {id}
    PROVE  IInv'
<1>0. TypeOK /\ MutexOK /\ IdsOK /\ OwedOK /\ OneStdClog
      BY DEF IInv
<1>l. /\ MutexOK'
      /\ EmptyIsCurrent'
      /\ pc' \in [Thread -> PC]
      /\ pc[t] = "call" /\ pc'[t] \in Storing /\ mu' = t
      /\ \A u \in Thread : u # t => pc'[u] = pc[u]
      BY LockStep DEF AddBackendImpl, Storing
<1>a. /\ id = next_id + 1 /\ id \in Id /\ next_id' = id /\ backends' = backends \cup {id}
      /\ next_id \in Nat /\ given' = [given EXCEPT ![id] = @ + 1]
      BY <1>0 DEF AddBackendImpl, TypeOK, Id
<1>b. id \notin backends /\ id \notin clog /\ id \notin removed
      BY <1>0, <1>a DEF IdsOK
<1>1. TypeOK'
      <2>1. given' \in [Id -> Nat]
            BY <1>0, <1>a DEF TypeOK
      <2>2. next_id' \in 0..MaxId /\ clog_backend_id' \in 0..MaxId
            BY <1>0, <1>a DEF TypeOK, Id
      <2> QED BY <1>0, <1>l, <1>a, <2>1, <2>2 DEF TypeOK
<1>2. IdsOK'
      <2>1. 1..next_id \subseteq 1..next_id' /\ 0..next_id \subseteq 0..next_id'
            BY <1>a
      <2>2. id \in 1..next_id' /\ id \in 0..next_id'
            BY <1>a
      <2>3. backends' \subseteq 1..next_id'
            BY <1>0, <1>a, <2>1, <2>2 DEF IdsOK
      <2>4. clog' \subseteq 1..next_id'
            BY <1>0, <2>1, <2>2 DEF IdsOK
      <2>5. clog_backend_id' \in 0..next_id'
            BY <1>0, <2>1, <2>2 DEF IdsOK
      <2>6. removed' \subseteq clog' \ backends'
            BY <1>0, <1>a, <1>b DEF IdsOK
      <2>7. ASSUME NEW i \in Id PROVE given'[i] = (IF i <= next_id' THEN 1 ELSE 0)
            <3>1. i \in Nat /\ given[i] = (IF i <= next_id THEN 1 ELSE 0)
                  BY <1>0 DEF IdsOK, Id
            <3>2. given'[i] = IF i = id THEN given[i] + 1 ELSE given[i]
                  BY <1>0, <1>a DEF TypeOK
            <3> QED BY <1>a, <3>1, <3>2
      <2> QED BY <2>3, <2>4, <2>5, <2>6, <2>7 DEF IdsOK
<1>3. OwedOK'
      <2>1. owed' = [u \in Thread |-> owed[u] \ {}]
            BY <1>0 DEF TypeOK
      <2>2. backends \ {} \subseteq backends'
            BY <1>a
      <2> QED BY <1>l, <2>1, <2>2, OwedStep
<1>4. OneStdClog'
      <2>1. CASE UNCHANGED <<clog_backend_id, clog>>
            BY <1>0, <1>a, <1>b, <2>1 DEF OneStdClog
      <2>2. CASE clog_backend_id = 0 /\ clog_backend_id' = id /\ clog' = clog \cup {id}
            <3>1. backends \cap clog = {}
                  BY <1>0, <2>2 DEF OneStdClog
            <3>2. backends' \cap clog' = {id} /\ id # 0
                  BY <1>a, <2>2, <3>1
            <3> QED BY <1>b, <2>2, <3>2 DEF OneStdClog
      <2> QED BY <2>1, <2>2
<1> QED BY <1>1, <1>2, <1>3, <1>4, <1>l DEF IInv

\* A call that changes no backend, and returns, keeps the invariant.
LEMMA ReturnStep ==
    ASSUME IInv, NEW t \in Thread, Return(t),
           UNCHANGED <<backends, next_id, empty, minimum_severity, back, copy, ids, owed>>,
           \/ UNCHANGED clog_backend_id
           \/ clog_backend_id' = 0 /\ clog_backend_id \notin backends
    PROVE  IInv'
<1> USE DEF ids
<1>0. TypeOK /\ MutexOK /\ IdsOK /\ OwedOK /\ EmptyIsCurrent /\ OneStdClog
      BY DEF IInv
<1>1. pc[t] = "call" /\ mu = NoThread /\ mu' = mu /\ pc' = [pc EXCEPT ![t] = back[t]]
      BY DEF Return
<1>2. back[t] \in {"idle", "process"}
      BY <1>0 DEF TypeOK
<1>3. pc'[t] = back[t] /\ \A u \in Thread : u # t => pc'[u] = pc[u]
      BY <1>0, <1>1 DEF TypeOK
<1>4. TypeOK'
      BY <1>0, <1>1, <1>2 DEF TypeOK, PC
<1>5. MutexOK'
      BY <1>0, <1>1, <1>2, <1>3 DEF MutexOK, Storing
<1>6. OwedOK'
      BY <1>0, <1>1, <1>2, <1>3 DEF OwedOK, Storing
<1>7. IdsOK' /\ EmptyIsCurrent'
      BY <1>0, <1>1 DEF IdsOK, EmptyIsCurrent, TypeOK
<1>8. OneStdClog'
      BY <1>0 DEF OneStdClog
<1> QED BY <1>4, <1>5, <1>6, <1>7, <1>8 DEF IInv

\* Every function that changes the backends keeps the invariant.
LEMMA ChangeStep == ASSUME IInv, NEW t \in Thread, Change(t) PROVE IInv'
<1> USE DEF guarded, ids
<1>0. TypeOK /\ OneStdClog
      BY DEF IInv
<1>1. CASE AddBackend(t)
      <2>1. PICK id \in Id : AddBackendImpl(t, id)
            BY <1>1 DEF AddBackend
      <2> QED BY <1>1, <2>1, AddStep DEF AddBackend
<1>2. CASE EnableStdClog(t)
      <2>1. PICK id \in Id :
               AddBackendImpl(t, id) /\ clog_backend_id' = id /\ clog' = clog \cup {id}
            BY <1>2 DEF EnableStdClog
      <2> QED BY <1>2, <2>1, AddStep DEF EnableStdClog
<1>3. CASE RemoveBackend(t)
      <2>1. PICK id \in Id : /\ RemoveBackendImpl(t, id)
                             /\ removed' = removed \cup ({id} \cap backends \cap clog)
            BY <1>3 DEF RemoveBackend
      <2>2. UNCHANGED <<next_id, clog_backend_id, empty, minimum_severity, back, copy, given, clog>>
            BY <1>3 DEF RemoveBackend
      <2>3. CASE id \in backends
            <3>1. Lock(t, "remove") /\ Erase({id})
                  BY <2>1, <2>3 DEF RemoveBackendImpl
            <3>2. {id} \in SUBSET backends /\ "remove" \in Storing
                  /\ removed' = removed \cup ({id} \cap clog)
                  BY <2>1, <2>3 DEF Storing
            <3> QED BY <2>2, <3>1, <3>2, EraseStep
      <2>4. CASE id \notin backends
            <3>1. Return(t) /\ UNCHANGED <<backends, owed, removed>>
                  BY <2>1, <2>4 DEF RemoveBackendImpl
            <3> QED BY <2>2, <3>1, ReturnStep
      <2> QED BY <2>3, <2>4
<1>4. CASE ClearBackends(t)
      <2>1. Lock(t, "clear") /\ Erase(backends) /\ clog_backend_id' = 0 /\ "clear" \in Storing
            /\ UNCHANGED <<next_id, empty, minimum_severity, back, copy, given, clog, removed>>
            BY <1>4 DEF ClearBackends, Storing
      <2>2. backends \in SUBSET backends /\ backends \cap clog \subseteq backends
            OBVIOUS
      <2> QED BY <2>1, <2>2, EraseStep
<1>5. CASE DisableStdClog(t)
      <2>1. RemoveBackendImpl(t, clog_backend_id) /\ clog_backend_id' = 0
            /\ UNCHANGED <<next_id, empty, minimum_severity, back, copy, given, clog, removed>>
            BY <1>5 DEF DisableStdClog
      <2>2. CASE clog_backend_id \in backends
            <3>1. Lock(t, "remove") /\ Erase({clog_backend_id}) /\ "remove" \in Storing
                  BY <2>1, <2>2 DEF RemoveBackendImpl, Storing
            <3>2. {clog_backend_id} \in SUBSET backends /\ backends \cap clog \subseteq {clog_backend_id}
                  BY <1>0, <2>2 DEF OneStdClog
            <3> QED BY <2>1, <3>1, <3>2, EraseStep
      <2>3. CASE clog_backend_id \notin backends
            <3>1. Return(t) /\ UNCHANGED <<backends, owed>>
                  BY <2>1, <2>3 DEF RemoveBackendImpl
            <3> QED BY <2>1, <2>3, <3>1, ReturnStep
      <2> QED BY <2>2, <2>3
<1>6. CASE NothingToDo(t)
      BY <1>6, ReturnStep DEF NothingToDo
<1> QED BY <1>1, <1>2, <1>3, <1>4, <1>5, <1>6 DEF Change

\* The steps of a thread that do not change the backends keep the invariant if
\* they keep the part of it that is about the thread.
LEMMA ThreadStep ==
    ASSUME IInv, NEW t \in Thread, NEW p, NEW b,
           p \in {"idle", "check", "log", "process", "call"}, pc[t] \notin Storing,
           b \in {"idle", "process"},
           pc' = [pc EXCEPT ![t] = p], back' = [back EXCEPT ![t] = b],
           copy' \in [Thread -> SUBSET Id], owed' \in [Thread -> SUBSET Id],
           \A u \in Thread : u # t => copy'[u] = copy[u] /\ owed'[u] = owed[u],
           p \in {"check", "log"} => owed'[t] \subseteq backends,
           p = "process" \/ (p = "call" /\ b = "process") => owed'[t] \subseteq copy'[t],
           p = "idle" \/ (p = "call" /\ b = "idle") => owed'[t] = {},
           UNCHANGED <<mu, guarded, empty, minimum_severity, ids>>
    PROVE  IInv'
<1> USE DEF guarded, ids
<1>0. TypeOK /\ MutexOK /\ IdsOK /\ OwedOK /\ EmptyIsCurrent /\ OneStdClog
      BY DEF IInv
<1>1. TypeOK'
      BY <1>0 DEF TypeOK, PC
<1>2. pc'[t] = p /\ back'[t] = b /\ \A u \in Thread : u # t => pc'[u] = pc[u] /\ back'[u] = back[u]
      BY <1>0 DEF TypeOK
<1>p. p \notin Storing
      BY DEF Storing
<1>3. MutexOK'
      BY <1>0, <1>2, <1>p DEF MutexOK
<1>4. OwedOK'
      <2> SUFFICES ASSUME NEW u \in Thread
                   PROVE  /\ pc'[u] \in {"check", "log"} => owed'[u] \subseteq backends'
                          /\ pc'[u] = "process"
                                \/ (pc'[u] \in {"call"} \cup Storing /\ back'[u] = "process")
                                => owed'[u] \subseteq copy'[u]
                          /\ pc'[u] = "idle" \/ (pc'[u] \in {"call"} \cup Storing /\ back'[u] = "idle")
                                => owed'[u] = {}
          BY DEF OwedOK
      <2>1. CASE u = t
            BY <1>2, <1>p, <2>1
      <2>2. CASE u # t
            BY <1>0, <1>2, <2>2 DEF OwedOK
      <2> QED BY <2>1, <2>2
<1>5. IdsOK' /\ EmptyIsCurrent' /\ OneStdClog'
      BY <1>0 DEF IdsOK, EmptyIsCurrent, OneStdClog
<1> QED BY <1>1, <1>3, <1>4, <1>5 DEF IInv

\* empty_ is stored while mu_ is held, by each of the functions, and then mu_ is
\* released.
LEMMA StoreStep == ASSUME IInv, NEW t \in Thread, Store(t) PROVE IInv'
<1> USE DEF guarded, ids
<1>0. TypeOK /\ MutexOK /\ IdsOK /\ OwedOK /\ OneStdClog
      BY DEF IInv
<1>a. pc[t] \in Storing /\ StoreAndUnlock(t, backends = {})
      BY DEF Store, StoreAfterAdd, StoreAfterRemove, StoreAfterClear, Storing
<1>1. /\ mu = t /\ mu' = NoThread /\ empty' = (backends = {})
      /\ pc' = [pc EXCEPT ![t] = back[t]] /\ back[t] \in {"idle", "process"}
      /\ UNCHANGED <<backends, next_id, clog_backend_id, minimum_severity, back, copy, ids, owed>>
      BY <1>0, <1>a DEF StoreAndUnlock, MutexOK, TypeOK
<1>2. pc'[t] = back[t] /\ \A u \in Thread : u # t => pc'[u] = pc[u]
      BY <1>0, <1>1 DEF TypeOK
<1>3. TypeOK'
      BY <1>0, <1>1 DEF TypeOK, PC
<1>4. MutexOK'
      BY <1>0, <1>1, <1>2 DEF MutexOK, Storing
<1>5. OwedOK'
      BY <1>0, <1>a, <1>1, <1>2 DEF OwedOK, Storing
<1>6. IdsOK' /\ OneStdClog'
      BY <1>0, <1>1 DEF IdsOK, OneStdClog
<1>7. EmptyIsCurrent'
      BY <1>1 DEF EmptyIsCurrent
<1> QED BY <1>3, <1>4, <1>5, <1>6, <1>7 DEF IInv

\* Every step keeps the inductive invariant.
LEMMA NextInv == IInv /\ [Next]_vars => IInv'
<1> SUFFICES ASSUME IInv, [Next]_vars PROVE IInv'
    OBVIOUS
<1> USE DEF guarded, ids, Storing
<1>0. TypeOK /\ MutexOK /\ IdsOK /\ OwedOK /\ EmptyIsCurrent /\ OneStdClog
      BY DEF IInv
<1>1. ASSUME NEW t \in Thread, Call(t) PROVE IInv'
      <2>1. owed[t] = {}
            BY <1>0, <1>1 DEF OwedOK, Call
      <2> QED BY <1>0, <1>1, <2>1, ThreadStep DEF Call, TypeOK
<1>2. ASSUME NEW t \in Thread, MakeLogger(t) PROVE IInv'
      <2>1. back[t] \in {"idle", "process"} /\ back' = [back EXCEPT ![t] = back[t]]
            BY <1>0, <1>2 DEF MakeLogger, TypeOK
      <2>2. owed' \in [Thread -> SUBSET Id] /\ owed'[t] = backends
            /\ \A u \in Thread : u # t => owed'[u] = owed[u]
            BY <1>0, <1>2 DEF MakeLogger, TypeOK
      <2>3. copy' \in [Thread -> SUBSET Id]
            BY <1>0, <1>2 DEF MakeLogger, TypeOK
      <2>4. pc[t] = "idle" /\ pc' = [pc EXCEPT ![t] = "check"]
            /\ UNCHANGED <<mu, guarded, empty, minimum_severity, ids, copy>>
            BY <1>2 DEF MakeLogger
      <2> QED BY <2>1, <2>2, <2>3, <2>4, ThreadStep
<1>3. ASSUME NEW t \in Thread, CheckEnabled(t) PROVE IInv'
      <2>1. back[t] \in {"idle", "process"} /\ back' = [back EXCEPT ![t] = back[t]]
            /\ copy' \in [Thread -> SUBSET Id] /\ pc[t] = "check" /\ owed[t] \subseteq backends
            /\ UNCHANGED <<mu, guarded, empty, minimum_severity, ids, copy>>
            BY <1>0, <1>3 DEF CheckEnabled, TypeOK, OwedOK
      <2>2. CASE pc' = [pc EXCEPT ![t] = "log"] /\ UNCHANGED owed
            <3>1. owed' \in [Thread -> SUBSET Id]
                  BY <1>0, <2>2 DEF TypeOK
            <3> QED BY <2>1, <2>2, <3>1, ThreadStep
      <2>3. CASE pc' = [pc EXCEPT ![t] = "idle"] /\ owed' = [owed EXCEPT ![t] = {}]
            <3>1. owed' \in [Thread -> SUBSET Id] /\ owed'[t] = {}
                  /\ \A u \in Thread : u # t => owed'[u] = owed[u]
                  BY <1>0, <2>3 DEF TypeOK
            <3> QED BY <2>1, <2>3, <3>1, ThreadStep
      <2> QED BY <1>3, <2>2, <2>3 DEF CheckEnabled
<1>4. ASSUME NEW t \in Thread, Log(t) PROVE IInv'
      <2>1. back[t] \in {"idle", "process"} /\ back' = [back EXCEPT ![t] = back[t]]
            /\ owed' \in [Thread -> SUBSET Id] /\ pc[t] = "log" /\ owed[t] \subseteq backends
            /\ UNCHANGED <<mu, guarded, empty, minimum_severity, ids, owed>>
            BY <1>0, <1>4 DEF Log, TypeOK, OwedOK
      <2>2. copy' \in [Thread -> SUBSET Id] /\ copy'[t] = backends
            /\ \A u \in Thread : u # t => copy'[u] = copy[u]
            BY <1>0, <1>4 DEF Log, TypeOK
      <2>3. CASE backends = {}
            <3>1. pc' = [pc EXCEPT ![t] = "idle"] /\ owed'[t] = {}
                  BY <1>4, <2>1, <2>3 DEF Log
            <3> QED BY <2>1, <2>2, <3>1, ThreadStep
      <2>4. CASE backends # {}
            <3>1. pc' = [pc EXCEPT ![t] = "process"]
                  BY <1>4, <2>4 DEF Log
            <3> QED BY <2>1, <2>2, <3>1, ThreadStep
      <2> QED BY <2>3, <2>4
<1>5. ASSUME NEW t \in Thread, Process(t) PROVE IInv'
      <2>1. PICK id \in copy[t] : /\ copy' = [copy EXCEPT ![t] = @ \ {id}]
                                  /\ owed' = [owed EXCEPT ![t] = @ \ {id}]
            BY <1>5 DEF Process
      <2>2. pc[t] = "process" /\ owed[t] \subseteq copy[t]
            /\ back' = [back EXCEPT ![t] = "process"]
            /\ UNCHANGED <<mu, guarded, empty, minimum_severity, ids>>
            BY <1>0, <1>5 DEF Process, OwedOK
      <2>3. copy' \in [Thread -> SUBSET Id] /\ owed' \in [Thread -> SUBSET Id]
            /\ copy'[t] = copy[t] \ {id} /\ owed'[t] = owed[t] \ {id}
            /\ \A u \in Thread : u # t => copy'[u] = copy[u] /\ owed'[u] = owed[u]
            BY <1>0, <2>1 DEF TypeOK
      <2>4. owed'[t] \subseteq copy'[t]
            BY <2>2, <2>3
      <2>5. CASE pc' = pc
            <3>1. pc' = [pc EXCEPT ![t] = "process"]
                  BY <1>0, <2>2, <2>5 DEF TypeOK
            <3> QED BY <2>2, <2>3, <2>4, <3>1, ThreadStep
      <2>6. CASE pc' = [pc EXCEPT ![t] = "call"]
            BY <2>2, <2>3, <2>4, <2>6, ThreadStep
      <2> QED BY <1>5, <2>5, <2>6 DEF Process
<1>6. ASSUME NEW t \in Thread, LogReturns(t) PROVE IInv'
      <2>1. back[t] \in {"idle", "process"} /\ back' = [back EXCEPT ![t] = back[t]]
            /\ copy' \in [Thread -> SUBSET Id] /\ owed' \in [Thread -> SUBSET Id]
            BY <1>0, <1>6 DEF LogReturns, TypeOK
      <2>2. pc[t] = "process" /\ owed[t] = {} /\ pc' = [pc EXCEPT ![t] = "idle"]
            /\ UNCHANGED <<mu, guarded, empty, minimum_severity, ids, copy, owed>>
            BY <1>0, <1>6 DEF LogReturns, OwedOK
      <2> QED BY <2>1, <2>2, ThreadStep
<1>7. ASSUME NEW s \in 0..MaxSeverity, set_minimum_severity(s) PROVE IInv'
      BY <1>0, <1>7 DEF set_minimum_severity, IInv, TypeOK, MutexOK, IdsOK, OwedOK, EmptyIsCurrent,
                        OneStdClog
<1>8. CASE UNCHANGED vars
      BY <1>0, <1>8 DEF vars, IInv, TypeOK, MutexOK, IdsOK, OwedOK, EmptyIsCurrent, OneStdClog
<1> QED BY <1>1, <1>2, <1>3, <1>4, <1>5, <1>6, <1>7, <1>8, ChangeStep, StoreStep DEF Next

-----------------------------------------------------------------------------
\* The inductive invariant: mu_ is held by the thread between a change of the
\* backends and the store of empty_, ids are given out in order, and a record is
\* owed only to backends that the thread will still call.
THEOREM Invariant == Spec => []IInv
<1> QED BY InitInv, NextInv, PTL DEF Spec

\* Every variable has its type.
THEOREM TypeCorrect == Spec => []TypeOK
<1>1. IInv => TypeOK
      BY DEF IInv
<1> QED BY <1>1, Invariant, PTL

\* empty_, which GCP_LOG() reads without the lock, agrees with backends_ whenever
\* no change is under way.
THEOREM EmptyCurrent == Spec => []EmptyIsCurrent
<1>1. IInv => EmptyIsCurrent
      BY DEF IInv
<1> QED BY <1>1, Invariant, PTL

\* clog_backend_id_ identifies the one StdClogBackend that is registered.
THEOREM OneClog == Spec => []OneStdClog
<1>1. IInv => OneStdClog
      BY DEF IInv
<1> QED BY <1>1, Invariant, PTL

\* A record that is logged reaches every backend that was registered all the
\* while.
THEOREM Reached == Spec => []RecordReachesBackends
<1>1. IInv => RecordReachesBackends
      BY DEF IInv, OwedOK, RecordReachesBackends
<1> QED BY <1>1, Invariant, PTL

\* An id is given out once: it never refers to a second backend.
THEOREM Fresh == Spec => []IdsAreFresh
<1>1. IInv => IdsAreFresh
      <2> SUFFICES ASSUME IInv, NEW id \in Id PROVE given[id] <= 1
          BY DEF IdsAreFresh
      <2>1. given[id] = 0 \/ given[id] = 1
            BY DEF IInv, IdsOK
      <2> QED BY <2>1
<1> QED BY <1>1, Invariant, PTL
=============================================================================
