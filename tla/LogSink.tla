------------------------------ MODULE LogSink ------------------------------
(***************************************************************************)
(* google::cloud::LogSink and the GCP_LOG() macro: backends registered by  *)
(* the application, the std::clog backend, the atomics that a Logger reads *)
(* without a lock, and records that several threads log while the backends *)
(* change (log.h, log.cc).                                                 *)
(*                                                                         *)
(* The first step of a function that changes the backends acquires mu_ and *)
(* changes what mu_ guards; its second step is the function's own store to *)
(* empty_, which a Logger reads without the lock, and releases mu_.  A     *)
(* backend runs with no lock held and may call the sink itself.            *)
(*                                                                         *)
(* A definition named Faulty... is a variant of the one that follows it    *)
(* with a plausible mistake, kept to show that a property can fail.        *)
(***************************************************************************)
EXTENDS Naturals, FiniteSets

CONSTANTS
    Thread,
    NoThread,
    MaxId,        \* how many backends may be added
    MaxSeverity   \* severities are 0..MaxSeverity

ASSUME ConstantsAssumption ==
    NoThread \notin Thread /\ MaxId \in Nat /\ MaxSeverity \in Nat

VARIABLES
    mu,                \* who holds mu_
    backends,          \* the keys of backends_
    empty,             \* empty_
    minimum_severity,  \* minimum_severity_
    next_id,           \* next_id_
    clog_backend_id,   \* clog_backend_id_
    pc,                \* where each thread is
    back,              \* where a thread that changes the backends returns to
    copy,              \* the local copy in Log(): the backends not called yet
    given,             \* history: how often AddBackendImpl() returned each id
    clog,              \* history: the ids of StdClogBackend objects
    removed,           \* history: the ids of StdClogBackend objects that RemoveBackend() erased
    owed               \* history: the backends registered ever since the Logger was
                       \* created that have not got the record

guarded == <<backends, next_id, clog_backend_id>>
ids == <<given, clog, removed>>
vars == <<mu, guarded, empty, minimum_severity, pc, back, copy, ids, owed>>

Id == 1..MaxId

\* A thread holds mu_ and has the store to empty_ of one of the functions ahead.
Storing == {"add", "remove", "clear"}
PC == {"idle", "check", "log", "process", "call"} \cup Storing

TypeOK ==
    /\ mu \in Thread \cup {NoThread}
    /\ backends \in SUBSET Id
    /\ empty \in BOOLEAN
    /\ minimum_severity \in 0..MaxSeverity
    /\ next_id \in 0..MaxId
    /\ clog_backend_id \in 0..MaxId
    /\ pc \in [Thread -> PC]
    /\ back \in [Thread -> {"idle", "process"}]
    /\ copy \in [Thread -> SUBSET Id]
    /\ given \in [Id -> Nat]
    /\ clog \in SUBSET Id
    /\ removed \in SUBSET Id
    /\ owed \in [Thread -> SUBSET Id]

\* The constructor, and Instance(), which enables the std::clog backend if
\* GOOGLE_CLOUD_CPP_ENABLE_CLOG is set: added are the backends that it adds.
Instance(added) ==
    /\ backends = added /\ clog = added
    /\ empty = (added = {})
    /\ next_id = (IF added = {} THEN 0 ELSE 1)
    /\ clog_backend_id = next_id
    /\ given = [id \in Id |-> IF id \in added THEN 1 ELSE 0]
    /\ removed = {}

Init ==
    /\ mu = NoThread
    /\ \E added \in SUBSET (Id \cap {1}) : Instance(added)
    /\ minimum_severity \in 0..MaxSeverity
    /\ pc = [t \in Thread |-> "idle"]
    /\ back = [t \in Thread |-> "idle"]
    /\ copy = [t \in Thread |-> {}]
    /\ owed = [t \in Thread |-> {}]

-----------------------------------------------------------------------------
(* Changing the backends                                                   *)

\* The application, or a backend that processes a record, calls the sink.
Call(t) ==
    /\ pc[t] = "idle"
    /\ pc' = [pc EXCEPT ![t] = "call"]
    /\ back' = [back EXCEPT ![t] = "idle"]
    /\ UNCHANGED <<mu, guarded, empty, minimum_severity, copy, ids, owed>>

\* The lock; next is what is left to do under it.
Lock(t, next) ==
    /\ pc[t] = "call" /\ mu = NoThread
    /\ mu' = t
    /\ pc' = [pc EXCEPT ![t] = next]

\* The call finds nothing to change under the lock, and returns.
Return(t) ==
    /\ pc[t] = "call" /\ mu = NoThread
    /\ pc' = [pc EXCEPT ![t] = back[t]]
    /\ UNCHANGED mu

\* backends_.erase(): the backends are not owed a record any more.
Erase(erased) ==
    /\ backends' = backends \ erased
    /\ owed' = [t \in Thread |-> owed[t] \ erased]

AddBackendImpl(t, id) ==
    /\ Lock(t, "add")
    /\ next_id < MaxId
    /\ id = next_id + 1
    /\ next_id' = id
    /\ backends' = backends \cup {id}
    /\ given' = [given EXCEPT ![id] = @ + 1]

AddBackend(t) ==
    /\ \E id \in Id : AddBackendImpl(t, id)
    /\ UNCHANGED <<clog_backend_id, empty, minimum_severity, back, copy, clog, removed, owed>>

RemoveBackendImpl(t, id) ==
    \/ /\ id \in backends
       /\ Lock(t, "remove")
       /\ Erase({id})
    \/ /\ id \notin backends
       /\ Return(t)
       /\ UNCHANGED <<backends, owed>>

\* The application may pass any id, that of the std::clog backend too.
RemoveBackend(t) ==
    /\ \E id \in Id : /\ RemoveBackendImpl(t, id)
                      /\ removed' = removed \cup ({id} \cap backends \cap clog)
    /\ UNCHANGED <<next_id, clog_backend_id, empty, minimum_severity, back, copy, given, clog>>

\* clog_backend_id_ is not reset.
FaultyClearKeepsClog(t) ==
    /\ Lock(t, "clear")
    /\ Erase(backends)
    /\ UNCHANGED <<next_id, clog_backend_id, empty, minimum_severity, back, copy, ids>>

\* next_id_ is reset too: ids are given out again.
FaultyClearRestartsIds(t) ==
    /\ Lock(t, "clear")
    /\ Erase(backends)
    /\ clog_backend_id' = 0 /\ next_id' = 0
    /\ UNCHANGED <<empty, minimum_severity, back, copy, ids>>

ClearBackends(t) ==
    /\ Lock(t, "clear")
    /\ Erase(backends)
    /\ clog_backend_id' = 0
    /\ UNCHANGED <<next_id, empty, minimum_severity, back, copy, ids>>

\* The environment variable has the same effect as a call (Instance).
EnableStdClog(t) ==
    /\ clog_backend_id = 0
    /\ \E id \in Id : /\ AddBackendImpl(t, id)
                      /\ clog_backend_id' = id
                      /\ clog' = clog \cup {id}
    /\ UNCHANGED <<empty, minimum_severity, back, copy, removed, owed>>

DisableStdClog(t) ==
    /\ clog_backend_id # 0
    /\ RemoveBackendImpl(t, clog_backend_id)
    /\ clog_backend_id' = 0
    /\ UNCHANGED <<next_id, empty, minimum_severity, back, copy, ids>>

\* EnableStdClog() while clog_backend_id_ is set, DisableStdClog() while it is not
NothingToDo(t) ==
    /\ Return(t)
    /\ UNCHANGED <<guarded, empty, minimum_severity, back, copy, ids, owed>>

\* empty_.store(value), and mu_ is released.
StoreAndUnlock(t, value) ==
    /\ empty' = value
    /\ mu' = NoThread
    /\ pc' = [pc EXCEPT ![t] = back[t]]
    /\ UNCHANGED <<guarded, minimum_severity, back, copy, ids, owed>>

\* The three functions that store empty_, each with a store of its own
StoreAfterAdd(t) == pc[t] = "add" /\ StoreAndUnlock(t, backends = {})

\* RemoveBackendImpl() does not store empty_.
FaultyStoreAfterRemove(t) == pc[t] = "remove" /\ StoreAndUnlock(t, empty)

StoreAfterRemove(t) == pc[t] = "remove" /\ StoreAndUnlock(t, backends = {})

StoreAfterClear(t) == pc[t] = "clear" /\ StoreAndUnlock(t, backends = {})

Store(t) == StoreAfterAdd(t) \/ StoreAfterRemove(t) \/ StoreAfterClear(t)

set_minimum_severity(s) ==
    /\ minimum_severity # s
    /\ minimum_severity' = s
    /\ UNCHANGED <<mu, guarded, empty, pc, back, copy, ids, owed>>

-----------------------------------------------------------------------------
(* GCP_LOG()                                                               *)

\* Logger(): sink.empty(); nothing is logged if it is true.
MakeLogger(t) ==
    /\ pc[t] = "idle"
    /\ ~empty
    /\ pc' = [pc EXCEPT ![t] = "check"]
    /\ owed' = [owed EXCEPT ![t] = backends]
    /\ UNCHANGED <<mu, guarded, empty, minimum_severity, back, copy, ids>>

\* Logger(): sink.is_enabled(severity), then LogTo() if the record is enabled.
CheckEnabled(t) ==
    /\ pc[t] = "check"
    /\ \E severity \in 0..MaxSeverity :
          \/ /\ severity >= minimum_severity
             /\ pc' = [pc EXCEPT ![t] = "log"]
             /\ UNCHANGED owed
          \/ /\ severity < minimum_severity
             /\ pc' = [pc EXCEPT ![t] = "idle"]
             /\ owed' = [owed EXCEPT ![t] = {}]
    /\ UNCHANGED <<mu, guarded, empty, minimum_severity, back, copy, ids>>

\* Log() holds mu_ while it calls the backends.
FaultyLog(t) ==
    /\ pc[t] = "log" /\ mu = NoThread
    /\ mu' = IF backends = {} THEN NoThread ELSE t
    /\ copy' = [copy EXCEPT ![t] = backends]
    /\ pc' = [pc EXCEPT ![t] = IF backends = {} THEN "idle" ELSE "process"]
    /\ UNCHANGED <<guarded, empty, minimum_severity, back, ids, owed>>

\* Log(): the copy of backends_ under mu_
Log(t) ==
    /\ pc[t] = "log" /\ mu = NoThread
    /\ copy' = [copy EXCEPT ![t] = backends]
    /\ pc' = [pc EXCEPT ![t] = IF backends = {} THEN "idle" ELSE "process"]
    /\ UNCHANGED <<mu, guarded, empty, minimum_severity, back, ids, owed>>

\* A record goes to the first backend only.
FaultyProcess(t) ==
    /\ pc[t] = "process" /\ copy[t] # {}
    /\ \E id \in copy[t] :
          /\ \A other \in copy[t] : id <= other
          /\ copy' = [copy EXCEPT ![t] = {}]
          /\ owed' = [owed EXCEPT ![t] = @ \ {id}]
    /\ pc' \in {pc, [pc EXCEPT ![t] = "call"]}
    /\ back' = [back EXCEPT ![t] = "process"]
    /\ UNCHANGED <<mu, guarded, empty, minimum_severity, ids>>

\* Process() or ProcessWithOwnership() of the next backend, in the order of the
\* ids; it may call the sink.
Process(t) ==
    /\ pc[t] = "process" /\ copy[t] # {}
    /\ \E id \in copy[t] :
          /\ \A other \in copy[t] : id <= other
          /\ copy' = [copy EXCEPT ![t] = @ \ {id}]
          /\ owed' = [owed EXCEPT ![t] = @ \ {id}]
    /\ pc' \in {pc, [pc EXCEPT ![t] = "call"]}
    /\ back' = [back EXCEPT ![t] = "process"]
    /\ UNCHANGED <<mu, guarded, empty, minimum_severity, ids>>

LogReturns(t) ==
    /\ pc[t] = "process" /\ copy[t] = {}
    /\ pc' = [pc EXCEPT ![t] = "idle"]
    /\ UNCHANGED <<mu, guarded, empty, minimum_severity, back, copy, ids, owed>>

-----------------------------------------------------------------------------
Change(t) ==
    \/ AddBackend(t) \/ RemoveBackend(t) \/ ClearBackends(t)
    \/ EnableStdClog(t) \/ DisableStdClog(t) \/ NothingToDo(t)

Next ==
    \/ \E t \in Thread : \/ Call(t) \/ Change(t) \/ Store(t)
                         \/ MakeLogger(t) \/ CheckEnabled(t) \/ Log(t) \/ Process(t) \/ LogReturns(t)
    \/ \E s \in 0..MaxSeverity : set_minimum_severity(s)

Spec == Init /\ [][Next]_vars

\* Threads run, backends return, and a thread that waits for mu_ gets it.
FairSpec ==
    /\ Spec
    /\ \A t \in Thread : /\ WF_vars(Store(t) \/ CheckEnabled(t) \/ Process(t) \/ LogReturns(t))
                         /\ SF_vars(Change(t) \/ Log(t))

-----------------------------------------------------------------------------
(* Properties                                                              *)

\* empty_ agrees with backends_ whenever mu_ is free ("all the writes are done
\* inside a critical section", empty): no change leaves GCP_LOG() disabled
\* although there are backends, or enabled for ever without any.
EmptyIsCurrent == mu = NoThread => (empty <=> backends = {})

\* clog_backend_id_ is the one StdClogBackend, through ClearBackends() and
\* DisableStdClog(), unless RemoveBackend() was called with its id: there is
\* never a second one, and EnableStdClog() does nothing only while there is one.
OneStdClog == backends \cap clog = {clog_backend_id} \ ({0} \cup removed)

\* An id refers to one backend for ever, through RemoveBackend(), ClearBackends()
\* and DisableStdClog(): a late RemoveBackend() with an id that AddBackend()
\* returned never removes the backend of somebody else.
IdsAreFresh == \A id \in Id : given[id] <= 1

\* A record that is logged reaches every backend that was registered all the
\* while, whatever others add and remove.
RecordReachesBackends == \A t \in Thread : pc[t] = "idle" => owed[t] = {}

\* GCP_LOG() and the functions that change the backends return, even when a
\* backend calls the sink ("calling user-defined functions while holding a lock
\* is a bad idea ... soon deadlock occurs", Log).
CallsReturn == \A t \in Thread : (pc[t] # "idle") ~> (pc[t] = "idle")
-----------------------------------------------------------------------------
(* The inductive invariant                                                 *)

\* A thread has a store to empty_ ahead if and only if it holds mu_.
MutexOK == \A t \in Thread : pc[t] \in Storing <=> mu = t

\* The ids given out are those up to next_id_, each of them once; a registered
\* backend, and a StdClogBackend, has one of them.
IdsOK ==
    /\ \A id \in Id : given[id] = (IF id <= next_id THEN 1 ELSE 0)
    /\ backends \subseteq 1..next_id
    /\ clog \subseteq 1..next_id
    /\ clog_backend_id \in 0..next_id
    /\ removed \subseteq clog \ backends

\* Up to the copy a record is owed to registered backends; then to backends in
\* the copy, also while one of them calls the sink.
OwedOK ==
    \A t \in Thread :
        /\ pc[t] \in {"check", "log"} => owed[t] \subseteq backends
        /\ pc[t] = "process" \/ (pc[t] \in {"call"} \cup Storing /\ back[t] = "process")
              => owed[t] \subseteq copy[t]
        /\ pc[t] = "idle" \/ (pc[t] \in {"call"} \cup Storing /\ back[t] = "idle")
              => owed[t] = {}

IInv == TypeOK /\ MutexOK /\ IdsOK /\ OwedOK /\ EmptyIsCurrent /\ OneStdClog
=============================================================================
