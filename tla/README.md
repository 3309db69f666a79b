# TLA+ models of google-cloud-cpp-common

This directory holds TLA+ specifications of the parts of the library whose
correctness depends on more than one call at a time: futures, the completion
queue and the background threads that run it, streaming reads, the asynchronous
retry loop, pagination, logging, the classes that manage the lifetime of a value
by hand, and the conversions of timestamps and integers. TLC checks each module
on small instances, and TLAPS proves the safety properties for every
value of their constants. `PROJECT.json` relates every definition to
the source lines that it models, and lists the runs, the hazards and the
theorems.

To check a run: `tlc -config BackgroundThreads.cfg BackgroundThreads`. To check
proofs: `tlapm Futures_proofs.tla`.

## The system

All paths are relative to `google/cloud/`.

| Component | State | Operations | What makes it hard |
|---|---|---|---|
| `future<T>`, `promise<T>` (`internal/future_impl.h`, `future_base.h`, `future_then_impl.h`, `future_generic.h`, `future_void.h`) | shared states: `current_state_`, `retrieved_`, `continuation_`, `cancellation_callback_`; the objects that point to them | `set_value`, `set_exception`, `abandon`, `get_future`, `wait`, `wait_for`, `get`, `then` with and without unwrapping, `cancel` | `then` races `set_value`; waiters and continuations exclude each other; continuations call user code without a lock; exceptions in the middle of `then` |
| `CompletionQueue` (`completion_queue.h/.cc`, `internal/completion_queue_impl.h/.cc`) | `pending_ops_`, `shutdown_`, the gRPC queue | `MakeDeadlineTimer`, `MakeRelativeTimer`, `MakeUnaryRpc`, `RunAsync`, `Run`, `Shutdown`, `CancelAll`, `cancel` of a timer's future | several threads in `Run`, callbacks that start operations, addresses used as tags and reused, shutdown at any point |
| Background threads (`background_threads.h`, `internal/background_threads_impl.h/.cc`, the factory in `connection_options.h/.cc`) | `cq_`, `runner_` | the factory, `cq`, `Shutdown`, the destructors | the destructor waits for callbacks that may go on starting operations |
| Streaming reads (`internal/async_read_stream_impl.h`) | `context_`, `reader_`, the pending operation | `Start`, `Read`, `Finish`, `Discard`, `Cancel` and their completions | a protocol of four operations in which each step may be refused, fail, or wait for the user's future |
| Retry loop (`internal/async_retry_unary_rpc.h`, `retry_policy.h`, `backoff_policy.h/.cc`) | the policies, the last status, the pending RPC or timer | `Start`, `StartIteration`, `OnCompletion`, the timer's continuation | cancellation and shutdown between any two steps, two kinds of limits, truncated delays |
| Pagination (`internal/pagination_range.h`) | `next_page_token_`, `current_page_`, `current_`, `on_last_page_` | `begin`, `operator++` | page boundaries, empty pages, errors in the middle |
| Logging (`log.h`, `log.cc`) | `backends_`, `empty_`, `minimum_severity_`, `next_id_`, `clog_backend_id_` | `AddBackend`, `RemoveBackend`, `ClearBackends`, `EnableStdClog`, `DisableStdClog`, `Log`, `GCP_LOG()` | flags read without the lock, backends that change while a record is logged, backends that call the sink |
| `StatusOr<T>`, `optional<T>` (`status_or.h`, `optional.h`, `status.h`) | a flag and raw storage | constructors, assignments, `emplace`, `reset`, destructor | an exception of `T` or of a copied message in the middle of an assignment |
| `IamBindings` (`iam_bindings.h/.cc`) | a map of roles to members | `AddMember(s)`, `RemoveMember(s)` | roles that lose their last member |
| RFC 3339 (`internal/parse_rfc3339.cc`, `internal/format_time_point.cc`) | `kLocalTimeOffset`, computed by the first call | `ParseRfc3339`, `FormatRfc3339`, `FormatV4SignedUrlTimestamp`, `FormatV4SignedUrlScope` | the calendar, fractions, times before the epoch, local time zones behind a cached offset |
| Byte order (`internal/big_endian.h`) | none | `EncodeBigEndian`, `DecodeBigEndian` | signs and sizes |

How they interact: an operation of the completion queue holds a `promise`, and
its `Notify()` satisfies it, so continuations run on the threads in `Run()` (or
on the thread that started the operation, if the queue was shut down). The
retry loop and the streaming read are such continuations; both start the next
operation from the completion of the last one. A connection owns a
`BackgroundThreads` object, whose thread is in `Run()` of its queue, or which
shares a queue that the application runs. `StatusOr` carries the results.
Logging is independent of the others.

Other components, and why they are not modelled, are under "Not modelled".

## The modules

A section of code that holds a mutex is one action; code that runs without one
is split where another thread can see the difference. Each module names its
client contract in its header. Definitions named `Faulty...` are variants with a
plausible mistake, next to the definition they vary; no specification uses them.
Each property has one that violates it.

**Futures** (`MCFutures` for symmetry). Shared states are allocated from the
set `State`; the variables `promise` and `future` are the pointers in the
objects, `cont` and `output` the continuation that a state holds, `thr` the call
that a thread executes, `asleep` the threads in `cv_`. `SatisfyAndNotify` is
`set_value()`/`set_exception()` with `notify_now()`; if there is a continuation
the same thread goes on to execute it (`ExecPlain`, `ExecUnwrap`, `Attach`,
`ExecForward`). A functor may return a value, throw, throw a `future_error`,
keep its argument, or return another future, an invalid one or its own argument.
Values are reduced to the kind of result. The paths of `execute()` on which
`input.lock()` finds no input are left out: the input is alive because it is the
state whose `set_value()`, `set_exception()` or `set_continuation()` executes the
continuation.

**FutureContract**. What futures promise: write-once cells, and functors that
run at most once, after their input is satisfied and before their output is.
`Futures` implements it (`ImplementsContract`) with the mapping `FC`.

**CompletionQueue**. `pending`, `shutdown` and the local variables of `Run()`,
`CancelAll()` and the functions that make an operation, for every thread. gRPC
is external: it completes what was started on it, hands each completion to one
`AsyncNext()`, and reports `SHUTDOWN` once it was shut down and has nothing left.
An operation is its address, which is reused as soon as no `shared_ptr` is left.

**BackgroundThreads** extends `CompletionQueue` with the object that a connection
gets from its factory. The initial state has either kind of object. With the
default factory one thread, `Background`, is in `Run()` and nowhere else except in
callbacks; another thread calls `Shutdown()` or the destructor, which shuts the
queue down (`Stop`) and joins the thread (`Join`). With the customer's queue any
thread may run it, and the destructor does nothing. All the other steps are those
of `CompletionQueue`, which `BackgroundThreads` implements (theorem
`ImplementsQueue`); the run of this module checks the properties of both.

**TimerFutures** extends `CompletionQueue` with what clients do with the future of
a timer: `RunAsync()`, whose functor is attached by `then()` and runs where the
timer is notified or, if it is ready, where `then()` is called; and `cancel()`,
which tests the state in one step and calls the timer's callback in another.

**AsyncReadStream**. One stream, one flow of control (`at`, `kind`), with the
server's messages, `Shutdown()` and `Cancel()` at any point. The queue is reduced
to `shutdown_` and the operation of the stream. `CancelAll()` is no step of the
stream: the adapters that it reaches have an empty `Cancel()`.

**RetryAsyncUnaryRpc**. The loop with either retry policy and the exponential
backoff; statuses are OK, retryable, permanent or cancelled, the clock is an
integer, delays are drawn in microseconds and truncated to milliseconds.

**PaginationRange**. Every collection within the bounds, a load that may fail,
and a client that increments an iterator.

**MCLoops** puts `AsyncReadStream`, `RetryAsyncUnaryRpc` and `PaginationRange` in
one instance. They do not interact: `active` says which of them a behaviour runs,
and the others stay in an initial state. The actions and the fairness are those
of the three modules. `MCValues` and `MCCallbacks` use the same device.

**LogSink**. The two halves of every function that changes the backends: what
`mu_` guards, then the function's own store to `empty_` (`StoreAfterAdd`,
`StoreAfterRemove`, `StoreAfterClear`). The steps of a `GCP_LOG()`: the test of
`empty_`, the test of the severity, the copy under the lock, the calls of the
backends, each of which may call the sink. `RemoveBackend()` takes any id, one that
is not registered and that of the std::clog backend too. Initially the environment
may have enabled the std::clog backend, as `Instance()` does. The history `given`
counts how often each id was given out.

**MCCallbacks** puts `LogSink` and `Futures` in one instance, one of them active in
a behaviour: the two parts that call code of the application without a lock, and
whose liveness depends on it.

**StatusOr**, **Optional**, **IamBindings**, **Rfc3339**, **BigEndian** (`MCValues`
puts them side by side). The storage is raw, live, or `ub` once it was used wrongly;
every operation that may throw has an outcome in which it does. `IamBindings` is
compared with a history of what each role was given, by the constructor too, and
deprived of. In `Rfc3339` a time point is a day, a second and a nanosecond, a text
is the fields that `sscanf()` finds in it, and the conversions keep what matters in
the code's formats: the width and sign of a fraction, truncation towards the epoch,
the calendar, the standard offset of the zone at a date against the one cached by
the first call. `ParseRfc3339()` makes its tests in the order of the code, and an
overflow of `from_time_t()` or of one of the three sums is an outcome of its own.
The timestamp of a log record is another conversion of the same kind. In `BigEndian`
a byte has `Base` values instead of 256, so that all values of a four-byte type are
tried; a shift by bytes is a multiplication with or a division by `Power`.

## The runs

| Run | Instance | Distinct states | What it shows |
|---|---|---|---|
| `futures_safety` | 2 threads, 2 promises, 2 futures, 3 states, all functors | 525 thousand | `NoLostWakeup`, `NoWaiterWithContinuation`, `SingleWriter`, `ContinuationNotForgotten`, `CancelCallable`, `ImplementsContract` |
| `callbacks` | 2 threads; 2 backends, 2 severities; 2 promises, 2 futures, 3 states, all functors | 239 thousand | `EmptyIsCurrent`, `OneStdClog`, `RecordReachesBackends`, `IdsAreFresh`, `CallsReturn` of the sink; `ResultDelivered` of the futures: the output of every `then()` is satisfied as soon as nothing is left to wait for, unless a `future_error` left the continuation |
| `background_threads` | 2 threads (one of them the background thread, or both the application's), 2 addresses | 101 thousand | `OwnedByOne`, `NotifiedExactlyOnce`, `FailsOnlyIfCancelled`, `NoStartAfterShutdown`, `OperationsComplete`, `RunReturns` of the queue; `QuietAfterShutdown`, `ShutdownReturns` |
| `loops` | streams of up to 3 messages; 2 failures or 3 ms, delays from 4 us on with a maximum of 6 us, scaling 3/2; up to 4 pages of up to 2 items | 19 thousand | `ReaderNotNull`, `FinishAfterDrained`, `DeliveredInOrder`, `StatusIsHonest`, `NoReadAfterStop`, `FinishIsLast`, `FinishesEventually`; `AttemptsBounded`, `RetriesAreJustified` (which bounds the delays too), `FinalIsHonest`, `LoopEnds`; `SeenInOrder`, `PagesLoadedOnce`, `ReachesEnd` |
| `values` | 2 variables of each class, 2 roles, 2 members; 676 time points, 3 zones, some 2000 texts; types of 1, 2 and 4 bytes of base 4 | 32 thousand | `StatusOrValueIffOk`, `OptionalValueIffHasValue`, `BindingsAreExact`, `RoundTrip`, `AcceptsCalendarDates`, `BytesRoundTrip` |

Seven runs find the code at variance with what its comments say. None of the
properties above needs what these seven deny; they are stated for what the code does:

- `futures_abandon` (`FunctorInvoked`): `abandon()` makes the state ready and
  wakes the waiters but does not execute a continuation, so a callable given to
  `then()` is never invoked if the promise is destroyed unsatisfied.
- `futures_then_throws` (`ThenThrowsUnchanged`): a `then()` that throws has
  already moved the cancellation callback, and a functor that ran has taken the
  value, although "we have not changed the state if anything did throw".
- `futures_result` (`ThenDelivers`): a functor that throws a `std::future_error`, as
  `get()` of a broken promise does, leaves the future that `then()` returned
  unsatisfied; "the returned future will contain the result of func", and a client
  that keeps it waits for ever.
- `format_precision` (`FullPrecision`): the fraction of a time point before the epoch
  is printed with its sign (half a second before it is `1970-01-01T00:00:00.-500Z`),
  which is not the documented form, and a fraction of a tenth of a second or more is
  not found again; "the fractional seconds always represent the full precision".
- `pagination_empty_page` (`EndMeansExhausted`): a page without items ends the
  range even if it has a token for the next page.
- `run_async` (`FunctorOnRunner`): the functor of `RunAsync()` runs on the thread
  that called it, outside `Run()`, if the timer was refused after `Shutdown()` or
  was notified before `then()`.
- `timer_cancel` (`CancelsLiveTimer`): `cancel()` of a timer's future calls the
  callback, which holds a raw `this`, after the lock was released; a thread in
  `Run()` may have notified and forgotten the timer in between.

### Bounds

Two threads, or two variables, are enough for every race of two calls, and every
action of these modules involves at most two. Three shared states are an input, an
output and the intermediate state of an unwrapping continuation, or a chain of two;
states are not recycled. In `callbacks` the clients of the futures do not block and
do not cancel (`FuturesNext`): these calls leave alone what promises and
continuations look at, and `get()` takes a future away as dropping it does; this is
what makes all functors, two threads and liveness fit. One thread and two states are
enough to lose a result (`futures_result`). Two addresses let one operation be
reused while the other is pending. Four pages of up to two items have empty, partial
and full pages in the first, a middle and the last position. The time points are
those around the epoch, leap days, ends of months and years and both ends of the
range of a `time_point`, with fractions of every width, and texts whose fraction has
up to eleven characters, white space included (`"%9ld"` reads nine of them); the
zones are UTC, one ahead of it, and one whose offset changed in 1971. The bounds of
the retry loop let both policies expire and let the delay reach its maximum; the
first range, twice 4 us, is above the maximum of 6 us, so that the two bounds of a
delay differ. Two ids let the std::clog backend and another one come and go, and an
id that is given out again is a second use of one of them. Symmetry is used in
`futures_safety` only, whose properties are not liveness properties and treat
threads, variables and states alike.

Deadlock is not checked where the program may rightly stop: futures when all
states are allocated or the only thread waits for a promise nobody satisfies,
the completion queue when all threads have returned from `Run()` and make no
further calls, a stream, a retry loop or a range that has ended. It is checked
for `values`.

### Fairness

- Futures: weak fairness of the steps of a thread inside a call. Nothing is
  assumed of clients, time-outs or spurious wake-ups.
- Completion queue: weak fairness of threads inside a call or in `Run()`; gRPC
  completes every operation (timers expire, RPCs have deadlines or fail). Strong
  fairness of `ForgetOperation` says that a callback returns however many calls
  it makes, and of `GotEvent` that gRPC does not pass over one completion for
  ever. Nobody need call `Run()`: the properties say what happens if someone does.
- Background threads: as the queue; also the created thread reaches `Run()`, and
  `join()` returns once that thread has ended. Nobody need destroy the object.
- Streaming read and retry loop: threads run, gRPC completes what was started,
  time passes, and the user's handler and its future come to an end; that the
  future may end by being abandoned is an explicit alternative.
- Pagination: the client goes on iterating.
- LogSink: threads run and backends return; strong fairness where a thread waits
  for `mu_`, as other threads take it in between.

## The proofs

| Module | Theorems |
|---|---|
| `Futures_proofs` | `Invariant`, `TypeCorrect`, `OneWriter`, `WakeUps`, `NoWaiter`, `NotForgotten`, `Refinement`, `Cancellable` |
| `CompletionQueue_proofs` | `Invariant`, `TypeCorrect`, `Ownership`, `ExactlyOnce`, `Drained`, `NoLateStart`, `HonestFailures` |
| `BackgroundThreads_proofs` | `ImplementsQueue`, `BTInvariant`, `Quiet` |
| `RetryAsyncUnaryRpc_proofs` | `Invariant`, `TypeCorrect`, `Bounded`, `HonestFinal`, `Justified` |
| `PaginationRange_proofs` | `Invariant`, `InOrder`, `LoadedOnce` |
| `MCLoops_proofs` | of the stream: `Invariant`, `TypeCorrect`, `ReaderSet`, `Drained`, `HonestStatus`, `Stops`, `FinishOnce`, `InOrder`; of the others: `ImplementsRetry`, `ImplementsRange`, `Bounded`, `HonestFinal`, `Justified`, `RangeInOrder`, `LoadedOnce` |
| `LogSink_proofs` | `Invariant`, `TypeCorrect`, `EmptyCurrent`, `OneClog`, `Reached`, `Fresh` |
| `MCValues_proofs` | `StatusOrAgrees`, `OptionalAgrees`, `ExactBindings`, `CalendarDates`, `AcceptsExistingDates`, `ParsesTimePoint`, `CalendarDatesAccepted`, `FormattedSurvives`, `ForeignSurvives`, `TimestampFields`, `TimePointsSurvive`, `CodecRoundTrip`, `BytesSurvive` |

The assumptions are those stated in the modules: the null values are not members
of the sets they complete, `FunctorOutcome` is a subset of the known outcomes,
and bounds are natural numbers. The sets of threads, operations, variables and
states are arbitrary, finite or not. The theorems about the retry loop assume its
`Parameters`, what the constructors of the policies accept (a scaling factor above
1), and those about pagination its `Bounds`; `MCLoops` assumes both of its
instance, so that TLC evaluates them. Those about big-endian integers assume
`Integral`, which `MCValues` assumes of its instance: a byte has an even number of
values (the code asserts 256), and every type has at least one byte.

*Futures.* That no thread waits for a state with a continuation
(`NoWaiterWithContinuation`, the comment in `notify_now()`) is not inductive: it
needs that an unsatisfied state has at most one reader (`SingleReader`), be it a
future, a thread in `get()`, one that attaches the unwrapper, or the caller of
`then()` whose future does not exist yet. `SingleReader` needs `FrameOK` (a
thread's local variables fit the place it has reached, and `then()` has its future
for itself) and `AllocatedOK` (a fresh state has no reader). `SingleWriter` is
what makes the `set_value()` inside `execute()` safe: a promise, a stored
continuation and a running continuation exclude one another. `IInv` is their
conjunction with `NoLostWakeup`. There is one lemma per action; those that satisfy a
state share `SatisfyInv`, those that only change a frame share `LocalStep`.

What the histories say of functors rests on `IInv`. `FunctorOnce` follows a functor
from the input that stores it to the one thread that executes it; it gives
`ContinuationNotForgotten`, and it is what the step-by-step proof of
`ImplementsContract` needs to see that a functor which starts has not run before and
that its output is still empty. For `CancelCallable`, `ContinuedOK` says which
states gave their callback away to an output, `CallbackOK` that all others have
theirs, and `CancelExclusive` that nobody attaches a continuation to a state between
the two steps of `cancel()`. The property has the premise that no state is given to
`then()` twice, which the proof showed to be needed: a functor may keep its argument
and call `then()` on it again, and this second continuation finds no callback to
move. It takes four shared states, one more than the run has.

*CompletionQueue.* `OwnedByOne` is preserved because a new operation is known to its
creator only (`NewIsLocal`, no other creator has its address), which in turn rests
on `Alive`: an address is reused only when the table, the threads and the copies of
`CancelAll()` have let go of it. `ShutdownOrder` says that `shutdown_` precedes
`cq_.Shutdown()`; together with the lock around the start of an operation it gives
`NoStartAfterShutdown`. `NotificationCount` counts notifications by the place of the
operation, from which `NotifiedExactlyOnce` follows. `ReturnedDrained` keeps what
`ReturnsOnlyWhenDrained` says after the queue has reported `SHUTDOWN`.
`HonestResults` follows a failure from gRPC, or from a refused start, to `Notify()`,
which gives `FailsOnlyIfCancelled`.

*BackgroundThreads.* Every step is a step of `CompletionQueue` or leaves its
variables alone (`QueueStep`), which gives `ImplementsQueue` and carries the
queue's invariant over. `QuietAfterShutdown` follows from three facts: only the
background thread is ever in `Run()` (`OnlyRunner`), the thread that was joined
had returned and stays out (`JoinedReturned`, with `OutStaysOut`), and a queue
whose `Run()` returned is drained (`ReturnedDrained`).

*AsyncReadStream.* `PlaceOK` says what is known at each place of the flow of
control (whether `reader_` is set, whether the stream has ended, whether the user
answered false), `FinishedOK` that `on_finish` is called in the last place only.
`DeliveryOK` counts the messages: until the user answers false, the only one that
gRPC handed out and `on_read` has not seen is the one that is about to be delivered.

*RetryAsyncUnaryRpc.* `CountOK` relates attempts, failures and the place of the
loop: an RPC that the queue refuses is a failure and no attempt, so the two counts
are not equal. `DelayOK` bounds the range from which delays are drawn, from below
and, once a delay was drawn, by the maximum; that scaling keeps the lower bound
rests on the factor being above 1 (`ScalingGrows`). `PlaceOK` says what the last
result means at each place.

*PaginationRange.* `SeenInOrder` is about a sequence and the set of items before an
item. `SeenOK` adds what it has to be at every step: the items seen are those up to
`current_` (`Passed`), or up to the end of the page before a failed request.
`PlaceOK` ties the token, the page and the requests together.

*MCLoops.* The run checks the retry loop and the range in one instance with a stream.
`ImplementsRetry` and `ImplementsRange` show that each of them still behaves as its
own module says, although a stream and the retry loop share `shutdown_`; the theorems
of the two modules then hold in `MCLoops` as well. The theorems about the stream
are stated for the specification of `AsyncReadStream`.

*LogSink.* `MutexOK` ties `mu_` to the second half of a critical section. `IdsOK`
says that the ids given out are those up to `next_id_`, each of them once, from
which `Fresh` follows: nothing may ever lower `next_id_`. `OwedOK` follows a record
from the creation of its `Logger` over the copy of the table to the last backend.

*Values.* The properties of `StatusOr`, `Optional` and `IamBindings` are inductive
with their types; each member function is one step. That the constructor of
`IamBindings` gives a role that the vector names once exactly its members, and a
repeated one no others, is `ConstructExact`. `MCValues` runs one module at a
time, and `Spec` of the proofs is that of `MCValues` with any sets of objects,
errors, roles and members.

*Rfc3339.* `CalendarDates` says for every integer year that the tests of
`ParseDateTime()` (twelve months, `kMaxDaysInMonth`, the leap year) accept exactly
the dates that the calendar of `mktime()` gives back. The calendar is a formula on
days: the length of a year is 365 or 366 (`YearLength`), that of a month is what the
table says (`MonthLength`), and a day lies in one year and one month only
(`DateOfDay`). `AcceptsExistingDates` and `ParsesTimePoint` extend this to
`ParseRfc3339()` on `AnyText`, texts with any numbers in their fields, in a zone with
any offsets; `CalendarDatesAccepted` is their consequence for the texts of the run, over any
sequence of calls. There the cached offset is the one that the first call found
(`ParsedOK`).

`FormattedSurvives` says exactly which time points, of any day, `ParseRfc3339()` finds
again in what `FormatRfc3339()` wrote, in a zone with any offsets: all but those
before the epoch with a fraction of a tenth of a second or more. `ForeignSurvives`
says that a text of another program, with any offset of less than a day, is always
found. Both suppose what the code needs: the cached offset is that of the date, and
neither `from_time_t()` nor one of the three sums overflows (the result is not
`Overflow`). The argument
has three parts. `gmtime_r()` is the inverse of `mktime()` (`DateExists`, from the
lemmas on the calendar). Truncation towards the epoch and the signed fraction add up to
the time point (`SecondAndFraction`), and no other fraction does
(`FractionsDiffer`). The fraction is found again exactly if its characters are as
many as its digits (`FormattedFraction`), which follows from the number of digits
(`Digits`, `Width`) and from what "%9ld" reads of them (`PrintedNumber`).
`TimestampFields` is the same of the V4 and log timestamps. `TimePointsSurvive` takes
them to the time points and zones of the run, over any sequence of calls
(`FormattedOK`).

*BigEndian.* `CodecRoundTrip` says for types of any size and a byte with any even
number of values what `DecodeBigEndian<U>()` makes of the bytes that
`EncodeBigEndian<T>()` wrote. The bytes are collected one at a time: after i of them
the result is the value without its last size - i bytes (`CollectsByte`,
`OrOfBytes`). The induction over the bytes is on a set of natural numbers
(`SetInduction`, from the library's theorem that such a set has a least element), and
`PowerDef` and `OrUnique` unfold the two recursive functions. That the number of
values of a type is even (`EvenModulus`) makes the two halves of a signed type equal.
A round trip alone would not notice a codec that swaps the bytes both ways; the order
is fixed by what the value 1 is encoded to.
`BytesSurvive` is its consequence for `MCValues` (`CodecOK`).

Only model-checked: the liveness properties (`ResultDelivered`, `OperationsComplete`,
`RunReturns`, `ShutdownReturns`, `FinishesEventually`, `LoopEnds`, `ReachesEnd`,
`CallsReturn`), since the proof system has no fairness reasoning. `Drained` of
`CompletionQueue_proofs` is proved and is no property of a run: `QuietAfterShutdown`
rests on it and says more.

## Observations

Differences between comments and code that the models made visible and no run
states:

- `CancelAll()` has no effect on a streaming read, whose adapters have an empty
  `Cancel()`, although "Cancel all pending operations." (`completion_queue.h:46`).
- `RemoveBackend()` with the id of the std::clog backend leaves `clog_backend_id_`
  set: `EnableStdClog()` does nothing from then on, until `DisableStdClog()` or
  `ClearBackends()`. `OneStdClog` names this case.
- After `Shutdown()` the callbacks of a refused operation run on the thread that
  started it, not on one in `Run()`.
- The first backoff delay is drawn from between `initial_delay` and twice as much,
  which `maximum_delay` does not limit; it limits the later ones.
- The constructor of `IamBindings` from a vector keeps the first binding of a role
  and drops the members of later ones, unlike `AddMembers()`. `BindingsAreExact`
  names these roles.
- `ParseRfc3339()` corrects `mktime()` by the present offset of the local zone. A
  date at which the zone had another standard offset is off by the difference, and
  so is every date after a change of `TZ`. `RoundTrip` and `AcceptsCalendarDates`
  are stated for dates with the cached offset.
- `ParseRfc3339()` accepts years up to 9999; `from_time_t()` overflows after 2262, and
  at the very ends of the range the fraction and the offsets may overflow too.
- A functor that keeps its argument, now satisfied, may call `then()` on it again. The
  cancellation callback went to the first output, the second has none, and
  `cancel()` on it, while it is not ready, throws `std::bad_function_call`.
- The destructor of the default background threads cannot be called by a callback:
  the thread would join itself. Nothing in the code prevents a callback from
  holding the last reference.

## Not modelled

- The terminate handler: one `std::function`, read and swapped under a mutex and
  called just before `std::abort()`.
- The lifetime of the `CompletionQueue` object, which `RunAsync()` captures by
  pointer, and `SimulateCompletion()`, which serves tests.
- The characters of a timestamp: a text is what `sscanf()` finds in it.
- The comparison operators and text of `Status`, `StatusOr`, `optional`,
  `IamBindings`, and `IamPolicy`.
- Options other than the factory of background threads, build information and
  compiler identification: constants and records.
- The file system, environment and random number wrappers: pure I/O.
- The mapping of gRPC errors and the wrappers of `throw`: tables.
- Template metaprogramming, evaluated at compile time, and the test utilities.
- User code under the lock of a shared state (the move constructor of a value).

## Plan

In the order of importance; all of it is done.

1. `Futures` with `FutureContract`; the inductive invariant and its proof.
2. `CompletionQueue` and its proof.
3. `AsyncReadStream`, `RetryAsyncUnaryRpc`, `PaginationRange` (proved).
4. `LogSink`, with the liveness of futures in `MCCallbacks`; `StatusOr`, `Optional`,
   `IamBindings` (proved).
5. `BackgroundThreads`, composed with `CompletionQueue` (proved).
6. `TimerFutures`: timers with their futures, for `RunAsync()` and late
   cancellation.
7. `Rfc3339` and `BigEndian`, against reference definitions; the calendar and the
   parser (proved).
8. Proofs: the refinement of the contract, `FailsOnlyIfCancelled`,
   `ContinuationNotForgotten`, `CancelCallable`, `DeliveredInOrder`.
9. Proofs of `RoundTrip` and `BytesRoundTrip`, for time points of any day and
   integers of any size.
