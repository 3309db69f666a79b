------------------------------ MODULE MCLoops -------------------------------
(***************************************************************************)
(* Three loops that issue one request after the other, in one instance for *)
(* TLC: a streaming read, a retry loop and a pagination range.  They do    *)
(* not interact, so each behaviour runs one of them, and the others stay   *)
(* in an initial state.                                                    *)
(***************************************************************************)
EXTENDS AsyncReadStream

CONSTANTS
    MaximumFailures, MaximumDuration, InitialDelay, MaximumDelay, ScalingNum, ScalingDen,
    MicrosPerMilli, Horizon,
    MaxPages, MaxItems

VARIABLES
    active,  \* the loop that runs in this behaviour
    policy, is_idempotent, cancelled_is_permanent, place, result, interrupted, failure_count,
    current_delay_range, delay, clock, due, final, attempts,
    pages, next_page_token, current_page, page, current, on_last_page, iterator, seen, loads

Retry == INSTANCE RetryAsyncUnaryRpc WITH at <- place
Range == INSTANCE PaginationRange

ASSUME ParametersAssumption == Retry!Parameters /\ Range!Bounds

retry == <<policy, is_idempotent, cancelled_is_permanent, place, result, interrupted,
           failure_count, current_delay_range, delay, clock, due, final, attempts>>
range == <<pages, next_page_token, current_page, page, current, on_last_page, iterator, seen, loads>>
allVars == <<active, vars, retry, range>>

MCInit ==
    /\ active \in {"stream", "retry", "range"}
    /\ Init /\ Retry!Init /\ Range!Init
    /\ active # "stream" => sent = 0 /\ (active = "range" => ~shutdown)
    /\ active # "retry" => policy = "count" /\ is_idempotent /\ cancelled_is_permanent
    /\ active # "range" => pages = <<0>>

Stream(A) == active = "stream" /\ A /\ UNCHANGED <<active, retry, range>>
RetryLoop(A) == /\ active = "retry" /\ A
                /\ UNCHANGED <<active, at, kind, ok, reader, try_cancel, grpc, history, range>>
Pages(A) == active = "range" /\ A /\ UNCHANGED <<active, vars, retry>>

MCNext == Stream(Next) \/ RetryLoop(Retry!Next) \/ Pages(Range!Next)

\* The fairness of the loop that runs, as its module states it.
MCSpec ==
    /\ MCInit /\ [][MCNext]_allVars
    /\ WF_allVars(Stream(Step))
    /\ WF_allVars(Stream(NoAnswer \/ \E continue \in BOOLEAN : Answer(continue)))
    /\ WF_allVars(RetryLoop(Retry!Step))
    /\ WF_allVars(RetryLoop(Retry!Tick))
    /\ WF_allVars(Pages(Range!Next))

-----------------------------------------------------------------------------
\* LimitedErrorCountRetryPolicy tolerates MaximumFailures failures and expires
\* at the next one.
AttemptsBounded == Retry!AttemptsBounded

\* An RPC is repeated only after a retryable failure of an idempotent request,
\* before the policy expired, and after a timer that ran to its end.
RetriesAreJustified == Retry!RetriesAreJustified

\* The loop says that it was interrupted, or that its policy expired, only if so.
FinalIsHonest == Retry!FinalIsHonest

\* The future that the retry loop returned is satisfied.
LoopEnds == Retry!LoopEnds

\* The client of a range sees the items in order, none twice and none skipped,
\* and has seen all of them when it reaches the end on the last page.
SeenInOrder == Range!SeenInOrder

\* Every page is requested at most once, with the token of the page before it.
PagesLoadedOnce == Range!PagesLoadedOnce

\* The end iterator is reached in spite of errors.
ReachesEnd == active = "range" => Range!ReachesEnd
=============================================================================
