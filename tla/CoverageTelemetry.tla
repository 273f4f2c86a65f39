------------------------- MODULE CoverageTelemetry -------------------------
(***************************************************************************)
(* The research coverage counters (src/src/research/coverage_telemetry.py).*)
(* The monitor's coroutines and RPC threads count events in memory, by the *)
(* bucket of their time; the heartbeat flushes the counts into a document  *)
(* of the last buckets and rolls the finished hours up into another one,   *)
(* which the review reads.  A heartbeat is cancelled at every reconnect,   *)
(* its flush runs on in its thread, and the next connection's heartbeat    *)
(* flushes at once: two flushes overlap.                                   *)
(*                                                                         *)
(* Time is counted in buckets.  A mint is the bit it hashes to; an RPC key *)
(* is a number, ordered as the merge sorts the keys.  recorded and         *)
(* diedWith are history: what was counted, and what died with a process.   *)
(***************************************************************************)
EXTENDS Naturals, Sequences, TLC, FiniteSets, FiniteSetsExt, Functions

CONSTANTS Flushes,        \* threads that may be flushing
          Stages,         \* funnel stages
          Keys, MethodKeys,  \* RPC dimensions: of confirmations, of methods (numbers)
          RpcCalls,          \* what one RPC call counts: [asked, other]
          Bits,           \* bits of the mint bitmap
          HourBuckets,    \* EXPECTED_BUCKETS_PER_HOUR (4)
          MaxBuckets,     \* MAX_BUCKETS (24)
          MaxHours,       \* MAX_HOURLY_ROLLUPS (72)
          MaxKeys,        \* MAX_RPC_DIMENSIONS_PER_BUCKET, and per methods (64)
          MaxTime, MaxCounts, MaxFaults,   \* bounds of the model
          None

ASSUME CoverageAssumption ==
    /\ Keys \cup MethodKeys \subseteq Nat /\ None \notin Nat
    /\ {HourBuckets, MaxBuckets, MaxHours, MaxKeys} \subseteq Nat \ {0}
    /\ IsFiniteSet(Stages) /\ IsFiniteSet(Flushes)
    /\ RpcCalls \subseteq [asked: Nat, other: Nat] /\ MaxTime \in Nat

VARIABLES now, pending, beatAt, rolledAt,   \* the process: clock, _pending_buckets, _last_*
          flush,                            \* what each flush holds
          raw, hourly,                      \* the two documents
          faults, recorded, diedWith
coverageVars == <<now, pending, beatAt, rolledAt, flush, raw, hourly, faults,
                  recorded, diedWith>>

-----------------------------------------------------------------------------
(* Metrics, buckets and their merge                                        *)

NoMetric == [count |-> 0, bits |-> {}]

\* _merge_metric
MergeMetric(t, s) == [count |-> t.count + s.count, bits |-> t.bits \cup s.bits]

\* _rpc_method_metric: requests, and every other counter
NoMethod == [asked |-> 0, other |-> 0]

\* _merge_rpc_method_metric
MergeMethod(t, s) == [asked |-> t.asked + s.asked, other |-> t.other + s.other]

EmptyBucket == [stages |-> [s \in Stages |-> NoMetric],
                confirmed |-> <<>>, confirmedOver |-> 0,
                methods |-> <<>>, methodsOver |-> 0]

At(f, x, default) == IF x \in DOMAIN f THEN f[x] ELSE default
Put(f, x, v) == [y \in DOMAIN f \cup {x} |-> IF y = x THEN v ELSE f[y]]

\* The keys a merge lets in: those already there, then the new ones in order up to the limit
LetIn(t, s) ==
    DOMAIN t \cup {k \in DOMAIN s \ DOMAIN t :
        Cardinality(DOMAIN t \cup {j \in DOMAIN s \ DOMAIN t : j < k}) < MaxKeys}

AtLeastOne(n) == IF n = 0 THEN 1 ELSE n

\* _merge_bucket; what a refused method key adds is its requests alone
MergeBucket(t, s) ==
    LET in == LetIn(t.confirmed, s.confirmed)
        methodsIn == LetIn(t.methods, s.methods)
    IN  [stages    |-> [g \in Stages |-> MergeMetric(t.stages[g], s.stages[g])],
         confirmed |-> [k \in in |-> MergeMetric(At(t.confirmed, k, NoMetric), At(s.confirmed, k, NoMetric))],
         confirmedOver |-> t.confirmedOver + s.confirmedOver
             + SumFunction([k \in DOMAIN s.confirmed \ in |-> s.confirmed[k].count]),
         methods   |-> [k \in methodsIn |-> MergeMethod(At(t.methods, k, NoMethod), At(s.methods, k, NoMethod))],
         methodsOver |-> t.methodsOver + s.methodsOver
             + SumFunction([k \in DOMAIN s.methods \ methodsIn |-> AtLeastOne(s.methods[k].asked)])]

MergeAll(B, S, start) == [b \in start |-> MergeBucket(At(B, b, EmptyBucket), At(S, b, EmptyBucket))]

\* _hour_start, in hours
HourOf(b) == b \div HourBuckets
BucketsOf(h) == h * HourBuckets .. (h + 1) * HourBuckets - 1
NewestBuckets(S, n) == {b \in S : Cardinality({c \in S : c > b}) < n}

-----------------------------------------------------------------------------
(* Counting                                                                *)

\* _pending_bucket: past the limit the oldest bucket goes, be it this one
PendingBucket(P, b, B) == Restrict(Put(P, b, B), NewestBuckets(DOMAIN P \cup {b}, MaxBuckets))

\* What a bucket stands for: events seen, and RPC requests (no fewer than were sent)
NoEvents == [seen |-> 0, asked |-> 0]
Plus(x, y) == [seen |-> x.seen + y.seen, asked |-> x.asked + y.asked]
EventsIn(B) ==
    [seen  |-> SumFunction([s \in Stages |-> B.stages[s].count]) + B.confirmedOver
                 + SumFunction([k \in DOMAIN B.confirmed |-> B.confirmed[k].count]),
     asked |-> SumFunction([k \in DOMAIN B.methods |-> B.methods[k].asked]) + B.methodsOver]
EventsOf(R, b) == IF b \in DOMAIN R THEN EventsIn(R[b]) ELSE NoEvents
InFlight(b)    == [seen  |-> SumFunction([f \in Flushes |-> EventsOf(flush[f].taken, b).seen]),
                   asked |-> SumFunction([f \in Flushes |-> EventsOf(flush[f].taken, b).asked])]

\* Counts an event in bucket b, of now or of the bucket before (a poll or a request has its own time)
CountIn(b, B, seen, asked) ==
    /\ b \in {now, now - 1}
    /\ pending' = PendingBucket(pending, b, B)
    /\ recorded' = [recorded EXCEPT ![b] = Plus(@, [seen |-> seen, asked |-> asked])]
    /\ UNCHANGED <<now, beatAt, rolledAt, flush, raw, hourly, faults, diedWith>>

RecordFunnelStage(b, s, m) ==
    LET B == At(pending, b, EmptyBucket)
    IN  CountIn(b, [B EXCEPT !.stages[s] = MergeMetric(@, [count |-> 1, bits |-> {m}])], 1, 0)

HasRoom(dimensions, k) == k \in DOMAIN dimensions \/ Cardinality(DOMAIN dimensions) < MaxKeys

RecordConfirmation(b, k, m) ==
    LET B   == At(pending, b, EmptyBucket)
        one == MergeMetric(At(B.confirmed, k, NoMetric), [count |-> 1, bits |-> {m}])
    IN  CountIn(b, IF HasRoom(B.confirmed, k)
                 THEN [B EXCEPT !.confirmed = Put(@, k, one)]
                 ELSE [B EXCEPT !.confirmedOver = @ + 1], 1, 0)

\* record_rpc_method_metric: a request that is sent, or the outcome of one
RecordRpcMethod(b, k, e) ==
    LET B   == At(pending, b, EmptyBucket)
        one == MergeMethod(At(B.methods, k, NoMethod), e)
    IN  CountIn(b, IF HasRoom(B.methods, k)
                 THEN [B EXCEPT !.methods = Put(@, k, one)]
                 ELSE [B EXCEPT !.methodsOver = @ + AtLeastOne(e.asked + e.other)], 0, e.asked)

-----------------------------------------------------------------------------
(* The rollup of the finished hours                                        *)

\* _build_hourly_rollup
Rollup(h, R) == [from   |-> BucketsOf(h) \cap DOMAIN R,
                 counts |-> FoldSet(LAMBDA b, B: MergeBucket(B, R[b]), EmptyBucket,
                                    BucketsOf(h) \cap DOMAIN R)]

IsComplete(hour) == hour.from # {} /\ Cardinality(hour.from) = HourBuckets

\* Bug: what the raw buckets say now replaces what they said.
Selected_Rebuilt(rebuilt, prior) == rebuilt
\* A rollup made of more buckets than are left stands.
Selected(rebuilt, prior) ==
    IF Cardinality(rebuilt.from) >= Cardinality(prior.from) THEN rebuilt ELSE prior

\* _refresh_hourly_rollups: of the finished hours, as the flush's time has them
ClosedBuckets(R, time) == Restrict(R, {b \in DOMAIN R: HourOf(b) < HourOf(time)})
Rollups(closed, time) ==
    LET hours  == {h \in 0..HourOf(time): h < HourOf(time) /\ h + MaxHours >= HourOf(time)}
    IN  [h \in hours |-> Selected(Rollup(h, closed), At(hourly, h, [from |-> {}, counts |-> EmptyBucket]))]

-----------------------------------------------------------------------------
(* A flush                                                                 *)

NoFlush == [at |-> "none", now |-> 0, taken |-> <<>>, roll |-> FALSE, doc |-> <<>>]

\* The counts are taken; without any, and with heartbeat and rollup done, that is all.
BeginFlush(f) ==
    /\ flush[f].at = "none"
    /\ LET roll == \/ rolledAt # HourOf(now)
                   \/ \E b \in DOMAIN pending: HourOf(b) < HourOf(now)
       IN  /\ pending # <<>> \/ beatAt # now \/ roll
           /\ flush' = [flush EXCEPT ![f] = [at |-> "taken", now |-> now, taken |-> pending,
                                             roll |-> roll, doc |-> <<>>]]
    /\ pending' = <<>>
    /\ UNCHANGED <<now, beatAt, rolledAt, raw, hourly, faults, recorded, diedWith>>

\* The document after the update: the counts, a bucket for the heartbeat, the last buckets
Merged(f) ==
    LET time == flush[f].now
        all  == MergeAll(raw, flush[f].taken, DOMAIN raw \cup DOMAIN flush[f].taken \cup {time})
    IN  Restrict(all, NewestBuckets({b \in DOMAIN all: b + MaxBuckets > time}, MaxBuckets))

SaveCounts(f) ==
    /\ flush[f].at = "taken"
    /\ raw' = Merged(f)
    /\ beatAt' = flush[f].now
    /\ flush' = [flush EXCEPT ![f] =
           IF @.roll THEN [at |-> "saved", now |-> @.now, taken |-> <<>>, roll |-> TRUE,
                           doc |-> ClosedBuckets(raw', @.now)]
           ELSE NoFlush]
    /\ UNCHANGED <<now, pending, rolledAt, hourly, faults, recorded, diedWith>>

\* Bug: what could not be saved is put back over what was counted meanwhile.
PutBack_Over(taken) == taken @@ pending
\* _merge_pending_back
PutBack(taken) ==
    LET all == MergeAll(pending, taken, DOMAIN pending \cup DOMAIN taken)
    IN  Restrict(all, NewestBuckets(DOMAIN all, MaxBuckets))

SaveFails(f) ==
    /\ flush[f].at = "taken" /\ faults < MaxFaults
    /\ faults' = faults + 1
    /\ pending' = PutBack(flush[f].taken)
    /\ flush' = [flush EXCEPT ![f] = NoFlush]
    /\ UNCHANGED <<now, beatAt, rolledAt, raw, hourly, recorded, diedWith>>

SaveHours(f) ==
    /\ flush[f].at = "saved"
    /\ hourly' = Rollups(flush[f].doc, flush[f].now)
    /\ rolledAt' = HourOf(flush[f].now)
    /\ flush' = [flush EXCEPT ![f] = NoFlush]
    /\ UNCHANGED <<now, pending, beatAt, raw, faults, recorded, diedWith>>

HoursFail(f) ==
    /\ flush[f].at = "saved" /\ faults < MaxFaults
    /\ faults' = faults + 1
    /\ flush' = [flush EXCEPT ![f] = NoFlush]
    /\ UNCHANGED <<now, pending, beatAt, rolledAt, raw, hourly, recorded, diedWith>>

-----------------------------------------------------------------------------

\* The monitor ends, in order or not, and starts again: nothing flushes what is pending.
Restart ==
    /\ faults < MaxFaults
    /\ faults' = faults + 1
    /\ diedWith' = [b \in 0..MaxTime |-> Plus(diedWith[b], Plus(EventsOf(pending, b), InFlight(b)))]
    /\ pending' = <<>> /\ beatAt' = None /\ rolledAt' = None
    /\ flush' = [f \in Flushes |-> NoFlush]
    /\ UNCHANGED <<now, raw, hourly, recorded>>

TimePasses ==
    /\ now < MaxTime
    /\ now' = now + 1
    /\ UNCHANGED <<pending, beatAt, rolledAt, flush, raw, hourly, faults, recorded, diedWith>>

CoverageInit ==
    /\ now = 0 /\ pending = <<>> /\ beatAt = None /\ rolledAt = None
    /\ flush = [f \in Flushes |-> NoFlush]
    /\ raw = <<>> /\ hourly = <<>> /\ faults = 0
    /\ recorded = [b \in 0..MaxTime |-> NoEvents] /\ diedWith = [b \in 0..MaxTime |-> NoEvents]

CoverageNext ==
    \/ /\ SumFunction([b \in 0..now |-> recorded[b].seen + recorded[b].asked]) < MaxCounts
       /\ \E b \in 0..now:
        \/ \E m \in Bits: \/ \E s \in Stages: RecordFunnelStage(b, s, m)
                          \/ \E k \in Keys: RecordConfirmation(b, k, m)
        \/ \E k \in MethodKeys, e \in RpcCalls:
                RecordRpcMethod(b, k, e)
    \/ \E f \in Flushes: \/ BeginFlush(f) \/ SaveCounts(f) \/ SaveFails(f)
                         \/ SaveHours(f) \/ HoursFail(f)
    \/ Restart
    \/ TimePasses

CoverageSpec == CoverageInit /\ [][CoverageNext]_coverageVars

-----------------------------------------------------------------------------
(* The review, of the hourly document H                                    *)

\* The hours the review at a time is about; fewer than required if the clock is that young
Window(required, time) == {h \in 0..HourOf(time): h < HourOf(time) /\ h + required >= HourOf(time)}

\* coverage_review_window_status
WindowStatus(H, required, time) ==
    LET window  == Window(required, time)
        missing == {h \in window: h \notin DOMAIN H \/ H[h].from = {}}
    IN  CASE Cardinality(window) < required \/ missing # {}   -> "MISSING_HOURS"
          [] \E h \in window: ~IsComplete(H[h])               -> "PARTIAL_HOURS"
          [] OTHER                                            -> "READY"

\* The estimate grows with the bits that are set; there is none once all are.
Unique(bits) == IF bits = Bits THEN None ELSE Cardinality(bits)

\* _review_summary
ReviewSummary(H, hours) ==
    LET all == FoldSet(LAMBDA h, B: MergeBucket(B, H[h].counts), EmptyBucket, hours)
    IN  [counts   |-> all,
         unique   |-> [s \in Stages |-> Unique(all.stages[s].bits)],
         overflow |-> all.confirmedOver + all.methodsOver > 0]

\* coverage_review_report of a window that is ready
ReviewReport(H, required, time) == ReviewSummary(H, Window(required, time))

-----------------------------------------------------------------------------
(* Properties                                                              *)

\* Types; a document and the pending counts stay within their limits.
CoverageTypeOK ==
    /\ now \in 0..MaxTime /\ {beatAt, rolledAt} \subseteq Nat \cup {None}
    /\ faults \in 0..MaxFaults
    /\ \A B \in {pending, raw}: DOMAIN B \subseteq 0..MaxTime /\ Cardinality(DOMAIN B) <= MaxBuckets
    /\ \A b \in DOMAIN raw: Cardinality(DOMAIN raw[b].confirmed) <= MaxKeys

\* No event is counted twice or dropped: whatever flushes overlap, fail and put their counts
\* back, what the document, the process and the flushes under way hold of a bucket that is
\* still retained, with what died with earlier processes, is what was recorded.  A request may
\* count twice, once its method has no room (the record's overflow counts its outcomes too).
CountsAddUp ==
    \A b \in 0..now: b + MaxBuckets > now =>
        LET kept == Plus(Plus(EventsOf(raw, b), EventsOf(pending, b)), Plus(InFlight(b), diedWith[b]))
        IN  kept.seen = recorded[b].seen /\ kept.asked >= recorded[b].asked

\* A flush whose view of the documents is no longer theirs
IsStale(f) ==
    /\ flush[f].at = "saved"
    /\ HourOf(flush[f].now) # HourOf(now) \/ flush[f].doc # ClosedBuckets(raw, now)

\* A window the review finds ready stays ready while its hours are retained, and its summary
\* loses nothing, although the buckets it was made of are forgotten and a restarted monitor
\* rolls the hours up again; unless a flush is under way that began before others wrote.
ReviewStands ==
    [][hourly' # hourly => \A r \in 1..MaxHours, time \in 0..now:
        WindowStatus(hourly, r, time) = "READY" /\ Window(r, time) \subseteq Window(MaxHours, now) =>
            \/ \E f \in Flushes: IsStale(f)
            \/ /\ WindowStatus(hourly', r, time) = "READY"
               /\ EventsIn(ReviewReport(hourly', r, time).counts).seen
                      >= EventsIn(ReviewReport(hourly, r, time).counts).seen]_coverageVars
=============================================================================
