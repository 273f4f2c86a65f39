-------------------------- MODULE ObservationLedger --------------------------
(* data/signal_observations.json and the two background tasks that work on  *)
(* it (src/observation_tracker.py, src/research_archive.py,                 *)
(* src/shadow_trade_ledger.py):                                             *)
(*                                                                          *)
(*   - the observer, which quotes every observed signal at fixed horizons   *)
(*     and writes the samples in batches, keeping in memory what it could   *)
(*     not write because the lock timed out;                                *)
(*   - the archive task, which copies ended rows to immutable records from  *)
(*     a read taken without the lock, then marks them as archived.          *)
(*                                                                          *)
(* The operations of the signal pipeline and of the risk manager are here   *)
(* with no order among them; SignalPipeline.tla says who calls what when.   *)
(* Every update_json call is one action (see StateStore.tla).  Deleting a   *)
(* row is what retention does and needs an order of age: the list of rows   *)
(* is the function rows and the relation order of their identities.         *)
(*                                                                          *)
(* A definition X_Y is X with the bug Y in it; no specification uses it.    *)
EXTENDS Naturals, FiniteSets

CONSTANTS
    Ids,          \* observation identities: signature, wallet and mint
    Horizons,     \* OBSERVATION_INTERVALS
    MaxRows,      \* MAX_OBSERVATIONS
    MaxActive,    \* MAX_ACTIVE_OBSERVATIONS
    MaxAttempts,  \* MAX_SAMPLE_ATTEMPTS
    BatchSize,    \* OBSERVATION_SAMPLE_BATCH_SIZE
    DrainSize     \* ARCHIVE_DRAIN_BATCH_SIZE

ASSUME ObservationAssumption ==
    /\ MaxRows \in Nat /\ MaxActive \in Nat
    /\ MaxAttempts \in Nat \ {0} /\ BatchSize \in Nat \ {0} /\ DrainSize \in Nat \ {0}
    /\ IsFiniteSet(Ids) /\ IsFiniteSet(Horizons) /\ Horizons # {}

VARIABLES
    rows,               \* the document: its rows by identity,
    order,              \* and <<a, b>> when the row of a is before that of b in the list
    archive,            \* the archive records: the samples of the row as copied
    shadow,             \* the identities in shadow_trades.json
    \* the observer: where it is, the samples it is asking quotes for, the
    \* samples and the failed attempts it has not been able to write, and the
    \* completed rows whose shadow trade it still has to write
    phase, asked, unsaved, uncounted, emit,
    \* the archive task: where it is, the rows it has archived and not yet
    \* marked, and whether the maintenance of its start is still to be done
    pass, marks, startup

document == <<rows, order>>
observer == <<phase, asked, unsaved, uncounted, emit>>
archiver == <<pass, marks, startup>>
obsVars  == <<document, archive, shadow, observer, archiver>>

-----------------------------------------------------------------------------
(* Rows *)

\* SKIPPED stands for SKIPPED_CAPACITY and FAILED.
Paper == {"NOT_EVALUATED", "NOT_ELIGIBLE", "ELIGIBLE", "SKIPPED", "OPENED", "CLOSED"}

\* quote: UNUSABLE stands for ENTRY_ONLY, SIZE_UNUSABLE and PROCESSING_FAILED.
\* archived: the marker archive_schema_version / archived_at.
Row == [status: {"DISCOVERED", "PENDING", "COMPLETE", "EXPIRED_UNSAMPLED"},
        quote: {"NOT_REQUESTED", "EXECUTABLE", "UNUSABLE"}, paper: Paper,
        samples: SUBSET Horizons, attempts: [Horizons -> Nat], archived: BOOLEAN]

Known     == DOMAIN rows
Terminal(row)  == row.status \in {"COMPLETE", "EXPIRED_UNSAMPLED"}
Expirable(row) == ~ Terminal(row) /\ row.paper # "OPENED"
Active(rs)     == {id \in DOMAIN rs : Expirable(rs[id])}

NoAttempts == [h \in Horizons |-> 0]
NewRow == [status |-> "DISCOVERED", quote |-> "NOT_REQUESTED", paper |-> "NOT_EVALUATED",
           samples |-> {}, attempts |-> NoAttempts, archived |-> FALSE]

With(rs, id, row) == [i \in DOMAIN rs \cup {id} |-> IF i = id THEN row ELSE rs[i]]
OrderWith(id)     == IF id \in Known THEN order ELSE order \cup (Known \X {id})

\* The n youngest and the n oldest of S.
Youngest(ord, S, n) == {a \in S : Cardinality({b \in S : <<a, b>> \in ord}) < n}
Oldest(ord, S, n)   == {a \in S : Cardinality({b \in S : <<b, a>> \in ord}) < n}

\* expire_observation_backlog
Expired(rs, ord) ==
    LET late == Active(rs) \ Youngest(ord, Active(rs), MaxActive)
    IN  [id \in DOMAIN rs |->
            IF id \in late THEN [rs[id] EXCEPT !.status = "EXPIRED_UNSAMPLED"]
            ELSE rs[id]]

\* retained_observations, and archive_and_retain_observations that adds every
\* ended row without a marker.
History(rs)  == {id \in DOMAIN rs : Terminal(rs[id]) /\ rs[id].paper # "OPENED"}
Budget(rs)   == LET live == Cardinality(DOMAIN rs \ History(rs))
                IN  IF live < MaxRows THEN MaxRows - live ELSE 0
Unarchived(rs) == {id \in DOMAIN rs : Terminal(rs[id]) /\ ~ rs[id].archived}
InCap(rs, ord) == (DOMAIN rs \ History(rs)) \cup Youngest(ord, History(rs), Budget(rs))
Kept(rs, ord) ==
    InCap(rs, ord) \cup Unarchived(rs)

\* The document becomes the kept part of rs.
Retain(rs, ord) ==
    /\ rows' = [id \in Kept(rs, ord) |-> rs[id]]
    /\ order' = ord \cap (Known' \X Known')

-----------------------------------------------------------------------------
(* Operations of the signal pipeline and the risk manager *)

OnlyDocument == UNCHANGED <<archive, shadow, observer, archiver>>

\* record_candidate_discovery
Discover_Duplicate(id) ==
    /\ LET rs == With(rows, id, NewRow)  ord == order \cup (Known \X {id})
       IN  Retain(Expired(rs, ord), ord)
    /\ OnlyDocument
Discover(id) ==
    /\ IF id \in Known THEN UNCHANGED document
       ELSE LET rs == With(rows, id, NewRow)  ord == OrderWith(id)
            IN  Retain(Expired(rs, ord), ord)
    /\ OnlyDocument

\* finalize_candidate_without_quote
Finalize(id) ==
    /\ IF id \notin Known THEN UNCHANGED document
       ELSE Retain([rows EXCEPT ![id].status = "COMPLETE", ![id].quote = "UNUSABLE",
                                ![id].paper = "NOT_ELIGIBLE"], order)
    /\ OnlyDocument

\* record_observation_decision: refuses a row with an executable quote, and
\* otherwise starts the observation afresh; the archive marker stays.
Created(id) == ~ (id \in Known /\ rows[id].quote = "EXECUTABLE")

Decided(id, approved, quote) ==
    [NewRow EXCEPT !.status = "PENDING", !.quote = quote,
                   !.paper = IF approved THEN "ELIGIBLE" ELSE "NOT_ELIGIBLE",
                   !.archived = id \in Known /\ rows[id].archived]

Decide_NoExpiry(id, approved, quote) ==
    /\ IF ~ Created(id) THEN UNCHANGED document
       ELSE Retain(With(rows, id, Decided(id, approved, quote)), OrderWith(id))
    /\ OnlyDocument
Decide(id, approved, quote) ==
    /\ IF ~ Created(id) THEN UNCHANGED document
       ELSE LET rs == With(rows, id, Decided(id, approved, quote))  ord == OrderWith(id)
            IN  Retain(Expired(rs, ord), ord)
    /\ OnlyDocument

\* mark_paper_experiment_status
MarkPaper(id, status) ==
    /\ IF id \notin Known THEN UNCHANGED document
       ELSE Retain([rows EXCEPT ![id].paper = status], order)
    /\ OnlyDocument

-----------------------------------------------------------------------------
(* The observer *)

\* A completed executable row has a shadow trade to be written.
Tradable(row) ==
    row.status = "COMPLETE" /\ row.quote = "EXECUTABLE" /\ row.samples = Horizons

\* observation_loop starts: reconcile_interrupted_discoveries ends the stale
\* ones of the discoveries nothing was written to, and the archive task is
\* started unless it is running.
StartObserver(stale) ==
    /\ phase = "down"
    /\ \A id \in stale : id \in Known /\ rows[id] = [NewRow EXCEPT !.archived = rows[id].archived]
    /\ rows' = [id \in Known |-> IF id \in stale
                   THEN [rows[id] EXCEPT !.status = "COMPLETE", !.quote = "UNUSABLE",
                                         !.paper = "NOT_ELIGIBLE"]
                   ELSE rows[id]]
    /\ phase' = "idle"
    /\ pass' = IF pass = "off" THEN "idle" ELSE pass
    /\ UNCHANGED <<order, archive, shadow, asked, unsaved, uncounted, emit, marks, startup>>

\* due_observation_samples, when nothing is waiting to be written.  Which
\* horizons have come is up to the clock.
Due == {s \in Known \X Horizons :
          rows[s[1]].status = "PENDING" /\ s[2] \notin rows[s[1]].samples}
Scan_Anyway(batch) ==
    /\ phase = "idle"
    /\ batch # {} /\ batch \subseteq Due /\ Cardinality(batch) <= BatchSize
    /\ asked' = batch
    /\ phase' = "asking"
    /\ UNCHANGED <<document, archive, shadow, unsaved, uncounted, emit, archiver>>
Scan(batch) ==
    /\ phase = "idle" /\ unsaved = {} /\ uncounted = {}
    /\ batch # {} /\ batch \subseteq Due /\ Cardinality(batch) <= BatchSize
    /\ asked' = batch
    /\ phase' = "asking"
    /\ UNCHANGED <<document, archive, shadow, unsaved, uncounted, emit, archiver>>

Answered(s, results) ==
    /\ asked' = asked \ {s}
    /\ unsaved' = results
    /\ phase' = IF asked = {s} THEN "idle" ELSE "asking"

\* sample_due: a quote, no route, or a missed horizon - a result in any case.
Answer(s) ==
    /\ phase = "asking" /\ s \in asked
    /\ Answered(s, unsaved \cup {s})
    /\ UNCHANGED <<document, archive, shadow, uncounted, emit, archiver>>

\* record_sample_attempt: counts on rows in any state, as long as the horizon
\* has no sample; returns 0 otherwise.
Counts(s)  == s[1] \in Known /\ s[2] \notin rows[s[1]].samples
Count(s)   == IF Counts(s) THEN rows[s[1]].attempts[s[2]] + 1 ELSE 0
Counted(s) == IF Counts(s) THEN [rows EXCEPT ![s[1]].attempts[s[2]] = @ + 1] ELSE rows
GivesUp(s) == Count(s) >= MaxAttempts

\* sample_due: the quote fails, and the last attempt makes it a result.
AnswerFails(s) ==
    /\ phase = "asking" /\ s \in asked
    /\ rows' = Counted(s)
    /\ Answered(s, IF GivesUp(s) THEN unsaved \cup {s} ELSE unsaved)
    /\ UNCHANGED <<order, archive, shadow, uncounted, emit, archiver>>

\* The next tick writes the attempts it could not write.
Recount(s) ==
    /\ phase = "idle" /\ s \in uncounted
    /\ rows' = Counted(s)
    /\ uncounted' = uncounted \ {s}
    /\ unsaved' = IF GivesUp(s) THEN unsaved \cup {s} ELSE unsaved
    /\ UNCHANGED <<order, archive, shadow, phase, asked, emit, archiver>>

\* _apply_sample_to_document over a batch: nothing for a row that has ended or
\* gone, or for a horizon that has its sample.
Applies(s) == s[1] \in Known /\ ~ Terminal(rows[s[1]]) /\ s[2] \notin rows[s[1]].samples
Applied    == {s \in unsaved : Applies(s)}
Sampled_OffByOne(row, hs) ==
    [row EXCEPT !.samples = @ \cup hs,
                !.status = IF Cardinality(row.samples \cup hs) > Cardinality(Horizons)
                           THEN "COMPLETE" ELSE @]
Sampled(row, hs) ==
    [row EXCEPT !.samples = @ \cup hs,
                !.status = IF row.samples \cup hs = Horizons THEN "COMPLETE" ELSE @]
WithSamples ==
    [id \in Known |-> IF \E s \in Applied : s[1] = id
                      THEN Sampled(rows[id], {h \in Horizons : <<id, h>> \in Applied})
                      ELSE rows[id]]

\* record_sample_batch up to the end of its ledger write: after the batch, and
\* at every tick until it succeeds (a write that times out on the lock changes
\* nothing).  A row completed by an earlier attempt is not completed again.
Save ==
    /\ phase = "idle" /\ unsaved # {}
    /\ IF Applied = {} THEN UNCHANGED document
       ELSE Retain(Expired(WithSamples, order), order)
    /\ emit' = {s[1] : s \in {s \in Applied : Tradable(WithSamples[s[1]])}}
    /\ phase' = "emitting"
    /\ UNCHANGED <<archive, shadow, asked, unsaved, uncounted, archiver>>

\* _emit_sample_side_effects
Emit ==
    /\ phase = "emitting"
    /\ shadow' = shadow \cup emit
    /\ emit' = {} /\ unsaved' = {} /\ phase' = "idle"
    /\ UNCHANGED <<document, archive, asked, uncounted, archiver>>

-----------------------------------------------------------------------------
(* The archive task *)

\* _unarchived_terminal_snapshots, a read without the lock, and
\* archive_terminal_rows on what it read: one record per identity, never
\* overwritten; a record that cannot be written is skipped.  Nobody else looks
\* at the records, so reading and writing them is one step.
Ended == Oldest(order, Unarchived(rows), DrainSize)
Archived(done) == [id \in DOMAIN archive \cup done |->
    IF id \in DOMAIN archive THEN archive[id] ELSE rows[id].samples]
Archive_NoCheck(done) ==
    /\ pass = "idle" /\ done \subseteq Ended /\ (Ended # {} \/ startup)
    /\ archive' = Archived(done)
    /\ marks' = Ended
    /\ pass' = "marking"
    /\ UNCHANGED <<document, shadow, observer, startup>>
Archive(done) ==
    /\ pass = "idle" /\ done \subseteq Ended /\ (Ended # {} \/ startup)
    /\ archive' = Archived(done)
    /\ marks' = done
    /\ pass' = "marking"
    /\ UNCHANGED <<document, shadow, observer, startup>>

\* _persist_archive_markers: by identity, whatever the row has become.
EndPass(next) == pass' = next /\ marks' = {}
Marked == [id \in Known |-> [rows[id] EXCEPT !.archived = @ \/ id \in marks]]
PersistMarkers_NoTrim ==
    /\ pass = "marking"
    /\ rows' = Marked
    /\ EndPass(IF startup THEN "backfilling" ELSE "idle")
    /\ UNCHANGED <<order, archive, shadow, observer, startup>>
PersistMarkers ==
    /\ pass = "marking"
    /\ IF marks = {} THEN UNCHANGED document ELSE Retain(Marked, order)
    /\ EndPass(IF startup THEN "backfilling" ELSE "idle")
    /\ UNCHANGED <<archive, shadow, observer, startup>>

\* backfill_completed_shadow_trades, once after the process started.
WithCompleted == shadow \cup {id \in Known : Tradable(rows[id])}
Backfill_Unarchived ==
    /\ pass = "backfilling"
    /\ shadow' = shadow \cup {id \in Known : Tradable(rows[id]) /\ ~ rows[id].archived}
    /\ EndPass("idle") /\ startup' = FALSE
    /\ UNCHANGED <<document, archive, observer>>
Backfill ==
    /\ pass = "backfilling"
    /\ shadow' = WithCompleted
    /\ EndPass("idle") /\ startup' = FALSE
    /\ UNCHANGED <<document, archive, observer>>

-----------------------------------------------------------------------------
(* What goes wrong *)

\* StateLockTimeout in a write of the observer: it goes on with the next tick
\* and keeps what it could not write - all of a batch whose side effects failed.
AttemptTimesOut(s) ==
    /\ phase = "asking" /\ s \in asked
    /\ uncounted' = uncounted \cup {s}
    /\ Answered(s, unsaved)
    /\ UNCHANGED <<document, archive, shadow, emit, archiver>>
EmitTimesOut(done) ==
    /\ phase = "emitting" /\ done \subseteq emit /\ done # emit
    /\ shadow' = shadow \cup done
    /\ emit' = {} /\ phase' = "idle"
    /\ UNCHANGED <<document, archive, asked, unsaved, uncounted, archiver>>

\* An exception in the archive task ends the pass; the task goes on.  The
\* maintenance of the start is repeated, even if only its metrics failed.
PassFails ==
    /\ pass \in {"marking", "backfilling"}
    /\ EndPass("idle")
    /\ shadow' \in {shadow, IF pass = "backfilling" THEN WithCompleted ELSE shadow}
    /\ UNCHANGED <<document, archive, observer, startup>>

\* Any other exception ends the loop; observation_supervisor starts it again
\* with nothing in memory.
ObserverForgets ==
    phase' = "down" /\ asked' = {} /\ unsaved' = {} /\ uncounted' = {} /\ emit' = {}
ObserverFails ==
    /\ phase # "down"
    /\ ObserverForgets
    /\ UNCHANGED <<document, archive, shadow, archiver>>

\* The monitor process dies and PM2 starts it again.
MonitorDies ==
    /\ ObserverForgets
    /\ EndPass("off") /\ startup' = TRUE
    /\ UNCHANGED <<document, archive, shadow>>
=============================================================================
