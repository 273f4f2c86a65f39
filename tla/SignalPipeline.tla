---------------------------- MODULE SignalPipeline ----------------------------
(* From a delivered buy of a watched wallet to a sold position:             *)
(* _process_paper_signal_control of src/monitor.py, the observation ledger  *)
(* with its observer and archive task, and the sale by the risk manager.    *)
(*                                                                          *)
(* One signal may be delivered several times, and the deliveries may be     *)
(* processed at the same time: the enhanced subscription has one stream per *)
(* DEX program and no memory of signatures, the standard one remembers them *)
(* per connection.  Positions are what PaperLedger.tla keeps, reduced to    *)
(* which signals were bought and which of those are still held.             *)
EXTENDS ObservationLedger

CONSTANTS
    Deliveries,   \* the times a signal reaches process_paper_signal
    SignalOf,     \* [Deliveries -> Ids]
    AnalysisLimit, \* the semaphore _analysis_limit
    MaxOpen,      \* approved_signal_max_open_positions()
    FaultKinds,   \* which of the faults below may happen
    MaxFaults     \* bound: faults in a behaviour

Kinds == {"observer lock", "archive", "observer", "monitor", "pipeline lock", "risk lock"}

ASSUME PipelineAssumption ==
    /\ SignalOf \in [Deliveries -> Ids]
    /\ AnalysisLimit \in Nat /\ MaxOpen \in Nat /\ MaxFaults \in Nat
    /\ FaultKinds \subseteq Kinds

VARIABLES
    step,       \* where the processing of each delivery is
    bought,     \* signals with a BUY in the paper ledger
    open,       \* signals with an open position
    unclosed,   \* positions sold, but not yet marked CLOSED by their seller
    faults,     \* model only: how many faults happened so far
    seen        \* model only: of which kinds

pipeline == <<step, bought, open, unclosed>>
vars     == <<obsVars, pipeline, faults, seen>>

At(d, here)    == step[d] = here
GoTo(d, there) == step' = [step EXCEPT ![d] = there]
Obs(d)         == SignalOf[d]

-----------------------------------------------------------------------------
(* _process_paper_signal_control *)

\* Under the semaphore, the candidate is recorded before every gate.
InWork == {d \in Deliveries : step[d] \notin {"new", "done"}}
StartSignal(d) ==
    /\ Cardinality(InWork) < AnalysisLimit
    /\ At(d, "new") /\ GoTo(d, "analyzing")
    /\ Discover(Obs(d))
    /\ UNCHANGED <<bought, open, unclosed>>

\* The end without an executable price: analysis, size or quote gave none, or
\* an exception came up - at any later step, too.
Finish(d) ==
    /\ step[d] \in {"analyzing", "failing"} /\ GoTo(d, "done")
    /\ Finalize(Obs(d))
    /\ UNCHANGED <<bought, open, unclosed>>

\* The decision.  A candidate is rejected for the reasons collected so far, or
\* because its exit cannot be quoted (ENTRY_ONLY).  Only a created observation
\* is promoted to a paper entry.
Approve(d) ==
    /\ At(d, "analyzing")
    /\ GoTo(d, IF Created(Obs(d)) THEN "buying" ELSE "done")
    /\ Decide(Obs(d), TRUE, "EXECUTABLE")
    /\ UNCHANGED <<bought, open, unclosed>>
Reject(d, quote) ==
    /\ At(d, "analyzing") /\ GoTo(d, "done")
    /\ Decide(Obs(d), FALSE, quote)
    /\ UNCHANGED <<bought, open, unclosed>>

\* record_paper_buy (MayBuy and Buy of PaperLedger), and its refusal.
MayBuy(id) == id \notin bought /\ Cardinality(open) < MaxOpen
Buy(d) ==
    /\ At(d, "buying") /\ MayBuy(Obs(d))
    /\ GoTo(d, "opening")
    /\ bought' = bought \cup {Obs(d)} /\ open' = open \cup {Obs(d)}
    /\ UNCHANGED <<obsVars, unclosed>>
BuyRefused(d) ==
    /\ At(d, "buying") /\ ~ MayBuy(Obs(d))
    /\ GoTo(d, "skipping")
    /\ UNCHANGED <<obsVars, bought, open, unclosed>>
Skip(d) ==
    /\ At(d, "skipping") /\ GoTo(d, "done")
    /\ MarkPaper(Obs(d), "SKIPPED")
    /\ UNCHANGED <<bought, open, unclosed>>

\* OPENED is written after the buy, in a ledger of its own.
Open(d) ==
    /\ At(d, "opening") /\ GoTo(d, "crediting")
    /\ MarkPaper(Obs(d), "OPENED")
    /\ UNCHANGED <<bought, open, unclosed>>

\* record_paper_buy_success of the wallet's performance.
Credit(d) ==
    /\ At(d, "crediting") /\ GoTo(d, "done")
    /\ UNCHANGED <<obsVars, bought, open, unclosed>>

\* Any step may time out on its lock: before the observation is known there is
\* nothing to finalize, and a finalization that fails is logged.
StepTimesOut(d) ==
    /\ ~ At(d, "done")
    /\ GoTo(d, IF step[d] \in {"new", "failing"} THEN "done" ELSE "failing")
    /\ UNCHANGED <<obsVars, bought, open, unclosed>>

-----------------------------------------------------------------------------
(* The risk manager: record_paper_sell of a whole position, then the mark,  *)
(* whose failure is logged.                                                 *)

Sell(id) ==
    /\ id \in open
    /\ open' = open \ {id} /\ unclosed' = unclosed \cup {id}
    /\ UNCHANGED <<obsVars, step, bought>>
Close(id) ==
    /\ id \in unclosed
    /\ unclosed' = unclosed \ {id}
    /\ MarkPaper(id, "CLOSED")
    /\ UNCHANGED <<step, bought, open>>
CloseTimesOut(id) ==
    /\ id \in unclosed
    /\ unclosed' = unclosed \ {id}
    /\ UNCHANGED <<obsVars, step, bought, open>>

-----------------------------------------------------------------------------
(* Faults of the processes *)

\* With the monitor its deliveries go away.
MonitorCrashes ==
    /\ MonitorDies
    /\ step' = [d \in Deliveries |-> IF At(d, "new") THEN "new" ELSE "done"]
    /\ UNCHANGED <<bought, open, unclosed>>

Happens(kind) ==
    /\ kind \in FaultKinds /\ faults < MaxFaults
    /\ faults' = faults + 1
    /\ seen' = seen \cup {kind}

Fault ==
    \/ Happens("observer lock") /\ UNCHANGED pipeline
          /\ \/ \E s \in asked : AttemptTimesOut(s)
             \/ \E done \in SUBSET emit : EmitTimesOut(done)
    \/ Happens("archive") /\ PassFails /\ UNCHANGED pipeline
    \/ Happens("observer") /\ ObserverFails /\ UNCHANGED pipeline
    \/ Happens("monitor") /\ MonitorCrashes
    \/ Happens("pipeline lock") /\ \E d \in Deliveries : StepTimesOut(d)
    \/ Happens("risk lock") /\ \E id \in Ids : CloseTimesOut(id)

-----------------------------------------------------------------------------
Init ==
    /\ rows = <<>> /\ order = {} /\ archive = <<>> /\ shadow = {}
    /\ phase = "down" /\ asked = {} /\ unsaved = {} /\ uncounted = {} /\ emit = {}
    /\ pass = "off" /\ marks = {} /\ startup = TRUE
    /\ step = [d \in Deliveries |-> "new"]
    /\ bought = {} /\ open = {} /\ unclosed = {}
    /\ faults = 0 /\ seen = {}

SignalStep(d) ==
    \/ StartSignal(d) \/ Finish(d) \/ Approve(d)
    \/ \E quote \in {"EXECUTABLE", "UNUSABLE"} : Reject(d, quote)
    \/ Buy(d) \/ BuyRefused(d) \/ Skip(d) \/ Open(d) \/ Credit(d)

\* Discoveries of interrupted processing: an hour old, so nobody is at work on
\* them any more.  Younger ones stay as they are.
Interrupted == {id \in Known : /\ rows[id] = [NewRow EXCEPT !.archived = rows[id].archived]
                               /\ \A d \in InWork : Obs(d) # id}

ObserverStep ==
    \/ \E stale \in SUBSET Interrupted : StartObserver(stale)
    \/ \E batch \in SUBSET Due : Scan(batch)
    \/ \E s \in asked : Answer(s) \/ AnswerFails(s)
    \/ \E s \in uncounted : Recount(s)
    \/ Save \/ Emit

ArchiveStep ==
    \/ PersistMarkers \/ Backfill
    \/ \E done \in SUBSET Ended : Archive(done)

RiskStep == \E id \in Ids : Sell(id) \/ Close(id)

Background(what) == what /\ UNCHANGED <<pipeline, faults, seen>>

Next ==
    \/ (\E d \in Deliveries : SignalStep(d)) /\ UNCHANGED <<faults, seen>>
    \/ Background(ObserverStep \/ ArchiveStep)
    \/ RiskStep /\ UNCHANGED <<faults, seen>>
    \/ Fault

Spec == Init /\ [][Next]_vars

\* Two tasks that never stop: the observer, restarted by its supervisor, and
\* the archive task.  A record that fails in one pass is written in a later one.
Fairness ==
    /\ WF_vars(Background(ObserverStep))
    /\ SF_vars(Background(Archive(Ended)))
    /\ WF_vars(Background(PersistMarkers \/ Backfill))
LiveSpec == Spec /\ Fairness
-----------------------------------------------------------------------------
(* Properties *)

\* A list without duplicates: ord is a strict total order of S.
Orders(ord, S) ==
    /\ ord \subseteq S \X S
    /\ \A a, b \in S : <<a, b>> \in ord <=> a # b /\ <<b, a>> \notin ord
    /\ \A a, b, c \in S : <<a, b>> \in ord /\ <<b, c>> \in ord => <<a, c>> \in ord

\* Types.
TypeOK ==
    /\ Known \subseteq Ids /\ rows \in [Known -> Row]
    /\ Orders(order, Known)
    /\ DOMAIN archive \subseteq Ids /\ archive \in [DOMAIN archive -> SUBSET Horizons]
    /\ shadow \subseteq Ids /\ emit \subseteq Ids
    /\ phase \in {"down", "idle", "asking", "emitting"}
    /\ asked \subseteq Ids \X Horizons /\ unsaved \subseteq Ids \X Horizons
    /\ uncounted \subseteq Ids \X Horizons
    /\ pass \in {"off", "idle", "marking", "backfilling"}
    /\ marks \subseteq Ids /\ startup \in BOOLEAN
    /\ step \in [Deliveries -> {"new", "analyzing", "failing", "buying", "opening",
                                "crediting", "skipping", "done"}]
    /\ bought \subseteq Ids /\ open \subseteq bought /\ unclosed \subseteq bought
    /\ faults \in 0 .. MaxFaults /\ seen \subseteq Kinds

\* README.md, collection stability: a row leaves the operational ledger only
\* when it is in the archive - whatever capacity, failed archive writes, markers
\* set on rows that changed since they were read and restarts do.
ForgottenRowsArchived ==
    [][Known \ Known' \subseteq DOMAIN archive]_vars

\* README.md: the observer keeps batches of at most BatchSize.  What waits in
\* memory plus what is being asked never exceeds one batch, so that the batch
\* that is written late is not refused as too large.
PendingFitsBatch ==
    Cardinality(asked) + Cardinality(unsaved) + Cardinality(uncounted) <= BatchSize

\* docs/research-engine-v1.md: a completed executable observation gets its
\* shadow trade - at once, or after a crash between the two ledgers when the
\* monitor has started again.  A side effect that times out on its lock, or the
\* supervisor's restart of the observer alone, is not made up for.
ShadowComplete ==
    {"observer lock", "observer"} \cap seen = {} /\ ~ startup =>
       \A id \in Known : Tradable(rows[id]) => id \in shadow \cup emit

\* A row that was set aside for its paper trade and is not any more: the trade was
\* closed, or another delivery that was refused the buy wrote SKIPPED over OPENED.
CameBack(id) == id \in bought /\ rows[id].paper \in {"CLOSED", "SKIPPED"}

\* README.md: beyond 200 active rows the oldest are expired.  The limit holds
\* at all times, with expired rows that a decision restarts, but for rows that
\* come back from an open paper trade: nothing expires until the next decision.
ActiveBounded ==
    Cardinality({id \in Active(rows) : ~ CameBack(id)}) <= MaxActive

\* README.md: every due horizon is sampled or given up.  A pending row ends,
\* whatever quotes fail and whatever the observer forgets.
PendingEnds ==
    \A id \in Ids : (id \in Known /\ rows[id].status = "PENDING")
                      ~> (id \in Known => Terminal(rows[id]))

\* README.md: rows that could not be archived exceed the row limit for a time
\* only; the limit is met again and again, without any new signal.
CapRestored == []<>(Known = InCap(rows, order))

\* README.md: terminal completion, then Research archive, then operational
\* retention: the record of a row marked as archived has its samples.
ArchivedAsEnded ==
    \A id \in Known : Terminal(rows[id]) /\ rows[id].archived
       => id \in DOMAIN archive /\ archive[id] = rows[id].samples

\* docs/research-engine-v1.md: after the whole position is sold the observation
\* becomes CLOSED.  Looked at when nobody works on the signal any more.
SoldIsClosed ==
    \A id \in (bought \ open) \ unclosed :
        id \in Known /\ (\A d \in InWork : Obs(d) # id) => rows[id].paper = "CLOSED"
=============================================================================
