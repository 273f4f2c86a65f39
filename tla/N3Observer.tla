----------------------------- MODULE N3Observer -----------------------------
(***************************************************************************)
(* The shadow experiment of src/research/n3_shadow.py.  The monitor hands  *)
(* what was known at an entry to a recorder thread, which writes it to a   *)
(* file; an observer process follows the ledger's events, and writes       *)
(* entries, sells, the closure, completed trades and the final report as   *)
(* files that are never rewritten, and after them its own state.           *)
(*                                                                         *)
(* Every write of the observer is a step of its own; it may die after each *)
(* and starts again from the state it has saved.  A file that is there     *)
(* with other contents stops it for good, which is modelled as "blocked".  *)
(* A position is sold in two halves.                                       *)
(***************************************************************************)
EXTENDS Integers, Sequences, FiniteSets

CONSTANTS
    Entries,        \* the positions that may be opened
    Early,          \* those of them whose signal is older than the registration
    Day,            \* the day of each signal
    DayCap,         \* hard_cap: active_kst_days
    TradeCap,       \* hard_cap: completed_control
    KeptEvents,     \* the events that the ledger keeps
    MaxEvents,      \* bound: events of the ledger
    Absent

ASSUME N3Assumption ==
    /\ Early \subseteq Entries /\ DOMAIN Day = Entries
    /\ Absent \notin {"classified", "unknown"}
    /\ {DayCap, TradeCap, KeptEvents, MaxEvents} \subseteq Nat \ {0}

Legs == 2

VARIABLES
    log,        \* the events of the paper ledger; the index is event_seq
    captured,   \* where the snapshot of each entry is
    aged,       \* the entries whose event is older than snapshot_grace_seconds
    entered,    \* entries/: whether would_skip is known; it is classify of the snapshot
    sold,       \* sells/: the event numbers
    completed,  \* completed/
    closure,    \* closure.json: end_event_seq, 0 if there is none
    saved,      \* observer_state.json
    report,     \* final_report.json
    observer    \* the pass of observe_once under way

n3Vars == <<log, captured, aged, entered, sold, completed, closure, saved, report, observer>>
n3Files == <<entered, sold, completed, closure, saved, report>>
control == <<log, captured, aged>>

SkipValues == {"classified", "unknown"}
ObserverIdle == [pc |-> "idle", cursor |-> 0, upto |-> 0]

Count(type, p) == Cardinality({i \in DOMAIN log: log[i] = [type |-> type, entry |-> p]})
BuySeq(p)      == CHOOSE i \in DOMAIN log: log[i] = [type |-> "BUY", entry |-> p]
SellSeqs(p)    == {i \in DOMAIN log: log[i] = [type |-> "SELL", entry |-> p]}

-----------------------------------------------------------------------------
(* The trading process                                                     *)

BuyEntry(p) ==
    /\ Count("BUY", p) = 0 /\ Len(log) < MaxEvents
    /\ log' = Append(log, [type |-> "BUY", entry |-> p])
    /\ UNCHANGED <<captured, aged, n3Files, observer>>

\* submit_control_entry is called after the BUY is booked; the queue may be full, or the
\* process may have died.
SubmitControlEntry(p) ==
    /\ Count("BUY", p) = 1 /\ captured[p] = "none"
    /\ \E at \in {"queued", "lost"}: captured' = [captured EXCEPT ![p] = at]
    /\ UNCHANGED <<log, aged, n3Files, observer>>

SellHalf(p) ==
    /\ Count("BUY", p) = 1 /\ Count("SELL", p) < Legs /\ Len(log) < MaxEvents
    /\ log' = Append(log, [type |-> "SELL", entry |-> p])
    /\ UNCHANGED <<captured, aged, n3Files, observer>>

\* persist_capture writes nothing once the cohort is closed, nor for an early signal.
PersistCapture(p) ==
    /\ captured[p] = "queued"
    /\ captured' = [captured EXCEPT ![p] = IF closure # 0 \/ p \in Early THEN "lost" ELSE "written"]
    /\ UNCHANGED <<log, aged, n3Files, observer>>

RecorderDies ==
    /\ \E p \in Entries: captured[p] = "queued"
    /\ captured' = [p \in Entries |-> IF captured[p] = "queued" THEN "lost" ELSE captured[p]]
    /\ UNCHANGED <<log, aged, n3Files, observer>>

GraceEnds(p) ==
    /\ Count("BUY", p) = 1 /\ p \notin aged
    /\ aged' = aged \cup {p}
    /\ UNCHANGED <<log, captured, n3Files, observer>>

-----------------------------------------------------------------------------
(* observe_once                                                            *)

\* completed_trades, of the records up to an event
CohortTrades(end) == {p \in Entries: /\ entered[p] # Absent
                               /\ BuySeq(p) <= end
                               /\ Cardinality({i \in SellSeqs(p): i <= end /\ i \in sold}) = Legs}
Admitted    == {p \in Entries: entered[p] # Absent}

Consistent ==
    /\ Cardinality({p \in Admitted: BuySeq(p) <= saved.cursor}) = saved.admitted
    /\ Cardinality({i \in sold: i <= saved.cursor}) = saved.sells
    /\ Cardinality(CohortTrades(saved.cursor)) = saved.completed

\* The ledger has forgotten the event that is next.
Gap == Len(log) > saved.cursor /\ saved.cursor < Len(log) - KeptEvents

Begin ==
    /\ observer.pc = "idle" /\ (closure = 0 \/ report = Absent)
    /\ observer' = [pc |-> IF Gap THEN "gap" ELSE IF Consistent THEN "events" ELSE "blocked",
                    cursor |-> saved.cursor, upto |-> Len(log)]
    /\ UNCHANGED <<control, n3Files>>

NextSeq   == observer.cursor + 1
Event     == log[NextSeq]
MoreEvents == NextSeq <= observer.upto /\ (closure = 0 \/ NextSeq <= closure)
Subject   == Event.entry

\* Bug: a snapshot that comes after the entry was admitted is taken all the same.
SnapshotOf_Late(p) == IF captured[p] = "written" THEN "classified" ELSE "unknown"
\* The snapshot of an entry that was admitted before is the one of its record.
SnapshotOf(p) ==
    IF entered[p] # Absent THEN entered[p]
    ELSE IF captured[p] = "written" THEN "classified" ELSE "unknown"

MayAdmit(p) == entered[p] # Absent \/ captured[p] = "written" \/ p \in aged

Enrolled(p) == Event.type = "BUY" /\ closure = 0 /\ p \notin Early

\* The record is written, or found to be the same, or in conflict.
Admit ==
    /\ observer.pc = "events" /\ MoreEvents /\ Enrolled(Subject) /\ MayAdmit(Subject)
    /\ LET skip == SnapshotOf(Subject) IN
         IF entered[Subject] \in {Absent, skip}
         THEN /\ entered' = [entered EXCEPT ![Subject] = skip]
              /\ observer' = [observer EXCEPT !.pc = "advance"]
         ELSE /\ observer' = [observer EXCEPT !.pc = "blocked"]
              /\ UNCHANGED entered
    /\ UNCHANGED <<control, sold, completed, closure, saved, report>>

RecordSell ==
    /\ observer.pc = "events" /\ MoreEvents /\ Event.type = "SELL" /\ entered[Subject] # Absent
    /\ sold' = sold \cup {NextSeq}
    /\ observer' = [observer EXCEPT !.pc = "advance"]
    /\ UNCHANGED <<control, entered, completed, closure, saved, report>>

PassBy ==
    /\ observer.pc = "events" /\ MoreEvents /\ ~Enrolled(Subject)
    /\ Event.type = "BUY" \/ entered[Subject] = Absent
    /\ observer' = [observer EXCEPT !.pc = "advance"]
    /\ UNCHANGED <<control, n3Files>>

CapReached(seq) ==
    \/ Cardinality({Day[p] : p \in {q \in Admitted: BuySeq(q) <= seq}}) >= DayCap
    \/ Event.type = "SELL" /\ entered[Subject] # Absent /\ Cardinality(CohortTrades(seq)) >= TradeCap

Advance ==
    /\ observer.pc = "advance"
    /\ closure' = IF closure = 0 /\ CapReached(NextSeq) THEN NextSeq ELSE closure
    /\ observer' = [observer EXCEPT !.cursor = NextSeq, !.pc = "events"]
    /\ UNCHANGED <<control, entered, sold, completed, saved, report>>

\* No event is left, or the snapshot of the next one is waited for.
EventsDone ==
    /\ observer.pc = "events"
    /\ MoreEvents => (Enrolled(Subject) /\ ~MayAdmit(Subject))
    /\ observer' = [observer EXCEPT !.pc = "complete"]
    /\ UNCHANGED <<control, n3Files>>

End == IF closure # 0 THEN closure ELSE observer.cursor

RecordCompleted(p) ==
    /\ observer.pc = "complete" /\ p \in CohortTrades(End) \ completed
    /\ completed' = completed \cup {p}
    /\ UNCHANGED <<control, entered, sold, closure, saved, report, observer>>

\* Bug: the cursor is saved where the ledger ended, although a snapshot is waited for.
SavedCursor_Read == observer.upto
SavedCursor      == observer.cursor

SaveState ==
    /\ observer.pc = "complete" /\ CohortTrades(End) \subseteq completed
    /\ saved' = [cursor |-> SavedCursor, admitted |-> Cardinality(Admitted),
                 sells |-> Cardinality({i \in sold: i <= observer.cursor}),
                 completed |-> Cardinality(CohortTrades(End))]
    /\ observer' = IF closure = 0 THEN ObserverIdle ELSE [observer EXCEPT !.pc = "report"]
    /\ UNCHANGED <<control, entered, sold, completed, closure, report>>

WriteReport ==
    /\ observer.pc = "report"
    /\ LET final == [end |-> closure, trades |-> CohortTrades(End), censored |-> Admitted \ CohortTrades(End)] IN
         IF report \in {Absent, final}
         THEN report' = final /\ observer' = ObserverIdle
         ELSE observer' = [observer EXCEPT !.pc = "blocked"] /\ UNCHANGED report
    /\ UNCHANGED <<control, entered, sold, completed, closure, saved>>

ObserverDies ==
    /\ observer.pc \in {"events", "advance", "complete", "report"}
    /\ observer' = ObserverIdle
    /\ UNCHANGED <<control, n3Files>>

-----------------------------------------------------------------------------

N3Init ==
    /\ log = <<>> /\ aged = {} /\ captured = [p \in Entries |-> "none"]
    /\ entered = [p \in Entries |-> Absent] /\ sold = {} /\ completed = {}
    /\ closure = 0 /\ report = Absent /\ observer = ObserverIdle
    /\ saved = [cursor |-> 0, admitted |-> 0, sells |-> 0, completed |-> 0]

N3Next ==
    \/ \E p \in Entries: \/ BuyEntry(p) \/ SubmitControlEntry(p) \/ SellHalf(p)
                         \/ PersistCapture(p) \/ GraceEnds(p) \/ RecordCompleted(p)
    \/ RecorderDies \/ Begin \/ Admit \/ RecordSell \/ PassBy \/ Advance \/ EventsDone
    \/ SaveState \/ WriteReport \/ ObserverDies

N3Spec == N3Init /\ [][N3Next]_n3Vars

-----------------------------------------------------------------------------
(* Properties                                                              *)

N3TypeOK ==
    /\ \A p \in Entries: entered[p] \in SkipValues \cup {Absent}
    /\ sold \subseteq DOMAIN log /\ completed \subseteq Entries
    /\ closure \in 0..Len(log) /\ observer.cursor \in 0..Len(log)

\* The observer may die between any two of its writes, while captures come late, are lost,
\* or come after their entry was admitted without: what it finds when it starts again never
\* contradicts what it writes now (immutable would raise, and every later pass, too).
ReplayAgrees == observer.pc # "blocked"

\* The final report is about the cohort as the ledger has it up to the end: all trades
\* that were entered since the registration and completed by then, all others of them
\* censored, whatever happened to the observer on the way.
ReportIsOfTheCohort ==
    report # Absent =>
        LET cohort == {p \in Entries \ Early: \E i \in 1..report.end: log[i] = [type |-> "BUY", entry |-> p]}
            ended  == {p \in cohort: Cardinality({i \in SellSeqs(p): i <= report.end}) = Legs}
        IN  report.trades = ended /\ report.censored = cohort \ ended

\* The observer goes on after whatever happened to it, and what it reports is true.
ObserverIsFaithful == ReplayAgrees /\ ReportIsOfTheCohort
=============================================================================
