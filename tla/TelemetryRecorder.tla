------------------------- MODULE TelemetryRecorder -------------------------
(***************************************************************************)
(* The research sidecar of src/research/entry_telemetry.py: what was known *)
(* when a signal was decided on goes through three bounded queues to a     *)
(* worker thread, which writes one immutable file per record, after a file *)
(* that reserves its identity.  entry_telemetry_join.py reads them.        *)
(*                                                                         *)
(* The trading code runs in one thread and never waits for the worker;     *)
(* the worker's two writes are two steps, and the process may die between  *)
(* them.  A signal has one capture in its life, and the ledger submits a   *)
(* completed trade once, so that no identity is reserved twice.  The model *)
(* has one process for the three streams; in the system the first two are  *)
(* those of the monitor, the third is that of the risk manager.            *)
(***************************************************************************)
EXTENDS Integers, Sequences, FiniteSets

CONSTANTS
    Signals,
    Rejections,     \* OUTCOMES, but for BUY and OTHER
    QueueLimit,     \* maxsize of _queue, _receipt_queue, _outcome_queue
    MaxCrashes,     \* bound: crashes of the process
    NoDecision, NoItem

Streams   == <<"predictors", "receipts", "outcomes">>
Decisions == Rejections \cup {"BUY", "OTHER"}

ASSUME RecorderAssumption ==
    /\ {"BUY", "OTHER", NoDecision} \cap Rejections = {}
    /\ NoDecision \notin {"BUY", "OTHER", "won", "lost"}
    /\ QueueLimit \in Nat \ {0} /\ MaxCrashes \in Nat

VARIABLES
    capture,    \* Capture: the thread's captures
    queues,     \* _queue, _receipt_queue, _outcome_queue
    worker,     \* _run: whose turn it is, the record in hand, whether it is reserved
    index,      \* the files under <stream>/_identity: content_hash
    rows,       \* the files under <stream>/<day>: the contents
    counted,    \* the records that _health counts as dropped
    ending,     \* the end of the process
    crashes

recorderVars == <<capture, queues, worker, index, rows, counted, ending, crashes>>

StreamSet == {Streams[i] : i \in 1..3}
NoFiles   == [n \in StreamSet |-> [s \in Signals |-> NoDecision]]
NewCapture == [pc |-> "none", decision |-> NoDecision, bought |-> FALSE, sold |-> FALSE]
WorkerIdle   == [turn |-> 1, item |-> NoItem, reserved |-> FALSE]

-----------------------------------------------------------------------------
(* The trading thread                                                      *)

Open(s) == capture[s].pc = "open" /\ ending # "gone"

BeginSignal(s) ==
    /\ ending = "run" /\ capture[s].pc = "none"
    /\ capture' = [capture EXCEPT ![s].pc = "open"]
    /\ UNCHANGED <<queues, worker, index, rows, counted, ending, crashes>>

\* Bug: a rejection is noted even when the trade has been made.
MayReject_Bought(s) == Open(s)
MayReject(s)        == Open(s) /\ ~capture[s].bought

\* set_section("decision")
Reject(s, why) ==
    /\ MayReject(s)
    /\ capture' = [capture EXCEPT ![s].decision = why]
    /\ UNCHANGED <<queues, worker, index, rows, counted, ending, crashes>>

\* mark("paper_buy_created_at")
Buy(s) ==
    /\ Open(s)
    /\ capture' = [capture EXCEPT ![s].decision = "BUY", ![s].bought = TRUE]
    /\ UNCHANGED <<queues, worker, index, rows, counted, ending, crashes>>

Item(n, s, content) == [stream |-> n, signal |-> s, content |-> content]
Contents == Decisions \cup {"won", "lost"}
ASSUME ItemAssumption == NoItem \notin [stream: StreamSet, signal: Signals, content: Contents]

\* put_nowait, to each of the queues: the records of a full one are dropped
Submit(items) ==
    LET fits(n) == Len(queues[n]) < QueueLimit
        sent(n) == {i \in items : i.stream = n /\ fits(n)}
    IN  /\ queues' = [n \in StreamSet |->
                         IF sent(n) = {} THEN queues[n]
                         ELSE Append(queues[n], CHOOSE i \in sent(n) : TRUE)]
        /\ counted' = counted \cup {i \in items : ~fits(i.stream)}

FinalDecision(decision) == IF decision = NoDecision THEN "OTHER" ELSE decision

FinishSignal(s) ==
    /\ Open(s)
    /\ capture' = [capture EXCEPT ![s].pc = "finished", ![s].decision = FinalDecision(@)]
    /\ Submit({Item("predictors", s, FinalDecision(capture[s].decision))} \cup
              IF capture[s].bought THEN {Item("receipts", s, "BUY")} ELSE {})
    /\ UNCHANGED <<worker, index, rows, ending, crashes>>

\* The SELL that completed the trade is booked.
SubmitOutcome(s, result) ==
    /\ ending = "run" /\ capture[s].pc \in {"finished", "past"}
    /\ capture[s].bought /\ ~capture[s].sold
    /\ capture' = [capture EXCEPT ![s].sold = TRUE]
    /\ Submit({Item("outcomes", s, result)})
    /\ UNCHANGED <<worker, index, rows, ending, crashes>>

-----------------------------------------------------------------------------
(* The worker                                                              *)

Turn == Streams[worker.turn]
Next3 == (worker.turn % 3) + 1

\* target.get of the stream whose turn it is
Take ==
    /\ worker.item = NoItem /\ ending # "gone" /\ queues[Turn] # <<>>
    /\ worker' = [worker EXCEPT !.item = Head(queues[Turn])]
    /\ queues' = [queues EXCEPT ![Turn] = Tail(@)]
    /\ UNCHANGED <<capture, index, rows, counted, ending, crashes>>

PassOver ==
    /\ worker.item = NoItem /\ ending # "gone" /\ queues[Turn] = <<>>
    /\ \E n \in StreamSet: queues[n] # <<>>
    /\ worker' = [worker EXCEPT !.turn = Next3]
    /\ UNCHANGED <<capture, queues, index, rows, counted, ending, crashes>>

Busy == worker.item # NoItem /\ ending # "gone"
Done == [WorkerIdle EXCEPT !.turn = Next3]

\* _persist_stream writes the file that reserves the identity, then the record.
ReserveFile ==
    /\ Busy /\ ~worker.reserved
    /\ index' = [index EXCEPT ![worker.item.stream][worker.item.signal] = worker.item.content]
    /\ worker' = [worker EXCEPT !.reserved = TRUE]
    /\ UNCHANGED <<capture, queues, rows, counted, ending, crashes>>

\* Bug: the row is written before the identity is reserved.
MayCommit_First == Busy
MayCommit       == Busy /\ worker.reserved

Commit ==
    /\ MayCommit
    /\ rows' = [rows EXCEPT ![worker.item.stream][worker.item.signal] = worker.item.content]
    /\ worker' = Done
    /\ UNCHANGED <<capture, queues, index, counted, ending, crashes>>

\* One of the two writes fails: the record is dropped.
WriteFails ==
    /\ Busy
    /\ worker' = Done
    /\ counted' = counted \cup {worker.item}
    /\ UNCHANGED <<capture, queues, index, rows, ending, crashes>>

-----------------------------------------------------------------------------
(* The end of the process                                                  *)

\* A clean stop was asked for: no new signals; those under way are finished first.
StopAsked ==
    /\ ending = "run"
    /\ ending' = "drain"
    /\ UNCHANGED <<capture, queues, worker, index, rows, counted, crashes>>

Unfinished == worker.item # NoItem \/ \E n \in StreamSet: queues[n] # <<>>

\* Bug: the queues are empty, but the worker may still be writing.
MayAcknowledge_Empty == \A n \in StreamSet: queues[n] = <<>>
MayAcknowledge       == ~Unfinished

\* flush, once asyncio.run has returned, and acknowledge_stopped
Acknowledge ==
    /\ ending = "drain" /\ \A s \in Signals: ~Open(s)
    /\ MayAcknowledge
    /\ ending' = "acknowledged"
    /\ UNCHANGED <<capture, queues, worker, index, rows, counted, crashes>>

\* The process is gone: after the acknowledgement, after a flush that took too long, or
\* because it died.  Nothing of the thread and of the queues is left.
Exit ==
    /\ ending \in {"acknowledged", "drain"} /\ \A s \in Signals: ~Open(s)
    /\ ending' = "gone" /\ UNCHANGED crashes
Die ==
    /\ ending # "gone" /\ crashes < MaxCrashes
    /\ ending' = "gone" /\ crashes' = crashes + 1
ProcessEnds ==
    /\ Exit \/ Die
    /\ queues' = [n \in StreamSet |-> <<>>] /\ worker' = WorkerIdle /\ counted' = {}
    /\ UNCHANGED <<capture, index, rows>>

\* Another process of the same epoch starts; no capture of the former is known to it.
StartWorker ==
    /\ ending = "gone"
    /\ ending' = "run"
    /\ capture' = [s \in Signals |-> IF capture[s].pc = "none" THEN capture[s]
                                     ELSE [capture[s] EXCEPT !.pc = "past"]]
    /\ UNCHANGED <<queues, worker, index, rows, counted, crashes>>

-----------------------------------------------------------------------------
(* The readers, offline or while the worker writes                         *)

\* iter_stream: of every row that it finds, it validates the seal and the identity.
Valid(n, s)   == rows[n][s] = NoDecision \/ index[n][s] = rows[n][s]
\* join_streams
Joins(s)      == (rows["receipts"][s] # NoDecision /\ rows["predictors"][s] # NoDecision)
                     => rows["predictors"][s] = "BUY"

-----------------------------------------------------------------------------

RecorderInit ==
    /\ capture = [s \in Signals |-> NewCapture]
    /\ queues = [n \in StreamSet |-> <<>>] /\ worker = WorkerIdle
    /\ index = NoFiles /\ rows = NoFiles /\ counted = {} /\ ending = "run"
    /\ crashes = 0

RecorderNext ==
    \/ \E s \in Signals: BeginSignal(s) \/ Buy(s) \/ FinishSignal(s)
    \/ \E s \in Signals, why \in Rejections: Reject(s, why)
    \/ \E s \in Signals, result \in {"won", "lost"}: SubmitOutcome(s, result)
    \/ Take \/ PassOver \/ ReserveFile \/ Commit \/ WriteFails
    \/ StopAsked \/ Acknowledge \/ ProcessEnds \/ StartWorker

RecorderSpec == RecorderInit /\ [][RecorderNext]_recorderVars

-----------------------------------------------------------------------------
(* Properties                                                              *)

RecorderTypeOK ==
    /\ \A s \in Signals: /\ capture[s].pc \in {"none", "open", "finished", "past"}
                         /\ capture[s].decision \in Decisions \cup {NoDecision}
    /\ \A n \in StreamSet: Len(queues[n]) <= QueueLimit
    /\ worker.turn \in 1..3
    /\ ending \in {"run", "drain", "acknowledged", "gone"}

\* At any time, whoever reads the files can join them: no row is without the identity that
\* seals it, although the two are written one after the other by a process that may die,
\* and no receipt belongs to a signal that was rejected (iter_stream and join_streams
\* raise, and one such row makes the whole epoch unreadable).
EpochIsReadable == \A s \in Signals: Joins(s) /\ \A n \in StreamSet: Valid(n, s)

\* A stop is acknowledged when every signal that this process decided on is on disk, or
\* is counted as dropped; the cutover relies on it.
AcknowledgedIsDrained ==
    ending = "acknowledged" =>
        \A s \in Signals: capture[s].pc = "finished" =>
            \/ rows["predictors"][s] # NoDecision
            \/ \E i \in counted: i.stream = "predictors" /\ i.signal = s

\* What the epoch's readers and the cutover rely on.
EvidenceIsWhole == EpochIsReadable /\ AcknowledgedIsDrained
=============================================================================
