----------------------------- MODULE StateStore -----------------------------
(* One JSON document under src/state_store.py: read-modify-write operations *)
(* of several processes (or threads: every call opens its own lock handle), *)
(* made exclusive by a sidecar flock and durable by write-to-temporary and  *)
(* rename.  Each operation of Ops is one call, with its own control state.  *)
(*                                                                          *)
(*   merge    update_json with a mutator that adds something                *)
(*   claim    claim_global_interval: the first one in an interval wins, the *)
(*            mutator of a later one refuses (the file is saved all the     *)
(*            same)                                                         *)
(*   migrate  migrate_json: saves only when the migrator changed something  *)
(*   publish  future_validation._publish_evaluation: replaces the WHOLE     *)
(*            document by one prepared from a read taken before the lock,   *)
(*            guarded by expected_version, after writing a second file      *)
(*                                                                          *)
(* A definition X_Y is X with the bug Y in it; no specification uses it.    *)
EXTENDS Naturals

CONSTANTS
    Ops,    \* the calls
    Kind,   \* of a call
    NoOp    \* nobody

ASSUME KindAssumption ==
    /\ Kind \in [Ops -> {"merge", "claim", "migrate", "publish"}]
    /\ NoOp \notin Ops

VARIABLES
    doc,        \* the file: its version and the operations whose effect it carries
    lock,       \* the holder of the sidecar lock, or NoOp
    pc,         \* where each call is
    snapshot,   \* publish: the document read before the lock
    copy,       \* the document in the memory of a call
    temp,       \* the temporary file of a call: "none", "fresh" or "stale"
    report      \* the second file of publish: who wrote it, for which version

vars == <<doc, lock, pc, snapshot, copy, temp, report>>

\* What the atomic document knows of a call (property and theorem below).
Told(state) ==
    CASE state \in {"ok", "failed"} -> state
      [] state = "replaced"         -> "applied"
      [] state = "lost"             -> "unknown"
      [] OTHER                      -> "pending"

Outcome == [op \in Ops |-> Told(pc[op])]

Atomic == INSTANCE AtomicDocument WITH outcome <- Outcome

Documents == Atomic!Documents
Empty     == [version |-> 0, effects |-> {}]

Working  == {"locked", "loaded", "mutated", "writing", "replaced"}  \* lock held
Ended    == {"ok", "failed", "lost"}

TypeOK ==
    /\ doc \in Documents
    /\ lock \in Ops \cup {NoOp}
    /\ pc \in [Ops -> {"new", "waiting"} \cup Working \cup Ended]
    /\ snapshot \in [Ops -> Documents]
    /\ copy \in [Ops -> Documents]
    /\ temp \in [Ops -> {"none", "fresh", "stale"}]
    /\ report \in [version : Nat, by : Ops \cup {NoOp}]

Init ==
    /\ doc = Empty
    /\ lock = NoOp
    /\ pc = [op \in Ops |-> "new"]
    /\ snapshot = [op \in Ops |-> Empty]
    /\ copy = [op \in Ops |-> Empty]
    /\ temp = [op \in Ops |-> "none"]
    /\ report = [version |-> 0, by |-> NoOp]

-----------------------------------------------------------------------------
(* exclusive_file_lock                                                      *)

\* The call begins.  A publisher has read the document without the lock.
Start(op) ==
    /\ pc[op] = "new"
    /\ pc' = [pc EXCEPT ![op] = "waiting"]
    /\ snapshot' = IF Kind[op] = "publish"
                   THEN [snapshot EXCEPT ![op] = doc] ELSE snapshot
    /\ UNCHANGED <<doc, lock, copy, temp, report>>

\* Bug: a lock file that locks nobody out.
Acquire_Anyway(op) ==
    /\ pc[op] = "waiting"
    /\ lock' = op
    /\ pc' = [pc EXCEPT ![op] = "locked"]
    /\ UNCHANGED <<doc, snapshot, copy, temp, report>>

\* A non-blocking flock that succeeds.
Acquire(op) ==
    /\ pc[op] = "waiting"
    /\ lock = NoOp
    /\ lock' = op
    /\ pc' = [pc EXCEPT ![op] = "locked"]
    /\ UNCHANGED <<doc, snapshot, copy, temp, report>>

\* One that fails with the deadline past: StateLockTimeout, nothing touched.
LockTimesOut(op) ==
    /\ pc[op] = "waiting"
    /\ lock # NoOp
    /\ pc' = [pc EXCEPT ![op] = "failed"]
    /\ UNCHANGED <<doc, lock, snapshot, copy, temp, report>>

Unlocked(op) == IF lock = op THEN NoOp ELSE lock

\* The with-block is left normally.
Release(op) ==
    /\ pc[op] = "replaced"
    /\ lock' = Unlocked(op)
    /\ pc' = [pc EXCEPT ![op] = "ok"]
    /\ UNCHANGED <<doc, snapshot, copy, temp, report>>

\* Bug: the finally that unlinks the temporary file is missing.
Abort_KeepsFile(op) ==
    /\ pc[op] \in {"locked", "loaded", "mutated", "writing"}
    /\ lock' = Unlocked(op)
    /\ pc' = [pc EXCEPT ![op] = "failed"]
    /\ UNCHANGED <<doc, snapshot, copy, temp, report>>

\* An exception on the way (unreadable file, a raising mutator, a full disk):
\* the temporary file is unlinked, then the lock is released.
Abort(op) ==
    /\ pc[op] \in {"locked", "loaded", "mutated", "writing"}
    /\ temp' = [temp EXCEPT ![op] = "none"]
    /\ lock' = Unlocked(op)
    /\ pc' = [pc EXCEPT ![op] = "failed"]
    /\ UNCHANGED <<doc, snapshot, copy, report>>

-----------------------------------------------------------------------------
(* update_json, migrate_json, _publish_evaluation                           *)

\* Bug: the lock covers the read, not the write.
Load_Unlocks(op) ==
    /\ pc[op] = "locked"
    /\ lock' = Unlocked(op)
    /\ copy' = [copy EXCEPT ![op] = doc]
    /\ pc' = [pc EXCEPT ![op] = "loaded"]
    /\ UNCHANGED <<doc, snapshot, temp, report>>

\* read_json under the lock.
Load(op) ==
    /\ pc[op] = "locked"
    /\ copy' = [copy EXCEPT ![op] = doc]
    /\ pc' = [pc EXCEPT ![op] = "loaded"]
    /\ UNCHANGED <<doc, lock, snapshot, temp, report>>

\* Bugs: no check of the version; any later version will do.
Expected_Anything(op) == TRUE
Expected_NoOlder(op) ==
    Kind[op] = "publish" => copy[op].version >= snapshot[op].version

\* expected_version against the version just read.
Expected(op) ==
    Kind[op] = "publish" => copy[op].version = snapshot[op].version

\* The document the mutator leaves: the one read, changed in place, or for a
\* publisher its prepared one under the version after the one read.
Mutated(op) ==
    IF Kind[op] = "publish"
    THEN [version |-> copy[op].version + 1,
          effects |-> snapshot[op].effects \cup {op}]
    ELSE Atomic!After(op, copy[op])

\* The mutator of a publisher writes the report before the document is saved.
ReportOf(op) ==
    IF Kind[op] = "publish"
    THEN [version |-> snapshot[op].version + 1, by |-> op]
    ELSE report

\* Bug: the loser tries again from the same snapshot, keeping the lock.
VersionConflicts_Retried(op) ==
    /\ pc[op] = "loaded"
    /\ ~Expected(op)
    /\ pc' = [pc EXCEPT ![op] = "locked"]
    /\ UNCHANGED <<doc, lock, snapshot, copy, temp, report>>

\* Bug: the report is written before the version is checked.
VersionConflicts_Reported(op) ==
    /\ pc[op] = "loaded"
    /\ ~Expected(op)
    /\ report' = ReportOf(op)
    /\ lock' = Unlocked(op)
    /\ pc' = [pc EXCEPT ![op] = "failed"]
    /\ UNCHANGED <<doc, snapshot, copy, temp>>

VersionConflicts(op) ==
    /\ pc[op] = "loaded"
    /\ ~Expected(op)
    /\ lock' = Unlocked(op)
    /\ pc' = [pc EXCEPT ![op] = "failed"]
    /\ UNCHANGED <<doc, snapshot, copy, temp, report>>

Mutate(op) ==
    /\ pc[op] = "loaded"
    /\ Expected(op)
    /\ copy' = [copy EXCEPT ![op] = Mutated(op)]
    /\ report' = ReportOf(op)
    /\ pc' = [pc EXCEPT ![op] = "mutated"]
    /\ UNCHANGED <<doc, lock, snapshot, temp>>

\* migrate_json with nothing changed: no version, no write.
Unchanged(op) == Kind[op] = "migrate" /\ op \notin copy[op].effects

SkipSave(op) ==
    /\ pc[op] = "mutated"
    /\ Unchanged(op)
    /\ lock' = Unlocked(op)
    /\ pc' = [pc EXCEPT ![op] = "ok"]
    /\ UNCHANGED <<doc, snapshot, copy, temp, report>>

-----------------------------------------------------------------------------
(* atomic_write_json                                                        *)

\* Temporary files of this document older than six hours; unlinking one may
\* fail, which is ignored.
StaleFiles(op) == {other \in Ops \ {op} : temp[other] = "stale"}

WriteTemporary(op) ==
    /\ pc[op] = "mutated"
    /\ ~Unchanged(op)
    /\ \E gone \in SUBSET StaleFiles(op) :
          temp' = [o \in Ops |-> IF o = op THEN "fresh"
                                 ELSE IF o \in gone THEN "none" ELSE temp[o]]
    /\ pc' = [pc EXCEPT ![op] = "writing"]
    /\ UNCHANGED <<doc, lock, snapshot, copy, report>>

\* os.replace fails when the temporary file is gone, which is an Abort.
Replace(op) ==
    /\ pc[op] = "writing"
    /\ temp[op] # "none"
    /\ doc' = copy[op]
    /\ temp' = [temp EXCEPT ![op] = "none"]
    /\ pc' = [pc EXCEPT ![op] = "replaced"]
    /\ UNCHANGED <<lock, snapshot, copy, report>>

-----------------------------------------------------------------------------
(* The environment                                                          *)

\* The process is killed, or interrupted at any instruction: the system drops
\* its lock; its temporary file stays, or was unlinked on the way out.
Crash(op) ==
    /\ pc[op] \in {"waiting"} \cup Working
    /\ lock' = Unlocked(op)
    /\ \E left \in {temp[op], "none"} : temp' = [temp EXCEPT ![op] = left]
    /\ pc' = [pc EXCEPT ![op] = "lost"]
    /\ UNCHANGED <<doc, snapshot, copy, report>>

\* Six hours pass over a file, its writer stalled or gone.
GoStale(op) ==
    /\ temp[op] = "fresh"
    /\ temp' = [temp EXCEPT ![op] = "stale"]
    /\ UNCHANGED <<doc, lock, pc, snapshot, copy, report>>

Step(op) ==
    \/ Start(op) \/ Acquire(op) \/ LockTimesOut(op) \/ Release(op) \/ Abort(op)
    \/ Load(op) \/ VersionConflicts(op) \/ Mutate(op) \/ SkipSave(op)
    \/ WriteTemporary(op) \/ Replace(op)

Next == \E op \in Ops : Step(op) \/ Crash(op) \/ GoStale(op)

Spec == Init /\ [][Next]_vars

\* A call, once made, is executed: every wait of the code is a poll with a
\* deadline.  Nothing is assumed of crashes, of the clock or of who wins.
FairSpec == Spec /\ \A op \in Ops : WF_vars(Step(op))
-----------------------------------------------------------------------------
(* Properties                                                               *)

\* What the caller of update_json is told is what happened, whatever the other
\* calls did since: a change that was reported done is in the file, one that was
\* reported failed - a timeout, a conflict, an exception, even a failed write -
\* is not and never will be.
OutcomeIsTruthful == \A op \in Ops :
    /\ pc[op] = "ok" /\ op \in copy[op].effects => op \in doc.effects
    /\ pc[op] = "failed" => op \notin doc.effects

\* claim_global_interval: of the processes that claim one interval, at most one
\* is told it may start the job - also when another one died holding the lock.
ClaimGrantedOnce == \A a, b \in Ops :
    /\ Kind[a] = "claim" /\ Kind[b] = "claim"
    /\ pc[a] = "ok" /\ a \in copy[a].effects
    /\ pc[b] \in {"ok", "lost"} /\ b \in doc.effects
    => a = b

\* atomic_write_json: a call that ended otherwise than by dying has left no
\* temporary file behind, and the cleanup of another call, whatever the age of
\* the file, never takes the one a writer is about to rename.
OnlyTheDeadLeaveFiles == \A op \in Ops :
    /\ temp[op] # "none" => pc[op] \in {"writing", "lost"}
    /\ pc[op] = "writing" => temp[op] # "none"

\* _publish_evaluation: the loser of two evaluations prepared from the same
\* registry never overwrites the report of the winner - the report on disk is at
\* least as new as every evaluation the registry has taken in.
ReportIsNewest == \A op \in doc.effects :
    Kind[op] = "publish" => report.version >= copy[op].version

\* An evaluation that was told it published owns the report until an evaluation
\* prepared from a later registry writes its own.
PublishedReportStands == \A op \in Ops :
    Kind[op] = "publish" /\ pc[op] = "ok"
    => report.by = op \/ report.version > copy[op].version

\* Every operation takes effect at one moment, as if it ran alone on the latest
\* document: no lost update, no read of a half-written file, no effect after a
\* reported failure.
ImplementsAtomic == Atomic!DocSpec

\* Every call ends, at the latest with StateLockTimeout: no deadlock of callers.
EveryCallEnds == \A op \in Ops :
    pc[op] \in {"waiting"} \cup Working ~> pc[op] \in Ended
=============================================================================
