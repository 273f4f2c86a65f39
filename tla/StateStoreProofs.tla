-------------------------- MODULE StateStoreProofs --------------------------
(* StateStore implements AtomicDocument, for any number of calls of any     *)
(* kind, and tells its callers the truth.                                   *)
EXTENDS StateStore, TLAPS

-----------------------------------------------------------------------------
(* The inductive invariant                                                  *)

\* Between its flock and its release a call is the only one.
Exclusive == \A op \in Ops : pc[op] \in Working <=> lock = op

\* What a call holds in memory while it has the lock is the file, or what the
\* file becomes: nobody can have changed the file since the call read it.
CopyCurrent == \A op \in Ops :
    /\ pc[op] = "loaded" => copy[op] = doc
    /\ pc[op] \in {"mutated", "writing"} => copy[op] = Atomic!After(op, doc)

\* A version number names one content, so expected_version is enough.
SnapshotNamed == \A op \in Ops :
    /\ snapshot[op].version <= doc.version
    /\ snapshot[op].version = doc.version => snapshot[op] = doc

\* A call is in effect only once it replaced the file; a call that only
\* migrated what was migrated never gets to write.
InEffect == \A op \in Ops :
    /\ op \in doc.effects => pc[op] \in {"replaced", "ok", "lost"}
    /\ pc[op] \in {"replaced", "ok"} /\ op \in copy[op].effects => op \in doc.effects
    /\ pc[op] = "writing" => ~Unchanged(op)

StoreInv == TypeOK /\ Exclusive /\ CopyCurrent /\ SnapshotNamed /\ InEffect

-----------------------------------------------------------------------------
(* What After does to a document                                            *)

LEMMA AfterType ==
    ASSUME NEW op \in Ops, NEW d \in Documents
    PROVE  Atomic!After(op, d) \in Documents
BY SMT DEF Documents, Atomic!Documents, Atomic!After

\* Every write raises the version by one, and no write drops an effect.
LEMMA AfterGrows ==
    ASSUME NEW op \in Ops, NEW d \in Documents
    PROVE  /\ d.effects \subseteq Atomic!After(op, d).effects
           /\ Atomic!After(op, d).effects \subseteq d.effects \cup {op}
           /\ Atomic!After(op, d).version \in {d.version, d.version + 1}
           /\ op \in Atomic!After(op, d).effects /\ op \notin d.effects
              => Atomic!After(op, d).version = d.version + 1
           /\ Kind[op] # "migrate" => Atomic!After(op, d).version = d.version + 1
           /\ Atomic!After(op, d).version = d.version => Atomic!After(op, d) = d
           /\ Kind[op] = "migrate" /\ op \notin Atomic!After(op, d).effects
              => Atomic!After(op, d) = d
BY SMT DEF Documents, Atomic!Documents, Atomic!After, Atomic!Anticipated

\* A publisher whose expected version was met computes what After asks for.
LEMMA MutatedIsAfter ==
    ASSUME NEW op \in Ops, StoreInv, pc[op] = "loaded", Expected(op)
    PROVE  Mutated(op) = Atomic!After(op, doc)
<1>1. copy[op] = doc
  BY DEF StoreInv, CopyCurrent
<1>2. CASE Kind[op] = "publish"
  <2>1. snapshot[op] = doc
    BY <1>1, <1>2 DEF Expected, StoreInv, SnapshotNamed
  <2>2. ~Atomic!Anticipated(op, doc)
    BY <1>2 DEF Atomic!Anticipated
  <2> QED
    BY <1>1, <1>2, <2>1, <2>2 DEF Mutated, Atomic!After
<1>3. CASE Kind[op] # "publish"
  BY <1>1, <1>3 DEF Mutated
<1> QED
  BY <1>2, <1>3

-----------------------------------------------------------------------------
(* The invariant is inductive                                               *)

\* Types.
LEMMA TypeStep ==
    ASSUME StoreInv, NEW op \in Ops, Step(op) \/ Crash(op) \/ GoStale(op)
    PROVE  TypeOK'
<1> USE DEF StoreInv
<1>1. CASE Start(op)
  BY <1>1, SMT DEF TypeOK, Start, Working, Ended
<1>2. CASE Acquire(op)
  BY <1>2, SMT DEF TypeOK, Acquire, Working, Ended
<1>3. CASE LockTimesOut(op)
  BY <1>3, SMT DEF TypeOK, LockTimesOut, Working, Ended
<1>4. CASE Release(op)
  BY <1>4, SMT DEF TypeOK, Release, Unlocked, Working, Ended
<1>5. CASE Abort(op)
  BY <1>5, SMT DEF TypeOK, Abort, Unlocked, Working, Ended
<1>6. CASE Load(op)
  BY <1>6, SMT DEF TypeOK, Load, Working, Ended
<1>7. CASE VersionConflicts(op)
  BY <1>7, SMT DEF TypeOK, VersionConflicts, Unlocked, Working, Ended
<1>8. CASE Mutate(op)
  <2>1. Mutated(op) \in Documents
    BY <1>8, MutatedIsAfter, AfterType DEF TypeOK, Mutate
  <2>2. ReportOf(op) \in [version : Nat, by : Ops \cup {NoOp}]
    BY SMT DEF ReportOf, TypeOK, Documents, Atomic!Documents
  <2> QED
    BY <1>8, <2>1, <2>2, SMT DEF TypeOK, Mutate, Working, Ended
<1>9. CASE SkipSave(op)
  BY <1>9, SMT DEF TypeOK, SkipSave, Unlocked, Working, Ended
<1>10. CASE WriteTemporary(op)
  BY <1>10, SMT DEF TypeOK, WriteTemporary, Working, Ended
<1>11. CASE Replace(op)
  BY <1>11, SMT DEF TypeOK, Replace, Working, Ended
<1>12. CASE Crash(op)
  BY <1>12, SMT DEF TypeOK, Crash, Unlocked, Working, Ended
<1>13. CASE GoStale(op)
  BY <1>13, SMT DEF TypeOK, GoStale, Working, Ended
<1> QED
  BY <1>1, <1>2, <1>3, <1>4, <1>5, <1>6, <1>7, <1>8, <1>9, <1>10, <1>11,
     <1>12, <1>13 DEF Step

\* The lock is handed over only through NoOp.
LEMMA ExclusiveStep ==
    ASSUME StoreInv, NEW op \in Ops, Step(op) \/ Crash(op) \/ GoStale(op)
    PROVE  Exclusive'
<1>0. NoOp \notin Ops /\ pc \in [Ops -> {"new", "waiting"} \cup Working \cup Ended]
  BY KindAssumption DEF StoreInv, TypeOK
<1>1. CASE Start(op) \/ LockTimesOut(op)
  BY <1>0, <1>1, SMT DEF StoreInv, Exclusive, Start, LockTimesOut, Working, Ended
<1>2. CASE Acquire(op)
  BY <1>0, <1>2, SMT DEF StoreInv, Exclusive, Acquire, Working, Ended
<1>3. CASE Release(op) \/ Abort(op) \/ VersionConflicts(op) \/ SkipSave(op) \/ Crash(op)
  BY <1>0, <1>3, SMT DEF StoreInv, Exclusive, Release, Abort, VersionConflicts,
     SkipSave, Crash, Unlocked, Working, Ended
<1>4. CASE Load(op) \/ Mutate(op) \/ WriteTemporary(op) \/ Replace(op)
  BY <1>0, <1>4, SMT DEF StoreInv, Exclusive, Load, Mutate, WriteTemporary, Replace,
     Working, Ended
<1>5. CASE GoStale(op)
  BY <1>5 DEF StoreInv, Exclusive, GoStale
<1> QED
  BY <1>1, <1>2, <1>3, <1>4, <1>5 DEF Step

\* Nobody else holds a copy while a call replaces the file.
LEMMA CopyStep ==
    ASSUME StoreInv, NEW op \in Ops, Step(op) \/ Crash(op) \/ GoStale(op)
    PROVE  CopyCurrent'
<1>0. /\ pc \in [Ops -> {"new", "waiting"} \cup Working \cup Ended]
      /\ copy \in [Ops -> Documents]
      /\ CopyCurrent /\ Exclusive
  BY DEF StoreInv, TypeOK
<1>1. CASE Start(op) \/ Acquire(op) \/ LockTimesOut(op)
  BY <1>0, <1>1, SMT DEF CopyCurrent, Start, Acquire, LockTimesOut
<1>2. CASE Release(op) \/ Abort(op) \/ VersionConflicts(op) \/ SkipSave(op) \/ Crash(op)
  BY <1>0, <1>2, SMT DEF CopyCurrent, Release, Abort, VersionConflicts, SkipSave, Crash
<1>3. CASE Load(op)
  BY <1>0, <1>3, SMT DEF CopyCurrent, Load
<1>4. CASE Mutate(op)
  <2>1. Mutated(op) = Atomic!After(op, doc)
    BY <1>4, MutatedIsAfter DEF Mutate
  <2> QED
    BY <1>0, <1>4, <2>1, SMT DEF CopyCurrent, Mutate
<1>5. CASE WriteTemporary(op)
  BY <1>0, <1>5, SMT DEF CopyCurrent, WriteTemporary
<1>6. CASE Replace(op)
  <2>1. \A o \in Ops \ {op} : pc[o] \notin {"loaded", "mutated", "writing"}
    BY <1>0, <1>6, SMT DEF Exclusive, Replace, Working
  <2> QED
    BY <1>0, <1>6, <2>1, SMT DEF CopyCurrent, Replace
<1>7. CASE GoStale(op)
  BY <1>0, <1>7, SMT DEF CopyCurrent, GoStale
<1> QED
  BY <1>1, <1>2, <1>3, <1>4, <1>5, <1>6, <1>7 DEF Step

\* What replacing the file does to the document.
LEMMA ReplaceGrows ==
    ASSUME StoreInv, NEW op \in Ops, Replace(op)
    PROVE  /\ doc' = Atomic!After(op, doc) /\ copy' = copy /\ snapshot' = snapshot
           /\ doc'.version = doc.version + 1
           /\ doc.effects \subseteq doc'.effects
           /\ doc'.effects \subseteq doc.effects \cup {op}
<1>1. doc' = Atomic!After(op, doc) /\ copy[op] = doc' /\ ~Unchanged(op)
  BY DEF Replace, StoreInv, CopyCurrent, InEffect
<1>2. op \notin doc.effects
  BY SMT DEF Replace, StoreInv, InEffect
<1>3. doc \in Documents
  BY DEF StoreInv, TypeOK
<1>4. doc'.version = doc.version + 1
  BY <1>1, <1>2, <1>3, AfterGrows DEF Unchanged
<1> QED
  BY <1>1, <1>3, <1>4, AfterGrows DEF Replace

LEMMA SnapshotStep ==
    ASSUME StoreInv, NEW op \in Ops, Step(op) \/ Crash(op) \/ GoStale(op)
    PROVE  SnapshotNamed'
<1>0. /\ snapshot \in [Ops -> Documents] /\ doc \in Documents
      /\ SnapshotNamed
  BY DEF StoreInv, TypeOK
<1>1. CASE Start(op)
  BY <1>0, <1>1, SMT DEF SnapshotNamed, Start, Documents, Atomic!Documents
<1>2. CASE Replace(op)
  <2>1. snapshot' = snapshot /\ doc'.version = doc.version + 1
    BY <1>2, ReplaceGrows
  <2> SUFFICES ASSUME NEW o \in Ops
               PROVE  /\ snapshot[o].version <= doc'.version
                      /\ snapshot[o].version # doc'.version
    BY <2>1 DEF SnapshotNamed
  <2>2. snapshot[o].version <= doc.version /\ snapshot[o].version \in Nat /\ doc.version \in Nat
    BY <1>0, SMT DEF SnapshotNamed, Documents, Atomic!Documents
  <2> QED
    BY <2>1, <2>2, SMT
<1>3. CASE ~Start(op) /\ ~Replace(op)
  <2>1. UNCHANGED <<doc, snapshot>>
    BY <1>3 DEF Step, Acquire, LockTimesOut, Release, Abort, Load, VersionConflicts,
       Mutate, SkipSave, WriteTemporary, Crash, GoStale
  <2> QED
    BY <1>0, <2>1 DEF SnapshotNamed
<1> QED
  BY <1>1, <1>2, <1>3

LEMMA EffectStep ==
    ASSUME StoreInv, NEW op \in Ops, Step(op) \/ Crash(op) \/ GoStale(op)
    PROVE  InEffect'
<1>0. /\ pc \in [Ops -> {"new", "waiting"} \cup Working \cup Ended]
      /\ copy \in [Ops -> Documents]
      /\ InEffect
  BY DEF StoreInv, TypeOK
<1>1. CASE Start(op) \/ Acquire(op) \/ LockTimesOut(op)
  BY <1>0, <1>1, SMT DEF InEffect, Start, Acquire, LockTimesOut, Unchanged
<1>2. CASE Release(op) \/ Abort(op) \/ VersionConflicts(op) \/ Crash(op)
  BY <1>0, <1>2, SMT DEF InEffect, Release, Abort, VersionConflicts, Crash, Unchanged,
     Working
<1>3. CASE SkipSave(op)
  BY <1>0, <1>3, SMT DEF InEffect, SkipSave, Unchanged
<1>4. CASE Load(op)
  BY <1>0, <1>4, SMT DEF InEffect, Load, Unchanged
<1>5. CASE Mutate(op)
  BY <1>0, <1>5, SMT DEF InEffect, Mutate, Unchanged
<1>6. CASE WriteTemporary(op)
  BY <1>0, <1>6, SMT DEF InEffect, WriteTemporary, Unchanged
<1>7. CASE Replace(op)
  <2>1. /\ doc.effects \subseteq doc'.effects
        /\ doc'.effects \subseteq doc.effects \cup {op}
    BY <1>7, ReplaceGrows
  <2> QED
    BY <1>0, <1>7, <2>1, SMT DEF InEffect, Replace, Unchanged
<1>8. CASE GoStale(op)
  BY <1>0, <1>8, SMT DEF InEffect, GoStale, Unchanged
<1> QED
  BY <1>1, <1>2, <1>3, <1>4, <1>5, <1>6, <1>7, <1>8 DEF Step

LEMMA StoreInvHolds == Spec => []StoreInv
<1>1. Init => StoreInv
  BY KindAssumption, SMT DEF Init, StoreInv, TypeOK, Exclusive, CopyCurrent,
     SnapshotNamed, InEffect, Empty, Documents, Atomic!Documents, Working, Ended
<1>2. StoreInv /\ [Next]_vars => StoreInv'
  <2> SUFFICES ASSUME StoreInv, [Next]_vars PROVE StoreInv'
    OBVIOUS
  <2>1. CASE UNCHANGED vars
    BY <2>1 DEF vars, StoreInv, TypeOK, Exclusive, CopyCurrent, SnapshotNamed, InEffect,
       Unchanged
  <2>2. CASE Next
    <3> PICK op \in Ops : Step(op) \/ Crash(op) \/ GoStale(op)
      BY <2>2 DEF Next
    <3> QED
      BY TypeStep, ExclusiveStep, CopyStep, SnapshotStep, EffectStep DEF StoreInv
  <2> QED
    BY <2>1, <2>2
<1> QED
  BY <1>1, <1>2, PTL DEF Spec

-----------------------------------------------------------------------------
(* Consequences                                                             *)

\* The callers of update_json and migrate_json are told the truth.
THEOREM CallersAreToldTheTruth == Spec => []OutcomeIsTruthful
<1>1. StoreInv => OutcomeIsTruthful
  <2> SUFFICES ASSUME StoreInv, NEW op \in Ops
               PROVE  /\ pc[op] = "ok" /\ op \in copy[op].effects => op \in doc.effects
                      /\ pc[op] = "failed" => op \notin doc.effects
    BY DEF OutcomeIsTruthful
  <2> QED
    BY DEF StoreInv, InEffect
<1> QED
  BY <1>1, StoreInvHolds, PTL

\* A write makes at most one claim effective, since it works on the file as it is.
OneClaim == \A a, b \in doc.effects : Kind[a] = "claim" /\ Kind[b] = "claim" => a = b

LEMMA OneClaimStep ==
    ASSUME StoreInv, OneClaim, NEW op \in Ops, Step(op) \/ Crash(op) \/ GoStale(op)
    PROVE  OneClaim'
<1>1. CASE Replace(op)
  <2>1. doc' = Atomic!After(op, doc) /\ doc \in Documents
    BY <1>1, ReplaceGrows DEF StoreInv, TypeOK
  <2>2. CASE Atomic!Anticipated(op, doc)
    BY <2>1, <2>2 DEF OneClaim, Atomic!After
  <2>3. CASE ~Atomic!Anticipated(op, doc)
    <3>1. doc'.effects = doc.effects \cup {op}
      BY <2>1, <2>3 DEF Atomic!After
    <3>2. Kind[op] = "claim" => \A other \in doc.effects : Kind[other] # "claim"
      BY <2>3 DEF Atomic!Anticipated
    <3> QED
      BY <3>1, <3>2 DEF OneClaim
  <2> QED
    BY <2>2, <2>3
<1>2. CASE ~Replace(op)
  <2>1. doc' = doc
    BY <1>2 DEF Step, Start, Acquire, LockTimesOut, Release, Abort, Load,
       VersionConflicts, Mutate, SkipSave, WriteTemporary, Crash, GoStale
  <2> QED
    BY <2>1 DEF OneClaim
<1> QED
  BY <1>1, <1>2

\* claim_global_interval starts the job of an interval at most once.
THEOREM ClaimsAreExclusive == Spec => []ClaimGrantedOnce
<1>1. Init => OneClaim
  BY DEF Init, OneClaim, Empty
<1>2. StoreInv /\ OneClaim /\ [Next]_vars => OneClaim'
  <2>1. StoreInv /\ OneClaim /\ Next => OneClaim'
    BY OneClaimStep DEF Next
  <2>2. OneClaim /\ UNCHANGED vars => OneClaim'
    BY DEF OneClaim, vars
  <2> QED
    BY <2>1, <2>2
<1>3. StoreInv /\ OneClaim => ClaimGrantedOnce
  BY DEF StoreInv, InEffect, OneClaim, ClaimGrantedOnce
<1> QED
  BY <1>1, <1>2, <1>3, StoreInvHolds, PTL DEF Spec

\* atomic_write_json cleans up after itself, and after others only.
THEOREM FilesAreCleanedUp == Spec => []OnlyTheDeadLeaveFiles
<1>1. Init => OnlyTheDeadLeaveFiles
  BY DEF Init, OnlyTheDeadLeaveFiles
<1>2. StoreInv /\ OnlyTheDeadLeaveFiles /\ [Next]_vars => OnlyTheDeadLeaveFiles'
  <2> SUFFICES ASSUME StoreInv, OnlyTheDeadLeaveFiles, Next
               PROVE  OnlyTheDeadLeaveFiles'
    BY DEF OnlyTheDeadLeaveFiles, vars
  <2>0. /\ pc \in [Ops -> {"new", "waiting"} \cup Working \cup Ended]
        /\ temp \in [Ops -> {"none", "fresh", "stale"}]
    BY DEF StoreInv, TypeOK
  <2> PICK op \in Ops : Step(op) \/ Crash(op) \/ GoStale(op)
    BY DEF Next
  <2>1. CASE \/ Start(op) \/ Acquire(op) \/ LockTimesOut(op) \/ Release(op)
             \/ Load(op) \/ VersionConflicts(op) \/ Mutate(op) \/ SkipSave(op)
    BY <2>0, <2>1, SMT DEF OnlyTheDeadLeaveFiles, Start, Acquire, LockTimesOut, Release,
       Load, VersionConflicts, Mutate, SkipSave
  <2>2. CASE Abort(op) \/ Replace(op) \/ Crash(op)
    BY <2>0, <2>2, SMT DEF OnlyTheDeadLeaveFiles, Abort, Replace, Crash
  <2>3. CASE WriteTemporary(op)
    <3>1. \A o \in Ops \ {op} : pc[o] # "writing"
      BY <2>3 DEF StoreInv, Exclusive, Working, WriteTemporary
    <3> QED
      BY <2>0, <2>3, <3>1, SMT DEF OnlyTheDeadLeaveFiles, WriteTemporary
  <2>4. CASE GoStale(op)
    BY <2>0, <2>4, SMT DEF OnlyTheDeadLeaveFiles, GoStale
  <2> QED
    BY <2>1, <2>2, <2>3, <2>4 DEF Step
<1> QED
  BY <1>1, <1>2, StoreInvHolds, PTL DEF Spec

-----------------------------------------------------------------------------
(* The report of the evaluations                                            *)

\* The report carries the version of the publisher that is at work, and nobody's
\* copy in effect is of a version the file has not reached.
ReportInv ==
    /\ \A op \in Ops : pc[op] \in {"mutated", "writing"} /\ Kind[op] = "publish"
          => report.version = copy[op].version
    /\ \A op \in doc.effects : copy[op].version <= doc.version
    /\ ReportIsNewest

LEMMA ReportStep ==
    ASSUME StoreInv, ReportInv, NEW op \in Ops, Step(op) \/ Crash(op) \/ GoStale(op)
    PROVE  ReportInv'
<1>0. /\ pc \in [Ops -> {"new", "waiting"} \cup Working \cup Ended]
      /\ copy \in [Ops -> Documents] /\ doc \in Documents
      /\ \A o \in doc.effects : o \in Ops /\ pc[o] \in {"replaced", "ok", "lost"}
  BY SMT DEF StoreInv, TypeOK, InEffect, Documents, Atomic!Documents
<1>1. CASE \/ Start(op) \/ Acquire(op) \/ LockTimesOut(op) \/ Release(op) \/ Abort(op)
           \/ VersionConflicts(op) \/ SkipSave(op) \/ WriteTemporary(op)
           \/ Crash(op) \/ GoStale(op)
  <2>1. UNCHANGED <<doc, copy, report>>
    BY <1>1 DEF Start, Acquire, LockTimesOut, Release, Abort, VersionConflicts, SkipSave,
       WriteTemporary, Crash, GoStale
  <2>2. \A o \in Ops : pc'[o] \in {"mutated", "writing"} => pc[o] \in {"mutated", "writing"}
    BY <1>0, <1>1, SMT DEF Start, Acquire, LockTimesOut, Release, Abort, VersionConflicts,
       SkipSave, WriteTemporary, Crash, GoStale
  <2> QED
    BY <2>1, <2>2 DEF ReportInv, ReportIsNewest
<1>2. CASE Load(op)
  <2>1. /\ UNCHANGED <<doc, report>> /\ op \notin doc.effects
        /\ \A o \in Ops \ {op} : copy'[o] = copy[o] /\ pc'[o] = pc[o]
        /\ pc'[op] = "loaded"
    BY <1>0, <1>2, SMT DEF Load
  <2> QED
    BY <1>0, <2>1, SMT DEF ReportInv, ReportIsNewest
<1>3. CASE Mutate(op)
  <2>1. /\ UNCHANGED doc /\ op \notin doc.effects
        /\ \A o \in Ops \ {op} : copy'[o] = copy[o] /\ pc'[o] = pc[o]
        /\ copy'[op] = Mutated(op)
        /\ report' = ReportOf(op)
    BY <1>0, <1>3, SMT DEF Mutate
  <2>2. \A o \in Ops \ {op} : pc[o] \notin {"mutated", "writing"}
    BY <1>3 DEF StoreInv, Exclusive, Working, Mutate
  <2>3. CASE Kind[op] = "publish"
    <3>1. copy[op] = doc /\ snapshot[op] = doc
      BY <1>3, <2>3 DEF Mutate, Expected, StoreInv, CopyCurrent, SnapshotNamed
    <3>2. report'.version = doc.version + 1 /\ copy'[op].version = doc.version + 1
      BY <2>1, <2>3, <3>1 DEF ReportOf, Mutated
    <3>3. \A o \in doc.effects : o # op /\ copy'[o] = copy[o]
                                 /\ copy[o].version \in Nat /\ doc.version \in Nat
      BY <1>0, <2>1, SMT DEF Documents, Atomic!Documents
    <3>4. \A o \in doc'.effects : /\ copy'[o].version <= doc'.version
                                  /\ report'.version >= copy'[o].version
      BY <2>1, <3>2, <3>3, SMT DEF ReportInv
    <3> QED
      BY <2>1, <2>2, <3>2, <3>4 DEF ReportInv, ReportIsNewest
  <2>4. CASE Kind[op] # "publish"
    <3>1. report' = report
      BY <2>1, <2>4 DEF ReportOf
    <3> QED
      BY <1>0, <2>1, <2>2, <2>4, <3>1 DEF ReportInv, ReportIsNewest
  <2> QED
    BY <2>3, <2>4
<1>4. CASE Replace(op)
  <2>1. /\ doc' = copy[op] /\ copy' = copy /\ report' = report
        /\ pc[op] = "writing" /\ pc'[op] = "replaced"
        /\ \A o \in Ops \ {op} : pc'[o] = pc[o]
    BY <1>0, <1>4, SMT DEF Replace
  <2>2. /\ doc'.version = doc.version + 1
        /\ doc'.effects \subseteq doc.effects \cup {op}
    BY <1>4, ReplaceGrows
  <2>3. \A o \in doc.effects \cup {op} : copy[o].version \in Nat /\ doc.version \in Nat
    BY <1>0, SMT DEF Documents, Atomic!Documents
  <2>4. \A o \in doc'.effects : copy'[o].version <= doc'.version
    BY <2>1, <2>2, <2>3, SMT DEF ReportInv
  <2>5. \A o \in doc'.effects : Kind[o] = "publish" => report'.version >= copy'[o].version
    BY <2>1, <2>2, <2>3, SMT DEF ReportInv, ReportIsNewest
  <2>6. \A o \in Ops : pc'[o] \in {"mutated", "writing"} /\ Kind[o] = "publish"
                       => report'.version = copy'[o].version
    BY <2>1 DEF ReportInv
  <2> QED
    BY <2>4, <2>5, <2>6 DEF ReportInv, ReportIsNewest
<1> QED
  BY <1>1, <1>2, <1>3, <1>4 DEF Step

\* expected_version is enough to keep a loser's report off the disk.
THEOREM LosersNeverPublish == Spec => []ReportIsNewest
<1>1. Init => ReportInv
  BY SMT DEF Init, ReportInv, ReportIsNewest, Empty
<1>2. StoreInv /\ ReportInv /\ [Next]_vars => ReportInv'
  <2>1. StoreInv /\ ReportInv /\ Next => ReportInv'
    BY ReportStep DEF Next
  <2>2. ReportInv /\ UNCHANGED vars => ReportInv'
    BY DEF ReportInv, ReportIsNewest, vars
  <2> QED
    BY <2>1, <2>2
<1>3. ReportInv => ReportIsNewest
  BY DEF ReportInv
<1> QED
  BY <1>1, <1>2, <1>3, StoreInvHolds, PTL DEF Spec

-----------------------------------------------------------------------------
(* The winner's report                                                      *)

\* The report is of the publisher at work, until it has told its caller so; and what an
\* evaluation has saved is never ahead of the document, so that the next one's is.
WinnerInv == \A op \in Ops : Kind[op] = "publish" =>
    /\ pc[op] \in {"mutated", "writing", "replaced"} => report.by = op
    /\ pc[op] \in {"replaced", "ok"} => copy[op].version <= doc.version
    /\ pc[op] = "ok" => report.by = op \/ report.version > copy[op].version

LEMMA WinnerStep ==
    ASSUME StoreInv, WinnerInv, NEW op \in Ops, Step(op) \/ Crash(op) \/ GoStale(op)
    PROVE  WinnerInv'
<1>0. /\ pc \in [Ops -> {"new", "waiting"} \cup Working \cup Ended]
      /\ copy \in [Ops -> Documents] /\ doc \in Documents
      /\ \A o \in Ops : copy[o].version \in Nat
      /\ doc.version \in Nat
  BY SMT DEF StoreInv, TypeOK, Documents, Atomic!Documents
<1>1. CASE \/ Start(op) \/ Acquire(op) \/ LockTimesOut(op) \/ Abort(op)
           \/ VersionConflicts(op) \/ WriteTemporary(op) \/ Crash(op) \/ GoStale(op)
  <2>1. UNCHANGED <<doc, copy, report>>
    BY <1>1 DEF Start, Acquire, LockTimesOut, Abort, VersionConflicts, WriteTemporary,
       Crash, GoStale
  <2>2. \A o \in Ops : \/ pc'[o] = pc[o]
                       \/ pc'[o] \notin {"mutated", "writing", "replaced", "ok"}
                       \/ pc[o] = "mutated" /\ pc'[o] = "writing"
    BY <1>0, <1>1, SMT DEF Start, Acquire, LockTimesOut, Abort, VersionConflicts,
       WriteTemporary, Crash, GoStale
  <2> QED
    BY <2>1, <2>2 DEF WinnerInv
<1>2. CASE Release(op) \/ SkipSave(op)
  <2>1. /\ UNCHANGED <<doc, copy, report>>
        /\ \A o \in Ops \ {op} : pc'[o] = pc[o]
        /\ pc'[op] = "ok"
        /\ pc[op] = "replaced" \/ Kind[op] = "migrate"
    BY <1>0, <1>2, SMT DEF Release, SkipSave, Unchanged
  <2> QED
    BY <2>1 DEF WinnerInv
<1>3. CASE Load(op)
  <2>1. /\ UNCHANGED <<doc, report>>
        /\ \A o \in Ops \ {op} : copy'[o] = copy[o] /\ pc'[o] = pc[o]
        /\ pc'[op] = "loaded"
    BY <1>0, <1>3, SMT DEF Load
  <2> QED
    BY <2>1 DEF WinnerInv
<1>4. CASE Mutate(op)
  <2>1. /\ UNCHANGED doc
        /\ \A o \in Ops \ {op} : copy'[o] = copy[o] /\ pc'[o] = pc[o]
        /\ pc'[op] = "mutated"
        /\ report' = ReportOf(op)
    BY <1>0, <1>4, SMT DEF Mutate
  <2>2. \A o \in Ops \ {op} : pc[o] \notin {"mutated", "writing", "replaced"}
    BY <1>4 DEF StoreInv, Exclusive, Working, Mutate
  <2>3. CASE Kind[op] = "publish"
    <3>1. snapshot[op] = doc
      BY <1>4, <2>3 DEF Mutate, Expected, StoreInv, CopyCurrent, SnapshotNamed
    <3>2. report'.by = op /\ report'.version = doc.version + 1
      BY <2>1, <2>3, <3>1 DEF ReportOf
    <3>3. \A o \in Ops \ {op} : Kind[o] = "publish" /\ pc[o] = "ok"
             => report'.version > copy[o].version
      BY <1>0, <3>2, SMT DEF WinnerInv
    <3> QED
      BY <2>1, <2>2, <3>2, <3>3 DEF WinnerInv
  <2>4. CASE Kind[op] # "publish"
    BY <2>1, <2>4 DEF ReportOf, WinnerInv
  <2> QED
    BY <2>3, <2>4
<1>5. CASE Replace(op)
  <2>1. /\ doc' = copy[op] /\ copy' = copy /\ report' = report
        /\ pc[op] = "writing" /\ pc'[op] = "replaced"
        /\ \A o \in Ops \ {op} : pc'[o] = pc[o]
    BY <1>0, <1>5, SMT DEF Replace
  <2>2. doc'.version = doc.version + 1
    BY <1>5, ReplaceGrows
  <2>3. \A o \in Ops \ {op} : copy[o].version <= doc.version => copy'[o].version <= doc'.version
    BY <1>0, <2>1, <2>2, SMT
  <2>4. copy'[op].version <= doc'.version
    BY <1>0, <2>1, SMT
  <2> QED
    BY <2>1, <2>3, <2>4 DEF WinnerInv
<1> QED
  BY <1>1, <1>2, <1>3, <1>4, <1>5 DEF Step

\* Whoever was told that its evaluation is published finds its own report on disk, or that
\* of an evaluation prepared from a later registry (_publish_evaluation).
THEOREM WinnersReportStands == Spec => []PublishedReportStands
<1>1. Init => WinnerInv
  BY DEF Init, WinnerInv
<1>2. StoreInv /\ WinnerInv /\ [Next]_vars => WinnerInv'
  <2>1. StoreInv /\ WinnerInv /\ Next => WinnerInv'
    BY WinnerStep DEF Next
  <2>2. WinnerInv /\ UNCHANGED vars => WinnerInv'
    BY DEF WinnerInv, vars
  <2> QED
    BY <2>1, <2>2
<1>3. WinnerInv => PublishedReportStands
  BY DEF WinnerInv, PublishedReportStands
<1> QED
  BY <1>1, <1>2, <1>3, StoreInvHolds, PTL DEF Spec

-----------------------------------------------------------------------------
(* The refinement                                                           *)

LEMMA ToldOf ==
    /\ \A state \in {"new", "waiting", "locked", "loaded", "mutated", "writing"} :
          Told(state) = "pending"
    /\ Told("replaced") = "applied" /\ Told("lost") = "unknown"
    /\ Told("ok") = "ok" /\ Told("failed") = "failed"
<1>1. /\ Told("new") = "pending" /\ Told("waiting") = "pending"
      /\ Told("locked") = "pending" /\ Told("loaded") = "pending"
      /\ Told("mutated") = "pending" /\ Told("writing") = "pending"
  BY SMT DEF Told
<1>2. /\ Told("replaced") = "applied" /\ Told("lost") = "unknown"
      /\ Told("ok") = "ok" /\ Told("failed") = "failed"
  BY SMT DEF Told
<1> QED
  BY <1>1, <1>2

\* A step of one call changes the outcome of that call alone.
LEMMA OutcomeMoves ==
    ASSUME StoreInv, NEW op \in Ops, NEW s,
           pc' = [pc EXCEPT ![op] = s]
    PROVE  /\ Outcome' = [Outcome EXCEPT ![op] = Told(s)]
           /\ Outcome[op] = Told(s) => Outcome' = Outcome
<1>1. pc \in [Ops -> {"new", "waiting"} \cup Working \cup Ended]
  BY DEF StoreInv, TypeOK
<1> QED
  BY <1>1 DEF Outcome

LEMMA OutcomeStays ==
    ASSUME pc' = pc
    PROVE  Outcome' = Outcome
BY DEF Outcome

\* Where a call stands in the abstract document.
LEMMA OutcomeNow ==
    ASSUME NEW op \in Ops
    PROVE  /\ pc[op] \in {"new", "waiting", "locked", "loaded", "mutated", "writing"}
              => Outcome[op] = "pending"
           /\ pc[op] = "replaced" => Outcome[op] = "applied"
BY ToldOf DEF Outcome

\* Replace is the moment an operation takes effect; whatever else a call does
\* either ends it or does not show.
LEMMA StepRefines ==
    ASSUME StoreInv, NEW op \in Ops, Step(op) \/ Crash(op) \/ GoStale(op)
    PROVE  [Atomic!DocNext]_(Atomic!docVars)
<1>1. CASE Start(op) \/ Acquire(op) \/ Load(op) \/ Mutate(op) \/ WriteTemporary(op)
  <2>1. doc' = doc /\ Outcome[op] = "pending"
    BY <1>1, OutcomeNow DEF Start, Acquire, Load, Mutate, WriteTemporary
  <2>2. PICK s \in {"waiting", "locked", "loaded", "mutated", "writing"} :
           pc' = [pc EXCEPT ![op] = s]
    BY <1>1 DEF Start, Acquire, Load, Mutate, WriteTemporary
  <2>3. Told(s) = "pending"
    BY ToldOf
  <2>4. Outcome' = Outcome
    BY <2>1, <2>2, <2>3, OutcomeMoves
  <2> QED
    BY <2>1, <2>4 DEF Atomic!docVars
<1>2. CASE LockTimesOut(op) \/ Abort(op) \/ VersionConflicts(op)
  <2>1. doc' = doc /\ Outcome[op] = "pending" /\ pc' = [pc EXCEPT ![op] = "failed"]
    BY <1>2, OutcomeNow DEF LockTimesOut, Abort, VersionConflicts
  <2>2. Outcome' = [Outcome EXCEPT ![op] = "failed"]
    <3>1. Outcome' = [Outcome EXCEPT ![op] = Told("failed")]
      BY <2>1, OutcomeMoves
    <3> QED
      BY <3>1, ToldOf
  <2>3. Atomic!Reject(op)
    BY <2>1, <2>2 DEF Atomic!Reject
  <2> QED
    BY <2>3 DEF Atomic!DocNext
<1>3. CASE SkipSave(op)
  <2>1. doc' = doc /\ Outcome[op] = "pending" /\ pc' = [pc EXCEPT ![op] = "ok"]
    BY <1>3, OutcomeNow DEF SkipSave
  <2>2. Outcome' = [Outcome EXCEPT ![op] = "ok"]
    <3>1. Outcome' = [Outcome EXCEPT ![op] = Told("ok")]
      BY <2>1, OutcomeMoves
    <3> QED
      BY <3>1, ToldOf
  <2>3. Atomic!After(op, doc) = doc
    <3>1. copy[op] = Atomic!After(op, doc) /\ Unchanged(op) /\ doc \in Documents
      BY <1>3 DEF SkipSave, StoreInv, CopyCurrent, TypeOK
    <3> QED
      BY <3>1, AfterGrows DEF Unchanged
  <2>4. Atomic!FindDone(op)
    BY <2>1, <2>2, <2>3 DEF Atomic!FindDone
  <2> QED
    BY <2>4 DEF Atomic!DocNext
<1>4. CASE Replace(op)
  <2>1. /\ doc' = Atomic!After(op, doc)
        /\ Outcome[op] = "pending" /\ pc' = [pc EXCEPT ![op] = "replaced"]
    BY <1>4, ReplaceGrows, OutcomeNow DEF Replace
  <2>2. Outcome' = [Outcome EXCEPT ![op] = "applied"]
    <3>1. Outcome' = [Outcome EXCEPT ![op] = Told("replaced")]
      BY <2>1, OutcomeMoves
    <3> QED
      BY <3>1, ToldOf
  <2>3. Atomic!Apply(op)
    BY <2>1, <2>2 DEF Atomic!Apply
  <2> QED
    BY <2>3 DEF Atomic!DocNext
<1>5. CASE Release(op)
  <2>1. doc' = doc /\ Outcome[op] = "applied" /\ pc' = [pc EXCEPT ![op] = "ok"]
    BY <1>5, OutcomeNow DEF Release
  <2>2. Outcome' = [Outcome EXCEPT ![op] = "ok"]
    <3>1. Outcome' = [Outcome EXCEPT ![op] = Told("ok")]
      BY <2>1, OutcomeMoves
    <3> QED
      BY <3>1, ToldOf
  <2>3. Atomic!Acknowledge(op)
    BY <2>1, <2>2 DEF Atomic!Acknowledge
  <2> QED
    BY <2>3 DEF Atomic!DocNext
<1>6. CASE Crash(op)
  <2>1. /\ doc' = doc /\ Outcome[op] \in {"pending", "applied"}
        /\ pc' = [pc EXCEPT ![op] = "lost"]
    BY <1>6, OutcomeNow, SMT DEF Crash, Working
  <2>2. Outcome' = [Outcome EXCEPT ![op] = "unknown"]
    <3>1. Outcome' = [Outcome EXCEPT ![op] = Told("lost")]
      BY <2>1, OutcomeMoves
    <3> QED
      BY <3>1, ToldOf
  <2>3. Atomic!Vanish(op)
    BY <2>1, <2>2 DEF Atomic!Vanish
  <2> QED
    BY <2>3 DEF Atomic!DocNext
<1>7. CASE GoStale(op)
  BY <1>7, OutcomeStays DEF GoStale, Atomic!docVars
<1> QED
  BY <1>1, <1>2, <1>3, <1>4, <1>5, <1>6, <1>7 DEF Step

\* update_json and migrate_json make every operation atomic: the store
\* implements the document that has no locks, files or copies, for any calls.
THEOREM StoreImplementsAtomic == Spec => ImplementsAtomic
<1>1. Init => Atomic!DocInit
  <2> SUFFICES ASSUME Init PROVE Outcome = [op \in Ops |-> "pending"] /\ doc = Empty
    BY DEF Atomic!DocInit, Empty
  <2>1. \A op \in Ops : Told(pc[op]) = "pending"
    BY ToldOf DEF Init
  <2> QED
    BY <2>1 DEF Init, Outcome
<1>2. StoreInv /\ [Next]_vars => [Atomic!DocNext]_(Atomic!docVars)
  <2> SUFFICES ASSUME StoreInv, [Next]_vars
               PROVE  [Atomic!DocNext]_(Atomic!docVars)
    OBVIOUS
  <2>1. CASE UNCHANGED vars
    BY <2>1, OutcomeStays DEF vars, Atomic!docVars
  <2>2. CASE Next
    BY <2>2, StepRefines DEF Next
  <2> QED
    BY <2>1, <2>2
<1> QED
  BY <1>1, <1>2, StoreInvHolds, PTL DEF Spec, ImplementsAtomic, Atomic!DocSpec
=============================================================================
