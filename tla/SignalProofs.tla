----------------------------- MODULE SignalProofs -----------------------------
(* No observation is forgotten before it is archived, what the observer     *)
(* holds in memory fits one batch, active rows stay within their limit, and *)
(* completed ones get their shadow trade: for any number of signals,        *)
(* deliveries, horizons and faults and for any limits.                      *)
EXTENDS SignalPipeline, FiniteSetTheorems, TLAPS

-----------------------------------------------------------------------------
(* The inductive invariant.  Retention drops a row for its marker, so a     *)
(* marker must never be ahead of the record: neither the markers in the     *)
(* document nor those the archive task is about to write.                   *)

\* The rows rs are well formed and have markers for archived rows only.
Sound(rs) == /\ DOMAIN rs \subseteq Ids /\ rs \in [DOMAIN rs -> Row]
             /\ \A id \in DOMAIN rs : rs[id].archived => id \in DOMAIN archive
RecordsFirst == Sound(rows) /\ marks \subseteq DOMAIN archive

\* What a step may do to it.
Remembers == RecordsFirst' /\ Known \ Known' \subseteq DOMAIN archive

-----------------------------------------------------------------------------
(* Retention and expiry *)

LEMMA KeptRows ==
    ASSUME NEW rs, NEW ord
    PROVE  /\ Kept(rs, ord) \subseteq DOMAIN rs
           /\ \A id \in DOMAIN rs \ Kept(rs, ord) : rs[id].archived \/ ~ (~ rs[id].archived)
BY DEF Kept, InCap, Unarchived, History, Youngest

\* A retained row is as it was, and a row that is not has its record.
LEMMA RetainedRows ==
    ASSUME NEW rs, NEW ord, Sound(rs), Retain(rs, ord)
    PROVE  /\ Known' \subseteq Ids /\ rows' \in [Known' -> Row]
           /\ \A id \in Known' : rows'[id].archived => id \in DOMAIN archive
           /\ DOMAIN rs \ Known' \subseteq DOMAIN archive
<1>1. /\ rows' = [id \in Kept(rs, ord) |-> rs[id]] /\ Known' = Kept(rs, ord)
  BY DEF Retain, Known
<1>2. \A id \in DOMAIN rs \ Kept(rs, ord) : rs[id].archived
  <2>1. \A id \in DOMAIN rs : rs[id].archived \in BOOLEAN
    BY DEF Sound, Row
  <2> QED  BY <2>1, KeptRows
<1> QED  BY <1>1, <1>2, KeptRows DEF Sound

LEMMA ExpiredRows ==
    ASSUME NEW rs, NEW ord, Sound(rs)
    PROVE  Sound(Expired(rs, ord)) /\ DOMAIN Expired(rs, ord) = DOMAIN rs
<1> DEFINE late == Active(rs) \ Youngest(ord, Active(rs), MaxActive)
           xs   == Expired(rs, ord)
<1>1. xs = [id \in DOMAIN rs |-> IF id \in late
                                 THEN [rs[id] EXCEPT !.status = "EXPIRED_UNSAMPLED"]
                                 ELSE rs[id]]
  BY DEF Expired
<1>2. ASSUME NEW id \in DOMAIN rs
      PROVE  xs[id] \in Row /\ xs[id].archived = rs[id].archived
  BY <1>1, <1>2 DEF Sound, Row
<1> QED  BY <1>1, <1>2 DEF Sound

LEMMA AddedRow ==
    ASSUME NEW rs, NEW id \in Ids, NEW row \in Row, Sound(rs), row.archived => id \in DOMAIN archive
    PROVE  Sound(With(rs, id, row)) /\ DOMAIN With(rs, id, row) = DOMAIN rs \cup {id}
BY DEF Sound, With

LEMMA ChangedRow ==
    ASSUME NEW rs, NEW id \in DOMAIN rs, NEW row \in Row, Sound(rs),
           row.archived = rs[id].archived
    PROVE  Sound([rs EXCEPT ![id] = row]) /\ DOMAIN [rs EXCEPT ![id] = row] = DOMAIN rs
BY DEF Sound

\* The step common to all operations of the document.
LEMMA RetainRemembers ==
    ASSUME NEW rs, NEW ord, Sound(rs), Known \subseteq DOMAIN rs, Retain(rs, ord),
           marks \subseteq DOMAIN archive, archive' = archive, marks' \subseteq marks
    PROVE  Remembers
<1>1. /\ Known' \subseteq Ids /\ rows' \in [Known' -> Row]
      /\ \A id \in Known' : rows'[id].archived => id \in DOMAIN archive
  BY RetainedRows
<1>2. DOMAIN rs \ Known' \subseteq DOMAIN archive
  BY RetainedRows
<1> QED  BY <1>1, <1>2 DEF Remembers, RecordsFirst, Sound, Known

\* A step that leaves the rows alone and takes no record away.
LEMMA OtherRemembers ==
    ASSUME RecordsFirst, rows' = rows, DOMAIN archive \subseteq DOMAIN archive',
           marks' \subseteq DOMAIN archive'
    PROVE  Remembers
BY DEF Remembers, RecordsFirst, Sound, Known

-----------------------------------------------------------------------------
(* The operations of the signal pipeline and the risk manager *)

LEMMA NewRowType == NewRow \in Row /\ ~ NewRow.archived
BY DEF NewRow, Row, NoAttempts, Paper

LEMMA DiscoverRemembers ==
    ASSUME RecordsFirst, NEW id \in Ids, Discover(id)
    PROVE  Remembers
<1> DEFINE rs == With(rows, id, NewRow)
<1>1. CASE id \in Known
  BY <1>1, OtherRemembers DEF Discover, OnlyDocument, document, archiver, RecordsFirst
<1>2. CASE id \notin Known
  <2>1. Sound(rs) /\ DOMAIN rs = Known \cup {id}
    BY NewRowType, AddedRow DEF RecordsFirst, Known
  <2>2. Sound(Expired(rs, OrderWith(id))) /\ DOMAIN Expired(rs, OrderWith(id)) = DOMAIN rs
    BY <2>1, ExpiredRows
  <2>3. Retain(Expired(rs, OrderWith(id)), OrderWith(id)) /\ archive' = archive /\ marks' = marks
    BY <1>2 DEF Discover, OnlyDocument, archiver
  <2> QED  BY <2>1, <2>2, <2>3, RetainRemembers DEF RecordsFirst
<1> QED  BY <1>1, <1>2

LEMMA FinalizeRemembers ==
    ASSUME RecordsFirst, NEW id, Finalize(id)
    PROVE  Remembers
<1> DEFINE row == [rows[id] EXCEPT !.status = "COMPLETE", !.quote = "UNUSABLE",
                                   !.paper = "NOT_ELIGIBLE"]
           rs  == [rows EXCEPT ![id] = row]
<1>1. CASE id \in Known
  <2>1. row \in Row /\ row.archived = rows[id].archived
    BY <1>1 DEF RecordsFirst, Sound, Row, Paper, Known
  <2>2. Sound(rs) /\ DOMAIN rs = Known
    BY <1>1, <2>1, ChangedRow DEF RecordsFirst, Known
  <2>3. Retain(rs, order) /\ archive' = archive /\ marks' = marks
    BY <1>1 DEF Finalize, OnlyDocument, archiver
  <2> QED  BY <2>2, <2>3, RetainRemembers DEF RecordsFirst
<1>2. CASE id \notin Known
  BY <1>2, OtherRemembers DEF Finalize, OnlyDocument, document, archiver, RecordsFirst
<1> QED  BY <1>1, <1>2

LEMMA MarkPaperRemembers ==
    ASSUME RecordsFirst, NEW id, NEW status \in Paper, MarkPaper(id, status)
    PROVE  Remembers
<1> DEFINE row == [rows[id] EXCEPT !.paper = status]
           rs  == [rows EXCEPT ![id] = row]
<1>1. CASE id \in Known
  <2>1. row \in Row /\ row.archived = rows[id].archived
    BY <1>1 DEF RecordsFirst, Sound, Row, Known
  <2>2. Sound(rs) /\ DOMAIN rs = Known
    BY <1>1, <2>1, ChangedRow DEF RecordsFirst, Known
  <2>3. Retain(rs, order) /\ archive' = archive /\ marks' = marks
    BY <1>1 DEF MarkPaper, OnlyDocument, archiver
  <2> QED  BY <2>2, <2>3, RetainRemembers DEF RecordsFirst
<1>2. CASE id \notin Known
  BY <1>2, OtherRemembers DEF MarkPaper, OnlyDocument, document, archiver, RecordsFirst
<1> QED  BY <1>1, <1>2

\* A restarted observation keeps its marker: its record exists, if not with
\* what it will have observed.
LEMMA DecideRemembers ==
    ASSUME RecordsFirst, NEW id \in Ids, NEW approved \in BOOLEAN, NEW quote \in {"EXECUTABLE", "UNUSABLE"},
           Decide(id, approved, quote)
    PROVE  Remembers
<1> DEFINE row == Decided(id, approved, quote)
           rs  == With(rows, id, row)
<1>1. CASE Created(id)
  <2>1. row \in Row /\ (row.archived => id \in DOMAIN archive)
    <3>1. row.archived = (id \in Known /\ rows[id].archived)
      BY NewRowType DEF Decided, Row
    <3>2. row \in Row
      BY NewRowType DEF Decided, Row, Paper, RecordsFirst, Sound, Known
    <3> QED  BY <3>1, <3>2 DEF RecordsFirst, Sound, Known
  <2>2. Sound(rs) /\ DOMAIN rs = Known \cup {id}
    BY <2>1, AddedRow DEF RecordsFirst, Known
  <2>3. Sound(Expired(rs, OrderWith(id))) /\ DOMAIN Expired(rs, OrderWith(id)) = DOMAIN rs
    BY <2>2, ExpiredRows
  <2>4. Retain(Expired(rs, OrderWith(id)), OrderWith(id)) /\ archive' = archive /\ marks' = marks
    BY <1>1 DEF Decide, OnlyDocument, archiver
  <2> QED  BY <2>2, <2>3, <2>4, RetainRemembers DEF RecordsFirst
<1>2. CASE ~ Created(id)
  BY <1>2, OtherRemembers DEF Decide, OnlyDocument, document, archiver, RecordsFirst
<1> QED  BY <1>1, <1>2

-----------------------------------------------------------------------------
(* The observer *)

\* Steps that write into rows and drop none.
LEMMA RewriteRemembers ==
    ASSUME RecordsFirst, Sound(rows)', Known' = Known, archive' = archive, marks' = marks
    PROVE  Remembers
BY DEF Remembers, RecordsFirst

LEMMA StartObserverRemembers ==
    ASSUME RecordsFirst, NEW stale, StartObserver(stale)
    PROVE  Remembers
<1>1. ASSUME NEW id \in Known
      PROVE  rows'[id] \in Row /\ rows'[id].archived = rows[id].archived
  <2>1. rows[id] \in Row
    BY DEF RecordsFirst, Sound, Known
  <2>2. rows'[id] = rows[id] \/ rows'[id] = [rows[id] EXCEPT !.status = "COMPLETE",
                                !.quote = "UNUSABLE", !.paper = "NOT_ELIGIBLE"]
    BY DEF StartObserver
  <2> QED  BY <2>1, <2>2 DEF Row, Paper
<1>2. Known' = Known /\ rows' \in [Known -> Row]
  BY <1>1 DEF StartObserver, Known
<1>3. archive' = archive /\ marks' = marks
  BY DEF StartObserver
<1>4. Sound(rows)'
  BY <1>1, <1>2, <1>3 DEF RecordsFirst, Sound, Known
<1> QED  BY <1>2, <1>3, <1>4, RewriteRemembers

LEMMA CountedRemembers ==
    ASSUME RecordsFirst, NEW s, rows' = Counted(s), archive' = archive, marks' = marks
    PROVE  Remembers
<1> DEFINE id  == s[1]
           row == [rows[id] EXCEPT !.attempts[s[2]] = @ + 1]
<1>1. CASE Counts(s)
  <2>1. id \in Known /\ rows[id] \in Row
    BY <1>1 DEF Counts, RecordsFirst, Sound, Known
  <2>2. row \in Row /\ row.archived = rows[id].archived
    <3>1. ASSUME NEW f \in [Horizons -> Nat], NEW h
          PROVE  [f EXCEPT ![h] = @ + 1] \in [Horizons -> Nat]
      <4>1. CASE h \in Horizons
        BY <4>1
      <4>2. CASE h \notin Horizons
        <5>1. [f EXCEPT ![h] = @ + 1] = f
          BY <4>2
        <5> QED  BY <5>1
      <4> QED  BY <4>1, <4>2
    <3>2. rows[id].attempts \in [Horizons -> Nat]
      BY <2>1 DEF Row
    <3>3. [rows[id].attempts EXCEPT ![s[2]] = @ + 1] \in [Horizons -> Nat]
      BY <3>1, <3>2
    <3> QED  BY <2>1, <3>3 DEF Row
  <2>3. rows' = [rows EXCEPT ![id] = row]
    BY <1>1 DEF Counted
  <2> HIDE DEF row
  <2>4. Sound([rows EXCEPT ![id] = row]) /\ DOMAIN [rows EXCEPT ![id] = row] = Known
    BY <2>1, <2>2, ChangedRow DEF RecordsFirst, Known
  <2>5. Sound(rows)' /\ Known' = Known
    BY <2>3, <2>4 DEF Sound, Known
  <2> QED  BY <2>5, RewriteRemembers
<1>2. CASE ~ Counts(s)
  BY <1>2, OtherRemembers DEF Counted, RecordsFirst
<1> QED  BY <1>1, <1>2

LEMMA SaveRemembers ==
    ASSUME RecordsFirst, Save
    PROVE  Remembers
<1> DEFINE rs == WithSamples
<1>1. CASE Applied = {}
  BY <1>1, OtherRemembers DEF Save, document, archiver, RecordsFirst
<1>2. CASE Applied # {}
  <2>1. ASSUME NEW id \in Known
        PROVE  rs[id] \in Row /\ rs[id].archived = rows[id].archived
    <3>1. rows[id] \in Row
      BY DEF RecordsFirst, Sound, Known
    <3>2. ASSUME NEW hs \in SUBSET Horizons
          PROVE  Sampled(rows[id], hs) \in Row /\ Sampled(rows[id], hs).archived = rows[id].archived
      BY <3>1, <3>2 DEF Sampled, Row
    <3> QED  BY <3>1, <3>2 DEF WithSamples
  <2>2. Sound(rs) /\ DOMAIN rs = Known
    BY <2>1 DEF WithSamples, RecordsFirst, Sound, Known
  <2>3. Sound(Expired(rs, order)) /\ DOMAIN Expired(rs, order) = Known
    BY <2>2, ExpiredRows
  <2>4. Retain(Expired(rs, order), order) /\ archive' = archive /\ marks' = marks
    BY <1>2 DEF Save, archiver
  <2> QED  BY <2>3, <2>4, RetainRemembers DEF RecordsFirst
<1> QED  BY <1>1, <1>2

-----------------------------------------------------------------------------
(* The archive task *)

LEMMA ArchiveRemembers ==
    ASSUME RecordsFirst, NEW done, Archive(done)
    PROVE  Remembers
<1>1. DOMAIN archive' = DOMAIN archive \cup done /\ marks' = done /\ rows' = rows
  BY DEF Archive, Archived, document
<1> QED  BY <1>1, OtherRemembers

LEMMA PersistMarkersRemembers ==
    ASSUME RecordsFirst, PersistMarkers
    PROVE  Remembers
<1> DEFINE rs == Marked
<1>1. CASE marks = {}
  BY <1>1, OtherRemembers DEF PersistMarkers, EndPass, document, RecordsFirst
<1>2. CASE marks # {}
  <2>1. ASSUME NEW id \in Known
        PROVE  rs[id] \in Row /\ (rs[id].archived => id \in DOMAIN archive)
    BY <2>1 DEF Marked, RecordsFirst, Sound, Row, Known
  <2>2. Sound(rs) /\ DOMAIN rs = Known
    BY <2>1 DEF Marked, RecordsFirst, Sound, Known
  <2>3. Retain(rs, order) /\ archive' = archive /\ marks' = {}
    BY <1>2 DEF PersistMarkers, EndPass
  <2> QED  BY <2>2, <2>3, RetainRemembers DEF RecordsFirst
<1> QED  BY <1>1, <1>2

-----------------------------------------------------------------------------
(* Every step *)

LEMMA SignalRemembers ==
    ASSUME RecordsFirst, NEW d \in Deliveries, SignalStep(d)
    PROVE  Remembers
<1>1. CASE StartSignal(d)
  BY <1>1, PipelineAssumption, DiscoverRemembers DEF StartSignal, Obs
<1>2. CASE Finish(d)
  BY <1>2, FinalizeRemembers DEF Finish
<1>3. CASE Approve(d)
  BY <1>3, PipelineAssumption, DecideRemembers DEF Approve, Obs
<1>4. ASSUME NEW quote \in {"EXECUTABLE", "UNUSABLE"}, Reject(d, quote)
      PROVE  Remembers
  BY <1>4, PipelineAssumption, DecideRemembers DEF Reject, Obs
<1>5. CASE Skip(d) \/ Open(d)
  BY <1>5, MarkPaperRemembers DEF Skip, Open, Paper
<1>6. CASE Buy(d) \/ BuyRefused(d) \/ Credit(d)
  BY <1>6, OtherRemembers
  DEF Buy, BuyRefused, Credit, obsVars, document, archiver, RecordsFirst
<1> QED  BY <1>1, <1>2, <1>3, <1>4, <1>5, <1>6 DEF SignalStep

LEMMA RiskRemembers ==
    ASSUME RecordsFirst, RiskStep
    PROVE  Remembers
<1>1. ASSUME NEW id \in Ids, Sell(id)
      PROVE  Remembers
  BY <1>1, OtherRemembers DEF Sell, obsVars, document, archiver, RecordsFirst
<1>2. ASSUME NEW id \in Ids, Close(id)
      PROVE  Remembers
  BY <1>2, MarkPaperRemembers DEF Close, Paper
<1> QED  BY <1>1, <1>2 DEF RiskStep

LEMMA ObserverRemembers ==
    ASSUME RecordsFirst, ObserverStep
    PROVE  Remembers
<1>1. ASSUME NEW stale, StartObserver(stale)
      PROVE  Remembers
  BY <1>1, StartObserverRemembers
<1>2. ASSUME NEW batch, Scan(batch)
      PROVE  Remembers
  BY <1>2, OtherRemembers DEF Scan, document, archiver, RecordsFirst
<1>3. ASSUME NEW s, Answer(s)
      PROVE  Remembers
  BY <1>3, OtherRemembers DEF Answer, document, archiver, RecordsFirst
<1>4. ASSUME NEW s, AnswerFails(s) \/ Recount(s)
      PROVE  Remembers
  BY <1>4, CountedRemembers DEF AnswerFails, Recount, archiver
<1>5. CASE Save
  BY <1>5, SaveRemembers
<1>6. CASE Emit
  BY <1>6, OtherRemembers DEF Emit, document, archiver, RecordsFirst
<1> QED  BY <1>1, <1>2, <1>3, <1>4, <1>5, <1>6 DEF ObserverStep

LEMMA ArchiverRemembers ==
    ASSUME RecordsFirst, ArchiveStep
    PROVE  Remembers
<1>1. CASE Backfill
  BY <1>1, OtherRemembers DEF Backfill, EndPass, document, RecordsFirst
<1> QED  BY <1>1, PersistMarkersRemembers, ArchiveRemembers DEF ArchiveStep

LEMMA FaultRemembers ==
    ASSUME RecordsFirst, Fault
    PROVE  Remembers
<1>1. ASSUME NEW s, AttemptTimesOut(s)
      PROVE  Remembers
  BY <1>1, OtherRemembers DEF AttemptTimesOut, document, archiver, RecordsFirst
<1>2. ASSUME NEW done, EmitTimesOut(done)
      PROVE  Remembers
  BY <1>2, OtherRemembers DEF EmitTimesOut, document, archiver, RecordsFirst
<1>3. CASE PassFails
  BY <1>3, OtherRemembers DEF PassFails, EndPass, document, RecordsFirst
<1>4. CASE ObserverFails
  BY <1>4, OtherRemembers DEF ObserverFails, document, archiver, RecordsFirst
<1>5. CASE MonitorCrashes
  BY <1>5, OtherRemembers DEF MonitorCrashes, MonitorDies, EndPass, document, RecordsFirst
<1>6. ASSUME NEW d, StepTimesOut(d)
      PROVE  Remembers
  BY <1>6, OtherRemembers DEF StepTimesOut, obsVars, document, archiver, RecordsFirst
<1>7. ASSUME NEW id, CloseTimesOut(id)
      PROVE  Remembers
  BY <1>7, OtherRemembers DEF CloseTimesOut, obsVars, document, archiver, RecordsFirst
<1> QED  BY <1>1, <1>2, <1>3, <1>4, <1>5, <1>6, <1>7 DEF Fault

LEMMA NextRemembers ==
    ASSUME RecordsFirst, [Next]_vars
    PROVE  Remembers
<1>1. CASE UNCHANGED vars
  BY <1>1, OtherRemembers DEF vars, obsVars, document, archiver, RecordsFirst
<1> QED  BY <1>1, SignalRemembers, RiskRemembers, ObserverRemembers, ArchiverRemembers,
            FaultRemembers DEF Next, Background

LEMMA InitRecordsFirst == Init => RecordsFirst
BY DEF Init, RecordsFirst, Sound

\* A marker is never ahead of the record it stands for, so that retention,
\* which goes by the markers, loses nothing.
THEOREM RecordsFirstInvariant == Spec => []RecordsFirst
<1>1. RecordsFirst /\ [Next]_vars => RecordsFirst'
  BY NextRemembers DEF Remembers
<1> QED  BY InitRecordsFirst, <1>1, PTL DEF Spec

\* README.md, collection stability: a row that leaves the operational ledger
\* is in the archive.
THEOREM ForgottenArchived == Spec => ForgottenRowsArchived
<1>1. RecordsFirst /\ [Next]_vars => [Known \ Known' \subseteq DOMAIN archive]_vars
  BY NextRemembers DEF Remembers
<1> QED  BY RecordsFirstInvariant, <1>1, PTL DEF Spec, ForgottenRowsArchived

-----------------------------------------------------------------------------
(* What the observer holds in memory *)

InMemory == Cardinality(asked) + Cardinality(unsaved) + Cardinality(uncounted)
FiniteMemory == IsFiniteSet(asked) /\ IsFiniteSet(unsaved) /\ IsFiniteSet(uncounted)
Fits == FiniteMemory /\ InMemory <= BatchSize

\* An answer goes from one of the three sets to at most one of the others.
LEMMA Moved ==
    ASSUME NEW A, NEW B, NEW s \in A, IsFiniteSet(A), IsFiniteSet(B)
    PROVE  /\ IsFiniteSet(A \ {s}) /\ Cardinality(A \ {s}) = Cardinality(A) - 1
           /\ IsFiniteSet(B \cup {s}) /\ Cardinality(B \cup {s}) <= Cardinality(B) + 1
           /\ Cardinality(A) \in Nat /\ Cardinality(B) \in Nat
           /\ Cardinality(A \ {s}) \in Nat /\ Cardinality(B \cup {s}) \in Nat
<1>1. IsFiniteSet(A \ {s}) /\ Cardinality(A \ {s}) = Cardinality(A) - 1
  BY FS_RemoveElement
<1>2. /\ IsFiniteSet(B \cup {s})
      /\ Cardinality(B \cup {s}) = Cardinality(B) \/ Cardinality(B \cup {s}) = Cardinality(B) + 1
  BY FS_AddElement
<1>3. Cardinality(A) \in Nat /\ Cardinality(B) \in Nat
  BY FS_CardinalityType
<1>4. Cardinality(A \ {s}) \in Nat /\ Cardinality(B \cup {s}) \in Nat
  BY <1>1, <1>2, FS_CardinalityType
<1> QED  BY <1>1, <1>2, <1>3, <1>4

LEMMA DueFinite == RecordsFirst => IsFiniteSet(Due)
<1> SUFFICES ASSUME RecordsFirst PROVE IsFiniteSet(Due)
  OBVIOUS
<1>1. IsFiniteSet(Known) /\ IsFiniteSet(Horizons)
  BY ObservationAssumption, FS_Subset DEF RecordsFirst, Sound, Known
<1>2. IsFiniteSet(Known \X Horizons)
  BY <1>1, FS_Product
<1> QED  BY <1>2, FS_Subset DEF Due

LEMMA ScanFits ==
    ASSUME RecordsFirst, NEW batch, Scan(batch)
    PROVE  Fits'
<1>1. IsFiniteSet(batch) /\ Cardinality(batch) \in Nat /\ Cardinality(batch) <= BatchSize
  BY DueFinite, FS_Subset, FS_CardinalityType DEF Scan
<1>2. asked' = batch /\ unsaved' = {} /\ uncounted' = {}
  BY DEF Scan
<1>3. IsFiniteSet({}) /\ Cardinality({}) = 0
  BY FS_EmptySet
<1>4. FiniteMemory'
  BY <1>1, <1>2, <1>3 DEF FiniteMemory
<1>5. InMemory' = Cardinality(batch) + 0 + 0
  BY <1>2, <1>3 DEF InMemory
<1> QED  BY <1>1, <1>4, <1>5 DEF Fits

\* The three ways an answer moves, and the end of a batch.
LEMMA MoveFits ==
    ASSUME Fits,
           \/ /\ asked' = asked /\ unsaved' = unsaved /\ uncounted' = uncounted
           \/ \E s \in asked : /\ asked' = asked \ {s} /\ uncounted' = uncounted
                               /\ unsaved' = unsaved \/ unsaved' = unsaved \cup {s}
           \/ \E s \in asked : /\ asked' = asked \ {s} /\ unsaved' = unsaved
                               /\ uncounted' = uncounted \cup {s}
           \/ \E s \in uncounted : /\ uncounted' = uncounted \ {s} /\ asked' = asked
                                   /\ unsaved' = unsaved \/ unsaved' = unsaved \cup {s}
           \/ /\ unsaved' = {} /\ asked' = asked /\ uncounted' = uncounted
           \/ /\ unsaved' = {} /\ asked' = {} /\ uncounted' = {}
    PROVE  Fits'
<1> DEFINE a == Cardinality(asked)  u == Cardinality(unsaved)  c == Cardinality(uncounted)
<1>0. /\ a \in Nat /\ u \in Nat /\ c \in Nat /\ a + u + c <= BatchSize /\ BatchSize \in Nat
      /\ IsFiniteSet(asked) /\ IsFiniteSet(unsaved) /\ IsFiniteSet(uncounted)
      /\ IsFiniteSet({}) /\ Cardinality({}) = 0
  BY FS_CardinalityType, FS_EmptySet, ObservationAssumption DEF Fits, InMemory, FiniteMemory
<1> SUFFICES /\ IsFiniteSet(asked') /\ IsFiniteSet(unsaved') /\ IsFiniteSet(uncounted')
             /\ Cardinality(asked') + Cardinality(unsaved') + Cardinality(uncounted') <= BatchSize
  BY DEF Fits, InMemory, FiniteMemory
<1>1. CASE asked' = asked /\ unsaved' = unsaved /\ uncounted' = uncounted
  BY <1>0, <1>1
<1>2. ASSUME NEW s \in asked, asked' = asked \ {s}, uncounted' = uncounted,
             unsaved' = unsaved \/ unsaved' = unsaved \cup {s}
      PROVE  /\ IsFiniteSet(asked') /\ IsFiniteSet(unsaved') /\ IsFiniteSet(uncounted')
             /\ Cardinality(asked') + Cardinality(unsaved') + Cardinality(uncounted') <= BatchSize
  <2>1. /\ IsFiniteSet(asked \ {s}) /\ Cardinality(asked \ {s}) = a - 1
        /\ IsFiniteSet(unsaved \cup {s}) /\ Cardinality(unsaved \cup {s}) \in Nat
        /\ Cardinality(unsaved \cup {s}) <= u + 1
    BY <1>0, Moved
  <2>2. Cardinality(asked') = a - 1 /\ Cardinality(uncounted') = c
    BY <1>2, <2>1
  <2>3. Cardinality(unsaved') \in Nat /\ Cardinality(unsaved') <= u + 1
    <3>1. u <= u + 1
      BY <1>0
    <3> QED  BY <1>0, <1>2, <2>1, <3>1
  <2>4. Cardinality(asked') + Cardinality(unsaved') + Cardinality(uncounted') <= BatchSize
    BY <1>0, <2>2, <2>3
  <2> QED  BY <1>0, <1>2, <2>1, <2>4
<1>3. ASSUME NEW s \in asked, asked' = asked \ {s}, unsaved' = unsaved,
             uncounted' = uncounted \cup {s}
      PROVE  /\ IsFiniteSet(asked') /\ IsFiniteSet(unsaved') /\ IsFiniteSet(uncounted')
             /\ Cardinality(asked') + Cardinality(unsaved') + Cardinality(uncounted') <= BatchSize
  <2>1. /\ IsFiniteSet(asked \ {s}) /\ Cardinality(asked \ {s}) = a - 1
        /\ IsFiniteSet(uncounted \cup {s}) /\ Cardinality(uncounted \cup {s}) \in Nat
        /\ Cardinality(uncounted \cup {s}) <= c + 1
    BY <1>0, Moved
  <2>2. Cardinality(asked') = a - 1 /\ Cardinality(unsaved') = u
    BY <1>3, <2>1
  <2>3. Cardinality(uncounted') \in Nat /\ Cardinality(uncounted') <= c + 1
    BY <1>3, <2>1
  <2>4. Cardinality(asked') + Cardinality(unsaved') + Cardinality(uncounted') <= BatchSize
    BY <1>0, <2>2, <2>3
  <2> QED  BY <1>0, <1>3, <2>1, <2>4
<1>4. ASSUME NEW s \in uncounted, uncounted' = uncounted \ {s}, asked' = asked,
             unsaved' = unsaved \/ unsaved' = unsaved \cup {s}
      PROVE  /\ IsFiniteSet(asked') /\ IsFiniteSet(unsaved') /\ IsFiniteSet(uncounted')
             /\ Cardinality(asked') + Cardinality(unsaved') + Cardinality(uncounted') <= BatchSize
  <2>1. /\ IsFiniteSet(uncounted \ {s}) /\ Cardinality(uncounted \ {s}) = c - 1
        /\ IsFiniteSet(unsaved \cup {s}) /\ Cardinality(unsaved \cup {s}) \in Nat
        /\ Cardinality(unsaved \cup {s}) <= u + 1
    BY <1>0, Moved
  <2>2. Cardinality(uncounted') = c - 1 /\ Cardinality(asked') = a
    BY <1>4, <2>1
  <2>3. Cardinality(unsaved') \in Nat /\ Cardinality(unsaved') <= u + 1
    <3>1. u <= u + 1
      BY <1>0
    <3> QED  BY <1>0, <1>4, <2>1, <3>1
  <2>4. Cardinality(asked') + Cardinality(unsaved') + Cardinality(uncounted') <= BatchSize
    BY <1>0, <2>2, <2>3
  <2> QED  BY <1>0, <1>4, <2>1, <2>4
<1>5. CASE unsaved' = {} /\ asked' = asked /\ uncounted' = uncounted
  BY <1>0, <1>5
<1>6. CASE unsaved' = {} /\ asked' = {} /\ uncounted' = {}
  BY <1>0, <1>6
<1> QED  BY <1>1, <1>2, <1>3, <1>4, <1>5, <1>6

LEMMA NextFits ==
    ASSUME RecordsFirst, Fits, [Next]_vars
    PROVE  Fits'
<1> DEFINE Same == asked' = asked /\ unsaved' = unsaved /\ uncounted' = uncounted
<1>1. ASSUME NEW d \in Deliveries, SignalStep(d)
      PROVE  Same
  <2>1. ASSUME OnlyDocument
        PROVE  Same
    BY <2>1 DEF OnlyDocument, observer
  <2>2. CASE StartSignal(d) \/ Finish(d) \/ Approve(d) \/ Skip(d) \/ Open(d)
    BY <2>1, <2>2 DEF StartSignal, Finish, Approve, Skip, Open, Discover, Finalize, Decide, MarkPaper
  <2>3. ASSUME NEW quote, Reject(d, quote)
        PROVE  Same
    BY <2>1, <2>3 DEF Reject, Decide
  <2>4. CASE Buy(d) \/ BuyRefused(d) \/ Credit(d)
    BY <2>4 DEF Buy, BuyRefused, Credit, obsVars, observer
  <2> QED  BY <1>1, <2>2, <2>3, <2>4 DEF SignalStep
<1>2. CASE RiskStep
  <2>1. Same
    BY <1>2 DEF RiskStep, Sell, Close, MarkPaper, OnlyDocument, obsVars, observer
  <2> QED  BY <2>1, MoveFits
<1>3. CASE ArchiveStep
  <2>1. Same
    BY <1>3 DEF ArchiveStep, Archive, PersistMarkers, Backfill, observer
  <2> QED  BY <2>1, MoveFits
<1>4. CASE ObserverStep
  <2>1. ASSUME NEW stale, StartObserver(stale)
        PROVE  Fits'
    BY <2>1, MoveFits DEF StartObserver
  <2>2. ASSUME NEW batch, Scan(batch)
        PROVE  Fits'
    BY <2>2, ScanFits
  <2>3. ASSUME NEW s \in asked, Answer(s) \/ AnswerFails(s)
        PROVE  Fits'
    BY <2>3, MoveFits DEF Answer, AnswerFails, Answered
  <2>4. ASSUME NEW s \in uncounted, Recount(s)
        PROVE  Fits'
    BY <2>4, MoveFits DEF Recount
  <2>5. CASE Save \/ Emit
    BY <2>5, MoveFits DEF Save, Emit
  <2> QED  BY <1>4, <2>1, <2>2, <2>3, <2>4, <2>5 DEF ObserverStep
<1>5. CASE Fault
  <2>1. ASSUME NEW s \in asked, AttemptTimesOut(s)
        PROVE  Fits'
    BY <2>1, MoveFits DEF AttemptTimesOut, Answered
  <2>2. ASSUME NEW done, EmitTimesOut(done)
        PROVE  Fits'
    BY <2>2, MoveFits DEF EmitTimesOut
  <2>3. CASE PassFails
    BY <2>3, MoveFits DEF PassFails, observer
  <2>4. CASE ObserverFails \/ MonitorCrashes
    BY <2>4, MoveFits DEF ObserverFails, MonitorCrashes, MonitorDies, ObserverForgets
  <2>5. ASSUME NEW d, StepTimesOut(d)
        PROVE  Fits'
    BY <2>5, MoveFits DEF StepTimesOut, obsVars, observer
  <2>6. ASSUME NEW id, CloseTimesOut(id)
        PROVE  Fits'
    BY <2>6, MoveFits DEF CloseTimesOut, obsVars, observer
  <2> QED  BY <1>5, <2>1, <2>2, <2>3, <2>4, <2>5, <2>6 DEF Fault
<1>6. CASE UNCHANGED vars
  BY <1>6, MoveFits DEF vars, obsVars, observer
<1> QED  BY <1>1, <1>2, <1>3, <1>4, <1>5, <1>6, MoveFits DEF Next, Background

LEMMA InitFits == Init => Fits
<1>1. IsFiniteSet({}) /\ Cardinality({}) = 0
  BY FS_EmptySet
<1> QED  BY <1>1, ObservationAssumption DEF Init, Fits, FiniteMemory, InMemory

\* The batch that is written late never exceeds OBSERVATION_SAMPLE_BATCH_SIZE,
\* beyond which record_sample_batch would refuse it for ever.
THEOREM MemoryFitsBatch == Spec => []PendingFitsBatch
<1>1. RecordsFirst /\ Fits /\ [Next]_vars => Fits'
  BY NextFits
<1>2. Fits => PendingFitsBatch
  BY DEF Fits, InMemory, PendingFitsBatch
<1> QED  BY InitFits, RecordsFirstInvariant, <1>1, <1>2, PTL DEF Spec

-----------------------------------------------------------------------------
(* The order of the list.  A row is appended once and dropped from where it *)
(* is, so that the ledger always knows which of two rows is the older.      *)

Ordered == Orders(order, Known)

LEMMA RetainedOrder ==
    ASSUME NEW rs, NEW ord, Orders(ord, DOMAIN rs), Retain(rs, ord)
    PROVE  Ordered'
<1> DEFINE K == Kept(rs, ord)
<1>1. K \subseteq DOMAIN rs
  BY KeptRows
<1>2. Known' = K /\ order' = ord \cap (K \X K)
  BY DEF Retain, Known
<1>3. ASSUME NEW a \in K, NEW b \in K
      PROVE  <<a, b>> \in ord \cap (K \X K) <=> <<a, b>> \in ord
  BY <1>3
<1> HIDE DEF K
<1> QED  BY <1>1, <1>2, <1>3 DEF Orders, Ordered

LEMMA AddedOrder ==
    ASSUME NEW id, Ordered
    PROVE  Orders(OrderWith(id), Known \cup {id})
<1>1. CASE id \in Known
  <2>1. OrderWith(id) = order /\ Known \cup {id} = Known
    BY <1>1 DEF OrderWith
  <2> QED  BY <2>1 DEF Ordered
<1>2. CASE id \notin Known
  <2>1. OrderWith(id) = order \cup (Known \X {id})
    BY <1>2 DEF OrderWith
  <2>2. ASSUME NEW a, NEW b
        PROVE  <<a, b>> \in OrderWith(id) <=> <<a, b>> \in order \/ (a \in Known /\ b = id)
    BY <2>1
  <2>3. ASSUME NEW a, NEW b, <<a, b>> \in order
        PROVE  a \in Known /\ b \in Known
    BY <2>3 DEF Ordered, Orders
  <2>4. OrderWith(id) \subseteq (Known \cup {id}) \X (Known \cup {id})
    BY <2>1 DEF Ordered, Orders
  <2>5. ASSUME NEW a \in Known \cup {id}, NEW b \in Known \cup {id}
        PROVE  <<a, b>> \in OrderWith(id) <=> a # b /\ <<b, a>> \notin OrderWith(id)
    BY <1>2, <2>2, <2>3 DEF Ordered, Orders
  <2>6. ASSUME NEW a \in Known \cup {id}, NEW b \in Known \cup {id}, NEW c \in Known \cup {id},
               <<a, b>> \in OrderWith(id), <<b, c>> \in OrderWith(id)
        PROVE  <<a, c>> \in OrderWith(id)
    <3>1. <<a, b>> \in order
      BY <1>2, <2>2, <2>3, <2>6
    <3>2. CASE c = id
      BY <2>2, <2>3, <3>1, <3>2
    <3>3. CASE c # id
      BY <2>2, <2>3, <2>6, <3>1, <3>3 DEF Ordered, Orders
    <3> QED  BY <3>2, <3>3
  <2> QED  BY <2>4, <2>5, <2>6 DEF Orders
<1> QED  BY <1>1, <1>2

\* Of a set of rows at most n are among its n youngest, as no two of them have the same
\* number of younger ones.
LEMMA YoungestAreFew ==
    ASSUME NEW D, NEW ord, Orders(ord, D), NEW S \in SUBSET D, IsFiniteSet(S), NEW n \in Nat
    PROVE  IsFiniteSet(Youngest(ord, S, n)) /\ Cardinality(Youngest(ord, S, n)) <= n
<1> DEFINE Younger(a) == {b \in S : <<a, b>> \in ord}
           Y == Youngest(ord, S, n)
           f == [a \in Y |-> Cardinality(Younger(a))]
<1>1. ASSUME NEW a \in Y
      PROVE  a \in S /\ Cardinality(Younger(a)) \in 0 .. (n - 1)
  <2>1. a \in S /\ Cardinality(Younger(a)) < n
    BY DEF Youngest
  <2>2. Cardinality(Younger(a)) \in Nat
    BY FS_Subset, FS_CardinalityType
  <2> QED  BY <2>1, <2>2
<1>2. f \in [Y -> 0 .. (n - 1)]
  BY <1>1
<1>3. ASSUME NEW a \in S, NEW b \in S, <<a, b>> \in ord
      PROVE  Cardinality(Younger(a)) # Cardinality(Younger(b))
  <2>1. IsFiniteSet(Younger(a))
    BY FS_Subset
  <2>2. Younger(b) \subseteq Younger(a)
    <3>1. ASSUME NEW c \in S, <<b, c>> \in ord
          PROVE  <<a, c>> \in ord
      BY <1>3, <3>1 DEF Orders
    <3> QED  BY <3>1
  <2>3. b \in Younger(a) /\ b \notin Younger(b)
    BY <1>3 DEF Orders
  <2>4. Younger(a) # Younger(b)
    BY <2>3
  <2> HIDE DEF Younger
  <2> QED  BY <2>1, <2>2, <2>4, FS_Subset
<1>4. ASSUME NEW a \in Y, NEW b \in Y, f[a] = f[b]
      PROVE  a = b
  <2>1. a \in S /\ b \in S /\ Cardinality(Younger(a)) = Cardinality(Younger(b))
    BY <1>1, <1>4
  <2>2. <<a, b>> \notin ord /\ <<b, a>> \notin ord
    BY <1>3, <2>1
  <2> QED  BY <2>1, <2>2 DEF Orders
<1> HIDE DEF f, Y, Younger
<1>5. f \in Injection(Y, 0 .. (n - 1))
  BY <1>2, <1>4 DEF Injection, IsInjective
<1>6. IsFiniteSet(0 .. (n - 1)) /\ Cardinality(0 .. (n - 1)) = n
  BY FS_Interval
<1>7. IsFiniteSet(Y) /\ Cardinality(Y) <= n
  BY <1>5, <1>6, FS_Injection
<1> QED  BY <1>7 DEF Y

-----------------------------------------------------------------------------
(* What a step does to a row that is already there.  Only a decision starts *)
(* it again, only the observer completes it, and only a mark of the paper   *)
(* experiment moves it out of an open trade.  A step that does no decision  *)
(* and no mark is calm, and it is tame if it completes no row either.       *)

Calm(row, next) ==
    /\ Expirable(next) => Expirable(row) /\ next.paper = row.paper
    /\ next.paper \in {"OPENED", "CLOSED"} => next.paper = row.paper
Tame(row, next) == Calm(row, next) /\ (Tradable(next) => Tradable(row))
CalmRows == \A id \in Known' : id \in Known /\ Calm(rows[id], rows'[id])
TameRows == \A id \in Known' : id \in Known /\ Tame(rows[id], rows'[id])
Tidy == Ordered' /\ TameRows

LEMMA SameIsTidy ==
    ASSUME Ordered, rows' = rows, order' = order
    PROVE  Tidy
BY DEF Tidy, TameRows, Tame, Calm, Ordered, Known

LEMMA RewriteIsTidy ==
    ASSUME Ordered, Known' = Known, order' = order, \A id \in Known : Tame(rows[id], rows'[id])
    PROVE  Tidy
BY DEF Tidy, TameRows, Ordered

LEMMA RetainedIsTidy ==
    ASSUME Ordered, NEW rs, DOMAIN rs = Known, Retain(rs, order),
           \A id \in Known : Tame(rows[id], rs[id])
    PROVE  Tidy
<1>1. Ordered'
  BY RetainedOrder DEF Ordered
<1>2. Known' = Kept(rs, order) /\ Known' \subseteq Known /\ \A id \in Known' : rows'[id] = rs[id]
  BY KeptRows DEF Retain, Known
<1> QED  BY <1>1, <1>2 DEF Tidy, TameRows

\* A row that is ended without an executable price can become nothing.
LEMMA EndedIsTame ==
    ASSUME NEW row \in Row
    PROVE  Tame(row, [row EXCEPT !.status = "COMPLETE", !.quote = "UNUSABLE",
                                 !.paper = "NOT_ELIGIBLE"])
BY DEF Tame, Calm, Row, Expirable, Terminal, Tradable

LEMMA KnownRow == RecordsFirst => \A id \in Known : id \in Ids /\ rows[id] \in Row
BY DEF RecordsFirst, Sound, Known

LEMMA FinalizeIsTidy ==
    ASSUME RecordsFirst, Ordered, NEW id, Finalize(id)
    PROVE  Tidy
<1>1. CASE id \notin Known
  BY <1>1, SameIsTidy DEF Finalize, document
<1>2. CASE id \in Known
  <2> DEFINE row == [rows[id] EXCEPT !.status = "COMPLETE", !.quote = "UNUSABLE",
                                     !.paper = "NOT_ELIGIBLE"]
             rs  == [rows EXCEPT ![id] = row]
  <2>1. Retain(rs, order)
    BY <1>2 DEF Finalize
  <2>2. Tame(rows[id], row)
    BY <1>2, KnownRow, EndedIsTame
  <2> HIDE DEF row
  <2>3. \A i \in Known : Tame(rows[i], rs[i])
    BY <2>2 DEF Tame, Calm, Known
  <2> QED  BY <2>1, <2>3, RetainedIsTidy DEF Known
<1> QED  BY <1>1, <1>2

LEMMA StartObserverIsTidy ==
    ASSUME RecordsFirst, Ordered, NEW stale, StartObserver(stale)
    PROVE  Tidy
<1>1. ASSUME NEW id \in Known
      PROVE  Tame(rows[id], rows'[id])
  <2>1. \/ rows'[id] = rows[id]
        \/ rows'[id] = [rows[id] EXCEPT !.status = "COMPLETE", !.quote = "UNUSABLE",
                                        !.paper = "NOT_ELIGIBLE"]
    BY DEF StartObserver
  <2>2. Tame(rows[id], rows[id])
    BY DEF Tame, Calm
  <2> QED  BY <2>1, <2>2, KnownRow, EndedIsTame
<1>2. Known' = Known /\ order' = order
  BY DEF StartObserver, Known
<1> QED  BY <1>1, <1>2, RewriteIsTidy

LEMMA CountedIsTidy ==
    ASSUME RecordsFirst, Ordered, NEW s, rows' = Counted(s), order' = order
    PROVE  Tidy
<1>1. Known' = Known
  BY DEF Counted, Known
<1>2. ASSUME NEW id \in Known
      PROVE  Tame(rows[id], rows'[id])
  <2>1. rows[id] \in Row
    BY KnownRow
  <2>2. \/ rows'[id] = rows[id]
        \/ rows'[id] = [rows[id] EXCEPT !.attempts[s[2]] = @ + 1]
    BY DEF Counted, Known
  <2>3. /\ rows'[id].status = rows[id].status /\ rows'[id].paper = rows[id].paper
        /\ rows'[id].quote = rows[id].quote /\ rows'[id].samples = rows[id].samples
    BY <2>1, <2>2 DEF Row
  <2> QED  BY <2>3 DEF Tame, Calm, Expirable, Terminal, Tradable
<1> QED  BY <1>1, <1>2, RewriteIsTidy

LEMMA PersistMarkersIsTidy ==
    ASSUME RecordsFirst, Ordered, PersistMarkers
    PROVE  Tidy
<1>1. CASE marks = {}
  BY <1>1, SameIsTidy DEF PersistMarkers, document
<1>2. CASE marks # {}
  <2>1. Retain(Marked, order) /\ DOMAIN Marked = Known
    BY <1>2 DEF PersistMarkers, Marked
  <2>2. ASSUME NEW id \in Known
        PROVE  Tame(rows[id], Marked[id])
    <3>1. Marked[id] = [rows[id] EXCEPT !.archived = @ \/ id \in marks] /\ rows[id] \in Row
      BY KnownRow DEF Marked
    <3>2. /\ Marked[id].status = rows[id].status /\ Marked[id].paper = rows[id].paper
          /\ Marked[id].quote = rows[id].quote /\ Marked[id].samples = rows[id].samples
      BY <3>1 DEF Row
    <3> QED  BY <3>2 DEF Tame, Calm, Expirable, Terminal, Tradable
  <2> QED  BY <2>1, <2>2, RetainedIsTidy
<1> QED  BY <1>1, <1>2

-----------------------------------------------------------------------------
(* Decisions: a row is added or started again, and the oldest active rows   *)
(* expire so that MaxActive are left.                                       *)

Started(id) == rows'[id].paper \notin {"OPENED", "CLOSED"} /\ ~ Tradable(rows'[id])
Starts ==
    /\ Ordered'
    /\ IsFiniteSet(Active(rows)') /\ Cardinality(Active(rows)') <= MaxActive
    /\ \A id \in Known' : Started(id) \/ (id \in Known /\ Tame(rows[id], rows'[id]))

LEMMA ExpiredAreFew ==
    ASSUME NEW rs, NEW ord, Sound(rs), Orders(ord, DOMAIN rs)
    PROVE  /\ IsFiniteSet(Active(Expired(rs, ord)))
           /\ Cardinality(Active(Expired(rs, ord))) <= MaxActive
<1> DEFINE late == Active(rs) \ Youngest(ord, Active(rs), MaxActive)
           xs   == Expired(rs, ord)
           Y    == Youngest(ord, Active(rs), MaxActive)
<1>1. xs = [id \in DOMAIN rs |-> IF id \in late
                                 THEN [rs[id] EXCEPT !.status = "EXPIRED_UNSAMPLED"]
                                 ELSE rs[id]]
  BY DEF Expired
<1>2. ASSUME NEW id \in Active(xs)
      PROVE  id \in Y
  <2>1. id \in DOMAIN rs /\ Expirable(xs[id]) /\ rs[id] \in Row
    BY <1>1 DEF Active, Sound
  <2>2. CASE id \in late
    <3>1. xs[id] = [rs[id] EXCEPT !.status = "EXPIRED_UNSAMPLED"]
      BY <1>1, <2>1, <2>2
    <3>2. xs[id].status = "EXPIRED_UNSAMPLED"
      BY <2>1, <3>1 DEF Row
    <3> QED  BY <2>1, <3>2 DEF Expirable, Terminal
  <2>3. CASE id \notin late
    <3>1. xs[id] = rs[id]
      BY <1>1, <2>1, <2>3
    <3>2. id \in Active(rs)
      BY <2>1, <3>1 DEF Active
    <3> QED  BY <2>3, <3>2
  <2> QED  BY <2>2, <2>3
<1>3. Active(rs) \subseteq DOMAIN rs /\ IsFiniteSet(Active(rs))
  BY ObservationAssumption, FS_Subset DEF Active, Sound
<1>4. IsFiniteSet(Y) /\ Cardinality(Y) <= MaxActive
  BY <1>3, YoungestAreFew, ObservationAssumption
<1> HIDE DEF Y, xs
<1>5. IsFiniteSet(Active(xs)) /\ Cardinality(Active(xs)) <= Cardinality(Y)
  BY <1>2, <1>4, FS_Subset
<1>6. Cardinality(Active(xs)) \in Nat /\ Cardinality(Y) \in Nat /\ MaxActive \in Nat
  BY <1>4, <1>5, FS_CardinalityType, ObservationAssumption
<1>7. IsFiniteSet(Active(xs)) /\ Cardinality(Active(xs)) <= MaxActive
  BY <1>4, <1>5, <1>6
<1> QED  BY <1>7 DEF xs

LEMMA RetainedActive ==
    ASSUME NEW rs, NEW ord, IsFiniteSet(Active(rs)), Cardinality(Active(rs)) <= MaxActive,
           Retain(rs, ord)
    PROVE  IsFiniteSet(Active(rows)') /\ Cardinality(Active(rows)') <= MaxActive
<1>1. Active(rows)' \subseteq Active(rs)
  BY KeptRows DEF Retain, Active
<1>2. /\ IsFiniteSet(Active(rows)') /\ Cardinality(Active(rows)') <= Cardinality(Active(rs))
      /\ Cardinality(Active(rows)') \in Nat /\ Cardinality(Active(rs)) \in Nat
  BY <1>1, FS_Subset, FS_CardinalityType
<1> QED  BY <1>2, ObservationAssumption

\* Expiry is tame: an expired row is nothing any more.
LEMMA ExpiredIsTame ==
    ASSUME NEW rs, NEW ord, Sound(rs), NEW id \in DOMAIN rs
    PROVE  /\ Tame(rs[id], Expired(rs, ord)[id])
           /\ Expired(rs, ord)[id].paper = rs[id].paper
           /\ Tradable(Expired(rs, ord)[id]) => Expired(rs, ord)[id] = rs[id]
<1>1. rs[id] \in Row
  BY DEF Sound
<1>2. \/ Expired(rs, ord)[id] = rs[id]
      \/ Expired(rs, ord)[id] = [rs[id] EXCEPT !.status = "EXPIRED_UNSAMPLED"]
  BY DEF Expired
<1>3. [rs[id] EXCEPT !.status = "EXPIRED_UNSAMPLED"].status = "EXPIRED_UNSAMPLED"
      /\ [rs[id] EXCEPT !.status = "EXPIRED_UNSAMPLED"].paper = rs[id].paper
  BY <1>1 DEF Row
<1> QED  BY <1>2, <1>3 DEF Tame, Calm, Expirable, Terminal, Tradable

LEMMA RowStarts ==
    ASSUME RecordsFirst, Ordered, NEW id \in Ids, NEW row \in Row,
           row.archived => id \in DOMAIN archive,
           row.paper \notin {"OPENED", "CLOSED"}, ~ Tradable(row),
           Retain(Expired(With(rows, id, row), OrderWith(id)), OrderWith(id))
    PROVE  Starts
<1> DEFINE rs == With(rows, id, row)
           xs == Expired(rs, OrderWith(id))
<1>1. Sound(rs) /\ DOMAIN rs = Known \cup {id}
  BY AddedRow DEF RecordsFirst, Known
<1>2. Orders(OrderWith(id), DOMAIN rs)
  BY <1>1, AddedOrder
<1>3. DOMAIN xs = DOMAIN rs
  BY <1>1, ExpiredRows
<1>4. Ordered'
  BY <1>2, <1>3, RetainedOrder
<1>5. IsFiniteSet(Active(rows)') /\ Cardinality(Active(rows)') <= MaxActive
  BY <1>1, <1>2, ExpiredAreFew, RetainedActive
<1>6. Known' \subseteq DOMAIN rs /\ \A i \in Known' : rows'[i] = xs[i]
  BY <1>3, KeptRows DEF Retain, Known
<1>7. /\ rs[id] = row
      /\ \A i \in Known \ {id} : rs[i] = rows[i]
  BY DEF With, Known
<1> HIDE DEF rs
<1>8. \A i \in DOMAIN rs : /\ Tame(rs[i], xs[i]) /\ xs[i].paper = rs[i].paper
                           /\ Tradable(xs[i]) => xs[i] = rs[i]
  BY <1>1, ExpiredIsTame
<1> HIDE DEF xs
<1>9. ASSUME NEW i \in Known'
      PROVE  Started(i) \/ (i \in Known /\ Tame(rows[i], rows'[i]))
  <2>1. CASE i = id
    <3>1. xs[i].paper = row.paper /\ ~ Tradable(xs[i])
      BY <1>6, <1>7, <1>8, <2>1
    <3> QED  BY <1>6, <3>1 DEF Started
  <2>2. CASE i # id
    BY <1>1, <1>6, <1>7, <1>8, <2>2
  <2> QED  BY <2>1, <2>2
<1> QED  BY <1>4, <1>5, <1>9 DEF Starts

LEMMA DiscoverStarts ==
    ASSUME RecordsFirst, Ordered, NEW id \in Ids, Discover(id)
    PROVE  Tidy \/ Starts
<1>1. CASE id \in Known
  BY <1>1, SameIsTidy DEF Discover, document
<1>2. CASE id \notin Known
  <2>1. Retain(Expired(With(rows, id, NewRow), OrderWith(id)), OrderWith(id))
    BY <1>2 DEF Discover
  <2>2. NewRow.paper = "NOT_EVALUATED" /\ NewRow.status = "DISCOVERED"
    BY DEF NewRow
  <2>3. /\ NewRow \in Row /\ ~ NewRow.archived
        /\ NewRow.paper \notin {"OPENED", "CLOSED"} /\ ~ Tradable(NewRow)
    BY <2>2, NewRowType DEF Tradable
  <2> QED  BY <2>1, <2>3, RowStarts
<1> QED  BY <1>1, <1>2

LEMMA DecideStarts ==
    ASSUME RecordsFirst, Ordered, NEW id \in Ids, NEW approved \in BOOLEAN,
           NEW quote \in {"EXECUTABLE", "UNUSABLE"}, Decide(id, approved, quote)
    PROVE  Tidy \/ Starts
<1> DEFINE row == Decided(id, approved, quote)
<1>1. CASE ~ Created(id)
  BY <1>1, SameIsTidy DEF Decide, document
<1>2. CASE Created(id)
  <2>1. Retain(Expired(With(rows, id, row), OrderWith(id)), OrderWith(id))
    BY <1>2 DEF Decide
  <2>2. /\ row.archived = (id \in Known /\ rows[id].archived)
        /\ row.paper = IF approved THEN "ELIGIBLE" ELSE "NOT_ELIGIBLE"
        /\ row.status = "PENDING"
    BY NewRowType DEF Decided, Row
  <2>3. row \in Row
    BY NewRowType DEF Decided, Row, Paper, RecordsFirst, Sound, Known
  <2>4. row.archived => id \in DOMAIN archive
    BY <2>2 DEF RecordsFirst, Sound, Known
  <2>5. row.paper \notin {"OPENED", "CLOSED"} /\ ~ Tradable(row)
    BY <2>2 DEF Tradable
  <2> HIDE DEF row
  <2> QED  BY <2>1, <2>3, <2>4, <2>5, RowStarts
<1> QED  BY <1>1, <1>2

-----------------------------------------------------------------------------
(* Where the deliveries and the paper trades are                            *)

PipelineInv ==
    /\ step \in [Deliveries -> {"new", "analyzing", "failing", "buying", "opening",
                                "crediting", "skipping", "done"}]
    /\ bought \subseteq Ids /\ open \subseteq bought /\ unclosed \subseteq bought
    /\ faults \in 0 .. MaxFaults /\ seen \subseteq Kinds
    /\ \A d \in Deliveries : step[d] = "opening" => Obs(d) \in bought

LEMMA PipelineMoves ==
    ASSUME PipelineInv, NEW d \in Deliveries,
           NEW there \in {"analyzing", "failing", "buying", "crediting", "skipping", "done"},
           GoTo(d, there), UNCHANGED <<bought, open, unclosed>>,
           faults' \in 0 .. MaxFaults, seen' \subseteq Kinds
    PROVE  PipelineInv'
BY DEF PipelineInv, GoTo, Obs

LEMMA PipelineRests ==
    ASSUME PipelineInv, UNCHANGED <<step, bought>>, open' \subseteq open,
           unclosed' \subseteq unclosed \cup open,
           faults' \in 0 .. MaxFaults, seen' \subseteq Kinds
    PROVE  PipelineInv'
BY DEF PipelineInv, Obs

LEMMA PipelineStep ==
    ASSUME PipelineInv, [Next]_vars
    PROVE  PipelineInv' /\ bought \subseteq bought'
<1>0. faults \in 0 .. MaxFaults /\ seen \subseteq Kinds
  BY DEF PipelineInv
<1>1. ASSUME NEW d \in Deliveries, SignalStep(d), UNCHANGED <<faults, seen>>
      PROVE  PipelineInv' /\ bought \subseteq bought'
  <2>1. CASE Buy(d)
    <3>1. Obs(d) \in Ids
      BY PipelineAssumption DEF Obs
    <3> QED  BY <1>1, <2>1, <3>1 DEF Buy, GoTo, PipelineInv, Obs
  <2>2. CASE ~ Buy(d)
    <3>1. UNCHANGED <<bought, open, unclosed>>
      BY <1>1, <2>2 DEF SignalStep, StartSignal, Finish, Approve, Reject, BuyRefused, Skip, Open, Credit
    <3>2. \E there \in {"analyzing", "failing", "buying", "crediting", "skipping", "done"} :
             GoTo(d, there)
      BY <1>1, <2>2
      DEF SignalStep, StartSignal, Finish, Approve, Reject, BuyRefused, Skip, Open, Credit
    <3> QED  BY <1>0, <1>1, <3>1, <3>2, PipelineMoves
  <2> QED  BY <2>1, <2>2
<1>2. CASE RiskStep /\ UNCHANGED <<faults, seen>>
  BY <1>0, <1>2, PipelineRests DEF RiskStep, Sell, Close
<1>3. ASSUME UNCHANGED <<step, bought, open, unclosed>>,
             faults' \in 0 .. MaxFaults, seen' \subseteq Kinds
      PROVE  PipelineInv' /\ bought \subseteq bought'
  BY <1>3, PipelineRests
<1>4. CASE Fault
  <2>1. faults' \in 0 .. MaxFaults /\ seen' \subseteq Kinds
    <3>1. PICK kind : Happens(kind)
      BY <1>4, Zenon DEF Fault
    <3>2. kind \in Kinds /\ faults < MaxFaults /\ faults' = faults + 1 /\ seen' = seen \cup {kind}
      BY <3>1, PipelineAssumption DEF Happens
    <3> QED  BY <1>0, <3>2, PipelineAssumption
  <2>2. CASE UNCHANGED pipeline
    BY <1>3, <2>1, <2>2 DEF pipeline
  <2>3. CASE MonitorCrashes
    <3>1. step' = [d \in Deliveries |-> IF step[d] = "new" THEN "new" ELSE "done"]
      BY <2>3 DEF MonitorCrashes, At
    <3> QED  BY <2>1, <2>3, <3>1 DEF MonitorCrashes, PipelineInv
  <2>4. ASSUME NEW d \in Deliveries, StepTimesOut(d)
        PROVE  PipelineInv' /\ bought \subseteq bought'
    BY <2>1, <2>4, PipelineMoves DEF StepTimesOut
  <2>5. ASSUME NEW id \in Ids, CloseTimesOut(id)
        PROVE  PipelineInv' /\ bought \subseteq bought'
    BY <2>1, <2>5, PipelineRests DEF CloseTimesOut
  <2> QED  BY <1>4, <2>2, <2>3, <2>4, <2>5 DEF Fault
<1>5. CASE UNCHANGED vars
  BY <1>0, <1>3, <1>5 DEF vars, pipeline
<1> QED  BY <1>0, <1>1, <1>2, <1>3, <1>4, <1>5 DEF Next, Background, pipeline

LEMMA PipelineHolds == Spec => []PipelineInv
<1>1. Init => PipelineInv
  <2> SUFFICES ASSUME Init PROVE PipelineInv
    OBVIOUS
  <2>1. \A d \in Deliveries : step[d] = "new"
    BY DEF Init
  <2>2. faults \in 0 .. MaxFaults
    BY PipelineAssumption DEF Init
  <2> QED  BY <2>1, <2>2 DEF Init, PipelineInv
<1>2. PipelineInv /\ [Next]_vars => PipelineInv'
  BY PipelineStep
<1> QED  BY <1>1, <1>2, PTL DEF Spec

-----------------------------------------------------------------------------
(* Active rows: only a decision adds one, and then the oldest expire.  A    *)
(* row that says OPENED or CLOSED was bought, so that one that comes back   *)
(* from a trade is told by its paper status.                                *)

Counting == {id \in Active(rows) : ~ CameBack(id)}
TradesBought == \A id \in Known : rows[id].paper \in {"OPENED", "CLOSED"} => id \in bought
BoundInv == Ordered /\ TradesBought /\ ActiveBounded

LEMMA FewerCount ==
    ASSUME RecordsFirst, ActiveBounded, Counting' \subseteq Counting
    PROVE  ActiveBounded'
<1>1. IsFiniteSet(Counting)
  BY ObservationAssumption, FS_Subset DEF Counting, Active, RecordsFirst, Sound
<1>2. /\ Cardinality(Counting') <= Cardinality(Counting)
      /\ Cardinality(Counting') \in Nat /\ Cardinality(Counting) \in Nat
  BY <1>1, FS_Subset, FS_CardinalityType
<1>3. Cardinality(Counting') <= MaxActive
  BY <1>2, ObservationAssumption DEF ActiveBounded, Counting
<1> QED  BY <1>3 DEF ActiveBounded, Counting

LEMMA CalmBound ==
    ASSUME RecordsFirst, BoundInv, Ordered', CalmRows, bought \subseteq bought'
    PROVE  BoundInv'
<1>1. Counting' \subseteq Counting
  <2> SUFFICES ASSUME NEW id \in Counting' PROVE id \in Counting
    OBVIOUS
  <2>1. id \in Known' /\ Expirable(rows'[id]) /\ ~ CameBack(id)'
    BY DEF Counting, Active, Known
  <2>2. id \in Known /\ Expirable(rows[id]) /\ rows'[id].paper = rows[id].paper
    BY <2>1 DEF CalmRows, Calm
  <2>3. ~ CameBack(id)
    BY <2>1, <2>2 DEF CameBack
  <2> QED  BY <2>2, <2>3 DEF Counting, Active, Known
<1>2. TradesBought'
  BY DEF CalmRows, Calm, BoundInv, TradesBought
<1> QED  BY <1>1, <1>2, FewerCount DEF BoundInv

LEMMA StartsBound ==
    ASSUME RecordsFirst, BoundInv, Starts, bought \subseteq bought'
    PROVE  BoundInv'
<1>1. Counting' \subseteq Active(rows)'
  BY DEF Counting
<1>2. /\ Cardinality(Counting') <= Cardinality(Active(rows)')
      /\ Cardinality(Counting') \in Nat /\ Cardinality(Active(rows)') \in Nat
  BY <1>1, FS_Subset, FS_CardinalityType DEF Starts
<1>3. Cardinality(Counting') <= MaxActive
  BY <1>2, ObservationAssumption DEF Starts
<1>4. TradesBought'
  BY DEF Starts, Started, Tame, Calm, BoundInv, TradesBought
<1> QED  BY <1>3, <1>4 DEF Starts, BoundInv, ActiveBounded, Counting

\* The marks of a paper trade.
LEMMA MarkedRows ==
    ASSUME RecordsFirst, Ordered, NEW id, NEW status \in Paper, MarkPaper(id, status)
    PROVE  /\ Ordered'
           /\ Known' \subseteq Known
           /\ \A i \in Known' : /\ i # id => rows'[i] = rows[i]
                                /\ rows'[i].status = rows[i].status
                                /\ rows'[i].quote = rows[i].quote
                                /\ rows'[i].samples = rows[i].samples
                                /\ i = id => rows'[i].paper = status
<1>1. CASE id \notin Known
  BY <1>1 DEF MarkPaper, document, Ordered, Known
<1>2. CASE id \in Known
  <2> DEFINE rs == [rows EXCEPT ![id].paper = status]
  <2>1. Retain(rs, order) /\ DOMAIN rs = Known
    BY <1>2 DEF MarkPaper, Known
  <2>2. Ordered'
    BY <2>1, RetainedOrder DEF Ordered
  <2>3. Known' \subseteq Known /\ \A i \in Known' : rows'[i] = rs[i]
    BY <2>1, KeptRows DEF Retain, Known
  <2>4. \A i \in Known : rows[i] \in Row
    BY KnownRow
  <2>5. \A i \in Known : /\ i # id => rs[i] = rows[i]
                         /\ rs[i].status = rows[i].status
                         /\ rs[i].quote = rows[i].quote
                         /\ rs[i].samples = rows[i].samples
                         /\ i = id => rs[i].paper = status
    BY <2>4 DEF Row, Known
  <2> QED  BY <2>2, <2>3, <2>5
<1> QED  BY <1>1, <1>2

LEMMA MarkPaperBound ==
    ASSUME RecordsFirst, BoundInv, NEW id, NEW status \in {"SKIPPED", "OPENED", "CLOSED"},
           MarkPaper(id, status), bought' = bought, status # "SKIPPED" => id \in bought
    PROVE  BoundInv'
<1>1. status \in Paper
  BY DEF Paper
<1>2. /\ Ordered'
      /\ Known' \subseteq Known
      /\ \A i \in Known' : /\ i # id => rows'[i] = rows[i]
                           /\ rows'[i].status = rows[i].status
                           /\ i = id => rows'[i].paper = status
  BY <1>1, MarkedRows DEF BoundInv
<1>3. Counting' \subseteq Counting
  <2> SUFFICES ASSUME NEW i \in Counting' PROVE i \in Counting
    OBVIOUS
  <2>1. i \in Known' /\ Expirable(rows'[i]) /\ ~ CameBack(i)'
    BY DEF Counting, Active, Known
  <2>2. CASE i # id
    BY <1>2, <2>1, <2>2 DEF CameBack, Counting, Active, Known
  <2>3. CASE i = id
    <3>1. i \notin bought /\ status = "SKIPPED"
      BY <1>2, <2>1, <2>3 DEF CameBack, Expirable
    <3>2. rows[i].paper # "OPENED"
      BY <1>2, <2>1, <3>1 DEF BoundInv, TradesBought
    <3>3. Expirable(rows[i])
      BY <1>2, <2>1, <3>2 DEF Expirable, Terminal
    <3> QED  BY <1>2, <2>1, <3>1, <3>3 DEF CameBack, Counting, Active, Known
  <2> QED  BY <2>2, <2>3
<1>4. TradesBought'
  BY <1>2 DEF BoundInv, TradesBought
<1> QED  BY <1>2, <1>3, <1>4, FewerCount DEF BoundInv
LEMMA TidyBound ==
    ASSUME RecordsFirst, BoundInv, Tidy, bought \subseteq bought'
    PROVE  BoundInv'
BY CalmBound DEF Tidy, TameRows, Tame, CalmRows

\* The observer completes a row that has all its samples and has it traded.
LEMMA SaveCompletes ==
    ASSUME RecordsFirst, Ordered, Save
    PROVE  /\ Ordered' /\ CalmRows
           /\ \A id \in Known' : Tradable(rows'[id]) => Tradable(rows[id]) \/ id \in emit'
<1> DEFINE rs == WithSamples
           xs == Expired(rs, order)
<1>1. CASE Applied = {}
  <2>1. Tidy
    BY <1>1, SameIsTidy DEF Save, document
  <2> QED  BY <2>1 DEF Tidy, TameRows, Tame, CalmRows
<1>2. CASE Applied # {}
  <2>1. Retain(xs, order) /\ emit' = {s[1] : s \in {s \in Applied : Tradable(rs[s[1]])}}
    BY <1>2 DEF Save
  <2>2. ASSUME NEW id \in Known
        PROVE  /\ rs[id] \in Row /\ rs[id].archived = rows[id].archived
               /\ Calm(rows[id], rs[id])
               /\ Tradable(rs[id]) => Tradable(rows[id]) \/ id \in emit'
    <3>1. rows[id] \in Row
      BY KnownRow
    <3>2. CASE \E s \in Applied : s[1] = id
      <4>1. PICK s \in Applied : s[1] = id
        BY <3>2
      <4>2. PICK hs \in SUBSET Horizons : rs[id] = Sampled(rows[id], hs)
        BY <3>2 DEF WithSamples
      <4>3. ~ Terminal(rows[id])
        BY <4>1 DEF Applied, Applies
      <4>4. /\ Sampled(rows[id], hs) \in Row
            /\ Sampled(rows[id], hs).archived = rows[id].archived
            /\ Sampled(rows[id], hs).paper = rows[id].paper
        BY <3>1 DEF Sampled, Row
      <4>5. Calm(rows[id], rs[id])
        BY <4>2, <4>3, <4>4 DEF Calm, Expirable
      <4>6. Tradable(rs[id]) => id \in emit'
        BY <2>1, <4>1
      <4> QED  BY <4>2, <4>4, <4>5, <4>6
    <3>3. CASE ~ \E s \in Applied : s[1] = id
      <4>1. rs[id] = rows[id]
        BY <3>3 DEF WithSamples
      <4> QED  BY <3>1, <4>1 DEF Calm
    <3> QED  BY <3>2, <3>3
  <2>3. Sound(rs) /\ DOMAIN rs = Known
    BY <2>2 DEF WithSamples, RecordsFirst, Sound, Known
  <2>4. DOMAIN xs = Known
    BY <2>3, ExpiredRows
  <2>5. Ordered'
    BY <2>1, <2>4, RetainedOrder DEF Ordered
  <2>6. Known' \subseteq Known /\ \A id \in Known' : rows'[id] = xs[id]
    BY <2>1, <2>4, KeptRows DEF Retain, Known
  <2> HIDE DEF rs
  <2>7. \A id \in Known : Tame(rs[id], xs[id])
    BY <2>3, ExpiredIsTame
  <2> HIDE DEF xs
  <2>8. ASSUME NEW id \in Known'
        PROVE  /\ id \in Known /\ Calm(rows[id], rows'[id])
               /\ Tradable(rows'[id]) => Tradable(rows[id]) \/ id \in emit'
    BY <2>2, <2>6, <2>7 DEF Tame, Calm
  <2> QED  BY <2>5, <2>8 DEF CalmRows
<1> QED  BY <1>1, <1>2

-----------------------------------------------------------------------------
(* Which steps are tidy: all but discoveries, decisions, marks of paper     *)
(* trades, and the observer's writes.                                       *)

LEMMA ObserverIsTidy ==
    ASSUME RecordsFirst, Ordered, ObserverStep, ~ Save
    PROVE  Tidy
<1>1. ASSUME NEW stale, StartObserver(stale)
      PROVE  Tidy
  BY <1>1, StartObserverIsTidy
<1>2. ASSUME NEW batch, Scan(batch)
      PROVE  Tidy
  BY <1>2, SameIsTidy DEF Scan, document
<1>3. ASSUME NEW s, Answer(s)
      PROVE  Tidy
  BY <1>3, SameIsTidy DEF Answer, document
<1>4. ASSUME NEW s, AnswerFails(s) \/ Recount(s)
      PROVE  Tidy
  BY <1>4, CountedIsTidy DEF AnswerFails, Recount
<1>5. CASE Emit
  BY <1>5, SameIsTidy DEF Emit, document
<1> QED  BY <1>1, <1>2, <1>3, <1>4, <1>5 DEF ObserverStep

LEMMA ArchiverIsTidy ==
    ASSUME RecordsFirst, Ordered, ArchiveStep
    PROVE  Tidy
<1>1. ASSUME NEW done, Archive(done)
      PROVE  Tidy
  BY <1>1, SameIsTidy DEF Archive, document
<1>2. CASE Backfill
  BY <1>2, SameIsTidy DEF Backfill, document
<1> QED  BY <1>1, <1>2, PersistMarkersIsTidy DEF ArchiveStep

LEMMA FaultIsTidy ==
    ASSUME Ordered, Fault
    PROVE  Tidy
<1>1. UNCHANGED document
  BY Zenon DEF Fault, AttemptTimesOut, EmitTimesOut, PassFails, ObserverFails, MonitorCrashes,
               MonitorDies, StepTimesOut, CloseTimesOut, obsVars
<1> QED  BY <1>1, SameIsTidy DEF document

LEMMA SignalIsTidy ==
    ASSUME RecordsFirst, Ordered, NEW d \in Deliveries,
           Finish(d) \/ Buy(d) \/ BuyRefused(d) \/ Credit(d)
    PROVE  Tidy
<1>1. CASE Finish(d)
  BY <1>1, FinalizeIsTidy DEF Finish
<1>2. CASE Buy(d) \/ BuyRefused(d) \/ Credit(d)
  BY <1>2, SameIsTidy DEF Buy, BuyRefused, Credit, obsVars, document
<1> QED  BY <1>1, <1>2

LEMMA DecisionStarts ==
    ASSUME RecordsFirst, Ordered, NEW d \in Deliveries,
           \/ StartSignal(d) \/ Approve(d)
           \/ \E quote \in {"EXECUTABLE", "UNUSABLE"} : Reject(d, quote)
    PROVE  Tidy \/ Starts
<1>1. Obs(d) \in Ids
  BY PipelineAssumption DEF Obs
<1>2. CASE StartSignal(d)
  BY <1>1, <1>2, DiscoverStarts DEF StartSignal
<1>3. CASE Approve(d)
  BY <1>1, <1>3, DecideStarts DEF Approve
<1>4. ASSUME NEW quote \in {"EXECUTABLE", "UNUSABLE"}, Reject(d, quote)
      PROVE  Tidy \/ Starts
  BY <1>1, <1>4, DecideStarts DEF Reject
<1> QED  BY <1>2, <1>3, <1>4

LEMMA BoundStep ==
    ASSUME RecordsFirst, PipelineInv, BoundInv, [Next]_vars
    PROVE  BoundInv'
<1>0. Ordered /\ bought \subseteq bought'
  BY PipelineStep DEF BoundInv
<1>1. ASSUME NEW d \in Deliveries, Skip(d) \/ Open(d)
      PROVE  BoundInv'
  <2>1. Open(d) => Obs(d) \in bought
    BY DEF Open, At, PipelineInv
  <2> QED  BY <1>1, <2>1, MarkPaperBound DEF Skip, Open
<1>2. ASSUME NEW d \in Deliveries, SignalStep(d)
      PROVE  BoundInv'
  BY <1>0, <1>1, <1>2, SignalIsTidy, DecisionStarts, TidyBound, StartsBound DEF SignalStep
<1>3. ASSUME NEW id \in Ids, Close(id)
      PROVE  BoundInv'
  <2>1. id \in bought
    BY <1>3 DEF Close, PipelineInv
  <2> QED  BY <1>3, <2>1, MarkPaperBound DEF Close
<1>4. ASSUME NEW id \in Ids, Sell(id)
      PROVE  BoundInv'
  <2>1. Tidy
    BY <1>0, <1>4, SameIsTidy DEF Sell, obsVars, document
  <2> QED  BY <1>0, <2>1, TidyBound
<1>5. CASE ObserverStep
  <2>1. CASE Save
    BY <1>0, <2>1, SaveCompletes, CalmBound
  <2> QED  BY <1>0, <1>5, <2>1, ObserverIsTidy, TidyBound
<1>6. CASE ArchiveStep
  BY <1>0, <1>6, ArchiverIsTidy, TidyBound
<1>7. CASE Fault
  BY <1>0, <1>7, FaultIsTidy, TidyBound
<1>8. CASE UNCHANGED vars
  <2>1. Tidy
    BY <1>0, <1>8, SameIsTidy DEF vars, obsVars, document
  <2> QED  BY <1>0, <2>1, TidyBound
<1> QED  BY <1>2, <1>3, <1>4, <1>5, <1>6, <1>7, <1>8 DEF Next, Background, RiskStep

LEMMA BoundHolds == Spec => []BoundInv
<1>1. Init => BoundInv
  <2> SUFFICES ASSUME Init PROVE BoundInv
    OBVIOUS
  <2>1. Known = {} /\ order = {}
    BY DEF Init, Known
  <2>2. {id \in Active(rows) : ~ CameBack(id)} = {}
    BY <2>1 DEF Active, Known
  <2>3. Cardinality({}) = 0
    BY FS_EmptySet
  <2>4. ActiveBounded
    BY <2>2, <2>3, ObservationAssumption DEF ActiveBounded
  <2> QED  BY <2>1, <2>4 DEF BoundInv, Ordered, Orders, TradesBought
<1>2. RecordsFirst /\ PipelineInv /\ BoundInv /\ [Next]_vars => BoundInv'
  BY BoundStep
<1> QED  BY <1>1, <1>2, RecordsFirstInvariant, PipelineHolds, PTL DEF Spec

\* README.md: beyond 200 active rows the oldest are expired.  Whatever is delivered again,
\* dropped and restarted, no more than MaxActive rows are active but for those that come
\* back from a paper trade (expire_observation_backlog).
THEOREM ActiveRowsAreBounded == Spec => []ActiveBounded
<1>1. BoundInv => ActiveBounded
  BY DEF BoundInv
<1> QED  BY BoundHolds, <1>1, PTL

-----------------------------------------------------------------------------
(* Shadow trades: a completed row is among those the observer still has to  *)
(* trade, or is traded, or will be when the process that died is back.      *)

ShadowInv == ShadowComplete /\ (phase # "emitting" => emit = {})

\* No row becomes tradable, but for those the observer has just completed.
TradesKept == \A id \in Known' :
    Tradable(rows'[id]) => (id \in Known /\ Tradable(rows[id])) \/ id \in emit'

LEMMA TidyKeepsTrades ==
    ASSUME Tidy \/ Starts
    PROVE  TradesKept
BY DEF Tidy, TameRows, Tame, Starts, Started, TradesKept

LEMMA MarkKeepsTrades ==
    ASSUME RecordsFirst, Ordered, NEW id, NEW status \in Paper, MarkPaper(id, status)
    PROVE  TradesKept
<1>1. \A i \in Known' : /\ i \in Known
                        /\ rows'[i].status = rows[i].status
                        /\ rows'[i].quote = rows[i].quote
                        /\ rows'[i].samples = rows[i].samples
  BY MarkedRows
<1> QED  BY <1>1 DEF TradesKept, Tradable

LEMMA ShadowStays ==
    ASSUME ShadowInv, TradesKept, shadow \cup emit \subseteq shadow' \cup emit',
           seen \subseteq seen', startup => startup'
    PROVE  ShadowComplete'
BY DEF ShadowInv, ShadowComplete, TradesKept

\* Steps of others leave the observer, the shadow trades and the faults alone.
LEMMA ShadowRests ==
    ASSUME ShadowInv, TradesKept, UNCHANGED <<shadow, emit, phase, seen, startup>>
    PROVE  ShadowInv'
BY ShadowStays DEF ShadowInv

LEMMA SignalKeepsTrades ==
    ASSUME RecordsFirst, Ordered, NEW d \in Deliveries, SignalStep(d)
    PROVE  TradesKept /\ UNCHANGED <<shadow, emit, phase, startup>>
<1>1. Skip(d) \/ Open(d) => TradesKept
  BY MarkKeepsTrades DEF Skip, Open, Paper
<1>2. ~ (Skip(d) \/ Open(d)) => TradesKept
  BY SignalIsTidy, DecisionStarts, TidyKeepsTrades DEF SignalStep
<1>3. UNCHANGED <<shadow, emit, phase, startup>>
  BY DEF SignalStep, StartSignal, Finish, Approve, Reject, Buy, BuyRefused, Skip, Open, Credit,
         Discover, Finalize, Decide, MarkPaper, OnlyDocument, obsVars, observer, archiver
<1> QED  BY <1>1, <1>2, <1>3

LEMMA RiskKeepsTrades ==
    ASSUME RecordsFirst, Ordered, RiskStep
    PROVE  TradesKept /\ UNCHANGED <<shadow, emit, phase, startup>>
<1>1. ASSUME NEW id \in Ids, Close(id)
      PROVE  TradesKept /\ UNCHANGED <<shadow, emit, phase, startup>>
  BY <1>1, MarkKeepsTrades DEF Close, Paper, MarkPaper, OnlyDocument, observer, archiver
<1>2. ASSUME NEW id \in Ids, Sell(id)
      PROVE  TradesKept /\ UNCHANGED <<shadow, emit, phase, startup>>
  BY <1>2, SameIsTidy, TidyKeepsTrades DEF Sell, obsVars, document, observer, archiver
<1> QED  BY <1>1, <1>2 DEF RiskStep

LEMMA ObserverShadow ==
    ASSUME RecordsFirst, Ordered, ShadowInv, ObserverStep, UNCHANGED seen
    PROVE  ShadowInv'
<1>1. CASE Save
  <2>1. emit = {} /\ shadow' = shadow /\ startup' = startup /\ phase' = "emitting"
    BY <1>1 DEF Save, ShadowInv, archiver
  <2>2. TradesKept
    BY <1>1, SaveCompletes DEF TradesKept, CalmRows
  <2> QED  BY <2>1, <2>2, ShadowStays DEF ShadowInv
<1>2. CASE Emit
  <2>1. TradesKept
    BY <1>2, ObserverIsTidy, TidyKeepsTrades DEF Emit, Save
  <2> QED  BY <1>2, <2>1, ShadowStays DEF Emit, archiver, ShadowInv
<1>3. CASE ~ Save /\ ~ Emit
  <2>1. TradesKept
    BY <1>3, ObserverIsTidy, TidyKeepsTrades
  <2>2. emit' = emit /\ shadow' = shadow /\ startup' = startup /\ phase # "emitting"
    BY <1>3 DEF ObserverStep, StartObserver, Scan, Answer, AnswerFails, Recount, archiver
  <2> QED  BY <2>1, <2>2, ShadowStays DEF ShadowInv
<1> QED  BY <1>1, <1>2, <1>3

LEMMA ArchiverShadow ==
    ASSUME RecordsFirst, Ordered, ShadowInv, ArchiveStep, UNCHANGED seen
    PROVE  ShadowInv'
<1>1. CASE Backfill
  <2>1. shadow' = shadow \cup {id \in Known : Tradable(rows[id])}
    BY <1>1 DEF Backfill, WithCompleted
  <2>2. rows' = rows /\ emit' = emit /\ phase' = phase
    BY <1>1 DEF Backfill, document, observer
  <2> QED  BY <2>1, <2>2 DEF ShadowInv, ShadowComplete, Known
<1>2. CASE ~ Backfill
  <2>1. UNCHANGED <<shadow, emit, phase, startup>>
    BY <1>2 DEF ArchiveStep, Archive, PersistMarkers, observer
  <2> QED  BY <2>1, ArchiverIsTidy, TidyKeepsTrades, ShadowRests
<1> QED  BY <1>1, <1>2

LEMMA FaultShadow ==
    ASSUME Ordered, ShadowInv, Fault
    PROVE  ShadowInv'
<1>1. TradesKept
  BY FaultIsTidy, TidyKeepsTrades
<1>2. ASSUME NEW s \in asked, Happens("observer lock"), AttemptTimesOut(s)
      PROVE  ShadowInv'
  BY <1>2 DEF Happens, AttemptTimesOut, Answered, ShadowInv, ShadowComplete
<1>3. ASSUME NEW done \in SUBSET emit, Happens("observer lock"), EmitTimesOut(done)
      PROVE  ShadowInv'
  BY <1>3 DEF Happens, EmitTimesOut, ShadowInv, ShadowComplete
<1>4. CASE Happens("observer") /\ ObserverFails
  BY <1>4 DEF Happens, ObserverFails, ObserverForgets, ShadowInv, ShadowComplete
<1>5. CASE MonitorCrashes
  BY <1>5 DEF MonitorCrashes, MonitorDies, ObserverForgets, ShadowInv, ShadowComplete
<1>6. ASSUME NEW kind, Happens(kind), PassFails
      PROVE  ShadowInv'
  <2>1. seen \subseteq seen' /\ startup' = startup /\ shadow \subseteq shadow'
    BY <1>6 DEF Happens, PassFails, WithCompleted
  <2>2. emit' = emit /\ phase' = phase
    BY <1>6 DEF PassFails, observer
  <2> QED  BY <1>1, <2>1, <2>2, ShadowStays DEF ShadowInv
<1>7. ASSUME NEW kind, Happens(kind), UNCHANGED obsVars
      PROVE  ShadowInv'
  <2>1. UNCHANGED <<shadow, emit, phase, startup>> /\ seen \subseteq seen'
    BY <1>7 DEF Happens, obsVars, observer, archiver
  <2> QED  BY <1>1, <2>1, ShadowStays DEF ShadowInv
<1> QED  BY <1>2, <1>3, <1>4, <1>5, <1>6, <1>7 DEF Fault, StepTimesOut, CloseTimesOut

LEMMA ShadowStep ==
    ASSUME RecordsFirst, Ordered, ShadowInv, [Next]_vars
    PROVE  ShadowInv'
<1>1. CASE UNCHANGED vars
  <2>1. TradesKept
    BY <1>1, SameIsTidy, TidyKeepsTrades DEF vars, obsVars, document
  <2> QED  BY <1>1, <2>1, ShadowRests DEF vars, obsVars, observer, archiver
<1> QED  BY <1>1, SignalKeepsTrades, RiskKeepsTrades, ObserverShadow, ArchiverShadow,
            FaultShadow, ShadowRests DEF Next, Background

\* docs/research-engine-v1.md: a completed executable observation gets its shadow trade, at
\* once or when the monitor that died has started again, for any number of signals,
\* deliveries and horizons (_emit_sample_side_effects, backfill_completed_shadow_trades).
THEOREM ShadowsAreComplete == Spec => []ShadowComplete
<1>1. Init => ShadowInv
  BY DEF Init, ShadowInv, ShadowComplete
<1>2. RecordsFirst /\ Ordered /\ ShadowInv /\ [Next]_vars => ShadowInv'
  BY ShadowStep
<1>3. BoundInv => Ordered
  BY DEF BoundInv
<1>4. ShadowInv => ShadowComplete
  BY DEF ShadowInv
<1> QED  BY <1>1, <1>2, <1>3, <1>4, RecordsFirstInvariant, BoundHolds, PTL DEF Spec

-----------------------------------------------------------------------------
(* Types                                                                    *)

MemoryTypes ==
    /\ DOMAIN archive \subseteq Ids /\ archive \in [DOMAIN archive -> SUBSET Horizons]
    /\ shadow \subseteq Ids /\ emit \subseteq Ids
    /\ phase \in {"down", "idle", "asking", "emitting"}
    /\ asked \subseteq Ids \X Horizons /\ unsaved \subseteq Ids \X Horizons
    /\ uncounted \subseteq Ids \X Horizons
    /\ pass \in {"off", "idle", "marking", "backfilling"}
    /\ marks \subseteq Ids /\ startup \in BOOLEAN

\* Everything but the document.
memory == <<archive, shadow, observer, archiver>>

LEMMA ObserverTypes ==
    ASSUME RecordsFirst, MemoryTypes, ObserverStep
    PROVE  MemoryTypes'
<1>1. Known \subseteq Ids
  BY DEF RecordsFirst, Sound, Known
<1>2. ASSUME NEW stale, StartObserver(stale)
      PROVE  MemoryTypes'
  BY <1>2 DEF StartObserver, MemoryTypes
<1>3. ASSUME NEW batch, Scan(batch)
      PROVE  MemoryTypes'
  <2>1. batch \subseteq Ids \X Horizons
    BY <1>1, <1>3 DEF Scan, Due
  <2> QED  BY <1>3, <2>1 DEF Scan, MemoryTypes, archiver
<1>4. ASSUME NEW s \in asked, Answer(s) \/ AnswerFails(s)
      PROVE  MemoryTypes'
  <2>1. /\ asked' = asked \ {s} /\ unsaved' \in {unsaved, unsaved \cup {s}}
        /\ phase' \in {"idle", "asking"}
    BY <1>4 DEF Answer, AnswerFails, Answered
  <2>2. UNCHANGED <<archive, shadow, uncounted, emit, pass, marks, startup>>
    BY <1>4 DEF Answer, AnswerFails, archiver
  <2> QED  BY <2>1, <2>2 DEF MemoryTypes
<1>5. ASSUME NEW s \in uncounted, Recount(s)
      PROVE  MemoryTypes'
  <2>1. uncounted' = uncounted \ {s} /\ unsaved' \in {unsaved, unsaved \cup {s}}
    BY <1>5 DEF Recount
  <2>2. UNCHANGED <<archive, shadow, phase, asked, emit, pass, marks, startup>>
    BY <1>5 DEF Recount, archiver
  <2> QED  BY <2>1, <2>2 DEF MemoryTypes
<1>6. CASE Save
  <2>1. emit' \subseteq Ids
    BY <1>1, <1>6 DEF Save, Applied, Applies
  <2> QED  BY <1>6, <2>1 DEF Save, MemoryTypes, archiver
<1>7. CASE Emit
  BY <1>7 DEF Emit, MemoryTypes, archiver
<1> QED  BY <1>2, <1>3, <1>4, <1>5, <1>6, <1>7 DEF ObserverStep

LEMMA ArchiverTypes ==
    ASSUME RecordsFirst, MemoryTypes, ArchiveStep
    PROVE  MemoryTypes'
<1>1. Known \subseteq Ids /\ \A id \in Known : rows[id].samples \subseteq Horizons
  BY KnownRow DEF Row
<1>2. ASSUME NEW done \in SUBSET Ended, Archive(done)
      PROVE  MemoryTypes'
  <2>1. done \subseteq Known
    BY DEF Ended, Oldest, Unarchived, Known
  <2>2. /\ DOMAIN archive' = DOMAIN archive \cup done
        /\ archive' \in [DOMAIN archive' -> SUBSET Horizons]
    BY <1>1, <1>2, <2>1 DEF Archive, Archived, MemoryTypes
  <2>3. marks' = done /\ pass' = "marking" /\ UNCHANGED <<shadow, observer, startup>>
    BY <1>2 DEF Archive
  <2> QED  BY <1>1, <2>1, <2>2, <2>3 DEF MemoryTypes, observer
<1>3. CASE PersistMarkers
  BY <1>3 DEF PersistMarkers, EndPass, MemoryTypes, observer
<1>4. CASE Backfill
  BY <1>1, <1>4 DEF Backfill, EndPass, WithCompleted, MemoryTypes, observer
<1> QED  BY <1>2, <1>3, <1>4 DEF ArchiveStep

LEMMA FaultTypes ==
    ASSUME RecordsFirst, MemoryTypes, Fault
    PROVE  MemoryTypes'
<1>1. Known \subseteq Ids
  BY DEF RecordsFirst, Sound, Known
<1>2. ASSUME NEW s \in asked, AttemptTimesOut(s)
      PROVE  MemoryTypes'
  <2>1. /\ asked' = asked \ {s} /\ unsaved' = unsaved /\ uncounted' = uncounted \cup {s}
        /\ phase' \in {"idle", "asking"}
    BY <1>2 DEF AttemptTimesOut, Answered
  <2>2. UNCHANGED <<archive, shadow, emit, pass, marks, startup>>
    BY <1>2 DEF AttemptTimesOut, archiver
  <2> QED  BY <2>1, <2>2 DEF MemoryTypes
<1>3. ASSUME NEW done \in SUBSET emit, EmitTimesOut(done)
      PROVE  MemoryTypes'
  BY <1>3 DEF EmitTimesOut, MemoryTypes, archiver
<1>4. CASE PassFails
  <2>1. shadow' \subseteq Ids
    BY <1>1, <1>4 DEF PassFails, WithCompleted, MemoryTypes
  <2> QED  BY <1>4, <2>1 DEF PassFails, EndPass, MemoryTypes, observer
<1>5. CASE ObserverFails
  BY <1>5 DEF ObserverFails, ObserverForgets, MemoryTypes, archiver
<1>6. CASE MonitorCrashes
  BY <1>6 DEF MonitorCrashes, MonitorDies, ObserverForgets, EndPass, MemoryTypes
<1>7. CASE UNCHANGED obsVars
  BY <1>7 DEF obsVars, observer, archiver, MemoryTypes
<1> QED  BY <1>2, <1>3, <1>4, <1>5, <1>6, <1>7 DEF Fault, StepTimesOut, CloseTimesOut

LEMMA TypesStep ==
    ASSUME RecordsFirst, MemoryTypes, [Next]_vars
    PROVE  MemoryTypes'
<1>1. ASSUME UNCHANGED memory
      PROVE  MemoryTypes'
  BY <1>1 DEF memory, observer, archiver, MemoryTypes
<1>2. ASSUME NEW d \in Deliveries, SignalStep(d)
      PROVE  UNCHANGED memory
  BY <1>2 DEF SignalStep, StartSignal, Finish, Approve, Reject, Buy, BuyRefused, Skip, Open, Credit,
              Discover, Finalize, Decide, MarkPaper, OnlyDocument, obsVars, memory
<1>3. CASE RiskStep
  <2>1. UNCHANGED memory
    BY <1>3 DEF RiskStep, Sell, Close, MarkPaper, OnlyDocument, obsVars, memory
  <2> QED  BY <1>1, <2>1
<1>4. CASE UNCHANGED vars
  BY <1>1, <1>4 DEF vars, obsVars, memory
<1> QED  BY <1>1, <1>2, <1>3, <1>4, ObserverTypes, ArchiverTypes, FaultTypes
         DEF Next, Background

\* The rows, their order and their records, what the observer and the archive task hold,
\* and where every delivery is, for any number of signals, deliveries and faults.
THEOREM SignalTypes == Spec => []TypeOK
<1>1. Init => MemoryTypes
  BY DEF Init, MemoryTypes
<1>2. RecordsFirst /\ MemoryTypes /\ [Next]_vars => MemoryTypes'
  BY TypesStep
<1>3. RecordsFirst /\ BoundInv /\ PipelineInv /\ MemoryTypes => TypeOK
  <2> SUFFICES ASSUME RecordsFirst, BoundInv, PipelineInv, MemoryTypes PROVE TypeOK
    OBVIOUS
  <2>1. Known \subseteq Ids /\ rows \in [Known -> Row] /\ Orders(order, Known)
    BY DEF RecordsFirst, Sound, BoundInv, Ordered, Known
  <2> QED  BY <2>1 DEF PipelineInv, MemoryTypes, TypeOK
<1> QED  BY <1>1, <1>2, <1>3, RecordsFirstInvariant, BoundHolds, PipelineHolds, PTL DEF Spec
=============================================================================
