----------------------------- MODULE ServiceProofs -----------------------------
(* What the shared services promise, for any number of callers, tokens,     *)
(* loops and providers: TokenAnalysis, LiveExecution and RpcRouter.         *)
EXTENDS RpcRouter, TokenAnalysis, LiveExecution, FiniteSetTheorems, WellFoundedInduction, TLAPS

-----------------------------------------------------------------------------
(* Numbers *)

LEMMA LeastNumber ==
    ASSUME NEW S \in SUBSET Nat, S # {}
    PROVE  \E x \in S : \A y \in S : x <= y
<1>1. PICK x \in S : \A y \in S : ~ (<<y, x>> \in OpToRel(<, Nat))
  BY NatLessThanWellFounded, WFMin
<1>2. \A y \in S : ~ (y < x)
  BY <1>1 DEF OpToRel
<1> QED  BY <1>2

LEMMA GreatestNumber ==
    ASSUME NEW S \in SUBSET Nat, S # {}, NEW n \in Nat, \A x \in S : x <= n
    PROVE  \E x \in S : \A y \in S : x >= y
<1> DEFINE T == {k \in Nat : \A x \in S : x <= k}
<1>1. T \in SUBSET Nat /\ n \in T
  OBVIOUS
<1>2. PICK m \in T : \A k \in T : m <= k
  BY <1>1, LeastNumber
<1>3. m \in S
  <2>1. CASE m = 0
    <3>1. PICK x \in S : TRUE
      OBVIOUS
    <3>2. x \in Nat /\ x <= m
      BY <1>2
    <3> QED  BY <2>1, <3>1, <3>2
  <2>2. CASE m # 0 /\ m \notin S
    <3>1. m - 1 \in Nat /\ \A x \in S : x <= m - 1
      BY <2>2
    <3> QED  BY <3>1, <1>2
  <2> QED  BY <2>1, <2>2
<1> QED  BY <1>2, <1>3

-----------------------------------------------------------------------------
(* TokenAnalysis: the table of flights is what keeps analyses apart.        *)

\* What the cache, a task and a caller can be.
Reports   == [age: {CacheTime}] \cup [finding: Findings, age: 0..CacheTime - 1]
TaskKinds == [token: Tokens, state: {"running", "failed"}]
             \cup [token: {"none"}, state: {"failed"}]
             \cup [token: Tokens, state: {"done"}, finding: Findings]
Callers   == [state: {"idle", "cancelled"}, token: {"none"}, task: {NoTask}]
             \cup [state: {"waiting"}, token: Tokens, task: Tasks]
             \cup [state: {"given"}, token: Tokens, task: {NoTask}, finding: Findings]
AnalysisTypes ==
    /\ cached \in [Tokens -> Reports]
    /\ flight \in [Tokens -> Tasks \cup {NoTask}]
    /\ task \in [Tasks -> TaskKinds]
    /\ asker \in [Askers -> Callers]

LEMMA AnalysisTypesInit == AnalysisInit => AnalysisTypes
<1> SUFFICES ASSUME AnalysisInit PROVE AnalysisTypes
  OBVIOUS
<1>1. NotCached \in Reports
  BY DEF NotCached, Reports
<1>2. [token |-> "none", state |-> "failed"] \in TaskKinds
  BY DEF TaskKinds
<1>3. NoAsk \in Callers
  BY DEF NoAsk, Callers
<1> QED  BY <1>1, <1>2, <1>3 DEF AnalysisInit, AnalysisTypes

LEMMA AnalysisTypesNext ==
    ASSUME AnalysisTypes, AnalysisNext
    PROVE  AnalysisTypes'
<1> USE AnalysisAssumption DEF AnalysisTypes
<1>0. NotCached \in Reports /\ NoAsk \in Callers
  BY DEF NotCached, Reports, NoAsk, Callers
<1>1. CASE AnalysisTick
  <2>1. ASSUME NEW t \in Tokens PROVE Older(cached[t]) \in Reports
    <3>1. cached[t] \in Reports
      OBVIOUS
    <3>2. CASE cached[t] \in [age: {CacheTime}]
      BY <1>0, <3>2 DEF Older
    <3>3. CASE cached[t] \in [finding: Findings, age: 0..CacheTime - 1]
      <4>1. cached[t].age + 1 < CacheTime
              => [cached[t] EXCEPT !.age = @ + 1] \in [finding: Findings, age: 0..CacheTime - 1]
        BY <3>3
      <4> QED  BY <1>0, <4>1 DEF Older, Reports
    <3> QED  BY <3>1, <3>2, <3>3 DEF Reports
  <2> QED  BY <1>1, <2>1 DEF AnalysisTick
<1>2. ASSUME NEW k \in Tasks, AnalysisFails(k) PROVE AnalysisTypes'
  <2>1. task[k] \in TaskKinds /\ task[k].state = "running"
    BY <1>2 DEF AnalysisFails
  <2>2. task[k].token \in Tokens /\ [task[k] EXCEPT !.state = "failed"] \in TaskKinds
    BY <2>1 DEF TaskKinds
  <2> QED  BY <1>2, <2>2 DEF AnalysisFails, Leaves
<1>3. ASSUME NEW k \in Tasks, NEW f \in Findings, Analysed(k, f) PROVE AnalysisTypes'
  <2> DEFINE t == task[k].token
  <2>1. task[k] \in TaskKinds /\ task[k].state = "running"
    BY <1>3 DEF Analysed
  <2>2. t \in Tokens
    BY <2>1 DEF TaskKinds
  <2>3. [token |-> t, state |-> "done", finding |-> f] \in TaskKinds
    BY <2>2 DEF TaskKinds
  <2>4. [finding |-> f, age |-> 0] \in Reports
    BY DEF Reports
  <2>5. Stored(t, [finding |-> f, age |-> 0]) \in [Tokens -> Reports]
    BY <1>0, <2>4 DEF Stored
  <2> QED  BY <1>3, <2>2, <2>3, <2>5 DEF Analysed, Leaves
<1>4. ASSUME NEW a \in Askers, Awaken(a) PROVE AnalysisTypes'
  <2>1. asker[a] \in Callers /\ asker[a].state = "waiting"
    BY <1>4 DEF Awaken
  <2>2. asker[a].task \in Tasks
    BY <2>1 DEF Callers
  <2>3. CASE task[asker[a].task].state = "failed" /\ asker' = [asker EXCEPT ![a] = NoAsk]
    BY <1>0, <1>4, <2>3 DEF Awaken
  <2>4. CASE task[asker[a].task].state = "done"
             /\ Given(a, task[asker[a].task].token, task[asker[a].task].finding)
    <3>1. task[asker[a].task].token \in Tokens /\ task[asker[a].task].finding \in Findings
      BY <2>2, <2>4 DEF TaskKinds
    <3>2. [state |-> "given", token |-> task[asker[a].task].token, task |-> NoTask,
           finding |-> task[asker[a].task].finding] \in Callers
      BY <3>1 DEF Callers
    <3> QED  BY <1>4, <2>4, <3>2 DEF Awaken, Given
  <2> QED  BY <1>4, <2>3, <2>4 DEF Awaken
<1>5. ASSUME NEW a \in Askers, CancelAsk(a) PROVE AnalysisTypes'
  <2>1. [NoAsk EXCEPT !.state = "cancelled"] \in Callers
    BY DEF NoAsk, Callers
  <2> QED  BY <1>5, <2>1 DEF CancelAsk, AfterCancel
<1>6. ASSUME NEW a \in Askers, NEW t \in Tokens, AskCached(a, t) PROVE AnalysisTypes'
  <2>1. cached[t].finding \in Findings
    BY <1>6 DEF AskCached, IsFresh, Reports
  <2>2. [state |-> "given", token |-> t, task |-> NoTask, finding |-> cached[t].finding] \in Callers
    BY <2>1 DEF Callers
  <2> QED  BY <1>6, <2>2 DEF AskCached, Given
<1>7. ASSUME NEW a \in Askers, NEW t \in Tokens, AskShared(a, t) PROVE AnalysisTypes'
  <2>1. [state |-> "waiting", token |-> t, task |-> flight[t]] \in Callers
    BY <1>7 DEF AskShared, MayJoin, Callers
  <2> QED  BY <1>0, <1>7, <2>1 DEF AskShared
<1>8. ASSUME NEW a \in Askers, NEW t \in Tokens, NEW k \in Tasks, AskFirst(a, t, k)
      PROVE  AnalysisTypes'
  <2>1. /\ [state |-> "waiting", token |-> t, task |-> k] \in Callers
        /\ [token |-> t, state |-> "running"] \in TaskKinds
    BY DEF Callers, TaskKinds
  <2> QED  BY <1>0, <1>8, <2>1 DEF AskFirst
<1> QED  BY <1>1, <1>2, <1>3, <1>4, <1>5, <1>6, <1>7, <1>8 DEF AnalysisNext, TaskEnds
\* A running task is in the table, under its token; the cache is finite and in its limit.
Fresh       == {t \in Tokens: IsFresh(t)}
InTable     == \A k \in Tasks: task[k].state = "running" => flight[task[k].token] = k
CacheInLimit == IsFiniteSet(Fresh) /\ Cardinality(Fresh) <= CacheLimit
FlightsInv  == AnalysisTypes /\ InTable /\ CacheInLimit

\* Fewer fresh entries are in the limit, too.
LEMMA FewerFresh ==
    ASSUME CacheInLimit, Fresh' \subseteq Fresh
    PROVE  CacheInLimit'
<1>1. /\ IsFiniteSet(Fresh') /\ Cardinality(Fresh') <= Cardinality(Fresh)
      /\ Cardinality(Fresh) \in Nat /\ Cardinality(Fresh') \in Nat
  BY FS_Subset, FS_CardinalityType DEF CacheInLimit
<1> QED  BY <1>1, AnalysisAssumption DEF CacheInLimit

\* When the cache is full, what is evicted is an entry that is fresh.
LEMMA EvictedIsFresh ==
    ASSUME AnalysisTypes, NEW t, IsFiniteSet(Fresh), ~ (Cardinality(Fresh) < CacheLimit)
    PROVE  \E u \in Fresh: Evicted(t) = {u}
<1> DEFINE ages == {cached[u].age : u \in Fresh}
<1>1. \A u \in Fresh: cached[u].age \in Nat /\ cached[u].age <= CacheTime
  BY AnalysisAssumption DEF AnalysisTypes, Reports, Fresh
<1>2. Fresh # {}
  BY FS_EmptySet, AnalysisAssumption
<1>3. ages \in SUBSET Nat /\ ages # {} /\ \A x \in ages: x <= CacheTime
  BY <1>1, <1>2
<1>4. PICK x \in ages: \A y \in ages: x >= y
  BY <1>3, GreatestNumber, AnalysisAssumption
<1>5. \E u \in Fresh: \A v \in Fresh: cached[u].age >= cached[v].age
  BY <1>4
<1> QED  BY <1>5 DEF Evicted, Fresh

\* A report that is stored takes the place of another, once the cache is full.
LEMMA StoredInLimit ==
    ASSUME AnalysisTypes, CacheInLimit, NEW t \in Tokens, NEW report,
           cached' = Stored(t, report)
    PROVE  CacheInLimit'
<1> DEFINE rest == Fresh \ Evicted(t)
<1>1. Fresh' \subseteq rest \cup {t}
  BY AnalysisAssumption DEF Stored, Fresh, IsFresh, NotCached
<1>2. Cardinality(Fresh) \in Nat
  BY FS_CardinalityType DEF CacheInLimit
<1>3. IsFiniteSet(rest) /\ Cardinality(rest) \in Nat /\ Cardinality(rest) < CacheLimit
  <2>1. CASE Cardinality(Fresh) < CacheLimit
    <3>1. Evicted(t) = {}
      BY <2>1 DEF Evicted, Fresh
    <3> QED  BY <2>1, <3>1, <1>2 DEF CacheInLimit
  <2>2. CASE ~ (Cardinality(Fresh) < CacheLimit)
    <3>1. PICK u \in Fresh: Evicted(t) = {u}
      BY <2>2, EvictedIsFresh DEF CacheInLimit
    <3>2. IsFiniteSet(rest) /\ Cardinality(rest) = Cardinality(Fresh) - 1
      BY <3>1, FS_RemoveElement DEF CacheInLimit
    <3>3. Cardinality(rest) \in Nat
      BY <3>2, FS_CardinalityType
    <3> QED  BY <1>2, <3>2, <3>3, AnalysisAssumption DEF CacheInLimit
  <2> QED  BY <2>1, <2>2
<1> HIDE DEF rest
<1>4. IsFiniteSet(rest \cup {t}) /\ Cardinality(rest \cup {t}) <= Cardinality(rest) + 1
  BY <1>3, FS_AddElement
<1>5. /\ IsFiniteSet(Fresh') /\ Cardinality(Fresh') <= Cardinality(rest \cup {t})
      /\ Cardinality(Fresh') \in Nat /\ Cardinality(rest \cup {t}) \in Nat
  BY <1>1, <1>4, FS_Subset, FS_CardinalityType
<1> QED  BY <1>3, <1>4, <1>5, AnalysisAssumption DEF CacheInLimit

LEMMA FlightsInvInit == AnalysisInit => FlightsInv
<1> SUFFICES ASSUME AnalysisInit PROVE FlightsInv
  OBVIOUS
<1>1. Fresh = {}
  BY AnalysisAssumption DEF AnalysisInit, Fresh, IsFresh, NotCached
<1>2. CacheInLimit
  BY <1>1, FS_EmptySet, AnalysisAssumption DEF CacheInLimit
<1> QED  BY <1>2, AnalysisTypesInit DEF AnalysisInit, FlightsInv, InTable

LEMMA FlightsInvNext == FlightsInv /\ [AnalysisNext]_analysisVars => FlightsInv'
<1> SUFFICES ASSUME FlightsInv, [AnalysisNext]_analysisVars PROVE FlightsInv'
  OBVIOUS
<1> USE DEF FlightsInv
<1>1. CASE UNCHANGED analysisVars
  BY <1>1 DEF analysisVars, AnalysisTypes, InTable, CacheInLimit, Fresh, IsFresh
<1>2. CASE AnalysisNext
  <2>1. AnalysisTypes'
    BY <1>2, AnalysisTypesNext
  <2>2. CASE AnalysisTick
    <3>1. Fresh' \subseteq Fresh
      <4> SUFFICES ASSUME NEW t \in Tokens, cached'[t].age < CacheTime
                   PROVE  cached[t].age < CacheTime
        BY DEF Fresh, IsFresh
      <4>1. cached[t] \in Reports /\ cached'[t] = Older(cached[t])
        BY <2>2 DEF AnalysisTick, AnalysisTypes
      <4> QED  BY <4>1, AnalysisAssumption DEF Older, NotCached, Reports
    <3>2. InTable'
      BY <2>2 DEF AnalysisTick, InTable
    <3> QED  BY <2>1, <3>1, <3>2, FewerFresh
  <2>3. ASSUME NEW k \in Tasks, AnalysisFails(k) PROVE FlightsInv'
    <3>1. InTable'
      BY <2>3 DEF AnalysisFails, Leaves, InTable, AnalysisTypes, TaskKinds
    <3> QED  BY <2>1, <2>3, <3>1, FewerFresh DEF AnalysisFails, Fresh, IsFresh
  <2>4. ASSUME NEW k \in Tasks, NEW f \in Findings, Analysed(k, f) PROVE FlightsInv'
    <3>1. InTable'
      BY <2>4 DEF Analysed, Leaves, InTable, AnalysisTypes, TaskKinds
    <3>2. task[k].token \in Tokens
      BY <2>4 DEF Analysed, AnalysisTypes, TaskKinds
    <3>3. cached' = Stored(task[k].token, [finding |-> f, age |-> 0])
      BY <2>4 DEF Analysed
    <3> QED  BY <2>1, <3>1, <3>2, <3>3, StoredInLimit
  <2>5. ASSUME NEW a \in Askers, Awaken(a) \/ CancelAsk(a) PROVE FlightsInv'
    BY <2>1, <2>5, FewerFresh DEF Awaken, CancelAsk, AfterCancel, InTable, Fresh, IsFresh
  <2>6. ASSUME NEW a \in Askers, NEW t \in Tokens, AskCached(a, t) PROVE FlightsInv'
    BY <2>1, <2>6, FewerFresh DEF AskCached, InTable, Fresh, IsFresh
  <2>7. ASSUME NEW a \in Askers, NEW t \in Tokens, AskShared(a, t) PROVE FlightsInv'
    <3>1. Fresh' \subseteq Fresh
      BY <2>7, AnalysisAssumption DEF AskShared, Fresh, IsFresh, NotCached, AnalysisTypes
    <3> QED  BY <2>1, <2>7, <3>1, FewerFresh DEF AskShared, InTable
  <2>8. ASSUME NEW a \in Askers, NEW t \in Tokens, NEW k \in Tasks, AskFirst(a, t, k)
        PROVE  FlightsInv'
    <3>1. Fresh' \subseteq Fresh
      BY <2>8, AnalysisAssumption DEF AskFirst, Fresh, IsFresh, NotCached, AnalysisTypes
    <3>2. InTable'
      <4> SUFFICES ASSUME NEW l \in Tasks, task'[l].state = "running"
                   PROVE  flight'[task'[l].token] = l
        BY DEF InTable
      <4>1. CASE l = k
        BY <2>8, <4>1 DEF AskFirst, AnalysisTypes
      <4>2. CASE l # k
        <5>1. task'[l] = task[l] /\ flight[task[l].token] = l /\ task[l].token \in Tokens
          BY <2>8, <4>2 DEF AskFirst, AnalysisTypes, TaskKinds, InTable
        <5>2. task[l].token # t
          BY <2>8, <5>1, AnalysisAssumption DEF AskFirst, MayJoin
        <5> QED  BY <2>8, <5>1, <5>2 DEF AskFirst, AnalysisTypes
      <4> QED  BY <4>1, <4>2
    <3> QED  BY <2>1, <3>1, <3>2, FewerFresh
  <2> QED  BY <1>2, <2>2, <2>3, <2>4, <2>5, <2>6, <2>7, <2>8 DEF AnalysisNext, TaskEnds
<1> QED  BY <1>1, <1>2

\* However many callers ask about however many tokens, give up or fail meanwhile, no token
\* is analysed twice at a time and the cache keeps its limit (analyze_token).
THEOREM AnalysesAreShared == AnalysisSpec => []OneAnalysisPerToken
<1>1. FlightsInv => OneAnalysisPerToken
  BY DEF FlightsInv, InTable, CacheInLimit, Fresh, OneAnalysisPerToken
<1> QED  BY FlightsInvInit, FlightsInvNext, <1>1, PTL DEF AnalysisSpec

\* Whatever the RPC and Rugcheck answer: of the locked shares that can be read, the smallest
\* decides, and a token is entered only on a developer's share, a lock and a liquidity that
\* are known (SafetyReport, locked_percentage).  A market without a readable share is passed
\* over, so the theorem does not say that every market is locked, which is false.
THEOREM EntriesRestOnEvidence == AnalysisSpec => []EntersOnEvidence
<1>1. AnalysisTypes => EntersOnEvidence
  <2> SUFFICES ASSUME AnalysisTypes, NEW a \in Askers, asker[a].state = "given"
               PROVE  LET f == asker[a].finding
                      IN  /\ Route(f) = "A" /\ f.locked = Unknown
                               => \A x \in f.pools \ {Unknown}: x >= MinimumLocked
                          /\ Route(f) # "none"
                               => /\ f.renounced /\ f.developer # Unknown
                                  /\ f.liquidity # Unknown
                                  /\ f.locked # Unknown \/ f.pools \ {Unknown} # {}
    BY DEF EntersOnEvidence
  <2> DEFINE f == asker[a].finding
             pools == f.pools \ {Unknown}
  <2>1. f \in Findings
    BY DEF AnalysisTypes, Callers
  <2>2. f \in Finding(Nat \cup {Unknown})
    BY <2>1, AnalysisAssumption
  <2>3. pools \in SUBSET Nat /\ f.renounced \in BOOLEAN
    BY <2>2 DEF Finding
  <2>4. Route(f) = "A" => RouteA(f)
    BY DEF Route
  <2>5. ASSUME Route(f) = "A", f.locked = Unknown
        PROVE  \A x \in pools: x >= MinimumLocked
    <3>1. LockedPercent(f) # Unknown /\ LockedPercent(f) >= MinimumLocked
      BY <2>4, <2>5 DEF RouteA, Known
    <3>2. pools # {} /\ LockedPercent(f) = LeastOf(pools)
      BY <2>5, <3>1 DEF LockedPercent
    <3>3. \E x \in pools: \A y \in pools: x <= y
      BY <2>3, <3>2, LeastNumber
    <3>4. LeastOf(pools) \in pools /\ \A y \in pools: LeastOf(pools) <= y
      BY <3>3 DEF LeastOf
    <3> QED  BY <2>3, <3>1, <3>2, <3>4, AnalysisAssumption
  <2>6. ASSUME Route(f) # "none"
        PROVE  /\ f.renounced /\ f.developer # Unknown /\ f.liquidity # Unknown
               /\ f.locked # Unknown \/ pools # {}
    <3>1. RouteA(f) \/ RouteB(f)
      BY <2>6 DEF Route
    <3>2. /\ f.renounced /\ f.developer # Unknown /\ f.liquidity # Unknown
          /\ LockedPercent(f) # Unknown
      BY <3>1 DEF RouteA, RouteB, Known, DeveloperIsSmall
    <3> QED  BY <3>2 DEF LockedPercent
  <2> QED  BY <2>5, <2>6
<1>2. FlightsInv => AnalysisTypes
  BY DEF FlightsInv
<1> QED  BY FlightsInvInit, FlightsInvNext, <1>1, <1>2, PTL DEF AnalysisSpec
-----------------------------------------------------------------------------
(* LiveExecution: from the claim to its end the position is the claimant's  *)
(* and stays as it was claimed; a bundle takes its share of a wallet that   *)
(* holds no more than that.                                                 *)

Working    == {"plan", "send", "wait", "file", "sell", "release"}
ExitState  == [pc: {"idle", "claim"} \cup Working, mint: LiveMints \cup {"none"},
               percent: {0, 50, 100}, first: BOOLEAN, claimed: 0..Stake, amount: 0..Stake,
               bundle: Nat, landed: BOOLEAN]
LiveTypes  == LiveTypeOK /\ exit \in [LiveLoops -> ExitState]

\* What p works on is its own, as it was when p claimed it.
Owns(p) ==
    exit[p].pc \in {"claim"} \cup Working =>
        /\ exit[p].mint \in LiveMints /\ exit[p].percent \in {50, 100}
        /\ exit[p].pc # "claim" =>
              Position(p).pending /\ Position(p).claim = p /\ Position(p).amount = exit[p].claimed

\* What p sells is its part of w, which the wallet held no more than, and holds that much
\* less of once the bundle has landed.
HasLanded(p) == \/ exit[p].landed
                \/ exit[p].pc = "wait" /\ bundles[exit[p].bundle].fate = "landed"
TakesPart(p) ==
    exit[p].pc \in {"send", "wait", "file", "sell"} =>
        \E w \in 0..exit[p].claimed:
            /\ exit[p].amount = Part(exit[p].percent, w)
            /\ wallet[exit[p].mint] <= w
            /\ HasLanded(p) => wallet[exit[p].mint] <= w - exit[p].amount
OwnBundle(p) ==
    /\ exit[p].landed => exit[p].pc \in {"file", "sell", "release"}
    /\ exit[p].pc = "sell" => exit[p].landed
    /\ exit[p].pc = "send" => exit[p].amount > 0
    /\ exit[p].pc = "wait" => /\ exit[p].bundle \in 1..Len(bundles)
                              /\ bundles[exit[p].bundle].mint = exit[p].mint
                              /\ bundles[exit[p].bundle].amount = exit[p].amount
SalesInv ==
    /\ LiveTypes /\ WalletIsBooked
    /\ \A p \in LiveLoops: Owns(p) /\ TakesPart(p) /\ OwnBundle(p)
LEMMA PartOfNumber ==
    ASSUME NEW n \in 0..Stake, NEW percent \in {0, 50, 100}
    PROVE  Part(percent, n) \in 0..n
BY LiveAssumption DEF Part

\* What a sale leaves is a position, which still covers what the wallet may hold.
LEMMA AfterSale ==
    ASSUME NEW pos \in LivePosition, NEW x \in ExitState, x.percent \in {50, 100},
           x.claimed = pos.amount
    PROVE  /\ AfterSelling(pos, x) \in LivePosition
           /\ \A w \in 0..x.claimed:
                 w - Part(x.percent, w) <= AfterSelling(pos, x).amount
<1>1. /\ pos.amount \in 0..Stake /\ pos.first \in BOOLEAN /\ pos.second \in BOOLEAN
      /\ x.first \in BOOLEAN
  BY DEF LivePosition, ExitState
<1> DEFINE left == IF pos.amount > Part(x.percent, x.claimed)
                   THEN pos.amount - Part(x.percent, x.claimed) ELSE 0
<1>2. left \in 0..Stake
  BY <1>1, LiveAssumption DEF Part
<1>3. AfterSelling(pos, x).amount = left
  BY DEF AfterSelling, LivePosition
<1>5. AfterSelling(pos, x) \in LivePosition
  <2> DEFINE a == pos.first \/ x.first
             b == pos.second \/ (x.percent = 50 /\ ~x.first)
  <2>1. AfterSelling(pos, x) = [pos EXCEPT !.amount = left, !.claim = NoLoop, !.pending = FALSE,
                                           !.first = a, !.second = b]
    BY DEF AfterSelling, LivePosition
  <2>2. a \in BOOLEAN /\ b \in BOOLEAN
    BY <1>1
  <2> HIDE DEF a, b, left
  <2> QED  BY <1>2, <2>1, <2>2 DEF LivePosition
<1>4. ASSUME NEW w \in 0..x.claimed PROVE w - Part(x.percent, w) <= left
  BY <1>1, LiveAssumption DEF Part
<1> QED  BY <1>3, <1>4, <1>5

LEMMA SalesInvInit == LiveInit => SalesInv
<1> SUFFICES ASSUME LiveInit PROVE SalesInv
  OBVIOUS
<1>1. LiveTypes
  <2>1. [amount |-> Stake, claim |-> NoLoop, pending |-> FALSE,
         first |-> FALSE, second |-> FALSE] \in LivePosition
    BY LiveAssumption DEF LivePosition
  <2>2. NoExitYet \in ExitState
    BY LiveAssumption DEF NoExitYet, ExitState
  <2> QED  BY <2>1, <2>2, LiveAssumption DEF LiveInit, LiveTypes, LiveTypeOK
<1>2. WalletIsBooked
  BY LiveAssumption DEF LiveInit, WalletIsBooked
<1>3. ASSUME NEW p \in LiveLoops PROVE Owns(p) /\ TakesPart(p) /\ OwnBundle(p)
  BY DEF LiveInit, NoExitYet, Owns, TakesPart, OwnBundle, Working
<1> QED  BY <1>1, <1>2, <1>3 DEF SalesInv

\* A step of p that leaves the book, the wallet and sent bundles alone concerns p only.
LEMMA OnlyOwnStep ==
    ASSUME SalesInv, NEW p \in LiveLoops, UNCHANGED <<book, wallet, bundles>>,
           NEW x \in ExitState, Goes(p, x), Owns(p)', TakesPart(p)', OwnBundle(p)'
    PROVE  SalesInv'
<1>1. LiveTypes' /\ WalletIsBooked'
  BY DEF SalesInv, LiveTypes, LiveTypeOK, WalletIsBooked, Goes
<1>2. ASSUME NEW q \in LiveLoops, q # p PROVE Owns(q)' /\ TakesPart(q)' /\ OwnBundle(q)'
  <2>1. exit'[q] = exit[q]
    BY <1>2 DEF SalesInv, LiveTypes, Goes
  <2> QED  BY <2>1 DEF SalesInv, Owns, TakesPart, OwnBundle, Position, HasLanded
<1> QED  BY <1>1, <1>2 DEF SalesInv

\* A step of p that changes the book for its own position only, which nobody else works on.
LEMMA OwnPosition ==
    ASSUME SalesInv, NEW p \in LiveLoops, exit[p].mint \in LiveMints,
           UNCHANGED <<wallet, bundles>>, NEW pos \in LivePosition, Change(p, pos),
           wallet[exit[p].mint] <= pos.amount,
           NEW x \in ExitState, Goes(p, x), Owns(p)', TakesPart(p)', OwnBundle(p)',
           Position(p).pending => Position(p).claim = p
    PROVE  SalesInv'
<1>1. LiveTypes' /\ WalletIsBooked'
  BY DEF SalesInv, LiveTypes, LiveTypeOK, WalletIsBooked, Goes, Change
<1>2. ASSUME NEW q \in LiveLoops, q # p PROVE Owns(q)' /\ TakesPart(q)' /\ OwnBundle(q)'
  <2>1. exit'[q] = exit[q] /\ Owns(q) /\ TakesPart(q) /\ OwnBundle(q)
    BY <1>2 DEF SalesInv, LiveTypes, Goes
  <2>2. exit[q].pc \in Working => exit[q].mint # exit[p].mint
    BY <1>2, <2>1 DEF Owns, Position, Working
  <2>3. exit[q].pc \in Working => Position(q)' = Position(q)
    BY <2>1, <2>2 DEF Position, Change, SalesInv, LiveTypes, LiveTypeOK, Owns
  <2> QED  BY <2>1, <2>3 DEF Owns, TakesPart, OwnBundle, HasLanded, Working
<1> QED  BY <1>1, <1>2 DEF SalesInv
\* The steps of p on its own, one lemma for each kind.
LEMMA SalesInvQuiet ==
    ASSUME SalesInv, UNCHANGED <<book, wallet, bundles, exit>>
    PROVE  SalesInv'
BY DEF SalesInv, LiveTypes, LiveTypeOK, WalletIsBooked, Owns, TakesPart, OwnBundle, HasLanded,
       Position

\* p begins anew: it works on nothing.
LEMMA SalesInvIdle ==
    ASSUME SalesInv, NEW p \in LiveLoops, UNCHANGED <<book, wallet, bundles>>,
           Goes(p, NoExitYet)
    PROVE  SalesInv'
<1>1. NoExitYet \in ExitState
  BY LiveAssumption DEF NoExitYet, ExitState
<1>2. exit'[p] = NoExitYet
  BY DEF SalesInv, LiveTypes, Goes
<1>3. Owns(p)' /\ TakesPart(p)' /\ OwnBundle(p)'
  BY <1>2 DEF NoExitYet, Owns, TakesPart, OwnBundle, Working
<1> QED  BY <1>1, <1>3, OnlyOwnStep

\* p gives up: it goes on to what comes after a bundle, and knows of none that landed.
LEMMA SalesInvGivesUp ==
    ASSUME SalesInv, NEW p \in LiveLoops, UNCHANGED <<book, wallet, bundles>>,
           exit[p].pc \in Working, Step(p, "release")
    PROVE  SalesInv'
<1> DEFINE x == [exit[p] EXCEPT !.pc = "release"]
<1>1. exit[p] \in ExitState /\ x \in ExitState
  BY DEF SalesInv, LiveTypes, ExitState, Working
<1>2. exit'[p] = x
  BY DEF SalesInv, LiveTypes, Goes, Step
<1>3. Owns(p)' /\ TakesPart(p)' /\ OwnBundle(p)'
  BY <1>1, <1>2 DEF SalesInv, Owns, TakesPart, OwnBundle, Working, Position, ExitState
<1>4. Goes(p, x)
  BY DEF Step
<1> QED  BY <1>1, <1>3, <1>4, OnlyOwnStep

LEMMA SalesInvQuote ==
    ASSUME SalesInv, NEW p \in LiveLoops, NEW m \in LiveMints, NEW ratio \in Ratios,
           LiveQuote(p, m, ratio)
    PROVE  SalesInv'
<1> DEFINE how == Triggered(plan[p][m], ratio)
           x == [NoExitYet EXCEPT !.pc = "claim", !.mint = m, !.percent = how[1], !.first = how[2]]
<1>1. CASE how[1] = 0
  BY <1>1, SalesInvQuiet DEF LiveQuote
<1>2. CASE how[1] # 0
  <2>1. how[1] \in {50, 100} /\ how[2] \in BOOLEAN
    BY <1>2 DEF Triggered
  <2>2. x \in ExitState
    <3> HIDE DEF how
    <3>1. NoExitYet \in ExitState
      BY LiveAssumption DEF NoExitYet, ExitState
    <3>2. [NoExitYet EXCEPT !.pc = "claim", !.mint = m] \in ExitState
      BY <3>1 DEF ExitState
    <3> DEFINE y == [NoExitYet EXCEPT !.pc = "claim", !.mint = m]
    <3>3. x = [y EXCEPT !.percent = how[1], !.first = how[2]]
      OBVIOUS
    <3> HIDE DEF y, x
    <3>4. y \in ExitState
      BY <3>2 DEF y
    <3> QED  BY <2>1, <3>3, <3>4 DEF ExitState
  <2>3. Goes(p, x) /\ exit'[p] = x
    BY <1>2 DEF LiveQuote, Goes, SalesInv, LiveTypes
  <2>4. Owns(p)' /\ TakesPart(p)' /\ OwnBundle(p)'
    BY <2>1, <2>3 DEF NoExitYet, Owns, TakesPart, OwnBundle, Working
  <2> QED  BY <2>2, <2>3, <2>4, OnlyOwnStep DEF LiveQuote
<1> QED  BY <1>1, <1>2

LEMMA SalesInvClaim ==
    ASSUME SalesInv, NEW p \in LiveLoops, LiveClaim(p)
    PROVE  SalesInv'
<1> DEFINE x == [exit[p] EXCEPT !.pc = "plan", !.claimed = Position(p).amount]
           pos == [Position(p) EXCEPT !.pending = TRUE, !.claim = p]
<1>1. CASE ~(IsOpen(exit[p].mint) /\ ~Position(p).pending)
  BY <1>1, SalesInvIdle DEF LiveClaim
<1>2. CASE IsOpen(exit[p].mint) /\ ~Position(p).pending
  <2>1. exit[p] \in ExitState /\ exit[p].mint \in LiveMints /\ Position(p) \in LivePosition
    BY DEF SalesInv, LiveTypes, LiveTypeOK, LiveClaim, Owns, Position
  <2>2. Change(p, pos) /\ Goes(p, x)
    BY <1>2 DEF LiveClaim
  <2>3. pos \in LivePosition /\ pos.amount = Position(p).amount
    BY <2>1 DEF LivePosition
  <2>4. x \in ExitState
    BY <2>1 DEF LivePosition, ExitState, Working
  <2>5. exit'[p] = x /\ Position(p)' = pos
    BY <2>1, <2>2 DEF SalesInv, LiveTypes, LiveTypeOK, Goes, Change, Position, ExitState
  <2>6. Owns(p)' /\ TakesPart(p)' /\ OwnBundle(p)'
    <3>1. exit[p].percent \in {50, 100} /\ ~exit[p].landed
      BY DEF SalesInv, Owns, OwnBundle, LiveClaim
    <3>2. /\ exit'[p].pc = "plan" /\ exit'[p].mint = exit[p].mint /\ exit'[p].landed = exit[p].landed
          /\ exit'[p].percent = exit[p].percent /\ exit'[p].claimed = Position(p).amount
      BY <2>1, <2>5 DEF ExitState
    <3>3. Position(p)'.pending /\ Position(p)'.claim = p /\ Position(p)'.amount = Position(p).amount
      BY <2>1, <2>5 DEF LivePosition
    <3> QED  BY <2>1, <3>1, <3>2, <3>3 DEF Owns, TakesPart, OwnBundle, Working
  <2>7. wallet[exit[p].mint] <= pos.amount
    BY <2>1, <2>3 DEF SalesInv, WalletIsBooked, Position
  <2>8. Position(p).pending => Position(p).claim = p
    BY <1>2
  <2>9. UNCHANGED <<wallet, bundles>>
    BY DEF LiveClaim
  <2> HIDE DEF x, pos
  <2> QED  BY <2>1, <2>2, <2>3, <2>4, <2>6, <2>7, <2>8, <2>9, OwnPosition
<1> QED  BY <1>1, <1>2
LEMMA SalesInvBuild ==
    ASSUME SalesInv, NEW p \in LiveLoops, LiveBuild(p)
    PROVE  SalesInv'
<1> DEFINE w == wallet[exit[p].mint]
           n == Part(exit[p].percent, w)
           x == [exit[p] EXCEPT !.pc = "send", !.amount = n]
<1>1. /\ exit[p] \in ExitState /\ exit[p].mint \in LiveMints /\ exit[p].percent \in {50, 100}
      /\ Position(p).pending /\ Position(p).claim = p /\ Position(p).amount = exit[p].claimed
      /\ ~exit[p].landed
  BY DEF SalesInv, LiveTypes, LiveBuild, Owns, OwnBundle, Working
<1>2. w \in 0..Stake /\ w <= exit[p].claimed
  BY <1>1 DEF SalesInv, LiveTypes, LiveTypeOK, WalletIsBooked, Position
<1>3. n \in 0..w
  BY <1>1, <1>2, PartOfNumber
<1>4. exit[p].claimed \in 0..Stake /\ w \in 0..exit[p].claimed
  BY <1>1, <1>2, LiveAssumption DEF ExitState
<1>5. x \in ExitState
  <2>1. n \in 0..Stake
    BY <1>2, <1>3, LiveAssumption
  <2> HIDE DEF n
  <2> QED  BY <1>1, <2>1 DEF ExitState, Working
<1>6. Goes(p, x) /\ exit'[p] = x /\ UNCHANGED <<book, wallet, bundles>>
  BY DEF LiveBuild, Goes, SalesInv, LiveTypes
<1>7. Owns(p)' /\ TakesPart(p)' /\ OwnBundle(p)'
  <2>1. /\ exit'[p].pc = "send" /\ exit'[p].mint = exit[p].mint /\ exit'[p].landed = exit[p].landed
        /\ exit'[p].percent = exit[p].percent /\ exit'[p].claimed = exit[p].claimed
        /\ exit'[p].amount = n
    BY <1>1, <1>6 DEF ExitState
  <2>7. n > 0
    BY DEF LiveBuild
  <2>2. Position(p)' = Position(p)
    BY <1>6, <2>1 DEF Position
  <2>3. Owns(p)'
    BY <1>1, <2>1, <2>2 DEF Owns, Working
  <2>4. OwnBundle(p)'
    BY <1>1, <2>1, <2>7 DEF OwnBundle
  <2>5. ~HasLanded(p)'
    BY <1>1, <2>1 DEF HasLanded
  <2>6. TakesPart(p)'
    BY <1>4, <1>6, <2>1, <2>5, <1>2 DEF TakesPart
  <2> QED  BY <2>3, <2>4, <2>6
<1> HIDE DEF x
<1> QED  BY <1>5, <1>6, <1>7, OnlyOwnStep

\* Another bundle leaves those that were sent before alone.
LEMMA AnotherBundle ==
    ASSUME SalesInv, NEW p \in LiveLoops, exit[p].pc = "send", Len(bundles) < MaxBundles, Sent(p),
           UNCHANGED <<book, wallet>>,
           NEW x \in ExitState, Goes(p, x), Owns(p)', TakesPart(p)', OwnBundle(p)'
    PROVE  SalesInv'
<1>1. exit[p] \in ExitState /\ exit[p].mint \in LiveMints
  BY DEF SalesInv, LiveTypes, Owns, Working
<1>2. exit[p].amount \in 1..Stake
  BY <1>1, LiveAssumption DEF ExitState, SalesInv, OwnBundle
<1> DEFINE b == [mint |-> exit[p].mint, amount |-> exit[p].amount, fate |-> "flying"]
<1>3. b \in Bundle
  BY <1>1, <1>2 DEF Bundle
<1>4. bundles' = Append(bundles, b) /\ bundles \in Seq(Bundle)
  BY DEF Sent, SalesInv, LiveTypes, LiveTypeOK
<1> HIDE DEF b
<1>5. /\ bundles' \in Seq(Bundle) /\ Len(bundles') = Len(bundles) + 1 /\ Len(bundles) \in Nat
      /\ \A i \in 1..Len(bundles): bundles'[i] = bundles[i]
  BY <1>3, <1>4
<1>6. LiveTypes' /\ WalletIsBooked'
  BY <1>5, LiveAssumption DEF SalesInv, LiveTypes, LiveTypeOK, WalletIsBooked, Goes
<1>7. ASSUME NEW q \in LiveLoops, q # p PROVE Owns(q)' /\ TakesPart(q)' /\ OwnBundle(q)'
  <2>1. exit'[q] = exit[q] /\ exit'[q] \in ExitState /\ Owns(q) /\ TakesPart(q) /\ OwnBundle(q)
    BY <1>7 DEF SalesInv, LiveTypes, Goes
  <2>2. exit[q].pc = "wait" => bundles'[exit[q].bundle] = bundles[exit[q].bundle]
    BY <1>5, <2>1 DEF OwnBundle
  <2>3. Owns(q)'
    BY <2>1 DEF Owns, Position
  <2>4. OwnBundle(q)'
    BY <1>5, <2>1, <2>2 DEF OwnBundle
  <2>5. HasLanded(q)' = HasLanded(q)
    BY <2>1, <2>2 DEF HasLanded
  <2>6. TakesPart(q)'
    BY <2>1, <2>5 DEF TakesPart
  <2> QED  BY <2>3, <2>4, <2>6
<1> QED  BY <1>6, <1>7 DEF SalesInv
LEMMA SalesInvSend ==
    ASSUME SalesInv, NEW p \in LiveLoops, LiveSend(p)
    PROVE  SalesInv'
<1> DEFINE x == [exit[p] EXCEPT !.pc = "wait", !.bundle = Len(bundles) + 1]
           b == [mint |-> exit[p].mint, amount |-> exit[p].amount, fate |-> "flying"]
<1>1. /\ exit[p] \in ExitState /\ exit[p].pc = "send"
      /\ Owns(p) /\ TakesPart(p) /\ OwnBundle(p)
      /\ bundles \in Seq(Bundle) /\ Len(bundles) \in Nat
  BY DEF SalesInv, LiveTypes, LiveTypeOK, LiveSend
<1>2. x \in ExitState
  <2> DEFINE k == Len(bundles) + 1
  <2>1. k \in Nat
    BY <1>1
  <2> HIDE DEF k
  <2> QED  BY <1>1, <2>1 DEF ExitState, Working, k
<1>3. Goes(p, x) /\ exit'[p] = x /\ UNCHANGED <<book, wallet>>
  BY DEF LiveSend, Goes, SalesInv, LiveTypes
<1>4. /\ exit'[p].pc = "wait" /\ exit'[p].mint = exit[p].mint /\ exit'[p].landed = exit[p].landed
      /\ exit'[p].percent = exit[p].percent /\ exit'[p].claimed = exit[p].claimed
      /\ exit'[p].amount = exit[p].amount /\ exit'[p].bundle = Len(bundles) + 1
  BY <1>1, <1>3 DEF ExitState
<1> HIDE DEF x
<1>5. /\ Len(bundles') = Len(bundles) + 1
      /\ bundles'[Len(bundles) + 1].mint = exit[p].mint
      /\ bundles'[Len(bundles) + 1].amount = exit[p].amount
      /\ bundles'[Len(bundles) + 1].fate = "flying"
  <2>1. b.mint = exit[p].mint /\ b.amount = exit[p].amount /\ b.fate = "flying"
    OBVIOUS
  <2>2. bundles' = Append(bundles, b)
    BY DEF LiveSend, Sent
  <2>3. Len(bundles') = Len(bundles) + 1 /\ bundles'[Len(bundles) + 1] = b
    <3> HIDE DEF b
    <3> QED  BY <1>1, <2>2
  <2> QED  BY <2>1, <2>3
<1>6. Owns(p)'
  BY <1>1, <1>3, <1>4 DEF Owns, Working, Position
<1>7. OwnBundle(p)'
  BY <1>1, <1>4, <1>5 DEF OwnBundle
<1>8. ~HasLanded(p)'
  BY <1>1, <1>4, <1>5 DEF HasLanded, OwnBundle
<1>9. TakesPart(p)'
  BY <1>1, <1>3, <1>4, <1>8 DEF TakesPart
<1> QED  BY <1>1, <1>2, <1>3, <1>6, <1>7, <1>9, AnotherBundle DEF LiveSend

LEMMA SalesInvSendFails ==
    ASSUME SalesInv, NEW p \in LiveLoops, LiveSendFails(p)
    PROVE  SalesInv'
<1> DEFINE x == [exit[p] EXCEPT !.pc = "file"]
<1>1. /\ exit[p] \in ExitState /\ exit[p].pc = "send"
      /\ Owns(p) /\ TakesPart(p) /\ OwnBundle(p)
  BY DEF SalesInv, LiveTypes, LiveSendFails
<1>2. x \in ExitState
  BY <1>1 DEF ExitState, Working
<1>3. Goes(p, x) /\ exit'[p] = x /\ UNCHANGED <<book, wallet>>
  BY DEF LiveSendFails, Goes, Step, SalesInv, LiveTypes
<1>4. /\ exit'[p].pc = "file" /\ exit'[p].mint = exit[p].mint /\ exit'[p].landed = exit[p].landed
      /\ exit'[p].percent = exit[p].percent /\ exit'[p].claimed = exit[p].claimed
      /\ exit'[p].amount = exit[p].amount
  BY <1>1, <1>3 DEF ExitState
<1> HIDE DEF x
<1>5. Owns(p)' /\ OwnBundle(p)' /\ ~HasLanded(p)'
  BY <1>1, <1>3, <1>4 DEF Owns, OwnBundle, HasLanded, Working, Position
<1>6. TakesPart(p)'
  BY <1>1, <1>3, <1>4, <1>5 DEF TakesPart
<1>7. CASE UNCHANGED bundles
  BY <1>2, <1>3, <1>5, <1>6, <1>7, OnlyOwnStep
<1>8. CASE Len(bundles) < MaxBundles /\ Sent(p)
  BY <1>1, <1>2, <1>3, <1>5, <1>6, <1>8, AnotherBundle
<1> QED  BY <1>7, <1>8 DEF LiveSendFails

\* What is seen to have landed has been taken from the wallet.
LEMMA SalesInvWait ==
    ASSUME SalesInv, NEW p \in LiveLoops, LiveWait(p)
    PROVE  SalesInv'
<1> DEFINE f == Proven(exit[p].bundle) /\ exit'[p].landed
<1>1. /\ exit[p] \in ExitState /\ exit[p].pc = "wait" /\ exit[p].landed = FALSE
      /\ Owns(p) /\ TakesPart(p) /\ OwnBundle(p)
  <2>1. exit[p] \in ExitState /\ exit[p].pc = "wait" /\ Owns(p) /\ TakesPart(p) /\ OwnBundle(p)
    BY DEF SalesInv, LiveTypes, LiveWait
  <2> QED  BY <2>1 DEF OwnBundle, ExitState
<1>2. PICK x \in ExitState:
         /\ Goes(p, x) /\ x.pc = "file" /\ x.mint = exit[p].mint /\ x.percent = exit[p].percent
         /\ x.claimed = exit[p].claimed /\ x.amount = exit[p].amount
         /\ x.landed => bundles[exit[p].bundle].fate = "landed"
  <2>1. CASE Step(p, "file")
    <3>1. /\ [exit[p] EXCEPT !.pc = "file"] \in ExitState
          /\ Goes(p, [exit[p] EXCEPT !.pc = "file"])
      BY <1>1, <2>1 DEF ExitState, Working, Step
    <3> QED  BY <1>1, <3>1 DEF ExitState
  <2>2. CASE Proven(exit[p].bundle) /\ Goes(p, [exit[p] EXCEPT !.pc = "file", !.landed = TRUE])
    <3>1. [exit[p] EXCEPT !.pc = "file", !.landed = TRUE] \in ExitState
      BY <1>1 DEF ExitState, Working
    <3> QED  BY <1>1, <2>2, <3>1 DEF ExitState, Proven
  <2> QED  BY <2>1, <2>2 DEF LiveWait
<1>3. exit'[p] = x /\ UNCHANGED <<book, wallet, bundles>>
  BY <1>2 DEF LiveWait, Goes, SalesInv, LiveTypes
<1>4. Owns(p)' /\ OwnBundle(p)'
  BY <1>1, <1>2, <1>3 DEF Owns, OwnBundle, Working, Position
<1>5. HasLanded(p)' => HasLanded(p)
  BY <1>1, <1>2, <1>3 DEF HasLanded
<1>6. TakesPart(p)'
  BY <1>1, <1>2, <1>3, <1>5 DEF TakesPart
<1> QED  BY <1>2, <1>3, <1>4, <1>6, OnlyOwnStep

LEMMA SalesInvFile ==
    ASSUME SalesInv, NEW p \in LiveLoops, LiveFile(p)
    PROVE  SalesInv'
<1> DEFINE x == [exit[p] EXCEPT !.pc = "sell"]
<1>1. CASE Step(p, "release")
  BY <1>1, SalesInvGivesUp DEF LiveFile, Working
<1>2. CASE exit[p].landed /\ Step(p, "sell")
  <2>1. /\ exit[p] \in ExitState /\ exit[p].pc = "file"
        /\ Owns(p) /\ TakesPart(p) /\ OwnBundle(p)
    BY DEF SalesInv, LiveTypes, LiveFile
  <2>2. x \in ExitState
    BY <2>1 DEF ExitState, Working
  <2>3. Goes(p, x) /\ exit'[p] = x /\ UNCHANGED <<book, wallet, bundles>>
    BY <1>2 DEF LiveFile, Goes, Step, SalesInv, LiveTypes
  <2>4. /\ exit'[p].pc = "sell" /\ exit'[p].mint = exit[p].mint
        /\ exit'[p].landed = exit[p].landed /\ exit'[p].percent = exit[p].percent
        /\ exit'[p].claimed = exit[p].claimed /\ exit'[p].amount = exit[p].amount
    BY <2>1, <2>3 DEF ExitState
  <2> HIDE DEF x
  <2>5. Owns(p)' /\ OwnBundle(p)' /\ HasLanded(p)
    BY <1>2, <2>1, <2>3, <2>4 DEF Owns, OwnBundle, HasLanded, Working, Position
  <2>6. TakesPart(p)'
    BY <2>1, <2>3, <2>4, <2>5 DEF TakesPart
  <2> QED  BY <2>2, <2>3, <2>5, <2>6, OnlyOwnStep
<1> QED  BY <1>1, <1>2 DEF LiveFile
\* A sale that is booked has landed: the wallet holds no more than what is left.
LEMMA SalesInvSell ==
    ASSUME SalesInv, NEW p \in LiveLoops, LiveSell(p)
    PROVE  SalesInv'
<1> DEFINE sold == AfterSelling(Position(p), exit[p])
           w0   == wallet[exit[p].mint]
<1>1. /\ exit[p] \in ExitState /\ exit[p].pc = "sell" /\ exit[p].landed
      /\ Owns(p) /\ TakesPart(p) /\ exit[p].mint \in LiveMints /\ Position(p) \in LivePosition
      /\ exit[p].percent \in {50, 100} /\ w0 \in 0..Stake
      /\ Position(p).claim = p /\ Position(p).amount = exit[p].claimed
  BY DEF SalesInv, LiveTypes, LiveTypeOK, LiveSell, Owns, OwnBundle, Working, Position
<1>2. CASE UNCHANGED book
  BY <1>2, SalesInvIdle DEF LiveSell
<1>3. CASE Change(p, sold)
  <2>1. sold \in LivePosition /\ \A w \in 0..exit[p].claimed:
           w - Part(exit[p].percent, w) <= sold.amount
    BY <1>1, AfterSale
  <2>2. w0 <= sold.amount
    <3>1. PICK w \in 0..exit[p].claimed:
             exit[p].amount = Part(exit[p].percent, w) /\ w0 <= w - exit[p].amount
      BY <1>1 DEF TakesPart, HasLanded
    <3>2. w0 <= w - Part(exit[p].percent, w) /\ w - Part(exit[p].percent, w) <= sold.amount
      BY <2>1, <3>1
    <3>3. sold.amount \in 0..Stake /\ w \in 0..Stake /\ Part(exit[p].percent, w) \in 0..w
      BY <1>1, <2>1, PartOfNumber, LiveAssumption DEF LivePosition, ExitState
    <3> HIDE DEF sold, w0
    <3> QED  BY <1>1, <3>2, <3>3, LiveAssumption
  <2>3. NoExitYet \in ExitState
    BY LiveAssumption DEF NoExitYet, ExitState
  <2>4. Goes(p, NoExitYet) /\ exit'[p] = NoExitYet /\ UNCHANGED <<wallet, bundles>>
    BY DEF LiveSell, Goes, SalesInv, LiveTypes
  <2>5. Owns(p)' /\ TakesPart(p)' /\ OwnBundle(p)'
    BY <2>4 DEF NoExitYet, Owns, TakesPart, OwnBundle, Working
  <2> HIDE DEF sold
  <2> QED  BY <1>1, <1>3, <2>1, <2>2, <2>3, <2>4, <2>5, OwnPosition
<1> QED  BY <1>2, <1>3 DEF LiveSell

LEMMA SalesInvRelease ==
    ASSUME SalesInv, NEW p \in LiveLoops, LiveRelease(p)
    PROVE  SalesInv'
<1> DEFINE pos == [Position(p) EXCEPT !.pending = FALSE, !.claim = NoLoop]
<1>1. /\ exit[p].mint \in LiveMints /\ Position(p) \in LivePosition
      /\ Position(p).claim = p
  BY DEF SalesInv, LiveTypes, LiveTypeOK, LiveRelease, Owns, Working, Position
<1>2. CASE UNCHANGED book
  BY <1>2, SalesInvIdle DEF LiveRelease
<1>3. CASE Change(p, pos)
  <2>1. pos \in LivePosition /\ pos.amount = Position(p).amount
    BY <1>1 DEF LivePosition
  <2>2. wallet[exit[p].mint] <= pos.amount
    BY <1>1, <2>1 DEF SalesInv, WalletIsBooked, Position
  <2>3. NoExitYet \in ExitState
    BY LiveAssumption DEF NoExitYet, ExitState
  <2>4. Goes(p, NoExitYet) /\ exit'[p] = NoExitYet /\ UNCHANGED <<wallet, bundles>>
    BY DEF LiveRelease, Goes, SalesInv, LiveTypes
  <2>5. Owns(p)' /\ TakesPart(p)' /\ OwnBundle(p)'
    BY <2>4 DEF NoExitYet, Owns, TakesPart, OwnBundle, Working
  <2> HIDE DEF pos
  <2> QED  BY <1>1, <1>3, <2>1, <2>2, <2>3, <2>4, <2>5, OwnPosition
<1> QED  BY <1>2, <1>3 DEF LiveRelease

\* A bundle that lands takes its part from the wallet, also if its sender is gone.
LEMMA SalesInvLand ==
    ASSUME SalesInv, NEW b \in 1..Len(bundles), Land(b)
    PROVE  SalesInv'
<1> DEFINE m == bundles[b].mint
           n == bundles[b].amount
<1>1. /\ bundles \in Seq(Bundle) /\ bundles[b] \in Bundle /\ m \in LiveMints /\ n \in 1..Stake
      /\ wallet \in [LiveMints -> 0..Stake] /\ wallet[m] \in 0..Stake /\ wallet[m] >= n
  <2>1. bundles \in Seq(Bundle) /\ wallet \in [LiveMints -> 0..Stake] /\ wallet[m] >= n
    BY DEF SalesInv, LiveTypes, LiveTypeOK, Land
  <2>2. bundles[b] \in Bundle
    BY <2>1
  <2>3. m \in LiveMints /\ n \in 1..Stake
    BY <2>2 DEF Bundle
  <2> HIDE DEF m, n
  <2> QED  BY <2>1, <2>2, <2>3
<1>2. wallet[m] - n \in 0..Stake
  <2> DEFINE v == wallet[m]
  <2>1. v \in 0..Stake /\ n \in 1..Stake /\ v >= n /\ Stake \in Nat
    BY <1>1, LiveAssumption
  <2> HIDE DEF v, n
  <2>2. v - n \in 0..Stake
    BY <2>1
  <2> QED  BY <2>2 DEF v
<1>3. /\ wallet' = [wallet EXCEPT ![m] = wallet[m] - n]
      /\ wallet' \in [LiveMints -> 0..Stake]
      /\ \A k \in LiveMints: wallet'[k] <= wallet[k]
      /\ wallet'[m] = wallet[m] - n
  <2>1. wallet' = [wallet EXCEPT ![m] = wallet[m] - n]
    BY DEF Land
  <2> HIDE DEF m, n
  <2> QED  BY <1>1, <1>2, <2>1, LiveAssumption
<1>4. /\ bundles' \in Seq(Bundle) /\ Len(bundles') = Len(bundles)
      /\ \A i \in 1..Len(bundles): /\ bundles'[i].mint = bundles[i].mint
                                   /\ bundles'[i].amount = bundles[i].amount
                                   /\ i # b => bundles'[i] = bundles[i]
  <2>1. bundles' = [bundles EXCEPT ![b] = [bundles[b] EXCEPT !.fate = "landed"]]
    BY DEF Land
  <2>2. [bundles[b] EXCEPT !.fate = "landed"] \in Bundle
    BY <1>1 DEF Bundle
  <2>3. /\ [bundles[b] EXCEPT !.fate = "landed"].mint = bundles[b].mint
        /\ [bundles[b] EXCEPT !.fate = "landed"].amount = bundles[b].amount
    BY <1>1 DEF Bundle
  <2> QED  BY <1>1, <2>1, <2>2, <2>3
<1> HIDE DEF m, n
<1>5. LiveTypes' /\ WalletIsBooked'
  <2>1. WalletIsBooked'
    <3> SUFFICES ASSUME NEW k \in LiveMints PROVE wallet'[k] <= book'[k].amount
      BY DEF WalletIsBooked
    <3>1. wallet'[k] <= wallet[k] /\ wallet[k] <= book[k].amount /\ book' = book
      BY <1>3 DEF SalesInv, WalletIsBooked, Land
    <3>2. wallet'[k] \in 0..Stake /\ wallet[k] \in 0..Stake /\ book[k].amount \in 0..Stake
      BY <1>1, <1>3 DEF SalesInv, LiveTypes, LiveTypeOK, LivePosition
    <3> QED  BY <3>1, <3>2
  <2> QED  BY <1>3, <1>4, <2>1 DEF SalesInv, LiveTypes, LiveTypeOK, Land
<1>6. ASSUME NEW p \in LiveLoops PROVE Owns(p)' /\ TakesPart(p)' /\ OwnBundle(p)'
  <2>1. /\ exit' = exit /\ book' = book /\ exit[p] \in ExitState
        /\ Owns(p) /\ TakesPart(p) /\ OwnBundle(p)
    BY DEF SalesInv, LiveTypes, Land
  <2>2. Owns(p)' /\ OwnBundle(p)'
    BY <1>4, <2>1 DEF Owns, OwnBundle, Position
  <2>3. TakesPart(p)'
    <3> SUFFICES ASSUME exit[p].pc \in {"send", "wait", "file", "sell"}
                 PROVE  \E w \in 0..exit[p].claimed:
                           /\ exit[p].amount = Part(exit[p].percent, w)
                           /\ wallet'[exit[p].mint] <= w
                           /\ HasLanded(p)' => wallet'[exit[p].mint] <= w - exit[p].amount
      BY <2>1 DEF TakesPart
    <3>1. PICK w \in 0..exit[p].claimed:
             /\ exit[p].amount = Part(exit[p].percent, w) /\ wallet[exit[p].mint] <= w
             /\ HasLanded(p) => wallet[exit[p].mint] <= w - exit[p].amount
      BY <2>1 DEF TakesPart
    <3>2. exit[p].mint \in LiveMints
      BY <2>1 DEF Owns, Working
    <3>3. /\ wallet[exit[p].mint] \in 0..Stake /\ wallet'[exit[p].mint] \in 0..Stake
          /\ wallet'[exit[p].mint] <= wallet[exit[p].mint] /\ w \in Nat
          /\ exit[p].amount \in 0..Stake
      BY <1>1, <1>3, <2>1, <3>2, LiveAssumption DEF ExitState
    <3> DEFINE old == wallet[exit[p].mint]
               new == wallet'[exit[p].mint]
               part == exit[p].amount
    <3>6. /\ old \in Int /\ new \in Int /\ w \in Int /\ part \in Int /\ new <= old /\ old <= w
          /\ HasLanded(p) => old <= w - part
      BY <3>1, <3>3, LiveAssumption
    <3>4. new <= w
      <4> HIDE DEF old, new, part
      <4> QED  BY <3>6
    <3>5. ASSUME HasLanded(p)' PROVE new <= w - part
      <4>1. CASE HasLanded(p)
        <5> HIDE DEF old, new, part
        <5> QED  BY <3>6, <4>1
      <4>2. CASE ~HasLanded(p)
        <5>1. exit[p].pc = "wait" /\ exit[p].bundle = b
          BY <1>4, <2>1, <3>5, <4>2 DEF HasLanded, OwnBundle
        <5>2. exit[p].mint = m /\ exit[p].amount = n
          BY <2>1, <5>1 DEF OwnBundle, m, n
        <5> QED  BY <1>1, <1>3, <3>1, <3>3, <5>2, LiveAssumption
      <4> QED  BY <4>1, <4>2
    <3> QED  BY <3>1, <3>4, <3>5
  <2> QED  BY <2>2, <2>3
<1> QED  BY <1>5, <1>6 DEF SalesInv

LEMMA SalesInvDrop ==
    ASSUME SalesInv, NEW b \in 1..Len(bundles), Drop(b)
    PROVE  SalesInv'
<1>1. bundles \in Seq(Bundle) /\ bundles[b] \in Bundle /\ bundles[b].fate = "flying"
  BY DEF SalesInv, LiveTypes, LiveTypeOK, Drop
<1>2. /\ bundles' \in Seq(Bundle) /\ Len(bundles') = Len(bundles)
      /\ \A i \in 1..Len(bundles): /\ bundles'[i].mint = bundles[i].mint
                                   /\ bundles'[i].amount = bundles[i].amount
                                   /\ bundles'[i].fate = "landed" => bundles[i].fate = "landed"
  <2>1. bundles' = [bundles EXCEPT ![b] = [bundles[b] EXCEPT !.fate = "failed"]]
    BY DEF Drop
  <2>2. [bundles[b] EXCEPT !.fate = "failed"] \in Bundle
    BY <1>1 DEF Bundle
  <2>3. /\ [bundles[b] EXCEPT !.fate = "failed"].mint = bundles[b].mint
        /\ [bundles[b] EXCEPT !.fate = "failed"].amount = bundles[b].amount
        /\ [bundles[b] EXCEPT !.fate = "failed"].fate = "failed"
    BY <1>1 DEF Bundle
  <2> QED  BY <1>1, <2>1, <2>2, <2>3
<1>3. LiveTypes' /\ WalletIsBooked'
  BY <1>2 DEF SalesInv, LiveTypes, LiveTypeOK, WalletIsBooked, Drop
<1>4. ASSUME NEW p \in LiveLoops PROVE Owns(p)' /\ TakesPart(p)' /\ OwnBundle(p)'
  <2>1. /\ exit' = exit /\ book' = book /\ wallet' = wallet
        /\ Owns(p) /\ TakesPart(p) /\ OwnBundle(p)
    BY DEF SalesInv, Drop
  <2>2. Owns(p)' /\ OwnBundle(p)'
    BY <1>2, <2>1 DEF Owns, OwnBundle, Position
  <2>3. HasLanded(p)' => HasLanded(p)
    BY <1>2, <2>1 DEF HasLanded, OwnBundle
  <2>4. TakesPart(p)'
    BY <2>1, <2>3 DEF TakesPart
  <2> QED  BY <2>2, <2>4
<1> QED  BY <1>3, <1>4 DEF SalesInv

LEMMA SalesInvNext == SalesInv /\ [LiveNext]_liveVars => SalesInv'
<1> SUFFICES ASSUME SalesInv, [LiveNext]_liveVars PROVE SalesInv'
  OBVIOUS
<1>1. ASSUME NEW p \in LiveLoops, LivePoll(p) PROVE SalesInv'
  BY <1>1, SalesInvQuiet DEF LivePoll
<1>2. ASSUME NEW p \in LiveLoops,
             LiveBuildFails(p) \/ LiveSellFails(p)
      PROVE SalesInv'
  BY <1>2, SalesInvGivesUp DEF LiveBuildFails, LiveSellFails, Working
<1>3. ASSUME NEW p \in LiveLoops, LiveCrash(p) PROVE SalesInv'
  BY <1>3, SalesInvIdle DEF LiveCrash
<1>4. CASE UNCHANGED liveVars
  BY <1>4, SalesInvQuiet DEF liveVars
<1> QED  BY <1>1, <1>2, <1>3, <1>4, SalesInvQuote, SalesInvClaim, SalesInvBuild, SalesInvSend,
            SalesInvSendFails, SalesInvWait, SalesInvFile, SalesInvSell, SalesInvRelease,
            SalesInvLand, SalesInvDrop DEF LiveNext, LiveStep

\* The ledger never writes off a token that is still in the wallet, for any stake, any
\* number of loops and bundles, and whatever dies or times out in between
\* (run_risk_loop, execute_sell, claim_position_exit).
THEOREM SoldHasLanded == LiveSpec => []WalletIsBooked
<1>1. SalesInv => WalletIsBooked
  BY DEF SalesInv
<1> QED  BY SalesInvInit, SalesInvNext, <1>1, PTL DEF LiveSpec

\* The position, the balance on the chain and the bundles stay well formed: a balance never
\* exceeds the stake, whatever lands late (run_risk_loop, execute_sell).
THEOREM LiveTypesHold == LiveSpec => []LiveTypeOK
<1>1. SalesInv => LiveTypeOK
  BY DEF SalesInv, LiveTypes
<1> QED  BY SalesInvInit, SalesInvNext, <1>1, PTL DEF LiveSpec
-----------------------------------------------------------------------------
(* RpcRouter: what calls and availabilities are *)

LEMMA ClosedIsOne == Closed \in Availability /\ Closed.circuit = "CLOSED"
BY RpcAssumption DEF Closed, Availability

LEMMA FailedIsOne ==
    ASSUME NEW a \in Availability, NEW f \in Failures, NEW delay \in Nat, NEW probe \in BOOLEAN
    PROVE  /\ Failed(a, f, delay, probe) \in Availability
           /\ Failed(a, f, delay, probe).circuit # "HALF_OPEN"
           /\ Failed(a, f, delay, probe).circuit = "OPEN" =>
                 Failed(a, f, delay, probe).cooldown >= LeaseTime
<1> DEFINE opens == probe \/ a.fails + 1 >= FailureThreshold
           retry == Larger(a.cooldown, delay)
           fails == IF a.fails + 1 > FailureThreshold THEN FailureThreshold ELSE a.fails + 1
           cool  == IF opens THEN Larger(retry, Cooldown) ELSE retry
           r     == [circuit |-> IF opens THEN "OPEN" ELSE "CLOSED", fails |-> fails,
                     cooldown |-> cool, lease |-> 0]
<1>1. a.fails \in 0..FailureThreshold /\ a.cooldown \in Nat
  BY DEF Availability
<1>2. /\ retry \in Nat /\ cool \in Nat /\ Cooldown \in Nat /\ LeaseTime \in Nat
      /\ Cooldown >= LeaseTime /\ (opens => cool >= Cooldown)
  BY <1>1, RpcAssumption DEF Larger
<1>3. fails \in 0..FailureThreshold
  BY <1>1, RpcAssumption
<1>4. CASE f = "terminal"
  BY <1>4, ClosedIsOne DEF Failed
<1>5. CASE f # "terminal"
  <2>1. Failed(a, f, delay, probe) = r
    BY <1>5 DEF Failed
  <2> HIDE DEF opens, retry, fails, cool
  <2>2. r \in Availability /\ r.circuit # "HALF_OPEN" /\ (r.circuit = "OPEN" => opens)
        /\ r.cooldown = cool
    BY <1>2, <1>3 DEF Availability
  <2> HIDE DEF r
  <2> QED  BY <1>2, <2>1, <2>2
<1> QED  BY <1>4, <1>5

LEMMA AgedIsOne ==
    ASSUME NEW a \in Availability
    PROVE  /\ Aged(a) \in Availability /\ Aged(a).circuit = a.circuit
           /\ Aged(a).cooldown = Less(a.cooldown) /\ Aged(a).lease = Less(a.lease)
<1>1. a.cooldown \in Nat /\ a.lease \in Nat
  BY DEF Availability
<1>2. Less(a.cooldown) \in Nat /\ Less(a.lease) \in Nat
  BY <1>1 DEF Less
<1>3. Aged(a) = [a EXCEPT !.cooldown = Less(a.cooldown), !.lease = Less(a.lease)]
  BY DEF Aged, Availability
<1>4. /\ Aged(a) \in Availability /\ Aged(a).circuit = a.circuit
      /\ Aged(a).cooldown = Less(a.cooldown) /\ Aged(a).lease = Less(a.lease)
  BY <1>2, <1>3 DEF Availability
<1> QED  BY <1>3, <1>4

LEMMA AgedStays ==
    ASSUME NEW a \in Availability, a.cooldown = 0, a.lease = 0
    PROVE  Aged(a) = a
<1>1. Less(0) = 0
  BY DEF Less
<1>2. Aged(a) = [a EXCEPT !.cooldown = 0, !.lease = 0]
  BY <1>1 DEF Aged, Availability
<1>3. [a EXCEPT !.cooldown = 0, !.lease = 0] = a
  BY DEF Availability
<1> QED  BY <1>2, <1>3

LEMMA LeasedIsOne ==
    ASSUME NEW a \in Availability, NEW c \in Calls, call[c].lease \in Nat
    PROVE  /\ Leased(a, c) \in Availability /\ Leased(a, c).circuit = "HALF_OPEN"
           /\ Leased(a, c).lease = call[c].lease
BY DEF Leased, Availability

LEMMA MigratedIsOne ==
    ASSUME NEW d \in Document, NEW m \in HeavyMethods
    PROVE  MigratedWide(d) \in Availability /\ MigratedScoped(d, m) \in Availability
BY ClosedIsOne DEF MigratedWide, MigratedScoped, Document

\* The availabilities and calls of every state; a lease never outlasts LeaseTime, and who
\* waits for its slot holds the lock of its provider.
Here(c)   == call[c].pc \in {"pacing", "sent"} => call[c].at \in 1..Len(Order(c))
Locked(c) == call[c].pc = "pacing" => call[c].used < AttemptBudget /\ held[Target(c)] = c
RpcTypes ==
    /\ RpcTypeOK
    /\ \A c \in Calls: Here(c) /\ Locked(c) /\ call[c].lease <= LeaseTime

LEMMA NewCallIsOne == NewCall \in CallState
BY RpcAssumption DEF NewCall, CallState

LEMMA EndedIsOne ==
    ASSUME NEW c \in Calls, call[c] \in CallState,
           NEW how \in {"answered", "exhausted", "vanished"}
    PROVE  Ended(c, how) \in CallState /\ Ended(c, how).pc = how /\ Ended(c, how).lease = 0
           /\ Ended(c, how).reached = call[c].reached
BY NewCallIsOne DEF Ended, NewCall, CallState

LEMMA OnwardIsOne ==
    ASSUME NEW r \in CallState
    PROVE  /\ Onward(r) \in CallState /\ Onward(r).pc = "next" /\ Onward(r).at = r.at + 1
           /\ Onward(r).lease = 0 /\ Onward(r).reached = r.reached /\ Onward(r).used = r.used
           /\ ~Onward(r).probe
<1>1. r.at + 1 \in Nat \ {0}
  BY DEF CallState
<1>2. 0 \in 0..LocalAttempts - 1
  BY RpcAssumption
<1> DEFINE k == r.at + 1
<1>3. Onward(r) = [r EXCEPT !.pc = "next", !.at = k, !.local = 0, !.probe = FALSE,
                            !.own = FALSE, !.lease = 0]
  BY DEF Onward, CallState
<1>4. k \in Nat \ {0}
  BY <1>1
<1> HIDE DEF k
<1>5. /\ Onward(r).pc = "next" /\ Onward(r).at = k
      /\ Onward(r).lease = 0 /\ Onward(r).reached = r.reached /\ Onward(r).used = r.used
      /\ ~Onward(r).probe
  BY <1>3 DEF CallState
<1>6. Onward(r) \in CallState
  <2> DEFINE s == [r EXCEPT !.pc = "next", !.at = k, !.local = 0]
  <2>1. s \in CallState
    BY <1>2, <1>4 DEF CallState
  <2> DEFINE t == [s EXCEPT !.probe = FALSE, !.own = FALSE]
  <2>2. Onward(r) = [t EXCEPT !.lease = 0]
    BY <1>3
  <2> HIDE DEF s
  <2>3. t \in CallState
    BY <2>1 DEF CallState
  <2> HIDE DEF t
  <2> QED  BY <2>2, <2>3 DEF CallState
<1> QED  BY <1>5, <1>6 DEF k

\* A step of c sets its own variables only.
LEMMA SetsOwn ==
    ASSUME call \in [Calls -> CallState], NEW c \in Calls, NEW x \in CallState, Set(c, x)
    PROVE  /\ call' \in [Calls -> CallState] /\ call'[c] = x
           /\ \A d \in Calls \ {c}: call'[d] = call[d]
BY DEF Set

LEMMA TargetIsProvider ==
    ASSUME NEW c \in Calls, call[c].at \in 1..Len(Order(c))
    PROVE  Target(c) \in Providers
BY OrderAssumption DEF Target
LEMMA RpcTypesInit == RpcInit => RpcTypes
<1> SUFFICES ASSUME RpcInit PROVE RpcTypes
  OBVIOUS
<1>1. PICK d \in [Providers -> UNION {Documents[p] : p \in Providers}]:
         /\ \A p \in Providers: d[p] \in Documents[p]
         /\ wide   = [p \in Providers |-> MigratedWide(d[p])]
         /\ scoped = [p \in Providers |-> [m \in HeavyMethods |-> MigratedScoped(d[p], m)]]
         /\ blamed = {p \in Providers : MigratedWide(d[p]) # Closed}
  BY DEF RpcInit
<1>2. \A p \in Providers: d[p] \in Document
  BY <1>1, DocumentAssumption
<1>3. wide \in [Providers -> Availability]
  <2>1. \A p \in Providers: MigratedWide(d[p]) \in Availability
    BY <1>2, ClosedIsOne DEF MigratedWide, Document
  <2> QED  BY <1>1, <2>1
<1>4. scoped \in [Providers -> [HeavyMethods -> Availability]]
  <2>1. \A p \in Providers, m \in HeavyMethods: MigratedScoped(d[p], m) \in Availability
    BY <1>2, MigratedIsOne
  <2> QED  BY <1>1, <2>1
<1>5. call \in [Calls -> CallState] /\ \A c \in Calls: call[c] = NewCall
  BY NewCallIsOne DEF RpcInit
<1>6. \A c \in Calls: Here(c) /\ Locked(c) /\ call[c].lease <= LeaseTime
  BY <1>5, RpcAssumption DEF Here, Locked, NewCall
<1>7. RpcTypeOK
  BY <1>1, <1>3, <1>4, <1>5, RpcAssumption DEF RpcInit, RpcTypeOK
<1> QED  BY <1>6, <1>7 DEF RpcTypes

\* A step of c in which nobody gives up, or is robbed of, the lock of a provider.
LEMMA RpcTypesStep ==
    ASSUME RpcTypes, NEW c \in Calls, NEW x \in CallState, Set(c, x),
           wide' \in [Providers -> Availability],
           scoped' \in [Providers -> [HeavyMethods -> Availability]],
           pace' \in [Providers -> 0..Interval], held' \in [Providers -> Calls \cup {NoCall}],
           blamed' \subseteq Providers, lost' \in 0..MaxLost,
           x.lease <= LeaseTime, Here(c)', Locked(c)',
           \A p \in Providers: held[p] \in Calls \ {c} => held'[p] = held[p]
    PROVE  RpcTypes'
<1>1. /\ call' \in [Calls -> CallState] /\ call'[c] = x
      /\ \A d \in Calls \ {c}: call'[d] = call[d]
  BY SetsOwn DEF RpcTypes, RpcTypeOK
<1>2. RpcTypeOK'
  BY <1>1 DEF RpcTypeOK
<1>3. ASSUME NEW d \in Calls \ {c} PROVE Here(d)' /\ Locked(d)' /\ call'[d].lease <= LeaseTime
  <2>1. call'[d] = call[d] /\ Here(d) /\ Locked(d) /\ call[d].lease <= LeaseTime
    BY <1>1 DEF RpcTypes
  <2>2. call[d].pc = "pacing" => Target(d) \in Providers /\ Target(d)' = Target(d)
    BY <2>1, TargetIsProvider DEF Here, Target
  <2> QED  BY <2>1, <2>2 DEF Here, Locked
<1> QED  BY <1>1, <1>2, <1>3 DEF RpcTypes

\* A call that ends, or goes on to the next provider, needs nothing to be typed.
LEMMA RpcTypesMoves ==
    ASSUME RpcTypes, NEW c \in Calls, NEW x \in CallState, Set(c, x),
           x.pc \notin {"pacing", "sent"}, x.lease <= LeaseTime,
           wide' \in [Providers -> Availability],
           scoped' \in [Providers -> [HeavyMethods -> Availability]],
           blamed' \subseteq Providers, UNCHANGED <<pace, held, lost>>
    PROVE  RpcTypes'
<1>1. call'[c] = x
  BY SetsOwn DEF RpcTypes, RpcTypeOK
<1>2. Here(c)' /\ Locked(c)'
  BY <1>1 DEF Here, Locked
<1> QED  BY <1>2, RpcTypesStep DEF RpcTypes, RpcTypeOK
LEMMA RpcTypesRefused ==
    ASSUME RpcTypes, NEW c \in Calls, Refused(c)
    PROVE  RpcTypes'
<1> DEFINE r == [call[c] EXCEPT !.reached = @ \cup {Target(c)}]
<1>1. call[c] \in CallState /\ Target(c) \in Providers
  <2>1. call[c] \in CallState
    BY DEF RpcTypes, RpcTypeOK
  <2>2. call[c].at \in 1..Len(Order(c))
    BY <2>1, OrderAssumption DEF Refused, MayReserve, CallState
  <2> QED  BY <2>1, <2>2, TargetIsProvider
<1>2. r \in CallState
  BY <1>1 DEF CallState
<1>3. Set(c, Onward(r)) /\ UNCHANGED <<wide, scoped, pace, held, blamed, lost>>
  BY DEF Refused
<1> HIDE DEF r
<1> DEFINE x == Onward(r)
<1>4. x \in CallState /\ x.pc = "next" /\ x.lease <= LeaseTime
  BY <1>2, OnwardIsOne, RpcAssumption
<1>5. Set(c, x)
  BY <1>3
<1> HIDE DEF x
<1> QED  BY <1>3, <1>4, <1>5, RpcTypesMoves DEF RpcTypes, RpcTypeOK

LEMMA RpcTypesReserve ==
    ASSUME RpcTypes, NEW c \in Calls, Reserve(c)
    PROVE  RpcTypes'
<1> DEFINE probe == Probes(wide[Target(c)])
           own   == Heavy(c) /\ Probes(scoped[Target(c)][CallMethod[c]])
           n     == IF probe \/ own THEN LeaseTime ELSE 0
           x     == [call[c] EXCEPT !.pc = "pacing", !.probe = probe, !.own = own, !.lease = n]
<1>1. /\ call[c] \in CallState /\ call[c].at \in 1..Len(Order(c)) /\ Target(c) \in Providers
      /\ held \in [Providers -> Calls \cup {NoCall}] /\ call[c].used < AttemptBudget
      /\ held[Target(c)] = NoCall
  <2>1. /\ call[c] \in CallState /\ held \in [Providers -> Calls \cup {NoCall}]
        /\ call[c].used < AttemptBudget /\ held[Target(c)] = NoCall
    BY DEF RpcTypes, RpcTypeOK, Reserve, MayReserve
  <2>2. call[c].at \in 1..Len(Order(c))
    BY <2>1, OrderAssumption DEF Reserve, MayReserve, CallState
  <2> QED  BY <2>1, <2>2, TargetIsProvider
<1>2. n \in Nat /\ n <= LeaseTime /\ probe \in BOOLEAN /\ own \in BOOLEAN
  BY RpcAssumption DEF Probes
<1>3. Set(c, x) /\ held' = [held EXCEPT ![Target(c)] = c]
      /\ UNCHANGED <<wide, scoped, pace, blamed, lost>>
  BY DEF Reserve
<1> HIDE DEF probe, own, n
<1>4. x \in CallState
  BY <1>1, <1>2 DEF CallState
<1>5. x.pc = "pacing" /\ x.at = call[c].at /\ x.used = call[c].used /\ x.lease = n
  BY <1>1 DEF CallState
<1> HIDE DEF x
<1>6. call'[c] = x
  BY <1>3, <1>4, SetsOwn DEF RpcTypes, RpcTypeOK
<1>7. Here(c)' /\ Locked(c)'
  BY <1>1, <1>3, <1>5, <1>6 DEF Here, Locked, Target
<1>8. /\ held' \in [Providers -> Calls \cup {NoCall}]
      /\ \A p \in Providers: held[p] \in Calls \ {c} => held'[p] = held[p]
  BY <1>1, <1>3, RpcAssumption
<1> QED  BY <1>2, <1>3, <1>4, <1>5, <1>7, <1>8, RpcTypesStep DEF RpcTypes, RpcTypeOK

\* The availabilities after a request was sent.
LEMMA SendLeases ==
    ASSUME RpcTypes, NEW c \in Calls, Send(c)
    PROVE  /\ wide' \in [Providers -> Availability]
           /\ scoped' \in [Providers -> [HeavyMethods -> Availability]]
<1>1. call[c] \in CallState /\ Target(c) \in Providers /\ call[c].lease \in Nat
      /\ wide \in [Providers -> Availability]
      /\ scoped \in [Providers -> [HeavyMethods -> Availability]]
  <2>1. call[c] \in CallState /\ wide \in [Providers -> Availability]
        /\ scoped \in [Providers -> [HeavyMethods -> Availability]]
    BY DEF RpcTypes, RpcTypeOK
  <2>2. Target(c) \in Providers
    BY TargetIsProvider DEF RpcTypes, Here, Send
  <2> QED  BY <2>1, <2>2 DEF CallState
<1>2. wide' \in [Providers -> Availability]
  <2>1. CASE call[c].probe
    <3>1. wide' = [wide EXCEPT ![Target(c)] = Leased(wide[Target(c)], c)]
      BY <2>1 DEF Send
    <3> QED  BY <1>1, <3>1, LeasedIsOne
  <2>2. CASE ~call[c].probe
    BY <1>1, <2>2 DEF Send
  <2> QED  BY <2>1, <2>2
<1>3. scoped' \in [Providers -> [HeavyMethods -> Availability]]
  <2>1. CASE call[c].own
    <3> DEFINE p == Target(c)
               m == CallMethod[c]
               row == [scoped[p] EXCEPT ![m] = Leased(scoped[p][m], c)]
    <3>1. scoped' = [scoped EXCEPT ![p] = row]
      BY <2>1 DEF Send
    <3>2. \A k \in HeavyMethods: Leased(scoped[p][k], c) \in Availability
      BY <1>1, LeasedIsOne
    <3>3. row \in [HeavyMethods -> Availability]
      BY <1>1, <3>2
    <3> HIDE DEF row, p
    <3> QED  BY <1>1, <3>1, <3>3
  <2>2. CASE ~call[c].own
    BY <1>1, <2>2 DEF Send
  <2> QED  BY <2>1, <2>2
<1> QED  BY <1>2, <1>3

LEMMA RpcTypesSend ==
    ASSUME RpcTypes, NEW c \in Calls, Send(c)
    PROVE  RpcTypes'
<1> DEFINE p == Target(c)
           k == call[c].used + 1
           x == [call[c] EXCEPT !.pc = "sent", !.used = k, !.reached = @ \cup {p}]
<1>1. /\ call[c] \in CallState /\ call[c].at \in 1..Len(Order(c)) /\ call[c].lease <= LeaseTime
      /\ held \in [Providers -> Calls \cup {NoCall}] /\ pace \in [Providers -> 0..Interval]
      /\ call[c].used < AttemptBudget /\ held[p] = c /\ p \in Providers
  <2>1. /\ call[c] \in CallState /\ call[c].at \in 1..Len(Order(c)) /\ call[c].lease <= LeaseTime
        /\ held \in [Providers -> Calls \cup {NoCall}] /\ pace \in [Providers -> 0..Interval]
        /\ call[c].used < AttemptBudget /\ held[p] = c
    BY DEF RpcTypes, RpcTypeOK, Send, Here, Locked
  <2> QED  BY <2>1, TargetIsProvider
<1>2. k \in 0..AttemptBudget
  <2> DEFINE u == call[c].used
  <2>1. u \in 0..AttemptBudget /\ u < AttemptBudget /\ AttemptBudget \in Nat
    BY <1>1, RpcAssumption DEF CallState
  <2> HIDE DEF u
  <2>2. u + 1 \in 0..AttemptBudget
    BY <2>1
  <2> QED  BY <2>2 DEF u
<1>3. /\ Set(c, x) /\ held' = [held EXCEPT ![p] = NoCall]
      /\ pace' = [pace EXCEPT ![p] = Interval] /\ UNCHANGED <<blamed, lost>>
  BY DEF Send
<1> HIDE DEF k, p
<1>4. x \in CallState /\ x.pc = "sent" /\ x.at = call[c].at /\ x.lease = call[c].lease
  BY <1>1, <1>2 DEF CallState
<1> HIDE DEF x
<1>5. call'[c] = x
  BY <1>3, <1>4, SetsOwn DEF RpcTypes, RpcTypeOK
<1>6. Here(c)' /\ Locked(c)'
  BY <1>1, <1>4, <1>5 DEF Here, Locked
<1>7. /\ held' \in [Providers -> Calls \cup {NoCall}] /\ pace' \in [Providers -> 0..Interval]
      /\ \A q \in Providers: held[q] \in Calls \ {c} => held'[q] = held[q]
  BY <1>1, <1>3, RpcAssumption
<1> QED  BY <1>1, <1>3, <1>4, <1>6, <1>7, SendLeases, RpcTypesStep DEF RpcTypes, RpcTypeOK
LEMMA RpcTypesSucceed ==
    ASSUME RpcTypes, NEW c \in Calls, Succeed(c)
    PROVE  RpcTypes'
<1> DEFINE p == Target(c)
           x == Ended(c, "answered")
           m == CallMethod[c]
<1>1. /\ call[c] \in CallState /\ wide \in [Providers -> Availability]
      /\ scoped \in [Providers -> [HeavyMethods -> Availability]] /\ blamed \subseteq Providers
  BY DEF RpcTypes, RpcTypeOK
<1>2. Set(c, x) /\ x \in CallState /\ x.pc = "answered" /\ x.lease <= LeaseTime
  BY <1>1, EndedIsOne, RpcAssumption DEF Succeed
<1>3. wide' \in [Providers -> Availability]
  BY <1>1, ClosedIsOne DEF Succeed
<1>4. scoped' \in [Providers -> [HeavyMethods -> Availability]]
  <2>1. CASE Heavy(c)
    <3> DEFINE row == [scoped[p] EXCEPT ![m] = Closed]
    <3>1. scoped' = [scoped EXCEPT ![p] = row]
      BY <2>1 DEF Succeed
    <3>2. p \in Providers => row \in [HeavyMethods -> Availability]
      BY <1>1, ClosedIsOne
    <3> HIDE DEF row, p
    <3> QED  BY <1>1, <3>1, <3>2
  <2>2. CASE ~Heavy(c)
    BY <1>1, <2>2 DEF Succeed
  <2> QED  BY <2>1, <2>2
<1>5. UNCHANGED <<pace, held, blamed, lost>>
  BY DEF Succeed
<1> HIDE DEF x
<1> QED  BY <1>1, <1>2, <1>3, <1>4, <1>5, RpcTypesMoves

\* The availabilities after a failure.
LEMMA FailRecords ==
    ASSUME RpcTypes, NEW c \in Calls, NEW f \in Failures, NEW delay \in Nat, Fail(c, f, delay)
    PROVE  /\ wide' \in [Providers -> Availability]
           /\ scoped' \in [Providers -> [HeavyMethods -> Availability]]
           /\ blamed' \subseteq Providers
<1> DEFINE p == Target(c)
           m == CallMethod[c]
           own == OwnFailure(m, f)
<1>1. /\ call[c] \in CallState /\ p \in Providers /\ wide \in [Providers -> Availability]
      /\ scoped \in [Providers -> [HeavyMethods -> Availability]] /\ blamed \subseteq Providers
      /\ call[c].probe \in BOOLEAN /\ call[c].own \in BOOLEAN
  <2>1. /\ call[c] \in CallState /\ wide \in [Providers -> Availability]
        /\ scoped \in [Providers -> [HeavyMethods -> Availability]] /\ blamed \subseteq Providers
    BY DEF RpcTypes, RpcTypeOK
  <2>2. p \in Providers
    BY TargetIsProvider DEF RpcTypes, Here, Fail
  <2> QED  BY <2>1, <2>2 DEF CallState
<1>2. wide' \in [Providers -> Availability]
  <2> DEFINE a == IF own THEN Closed ELSE Failed(wide[p], f, delay, call[c].probe)
  <2>1. a \in Availability
    BY <1>1, FailedIsOne, ClosedIsOne
  <2>2. wide' = [wide EXCEPT ![p] = a]
    BY DEF Fail
  <2> HIDE DEF a, p
  <2> QED  BY <1>1, <2>1, <2>2
<1>3. scoped' \in [Providers -> [HeavyMethods -> Availability]]
  <2> DEFINE row1 == [scoped[p] EXCEPT ![m] = Failed(scoped[p][m], f, delay, call[c].own)]
             row2 == [scoped[p] EXCEPT ![m] = [scoped[p][m] EXCEPT !.lease = 0]]
  <2>1. row1 \in [HeavyMethods -> Availability]
    <3>1. m \in HeavyMethods => Failed(scoped[p][m], f, delay, call[c].own) \in Availability
      BY <1>1, FailedIsOne
    <3> QED  BY <1>1, <3>1
  <2>2. row2 \in [HeavyMethods -> Availability]
    <3>1. m \in HeavyMethods => [scoped[p][m] EXCEPT !.lease = 0] \in Availability
      <4> SUFFICES ASSUME m \in HeavyMethods PROVE [scoped[p][m] EXCEPT !.lease = 0] \in Availability
        OBVIOUS
      <4> DEFINE b == scoped[p][m]
      <4>1. b \in Availability
        BY <1>1
      <4> HIDE DEF b
      <4>2. [b EXCEPT !.lease = 0] \in Availability
        BY <4>1 DEF Availability
      <4> QED  BY <4>2 DEF b
    <3> QED  BY <1>1, <3>1
  <2>3. \/ scoped' = [scoped EXCEPT ![p] = row1]
        \/ scoped' = [scoped EXCEPT ![p] = row2]
        \/ scoped' = scoped
    BY DEF Fail
  <2> HIDE DEF row1, row2, p
  <2> QED  BY <1>1, <2>1, <2>2, <2>3
<1>4. blamed' \subseteq Providers
  BY <1>1 DEF Fail
<1> QED  BY <1>2, <1>3, <1>4

\* A failed request is tried again here, or the call goes on to the next provider.
LEMMA FailGoesOn ==
    ASSUME RpcTypes, NEW c \in Calls, NEW f \in Failures, NEW delay \in Nat, Fail(c, f, delay)
    PROVE  \E x \in CallState:
              /\ Set(c, x) /\ x.lease = 0 /\ ~x.probe /\ x.reached = call[c].reached
              /\ x.used = call[c].used
              /\ \/ /\ x.pc = "sleep" /\ x.at = call[c].at
                    /\ AttemptBudget - x.used > Len(Order(c)) - x.at
                 \/ x.pc = "next" /\ x.at = call[c].at + 1
<1>1. call[c] \in CallState /\ call[c].local \in 0..LocalAttempts - 1
  <2>1. call[c] \in CallState
    BY DEF RpcTypes, RpcTypeOK
  <2> QED  BY <2>1 DEF CallState
<1>2. CASE RetriesHere(c, f, delay)
  <2> DEFINE k == call[c].local + 1
             y == [call[c] EXCEPT !.pc = "sleep", !.wait = delay, !.local = k]
             x == [y EXCEPT !.probe = FALSE, !.own = FALSE, !.lease = 0]
  <2>1. k \in 0..LocalAttempts - 1
    <3> DEFINE u == call[c].local
    <3>1. u \in 0..LocalAttempts - 1 /\ u + 1 < LocalAttempts /\ LocalAttempts \in Nat
      BY <1>1, <1>2, RpcAssumption DEF RetriesHere
    <3> HIDE DEF u
    <3>2. u + 1 \in 0..LocalAttempts - 1
      BY <3>1
    <3> QED  BY <3>2 DEF u
  <2>2. Set(c, x)
    BY <1>2 DEF Fail
  <2> HIDE DEF k
  <2>3. y \in CallState
    BY <1>1, <2>1 DEF CallState
  <2>4. y.pc = "sleep" /\ y.at = call[c].at /\ y.used = call[c].used /\ y.reached = call[c].reached
    BY <1>1 DEF CallState
  <2> HIDE DEF y
  <2>5. x \in CallState
    BY <2>3 DEF CallState
  <2>6. /\ x.pc = y.pc /\ x.at = y.at /\ x.used = y.used /\ x.reached = y.reached
        /\ x.lease = 0 /\ ~x.probe
    BY <2>3 DEF CallState
  <2> HIDE DEF x
  <2>7. AttemptBudget - call[c].used > Len(Order(c)) - call[c].at
    BY <1>2 DEF RetriesHere
  <2> QED  BY <2>2, <2>4, <2>5, <2>6, <2>7
<1>3. CASE ~RetriesHere(c, f, delay)
  <2> DEFINE x == Onward(call[c])
  <2>1. Set(c, x)
    BY <1>3 DEF Fail
  <2>2. /\ x \in CallState /\ x.pc = "next" /\ x.at = call[c].at + 1 /\ x.lease = 0
        /\ x.reached = call[c].reached /\ x.used = call[c].used /\ ~x.probe
    BY <1>1, OnwardIsOne
  <2> HIDE DEF x
  <2> QED  BY <2>1, <2>2
<1> QED  BY <1>2, <1>3
LEMMA RpcTypesFail ==
    ASSUME RpcTypes, NEW c \in Calls, NEW f \in Failures, NEW delay \in Nat, Fail(c, f, delay)
    PROVE  RpcTypes'
<1>1. PICK x \in CallState: Set(c, x) /\ x.lease = 0 /\ x.pc \in {"sleep", "next"}
  BY FailGoesOn
<1>2. x.lease <= LeaseTime
  BY <1>1, RpcAssumption
<1>3. UNCHANGED <<pace, held, lost>>
  BY DEF Fail
<1> QED  BY <1>1, <1>2, <1>3, FailRecords, RpcTypesMoves

LEMMA RpcTypesWake ==
    ASSUME RpcTypes, NEW c \in Calls, Wake(c)
    PROVE  RpcTypes'
<1> DEFINE x == [call[c] EXCEPT !.pc = "next"]
<1>1. call[c] \in CallState /\ call[c].lease <= LeaseTime
  BY DEF RpcTypes, RpcTypeOK
<1>2. x \in CallState /\ x.pc = "next" /\ x.lease = call[c].lease
  BY <1>1 DEF CallState
<1>3. Set(c, x)
  BY DEF Wake
<1> HIDE DEF x
<1> QED  BY <1>1, <1>2, <1>3, RpcTypesMoves DEF Wake, RpcTypes, RpcTypeOK

LEMMA RpcTypesExhaust ==
    ASSUME RpcTypes, NEW c \in Calls, Exhaust(c)
    PROVE  RpcTypes'
<1> DEFINE x == Ended(c, "exhausted")
<1>1. x \in CallState /\ x.pc = "exhausted" /\ x.lease <= LeaseTime
  BY EndedIsOne, RpcAssumption DEF RpcTypes, RpcTypeOK
<1>2. Set(c, x)
  BY DEF Exhaust
<1> HIDE DEF x
<1> QED  BY <1>1, <1>2, RpcTypesMoves DEF Exhaust, RpcTypes, RpcTypeOK

LEMMA RpcTypesVanish ==
    ASSUME RpcTypes, NEW c \in Calls, Vanish(c)
    PROVE  RpcTypes'
<1> DEFINE x == Ended(c, "vanished")
<1>1. x \in CallState /\ x.pc = "vanished" /\ x.lease <= LeaseTime
  BY EndedIsOne, RpcAssumption DEF RpcTypes, RpcTypeOK
<1>2. Set(c, x)
  BY DEF Vanish
<1> HIDE DEF x
<1>3. call'[c] = x
  BY <1>1, <1>2, SetsOwn DEF RpcTypes, RpcTypeOK
<1>4. Here(c)' /\ Locked(c)'
  BY <1>1, <1>3 DEF Here, Locked
<1>5. /\ held' \in [Providers -> Calls \cup {NoCall}]
      /\ \A p \in Providers: held[p] \in Calls \ {c} => held'[p] = held[p]
  BY DEF Vanish, RpcTypes, RpcTypeOK
<1>6. lost' \in 0..MaxLost
  <2>1. lost \in 0..MaxLost /\ lost < MaxLost /\ lost' = lost + 1
    BY DEF Vanish, RpcTypes, RpcTypeOK
  <2> QED  BY <2>1, RpcAssumption
<1>7. UNCHANGED <<wide, scoped, pace, blamed>>
  BY DEF Vanish
<1> QED  BY <1>1, <1>2, <1>4, <1>5, <1>6, <1>7, RpcTypesStep DEF RpcTypes, RpcTypeOK

\* A unit of time later a call is the same, but for what is left of its lease and sleep.
AgedCall(r) == [r EXCEPT !.lease = Less(@), !.wait = Less(@)]
LEMMA TickParts ==
    ASSUME Tick
    PROVE  /\ wide'   = [p \in Providers |-> Aged(wide[p])]
           /\ scoped' = [p \in Providers |-> [m \in HeavyMethods |-> Aged(scoped[p][m])]]
           /\ pace'   = [p \in Providers |-> Less(pace[p])]
           /\ call'   = [c \in Calls |-> AgedCall(call[c])]
           /\ UNCHANGED <<held, blamed, lost>>
BY Zenon DEF Tick, AgedCall

LEMMA TickOfCall ==
    ASSUME call \in [Calls -> CallState], Tick, NEW c \in Calls
    PROVE  /\ call'[c] \in CallState /\ call'[c].lease = Less(call[c].lease)
           /\ call'[c].pc = call[c].pc /\ call'[c].at = call[c].at
           /\ call'[c].used = call[c].used /\ call'[c].probe = call[c].probe
           /\ call'[c].reached = call[c].reached
<1> DEFINE l == Less(call[c].lease)
           w == Less(call[c].wait)
           x == [call[c] EXCEPT !.lease = l, !.wait = w]
<1>1. l \in Nat /\ w \in Nat
  BY DEF Less, CallState
<1>2. call'[c] = x
  <2>1. call'[c] = AgedCall(call[c]) /\ call[c] \in CallState
    BY TickParts
  <2> QED  BY <2>1 DEF AgedCall, CallState
<1> HIDE DEF l, w
<1>3. x \in CallState
  <2> DEFINE r == call[c]
  <2>1. r \in CallState /\ x = [r EXCEPT !.lease = l, !.wait = w]
    OBVIOUS
  <2> HIDE DEF r, x
  <2> QED  BY <1>1, <2>1 DEF CallState
<1>4. /\ x.lease = l /\ x.pc = call[c].pc /\ x.at = call[c].at /\ x.used = call[c].used
      /\ x.probe = call[c].probe /\ x.reached = call[c].reached
  BY DEF CallState
<1> QED  BY <1>2, <1>3, <1>4 DEF l

LEMMA RpcTypesTick ==
    ASSUME RpcTypes, Tick
    PROVE  RpcTypes'
<1>1. RpcTypeOK
  BY DEF RpcTypes
<1>2. wide' \in [Providers -> Availability]
  BY <1>1, AgedIsOne, TickParts DEF RpcTypeOK
<1>3. scoped' \in [Providers -> [HeavyMethods -> Availability]]
  <2>1. \A p \in Providers, m \in HeavyMethods: Aged(scoped[p][m]) \in Availability
    BY <1>1, AgedIsOne DEF RpcTypeOK
  <2> QED  BY <2>1, TickParts
<1>4. pace' \in [Providers -> 0..Interval]
  <2>1. \A p \in Providers: Less(pace[p]) \in 0..Interval
    BY <1>1, RpcAssumption DEF RpcTypeOK, Less
  <2> QED  BY <2>1, TickParts
<1>5. call' \in [Calls -> CallState]
  <2>1. \A c \in Calls: call'[c] \in CallState
    BY <1>1, TickOfCall DEF RpcTypeOK
  <2>2. call' = [c \in Calls |-> call'[c]]
    BY TickParts
  <2> QED  BY <2>1, <2>2
<1>6. ASSUME NEW c \in Calls PROVE Here(c)' /\ Locked(c)' /\ call'[c].lease <= LeaseTime
  <2>1. /\ call'[c].lease = Less(call[c].lease) /\ call'[c].pc = call[c].pc
        /\ call'[c].at = call[c].at /\ call'[c].used = call[c].used
        /\ call[c].lease \in Nat /\ call[c].lease <= LeaseTime
    BY <1>1, TickOfCall DEF RpcTypeOK, RpcTypes, CallState
  <2>2. Here(c)' /\ Locked(c)'
    BY <2>1, TickParts DEF Here, Locked, Target, RpcTypes
  <2>3. Less(call[c].lease) <= LeaseTime
    BY <2>1, RpcAssumption DEF Less
  <2> QED  BY <2>1, <2>2, <2>3
<1> QED  BY <1>1, <1>2, <1>3, <1>4, <1>5, <1>6, TickParts DEF RpcTypes, RpcTypeOK

\* What a step may be asked to wait.
LEMMA WaitsAreNumbers == \A f \in Failures: Waits(f) \subseteq Nat
BY RpcAssumption DEF Waits

LEMMA RpcTypesNext == RpcTypes /\ [RpcNext]_rpcVars => RpcTypes'
<1> SUFFICES ASSUME RpcTypes, [RpcNext]_rpcVars PROVE RpcTypes'
  OBVIOUS
<1>1. CASE UNCHANGED rpcVars
  BY <1>1 DEF rpcVars, RpcTypes, RpcTypeOK, Here, Locked, Target
<1> QED  BY <1>1, RpcTypesTick, RpcTypesVanish, RpcTypesRefused, RpcTypesReserve, RpcTypesSend,
            RpcTypesSucceed, RpcTypesWake, RpcTypesExhaust, RpcTypesFail, WaitsAreNumbers
         DEF RpcNext, CallStep
LEMMA RpcTypesHold == RpcSpec => []RpcTypes
BY RpcTypesInit, RpcTypesNext, PTL DEF RpcSpec

-----------------------------------------------------------------------------
(* RpcRouter: an attempt is left for every provider that is still to come.   *)

Reaches(r, c) ==
    /\ r.pc \in {"next", "sleep", "pacing", "sent"} =>
          \A i \in 1..Len(Order(c)): i < r.at => Order(c)[i] \in r.reached
    /\ r.pc \in {"next", "sleep", "pacing"} =>
          AttemptBudget - r.used >= Len(Order(c)) - r.at + 1
    /\ r.pc = "sent" => /\ AttemptBudget - r.used >= Len(Order(c)) - r.at
                        /\ Order(c)[r.at] \in r.reached
    /\ r.pc = "exhausted" => \A i \in 1..Len(Order(c)): Order(c)[i] \in r.reached
ReachInv == \A c \in Calls: AttemptBudget >= Len(Order(c)) => Reaches(call[c], c)

LEMMA ReachInvInit == RpcInit => ReachInv
<1>1. ASSUME RpcInit, NEW c \in Calls PROVE call[c] = NewCall /\ Len(Order(c)) \in Nat
  BY <1>1, OrderAssumption DEF RpcInit
<1> QED  BY <1>1, RpcAssumption DEF ReachInv, Reaches, NewCall

\* The call itself does what keeps an attempt for each; others stay as they are.
LEMMA ReachInvStep ==
    ASSUME RpcTypes, ReachInv, NEW c \in Calls, NEW x \in CallState, Set(c, x),
           AttemptBudget >= Len(Order(c)) => Reaches(x, c)
    PROVE  ReachInv'
<1>1. /\ call'[c] = x /\ \A d \in Calls \ {c}: call'[d] = call[d]
  BY SetsOwn DEF RpcTypes, RpcTypeOK
<1>2. ASSUME NEW d \in Calls, AttemptBudget >= Len(Order(d)) PROVE Reaches(call'[d], d)
  BY <1>1, <1>2 DEF ReachInv
<1> QED  BY <1>2 DEF ReachInv

\* What a call knows of itself at a step.
LEMMA ReachFacts ==
    ASSUME RpcTypes, ReachInv, NEW c \in Calls, AttemptBudget >= Len(Order(c))
    PROVE  /\ Reaches(call[c], c) /\ call[c] \in CallState
           /\ Len(Order(c)) \in Nat /\ call[c].at \in Nat \ {0} /\ call[c].used \in Nat
           /\ AttemptBudget \in Nat /\ (call[c].pc = "sent" => call[c].at <= Len(Order(c)))
<1>1. call[c] \in CallState
  BY DEF RpcTypes, RpcTypeOK
<1>3. AttemptBudget \in Nat
  BY RpcAssumption
<1>4. call[c].at \in Nat \ {0} /\ call[c].used \in 0..AttemptBudget
  BY <1>1 DEF CallState
<1>2. call[c].at \in Nat \ {0} /\ call[c].used \in Nat /\ AttemptBudget \in Nat
  BY <1>3, <1>4
<1> QED  BY <1>1, <1>2, OrderAssumption DEF ReachInv, RpcTypes, Here

LEMMA ReachInvRefused ==
    ASSUME RpcTypes, ReachInv, NEW c \in Calls, Refused(c)
    PROVE  ReachInv'
<1> DEFINE r == [call[c] EXCEPT !.reached = @ \cup {Target(c)}]
           x == Onward(r)
<1>1. call[c] \in CallState /\ Target(c) \in Providers
  <2>1. call[c] \in CallState
    BY DEF RpcTypes, RpcTypeOK
  <2>2. call[c].at \in 1..Len(Order(c))
    BY <2>1, OrderAssumption DEF Refused, MayReserve, CallState
  <2> QED  BY <2>1, <2>2, TargetIsProvider
<1>2. /\ r \in CallState /\ r.at = call[c].at /\ r.used = call[c].used
      /\ r.reached = call[c].reached \cup {Target(c)}
  BY <1>1 DEF CallState
<1>3. Set(c, x)
  BY DEF Refused
<1> HIDE DEF r
<1>4. /\ x \in CallState /\ x.pc = "next" /\ x.at = call[c].at + 1 /\ x.used = call[c].used
      /\ x.reached = call[c].reached \cup {Order(c)[call[c].at]}
  BY <1>2, OnwardIsOne DEF Target
<1> HIDE DEF x
<1>5. ASSUME AttemptBudget >= Len(Order(c)) PROVE Reaches(x, c)
  <2>1. call[c].pc = "next"
    BY DEF Refused, MayReserve
  <2>2. /\ \A i \in 1..Len(Order(c)): i < call[c].at => Order(c)[i] \in call[c].reached
        /\ AttemptBudget - call[c].used >= Len(Order(c)) - call[c].at + 1
        /\ Len(Order(c)) \in Nat /\ call[c].at \in Nat /\ call[c].used \in Nat
        /\ AttemptBudget \in Nat
    BY <1>5, <2>1, ReachFacts DEF Reaches
  <2>3. \A i \in 1..Len(Order(c)): i < x.at => Order(c)[i] \in x.reached
    BY <1>4, <2>2
  <2>4. AttemptBudget - x.used >= Len(Order(c)) - x.at + 1
    BY <1>4, <2>2
  <2> QED  BY <1>4, <2>3, <2>4 DEF Reaches
<1> QED  BY <1>3, <1>4, <1>5, ReachInvStep

\* A step from one place to another at the same provider keeps what was reached.
LEMMA ReachInvStays ==
    ASSUME RpcTypes, ReachInv, NEW c \in Calls, NEW x \in CallState, Set(c, x),
           call[c].pc \in {"next", "sleep"}, x.pc \in {"next", "sleep", "pacing"},
           x.at = call[c].at, x.used = call[c].used, x.reached = call[c].reached
    PROVE  ReachInv'
<1>1. ASSUME AttemptBudget >= Len(Order(c)) PROVE Reaches(x, c)
  BY <1>1, ReachFacts DEF Reaches
<1> QED  BY <1>1, ReachInvStep

LEMMA ReachInvSend ==
    ASSUME RpcTypes, ReachInv, NEW c \in Calls, Send(c)
    PROVE  ReachInv'
<1> DEFINE k == call[c].used + 1
           x == [call[c] EXCEPT !.pc = "sent", !.used = k, !.reached = @ \cup {Target(c)}]
<1>1. /\ call[c] \in CallState /\ call[c].pc = "pacing" /\ call[c].at \in 1..Len(Order(c))
      /\ call[c].used < AttemptBudget
  BY DEF RpcTypes, RpcTypeOK, Send, Here, Locked
<1>2. k \in 0..AttemptBudget /\ Target(c) \in Providers
  <2> DEFINE u == call[c].used
  <2>1. u \in 0..AttemptBudget /\ u < AttemptBudget /\ AttemptBudget \in Nat
    BY <1>1, RpcAssumption DEF CallState
  <2> HIDE DEF u
  <2>2. u + 1 \in 0..AttemptBudget
    BY <2>1
  <2> QED  BY <1>1, <2>2, TargetIsProvider DEF u
<1>3. Set(c, x)
  BY DEF Send
<1>6. k = call[c].used + 1
  OBVIOUS
<1> HIDE DEF k
<1>4. /\ x \in CallState /\ x.pc = "sent" /\ x.at = call[c].at /\ x.used = k
      /\ x.reached = call[c].reached \cup {Order(c)[call[c].at]}
  BY <1>1, <1>2 DEF CallState, Target
<1> HIDE DEF x
<1>5. ASSUME AttemptBudget >= Len(Order(c)) PROVE Reaches(x, c)
  <2>1. /\ \A i \in 1..Len(Order(c)): i < call[c].at => Order(c)[i] \in call[c].reached
        /\ AttemptBudget - call[c].used >= Len(Order(c)) - call[c].at + 1
        /\ Len(Order(c)) \in Nat /\ call[c].at \in Nat /\ call[c].used \in Nat
        /\ AttemptBudget \in Nat
    BY <1>1, <1>5, ReachFacts DEF Reaches
  <2>2. AttemptBudget - x.used >= Len(Order(c)) - x.at
    <3> DEFINE n == Len(Order(c))
               u == call[c].used
               a == call[c].at
    <3>1. /\ AttemptBudget \in Nat /\ n \in Nat /\ u \in Nat /\ a \in Nat
          /\ AttemptBudget - u >= n - a + 1 /\ x.used = u + 1 /\ x.at = a
      BY <1>4, <1>6, <2>1
    <3> HIDE DEF n, u, a
    <3>2. AttemptBudget - (u + 1) >= n - a
      BY <3>1
    <3> QED  BY <3>1, <3>2 DEF n
  <2> QED  BY <1>4, <2>1, <2>2 DEF Reaches
<1> QED  BY <1>3, <1>4, <1>5, ReachInvStep

LEMMA ReachInvFail ==
    ASSUME RpcTypes, ReachInv, NEW c \in Calls, NEW f \in Failures, NEW delay \in Nat,
           Fail(c, f, delay)
    PROVE  ReachInv'
<1>1. PICK x \in CallState:
         /\ Set(c, x) /\ x.reached = call[c].reached /\ x.used = call[c].used
         /\ \/ /\ x.pc = "sleep" /\ x.at = call[c].at
               /\ AttemptBudget - x.used > Len(Order(c)) - x.at
            \/ x.pc = "next" /\ x.at = call[c].at + 1
  BY FailGoesOn
<1>2. ASSUME AttemptBudget >= Len(Order(c)) PROVE Reaches(x, c)
  <2>1. call[c].pc = "sent"
    BY DEF Fail
  <2>2. /\ \A i \in 1..Len(Order(c)): i < call[c].at => Order(c)[i] \in call[c].reached
        /\ Order(c)[call[c].at] \in call[c].reached
        /\ AttemptBudget - call[c].used >= Len(Order(c)) - call[c].at
        /\ Len(Order(c)) \in Nat /\ call[c].at \in Nat /\ call[c].used \in Nat
        /\ AttemptBudget \in Nat
    BY <1>2, <2>1, ReachFacts DEF Reaches
  <2> DEFINE n == Len(Order(c))
             u == call[c].used
             a == call[c].at
  <2>5. /\ AttemptBudget \in Nat /\ n \in Nat /\ u \in Nat /\ a \in Nat /\ x.used = u
        /\ AttemptBudget - u >= n - a
        /\ (x.at = a /\ AttemptBudget - u > n - a) \/ x.at = a + 1
    BY <1>1, <2>2
  <2>3. \A i \in 1..n: i < x.at => Order(c)[i] \in x.reached
    <3> SUFFICES ASSUME NEW i \in 1..n, i < x.at PROVE Order(c)[i] \in x.reached
      OBVIOUS
    <3>1. i < a \/ i = a
      <4> HIDE DEF n, u, a
      <4> QED  BY <2>5
    <3> QED  BY <1>1, <2>2, <3>1
  <2>4. AttemptBudget - x.used >= n - x.at + 1
    <3> HIDE DEF n, u, a
    <3> QED  BY <2>5
  <2> QED  BY <1>1, <2>3, <2>4 DEF Reaches
<1> QED  BY <1>1, <1>2, ReachInvStep

LEMMA ReachInvExhaust ==
    ASSUME RpcTypes, ReachInv, NEW c \in Calls, Exhaust(c)
    PROVE  ReachInv'
<1> DEFINE x == Ended(c, "exhausted")
<1>1. Set(c, x)
  BY DEF Exhaust
<1>2. x \in CallState /\ x.pc = "exhausted" /\ x.reached = call[c].reached
  BY EndedIsOne DEF RpcTypes, RpcTypeOK
<1> HIDE DEF x
<1>3. ASSUME AttemptBudget >= Len(Order(c)) PROVE Reaches(x, c)
  <2>1. call[c].pc = "next" /\ (call[c].at > Len(Order(c)) \/ call[c].used >= AttemptBudget)
    BY DEF Exhaust
  <2>2. /\ \A i \in 1..Len(Order(c)): i < call[c].at => Order(c)[i] \in call[c].reached
        /\ AttemptBudget - call[c].used >= Len(Order(c)) - call[c].at + 1
        /\ Len(Order(c)) \in Nat /\ call[c].at \in Nat /\ call[c].used \in Nat
        /\ AttemptBudget \in Nat
    BY <1>3, <2>1, ReachFacts DEF Reaches
  <2>3. \A i \in 1..Len(Order(c)): i < call[c].at
    <3> DEFINE n == Len(Order(c))
               u == call[c].used
               a == call[c].at
    <3>1. /\ AttemptBudget \in Nat /\ n \in Nat /\ u \in Nat /\ a \in Nat
          /\ AttemptBudget - u >= n - a + 1 /\ (a > n \/ u >= AttemptBudget)
      BY <2>1, <2>2
    <3> HIDE DEF n, u, a
    <3>2. \A i \in 1..n: i < a
      BY <3>1
    <3> QED  BY <3>2 DEF n, a
  <2> QED  BY <1>2, <2>2, <2>3 DEF Reaches
<1> QED  BY <1>1, <1>2, <1>3, ReachInvStep

LEMMA ReachInvNext == RpcTypes /\ ReachInv /\ [RpcNext]_rpcVars => ReachInv'
<1> SUFFICES ASSUME RpcTypes, ReachInv, [RpcNext]_rpcVars PROVE ReachInv'
  OBVIOUS
<1>1. CASE UNCHANGED rpcVars
  BY <1>1 DEF rpcVars, ReachInv
<1>2. CASE Tick
  BY <1>2, TickOfCall DEF RpcTypes, RpcTypeOK, ReachInv, Reaches
<1>3. ASSUME NEW c \in Calls, Reserve(c) PROVE ReachInv'
  <2> DEFINE probe == Probes(wide[Target(c)])
             own   == Heavy(c) /\ Probes(scoped[Target(c)][CallMethod[c]])
             n     == IF probe \/ own THEN LeaseTime ELSE 0
             x     == [call[c] EXCEPT !.pc = "pacing", !.probe = probe, !.own = own, !.lease = n]
  <2>1. Set(c, x) /\ call[c].pc = "next" /\ call[c] \in CallState
    BY <1>3 DEF Reserve, MayReserve, RpcTypes, RpcTypeOK
  <2>2. n \in Nat /\ probe \in BOOLEAN /\ own \in BOOLEAN
    BY RpcAssumption DEF Probes
  <2> HIDE DEF n, probe, own
  <2>3. /\ x \in CallState /\ x.pc = "pacing" /\ x.at = call[c].at
        /\ x.used = call[c].used /\ x.reached = call[c].reached
    BY <2>1, <2>2 DEF CallState
  <2> HIDE DEF x
  <2> QED  BY <2>1, <2>3, ReachInvStays
<1>4. ASSUME NEW c \in Calls, Wake(c) PROVE ReachInv'
  <2> DEFINE x == [call[c] EXCEPT !.pc = "next"]
  <2>1. Set(c, x) /\ call[c].pc = "sleep" /\ call[c] \in CallState
    BY <1>4 DEF Wake, RpcTypes, RpcTypeOK
  <2>2. /\ x \in CallState /\ x.pc = "next" /\ x.at = call[c].at
        /\ x.used = call[c].used /\ x.reached = call[c].reached
    BY <2>1 DEF CallState
  <2> HIDE DEF x
  <2> QED  BY <2>1, <2>2, ReachInvStays
<1>5. ASSUME NEW c \in Calls, Succeed(c) \/ Vanish(c) PROVE ReachInv'
  <2>1. PICK how \in {"answered", "vanished"}: Set(c, Ended(c, how))
    BY <1>5 DEF Succeed, Vanish
  <2>2. Ended(c, how) \in CallState /\ Ended(c, how).pc = how
    BY EndedIsOne DEF RpcTypes, RpcTypeOK
  <2>3. Reaches(Ended(c, how), c)
    BY <2>2 DEF Reaches
  <2> QED  BY <2>1, <2>2, <2>3, ReachInvStep
<1> QED  BY <1>1, <1>2, <1>3, <1>4, <1>5, ReachInvRefused, ReachInvSend, ReachInvFail,
            ReachInvExhaust, WaitsAreNumbers DEF RpcNext, CallStep

\* A call that raises has asked every provider in its order, or was refused a slot by it,
\* for any orders and budgets: retries at one provider never take the attempt of another
\* (solana_rpc_call, RPC_OVERALL_ATTEMPT_BUDGET).
THEOREM BudgetReachesAll == RpcSpec => []EveryProviderReached
<1>1. RpcTypes /\ ReachInv => EveryProviderReached
  BY DEF ReachInv, Reaches, EveryProviderReached
<1> QED  BY RpcTypesHold, ReachInvInit, ReachInvNext, <1>1, PTL DEF RpcSpec

\* Every availability, lock and call is what the router takes it for, for any number of calls,
\* providers and methods and any document that was left behind.
THEOREM RpcTypesHoldAlways == RpcSpec => []RpcTypeOK
<1>1. RpcTypes => RpcTypeOK
  BY DEF RpcTypes
<1> QED  BY RpcTypesHold, <1>1, PTL
-----------------------------------------------------------------------------
(* RpcRouter: as long as a probe holds its lease, the provider's circuit is  *)
(* blocked for at least that long, unless an answer has closed it since.     *)

Covers(a, n) == /\ a.circuit = "HALF_OPEN" => a.lease >= n
                /\ a.circuit = "OPEN" => a.cooldown >= n
LiveProbe(c) == call[c].pc = "sent" /\ call[c].probe /\ call[c].lease > 0
NextProbe(c) == call[c].pc = "pacing" /\ call[c].probe
ProbesInv ==
    /\ \A c \in Calls: LiveProbe(c) => Covers(wide[Target(c)], call[c].lease)
    /\ \A c, d \in Calls: NextProbe(c) /\ LiveProbe(d) => Target(c) # Target(d)
    /\ ProbesApart

LEMMA ProbesInvInit == RpcInit => ProbesInv
<1>1. ASSUME RpcInit, NEW c \in Calls PROVE call[c].pc = "next"
  BY <1>1 DEF RpcInit, NewCall
<1> QED  BY <1>1 DEF ProbesInv, LiveProbe, NextProbe, ProbesApart

\* Facts of a call at its provider.
LEMMA AtProvider ==
    ASSUME RpcTypes, NEW c \in Calls, call[c].pc \in {"pacing", "sent"}
    PROVE  /\ Target(c) \in Providers /\ wide[Target(c)] \in Availability
           /\ call[c].lease \in 0..LeaseTime /\ call[c] \in CallState
<1>1. call[c] \in CallState /\ Target(c) \in Providers /\ call[c].lease <= LeaseTime
  BY TargetIsProvider DEF RpcTypes, RpcTypeOK, Here
<1>2. call[c].lease \in Nat /\ LeaseTime \in Nat
  BY <1>1, RpcAssumption DEF CallState
<1>3. wide[Target(c)] \in Availability
  BY <1>1 DEF RpcTypes, RpcTypeOK
<1> DEFINE l == call[c].lease
<1>4. l \in 0..LeaseTime
  <2>1. l \in Nat /\ l <= LeaseTime
    BY <1>1, <1>2
  <2> HIDE DEF l
  <2> QED  BY <1>2, <2>1
<1> QED  BY <1>1, <1>3, <1>4

\* A call that is not, or no longer, a probe; what it records covers every lease.
LEMMA ProbesInvLeaves ==
    ASSUME RpcTypes, ProbesInv, NEW c \in Calls, NEW x \in CallState, Set(c, x),
           x.pc \in {"pacing", "sent"} => ~x.probe,
           \A p \in Providers: \A n \in 0..LeaseTime:
               Covers(wide[p], n) => Covers(wide'[p], n)
    PROVE  ProbesInv'
<1>1. call'[c] = x /\ \A d \in Calls \ {c}: call'[d] = call[d]
  BY SetsOwn DEF RpcTypes, RpcTypeOK
<1>2. ~LiveProbe(c)' /\ ~NextProbe(c)'
  BY <1>1 DEF LiveProbe, NextProbe
<1>3. ASSUME NEW d \in Calls \ {c}
      PROVE  /\ Target(d)' = Target(d) /\ LiveProbe(d)' = LiveProbe(d)
             /\ NextProbe(d)' = NextProbe(d) /\ call'[d] = call[d]
  BY <1>1 DEF LiveProbe, NextProbe, Target
<1>4. ASSUME NEW d \in Calls, LiveProbe(d)' PROVE Covers(wide'[Target(d)'], call'[d].lease)
  <2>1. d # c
    BY <1>2, <1>4
  <2>2. /\ LiveProbe(d) /\ Target(d)' = Target(d) /\ call'[d] = call[d]
        /\ Target(d) \in Providers /\ call[d].lease \in 0..LeaseTime
    BY <1>3, <1>4, <2>1, AtProvider DEF LiveProbe
  <2> QED  BY <2>2 DEF ProbesInv
<1>5. ASSUME NEW d \in Calls, NEW e \in Calls, (NextProbe(d) /\ LiveProbe(e))'
      PROVE  Target(d)' # Target(e)'
  BY <1>2, <1>3, <1>5 DEF ProbesInv
<1>6. ProbesApart'
  BY <1>2, <1>3 DEF ProbesInv, ProbesApart, LiveProbe
<1> QED  BY <1>4, <1>5, <1>6 DEF ProbesInv

LEMMA ProbesInvReserve ==
    ASSUME RpcTypes, ProbesInv, NEW c \in Calls, Reserve(c)
    PROVE  ProbesInv'
<1> DEFINE probe == Probes(wide[Target(c)])
           own   == Heavy(c) /\ Probes(scoped[Target(c)][CallMethod[c]])
           n     == IF probe \/ own THEN LeaseTime ELSE 0
           x     == [call[c] EXCEPT !.pc = "pacing", !.probe = probe, !.own = own, !.lease = n]
<1>1. /\ call[c] \in CallState /\ Set(c, x) /\ UNCHANGED wide
      /\ ~Blocked(wide[Target(c)]) /\ Target(c) \in Providers
  <2>1. /\ call[c] \in CallState /\ Set(c, x) /\ UNCHANGED wide
        /\ ~Blocked(wide[Target(c)])
    BY DEF RpcTypes, RpcTypeOK, Reserve, Refuses
  <2>2. call[c].at \in 1..Len(Order(c))
    BY <2>1, OrderAssumption DEF Reserve, MayReserve, CallState
  <2> QED  BY <2>1, <2>2, TargetIsProvider
<1>2. n \in Nat /\ probe \in BOOLEAN /\ own \in BOOLEAN
  BY RpcAssumption DEF Probes
<1> HIDE DEF n, own
<1>3. x \in CallState /\ x.pc = "pacing" /\ x.probe = probe /\ x.at = call[c].at
  <2> HIDE DEF probe
  <2> QED  BY <1>1, <1>2 DEF CallState
<1> HIDE DEF x
<1>4. CASE ~probe
  BY <1>1, <1>3, <1>4, ProbesInvLeaves
<1>5. CASE probe
  <2>1. call'[c] = x /\ \A d \in Calls \ {c}: call'[d] = call[d]
    BY <1>1, <1>3, SetsOwn DEF RpcTypes, RpcTypeOK
  <2>2. ~LiveProbe(c)' /\ Target(c)' = Target(c)
    BY <1>3, <2>1 DEF LiveProbe, Target
  <2>3. ASSUME NEW d \in Calls \ {c}
        PROVE  /\ Target(d)' = Target(d) /\ LiveProbe(d)' = LiveProbe(d)
               /\ NextProbe(d)' = NextProbe(d) /\ call'[d] = call[d]
    BY <2>1 DEF LiveProbe, NextProbe, Target
  <2>4. ASSUME NEW d \in Calls, LiveProbe(d) PROVE Target(d) # Target(c)
    <3> SUFFICES ASSUME Target(d) = Target(c) PROVE FALSE
      OBVIOUS
    <3> DEFINE a == wide[Target(c)]
               l == call[d].lease
    <3>1. Covers(a, l) /\ a \in Availability /\ l \in 0..LeaseTime /\ l > 0
      BY <2>4, AtProvider DEF ProbesInv, LiveProbe
    <3>2. a.circuit # "CLOSED" /\ ~Blocked(a)
      BY <1>1, <1>5 DEF Probes
    <3> HIDE DEF a, l
    <3>3. a.circuit \in {"CLOSED", "OPEN", "HALF_OPEN"} /\ a.cooldown \in Nat /\ a.lease \in Nat
      BY <3>1 DEF Availability
    <3> QED  BY <3>1, <3>2, <3>3, RpcAssumption DEF Covers, Blocked
  <2>5. ASSUME NEW d \in Calls, NEW e \in Calls, (NextProbe(d) /\ LiveProbe(e))'
        PROVE  Target(d)' # Target(e)'
    BY <2>2, <2>3, <2>4, <2>5 DEF ProbesInv
  <2>6. ProbesApart'
    BY <2>2, <2>3 DEF ProbesInv, ProbesApart, LiveProbe
  <2>7. ASSUME NEW d \in Calls, LiveProbe(d)' PROVE Covers(wide'[Target(d)'], call'[d].lease)
    BY <1>1, <2>2, <2>3, <2>7 DEF ProbesInv
  <2> QED  BY <2>5, <2>6, <2>7 DEF ProbesInv
<1> QED  BY <1>4, <1>5

LEMMA ProbesInvSend ==
    ASSUME RpcTypes, ProbesInv, NEW c \in Calls, Send(c)
    PROVE  ProbesInv'
<1> DEFINE p == Target(c)
           k == call[c].used + 1
           x == [call[c] EXCEPT !.pc = "sent", !.used = k, !.reached = @ \cup {p}]
<1>1. /\ call[c] \in CallState /\ call[c].pc = "pacing" /\ held[p] = c /\ p \in Providers
      /\ wide \in [Providers -> Availability] /\ call[c].lease \in 0..LeaseTime
      /\ call[c].used < AttemptBudget
  BY AtProvider DEF RpcTypes, RpcTypeOK, Send, Locked
<1>2. k \in 0..AttemptBudget
  <2> DEFINE u == call[c].used
  <2>1. u \in 0..AttemptBudget /\ u < AttemptBudget /\ AttemptBudget \in Nat
    BY <1>1, RpcAssumption DEF CallState
  <2> HIDE DEF u
  <2>2. u + 1 \in 0..AttemptBudget
    BY <2>1
  <2> QED  BY <2>2 DEF u
<1>3. Set(c, x)
  BY DEF Send
<1> HIDE DEF k
<1>4. /\ x \in CallState /\ x.pc = "sent" /\ x.at = call[c].at /\ x.probe = call[c].probe
      /\ x.lease = call[c].lease
  <2> HIDE DEF p
  <2> QED  BY <1>1, <1>2 DEF CallState
<1> HIDE DEF x
<1>5. CASE ~call[c].probe
  <2>1. UNCHANGED wide
    BY <1>5 DEF Send
  <2> QED  BY <1>3, <1>4, <1>5, <2>1, ProbesInvLeaves
<1>6. CASE call[c].probe
  <2>1. call'[c] = x /\ \A d \in Calls \ {c}: call'[d] = call[d]
    BY <1>3, <1>4, SetsOwn DEF RpcTypes, RpcTypeOK
  <2>2. NextProbe(c) /\ ~NextProbe(c)' /\ Target(c)' = p
    BY <1>1, <1>4, <1>6, <2>1 DEF NextProbe, Target
  <2>3. ASSUME NEW d \in Calls \ {c}
        PROVE  /\ Target(d)' = Target(d) /\ LiveProbe(d)' = LiveProbe(d)
               /\ NextProbe(d)' = NextProbe(d) /\ call'[d] = call[d]
    BY <2>1 DEF LiveProbe, NextProbe, Target
  <2>4. wide' = [wide EXCEPT ![p] = Leased(wide[p], c)]
    BY <1>6 DEF Send
  <2>5. Covers(wide'[p], call'[c].lease)
    <3>1. wide'[p] = Leased(wide[p], c)
      BY <1>1, <2>4
    <3>2. call[c].lease \in Nat /\ call'[c].lease = call[c].lease
      BY <1>1, <1>4, <2>1, RpcAssumption
    <3>3. wide'[p].circuit = "HALF_OPEN" /\ wide'[p].lease = call[c].lease
      BY <1>1, <3>1, <3>2, LeasedIsOne
    <3> QED  BY <3>2, <3>3 DEF Covers
  <2>6. ASSUME NEW d \in Calls, LiveProbe(d) PROVE Target(d) # p
    BY <2>2, <2>6 DEF ProbesInv
  <2>7. ASSUME NEW d \in Calls, LiveProbe(d)' PROVE Covers(wide'[Target(d)'], call'[d].lease)
    <3>1. CASE d = c
      BY <2>2, <2>5, <3>1
    <3>2. CASE d # c
      <4>1. LiveProbe(d) /\ Target(d)' = Target(d) /\ call'[d] = call[d] /\ Target(d) # p
        BY <2>3, <2>6, <2>7, <3>2
      <4>2. wide'[Target(d)] = wide[Target(d)]
        BY <1>1, <2>4, <4>1, AtProvider DEF LiveProbe
      <4> QED  BY <4>1, <4>2 DEF ProbesInv
    <3> QED  BY <3>1, <3>2
  <2>8. ASSUME NEW d \in Calls, NEW e \in Calls, (NextProbe(d) /\ LiveProbe(e))'
        PROVE  Target(d)' # Target(e)'
    <3>1. d # c /\ NextProbe(d) /\ Target(d)' = Target(d)
      BY <2>2, <2>3, <2>8
    <3>2. Target(d) # p
      BY <1>1, <3>1 DEF NextProbe, RpcTypes, Locked
    <3>3. CASE e = c
      BY <2>2, <3>1, <3>2, <3>3
    <3>4. CASE e # c
      BY <2>3, <2>8, <3>1, <3>4 DEF ProbesInv
    <3> QED  BY <3>3, <3>4
  <2>9. ProbesApart'
    <3> SUFFICES ASSUME NEW d \in Calls, NEW e \in Calls, d # e, LiveProbe(d)', LiveProbe(e)'
                 PROVE  Target(d)' # Target(e)'
      BY DEF ProbesApart, LiveProbe
    <3>1. CASE d = c
      BY <2>2, <2>3, <2>6, <3>1
    <3>2. CASE e = c
      BY <2>2, <2>3, <2>6, <3>2
    <3>3. CASE d # c /\ e # c
      BY <2>3, <3>3 DEF ProbesInv, ProbesApart, LiveProbe
    <3> QED  BY <3>1, <3>2, <3>3
  <2> QED  BY <2>7, <2>8, <2>9 DEF ProbesInv
<1> QED  BY <1>5, <1>6

LEMMA ProbesInvTick ==
    ASSUME RpcTypes, ProbesInv, Tick
    PROVE  ProbesInv'
<1>1. ASSUME NEW c \in Calls
      PROVE  /\ Target(c)' = Target(c) /\ call'[c].lease = Less(call[c].lease)
             /\ NextProbe(c)' = NextProbe(c) /\ (LiveProbe(c)' => LiveProbe(c))
  <2>1. /\ call'[c].lease = Less(call[c].lease) /\ call'[c].pc = call[c].pc
        /\ call'[c].at = call[c].at /\ call'[c].probe = call[c].probe /\ call[c] \in CallState
    BY TickOfCall DEF RpcTypes, RpcTypeOK
  <2>2. Less(call[c].lease) > 0 => call[c].lease > 0
    BY <2>1 DEF Less
  <2> QED  BY <2>1, <2>2 DEF Target, NextProbe, LiveProbe
<1>2. ASSUME NEW c \in Calls, LiveProbe(c)' PROVE Covers(wide'[Target(c)'], call'[c].lease)
  <2> DEFINE a == wide[Target(c)]
             l == call[c].lease
  <2>1. Covers(a, l) /\ a \in Availability /\ l \in 0..LeaseTime /\ Target(c) \in Providers
    BY <1>1, <1>2, AtProvider DEF ProbesInv, LiveProbe
  <2>2. wide'[Target(c)'] = Aged(a) /\ call'[c].lease = Less(l)
    BY <1>1, <2>1, TickParts
  <2> HIDE DEF a, l
  <2>3. a.cooldown \in Nat /\ a.lease \in Nat /\ l \in Nat
    BY <2>1, RpcAssumption DEF Availability
  <2>4. Covers(Aged(a), Less(l))
    BY <2>1, <2>3, AgedIsOne DEF Covers, Less
  <2> QED  BY <2>2, <2>4
<1>3. ProbesApart'
  <2> SUFFICES ASSUME NEW d \in Calls, NEW e \in Calls, d # e, LiveProbe(d)', LiveProbe(e)'
               PROVE  Target(d)' # Target(e)'
    BY DEF ProbesApart, LiveProbe
  <2> QED  BY <1>1 DEF ProbesInv, ProbesApart, LiveProbe
<1> QED  BY <1>1, <1>2, <1>3 DEF ProbesInv

LEMMA ProbesInvNext == RpcTypes /\ ProbesInv /\ [RpcNext]_rpcVars => ProbesInv'
<1> SUFFICES ASSUME RpcTypes, ProbesInv, [RpcNext]_rpcVars PROVE ProbesInv'
  OBVIOUS
<1>1. CASE UNCHANGED rpcVars
  BY <1>1 DEF rpcVars, ProbesInv, LiveProbe, NextProbe, ProbesApart, Target
<1>2. ASSUME NEW c \in Calls, NEW how \in {"answered", "exhausted", "vanished"},
             Set(c, Ended(c, how)),
             UNCHANGED wide \/ (Succeed(c) /\ wide' = [wide EXCEPT ![Target(c)] = Closed])
      PROVE  ProbesInv'
  <2>1. Ended(c, how) \in CallState /\ Ended(c, how).pc = how
    BY EndedIsOne DEF RpcTypes, RpcTypeOK
  <2>2. \A p \in Providers: \A n \in 0..LeaseTime: Covers(wide[p], n) => Covers(wide'[p], n)
    <3> SUFFICES ASSUME NEW p \in Providers, wide'[p] # wide[p] PROVE wide'[p] = Closed
      BY ClosedIsOne DEF Covers
    <3> QED  BY <1>2 DEF RpcTypes, RpcTypeOK
  <2> QED  BY <1>2, <2>1, <2>2, ProbesInvLeaves
<1>3. ASSUME NEW c \in Calls, NEW f \in Failures, NEW delay \in Nat, Fail(c, f, delay)
      PROVE  ProbesInv'
  <2>1. PICK x \in CallState: Set(c, x) /\ x.pc \in {"sleep", "next"}
    BY <1>3, FailGoesOn
  <2>2. ASSUME NEW p \in Providers, NEW n \in 0..LeaseTime, Covers(wide[p], n)
        PROVE  Covers(wide'[p], n)
    <3> DEFINE q == Target(c)
               a == Failed(wide[q], f, delay, call[c].probe)
    <3>1. wide[q] \in Availability /\ call[c].probe \in BOOLEAN
      BY <1>3, AtProvider DEF Fail, CallState
    <3>2. wide'[p] = wide[p] \/ wide'[p] = Closed \/ wide'[p] = a
      BY <1>3 DEF Fail, RpcTypes, RpcTypeOK
    <3>3. a \in Availability /\ a.circuit # "HALF_OPEN" /\ (a.circuit = "OPEN" => a.cooldown >= LeaseTime)
      BY <3>1, FailedIsOne
    <3> HIDE DEF a
    <3>4. Covers(a, n)
      <4>1. a.cooldown \in Nat /\ LeaseTime \in Nat
        BY <3>3, RpcAssumption DEF Availability
      <4>2. a.circuit = "OPEN" => a.cooldown >= n
        BY <3>3, <4>1
      <4> QED  BY <3>3, <4>2 DEF Covers
    <3>5. Covers(Closed, n)
      BY ClosedIsOne DEF Covers
    <3> QED  BY <2>2, <3>2, <3>4, <3>5
  <2> QED  BY <2>1, <2>2, ProbesInvLeaves
<1>4. ASSUME NEW c \in Calls, Wake(c) PROVE ProbesInv'
  <2> DEFINE x == [call[c] EXCEPT !.pc = "next"]
  <2>1. Set(c, x) /\ call[c] \in CallState /\ UNCHANGED wide
    BY <1>4 DEF Wake, RpcTypes, RpcTypeOK
  <2>2. x \in CallState /\ x.pc = "next"
    BY <2>1 DEF CallState
  <2> HIDE DEF x
  <2> QED  BY <2>1, <2>2, ProbesInvLeaves
<1>5. ASSUME NEW c \in Calls, Refused(c) PROVE ProbesInv'
  <2> DEFINE r == [call[c] EXCEPT !.reached = @ \cup {Target(c)}]
             x == Onward(r)
  <2>1. call[c] \in CallState /\ Set(c, x) /\ UNCHANGED wide
    BY <1>5 DEF Refused, RpcTypes, RpcTypeOK
  <2>2. Target(c) \in Providers
    <3>1. call[c].at \in 1..Len(Order(c))
      BY <1>5, <2>1, OrderAssumption DEF Refused, MayReserve, CallState
    <3> QED  BY <3>1, TargetIsProvider
  <2>3. r \in CallState
    BY <2>1, <2>2 DEF CallState
  <2> HIDE DEF r
  <2>4. x \in CallState /\ x.pc = "next"
    BY <2>3, OnwardIsOne
  <2> HIDE DEF x
  <2> QED  BY <2>1, <2>4, ProbesInvLeaves
<1>6. ASSUME NEW c \in Calls, Succeed(c) \/ Exhaust(c) \/ Vanish(c) PROVE ProbesInv'
  BY <1>2, <1>6 DEF Succeed, Exhaust, Vanish
<1> QED  BY <1>1, <1>3, <1>4, <1>5, <1>6, ProbesInvReserve, ProbesInvSend, ProbesInvTick,
            WaitsAreNumbers DEF RpcNext, CallStep

\* A provider that is recovering is probed by one request at a time, for any number of calls
\* and whatever late answers do to its circuit in between (_activate_half_open_probe,
\* _record_provider_failure_sync): the cooldown is no shorter than a probe's lease.
THEOREM OneProbeAtATime == RpcSpec => []ProbesApart
<1>1. ProbesInv => ProbesApart
  BY DEF ProbesInv
<1> QED  BY RpcTypesHold, ProbesInvInit, ProbesInvNext, <1>1, PTL DEF RpcSpec
-----------------------------------------------------------------------------
(* RpcRouter: only a provider that is to blame is ever probed.               *)

UnblamedInv ==
    /\ UnblamedIsAvailable
    /\ \A c \in Calls: call[c].pc \in {"pacing", "sent"} /\ call[c].probe => Target(c) \in blamed

LEMMA UnblamedInvInit == RpcInit => UnblamedInv
<1>1. ASSUME RpcInit, NEW c \in Calls PROVE call[c].pc = "next"
  BY <1>1 DEF RpcInit, NewCall
<1>2. RpcInit => UnblamedIsAvailable
  BY DEF RpcInit, UnblamedIsAvailable
<1> QED  BY <1>1, <1>2 DEF UnblamedInv

\* A call that is no probe afterwards, or was one of this provider before.
LEMMA UnblamedInvStep ==
    ASSUME RpcTypes, UnblamedInv, NEW c \in Calls, NEW x \in CallState, Set(c, x),
           blamed \subseteq blamed', UnblamedIsAvailable',
           x.pc \in {"pacing", "sent"} /\ x.probe =>
               x.at = call[c].at /\ Target(c) \in blamed'
    PROVE  UnblamedInv'
<1>1. call'[c] = x /\ \A d \in Calls \ {c}: call'[d] = call[d]
  BY SetsOwn DEF RpcTypes, RpcTypeOK
<1>2. ASSUME NEW d \in Calls, call'[d].pc \in {"pacing", "sent"}, call'[d].probe
      PROVE  Target(d)' \in blamed'
  <2>1. CASE d = c
    BY <1>1, <1>2, <2>1 DEF Target
  <2>2. CASE d # c
    BY <1>1, <1>2, <2>2 DEF UnblamedInv, Target
  <2> QED  BY <2>1, <2>2
<1> QED  BY <1>2 DEF UnblamedInv

LEMMA UnblamedInvNext == RpcTypes /\ UnblamedInv /\ [RpcNext]_rpcVars => UnblamedInv'
<1> SUFFICES ASSUME RpcTypes, UnblamedInv, [RpcNext]_rpcVars PROVE UnblamedInv'
  OBVIOUS
<1>1. CASE UNCHANGED rpcVars
  BY <1>1 DEF rpcVars, UnblamedInv, UnblamedIsAvailable, Target
<1>2. CASE Tick
  <2>1. \A c \in Calls: /\ call'[c].pc = call[c].pc /\ call'[c].probe = call[c].probe
                        /\ Target(c)' = Target(c)
    BY <1>2, TickOfCall DEF RpcTypes, RpcTypeOK, Target
  <2>2. Aged(Closed) = Closed
    <3>1. Closed.cooldown = 0 /\ Closed.lease = 0
      BY DEF Closed
    <3> QED  BY <3>1, ClosedIsOne, AgedStays
  <2>3. UnblamedIsAvailable'
    BY <1>2, <2>2, TickParts DEF UnblamedInv, UnblamedIsAvailable
  <2>4. blamed' = blamed
    BY <1>2, TickParts
  <2> QED  BY <2>1, <2>3, <2>4 DEF UnblamedInv
<1>3. ASSUME NEW c \in Calls, NEW how \in {"answered", "exhausted", "vanished"},
             Set(c, Ended(c, how)), UNCHANGED blamed,
             UNCHANGED wide \/ wide' = [wide EXCEPT ![Target(c)] = Closed]
      PROVE  UnblamedInv'
  <2>1. Ended(c, how) \in CallState /\ Ended(c, how).pc = how
    BY EndedIsOne DEF RpcTypes, RpcTypeOK
  <2>2. UnblamedIsAvailable'
    BY <1>3 DEF RpcTypes, RpcTypeOK, UnblamedInv, UnblamedIsAvailable
  <2> QED  BY <1>3, <2>1, <2>2, UnblamedInvStep
<1>4. ASSUME NEW c \in Calls, Refused(c) PROVE UnblamedInv'
  <2> DEFINE r == [call[c] EXCEPT !.reached = @ \cup {Target(c)}]
             x == Onward(r)
  <2>1. call[c] \in CallState /\ Set(c, x) /\ UNCHANGED <<wide, blamed>>
    BY <1>4 DEF Refused, RpcTypes, RpcTypeOK
  <2>2. Target(c) \in Providers
    <3>1. call[c].at \in 1..Len(Order(c))
      BY <1>4, <2>1, OrderAssumption DEF Refused, MayReserve, CallState
    <3> QED  BY <3>1, TargetIsProvider
  <2>3. r \in CallState
    BY <2>1, <2>2 DEF CallState
  <2> HIDE DEF r
  <2>4. x \in CallState /\ x.pc = "next"
    BY <2>3, OnwardIsOne
  <2> HIDE DEF x
  <2>5. UnblamedIsAvailable'
    BY <2>1 DEF UnblamedInv, UnblamedIsAvailable
  <2> QED  BY <2>1, <2>4, <2>5, UnblamedInvStep
<1>5. ASSUME NEW c \in Calls, Wake(c) PROVE UnblamedInv'
  <2> DEFINE x == [call[c] EXCEPT !.pc = "next"]
  <2>1. Set(c, x) /\ call[c] \in CallState /\ UNCHANGED <<wide, blamed>>
    BY <1>5 DEF Wake, RpcTypes, RpcTypeOK
  <2>2. x \in CallState /\ x.pc = "next"
    BY <2>1 DEF CallState
  <2> HIDE DEF x
  <2>3. UnblamedIsAvailable'
    BY <2>1 DEF UnblamedInv, UnblamedIsAvailable
  <2> QED  BY <2>1, <2>2, <2>3, UnblamedInvStep
<1>6. ASSUME NEW c \in Calls, Reserve(c) PROVE UnblamedInv'
  <2> DEFINE probe == Probes(wide[Target(c)])
             own   == Heavy(c) /\ Probes(scoped[Target(c)][CallMethod[c]])
             n     == IF probe \/ own THEN LeaseTime ELSE 0
             x     == [call[c] EXCEPT !.pc = "pacing", !.probe = probe, !.own = own, !.lease = n]
  <2>1. Set(c, x) /\ call[c] \in CallState /\ UNCHANGED <<wide, blamed>>
    BY <1>6 DEF Reserve, RpcTypes, RpcTypeOK
  <2>2. n \in Nat /\ probe \in BOOLEAN /\ own \in BOOLEAN
    BY RpcAssumption DEF Probes
  <2>3. probe => Target(c) \in blamed
    <3>1. Target(c) \in Providers
      <4>1. call[c].at \in 1..Len(Order(c))
        BY <1>6, <2>1, OrderAssumption DEF Reserve, MayReserve, CallState
      <4> QED  BY <4>1, TargetIsProvider
    <3> QED  BY <3>1 DEF UnblamedInv, UnblamedIsAvailable, Probes, Closed
  <2> HIDE DEF n, probe, own
  <2>4. x \in CallState /\ x.probe = probe /\ x.at = call[c].at
    BY <2>1, <2>2 DEF CallState
  <2> HIDE DEF x
  <2>5. UnblamedIsAvailable'
    BY <2>1 DEF UnblamedInv, UnblamedIsAvailable
  <2> QED  BY <2>1, <2>3, <2>4, <2>5, UnblamedInvStep
<1>7. ASSUME NEW c \in Calls, Send(c) PROVE UnblamedInv'
  <2> DEFINE k == call[c].used + 1
             p == Target(c)
             x == [call[c] EXCEPT !.pc = "sent", !.used = k, !.reached = @ \cup {p}]
  <2>1. /\ call[c] \in CallState /\ call[c].pc = "pacing" /\ call[c].used < AttemptBudget
        /\ p \in Providers /\ UNCHANGED blamed /\ Set(c, x)
    BY <1>7, AtProvider DEF RpcTypes, RpcTypeOK, Send, Locked
  <2>2. k \in 0..AttemptBudget
    <3> DEFINE u == call[c].used
    <3>1. u \in 0..AttemptBudget /\ u < AttemptBudget /\ AttemptBudget \in Nat
      BY <2>1, RpcAssumption DEF CallState
    <3> HIDE DEF u
    <3>2. u + 1 \in 0..AttemptBudget
      BY <3>1
    <3> QED  BY <3>2 DEF u
  <2>3. call[c].probe => p \in blamed
    BY <2>1 DEF UnblamedInv
  <2>4. wide' = wide \/ (call[c].probe /\ wide' = [wide EXCEPT ![p] = Leased(wide[p], c)])
    BY <1>7 DEF Send
  <2>5. UnblamedIsAvailable'
    <3> HIDE DEF p
    <3> QED  BY <2>1, <2>3, <2>4 DEF UnblamedInv, UnblamedIsAvailable, RpcTypes, RpcTypeOK
  <2> HIDE DEF k, p
  <2>6. x \in CallState /\ x.probe = call[c].probe /\ x.at = call[c].at
    BY <2>1, <2>2 DEF CallState
  <2> HIDE DEF x
  <2> QED  BY <2>1, <2>3, <2>5, <2>6, UnblamedInvStep DEF p
<1>8. ASSUME NEW c \in Calls, NEW f \in Failures, NEW delay \in Nat, Fail(c, f, delay)
      PROVE  UnblamedInv'
  <2> DEFINE p == Target(c)
             own == OwnFailure(CallMethod[c], f)
             a == Failed(wide[p], f, delay, call[c].probe)
  <2>1. PICK x \in CallState: Set(c, x) /\ x.pc \in {"sleep", "next"}
    BY <1>8, FailGoesOn
  <2>5. wide' = [wide EXCEPT ![p] = IF own THEN Closed ELSE a]
    BY <1>8 DEF Fail
  <2>6. blamed' = IF f = "terminal" \/ own THEN blamed ELSE blamed \cup {p}
    <3> HIDE DEF a
    <3> QED  BY <1>8 DEF Fail, OwnFailure
  <2>2. /\ wide' = [wide EXCEPT ![p] = IF own THEN Closed ELSE a]
        /\ blamed' = IF f = "terminal" \/ own THEN blamed ELSE blamed \cup {p}
    BY <2>5, <2>6
  <2>3. f = "terminal" => a = Closed
    BY DEF Failed
  <2> HIDE DEF p, own, a
  <2>4. UnblamedIsAvailable' /\ blamed \subseteq blamed'
    BY <2>2, <2>3 DEF UnblamedInv, UnblamedIsAvailable, RpcTypes, RpcTypeOK
  <2> QED  BY <2>1, <2>4, UnblamedInvStep
<1>9. ASSUME NEW c \in Calls, Succeed(c) \/ Exhaust(c) \/ Vanish(c) PROVE UnblamedInv'
  BY <1>3, <1>9 DEF Succeed, Exhaust, Vanish
<1> QED  BY <1>1, <1>2, <1>4, <1>5, <1>6, <1>7, <1>8, <1>9, WaitsAreNumbers DEF RpcNext, CallStep

\* As long as no failure was counted as a provider's own, it is as good as new to every method,
\* however many rate limits and transient errors heavy methods met there and whatever they left
\* in its document (_failure_uses_method_availability, _migrate_provider_state).  Of a provider
\* with a failure of its own, such as a timeout of a heavy method, nothing is said.
THEOREM UnblamedStaysAvailable == RpcSpec => []UnblamedIsAvailable
<1>1. UnblamedInv => UnblamedIsAvailable
  BY DEF UnblamedInv
<1> QED  BY RpcTypesHold, UnblamedInvInit, UnblamedInvNext, <1>1, PTL DEF RpcSpec
=============================================================================
