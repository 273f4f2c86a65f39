--------------------------- MODULE TokenAnalysis ---------------------------
(***************************************************************************)
(* src/analyzer.py in one process: the verdict on a token, and how the     *)
(* callers that ask about the same token at the same time share one        *)
(* analysis and, for five seconds, its result.                             *)
(*                                                                         *)
(* What is between two awaits is one action.  analyze_token looks into the *)
(* cache and joins or starts a task without giving way; a task stores its  *)
(* report and leaves the table without giving way; its callers go on when  *)
(* they are scheduled.  Every caller may be cancelled.                     *)
(***************************************************************************)
EXTENDS Integers, FiniteSets

CONSTANTS
    Askers,         \* callers
    Tokens,         \* mints asked about
    Tasks,          \* analyses that may exist at a time
    CacheTime,      \* ANALYZER_CACHE_TTL_SECONDS
    CacheLimit,     \* ANALYZER_CACHE_MAX_ENTRIES
    Findings,       \* what the RPC and Rugcheck may say of a token, see Finding
    MinimumLocked,  \* minimum_lp_locked_percent
    MinimumLiquidity, \* minimum_liquidity_usd
    RouteBLiquidity,  \* ROUTE_B_MINIMUM_LIQUIDITY_USD
    MaximumDeveloper, \* maximum_developer_percent
    MinimumScore,   \* minimum_safety_score
    Unknown, NoTask

\* Amounts are in percent and dollars; Unknown is a field that is absent or that
\* cannot be read.  locked is the aggregate of the summary, or of the report;
\* pools are the shares locked of the markets, Unknown for those without a readable one.
Finding(amounts) ==
    [renounced: BOOLEAN, developer: amounts, locked: amounts, pools: SUBSET amounts,
     liquidity: amounts]

ASSUME AnalysisAssumption ==
    /\ {CacheTime, CacheLimit} \subseteq Nat \ {0}
    /\ {MinimumLocked, MinimumLiquidity, RouteBLiquidity, MaximumDeveloper,
        MinimumScore} \subseteq Nat
    /\ Unknown \notin Nat /\ NoTask \notin Tasks
    /\ Findings \subseteq Finding(Nat \cup {Unknown})

VARIABLES
    cached,     \* what the cache has of a token
    flight,     \* the task of a token in _analysis_flights
    task,       \* every task: its token, how it stands, its finding
    asker       \* what each caller waits for or was given

analysisVars == <<cached, flight, task, asker>>

-----------------------------------------------------------------------------
(* The verdict                                                             *)

Known(x, Test(_)) == x # Unknown /\ Test(x)

\* locked_percentage: without an aggregate, the least of the markets' shares that can be
\* read; the other markets do not count.
LeastOf(pools)   == CHOOSE x \in pools: \A y \in pools: x <= y
GreatestOf(pools) == CHOOSE x \in pools: \A y \in pools: x >= y

\* Bug: one locked market is enough.
LockedPercent_Best(f) ==
    LET pools == f.pools \ {Unknown}
    IN  IF f.locked # Unknown THEN f.locked
        ELSE IF pools = {} THEN Unknown ELSE GreatestOf(pools)

LockedPercent(f) ==
    LET pools == f.pools \ {Unknown}
    IN  IF f.locked # Unknown THEN f.locked
        ELSE IF pools = {} THEN Unknown ELSE LeastOf(pools)

DeveloperIsSmall(f) == Known(f.developer, LAMBDA x: x < MaximumDeveloper)

Score(f) ==
    (IF f.renounced THEN 35 ELSE 0) + (IF DeveloperIsSmall(f) THEN 30 ELSE 0)
    + (IF Known(LockedPercent(f), LAMBDA x: x >= MinimumLocked) THEN 35 ELSE 0)

RouteA(f) ==
    /\ Score(f) >= MinimumScore
    /\ DeveloperIsSmall(f) /\ f.renounced
    /\ Known(LockedPercent(f), LAMBDA x: x >= MinimumLocked)
    /\ Known(f.liquidity, LAMBDA x: x >= MinimumLiquidity)

RouteB(f) ==
    /\ DeveloperIsSmall(f) /\ f.renounced
    /\ LockedPercent(f) # Unknown
    /\ Known(f.liquidity, LAMBDA x: x >= RouteBLiquidity)
    /\ \/ LockedPercent(f) < MinimumLocked
       \/ f.liquidity < MinimumLiquidity

\* select_route_type; should_enter is that there is a route.
Route(f) == IF RouteA(f) THEN "A" ELSE IF RouteB(f) THEN "B" ELSE "none"

-----------------------------------------------------------------------------
(* Sharing                                                                 *)

NotCached == [age |-> CacheTime]        \* an entry that has expired, or none
IsFresh(t) == cached[t].age < CacheTime

\* A report is kept as the finding it is about: Route gives its verdict.  A task is
\* free for reuse once nobody waits for it.
Free(k) == task[k].state # "running" /\ \A a \in Askers: asker[a].task # k
NoAsk   == [state |-> "idle", token |-> "none", task |-> NoTask]

Given(a, t, f) ==
    asker' = [asker EXCEPT ![a] = [state |-> "given", token |-> t, task |-> NoTask,
                                   finding |-> f]]

\* analyze_token of a token the cache has a report of
AskCached(a, t) ==
    /\ asker[a].state # "waiting" /\ IsFresh(t)
    /\ Given(a, t, cached[t].finding)
    /\ UNCHANGED <<cached, flight, task>>

\* ... of one that is being analysed ...
MayJoin_Never(t) == FALSE     \* Bug: every asker starts an analysis of its own.
MayJoin(t)       == flight[t] # NoTask
AskShared(a, t) ==
    /\ asker[a].state # "waiting" /\ ~IsFresh(t) /\ MayJoin(t)
    /\ cached' = [cached EXCEPT ![t] = NotCached]
    /\ asker'  = [asker EXCEPT ![a] = [state |-> "waiting", token |-> t,
                                       task |-> flight[t]]]
    /\ UNCHANGED <<flight, task>>

\* ... and of one that is not.
AskFirst(a, t, k) ==
    /\ asker[a].state # "waiting" /\ ~IsFresh(t) /\ ~MayJoin(t) /\ Free(k)
    /\ cached' = [cached EXCEPT ![t] = NotCached]
    /\ flight' = [flight EXCEPT ![t] = k]
    /\ task'   = [task EXCEPT ![k] = [token |-> t, state |-> "running"]]
    /\ asker'  = [asker EXCEPT ![a] = [state |-> "waiting", token |-> t, task |-> k]]

\* The entry that makes room for another: the oldest, once those that expired, which
\* are not told from absent ones, are gone.
Evicted(t) ==
    LET live == {u \in Tokens: IsFresh(u)}
    IN  IF Cardinality(live) < CacheLimit THEN {}
        ELSE {CHOOSE u \in live: \A v \in live: cached[u].age >= cached[v].age}
Stored(t, report) ==
    [u \in Tokens |-> IF u = t THEN report
                      ELSE IF u \in Evicted(t) THEN NotCached ELSE cached[u]]

Leaves(k, t) == flight' = [flight EXCEPT ![t] = IF @ = k THEN NoTask ELSE @]

\* _run_analysis_flight ends, and its report is kept.
Analysed(k, f) ==
    /\ task[k].state = "running"
    /\ LET t == task[k].token
       IN  /\ task' = [task EXCEPT ![k] = [token |-> t, state |-> "done", finding |-> f]]
           /\ cached' = Stored(t, [finding |-> f, age |-> 0])
           /\ Leaves(k, t)
    /\ UNCHANGED asker

\* It raises: a request failed or the account is no mint.  Nothing is kept.
AnalysisFails(k) ==
    /\ task[k].state = "running"
    /\ task' = [task EXCEPT ![k].state = "failed"]
    /\ Leaves(k, task[k].token)
    /\ UNCHANGED <<cached, asker>>

\* A caller gets what the task it waits for came to.
Awaken(a) ==
    /\ asker[a].state = "waiting"
    /\ LET k == asker[a].task
       IN  \/ task[k].state = "done" /\ Given(a, task[k].token, task[k].finding)
           \/ /\ task[k].state = "failed"
              /\ asker' = [asker EXCEPT ![a] = NoAsk]
    /\ UNCHANGED <<cached, flight, task>>

AfterCancel_Unshielded(k) ==    \* Bug: no shield.
    IF task[k].state = "running" THEN [task EXCEPT ![k].state = "failed"] ELSE task

\* asyncio.shield: what is cancelled is the wait, not the task.
AfterCancel(k)            == task
CancelAsk(a) ==
    /\ asker[a].state = "waiting"
    /\ task'  = AfterCancel(asker[a].task)
    /\ asker' = [asker EXCEPT ![a] = [NoAsk EXCEPT !.state = "cancelled"]]
    /\ UNCHANGED <<cached, flight>>

Older(r) == IF r.age + 1 < CacheTime THEN [r EXCEPT !.age = @ + 1] ELSE NotCached
\* Time passes for the cache; reports that were given are not looked at again.
AnalysisTick ==
    /\ cached' = [t \in Tokens |-> Older(cached[t])]
    /\ UNCHANGED <<flight, task, asker>>

-----------------------------------------------------------------------------

AnalysisInit ==
    /\ cached = [t \in Tokens |-> NotCached]
    /\ flight = [t \in Tokens |-> NoTask]
    /\ task   = [k \in Tasks |-> [token |-> "none", state |-> "failed"]]
    /\ asker  = [a \in Askers |-> NoAsk]

TaskEnds(k) == AnalysisFails(k) \/ \E f \in Findings: Analysed(k, f)

AnalysisNext ==
    \/ AnalysisTick
    \/ \E k \in Tasks: TaskEnds(k)
    \/ \E a \in Askers:
          \/ Awaken(a) \/ CancelAsk(a)
          \/ \E t \in Tokens:
                AskCached(a, t) \/ AskShared(a, t) \/ \E k \in Tasks: AskFirst(a, t, k)

AnalysisSpec == AnalysisInit /\ [][AnalysisNext]_analysisVars

-----------------------------------------------------------------------------
(* Properties                                                              *)

\* A token is analysed by one task at a time, whoever asks, gives up or fails
\* meanwhile: a second one would spend RPC calls on what is being found out
\* (_analysis_flights), and a caller only ever raises because the analysis did.
OneAnalysisPerToken ==
    /\ \A k, l \in Tasks:
          /\ task[k].state = "running" /\ task[l].state = "running"
          /\ task[k].token = task[l].token
          => k = l
    /\ \A k \in Tasks: task[k].state = "running" => flight[task[k].token] = k
    /\ Cardinality({t \in Tokens: IsFresh(t)}) <= CacheLimit

\* A caller cancelled while it waits takes nothing from the others that share the
\* task (asyncio.shield in analyze_token): no task ends in that step.
CancelIsPrivate ==
    [][\A a \in Askers:
          asker[a].state = "waiting" /\ asker'[a].state = "cancelled" => task' = task]_analysisVars

\* A token is entered the full way only if Rugcheck has an aggregate that says its
\* liquidity is locked, or if every market has it locked whose share can be read
\* (locked_percentage: "one locked dust pool must not hide a larger unlocked pool"); and
\* it is entered at all only on a developer's share, a lock and a liquidity that are
\* known, if only of one market.
EntersOnEvidence ==
    \A a \in Askers:
        asker[a].state = "given" =>
            LET f == asker[a].finding
            IN  /\ Route(f) = "A" /\ f.locked = Unknown
                   => \A x \in f.pools \ {Unknown}: x >= MinimumLocked
                /\ Route(f) # "none"
                   => /\ f.renounced /\ f.developer # Unknown /\ f.liquidity # Unknown
                      /\ f.locked # Unknown \/ f.pools \ {Unknown} # {}

\* locked_percentage: "If Rugcheck has no aggregate, every discovered market must satisfy
\* the threshold".  A market without a readable share does not have to.
EveryMarketLocked ==
    \A a \in Askers:
        asker[a].state = "given" =>
            LET f == asker[a].finding
            IN  Route(f) = "A" /\ f.locked = Unknown
                => \A x \in f.pools: Known(x, LAMBDA y: y >= MinimumLocked)
=============================================================================
