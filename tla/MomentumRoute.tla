--------------------------- MODULE MomentumRoute ---------------------------
(***************************************************************************)
(* Route B of src/monitor.py, run_market_momentum_route: every five        *)
(* seconds the DEX screener is asked for active pairs; the best one that   *)
(* is not cooling down is confirmed by unknown whales on the chain, asked  *)
(* for again, and signalled.  Pairs that just miss are captured as shadow  *)
(* signals, a few at a time.                                               *)
(*                                                                         *)
(* One coroutine, so what is between two awaits is one action.  The time   *)
(* now is taken once per poll, before the candidate is confirmed: all that *)
(* a poll does later is dated back by how late it is.  A poll that fails   *)
(* leaves nothing behind and is followed by another, as is one that finds  *)
(* nothing.  Volume and net buys stand or fall with the score.             *)
(***************************************************************************)
EXTENDS Integers, FiniteSets

CONSTANTS
    Mints,
    Feeds,          \* what the screener may return: sets of pairs, see Pair
    Strangers,      \* signers that are not watched wallets
    MinWhales,      \* UNKNOWN_WHALE_MIN_COUNT
    MaxSignatures,  \* UNKNOWN_WHALE_SIGNATURE_LIMIT
    EntryCool,      \* MOMENTUM_ENTRY_COOLDOWN_SECONDS
    CaptureGap,     \* MOMENTUM_SHADOW_CAPTURE_INTERVAL_SECONDS
    ConfirmTime,    \* ROUTE_B_CONFIRM_TIMEOUT_SECONDS
    FetchTime,      \* what the requests of a fetch may take
    MaxCaptures,    \* MAX_PENDING_SHADOW_SIGNALS
    NoMint

\* misses: how many of the conditions of route B a pair fails
Pair == [mint: Mints, score: Nat, misses: Nat]

ASSUME MomentumAssumption ==
    /\ Feeds \subseteq SUBSET Pair /\ NoMint \notin Mints
    /\ {MinWhales, MaxSignatures, EntryCool, CaptureGap, MaxCaptures} \subseteq Nat \ {0}
    /\ {ConfirmTime, FetchTime} \subseteq Nat

VARIABLES
    route,      \* the local variables of the poll under way
    cooling,    \* _market_entry_cooldowns, _market_shadow_cooldowns: time left
    gap,        \* time left until _last_market_shadow_capture_at + the interval
    captures,   \* _shadow_signal_tasks of this route
    since       \* time since the last signal, and the last capture, of a mint

momentumVars == <<route, cooling, gap, captures, since>>

Watching == [pc |-> "wait", mint |-> NoMint, score |-> 0, near |-> {}, whales |-> {},
             left |-> 0, late |-> 0, veiled |-> {}, open |-> FALSE]

-----------------------------------------------------------------------------
(* _fetch_momentum_candidate_cohorts                                       *)

Approved(feed) == {p \in feed : p.misses = 0
                      /\ \A q \in feed : q.mint = p.mint /\ q.misses = 0 => q.score <= p.score}
Nearer(p, q)   == p.misses < q.misses \/ (p.misses = q.misses /\ p.score >= q.score)
NearMisses(feed) ==
    {p \in feed : \A q \in feed : q.mint = p.mint => q.misses > 0 /\ Nearer(p, q)}

-----------------------------------------------------------------------------
(* The end of a poll                                                       *)

LeftOf(time)  == IF time > route.late THEN time - route.late ELSE 0

\* Bug: a mint that was captured may be captured again.
Fresh_Any(r, pairs) == pairs
Fresh(r, pairs)     == {p \in pairs : p.mint \notin r.veiled}
FirstNear(pairs)    == {p \in pairs : \A q \in pairs : Nearer(p, q)}

\* schedule_market_shadow, of the candidate itself, if it was turned down, or else of
\* the first near miss that can be captured.
Capturable(r, own) ==
    IF ~r.open \/ captures >= MaxCaptures THEN {}
    ELSE IF Fresh(r, own) # {} THEN {p.mint : p \in own}
    ELSE {p.mint : p \in FirstNear(Fresh(r, r.near))}

\* The poll ends with r; entered is the mint that is signalled, if there is one.
Finish(r, own, entered) ==
    LET options == Capturable(r, own)
        captured == IF options = {} THEN {} ELSE {CHOOSE m \in options : TRUE}
    IN  /\ route' = Watching
        /\ cooling' = [entry  |-> [m \in Mints |-> IF m \in entered THEN LeftOf(EntryCool)
                                                   ELSE cooling.entry[m]],
                       shadow |-> [m \in Mints |-> IF m \in captured THEN LeftOf(EntryCool)
                                                   ELSE cooling.shadow[m]]]
        /\ gap' = IF captured = {} THEN gap ELSE LeftOf(CaptureGap)
        /\ captures' = captures + Cardinality(captured)
        /\ since' = [entry  |-> [m \in Mints |-> IF m \in entered THEN 0 ELSE since.entry[m]],
                     shadow |-> [m \in Mints |-> IF m \in captured THEN 0 ELSE since.shadow[m]]]

-----------------------------------------------------------------------------
(* A poll                                                                  *)

\* Bug: what is cooling down is looked up after the confirmation only.
Rested_All(pairs) == pairs
Rested(pairs)     == {p \in pairs : cooling.entry[p.mint] = 0}
Best(pairs)       == {p \in pairs : \A q \in pairs : q.score <= p.score}

\* What the poll knows of the cooldowns, once those that are over are forgotten.
Started(feed) == [Watching EXCEPT !.near = NearMisses(feed), !.open = (gap = 0),
                                  !.veiled = {m \in Mints : cooling.shadow[m] > 0}]

\* The cohorts have been fetched and no candidate is left: near misses only.
PollNothing(feed) ==
    /\ route.pc = "wait" /\ Rested(Approved(feed)) = {}
    /\ Finish(Started(feed), {}, {})

\* A candidate is left: its recent signatures are fetched.
PollCandidate(feed, p, n) ==
    /\ route.pc = "wait" /\ p \in Best(Rested(Approved(feed)))
    /\ route' = [Started(feed) EXCEPT !.pc = "confirm", !.mint = p.mint, !.score = p.score,
                                      !.left = n]
    /\ UNCHANGED <<cooling, gap, captures, since>>

\* confirm_unknown_whales reads one transaction after the other; in each it finds the
\* unknown signers that paid enough for the token.
ReadTransaction(found) ==
    /\ route.pc = "confirm" /\ route.left > 0 /\ Cardinality(route.whales) < MinWhales
    /\ route' = [route EXCEPT !.left = @ - 1, !.whales = @ \cup found]
    /\ UNCHANGED <<cooling, gap, captures, since>>

Own == {[mint |-> route.mint, score |-> route.score, misses |-> 0]}

\* Too few: the candidate is captured as a shadow.
TooFewWhales ==
    /\ route.pc = "confirm" /\ route.left = 0 /\ Cardinality(route.whales) < MinWhales
    /\ Finish(route, Own, {})

\* Enough: the market is asked again.
EnoughWhales ==
    /\ route.pc = "confirm" /\ Cardinality(route.whales) >= MinWhales
    /\ route' = [route EXCEPT !.pc = "refresh", !.left = 0, !.whales = {}]
    /\ UNCHANGED <<cooling, gap, captures, since>>

\* momentum_is_still_strong
StillStrong(feed) == \E p \in Approved(feed) : p.mint = route.mint /\ p.score >= route.score
Refresh(feed) ==
    /\ route.pc = "refresh"
    /\ IF StillStrong(feed) THEN Finish(route, {}, {route.mint}) ELSE Finish(route, Own, {})

\* A request of the confirmation or of the second fetch fails or times out.
MayTimeOut_Never == FALSE   \* Bug: the confirmation has no time limit.
MayTimeOut       == route.pc = "confirm" /\ route.late = ConfirmTime
PollFails ==
    /\ route.pc \in {"confirm", "refresh"}
    /\ route' = Watching /\ UNCHANGED <<cooling, gap, captures, since>>
TimesOut == MayTimeOut /\ PollFails

CaptureEnds ==
    /\ captures > 0
    /\ captures' = captures - 1
    /\ UNCHANGED <<route, cooling, gap, since>>

\* The monitor restarts; the cooldowns were only in its memory.
NoCooling == [entry |-> [m \in Mints |-> 0], shadow |-> [m \in Mints |-> 0]]
RouteRestarts ==
    /\ route' = Watching /\ cooling' = NoCooling /\ gap' = 0 /\ captures' = 0
    /\ since' = [entry |-> [m \in Mints |-> EntryCool], shadow |-> [m \in Mints |-> EntryCool]]

\* A unit of time passes, unless a time limit is up.
Sooner(n) == IF n > 0 THEN n - 1 ELSE 0
Grown(n)  == IF n < EntryCool THEN n + 1 ELSE n
InTime    == CASE route.pc = "wait"    -> TRUE
               [] route.pc = "confirm" -> route.late < ConfirmTime
               [] route.pc = "refresh" -> route.late < ConfirmTime + FetchTime
MomentumTick ==
    /\ InTime
    /\ route' = [route EXCEPT !.late = IF route.pc = "wait" THEN 0 ELSE @ + 1]
    /\ cooling' = [k \in DOMAIN cooling |-> [m \in Mints |-> Sooner(cooling[k][m])]]
    /\ gap' = Sooner(gap)
    /\ since' = [k \in DOMAIN since |-> [m \in Mints |-> Grown(since[k][m])]]
    /\ UNCHANGED captures

-----------------------------------------------------------------------------

MomentumInit ==
    /\ route = Watching /\ cooling = NoCooling /\ gap = 0 /\ captures = 0
    /\ since = [entry |-> [m \in Mints |-> EntryCool], shadow |-> [m \in Mints |-> EntryCool]]

Poll == \E feed \in Feeds:
            \/ PollNothing(feed) \/ Refresh(feed)
            \/ \E p \in feed, n \in 0..MaxSignatures: PollCandidate(feed, p, n)

MomentumNext ==
    \/ Poll \/ TooFewWhales \/ EnoughWhales \/ PollFails \/ CaptureEnds
    \/ \E found \in SUBSET Strangers: ReadTransaction(found)
    \/ RouteRestarts \/ MomentumTick

\* Time passes, time limits fire and fetches end (their requests have limits too); what
\* the RPC does during the confirmation is not up to the monitor.
MomentumFairness ==
    /\ WF_momentumVars(MomentumTick) /\ WF_momentumVars(TimesOut)
    /\ WF_momentumVars(TooFewWhales \/ EnoughWhales)
    /\ WF_momentumVars(\E feed \in Feeds: Refresh(feed))

MomentumSpec == MomentumInit /\ [][MomentumNext]_momentumVars /\ MomentumFairness

-----------------------------------------------------------------------------
(* Properties                                                              *)

MomentumTypeOK ==
    /\ route.pc \in {"wait", "confirm", "refresh"} /\ route.mint \in Mints \cup {NoMint}
    /\ route.late \in 0..ConfirmTime + FetchTime /\ route.near \subseteq Pair
    /\ cooling \in [{"entry", "shadow"} -> [Mints -> 0..EntryCool]]
    /\ gap \in 0..CaptureGap /\ captures \in 0..MaxCaptures

\* A mint is not signalled, and not captured, a second time before its cooldown is over,
\* but for the time that a poll can take: the cooldown is dated back to before the
\* confirmation (run_market_momentum_route, schedule_market_shadow).
MintsAreSpaced ==
    [][\A k \in {"entry", "shadow"}, m \in Mints:
          since'[k][m] < since[k][m] =>
              since[k][m] >= EntryCool - ConfirmTime - FetchTime]_momentumVars

\* No poll hangs: whatever the RPC does, the route looks at the market again
\* (ROUTE_B_CONFIRM_TIMEOUT_SECONDS).
RoutePollsOn == []<>(route.pc = "wait")
=============================================================================
