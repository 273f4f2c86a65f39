---------------------------- MODULE PaperLedger ----------------------------
(***************************************************************************)
(* The paper-trading ledger data/paper_trades.json and the processes that  *)
(* read and change it (src/risk_manager.py):                               *)
(*                                                                         *)
(*   - the monitor, which opens positions and logs rejected signals;       *)
(*   - risk loops, which poll the open positions, quote them and exit      *)
(*     them (one under PM2, another one inside src/main.py);               *)
(*   - dashboards, which close a position by hand.                         *)
(*                                                                         *)
(* Every ledger operation is one state_store.update_json call: it locks    *)
(* the document, rereads it, changes it and saves it, and nobody can see   *)
(* it half done (StateStore.tla is about that).  So an operation is one    *)
(* action here, and everything between two operations (quotes, decisions)  *)
(* is local to a process and may be stale when it is used.                 *)
(*                                                                         *)
(* Identities: position_id is the event_seq of the position's BUY, which   *)
(* is as unique as the uuid4 of the code.  A process has at most one exit  *)
(* claim at a time, so its name stands for the uuid4 of its exit_id.       *)
(*                                                                         *)
(* A definition X_Y is X with the bug Y in it.  No specification here uses *)
(* it; a property is worth its run if it fails with X_Y in the place of X. *)
(***************************************************************************)
EXTENDS Integers, Sequences, FiniteSets, Functions

CONSTANTS
    Mints,          \* tokens
    Signals,        \* buy signals (source signatures) the monitor may act on
    SignalMint,     \* [Signals -> Mints]
    SignalRoute,    \* [Signals -> {"A", "B"}]
    SignalStrategy, \* [Signals -> strategies], see Strategies
    RiskLoops,      \* processes in run_risk_loop
    Dashboards,     \* processes in close_paper_position
    Lots,           \* entry quotes: records [cost, amount]
    Prices,         \* exit quotes, in lamports per raw token
    InitialCash,    \* INITIAL_PAPER_LAMPORTS
    MaxOpen,        \* approved_signal_max_open_positions()
    FailureLimit,   \* QUOTE_FAILURE_WARNING_COUNT
    MaxEvents,      \* events kept when a rejection is logged (2,000)
    MaxSeq,         \* bound: no buy or rejection beyond this event_seq
    MaxFaults       \* bound: crashes and lock timeouts in a behaviour

Procs  == RiskLoops \cup Dashboards
NoExit == "no exit"     \* pending_exit_id is absent

\* What a position is opened for: the monitor's experiment, which is capped
\* and names its source signature, or executor.execute_buy, which is not and
\* does not.
Strategies == {"broad_discovery_v1", "baseline_v1"}

ASSUME ConstantAssumption ==
    /\ SignalMint \in [Signals -> Mints]
    /\ SignalRoute \in [Signals -> {"A", "B"}]
    /\ SignalStrategy \in [Signals -> Strategies]
    /\ RiskLoops \cap Dashboards = {}
    /\ NoExit \notin RiskLoops \cup Dashboards
    /\ Lots \subseteq [cost: Nat \ {0}, amount: Nat \ {0}]
    /\ Prices \subseteq Nat
    /\ InitialCash \in Nat
    /\ MaxOpen \in Nat \ {0}
    /\ FailureLimit \in Nat \ {0}
    /\ MaxEvents \in Nat \ {0}
    /\ MaxSeq \in Nat
    /\ MaxFaults \in Nat

VARIABLES
    \* the document
    cash, positions, events, nextSeq,
    \* the processes: where each is, the positions it has read and not yet
    \* evaluated, and the exit it is working on
    pc, todo, job,
    \* bookkeeping of the model: crashes and lock timeouts so far, and the
    \* sum of realized_pnl_lamports over every SELL event ever logged
    faults, realized

ledger == <<cash, positions, events, nextSeq>>
procs  == <<pc, todo, job>>
vars   == <<ledger, procs, faults, realized>>

-----------------------------------------------------------------------------
(* Data *)

NoJob  == [mint |-> "no job"]

TakeProfit   == "TAKE_PROFIT_30_SELL_80"
TrailingStop == "POST_TP_TRAILING_STOP_50"
StopLoss     == "STOP_LOSS"     \* STOP_LOSS_15 or ROUTE_B_STOP_LOSS_10
ManualClose  == "MANUAL_CLOSE"
Reasons      == {TakeProfit, TrailingStop, StopLoss, ManualClose}

\* NO_ROUTE is kept as DEGRADED: the code only distinguishes EXIT_PENDING.
RiskStates == {"NORMAL", "EXIT_PENDING", "DEGRADED"}

Position ==
    [id: Nat, signal: Signals, amount: Nat \ {0}, cost: Nat \ {0},
     state: RiskStates, exitId: Procs \cup {NoExit}, tpDone: BOOLEAN,
     peak: Nat, failures: 0 .. FailureLimit]

BuyEvent ==
    [type: {"BUY"}, seq: Nat, mint: Mints, signal: Signals,
     cost: Nat, amount: Nat]
SellEvent ==
    [type: {"SELL"}, seq: Nat, mint: Mints, id: Nat, signal: Signals,
     reason: Reasons, sold: Nat, proceeds: Nat, pnl: Int]
SkipEvent ==
    [type: {"SIGNAL_REJECTED", "SKIPPED_BY_RPC_ERROR"}, seq: Nat,
     mint: Mints, signal: Signals]
Event == BuyEvent \cup SellEvent \cup SkipEvent

\* The part of _execute_paper_exit and close_paper_position that lives in
\* local variables.  view is the position as the process last read it.
Job ==
    [mint: Mints, view: Position, reason: Reasons, amount: Nat, value: Nat,
     degraded: BOOLEAN]

IsBuy(e)  == e.type = "BUY"
IsSell(e) == e.type = "SELL"
EventSet  == {events[i] : i \in 1 .. Len(events)}
BuysOf(m) == {e \in EventSet : IsBuy(e) /\ e.mint = m}

Opened  == DOMAIN positions
Without(f, x) == [y \in DOMAIN f \ {x} |-> f[y]]
With(f, x, v) == [y \in DOMAIN f \cup {x} |-> IF y = x THEN v ELSE f[y]]
MinOf(a, b)   == IF a < b THEN a ELSE b
MaxOf(a, b)   == IF a > b THEN a ELSE b
FirstOf(s, n) == IF Len(s) <= n THEN s ELSE SubSeq(s, 1, n)
LastOf(s, n)  == IF Len(s) <= n THEN s ELSE SubSeq(s, Len(s) - n + 1, Len(s))

-----------------------------------------------------------------------------
(* The monitor *)

OpenIn(strategy) == {m \in Opened : SignalStrategy[positions[m].signal] = strategy}

MayBuy_OnCredit(s, lot) ==
    /\ SignalMint[s] \notin Opened
    /\ \A e \in BuysOf(SignalMint[s]) : e.signal # s
MayBuy(s, lot) ==
    /\ SignalStrategy[s] = "broad_discovery_v1" =>
          /\ Cardinality(OpenIn("broad_discovery_v1")) < MaxOpen
          /\ \A e \in BuysOf(SignalMint[s]) : e.signal # s
    /\ SignalMint[s] \notin Opened
    /\ lot.cost <= cash

\* record_paper_buy.  A refused buy raises and leaves the ledger as it was.
Buy(s, lot) ==
    LET m == SignalMint[s] IN
    /\ nextSeq <= MaxSeq
    /\ MayBuy(s, lot)
    /\ cash' = cash - lot.cost
    /\ positions' = With(positions, m,
          [id |-> nextSeq, signal |-> s, amount |-> lot.amount, cost |-> lot.cost,
           state |-> "NORMAL", exitId |-> NoExit, tpDone |-> FALSE, peak |-> 0, failures |-> 0])
    /\ events' = Append(events,
          [type |-> "BUY", seq |-> nextSeq, mint |-> m, signal |-> s,
           cost |-> lot.cost, amount |-> lot.amount])
    /\ nextSeq' = nextSeq + 1
    /\ UNCHANGED <<procs, faults, realized>>

\* record_paper_rejection and record_rpc_skip: once per signal and mint, and
\* the only operations that forget old events, whatever their type.
LogSkip(s, type) ==
    /\ nextSeq <= MaxSeq
    /\ \A e \in EventSet :
          ~ (e.type = type /\ e.signal = s /\ e.mint = SignalMint[s])
    /\ events' = LastOf(Append(events,
          [type |-> type, seq |-> nextSeq, mint |-> SignalMint[s], signal |-> s]),
          MaxEvents)
    /\ nextSeq' = nextSeq + 1
    /\ UNCHANGED <<cash, positions, procs, faults, realized>>

-----------------------------------------------------------------------------
(* The ledger operations of an exit *)

SamePosition(m, id) == m \in Opened /\ positions[m].id = id

\* claim_position_exit
MayClaim(p) ==
    /\ SamePosition(job[p].mint, job[p].view.id)
    /\ positions[job[p].mint].state # "EXIT_PENDING"

\* The fence of record_paper_sell and release_exit_claim.
HasClaim_OfVersion(p) ==
    /\ SamePosition(job[p].mint, job[p].view.id)
    /\ positions[job[p].mint].exitId = p
    /\ positions[job[p].mint].failures = job[p].view.failures
HasClaim(p) ==
    /\ SamePosition(job[p].mint, job[p].view.id)
    /\ positions[job[p].mint].exitId = p

\* What record_paper_sell takes out of a position for the exit j.
Sold(pos, j)     == MinOf(j.amount, pos.amount)
Released_AsRead(pos, j) == (j.view.cost * Sold(pos, j)) \div j.view.amount
Released(pos, j) == (pos.cost * Sold(pos, j)) \div pos.amount

Pnl_WholeCost(pos, j) == j.value - pos.cost
Pnl(pos, j)           == j.value - Released(pos, j)

AfterSale_Bare(pos, j) ==
    [pos EXCEPT !.amount = @ - Sold(pos, j), !.cost = @ - Released(pos, j),
                !.state = "NORMAL", !.exitId = NoExit]
AfterSale(pos, j) ==
    [pos EXCEPT !.amount = @ - Sold(pos, j),
                !.cost   = @ - Released(pos, j),
                !.state  = "NORMAL",
                !.exitId = NoExit,
                !.tpDone = @ \/ j.reason = TakeProfit,
                !.peak   = IF j.reason = TakeProfit THEN 0 ELSE @]

\* record_position_mark
Marked(pos, value) ==
    [pos EXCEPT !.peak     = IF pos.tpDone THEN MaxOf(@, value) ELSE @,
                !.failures = 0,
                !.state    = IF @ = "EXIT_PENDING" THEN @ ELSE "NORMAL"]

\* record_quote_failure.  gap: the last good quote is ten seconds old.
\* Nothing here looks at EXIT_PENDING.
QuoteFailed(pos, gap) ==
    LET n == MinOf(pos.failures + 1, FailureLimit)
    IN  [pos EXCEPT !.failures = n,
                    !.state = IF n = FailureLimit \/ gap THEN "DEGRADED" ELSE @]

\* The change f of one position, if it is still the one process p knows.
ChangePosition(p, f) ==
    positions' = IF SamePosition(job[p].mint, job[p].view.id)
                 THEN [positions EXCEPT ![job[p].mint] = f]
                 ELSE positions

-----------------------------------------------------------------------------
(* Steps of a process.  Idle ends an evaluation or a manual close. *)

GoTo(p, label) == pc' = [pc EXCEPT ![p] = label]
Finish(p)      == GoTo(p, "idle") /\ job' = [job EXCEPT ![p] = NoJob]

\* The start of a round of run_risk_loop: one lock-free read of all positions.
Poll(p) ==
    /\ p \in RiskLoops /\ pc[p] = "idle" /\ DOMAIN todo[p] = {}
    /\ todo' = [todo EXCEPT ![p] = positions]
    /\ UNCHANGED <<ledger, pc, job, faults, realized>>

\* evaluate_paper_position starts on a position of the round and skips one
\* whose exit was pending when the round started.
Evaluate(p, m) ==
    LET view == todo[p][m] IN
    /\ pc[p] = "idle" /\ m \in DOMAIN todo[p]
    /\ todo' = [todo EXCEPT ![p] = Without(@, m)]
    /\ IF view.state = "EXIT_PENDING" THEN UNCHANGED <<pc, job>>
       ELSE /\ GoTo(p, "quoting")
            /\ job' = [job EXCEPT ![p] =
                  [mint |-> m, view |-> view, reason |-> StopLoss,
                   amount |-> view.amount, value |-> 0, degraded |-> FALSE]]
    /\ UNCHANGED <<ledger, faults, realized>>

\* The decision of evaluate_paper_position, from the position as it was read
\* and the value just quoted.
StopPercent(s) == IF SignalRoute[s] = "B" THEN 90 ELSE 85
StopTriggered(view, value) ==
    IF view.tpDone THEN view.peak > 0 /\ value * 2 <= view.peak
    ELSE value * 100 <= StopPercent(view.signal) * view.cost
TakeProfitTriggered(view, value) ==
    ~ view.tpDone /\ value * 100 >= 130 * view.cost

\* The quote arrives, the mark is recorded and the decision is made.
QuoteOk(p, price) ==
    LET view  == job[p].view
        value == price * view.amount
    IN
    /\ pc[p] = "quoting"
    /\ ChangePosition(p, Marked(positions[job[p].mint], value))
    /\ \/ /\ StopTriggered(view, value)
          /\ GoTo(p, "claiming")
          /\ job' = [job EXCEPT ![p].value = value,
                                ![p].reason = IF view.tpDone THEN TrailingStop
                                              ELSE StopLoss]
       \/ /\ ~ StopTriggered(view, value)
          /\ TakeProfitTriggered(view, value)
          /\ GoTo(p, "claiming")
          /\ job' = [job EXCEPT ![p].reason = TakeProfit]
       \/ /\ ~ StopTriggered(view, value)
          /\ ~ TakeProfitTriggered(view, value)
          /\ Finish(p)
    /\ UNCHANGED <<cash, events, nextSeq, todo, faults, realized>>

\* The quote fails: the failure is recorded and the evaluation ends.  The
\* same operation ends an exit whose claim was released as degraded.
RecordFailure(p, gap) ==
    /\ pc[p] \in {"quoting", "failing"}
    /\ ChangePosition(p, QuoteFailed(positions[job[p].mint], gap))
    /\ Finish(p)
    /\ UNCHANGED <<cash, events, nextSeq, todo, faults, realized>>

\* close_paper_position reads the position the user picked.
StartManualClose(p, m) ==
    /\ p \in Dashboards /\ pc[p] = "idle" /\ m \in Opened
    /\ GoTo(p, "claiming")
    /\ job' = [job EXCEPT ![p] =
          [mint |-> m, view |-> positions[m], reason |-> ManualClose,
           amount |-> positions[m].amount, value |-> 0, degraded |-> FALSE]]
    /\ UNCHANGED <<ledger, todo, faults, realized>>

\* What an exit sells: 80% for a take profit, all of it otherwise.
ExitAmount(reason, amount) ==
    IF reason = TakeProfit THEN (amount * 80) \div 100 ELSE amount

\* A stop is sold on the quote that detected it, which must be for the amount
\* that was claimed; the other exits ask for a quote of their own.
SellsAtDetection(j)     == j.reason \in {StopLoss, TrailingStop}
Usable_Any(j, amount)   == amount > 0
Usable_Part(j, amount)  ==
    amount > 0 /\ (SellsAtDetection(j) => j.view.amount = ExitAmount(TakeProfit, amount))
Usable(j, amount)       ==
    amount > 0 /\ (SellsAtDetection(j) => j.view.amount = amount)

Claim(p) ==
    LET j      == job[p]
        amount == ExitAmount(j.reason, positions[j.mint].amount)
        usable == Usable(j, amount)
    IN
    /\ pc[p] = "claiming" /\ MayClaim(p)
    /\ positions' = [positions EXCEPT ![j.mint].state = "EXIT_PENDING",
                                      ![j.mint].exitId = p]
    /\ job' = [job EXCEPT ![p].amount = amount]
    /\ \/ ~ usable /\ GoTo(p, "releasing")
       \/ usable /\ SellsAtDetection(j) /\ GoTo(p, "selling")
       \/ usable /\ ~ SellsAtDetection(j) /\ GoTo(p, "requoting")
    /\ UNCHANGED <<cash, events, nextSeq, todo, faults, realized>>

ClaimRefused(p) ==
    /\ pc[p] = "claiming" /\ ~ MayClaim(p)
    /\ Finish(p)
    /\ UNCHANGED <<ledger, todo, faults, realized>>

RequoteOk(p, price) ==
    /\ pc[p] = "requoting"
    /\ GoTo(p, "selling")
    /\ job' = [job EXCEPT ![p].value = price * job[p].amount]
    /\ UNCHANGED <<ledger, todo, faults, realized>>

\* An exception between the claim and the sale releases the claim.
Abandon(p) ==
    /\ GoTo(p, "releasing")
    /\ job' = [job EXCEPT ![p].degraded = TRUE]
    /\ UNCHANGED <<ledger, todo, realized>>

RequoteFails(p) == pc[p] = "requoting" /\ Abandon(p) /\ UNCHANGED faults

\* record_paper_sell.  A position sold out leaves the ledger; the mark CLOSED
\* on its observation is the step after ("closing").
Sell(p) ==
    LET j    == job[p]
        m    == j.mint
        pos  == positions[m]
        left == AfterSale(pos, j)
    IN
    /\ pc[p] = "selling" /\ HasClaim(p)
    /\ cash' = cash + j.value
    /\ events' = Append(events,
          [type |-> "SELL", seq |-> nextSeq, mint |-> m, id |-> pos.id,
           signal |-> pos.signal, reason |-> j.reason, sold |-> Sold(pos, j),
           proceeds |-> j.value, pnl |-> Pnl(pos, j)])
    /\ nextSeq' = nextSeq + 1
    /\ realized' = realized + Pnl(pos, j)
    /\ \/ /\ left.amount > 0
          /\ positions' = [positions EXCEPT ![m] = left]
          /\ Finish(p)
       \/ /\ left.amount = 0
          /\ positions' = Without(positions, m)
          /\ GoTo(p, "closing") /\ UNCHANGED job
    /\ UNCHANGED <<todo, faults>>

\* record_paper_sell returns False: the loop gives up silently, the dashboard
\* raises and runs its exception handler.
SellRefused(p) ==
    /\ pc[p] = "selling" /\ ~ HasClaim(p)
    /\ \/ /\ p \in RiskLoops
          /\ Finish(p)
          /\ UNCHANGED <<ledger, todo, realized>>
       \/ p \in Dashboards /\ Abandon(p)
    /\ UNCHANGED faults

\* release_exit_claim, a no-op for a claim that is no longer this process's.
Release(p) ==
    /\ pc[p] = "releasing"
    /\ positions' = IF HasClaim(p)
                    THEN [positions EXCEPT ![job[p].mint].exitId = NoExit,
                            ![job[p].mint].state =
                               IF job[p].degraded THEN "DEGRADED" ELSE "NORMAL"]
                    ELSE positions
    /\ IF job[p].degraded THEN GoTo(p, "failing") /\ UNCHANGED job ELSE Finish(p)
    /\ UNCHANGED <<cash, events, nextSeq, todo, faults, realized>>

\* mark_paper_experiment_status(..., "CLOSED") by the process that sold out.
CloseExperiment(p) ==
    /\ pc[p] = "closing"
    /\ Finish(p)
    /\ UNCHANGED <<ledger, todo, faults, realized>>

-----------------------------------------------------------------------------
(* Faults *)

Fault == faults < MaxFaults /\ faults' = faults + 1

\* StateLockTimeout from the ledger operation the process is at.  A failed
\* sale is handled like a failed quote.  A failed release is not handled.
LockTimesOut(p) ==
    /\ Fault
    /\ \/ pc[p] = "selling" /\ Abandon(p)
       \/ /\ pc[p] \in {"quoting", "claiming", "releasing", "failing", "closing"}
          /\ Finish(p)
          /\ UNCHANGED <<ledger, todo, realized>>

\* The process dies, or is cancelled (except Exception does not see that),
\* and PM2 starts it again with nothing in memory.
Crash(p) ==
    /\ Fault
    /\ pc[p] # "idle" \/ DOMAIN todo[p] # {}
    /\ Finish(p)
    /\ todo' = [todo EXCEPT ![p] = <<>>]
    /\ UNCHANGED <<ledger, realized>>

-----------------------------------------------------------------------------
Init ==
    /\ cash = InitialCash
    /\ positions = <<>>
    /\ events = <<>>
    /\ nextSeq = 1
    /\ pc = [p \in Procs |-> "idle"]
    /\ todo = [p \in Procs |-> <<>>]
    /\ job = [p \in Procs |-> NoJob]
    /\ faults = 0
    /\ realized = 0

\* The steps a scheduled process always gets to take.
ProcStep(p) ==
    \/ Poll(p)
    \/ \E m \in Mints : Evaluate(p, m)
    \/ \E price \in Prices : QuoteOk(p, price) \/ RequoteOk(p, price)
    \/ \E gap \in BOOLEAN : RecordFailure(p, gap)
    \/ RequoteFails(p)
    \/ Claim(p) \/ ClaimRefused(p)
    \/ Sell(p) \/ SellRefused(p)
    \/ Release(p) \/ CloseExperiment(p)

Next ==
    \/ \E s \in Signals, lot \in Lots : Buy(s, lot)
    \/ \E s \in Signals, type \in {"SIGNAL_REJECTED", "SKIPPED_BY_RPC_ERROR"} :
          LogSkip(s, type)
    \/ \E p \in Procs :
          \/ ProcStep(p)
          \/ \E m \in Mints : StartManualClose(p, m)
          \/ LockTimesOut(p)
          \/ Crash(p)

Spec == Init /\ [][Next]_vars

\* Every process is scheduled, every request ends (the client sessions have
\* timeouts), and a quote that is asked for again and again is answered again
\* and again.  Nothing makes the monitor buy or a user press the button.
Fairness ==
    \A p \in Procs :
       /\ WF_vars(ProcStep(p))
       /\ SF_vars(\E price \in Prices : QuoteOk(p, price))
LiveSpec == Spec /\ Fairness

-----------------------------------------------------------------------------
(* Properties *)

\* Types.  Positions hold tokens and cost: record_paper_sell deletes one with
\* no tokens, and rounding never releases the whole cost of a partial sale.
LedgerTypeOK ==
    /\ cash \in Nat
    /\ Opened \subseteq Mints
    /\ positions \in [Opened -> Position]
    /\ \A m \in Opened : SignalMint[positions[m].signal] = m
    /\ events \in Seq(Event)
    /\ nextSeq \in Nat

Labels == {"idle", "quoting", "claiming", "requoting", "selling", "releasing",
           "failing", "closing"}
ProcTypeOK ==
    /\ pc \in [Procs -> Labels]
    /\ DOMAIN todo = Procs /\ DOMAIN job = Procs
    /\ \A p \in Procs : \E open \in SUBSET Mints : todo[p] \in [open -> Position]
    /\ \A p \in Procs : job[p] \in IF pc[p] = "idle" THEN {NoJob} ELSE Job

TypeOK ==
    /\ LedgerTypeOK
    /\ ProcTypeOK
    /\ faults \in 0 .. MaxFaults
    /\ realized \in Int

\* The test test_cost_basis_accounting_invariant for every interleaving: cash
\* plus the cost still invested is the initial cash plus all realized PnL,
\* with partial sales, rounding and sales lost to another process.
LedgerReconciles ==
    cash + SumFunction([m \in Opened |-> positions[m].cost])
      = InitialCash + realized

\* The events of a position tell the same story as the position: while its BUY
\* is in the log, what its SELLs sold and released plus what is still held is
\* what was bought.  Nothing is sold twice and nothing is sold after the end.
SellsOf(id) == {e \in EventSet : IsSell(e) /\ e.id = id}
RoundTripAccounted ==
    \A b \in {e \in EventSet : IsBuy(e)} :
       LET sells == SellsOf(b.seq)
           held  == IF SamePosition(b.mint, b.seq) THEN positions[b.mint].amount ELSE 0
           left  == IF SamePosition(b.mint, b.seq) THEN positions[b.mint].cost ELSE 0
       IN  /\ SumFunction([e \in sells |-> e.sold]) + held = b.amount
           /\ SumFunction([e \in sells |-> e.proceeds - e.pnl]) + left = b.cost

\* A process between its claim and the end of its exit.
Holding(p, m) ==
    /\ pc[p] \in {"requoting", "selling", "releasing"}
    /\ job[p].mint = m /\ job[p].view.id = positions[m].id

\* A position waits for an exit only while the process that claimed it is at
\* work on it, as long as nothing crashed and no lock timed out: no sequence of
\* claims, clobbered states, refused sales and releases strands a position.
\* After a fault one may be stranded for good, for a claim has no expiry.
PendingExitHasHolder ==
    faults = 0 =>
       \A m \in Opened : positions[m].state = "EXIT_PENDING" =>
          positions[m].exitId \in Procs /\ Holding(positions[m].exitId, m)

\* A stop loss really sold at a loss beyond the route's stop, although it sells
\* on a quote taken before the claim, when another process may have changed
\* the amount the quote was for.
StopLossSoldAtLoss ==
    \A e \in EventSet : IsSell(e) /\ e.reason = StopLoss =>
       e.proceeds * 100 <= StopPercent(e.signal) * (e.proceeds - e.pnl)

\* docs/PAPER_MVP.md: one take profit per position.
TakeProfitOnce ==
    \A e, f \in EventSet :
       /\ IsSell(e) /\ e.reason = TakeProfit
       /\ IsSell(f) /\ f.reason = TakeProfit
       /\ e.id = f.id
       => e = f

\* docs/PAPER_MVP.md: the trailing stop of what a take profit left compares
\* with a peak that this remainder was worth, not with a value of the position
\* before the take profit.  It is so with one risk loop; a second one may mark
\* what was left with a quote for the tokens it read before the take profit.
PeakOfRemainder ==
    \A m \in Opened : positions[m].tpDone =>
       \E price \in Prices \cup {0} : positions[m].peak = price * positions[m].amount

\* claim_position_exit: "Claim the one allowed exit action for a position
\* across all processes."
OneExitPerPosition ==
    \A m \in Opened, p, q \in Procs : Holding(p, m) /\ Holding(q, m) => p = q

\* The log only forgets from its old end, and never what it was just told: an
\* event is gone only when every event still there is younger.
LogForgetsOldest ==
    [][/\ \A e \in EventSet : e \in EventSet' \/ \A f \in EventSet' : e.seq < f.seq
       /\ nextSeq' # nextSeq => \E e \in EventSet' : e.seq = nextSeq]_vars

\* Every exit that is claimed ends, one way or the other.
ExitResolves ==
    \A m \in Mints :
       m \in Opened /\ positions[m].state = "EXIT_PENDING"
         ~> m \notin Opened \/ positions[m].state # "EXIT_PENDING"

\* A position whose quotes stay beyond its stop is sold in the end, whatever
\* quotes fail on the way and whoever else tries to exit it.
StopEventuallySells ==
    \A s \in Signals :
       (\A price \in Prices, lot \in Lots :
           price * lot.amount * 100 <= StopPercent(s) * lot.cost)
       => \A m \in Mints, id \in 1 .. MaxSeq :
             SamePosition(m, id) /\ positions[m].signal = s ~> ~ SamePosition(m, id)
=============================================================================
