--------------------------- MODULE LiveExecution ---------------------------
(***************************************************************************)
(* Live exits: run_risk_loop(paper_trading=False) in src/risk_manager.py   *)
(* and execute_sell in src/executor.py.  A loop claims a position in the   *)
(* ledger, sells tokens of the wallet in a bundle, and books the sale only *)
(* if it has seen the bundle land.  The chain decides when, and whether,   *)
(* a bundle lands; a loop may stop waiting, or die, before it does.        *)
(*                                                                         *)
(* The ledger operations are those of PaperLedger, reduced to what a live  *)
(* exit reads and writes; the process's name stands for its exit_id.  All  *)
(* processes run live: a manual close, which is always a paper one, and    *)
(* execute_buy, which books nothing, are left out.                         *)
(***************************************************************************)
EXTENDS Integers, Sequences

CONSTANTS
    LiveMints,      \* tokens with a position at the start
    LiveLoops,      \* processes in run_risk_loop
    Stake,          \* token_amount_raw of a position, and the wallet's balance
    Ratios,         \* what a quote may be worth, in percent of the cost
    MaxBundles,     \* bound: bundles ever sent
    NoLoop

ASSUME LiveAssumption ==
    /\ Stake \in Nat \ {0}
    /\ Ratios \subseteq Nat
    /\ MaxBundles \in Nat
    /\ NoLoop \notin LiveLoops

VARIABLES
    book,       \* the positions in the ledger
    wallet,     \* tokens owned on the chain
    bundles,    \* every bundle sent, and its fate
    plan,       \* positions a loop has read and not evaluated yet
    exit        \* the local variables of each loop

liveVars == <<book, wallet, bundles, plan, exit>>

-----------------------------------------------------------------------------

LivePosition == [amount: 0..Stake, claim: LiveLoops \cup {NoLoop}, pending: BOOLEAN,
                 first: BOOLEAN, second: BOOLEAN]
Bundle       == [mint: LiveMints, amount: 1..Stake, fate: {"flying", "landed", "failed"}]

NoExitYet == [pc |-> "idle", mint |-> "none", percent |-> 0, first |-> FALSE,
              claimed |-> 0, amount |-> 0, bundle |-> 0, landed |-> FALSE]

Goes(p, r)    == exit' = [exit EXCEPT ![p] = r]
Step(p, pc)   == Goes(p, [exit[p] EXCEPT !.pc = pc])
Position(p)   == book[exit[p].mint]
Change(p, r)  == book' = [book EXCEPT ![exit[p].mint] = r]
IsOpen(m)     == book[m].amount > 0

\* One read of all positions, at the start of a round.
LivePoll(p) ==
    /\ exit[p].pc = "idle" /\ plan[p] = <<>>
    /\ plan' = [plan EXCEPT ![p] = [m \in {n \in LiveMints : IsOpen(n)} |-> book[m]]]
    /\ UNCHANGED <<book, wallet, bundles, exit>>

\* The thresholds of the loop: percent to sell, and whether it is the first or the
\* second take profit.
Triggered(view, ratio) ==
    IF ratio <= 85 THEN <<100, FALSE>>
    ELSE IF ratio >= 200 /\ view.first /\ ~view.second THEN <<50, FALSE>>
    ELSE IF ratio >= 130 /\ ~view.first THEN <<50, TRUE>>
    ELSE <<0, FALSE>>

\* The position, as it was read, is quoted and marked; the quote may fail.  A mark
\* clears DEGRADED, which no decision here reads.
LiveQuote(p, m, ratio) ==
    /\ exit[p].pc = "idle" /\ m \in DOMAIN plan[p]
    /\ plan' = [plan EXCEPT ![p] = [n \in DOMAIN @ \ {m} |-> @[n]]]
    /\ LET how == Triggered(plan[p][m], ratio)
       IN  IF how[1] = 0 THEN UNCHANGED exit
           ELSE Goes(p, [NoExitYet EXCEPT !.pc = "claim", !.mint = m,
                                          !.percent = how[1], !.first = how[2]])
    /\ UNCHANGED <<book, wallet, bundles>>

\* claim_position_exit
LiveClaim(p) ==
    /\ exit[p].pc = "claim"
    /\ IF IsOpen(exit[p].mint) /\ ~Position(p).pending
       THEN /\ Change(p, [Position(p) EXCEPT !.pending = TRUE, !.claim = p])
            /\ Goes(p, [exit[p] EXCEPT !.pc = "plan", !.claimed = Position(p).amount])
       ELSE Goes(p, NoExitYet) /\ UNCHANGED book
    /\ UNCHANGED <<wallet, bundles, plan>>

Part(percent, n) == IF percent = 100 THEN n ELSE n \div 2

\* execute_sell reads the balance and builds a swap of it that passes simulation ...
LiveBuild(p) ==
    /\ exit[p].pc = "plan"
    /\ LET n == Part(exit[p].percent, wallet[exit[p].mint])
       IN  n > 0 /\ Goes(p, [exit[p] EXCEPT !.pc = "send", !.amount = n])
    /\ UNCHANGED <<book, wallet, bundles, plan>>

\* ... or there is nothing to sell, or a quote, the swap or the simulation fails.
LiveBuildFails(p) ==
    /\ exit[p].pc = "plan"
    /\ Step(p, "release")
    /\ UNCHANGED <<book, wallet, bundles, plan>>

Sent(p) == bundles' = Append(bundles, [mint |-> exit[p].mint, amount |-> exit[p].amount,
                                       fate |-> "flying"])

\* send_bundle
LiveSend(p) ==
    /\ exit[p].pc = "send" /\ Len(bundles) < MaxBundles
    /\ Sent(p)
    /\ Goes(p, [exit[p] EXCEPT !.pc = "wait", !.bundle = Len(bundles) + 1])
    /\ UNCHANGED <<book, wallet, plan>>

\* send_bundle raises, which may mean that only its answer was lost.
LiveSendFails(p) ==
    /\ exit[p].pc = "send"
    /\ \/ Len(bundles) < MaxBundles /\ Sent(p)
       \/ UNCHANGED bundles
    /\ Step(p, "file")
    /\ UNCHANGED <<book, wallet, plan>>

\* On the chain: a bundle is included, if the wallet has what it sells, or is not.
\* Neither waits for the process that sent it.
Land(b) ==
    /\ bundles[b].fate = "flying"
    /\ wallet[bundles[b].mint] >= bundles[b].amount
    /\ bundles' = [bundles EXCEPT ![b].fate = "landed"]
    /\ wallet'  = [wallet EXCEPT ![bundles[b].mint] = @ - bundles[b].amount]
    /\ UNCHANGED <<book, plan, exit>>
Drop(b) ==
    /\ bundles[b].fate = "flying"
    /\ bundles' = [bundles EXCEPT ![b].fate = "failed"]
    /\ UNCHANGED <<book, wallet, plan, exit>>

Proven_Submitted(b) == TRUE     \* Bug: a bundle that was accepted counts as sold.

\* wait_for_bundle and the result of execute_live_swap: LANDED if the bundle is seen
\* to have landed; UNKNOWN after the timeout and FAILED after any other error.
Proven(b)           == bundles[b].fate = "landed"
LiveWait(p) ==
    /\ exit[p].pc = "wait"
    /\ \/ Proven(exit[p].bundle) /\ Goes(p, [exit[p] EXCEPT !.pc = "file", !.landed = TRUE])
       \/ Step(p, "file")
    /\ UNCHANGED <<book, wallet, bundles, plan>>

\* record_live_transaction_lifecycle writes only events; its lock may time out.
LiveFile(p) ==
    /\ exit[p].pc = "file"
    /\ \/ exit[p].landed /\ Step(p, "sell")
       \/ Step(p, "release")
    /\ UNCHANGED <<book, wallet, bundles, plan>>

Claimed(p) == IsOpen(exit[p].mint) /\ Position(p).claim = p /\ Position(p).pending

\* What record_paper_sell takes off the position: the share of what was claimed.
AfterSelling(pos, x) ==
    [pos EXCEPT !.amount  = IF @ > Part(x.percent, x.claimed)
                            THEN @ - Part(x.percent, x.claimed) ELSE 0,
                !.claim   = NoLoop, !.pending = FALSE,
                !.first   = @ \/ x.first,
                !.second  = @ \/ (x.percent = 50 /\ ~x.first)]
LiveSell(p) ==
    /\ exit[p].pc = "sell"
    /\ IF Claimed(p) /\ Part(exit[p].percent, exit[p].claimed) > 0
       THEN Change(p, AfterSelling(Position(p), exit[p])) ELSE UNCHANGED book
    /\ Goes(p, NoExitYet)
    /\ UNCHANGED <<wallet, bundles, plan>>

\* The lock of the ledger times out instead.
LiveSellFails(p) ==
    /\ exit[p].pc = "sell"
    /\ Step(p, "release")
    /\ UNCHANGED <<book, wallet, bundles, plan>>

\* release_exit_claim(degraded=True)
LiveRelease(p) ==
    /\ exit[p].pc = "release"
    /\ IF Claimed(p) THEN Change(p, [Position(p) EXCEPT !.pending = FALSE, !.claim = NoLoop])
       ELSE UNCHANGED book
    /\ Goes(p, NoExitYet)
    /\ UNCHANGED <<wallet, bundles, plan>>

\* The process dies.  Its claim stays, and so does its bundle.
LiveCrash(p) ==
    /\ exit[p].pc # "idle" \/ plan[p] # <<>>
    /\ Goes(p, NoExitYet)
    /\ plan' = [plan EXCEPT ![p] = <<>>]
    /\ UNCHANGED <<book, wallet, bundles>>

-----------------------------------------------------------------------------

LiveInit ==
    /\ book = [m \in LiveMints |-> [amount |-> Stake, claim |-> NoLoop, pending |-> FALSE,
                                    first |-> FALSE, second |-> FALSE]]
    /\ wallet = [m \in LiveMints |-> Stake]
    /\ bundles = <<>>
    /\ plan = [p \in LiveLoops |-> <<>>]
    /\ exit = [p \in LiveLoops |-> NoExitYet]

LiveStep(p) ==
    \/ LivePoll(p) \/ LiveClaim(p) \/ LiveBuild(p) \/ LiveBuildFails(p)
    \/ LiveSend(p) \/ LiveSendFails(p) \/ LiveWait(p) \/ LiveFile(p)
    \/ LiveSell(p) \/ LiveSellFails(p) \/ LiveRelease(p)
    \/ \E m \in LiveMints, ratio \in Ratios: LiveQuote(p, m, ratio)

LiveNext ==
    \/ \E p \in LiveLoops: LiveStep(p) \/ LiveCrash(p)
    \/ \E b \in 1..Len(bundles): Land(b) \/ Drop(b)

LiveSpec == LiveInit /\ [][LiveNext]_liveVars

-----------------------------------------------------------------------------
(* Properties                                                              *)

LiveTypeOK ==
    /\ book \in [LiveMints -> LivePosition]
    /\ wallet \in [LiveMints -> 0..Stake]
    /\ bundles \in Seq(Bundle) /\ Len(bundles) <= MaxBundles

\* The ledger never writes off a token that is still in the wallet: whatever is
\* booked as sold has landed (risk_manager.py:1184, "A landed signature is required
\* before the local ledger is finalized"), with bundles that land after they have
\* been given up, two exits of a position in flight, and crashes in between.
WalletIsBooked == \A m \in LiveMints: wallet[m] <= book[m].amount
=============================================================================
