----------------------------- MODULE WalletPool -----------------------------
(***************************************************************************)
(* The pool of watched wallets: src/wallet_performance.py, src/wallet_     *)
(* feeder.py and what src/monitor.py does for them.  Three documents:      *)
(*   data/wallet_performance.json   perf    changed under its lock         *)
(*   data/wallets.json              listed  the monitor locks it, the      *)
(*                                          feeder replaces it without     *)
(*   data/wallet_candidates.json    spare   written by the feeder only     *)
(* The monitor is one event loop: an action of it runs from one await to   *)
(* the next, except that a wallet is cooled down in one document and then  *)
(* replaced in another.  Ranks and balances are data: which of the wallets *)
(* that pass is preferred is left open.  Returns are rounded percentages.  *)
(***************************************************************************)
EXTENDS Integers, Sequences, FiniteSets, FiniteSetsExt

CONSTANTS
    Wallets,
    Buys,           \* observation ids
    BuyerOf,        \* the wallet of a buy
    UnsafeBuyers,   \* the wallets that buy tokens which the analyzer rejects
    Returns,        \* percentages that an evaluation can find
    MaxWallets,     \* WALLET_MAX_WALLETS
    EliteSlots,     \* WALLET_ELITE_RESERVED_SLOTS
    TriggerCount,   \* WALLET_FEEDER_TRIGGER_COUNT
    FeedInterval,   \* WALLET_FEEDER_COOLDOWN_SECONDS
    CoolTime,       \* COOLDOWN_SECONDS
    SampleLimit,    \* evaluations that are kept of a wallet (100)
    MaxVerdicts,    \* bound: evaluations of a wallet
    SafetyBlocks,   \* bound: rejections that are counted
    MaxStartFaults  \* bound: starts of the feeder that fail

ASSUME WalletAssumption ==
    /\ BuyerOf \in [Buys -> Wallets] /\ Returns \subseteq Int /\ UnsafeBuyers \subseteq Wallets
    /\ {MaxWallets, FeedInterval, CoolTime, SampleLimit} \subseteq Nat \ {0}
    /\ {EliteSlots, TriggerCount, MaxVerdicts, MaxStartFaults} \subseteq Nat
    /\ SafetyBlocks \in Nat /\ SafetyBlocks >= 2

VARIABLES perf, listed, spare,
    monitor,    \* the evaluation round, the replacements it owes, the one under way
    feeder,     \* the wallet_feeder process
    sinceFed    \* [age of last_wallet_feeder_run_time, starts that have failed]

walletVars == <<perf, listed, spare, monitor, feeder, sinceFed>>

Idle     == [due |-> {}, owed |-> {}, now |-> {}]
NoFeeder == [pc |-> "off", due |-> {}, cooling |-> {}, elite |-> {}, rows |-> {}, found |-> {}]

-----------------------------------------------------------------------------
(* wallet_performance.json                                                 *)

Cooling(w)   == perf[w].status = "COOL_DOWN"
CoolingNow   == {w \in Wallets : Cooling(w)}
Expired      == {w \in CoolingNow : perf[w].age = CoolTime}
Least(i, j)  == IF i < j THEN i ELSE j
Judged(row)  == Len(row.samples)
SumOf(row)   == MapThenSumSet(LAMBDA i: Least(row.samples[i].change, 5000), 1..Judged(row))
Elite(row)   == \/ Judged(row) >= 3 /\ row.wins * 100 >= 70 * (row.wins + row.losses)
                \/ Judged(row) > 0 /\ SumOf(row) >= 150 * Judged(row)
EliteNow     == {w \in Wallets : ~Cooling(w) /\ Elite(perf[w])}

\* set_wallet_status of the wallets that a scan found to have cooled for 24 hours.
Restored(ws) == [w \in Wallets |-> IF w \in ws THEN [perf[w] EXCEPT !.status = "ACTIVE", !.age = 0]
                                               ELSE perf[w]]
CooledDown(row) == [row EXCEPT !.status = "COOL_DOWN", !.age = 0]

\* Bug: a cool-down that is going on starts again.
MayCool_Again(row) == TRUE
MayCool(row)       == row.status # "COOL_DOWN"

\* observe_buy: known observations are the pending ones and the evaluated ones that are
\* kept.
EvaluatedBuys(row) == {row.samples[i].buy : i \in 1..Judged(row)}
Known_Pending(row) == row.pending                   \* Bug: not the evaluated ones.
KnownBuys(row)     == row.pending \cup EvaluatedBuys(row)
ObserveBuy(b) ==
    /\ monitor.now = {} /\ b \notin KnownBuys(perf[BuyerOf[b]])
    /\ perf' = [perf EXCEPT ![BuyerOf[b]].pending = @ \cup {b}]
    /\ UNCHANGED <<listed, spare, monitor, feeder, sinceFed>>

\* reject_unsafe_buy: the second rejection, and each after it, cools the wallet down.
RejectBuy(w) ==
    LET row == [perf[w] EXCEPT !.blocks = IF @ < SafetyBlocks THEN @ + 1 ELSE @]
        cool == row.blocks >= 2 /\ MayCool(row)
    IN  /\ monitor.now = {}
        /\ perf' = [perf EXCEPT ![w] = IF cool THEN CooledDown(row) ELSE row]
        /\ monitor' = IF cool THEN [monitor EXCEPT !.now = {w}] ELSE monitor
        /\ UNCHANGED <<listed, spare, feeder, sinceFed>>

\* performance_loop takes the observations that are due ...
RoundStarts(due) ==
    /\ monitor.now = {} /\ monitor.due = {} /\ monitor.owed = {}
    /\ due \subseteq UNION {perf[w].pending : w \in Wallets}
    /\ monitor' = [monitor EXCEPT !.due = due]
    /\ UNCHANGED <<perf, listed, spare, feeder, sinceFed>>

\* ... asks for a quote of each, and writes down the outcome: complete_observation ...
Poor(row) == \/ row.wins * 100 < 35 * (row.wins + row.losses)
             \/ SumOf(row) < -20 * Judged(row)
Kept(samples) == SubSeq(samples, Len(samples) - Least(Len(samples), SampleLimit) + 1, Len(samples))
Complete(b, change) ==
    LET w    == BuyerOf[b]
        row  == [perf[w] EXCEPT !.pending = @ \ {b},
                                !.samples = Kept(Append(@, [buy |-> b, change |-> change])),
                                !.wins = IF change > 0 THEN @ + 1 ELSE @,
                                !.losses = IF change > 0 THEN @ ELSE @ + 1]
        cool == /\ change <= -50 \/ (row.wins + row.losses >= 3 /\ Poor(row))
                /\ MayCool(row)
    IN  /\ monitor.now = {} /\ b \in monitor.due /\ b \in perf[w].pending
        /\ perf[w].wins + perf[w].losses < MaxVerdicts
        /\ perf' = [perf EXCEPT ![w] = IF cool THEN CooledDown(row) ELSE row]
        /\ monitor' = [monitor EXCEPT !.due = @ \ {b}, !.owed = IF cool THEN @ \cup {w} ELSE @]
        /\ UNCHANGED <<listed, spare, feeder, sinceFed>>

\* ... skip_observation, if there is no route ...
Skip(b) ==
    /\ monitor.now = {} /\ b \in monitor.due
    /\ perf' = [perf EXCEPT ![BuyerOf[b]].pending = @ \ {b}]
    /\ monitor' = [monitor EXCEPT !.due = @ \ {b}]
    /\ UNCHANGED <<listed, spare, feeder, sinceFed>>

\* ... or fail_observation, which leaves it pending.
Retry(b) ==
    /\ monitor.now = {} /\ b \in monitor.due
    /\ monitor' = [monitor EXCEPT !.due = @ \ {b}]
    /\ UNCHANGED <<perf, listed, spare, feeder, sinceFed>>

\* When all are done, it replaces the wallets that were cooled down.
RoundReplaces(w) ==
    /\ monitor.now = {} /\ monitor.due = {} /\ w \in monitor.owed
    /\ monitor' = [monitor EXCEPT !.owed = @ \ {w}, !.now = {w}]
    /\ UNCHANGED <<perf, listed, spare, feeder, sinceFed>>

-----------------------------------------------------------------------------
(* _cooldown_and_replace.  A list that the feeder writes between the read  *)
(* and the write of the monitor is lost, as if the feeder had died before. *)

Offered(kept) == spare \ (kept \cup monitor.now \cup CoolingNow)
Replace ==
    LET kept == listed \ monitor.now
    IN  /\ monitor.now # {}
        /\ IF Cardinality(kept) < MaxWallets /\ Offered(kept) # {}
           THEN \E w \in Offered(kept): listed' = kept \cup {w}
           ELSE listed' = kept
        /\ monitor' = [monitor EXCEPT !.now = {}]
        /\ UNCHANGED <<perf, spare, feeder, sinceFed>>

\* The monitor dies, or the lock times out in the round: performance_loop lets the error
\* end the service.
MonitorRestarts ==
    /\ monitor # Idle
    /\ monitor' = Idle
    /\ UNCHANGED <<perf, listed, spare, feeder, sinceFed>>

\* The lock times out in reject_unsafe_buy: the signal fails, the loop goes on.
ReplaceFails ==
    /\ monitor.now # {}
    /\ monitor' = [monitor EXCEPT !.now = {}]
    /\ UNCHANGED <<perf, listed, spare, feeder, sinceFed>>

-----------------------------------------------------------------------------
(* monitor_maintenance_loop                                                *)

MonitorRecovers ==
    /\ monitor.now = {} /\ Expired # {}
    /\ perf' = Restored(Expired)
    /\ UNCHANGED <<listed, spare, monitor, feeder, sinceFed>>

\* trigger_wallet_feeder_if_needed; pm2 start does nothing if the feeder is running.
IntervalOver_Never == FALSE     \* Bug: an interval that was claimed stays claimed.
IntervalOver == sinceFed.age = FeedInterval
Short        == Cardinality(listed) <= TriggerCount
Trigger(started) ==
    /\ monitor.now = {} /\ Short /\ IntervalOver
    /\ started \/ sinceFed.faults < MaxStartFaults
    /\ sinceFed' = [age |-> 0, faults |-> sinceFed.faults + IF started THEN 0 ELSE 1]
    /\ feeder' = IF started /\ feeder.pc = "off" THEN [NoFeeder EXCEPT !.pc = "scheduler"] ELSE feeder
    /\ UNCHANGED <<perf, listed, spare, monitor>>

-----------------------------------------------------------------------------
(* wallet_feeder.py --once                                                 *)

\* restore_expired_cooldowns, in scheduler and again in refresh: a scan, then the updates
\* if there are any.
FeederScans(from, to, next) ==
    /\ feeder.pc = from
    /\ feeder' = [feeder EXCEPT !.pc = IF Expired = {} THEN next ELSE to, !.due = Expired]
    /\ UNCHANGED <<perf, listed, spare, monitor, sinceFed>>
FeederRecovers(from, to) ==
    /\ feeder.pc = from
    /\ perf' = Restored(feeder.due)
    /\ feeder' = [feeder EXCEPT !.pc = to, !.due = {}]
    /\ UNCHANGED <<listed, spare, monitor, sinceFed>>

\* select_active_wallets: elite incumbents first, then new elites in the reserved slots.
Selections(from, elite, incumbents) ==
    LET locked   == from \cap elite \cap incumbents
        new      == (from \cap elite) \ incumbents
        size     == Least(MaxWallets, Cardinality(from))
        reserved == Least(Cardinality(new),
                          IF Cardinality(locked) >= EliteSlots THEN 0
                          ELSE EliteSlots - Cardinality(locked))
    IN  {s \in SUBSET from :
            /\ Cardinality(s) = size
            /\ locked \subseteq s \/ s \subseteq locked
            /\ Cardinality(s \cap new) >= Least(reserved, size - Cardinality(s \cap locked))}

\* Both replenish_from_candidate_cache and refresh decide on copies that were read before.
FeederReads(from, to) ==
    /\ feeder.pc = from
    /\ feeder' = [feeder EXCEPT !.pc = to, !.cooling = CoolingNow, !.elite = EliteNow,
                                !.rows = listed]
    /\ UNCHANGED <<perf, listed, spare, monitor, sinceFed>>

Replenish ==
    /\ feeder.pc = "refill"
    /\ feeder' = [NoFeeder EXCEPT !.pc = "rescan"]
    /\ \E s \in Selections((feeder.rows \cup spare) \ feeder.cooling, feeder.elite,
                           feeder.rows \ feeder.cooling): listed' = s
    /\ UNCHANGED <<perf, spare, monitor, sinceFed>>

\* The scan of the chain: any wallet may qualify that was not cooling down ...
MayQualify == Wallets \ feeder.cooling
Discover(found) ==
    /\ feeder.pc = "discover" /\ found \subseteq MayQualify
    /\ spare' = found
    /\ feeder' = [feeder EXCEPT !.pc = "publish", !.found = found]
    /\ UNCHANGED <<perf, listed, monitor, sinceFed>>

\* ... and write_results keeps the old list if none does.
Publish ==
    /\ feeder.pc = "publish"
    /\ feeder' = NoFeeder
    /\ IF feeder.found = {} THEN UNCHANGED listed
       ELSE \E s \in Selections(feeder.found, feeder.elite, feeder.rows): listed' = s
    /\ UNCHANGED <<perf, spare, monitor, sinceFed>>

\* An exception of refresh, or PM2 ends the process for its memory.
FeederDies ==
    /\ feeder.pc # "off"
    /\ feeder' = NoFeeder
    /\ UNCHANGED <<perf, listed, spare, monitor, sinceFed>>

FeederStep ==
    \/ FeederScans("scheduler", "restore", "look") \/ FeederRecovers("restore", "look")
    \/ FeederReads("look", "refill") \/ Replenish
    \/ FeederScans("rescan", "rerestore", "read") \/ FeederRecovers("rerestore", "read")
    \/ FeederReads("read", "discover") \/ Publish
    \/ \E found \in SUBSET Wallets: Discover(found)

\* A unit of time passes.
WalletTick ==
    /\ perf' = [w \in Wallets |-> IF Cooling(w) /\ perf[w].age < CoolTime
                                  THEN [perf[w] EXCEPT !.age = @ + 1] ELSE perf[w]]
    /\ sinceFed' = [sinceFed EXCEPT !.age = IF @ < FeedInterval THEN @ + 1 ELSE @]
    /\ UNCHANGED <<listed, spare, monitor, feeder>>

-----------------------------------------------------------------------------

NewWallet == [status |-> "ACTIVE", age |-> 0, pending |-> {}, samples |-> <<>>,
              wins |-> 0, losses |-> 0, blocks |-> 0]

WalletInit ==
    /\ perf = [w \in Wallets |-> NewWallet]
    /\ listed \in {ws \in SUBSET Wallets : Cardinality(ws) = MaxWallets}
    /\ spare = Wallets
    /\ monitor = Idle /\ feeder = NoFeeder
    /\ sinceFed = [age |-> FeedInterval, faults |-> 0]

EvaluateStep ==
    \/ \E b \in monitor.due: Skip(b) \/ Retry(b) \/ \E r \in Returns: Complete(b, r)
    \/ \E w \in monitor.owed: RoundReplaces(w)
    \/ Replace
Maintain == MonitorRecovers \/ \E started \in BOOLEAN: Trigger(started)

WalletNext ==
    \/ \E b \in Buys: ObserveBuy(b)
    \/ \E w \in UnsafeBuyers: RejectBuy(w)
    \/ \E due \in SUBSET Buys \ {{}}: RoundStarts(due)
    \/ EvaluateStep \/ MonitorRestarts \/ ReplaceFails
    \/ Maintain \/ FeederStep \/ FeederDies \/ WalletTick

\* The loops of the monitor run on, whatever fails in between.
WalletFairness ==
    /\ WF_walletVars(EvaluateStep) /\ WF_walletVars(WalletTick)
    /\ SF_walletVars(MonitorRecovers) /\ SF_walletVars(\E s \in BOOLEAN: Trigger(s))

WalletSpec == WalletInit /\ [][WalletNext]_walletVars /\ WalletFairness

-----------------------------------------------------------------------------
(* Properties                                                              *)

WalletTypeOK ==
    /\ \A w \in Wallets: /\ perf[w].status \in {"ACTIVE", "COOL_DOWN"}
                         /\ perf[w].age \in 0..CoolTime
                         /\ perf[w].samples \in Seq([buy: Buys, change: Returns])
    /\ listed \subseteq Wallets /\ Cardinality(listed) <= MaxWallets
    /\ spare \subseteq Wallets

\* Every evaluation counts as one win or one loss, and the last SampleLimit of a wallet
\* are of different buys, none of which waits for another: however often a transaction is
\* delivered, its evaluation is retried or the monitor starts anew, a buy is judged again
\* only after as many others of the wallet as samples are kept (observe_buy,
\* complete_observation).
RecentBuysJudgedOnce ==
    \A w \in Wallets:
        LET samples == perf[w].samples
        IN  /\ Len(samples) = Least(perf[w].wins + perf[w].losses, SampleLimit)
            /\ \A i, j \in 1..Len(samples): samples[i].buy = samples[j].buy => i = j
            /\ \A i \in 1..Len(samples): samples[i].buy \notin perf[w].pending

\* No wallet cools down for ever: the rejections that go on meanwhile do not put the end
\* of its 24 hours off (reject_unsafe_buy, self_recovery_cooldown_wallets).
CooldownEnds == \A w \in Wallets: Cooling(w) ~> ~Cooling(w)

\* A list that has become too short gets a feeder, also when starts of it have failed
\* with the interval already claimed (trigger_wallet_feeder_if_needed).
ShortageIsAnswered == Short ~> ~Short \/ feeder.pc # "off"
=============================================================================
