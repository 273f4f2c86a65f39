--------------------------- MODULE SignalDelivery ---------------------------
(***************************************************************************)
(* src/monitor.py, from the list of watched wallets to the signal tasks:   *)
(* the WebSocket connection with its two routes, the accumulation filter   *)
(* for whale buys, the tasks that process signals, and the clean stop of   *)
(* the service.  One event loop, so what is between two awaits is one      *)
(* action; the wallet list is written by other processes at any time.      *)
(*                                                                         *)
(* Trades are the buys of one token by one wallet: the filter keeps each   *)
(* such pair by itself.  What becomes of a signal is SignalPipeline.       *)
(***************************************************************************)
EXTENDS Integers, FiniteSets, FiniteSetsExt

CONSTANTS
    Trades,         \* signatures
    TradeAmount,    \* lamports paid, 0 if they are unresolved
    TradeDexes,     \* DEX_PROGRAMS that the transaction goes through
    TradeWallets,   \* watched wallets that its logs mention
    MinTrade,       \* MIN_ACCUMULATION_TRADE_LAMPORTS
    SingleTrade,    \* SINGLE_STRENGTH_LAMPORTS
    TradeTarget,    \* ACCUMULATION_TARGET_LAMPORTS
    TradeWindow,    \* ACCUMULATION_WINDOW_SECONDS
    MaxShadows,     \* MAX_PENDING_SHADOW_SIGNALS
    RefreshTime,    \* SUBSCRIPTION_REFRESH_SECONDS
    ProbeTime,      \* HELIUS_RECOVERY_PROBE_SECONDS
    MaxLists        \* bound: times that the wallet list is written

ASSUME DeliveryAssumption ==
    /\ TradeAmount \in [Trades -> Nat]
    /\ \A t \in Trades: TradeDexes[t] # {} /\ TradeWallets[t] # {}
    /\ {MinTrade, SingleTrade, TradeTarget, TradeWindow, MaxShadows, MaxLists} \subseteq Nat
    /\ {RefreshTime, ProbeTime} \subseteq Nat \ {0}

VARIABLES
    list,       \* the version of wallets.json
    conn,       \* run_forever and WalletWsRouteState
    inbox,      \* notifications received and not handled: <<trade, subscription>>
    seen,       \* SignatureWindow of the connection
    ahead,      \* trades that have not happened
    history,    \* _whale_buy_history of the pair
    basis,      \* the entries of history that the latest approval rests on
    work,       \* tasks in _signal_tasks
    service     \* _run_service_tasks

deliveryVars == <<list, conn, inbox, seen, ahead, history, basis, work, service>>

-----------------------------------------------------------------------------
(* The accumulation filter                                                 *)

HistoryEntry == [trade: Trades, via: UNION {TradeDexes[t] \cup TradeWallets[t] : t \in Trades},
                 age: 0..TradeWindow]
AmountOf(entries) == MapThenSumSet(LAMBDA h: TradeAmount[h.trade], entries)

\* whale_buy_amount_allowed: the history after a trade, and whether it is approved.
Noise(t)      == TradeAmount[t] <= MinTrade
Strong(t)     == TradeAmount[t] >= SingleTrade
Accumulated(h) == AmountOf(h) >= TradeTarget
Allowed(t, h) == ~Noise(t) /\ (Strong(t) \/ Accumulated(h))
AfterTrade(t, h, entry) ==
    IF Noise(t) THEN h
    ELSE IF ~Strong(t) /\ Accumulated(h \cup {entry}) THEN {}
    ELSE h \cup {entry}

-----------------------------------------------------------------------------
(* Tasks                                                                   *)

\* late: tasks created after the service began to wait for the others
NoWork == [plain |-> 0, shadow |-> 0, latePlain |-> 0, lateShadow |-> 0]
Shadows == work.shadow + work.lateShadow
Draining == service = "draining"

More(w, kind, n) ==
    CASE kind = "plain"  /\ Draining -> [w EXCEPT !.latePlain = @ + n]
      [] kind = "shadow" /\ Draining -> [w EXCEPT !.lateShadow = @ + n]
      [] OTHER                       -> [w EXCEPT ![kind] = @ + n]

\* schedule_paper_signal
MayShadow == Shadows < MaxShadows
Scheduled(w, allowed) ==
    IF service # "run" \/ (~allowed /\ ~MayShadow) THEN w
    ELSE More(w, IF allowed THEN "plain" ELSE "shadow", 1)

\* print_buys of one delivery: observe_buy, the filter, the signal.
Deliver(t, via) ==
    LET entry   == [trade |-> t, via |-> via, age |-> 0]
        paid    == TradeAmount[t] > 0
        allowed == paid /\ Allowed(t, history \cup {entry})
    IN  /\ work' = Scheduled(IF paid THEN More(work, "plain", 1) ELSE work, allowed)
        /\ history' = IF paid THEN AfterTrade(t, history, entry) ELSE history
        /\ basis' = IF ~allowed THEN basis
                    ELSE IF Strong(t) THEN {entry} ELSE history \cup {entry}

SignalTaskEnds(kind) ==
    /\ work[kind] > 0
    /\ work' = [work EXCEPT ![kind] = @ - 1]
    /\ UNCHANGED <<list, conn, inbox, seen, ahead, history, basis, service>>

-----------------------------------------------------------------------------
(* The connection                                                          *)

Connected == conn.pc \in {"connect", "stream"}
Streaming == conn.pc = "stream"
Enhanced  == conn.mode = "HELIUS_ENHANCED"
Serving   == service # "exited"
Quiet     == UNCHANGED <<list, ahead, history, basis, work, service>>

\* A connection is over, and with it what it had in memory.
Leave(r) == conn' = r /\ inbox' = {} /\ seen' = {}
Again    == [conn EXCEPT !.pc = "load", !.age = 0]

\* run_forever reads the list and then, in a call of its own, its mtime ...
LoadList ==
    /\ service = "run" /\ conn.pc = "load"
    /\ conn' = [conn EXCEPT !.pc = "stat", !.wallets = list]
    /\ Quiet /\ UNCHANGED <<inbox, seen>>

\* ... and starts the connection, the watcher of the list and the refresh timer.
StatList ==
    /\ service = "run" /\ conn.pc = "stat"
    /\ conn' = [conn EXCEPT !.pc = "connect", !.mtime = list, !.age = 0]
    /\ Quiet /\ UNCHANGED <<inbox, seen>>

\* All subscriptions are acknowledged.
Subscribed ==
    /\ service = "run" /\ conn.pc = "connect"
    /\ conn' = [conn EXCEPT !.pc = "stream"]
    /\ Quiet /\ UNCHANGED <<inbox, seen>>

\* WalletWsRouteState
Standard(r)  == [r EXCEPT !.mode = "SOLANA_STANDARD", !.probe = ProbeTime]
FailedRoute_Postpones(r) == Standard(r)     \* Bug: every failure puts the probe off.
FailedRoute(r) ==
    IF r.mode = "HELIUS_ENHANCED" THEN Standard(r)
    ELSE IF r.probe = 0 THEN [r EXCEPT !.mode = "HELIUS_ENHANCED"] ELSE r
RefreshedRoute(r) ==
    IF r.mode = "SOLANA_STANDARD" /\ r.probe = 0
    THEN [r EXCEPT !.mode = "HELIUS_ENHANCED"] ELSE r

\* EnhancedSubscriptionUnavailable
Unavailable ==
    /\ service = "run" /\ conn.pc = "connect" /\ Enhanced
    /\ Leave(Standard(Again))
    /\ Quiet

\* Any other error of the list, the handshake, a subscription or the stream.
ConnectionFails ==
    /\ service = "run" /\ conn.pc \in {"load", "stat", "connect", "stream"}
    /\ Leave([FailedRoute(conn) EXCEPT !.pc = "sleep", !.age = 0])
    /\ Quiet

Reconnect ==
    /\ service = "run" /\ conn.pc = "sleep"
    /\ conn' = [conn EXCEPT !.pc = "load"]
    /\ Quiet /\ UNCHANGED <<inbox, seen>>

\* watch_wallet_file
ListChangeSeen ==
    /\ service = "run" /\ Connected /\ list # conn.mtime
    /\ Leave(Again)
    /\ Quiet

\* subscription_refresh_timer
RefreshIsDue_Never == FALSE     \* Bug: a healthy connection is left alone.
RefreshIsDue       == conn.age = RefreshTime
RefreshDue ==
    /\ service = "run" /\ Connected /\ RefreshIsDue
    /\ Leave(RefreshedRoute(Again))
    /\ Quiet

\* Somebody trades; a subscription in place tells.  Enhanced subscriptions are one for
\* each DEX program, standard ones one for each wallet.
Subscriptions(t) == IF Enhanced THEN TradeDexes[t] ELSE TradeWallets[t]
Trade(t) ==
    /\ t \in ahead
    /\ ahead' = ahead \ {t}
    /\ inbox' = IF Streaming THEN inbox \cup ({t} \X Subscriptions(t)) ELSE inbox
    /\ UNCHANGED <<list, conn, seen, history, basis, work, service>>

\* A notification of monitor_once, or a new one of monitor_standard_once whose
\* transaction is restored.  One that was received may still be handled while the
\* tasks are being cancelled.
HandleNotification(t, via) ==
    /\ Serving /\ Streaming /\ <<t, via>> \in inbox
    /\ Enhanced \/ t \notin seen
    /\ inbox' = inbox \ {<<t, via>>}
    /\ seen' = IF Enhanced THEN seen ELSE seen \cup {t}
    /\ Deliver(t, via)
    /\ UNCHANGED <<list, conn, ahead, service>>

\* One that was seen in this connection, or whose transaction cannot be restored.
SkipNotification(t, via) ==
    /\ Serving /\ Streaming /\ ~Enhanced /\ <<t, via>> \in inbox
    /\ inbox' = inbox \ {<<t, via>>}
    /\ seen' = seen \cup {t}
    /\ UNCHANGED <<list, conn, ahead, history, basis, work, service>>

\* Another process writes the wallet list.
WriteList ==
    /\ list < MaxLists
    /\ list' = list + 1
    /\ UNCHANGED <<conn, inbox, seen, ahead, history, basis, work, service>>

-----------------------------------------------------------------------------
(* The service                                                             *)

\* _wait_for_clean_stop returns; new signals are refused and all loops cancelled.
StopService ==
    /\ service = "run"
    /\ service' = "cancelling"
    /\ UNCHANGED <<list, conn, inbox, seen, ahead, history, basis, work>>

\* The loops have ended.  What signal tasks there are is waited for ...
LoopsEnded_Soon == TRUE         \* Bug: it does not wait for the loops to end.
LoopsEnded      == conn.pc = "off"
LoopsEnd ==
    /\ service = "cancelling" /\ conn.pc # "off"
    /\ Leave([conn EXCEPT !.pc = "off"])
    /\ Quiet
DrainSignals ==
    /\ service = "cancelling" /\ LoopsEnded
    /\ service' = "draining"
    /\ UNCHANGED <<list, conn, inbox, seen, ahead, history, basis, work>>

\* ... and the process ends, whatever else is running.
ExitService ==
    /\ service = "draining" /\ work.plain = 0 /\ work.shadow = 0
    /\ service' = "exited"
    /\ UNCHANGED <<list, conn, inbox, seen, ahead, history, basis, work>>

ColdConnection == [pc |-> "load", wallets |-> 0, mtime |-> 0, age |-> 0,
                   mode |-> "HELIUS_ENHANCED", probe |-> 0]

\* The process dies and PM2 starts it again.
MonitorDies ==
    /\ service # "exited"
    /\ Leave(ColdConnection)
    /\ history' = {} /\ basis' = {} /\ work' = NoWork /\ service' = "run"
    /\ UNCHANGED <<list, ahead>>

\* A unit of time passes.
DeliveryTick ==
    /\ conn' = [conn EXCEPT !.probe = IF @ > 0 THEN @ - 1 ELSE 0,
                            !.age = IF Connected /\ @ < RefreshTime THEN @ + 1 ELSE @]
    /\ history' = {[h EXCEPT !.age = @ + 1] : h \in {g \in history : g.age < TradeWindow}}
    /\ UNCHANGED <<list, inbox, seen, ahead, basis, work, service>>

-----------------------------------------------------------------------------

DeliveryInit ==
    /\ list = 0 /\ conn = ColdConnection
    /\ inbox = {} /\ seen = {} /\ ahead = Trades
    /\ history = {} /\ basis = {} /\ work = NoWork /\ service = "run"

ConnectStep == LoadList \/ StatList \/ Subscribed \/ Unavailable \/ Reconnect
StopStep    == LoopsEnd \/ DrainSignals \/ ExitService

DeliveryNext ==
    \/ ConnectStep \/ ConnectionFails \/ ListChangeSeen \/ RefreshDue
    \/ StopService \/ StopStep \/ MonitorDies \/ WriteList \/ DeliveryTick
    \/ \E kind \in DOMAIN NoWork: SignalTaskEnds(kind)
    \/ \E t \in Trades: Trade(t)
    \/ \E n \in inbox: HandleNotification(n[1], n[2]) \/ SkipNotification(n[1], n[2])

\* The event loop runs what is ready, and timers fire.
DeliveryFairness ==
    /\ WF_deliveryVars(ConnectStep) /\ WF_deliveryVars(ListChangeSeen)
    /\ WF_deliveryVars(RefreshDue) /\ WF_deliveryVars(DeliveryTick)

DeliverySpec == DeliveryInit /\ [][DeliveryNext]_deliveryVars /\ DeliveryFairness

-----------------------------------------------------------------------------
(* Properties                                                              *)

DeliveryTypeOK ==
    /\ list \in 0..MaxLists
    /\ conn \in [pc: {"load", "stat", "connect", "stream", "sleep", "off"},
                 wallets: 0..MaxLists, mtime: 0..MaxLists, age: 0..RefreshTime,
                 mode: {"HELIUS_ENHANCED", "SOLANA_STANDARD"}, probe: 0..ProbeTime]
    /\ seen \subseteq Trades /\ ahead \subseteq Trades
    /\ history \subseteq HistoryEntry /\ basis \subseteq HistoryEntry
    /\ work \in [DOMAIN NoWork -> Nat] /\ Shadows <= MaxShadows
    /\ service \in {"run", "cancelling", "draining", "exited"}

\* A clean stop loses no signal: when the process ends, no task is running, those
\* included that a notification created while the loops were being cancelled
\* (_run_service_tasks ends the loops before it waits for the tasks).
StopLosesNoSignal == service = "exited" => work = NoWork

\* After the list was written for the last time, the wallets subscribed to are those
\* of the list from some time on: the watcher may have noted the time of a list that
\* was not the one that was read, and is blind then until the subscriptions are
\* refreshed (run_forever, subscription_refresh_timer).
SubscriptionFollowsList == <>[](service = "run" /\ Streaming => conn.wallets = list)

\* Helius is tried again after every fallback, whether the standard connection holds
\* or keeps failing (WalletWsRouteState).
FallbackEnds == conn.mode = "SOLANA_STANDARD" ~> conn.mode = "HELIUS_ENHANCED" \/ service # "run"
=============================================================================
