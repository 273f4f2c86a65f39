----------------------------- MODULE MCMonitor ------------------------------
(***************************************************************************)
(* One run for the loops that must go on: the quotes, the delivery of      *)
(* signals, the wallet pool and the momentum route.  They share no state;  *)
(* a behaviour is one of one of them, part, under that one's fairness.     *)
(***************************************************************************)
EXTENDS JupiterQuotes, SignalDelivery, WalletPool, MomentumRoute, TLC

VARIABLE part

Idles(x, name, vars) == IF name = x THEN TRUE ELSE UNCHANGED vars
Only(x) ==
    /\ part = x /\ UNCHANGED part
    /\ Idles(x, "quotes", quoteVars)   /\ Idles(x, "delivery", deliveryVars)
    /\ Idles(x, "wallets", walletVars) /\ Idles(x, "momentum", momentumVars)

MonitorInit ==
    /\ part \in {"quotes", "delivery", "wallets", "momentum"}
    /\ QuoteInit /\ DeliveryInit /\ WalletInit /\ MomentumInit

MonitorNext ==
    \/ Only("quotes") /\ QuoteNext
    \/ Only("delivery") /\ DeliveryNext
    \/ Only("wallets") /\ WalletNext
    \/ Only("momentum") /\ MomentumNext

monitorVars == <<part, quoteVars, deliveryVars, walletVars, momentumVars>>

\* The fairness of each module, in behaviours of that part
MonitorFairness ==
    /\ WF_monitorVars(Only("quotes") /\ QuoteTick)
    /\ \A c \in Quotes: WF_monitorVars(Only("quotes") /\ QuoteStep(c))
    /\ WF_monitorVars(Only("delivery") /\ ConnectStep)
    /\ WF_monitorVars(Only("delivery") /\ ListChangeSeen)
    /\ WF_monitorVars(Only("delivery") /\ RefreshDue)
    /\ WF_monitorVars(Only("delivery") /\ DeliveryTick)
    /\ WF_monitorVars(Only("wallets") /\ EvaluateStep)
    /\ WF_monitorVars(Only("wallets") /\ WalletTick)
    /\ SF_monitorVars(Only("wallets") /\ MonitorRecovers)
    /\ SF_monitorVars(Only("wallets") /\ \E s \in BOOLEAN: Trigger(s))
    /\ WF_monitorVars(Only("momentum") /\ MomentumTick)
    /\ WF_monitorVars(Only("momentum") /\ TimesOut)
    /\ WF_monitorVars(Only("momentum") /\ (TooFewWhales \/ EnoughWhales))
    /\ WF_monitorVars(Only("momentum") /\ \E feed \in Feeds: Refresh(feed))

MonitorSpec == MonitorInit /\ [][MonitorNext]_monitorVars /\ MonitorFairness

-----------------------------------------------------------------------------
(* Properties                                                              *)

\* Whatever fails, the monitor's services go on: a quote ends, the subscriptions come to
\* follow the wallet list, Helius is tried again, a wallet's cooldown ends, a short list
\* gets a feeder, and the momentum route looks at the market again.
ServicesGoOn ==
    /\ EveryQuoteEnds
    /\ SubscriptionFollowsList /\ FallbackEnds
    /\ CooldownEnds /\ ShortageIsAnswered
    /\ RoutePollsOn

-----------------------------------------------------------------------------
(* The instances                                                           *)

\* A trade through two programs that is below the target, and told twice reaches it
Amounts       == [t \in Trades |-> 3]
Programs      == [t \in Trades |-> {"a", "b"}]
Mentioned     == [t \in Trades |-> {"v", "w"}]

Buyer         == [b \in Buys |-> "u"]
LossOrWin     == {-60, 200}

Offer(m, s, x) == [mint |-> m, score |-> s, misses |-> x]
Screens       == {{Offer("m", 2, 0), Offer("n", 1, 1)}, {Offer("n", 1, 0), Offer("m", 1, 0)},
                  {Offer("m", 1, 1), Offer("n", 1, 2)}}
=============================================================================
