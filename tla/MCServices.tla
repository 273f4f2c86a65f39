----------------------------- MODULE MCServices -----------------------------
(***************************************************************************)
(* One run for the services that share no state: the RPC router, the live  *)
(* exits, the token analysis, the entry telemetry and its cutover, the N3  *)
(* observer, the backups, the coverage counters and, with more buys than   *)
(* samples are kept, the wallet pool.  A behaviour is one of one of them,  *)
(* part, while the others stay as they are in the beginning.               *)
(***************************************************************************)
EXTENDS RpcRouter, LiveExecution, TokenAnalysis, TelemetryRecorder, TelemetryCutover,
        N3Observer, StorageRetention, CoverageTelemetry, WalletPool

VARIABLE part

Idles(x, name, vars) == IF name = x THEN TRUE ELSE UNCHANGED vars
Only(x) ==
    /\ part = x /\ UNCHANGED part
    /\ Idles(x, "rpc", rpcVars)           /\ Idles(x, "live", liveVars)
    /\ Idles(x, "analysis", analysisVars) /\ Idles(x, "recorder", recorderVars)
    /\ Idles(x, "cutover", cutoverVars)   /\ Idles(x, "n3", n3Vars)
    /\ Idles(x, "backups", retentionVars) /\ Idles(x, "coverage", coverageVars)
    /\ Idles(x, "wallets", walletVars)

AnyVersion == CHOOSE v \in CodeVersions: TRUE

ServicesInit ==
    /\ part \in {"rpc", "live", "analysis", "recorder", "cutover", "n3", "backups", "coverage",
                "wallets"}
    /\ RpcInit /\ LiveInit /\ AnalysisInit /\ RecorderInit /\ CutoverInit /\ N3Init
    /\ RetentionInit /\ CoverageInit /\ WalletInit
    /\ part # "rpc" => blamed = {} /\ scoped = [p \in Providers |-> [m \in HeavyMethods |-> Closed]]
    /\ part # "cutover" => checkout = AnyVersion

ServicesNext ==
    \/ Only("rpc") /\ RpcNext
    \/ Only("live") /\ LiveNext
    \/ Only("analysis") /\ AnalysisNext
    \/ Only("recorder") /\ RecorderNext
    \/ Only("cutover") /\ CutoverNext
    \/ Only("n3") /\ N3Next
    \/ Only("backups") /\ RetentionNext
    \/ Only("coverage") /\ CoverageNext
    \/ Only("wallets") /\ WalletNext

servicesVars == <<part, rpcVars, liveVars, analysisVars, recorderVars, cutoverVars, n3Vars,
                  retentionVars, coverageVars, walletVars>>
ServicesSpec == ServicesInit /\ [][ServicesNext]_servicesVars

-----------------------------------------------------------------------------
(* The instances                                                           *)

\* c1 asks the fast provider h first, c2 the public one, p; h comes with a document of
\* schema 4: closed, open, or open because of the heavy method.
RpcMethods == [c \in Calls |-> IF c = "c1" THEN "heavy" ELSE "light"]
FastFirst   == <<"h", "p">>
PublicFirst == <<"p", "h">>
AllMethods  == [p \in Providers |-> {}]
Opened      == [Closed EXCEPT !.circuit = "OPEN", !.cooldown = Cooldown, !.fails = 1]
Left(a, t, f) == [availability |-> a, trigger |-> t, category |-> f]
LeftBehind ==
    [p \in Providers |->
        {Left(Closed, "light", "http")} \cup
        IF p = "h" THEN {Left(Opened, "light", "http"), Left(Opened, "heavy", "rate")} ELSE {}]

\* A token that is locked, one of whose second pools is not, one of whose second pool
\* nothing is known, and one nothing is known of.
Renounced(dev, locked, pools) ==
    [renounced |-> TRUE, developer |-> dev, locked |-> locked, pools |-> pools, liquidity |-> 20000]
Known4 == {Renounced(1, 90, {90}), Renounced(1, Unknown, {50, 90}),
           Renounced(1, Unknown, {Unknown, 90}), Renounced(Unknown, Unknown, {})}

\* Entries age out in their order, c before b.
AgeDays == [p \in Entries |-> IF p = "c" THEN 1 ELSE 2]

OneCall == {[asked |-> 1, other |-> 1]}

\* Three buys of u; v stays in the list, which is never short enough for the feeder.
Buyer         == [b \in Buys |-> "u"]
LossOrWin     == {-60, 200}

FlushSymmetry == Permutations(Flushes)
=============================================================================
