--------------------------- MODULE MCPaperLedger ---------------------------
(* Small instances of PaperLedger.                                          *)
EXTENDS PaperLedger, TLC

CONSTANTS m1, s1, s2

\* One token: a route A signal and a route B signal of the experiment.
OneMint       == [s \in Signals |-> m1]
OneMintRoutes == [s \in Signals |-> IF s = s2 THEN "B" ELSE "A"]
Experiment    == [s \in Signals |-> "broad_discovery_v1"]

\* Ten tokens for 21 lamports: a quote of 1 a token is beyond the stop, 2 is
\* flat, 3 or more takes profit.  A take profit leaves two tokens, of which 80%
\* is still one, and its share of the cost does not divide evenly.
TenTokens == {[cost |-> 21, amount |-> 10]}
\* One token for two lamports: 80% of it is nothing.
OneToken  == {[cost |-> 2, amount |-> 1]}
BothLots  == TenTokens \cup OneToken

\* The two risk loops do the same.
LoopSymmetry == Permutations(RiskLoops)
=============================================================================
