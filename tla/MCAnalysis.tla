----------------------------- MODULE MCAnalysis -----------------------------
(* TokenAnalysis of a token whose markets are not all known.                *)
EXTENDS TokenAnalysis

\* One of its two pools is locked; the other has no readable share.
HalfKnown ==
    {[renounced |-> TRUE, developer |-> 1, locked |-> Unknown, pools |-> {Unknown, 90},
      liquidity |-> 20000]}
=============================================================================
