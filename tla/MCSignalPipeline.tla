-------------------------- MODULE MCSignalPipeline --------------------------
(* Small instances of SignalPipeline.                                       *)
EXTENDS SignalPipeline, TLC

CONSTANTS i1, i2, d1, d2, h1, h2

\* Two signals, each delivered once, and one signal delivered twice.
Each  == [d \in {d1, d2} |-> IF d = d1 THEN i1 ELSE i2]
Twice == [d \in {d1, d2} |-> i1]
=============================================================================
