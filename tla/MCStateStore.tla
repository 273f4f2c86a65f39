---------------------------- MODULE MCStateStore ----------------------------
(***************************************************************************)
(* A small instance of StateStore.  The calls of a behaviour, callers, are *)
(* one of the groups below; the others are never made.  In the behaviours  *)
(* without callers, two risk loops run on a ledger of one token: what must *)
(* end, calls and exits, is in one run.                                    *)
(***************************************************************************)
EXTENDS StateStore, TLC

CONSTANTS m1, c1, c2, g1, g2, p1, p2, p3

VARIABLES
    callers,
    cash, positions, events, nextSeq, place, todo, job, faults, realized    \* the ledger

ledgerVars == <<cash, positions, events, nextSeq, place, todo, job, faults, realized>>

Kinds ==
    m1 :> "merge" @@ [o \in {c1, c2} |-> "claim"]
    @@ [o \in {g1, g2} |-> "migrate"] @@ [o \in {p1, p2, p3} |-> "publish"]

\* global_metrics.json or a ledger: a claim by two processes and the migration that two
\* processes run at their start, or either of these against an update.  The hypothesis
\* registry: three evaluations, or two and an update.
Groups == {{c1, c2, g1, g2}, {m1, c1, g1}, {p1, p2, p3}, {p1, p2, m1}}

\* A quote of 0 or 1 a token is beyond the stop of ten tokens for 21 lamports and of one
\* for two, of which 80% is nothing.
Ledger ==
    INSTANCE PaperLedger WITH
        Mints <- {"mint"}, Signals <- {"signal"},
        SignalMint <- [s \in {"signal"} |-> "mint"], SignalRoute <- [s \in {"signal"} |-> "A"],
        SignalStrategy <- [s \in {"signal"} |-> "broad_discovery_v1"],
        RiskLoops <- {"r1", "r2"}, Dashboards <- {},
        Lots <- {[cost |-> 21, amount |-> 10], [cost |-> 2, amount |-> 1]}, Prices <- {0, 1},
        InitialCash <- 26, MaxOpen <- 1, FailureLimit <- 2, MaxEvents <- 6, MaxSeq <- 1,
        MaxFaults <- 0, pc <- place

OnlyCalls  == callers # {} /\ UNCHANGED <<callers, ledgerVars>>
OnlyLedger == callers = {} /\ UNCHANGED <<callers, vars>>

StoreInit == Init /\ Ledger!Init /\ callers \in Groups \cup {{}}
StoreNext ==
    \/ OnlyCalls /\ \E op \in callers: Step(op) \/ Crash(op) \/ GoStale(op)
    \/ OnlyLedger /\ Ledger!Next
storeVars == <<vars, callers, ledgerVars>>

\* FairSpec of the calls that are made, Fairness of the ledger
StoreSpec ==
    /\ StoreInit /\ [][StoreNext]_storeVars
    /\ \A op \in Ops: WF_storeVars(op \in callers /\ Step(op) /\ OnlyCalls)
    /\ \A p \in {"r1", "r2"}:
          /\ WF_storeVars(OnlyLedger /\ Ledger!ProcStep(p))
          /\ SF_storeVars(OnlyLedger /\ \E price \in {0, 1}: Ledger!QuoteOk(p, price))

-----------------------------------------------------------------------------
(* Properties of the ledger under its fairness                             *)

\* Every exit that is claimed ends, whatever quotes fail and the other loop does
\* (_execute_paper_exit).
ExitResolves == Ledger!ExitResolves

\* A position whose quotes stay beyond its stop is sold in the end (run_risk_loop).
StopEventuallySells == Ledger!StopEventuallySells
=============================================================================
