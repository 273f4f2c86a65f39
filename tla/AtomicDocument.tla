--------------------------- MODULE AtomicDocument ---------------------------
(* What src/state_store.py promises of one JSON document: every operation   *)
(* on it takes effect at a single moment, on the document as it is at that  *)
(* moment, and its caller is told the truth about it - unless the caller    *)
(* itself goes away.  There is no lock, no file and no copy here.           *)
EXTENDS Naturals

CONSTANTS
    Ops,    \* the operations, each called once
    Kind    \* of an operation: "merge", "claim", "migrate" or "publish"

VARIABLES
    doc,      \* the document: its version and the operations in effect
    outcome   \* of an operation: pending, applied, or what its caller was told

docVars == <<doc, outcome>>

Documents == [version : Nat, effects : SUBSET Ops]

\* A claim is refused, and a migration has nothing to do, when another one of
\* its kind is in effect.
Anticipated(op, d) ==
    /\ Kind[op] \in {"claim", "migrate"}
    /\ \E other \in d.effects : Kind[other] = Kind[op]

\* The document after the operation ran alone on d.  A mutator that refuses
\* still has its document saved under the next version; a migrator that
\* changes nothing does not.
After(op, d) ==
    [version |-> IF Anticipated(op, d) /\ Kind[op] = "migrate"
                 THEN d.version ELSE d.version + 1,
     effects |-> IF Anticipated(op, d) THEN d.effects ELSE d.effects \cup {op}]

DocInit ==
    /\ doc = [version |-> 0, effects |-> {}]
    /\ outcome = [op \in Ops |-> "pending"]

Apply(op) ==
    /\ outcome[op] = "pending"
    /\ doc' = After(op, doc)
    /\ outcome' = [outcome EXCEPT ![op] = "applied"]

Acknowledge(op) ==
    /\ outcome[op] = "applied"
    /\ outcome' = [outcome EXCEPT ![op] = "ok"]
    /\ UNCHANGED doc

\* A migration that finds its work done.
FindDone(op) ==
    /\ outcome[op] = "pending"
    /\ After(op, doc) = doc
    /\ outcome' = [outcome EXCEPT ![op] = "ok"]
    /\ UNCHANGED doc

Reject(op) ==
    /\ outcome[op] = "pending"
    /\ outcome' = [outcome EXCEPT ![op] = "failed"]
    /\ UNCHANGED doc

\* The caller dies before or after its operation took effect.
Vanish(op) ==
    /\ outcome[op] \in {"pending", "applied"}
    /\ outcome' = [outcome EXCEPT ![op] = "unknown"]
    /\ UNCHANGED doc

DocNext == \E op \in Ops :
    Apply(op) \/ Acknowledge(op) \/ FindDone(op) \/ Reject(op) \/ Vanish(op)

DocSpec == DocInit /\ [][DocNext]_docVars
=============================================================================
