-------------------------- MODULE TelemetryCutover --------------------------
(***************************************************************************)
(* How a telemetry epoch begins: scripts/entry_telemetry_cutover.py, the   *)
(* markers and pointers of src/research/entry_telemetry_epoch.py, and the  *)
(* process registry of scripts/local_paper_runner.py.                      *)
(*                                                                         *)
(* One operator gives one command at a time; a command may be interrupted  *)
(* after each of its writes, and while it waits the services trade, finish *)
(* what they have under way, or die.  A marker that no pointer names is    *)
(* read by nobody: a write of a marker is part of the step before.         *)
(* CodeVersions: build_identity and the fingerprint of the configuration.  *)
(***************************************************************************)
EXTENDS Integers, FiniteSets

CONSTANTS
    CodeVersions,
    MaxSeq,         \* bound: events of the ledger
    MaxEpochs,      \* bound: epochs that are created
    MaxBorn,        \* bound: processes that are started
    NoSnapshot

Trading   == {"monitor", "risk-manager"}
Core      == Trading \cup {"dashboard"}     \* CORE_SERVICES

ASSUME CutoverAssumption == {MaxSeq, MaxEpochs, MaxBorn} \subseteq Nat /\ NoSnapshot \notin Nat

VARIABLES
    checkout,   \* what is checked out
    n3Closed,   \* n3_closed succeeds
    ledgerSeq,  \* next_event_seq
    procs,      \* the processes of the services: epoch is the session's, 0 for none
    born,       \* the number of processes started: they differ in pid or creation time
    acked,      \* the files under stop_acknowledgements: the processes that drained
    snapshot,   \* cutover_snapshot.json: the ledger's event number
    epochs,     \* the epochs with a marker that was active once
    active,     \* active.json
    command     \* what the operator's command has come to

cutoverVars == <<checkout, n3Closed, ledgerSeq, procs, born, acked, snapshot, epochs, active, command>>
files == <<snapshot, epochs, active>>

NoProcess   == [pid |-> 0, pc |-> "down", epoch |-> 0]
IdleCommand == [at |-> "idle", waits |-> {}, seq |-> 0]
Up(s)       == procs[s].pc # "down"
NobodyUp    == \A s \in Core: ~Up(s)

-----------------------------------------------------------------------------
(* What the commands verify                                                *)

\* Bug: processes that the registry does not hold as trading are not looked for.
StoppedProof_Bound == \A s \in Core: procs[s].epoch = 0
StoppedProof       == NobodyUp

\* validate_snapshot compares all documents with the copies; the ledger stands for them.
\* Bug: that there is a snapshot is enough.
SnapshotValid_Exists == snapshot # NoSnapshot
SnapshotValid        == n3Closed /\ snapshot = ledgerSeq

\* require_epoch
EpochValid == active # 0 /\ n3Closed /\ epochs[active].version = checkout

OperatorGoes(at, step) ==
    /\ command.at = at
    /\ command' = [command EXCEPT !.at = step]
Ends == command' = IdleCommand

-----------------------------------------------------------------------------
(* The services                                                            *)

\* start_worker: the session is registered under the active epoch, or telemetry is off
\* and the service trades without.
Boot(s) ==
    /\ procs[s].pc = "boot"
    /\ procs' = [procs EXCEPT ![s].pc = "up",
                              ![s].epoch = IF s \in Trading /\ EpochValid THEN active ELSE 0]
    /\ UNCHANGED <<checkout, n3Closed, ledgerSeq, born, acked, files, command>>

\* Also what is finished after a stop was asked for is written.
WriteLedger(s) ==
    /\ s \in Trading /\ procs[s].pc \in {"up", "asked"} /\ ledgerSeq < MaxSeq
    /\ ledgerSeq' = ledgerSeq + 1
    /\ UNCHANGED <<checkout, n3Closed, procs, born, acked, files, command>>

\* stop_requested, then the end of main: flush may be too late for the acknowledgement.
Drain(s) ==
    /\ procs[s].pc = "asked"
    /\ procs' = [procs EXCEPT ![s] = NoProcess]
    /\ acked' \in {acked, acked \cup {procs[s].pid}}
    /\ UNCHANGED <<checkout, n3Closed, ledgerSeq, born, files, command>>

ServiceDies(s) ==
    /\ Up(s)
    /\ procs' = [procs EXCEPT ![s] = NoProcess]
    /\ UNCHANGED <<checkout, n3Closed, ledgerSeq, born, acked, files, command>>

N3Closes ==
    /\ ~n3Closed
    /\ n3Closed' = TRUE
    /\ UNCHANGED <<checkout, ledgerSeq, procs, born, acked, files, command>>

-----------------------------------------------------------------------------
(* The operator                                                            *)

CheckOut(v) ==
    /\ command.at = "idle" /\ v # checkout
    /\ checkout' = v
    /\ UNCHANGED <<n3Closed, ledgerSeq, procs, born, acked, files, command>>

\* start_process, of one service: one that is up is left alone
Start(s) ==
    /\ ~Up(s) /\ born < MaxBorn
    /\ born' = born + 1
    /\ procs' = [procs EXCEPT ![s] = [pid |-> born + 1, pc |-> "boot", epoch |-> 0]]

RunnerStart(s) ==
    /\ command.at = "idle"
    /\ Start(s)
    /\ UNCHANGED <<checkout, n3Closed, ledgerSeq, acked, files, command>>

\* terminate_record does not wait for what is under way.
RunnerStop(s) ==
    /\ command.at = "idle" /\ Up(s)
    /\ procs' = [procs EXCEPT ![s] = NoProcess]
    /\ UNCHANGED <<checkout, n3Closed, ledgerSeq, born, acked, files, command>>

\* clean_stop asks one service after the other; it gives up at one whose session is not
\* of the active epoch, and those that were asked stop all the same.
Bound(s)  == procs[s].epoch = active
AskedSet  == {s \in Trading: Up(s) /\ Bound(s)
                /\ (s = "monitor" \/ ~Up("monitor") \/ Bound("monitor"))}
AskToStop ==
    /\ command.at = "idle" /\ EpochValid
    /\ procs' = [s \in Core |-> IF s \in AskedSet THEN [procs[s] EXCEPT !.pc = "asked"]
                                ELSE procs[s]]
    /\ command' = IF \E s \in Trading: Up(s) /\ ~Bound(s) THEN IdleCommand
                  ELSE [at |-> "stop", waits |-> {procs[s].pid : s \in AskedSet}, seq |-> 0]
    /\ UNCHANGED <<checkout, n3Closed, ledgerSeq, born, acked, files>>

\* All are gone and have acknowledged: the dashboard is stopped, too.
StopDashboard ==
    /\ command.at = "stop" /\ command.waits \subseteq acked
    /\ \A s \in Core: procs[s].pid \notin command.waits
    /\ procs' = [procs EXCEPT !["dashboard"] = NoProcess]
    /\ Ends
    /\ UNCHANGED <<checkout, n3Closed, ledgerSeq, born, acked, files>>

\* create_snapshot: the marker, then the pointer to it
TakeSnapshot ==
    /\ command.at = "idle" /\ StoppedProof /\ n3Closed
    /\ command' = [at |-> "point", waits |-> {}, seq |-> ledgerSeq]
    /\ UNCHANGED <<checkout, n3Closed, ledgerSeq, procs, born, acked, files>>
PointAtSnapshot ==
    /\ command.at = "point"
    /\ snapshot' = command.seq
    /\ Ends
    /\ UNCHANGED <<checkout, n3Closed, ledgerSeq, procs, born, acked, epochs, active>>

\* create_epoch keeps an active epoch, unless --new-activation is given.
CreateEpoch ==
    /\ command.at = "idle" /\ StoppedProof /\ SnapshotValid
    /\ Cardinality(DOMAIN epochs) < MaxEpochs
    /\ command' = [at |-> "activate", waits |-> {}, seq |-> snapshot]
    /\ UNCHANGED <<checkout, n3Closed, ledgerSeq, procs, born, acked, files>>
Activate ==
    /\ command.at = "activate"
    /\ LET id == Cardinality(DOMAIN epochs) + 1 IN
         /\ epochs' = [e \in 1..id |-> IF e = id THEN [start |-> command.seq, version |-> checkout]
                                       ELSE epochs[e]]
         /\ active' = id
    /\ Ends
    /\ UNCHANGED <<checkout, n3Closed, ledgerSeq, procs, born, acked, snapshot>>

\* resume verifies all and starts the services one by one.
Resume ==
    /\ StoppedProof /\ SnapshotValid /\ EpochValid
    /\ OperatorGoes("idle", "resume")
    /\ UNCHANGED <<checkout, n3Closed, ledgerSeq, procs, born, acked, files>>
ResumeStarts(s) ==
    /\ command.at = "resume" /\ Start(s)
    /\ command' = IF \A o \in Core \ {s}: Up(o) THEN IdleCommand ELSE command
    /\ UNCHANGED <<checkout, n3Closed, ledgerSeq, acked, files>>

\* A command times out, fails or is interrupted.
GiveUp ==
    /\ command.at # "idle"
    /\ Ends
    /\ UNCHANGED <<checkout, n3Closed, ledgerSeq, procs, born, acked, files>>

-----------------------------------------------------------------------------

CutoverInit ==
    /\ checkout \in CodeVersions /\ n3Closed = FALSE /\ ledgerSeq = 1
    /\ procs = [s \in Core |-> NoProcess] /\ born = 0 /\ acked = {}
    /\ snapshot = NoSnapshot /\ epochs = <<>> /\ active = 0 /\ command = IdleCommand

CutoverNext ==
    \/ \E s \in Core: \/ Boot(s) \/ WriteLedger(s) \/ Drain(s) \/ ServiceDies(s)
                      \/ RunnerStart(s) \/ RunnerStop(s) \/ ResumeStarts(s)
    \/ \E v \in CodeVersions: CheckOut(v)
    \/ N3Closes \/ AskToStop \/ StopDashboard \/ TakeSnapshot \/ PointAtSnapshot
    \/ CreateEpoch \/ Activate \/ Resume \/ GiveUp

CutoverSpec == CutoverInit /\ [][CutoverNext]_cutoverVars

-----------------------------------------------------------------------------
(* Properties                                                              *)

CutoverTypeOK ==
    /\ ledgerSeq \in 1..MaxSeq /\ born \in 0..MaxBorn /\ acked \subseteq 1..MaxBorn
    /\ \A s \in Core: procs[s].pc \in {"down", "boot", "up", "asked"}
    /\ active \in 0..MaxEpochs /\ snapshot \in 1..MaxSeq \cup {NoSnapshot}
    /\ command.at \in {"idle", "stop", "point", "activate", "resume"}

\* An epoch begins with the next event of the ledger, with no process of the former
\* epoch left (entry_telemetry_epoch.py: start_event_seq): however many snapshots, runs,
\* crashes and interrupted commands came between the snapshot and the activation, an
\* event is either before the epoch or written under it.
EpochStartsAtLedger ==
    [][active' # active => epochs'[active'].start = ledgerSeq /\ NobodyUp]_cutoverVars

\* No process records under an epoch that another one has succeeded.
SessionsAreCurrent == \A s \in Core: procs[s].epoch \in {0, active}
=============================================================================
