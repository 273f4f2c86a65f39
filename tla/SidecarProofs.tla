--------------------------- MODULE SidecarProofs ---------------------------
(***************************************************************************)
(* Theorems about what runs beside the trading: the beginning of an epoch, *)
(* the backups of the deployments, and the telemetry's files.              *)
(***************************************************************************)
EXTENDS TelemetryCutover, StorageRetention, TelemetryRecorder,
        FiniteSetTheorems, TLAPS

-----------------------------------------------------------------------------
(* The beginning of an epoch                                               *)
(*                                                                         *)
(* A command that has verified the stop and the snapshot and is about to   *)
(* move the pointer: nobody has come up since, because only commands start *)
(* processes, and therefore nobody has written to the ledger.              *)

Process == [pid: Nat, pc: {"down", "boot", "up", "asked"}, epoch: Nat]
Commands == [at: {"idle", "stop", "point", "activate", "resume"}, waits: SUBSET Nat, seq: Nat]

CutoverTypes ==
    /\ ledgerSeq \in Nat /\ born \in Nat /\ active \in Nat
    /\ procs \in [Core -> Process]
    /\ command \in Commands
    /\ \E n \in Nat: DOMAIN epochs = 1..n

StillStopped ==
    command.at = "activate" => command.seq = ledgerSeq /\ NobodyUp
DownIsUnbound  == \A s \in Core: ~Up(s) => procs[s].epoch = 0

CutoverInv == CutoverTypes /\ StillStopped /\ DownIsUnbound /\ SessionsAreCurrent

\* A step that leaves the pointer and the epochs alone and starts no process keeps the
\* invariant, if it neither activates nor writes to the ledger meanwhile.
LEMMA CutoverMoves ==
    ASSUME CutoverInv, procs' \in [Core -> Process], command' \in Commands,
           born' \in Nat, ledgerSeq' \in Nat, UNCHANGED <<epochs, active>>,
           command'.at = "activate" => command'.seq = ledgerSeq' /\ NobodyUp',
           \A s \in Core: \/ procs'[s] = procs[s]
                          \/ procs'[s].epoch = 0
                          \/ procs'[s].epoch = active /\ procs'[s].pc # "down"
                          \/ procs'[s].epoch = procs[s].epoch /\ Up(s) /\ procs'[s].pc # "down"
    PROVE  CutoverInv'
<1>1. CutoverTypes'
    BY DEF CutoverInv, CutoverTypes
<1>2. StillStopped'
    BY DEF StillStopped
<1>3. DownIsUnbound'
    BY DEF CutoverInv, DownIsUnbound, Up
<1>4. SessionsAreCurrent'
    BY DEF CutoverInv, SessionsAreCurrent
<1>. QED BY <1>1, <1>2, <1>3, <1>4 DEF CutoverInv

LEMMA CutoverInit_Inv == CutoverInit => CutoverInv
<1>. SUFFICES ASSUME CutoverInit PROVE CutoverInv
    OBVIOUS
<1>1. NoProcess \in Process /\ IdleCommand \in Commands /\ IdleCommand.at = "idle"
      /\ NoProcess.epoch = 0
    BY DEF NoProcess, Process, IdleCommand, Commands
<1>2. DOMAIN epochs = 1..0 /\ 0 \in Nat
    BY DEF CutoverInit
<1>. QED BY <1>1, <1>2 DEF CutoverInit, CutoverInv, CutoverTypes, StillStopped, DownIsUnbound,
                           SessionsAreCurrent

\* Starting a process, by any command.
LEMMA StartIsAProcess ==
    ASSUME CutoverInv, NEW s \in Core, Start(s)
    PROVE  /\ procs' \in [Core -> Process] /\ born' \in Nat
           /\ \A o \in Core: procs'[o] = procs[o] \/ procs'[o].epoch = 0
<1>1. [pid |-> born + 1, pc |-> "boot", epoch |-> 0] \in Process
    BY DEF CutoverInv, CutoverTypes, Process
<1>. DEFINE r == [pid |-> born + 1, pc |-> "boot", epoch |-> 0]
<1>2. procs' = [procs EXCEPT ![s] = r] /\ born' = born + 1 /\ r.epoch = 0 /\ r \in Process
    BY <1>1 DEF Start
<1>. HIDE DEF r
<1>. QED BY <1>2 DEF CutoverInv, CutoverTypes

LEMMA CutoverStep_Inv == CutoverInv /\ [CutoverNext]_cutoverVars => CutoverInv'
<1>. SUFFICES ASSUME CutoverInv, [CutoverNext]_cutoverVars PROVE CutoverInv'
    OBVIOUS
<1>. USE DEF files, Ends
<1>t. CutoverTypes /\ StillStopped /\ DownIsUnbound /\ SessionsAreCurrent
    BY DEF CutoverInv
<1>p. /\ procs \in [Core -> Process] /\ command \in Commands /\ born \in Nat /\ ledgerSeq \in Nat
      /\ active \in Nat
    BY <1>t DEF CutoverTypes
<1>n. /\ NoProcess \in Process /\ NoProcess.epoch = 0 /\ NoProcess.pc = "down"
      /\ IdleCommand \in Commands /\ IdleCommand.at = "idle"
    BY DEF NoProcess, Process, IdleCommand, Commands
\* Whoever stops somebody leaves the others, and a stop stays a stop.
<1>d. ASSUME NEW s \in Core, procs' = [procs EXCEPT ![s] = NoProcess],
             UNCHANGED <<ledgerSeq, born, epochs, active>>,
             command' = command \/ command' = IdleCommand
      PROVE  CutoverInv'
    <2>1. procs' \in [Core -> Process] /\ \A o \in Core: procs'[o] = procs[o] \/ procs'[o] = NoProcess
        BY <1>d, <1>n, <1>p
    <2>2. NobodyUp => NobodyUp'
        BY <1>n, <2>1 DEF NobodyUp, Up
    <2>. QED BY <1>d, <1>n, <1>p, <1>t, <2>1, <2>2, CutoverMoves DEF StillStopped
\* A command that goes on without touching anything else.
<1>c. ASSUME command' \in Commands, command'.at # "activate",
             UNCHANGED <<procs, ledgerSeq, born, epochs, active>>
      PROVE  CutoverInv'
    BY <1>c, <1>p, CutoverMoves
<1>1. ASSUME NEW s \in Core, Boot(s) PROVE CutoverInv'
    <2>. DEFINE e == IF s \in Trading /\ EpochValid THEN active ELSE 0
                r == [[procs[s] EXCEPT !.pc = "up"] EXCEPT !.epoch = e]
    <2>1. procs' = [procs EXCEPT ![s] = r] /\ procs[s].pc = "boot"
          /\ UNCHANGED <<ledgerSeq, born, epochs, active, command>>
        BY <1>1, <1>p DEF Boot
    <2>2. e \in Nat /\ e \in {0, active}
        BY <1>p
    <2>. HIDE DEF e
    <2>3. [procs[s] EXCEPT !.pc = "up"] \in Process
        BY <1>p DEF Process
    <2>4. r \in Process /\ r.epoch = e /\ r.pc = "up"
        BY <2>2, <2>3 DEF Process
    <2>. HIDE DEF r
    <2>5. procs' \in [Core -> Process] /\ Up(s)
          /\ \A o \in Core: procs'[o] = procs[o] \/ (procs'[o].epoch \in {0, active} /\ procs'[o].pc = "up")
        BY <1>p, <2>1, <2>2, <2>4 DEF Up
    <2>6. command.at # "activate"
        BY <1>t, <2>5 DEF StillStopped, NobodyUp
    <2>. QED BY <1>p, <2>1, <2>5, <2>6, CutoverMoves
<1>2. ASSUME NEW s \in Core, WriteLedger(s) PROVE CutoverInv'
    <2>1. Up(s) /\ ledgerSeq' \in Nat /\ UNCHANGED <<procs, born, epochs, active, command>>
        BY <1>2, <1>p DEF WriteLedger, Up
    <2>2. command.at # "activate"
        BY <1>t, <2>1 DEF StillStopped, NobodyUp
    <2>. QED BY <1>p, <2>1, <2>2, CutoverMoves
<1>3. ASSUME NEW s \in Core, Drain(s) \/ ServiceDies(s) \/ RunnerStop(s) PROVE CutoverInv'
    BY <1>3, <1>d DEF Drain, ServiceDies, RunnerStop
<1>4. ASSUME NEW s \in Core, RunnerStart(s) PROVE CutoverInv'
    <2>1. Start(s) /\ command.at = "idle" /\ UNCHANGED <<ledgerSeq, epochs, active, command>>
        BY <1>4 DEF RunnerStart
    <2>. QED BY <1>p, <2>1, StartIsAProcess, CutoverMoves
<1>5. ASSUME NEW s \in Core, ResumeStarts(s) PROVE CutoverInv'
    <2>1. Start(s) /\ command' \in {IdleCommand, command} /\ command.at = "resume"
          /\ UNCHANGED <<ledgerSeq, epochs, active>>
        BY <1>5 DEF ResumeStarts
    <2>. QED BY <1>n, <1>p, <2>1, StartIsAProcess, CutoverMoves
<1>6. CASE AskToStop
    <2>. DEFINE asked(s) == [procs[s] EXCEPT !.pc = "asked"]
    <2>1. ASSUME NEW s \in Core
          PROVE  asked(s) \in Process /\ asked(s).epoch = procs[s].epoch /\ asked(s).pc = "asked"
        BY <1>p DEF Process
    <2>2. procs' = [s \in Core |-> IF s \in AskedSet THEN asked(s) ELSE procs[s]]
          /\ UNCHANGED <<ledgerSeq, born, epochs, active>> /\ command.at = "idle"
        BY <1>6 DEF AskToStop
    <2>. HIDE DEF asked
    <2>3. procs' \in [Core -> Process]
        BY <1>p, <2>1, <2>2
    <2>4. \A s \in Core: procs'[s] = procs[s]
                \/ (procs'[s].epoch = procs[s].epoch /\ Up(s) /\ procs'[s].pc # "down")
        BY <2>1, <2>2 DEF AskedSet
    <2>5. command' \in Commands /\ command'.at # "activate"
        <3>1. {procs[s].pid : s \in AskedSet} \in SUBSET Nat
            BY <1>p DEF AskedSet, Process, Core
        <3>. DEFINE ws == {procs[s].pid : s \in AskedSet}
        <3>2. command' = IdleCommand \/ command' = [at |-> "stop", waits |-> ws, seq |-> 0]
            BY <1>6 DEF AskToStop
        <3>. HIDE DEF ws
        <3>3. ws \in SUBSET Nat
            BY <3>1 DEF ws
        <3>4. [at |-> "stop", waits |-> ws, seq |-> 0] \in Commands
            BY <3>3 DEF Commands
        <3>. QED BY <1>n, <3>2, <3>4
    <2>. QED BY <1>p, <2>2, <2>3, <2>4, <2>5, CutoverMoves
<1>7. CASE StopDashboard
    BY <1>7, <1>d DEF StopDashboard, Core
<1>8. CASE TakeSnapshot
    <2>1. [at |-> "point", waits |-> {}, seq |-> ledgerSeq] \in Commands
        BY <1>p DEF Commands
    <2>. QED BY <1>8, <1>c, <2>1 DEF TakeSnapshot
<1>9. CASE PointAtSnapshot \/ GiveUp
    BY <1>9, <1>c, <1>n DEF PointAtSnapshot, GiveUp
<1>10. CASE CreateEpoch
    <2>1. /\ command' = [at |-> "activate", waits |-> {}, seq |-> snapshot]
          /\ NobodyUp /\ snapshot = ledgerSeq /\ UNCHANGED <<procs, ledgerSeq, born, epochs, active>>
        BY <1>10 DEF CreateEpoch, StoppedProof, SnapshotValid
    <2>2. command' \in Commands /\ command'.seq = ledgerSeq'
        BY <1>p, <2>1 DEF Commands
    <2>3. NobodyUp'
        BY <2>1 DEF NobodyUp, Up
    <2>. QED BY <1>p, <2>1, <2>2, <2>3, CutoverMoves
<1>11. CASE Activate
    <2>1. NobodyUp /\ command' = IdleCommand /\ UNCHANGED <<procs, ledgerSeq, born>>
        BY <1>11, <1>t DEF Activate, StillStopped
    <2>2. PICK n \in Nat: DOMAIN epochs = 1..n
        BY <1>t DEF CutoverTypes
    <2>a. Cardinality(DOMAIN epochs) \in Nat
        BY <2>2, FS_Interval, FS_CardinalityType
    <2>3. Cardinality(DOMAIN epochs) + 1 \in Nat
        BY <2>a
    <2>4. active' \in Nat /\ DOMAIN epochs' = 1..active'
        BY <1>11, <2>3 DEF Activate
    <2>5. CutoverTypes'
        BY <1>n, <1>p, <2>1, <2>4 DEF CutoverTypes
    <2>6. \A s \in Core: procs'[s].epoch = 0
        BY <1>t, <2>1 DEF NobodyUp, DownIsUnbound
    <2>. QED BY <1>n, <2>1, <2>5, <2>6
             DEF CutoverInv, StillStopped, DownIsUnbound, SessionsAreCurrent
<1>12. CASE Resume
    <2>1. command' = [command EXCEPT !.at = "resume"]
          /\ UNCHANGED <<procs, ledgerSeq, born, epochs, active>>
        BY <1>12 DEF Resume, OperatorGoes
    <2>2. command' \in Commands /\ command'.at = "resume"
        BY <1>p, <2>1 DEF Commands
    <2>. QED BY <1>c, <2>1, <2>2
<1>13. ASSUME UNCHANGED <<procs, ledgerSeq, born, epochs, active, command>> PROVE CutoverInv'
    BY <1>13, <1>t DEF CutoverInv, CutoverTypes, StillStopped, DownIsUnbound, SessionsAreCurrent,
                       NobodyUp, Up
<1>14. ASSUME NEW v, CheckOut(v) PROVE CutoverInv'
    BY <1>13, <1>14 DEF CheckOut
<1>15. CASE N3Closes \/ UNCHANGED cutoverVars
    BY <1>13, <1>15 DEF N3Closes, cutoverVars
<1>. QED BY <1>1, <1>2, <1>3, <1>4, <1>5, <1>6, <1>7, <1>8, <1>9, <1>10, <1>11, <1>12, <1>14,
            <1>15 DEF CutoverNext

\* The pointer moves in one place only, to an epoch that begins where the ledger is.
LEMMA PointerMoves ==
    ASSUME CutoverInv, [CutoverNext]_cutoverVars, active' # active
    PROVE  epochs'[active'].start = ledgerSeq /\ NobodyUp
<1>1. Activate
    BY DEF CutoverNext, cutoverVars, files, Boot, WriteLedger, Drain, ServiceDies, RunnerStart,
           RunnerStop, ResumeStarts, CheckOut, N3Closes, AskToStop, StopDashboard, TakeSnapshot,
           PointAtSnapshot, CreateEpoch, Resume, GiveUp
<1>2. PICK n \in Nat: DOMAIN epochs = 1..n
    BY DEF CutoverInv, CutoverTypes
<1>3. Cardinality(DOMAIN epochs) \in Nat
    BY <1>2, FS_Interval, FS_CardinalityType
<1>. DEFINE id == Cardinality(DOMAIN epochs) + 1
<1>4. id \in 1..id /\ active' = id
      /\ epochs' = [e \in 1..id |-> IF e = id THEN [start |-> command.seq, version |-> checkout]
                                    ELSE epochs[e]]
    BY <1>1, <1>3 DEF Activate
<1>. HIDE DEF id
<1>5. epochs'[active'].start = command.seq
    BY <1>4
<1>6. command.seq = ledgerSeq /\ NobodyUp
    BY <1>1 DEF Activate, CutoverInv, StillStopped
<1>. QED BY <1>5, <1>6

\* An epoch begins with the ledger's next event, with no process of the former one left:
\* whatever happened between the snapshot and the activation, for any number of events,
\* epochs and processes (entry_telemetry_cutover.py, create_epoch).
THEOREM EpochsStartAtLedger == CutoverSpec => EpochStartsAtLedger
<1>1. CutoverInv /\ [CutoverNext]_cutoverVars =>
          [active' # active => epochs'[active'].start = ledgerSeq /\ NobodyUp]_cutoverVars
    BY PointerMoves
<1>. QED BY <1>1, CutoverInit_Inv, CutoverStep_Inv, PTL DEF CutoverSpec, EpochStartsAtLedger

\* No process records under an epoch that another one has succeeded (start_worker binds a
\* session to the epoch that is active).
THEOREM SessionsStayCurrent == CutoverSpec => []SessionsAreCurrent
<1>1. CutoverInv => SessionsAreCurrent
    BY DEF CutoverInv
<1>. QED BY <1>1, CutoverInit_Inv, CutoverStep_Inv, PTL DEF CutoverSpec
-----------------------------------------------------------------------------
(* The backups                                                             *)
(*                                                                         *)
(* Whatever a marker points at was written for the revision of the marker. *)
(* The plan protects the revision that is deployed and the one that is     *)
(* installed; a deployment that has come to the end has installed its own. *)

Backup == [revision: Revisions, state: {"partial", "valid", "gone"}]
Deployment ==
    [at: {"none", "copy", "mark", "write", "upload", "gate", "retain", "removed", "finish"},
     revision: Revisions \cup {NoRevision}, plan: SUBSET Nat, index: Nat]

RetentionTypes ==
    /\ backups \in Seq(Backup)
    /\ marker \in [Revisions -> Int]
    /\ {source, deployed} \subseteq Revisions \cup {NoRevision}
    /\ deploy \in Deployment

MarkersFit ==
    \A r \in Revisions: marker[r] \notin {0, EmptyMarker} =>
        marker[r] \in DOMAIN backups /\ backups[marker[r]].revision = r
OwnBackupFits ==
    deploy.at # "none" =>
        /\ deploy.revision \in Revisions
        /\ deploy.index \in DOMAIN backups /\ backups[deploy.index].revision = deploy.revision
ManifestIsWritten == deploy.at \in {"mark", "write"} => deploy.index \in ValidBackups
OwnIsInstalled ==
    deploy.at \in {"gate", "retain", "removed", "finish"} => source = deploy.revision
OwnIsKept ==
    deploy.at \in {"retain", "removed", "finish"} => marker[deploy.revision] \in ValidBackups
RemovedIsInvalid ==
    deploy.at = "removed" =>
        Newest(deploy.plan) \in DOMAIN backups /\ Newest(deploy.plan) \notin ValidBackups

RetentionInv ==
    /\ RetentionTypes /\ MarkersFit /\ OwnBackupFits /\ ManifestIsWritten
    /\ OwnIsInstalled /\ OwnIsKept /\ RemovedIsInvalid /\ DeployedCanBeRestored

LEMMA RetentionInit_Inv == RetentionInit => RetentionInv
<1>. SUFFICES ASSUME RetentionInit PROVE RetentionInv
    OBVIOUS
<1>1. backups \in Seq(Backup) /\ deploy = NoDeploy /\ deployed = NoRevision /\ source = NoRevision
    BY DEF RetentionInit
<1>2. NoDeploy \in Deployment /\ NoDeploy.at = "none"
    BY DEF NoDeploy, Deployment
<1>. QED BY <1>1, <1>2 DEF RetentionInit, RetentionInv, RetentionTypes, MarkersFit, OwnBackupFits,
             ManifestIsWritten, OwnIsInstalled, OwnIsKept, RemovedIsInvalid, DeployedCanBeRestored

\* What may be removed is neither what is deployed nor what is installed.
LEMMA SafeIsForeign ==
    ASSUME NEW i \in SafeToDelete
    PROVE  i \in ValidBackups /\ backups[i].revision \notin {source, deployed}
BY DEF SafeToDelete, Protected

\* A backup whose state changes is still a backup of its revision; the others stay valid,
\* or not, as they were.
LEMMA StateChanges ==
    ASSUME RetentionTypes, NEW i \in DOMAIN backups, NEW st \in {"partial", "valid", "gone"},
           backups' = [backups EXCEPT ![i].state = st]
    PROVE  /\ backups' \in Seq(Backup) /\ DOMAIN backups' = DOMAIN backups
           /\ \A j \in DOMAIN backups: backups'[j].revision = backups[j].revision
           /\ \A j \in DOMAIN backups \ {i}: j \in ValidBackups' <=> j \in ValidBackups
           /\ i \in ValidBackups' <=> st = "valid"
<1>. DEFINE r == [backups[i] EXCEPT !.state = st]
<1>1. backups \in Seq(Backup) /\ backups[i] \in Backup
    BY DEF RetentionTypes
<1>2. r \in Backup /\ r.revision = backups[i].revision /\ r.state = st
    BY <1>1 DEF Backup
<1>3. backups' = [backups EXCEPT ![i] = r]
    OBVIOUS
<1>. HIDE DEF r
<1>4. backups' \in Seq(Backup) /\ DOMAIN backups' = DOMAIN backups
    BY <1>1, <1>2, <1>3
<1>5. \A j \in DOMAIN backups: backups'[j] = IF j = i THEN r ELSE backups[j]
    BY <1>1, <1>3
<1>. QED BY <1>2, <1>4, <1>5 DEF ValidBackups

\* A step that only moves the deployment on.
LEMMA DeploymentMoves ==
    ASSUME RetentionInv, UNCHANGED <<backups, marker, deployed>>, deploy' \in Deployment,
           source' \in Revisions \cup {NoRevision},
           deploy'.revision = deploy.revision, deploy'.index = deploy.index, deploy.at # "none",
           deploy'.at \notin {"mark", "write"},
           deploy'.at \in {"gate", "retain", "removed", "finish"} => source' = deploy.revision,
           deploy'.at \in {"retain", "removed", "finish"} =>
                marker[deploy.revision] \in ValidBackups,
           deploy'.at # "removed"
    PROVE  RetentionInv'
<1>1. ValidBackups' = ValidBackups
    BY DEF ValidBackups
<1>2. RetentionTypes' /\ MarkersFit' /\ OwnBackupFits'
    BY DEF RetentionInv, RetentionTypes, MarkersFit, OwnBackupFits
<1>3. ManifestIsWritten' /\ OwnIsInstalled' /\ OwnIsKept' /\ RemovedIsInvalid'
    BY <1>1 DEF ManifestIsWritten, OwnIsInstalled, OwnIsKept, RemovedIsInvalid
<1>4. DeployedCanBeRestored'
    BY <1>1 DEF RetentionInv, DeployedCanBeRestored
<1>. QED BY <1>2, <1>3, <1>4 DEF RetentionInv

\* The end of a deployment, whether it succeeded or not.
LEMMA DeploymentEnds ==
    ASSUME RetentionInv, UNCHANGED <<backups, marker, source>>, deploy' = NoDeploy,
           deployed' = deployed \/ (deploy.at = "finish" /\ deployed' = deploy.revision)
    PROVE  RetentionInv'
<1>1. ValidBackups' = ValidBackups
    BY DEF ValidBackups
<1>2. NoDeploy \in Deployment /\ NoDeploy.at = "none"
    BY DEF NoDeploy, Deployment
<1>3. deployed' \in Revisions \cup {NoRevision}
    BY DEF RetentionInv, RetentionTypes, OwnBackupFits
<1>4. RetentionTypes' /\ MarkersFit' /\ OwnBackupFits'
    BY <1>2, <1>3 DEF RetentionInv, RetentionTypes, MarkersFit, OwnBackupFits
<1>5. ManifestIsWritten' /\ OwnIsInstalled' /\ OwnIsKept' /\ RemovedIsInvalid'
    BY <1>2 DEF ManifestIsWritten, OwnIsInstalled, OwnIsKept, RemovedIsInvalid
<1>6. DeployedCanBeRestored'
    <2>1. CASE deployed' = deployed
        BY <1>1, <2>1 DEF RetentionInv, DeployedCanBeRestored
    <2>2. CASE deploy.at = "finish" /\ deployed' = deploy.revision
        <3>1. deploy.revision \in Revisions /\ marker[deploy.revision] \in ValidBackups
            BY <2>2 DEF RetentionInv, OwnBackupFits, OwnIsKept
        <3>2. marker[deploy.revision] \notin {0, EmptyMarker}
            BY <3>1 DEF ValidBackups, RetentionInv, RetentionTypes, EmptyMarker
        <3>3. backups[marker[deploy.revision]].revision = deploy.revision
            BY <3>1, <3>2 DEF RetentionInv, MarkersFit
        <3>. QED BY <1>1, <2>2, <3>1, <3>3 DEF DeployedCanBeRestored
    <2>. QED BY <2>1, <2>2
<1>. QED BY <1>4, <1>5, <1>6 DEF RetentionInv

LEMMA RetentionStep_Inv == RetentionInv /\ [RetentionNext]_retentionVars => RetentionInv'
<1>. SUFFICES ASSUME RetentionInv, [RetentionNext]_retentionVars PROVE RetentionInv'
    OBVIOUS
<1>. USE DEF Then, OwnBackup
<1>t. /\ RetentionTypes /\ MarkersFit /\ OwnBackupFits /\ ManifestIsWritten
      /\ OwnIsInstalled /\ OwnIsKept /\ RemovedIsInvalid /\ DeployedCanBeRestored
    BY DEF RetentionInv
<1>d. deploy \in Deployment /\ backups \in Seq(Backup) /\ marker \in [Revisions -> Int]
      /\ source \in Revisions \cup {NoRevision} /\ deployed \in Revisions \cup {NoRevision}
    BY <1>t DEF RetentionTypes
<1>1. ASSUME NEW r \in Revisions, BeginBackup(r) PROVE RetentionInv'
    <2>. DEFINE b == [revision |-> r, state |-> "partial"]
                n == Len(backups) + 1
    <2>1. /\ backups' = Append(backups, b)
          /\ deploy' = [at |-> "copy", revision |-> r, plan |-> {}, index |-> n]
          /\ UNCHANGED <<marker, source, deployed>>
        BY <1>1 DEF BeginBackup
    <2>2. b \in Backup /\ b.revision = r /\ b.state = "partial" /\ n \in Nat
        BY <1>d DEF Backup
    <2>. HIDE DEF b
    <2>3. /\ backups' \in Seq(Backup) /\ DOMAIN backups \subseteq DOMAIN backups'
          /\ n \in DOMAIN backups' /\ backups'[n] = b
          /\ \A j \in DOMAIN backups: backups'[j] = backups[j]
        BY <1>d, <2>1, <2>2
    <2>. HIDE DEF n
    <2>4. deploy' \in Deployment /\ deploy'.at = "copy" /\ deploy'.revision = r /\ deploy'.index = n
        BY <2>1, <2>2 DEF Deployment
    <2>5. RetentionTypes'
        BY <1>t, <2>1, <2>3, <2>4 DEF RetentionTypes
    <2>6. MarkersFit'
        BY <1>t, <2>1, <2>3 DEF MarkersFit
    <2>7. OwnBackupFits'
        BY <2>2, <2>3, <2>4 DEF OwnBackupFits
    <2>8. DeployedCanBeRestored'
        BY <1>t, <2>1, <2>3 DEF DeployedCanBeRestored, ValidBackups
    <2>9. ManifestIsWritten' /\ OwnIsInstalled' /\ OwnIsKept' /\ RemovedIsInvalid'
        BY <2>4 DEF ManifestIsWritten, OwnIsInstalled, OwnIsKept, RemovedIsInvalid
    <2>. QED BY <2>5, <2>6, <2>7, <2>8, <2>9 DEF RetentionInv
<1>2. CASE WriteManifest
    <2>1. /\ deploy.index \in DOMAIN backups /\ deploy.revision \in Revisions
          /\ backups[deploy.index].revision = deploy.revision
          /\ backups' = [backups EXCEPT ![deploy.index].state = "valid"]
          /\ deploy' = [deploy EXCEPT !.at = "mark"]
          /\ UNCHANGED <<marker, source, deployed>>
        BY <1>2, <1>t DEF WriteManifest, OwnBackupFits
    <2>2. /\ backups' \in Seq(Backup) /\ DOMAIN backups' = DOMAIN backups
          /\ \A j \in DOMAIN backups: backups'[j].revision = backups[j].revision
          /\ \A j \in DOMAIN backups \ {deploy.index}: j \in ValidBackups' <=> j \in ValidBackups
          /\ deploy.index \in ValidBackups'
        BY <1>t, <2>1, StateChanges
    <2>3. deploy' \in Deployment /\ deploy'.at = "mark" /\ deploy'.revision = deploy.revision
          /\ deploy'.index = deploy.index
        BY <1>d, <2>1 DEF Deployment
    <2>4. RetentionTypes'
        BY <1>t, <2>1, <2>2, <2>3 DEF RetentionTypes
    <2>5. MarkersFit' /\ OwnBackupFits'
        BY <1>t, <2>1, <2>2, <2>3 DEF MarkersFit, OwnBackupFits
    <2>6. ManifestIsWritten' /\ OwnIsInstalled' /\ OwnIsKept' /\ RemovedIsInvalid'
        BY <2>2, <2>3 DEF ManifestIsWritten, OwnIsInstalled, OwnIsKept, RemovedIsInvalid
    <2>7. DeployedCanBeRestored'
        <3>1. ValidBackups \subseteq ValidBackups' /\ ValidBackups \subseteq DOMAIN backups
            BY <2>2 DEF ValidBackups
        <3>. QED BY <1>t, <2>1, <2>2, <3>1 DEF DeployedCanBeRestored
    <2>. QED BY <2>4, <2>5, <2>6, <2>7 DEF RetentionInv
<1>3. CASE WriteMarker
    <2>1. /\ deploy.index \in ValidBackups /\ deploy.index \in DOMAIN backups
          /\ deploy.revision \in Revisions
          /\ backups[deploy.index].revision = deploy.revision
          /\ marker' = [marker EXCEPT ![deploy.revision] = deploy.index]
          /\ deploy' = [deploy EXCEPT !.at = "upload"]
          /\ UNCHANGED <<backups, source, deployed>>
        BY <1>3, <1>t DEF WriteMarker, OwnBackupFits, ManifestIsWritten
    <2>2. deploy' \in Deployment /\ deploy'.at = "upload" /\ deploy'.revision = deploy.revision
          /\ deploy'.index = deploy.index
        BY <1>d, <2>1 DEF Deployment
    <2>3. ValidBackups' = ValidBackups
        BY <2>1 DEF ValidBackups
    <2>4. \A r \in Revisions: marker'[r] = IF r = deploy.revision THEN deploy.index ELSE marker[r]
        BY <1>d, <2>1
    <2>a. marker' \in [Revisions -> Int]
        BY <1>d, <2>1 DEF Deployment
    <2>5. RetentionTypes'
        BY <1>t, <2>1, <2>2, <2>a DEF RetentionTypes
    <2>6. MarkersFit' /\ OwnBackupFits'
        BY <1>t, <2>1, <2>2, <2>4 DEF MarkersFit, OwnBackupFits
    <2>7. ManifestIsWritten' /\ OwnIsInstalled' /\ OwnIsKept' /\ RemovedIsInvalid'
        BY <2>2 DEF ManifestIsWritten, OwnIsInstalled, OwnIsKept, RemovedIsInvalid
    <2>8. DeployedCanBeRestored'
        BY <1>d, <1>t, <2>1, <2>3, <2>4 DEF DeployedCanBeRestored
    <2>. QED BY <2>5, <2>6, <2>7, <2>8 DEF RetentionInv
<1>4. CASE UploadSource
    <2>1. /\ deploy' = [deploy EXCEPT !.at = "gate"] /\ source' = deploy.revision
          /\ deploy.at = "upload" /\ UNCHANGED <<backups, marker, deployed>>
        BY <1>4 DEF UploadSource
    <2>2. deploy' \in Deployment /\ deploy'.at = "gate" /\ deploy'.revision = deploy.revision
          /\ deploy'.index = deploy.index /\ deploy.revision \in Revisions \cup {NoRevision}
        BY <1>d, <2>1 DEF Deployment
    <2>. QED BY <2>1, <2>2, DeploymentMoves
<1>5. CASE HealthPasses
    <2>1. /\ deploy.at = "gate" /\ marker[deploy.revision] \in ValidBackups
          /\ UNCHANGED <<backups, marker, source, deployed>>
          /\ \/ deploy' = [deploy EXCEPT !.at = "finish"]
             \/ deploy' = [deploy EXCEPT !.at = "retain", !.plan = SafeToDelete]
        BY <1>5 DEF HealthPasses
    <2>2. SafeToDelete \in SUBSET Nat
        BY <1>d DEF SafeToDelete, ValidBackups
    <2>. DEFINE x == [deploy EXCEPT !.at = "retain"]
                safe == SafeToDelete
    <2>3. x \in Deployment /\ x.at = "retain" /\ x.revision = deploy.revision /\ x.index = deploy.index
        BY <1>d DEF Deployment
    <2>4. CASE deploy' = [x EXCEPT !.plan = safe]
        <3>. HIDE DEF x, safe
        <3>1. safe \in SUBSET Nat
            BY <2>2 DEF safe
        <3>2. /\ deploy' \in Deployment /\ deploy'.at = "retain"
              /\ deploy'.revision = deploy.revision /\ deploy'.index = deploy.index
            BY <2>3, <2>4, <3>1 DEF Deployment
        <3>. QED BY <1>d, <1>t, <2>1, <3>2, DeploymentMoves DEF OwnIsInstalled
    <2>5. CASE deploy' = [deploy EXCEPT !.at = "finish"]
        <3>1. /\ deploy' \in Deployment /\ deploy'.at = "finish"
              /\ deploy'.revision = deploy.revision /\ deploy'.index = deploy.index
            BY <1>d, <2>5 DEF Deployment
        <3>. QED BY <1>d, <1>t, <2>1, <3>1, DeploymentMoves DEF OwnIsInstalled
    <2>. QED BY <2>1, <2>4, <2>5
<1>6. CASE RemoveTree
    <2>. DEFINE i == Newest(deploy.plan)
    <2>1. deploy.at = "retain" /\ UNCHANGED <<marker, source, deployed>>
        BY <1>6 DEF RemoveTree
    <2>2. CASE i \in SafeToDelete
        <3>1. /\ backups' = [backups EXCEPT ![i].state = "partial"]
              /\ deploy' = [deploy EXCEPT !.at = "removed"]
            BY <1>6, <2>2 DEF RemoveTree
        <3>2. i \in ValidBackups /\ backups[i].revision \notin {source, deployed}
            BY <2>2, SafeIsForeign
        <3>3. i \in DOMAIN backups
            BY <3>2 DEF ValidBackups
        <3>. HIDE DEF i
        <3>4. /\ backups' \in Seq(Backup) /\ DOMAIN backups' = DOMAIN backups
              /\ \A j \in DOMAIN backups: backups'[j].revision = backups[j].revision
              /\ \A j \in DOMAIN backups \ {i}: j \in ValidBackups' <=> j \in ValidBackups
              /\ i \notin ValidBackups'
            BY <1>t, <3>1, <3>3, StateChanges
        <3>5. /\ deploy' \in Deployment /\ deploy'.at = "removed"
              /\ deploy'.revision = deploy.revision /\ deploy'.index = deploy.index
              /\ deploy'.plan = deploy.plan
            BY <1>d, <3>1 DEF Deployment
        <3>6. RetentionTypes'
            BY <1>t, <2>1, <3>4, <3>5 DEF RetentionTypes
        <3>7. MarkersFit' /\ OwnBackupFits'
            BY <1>t, <2>1, <3>4, <3>5 DEF MarkersFit, OwnBackupFits
        <3>8. deploy.revision = source /\ deploy.revision \in Revisions
            BY <1>t, <2>1 DEF OwnIsInstalled, OwnBackupFits
        <3>9. OwnIsInstalled' /\ ManifestIsWritten'
            BY <2>1, <3>5, <3>8 DEF OwnIsInstalled, ManifestIsWritten
        <3>10. ASSUME NEW r \in {source, deployed}, r \in Revisions, marker[r] \in ValidBackups,
                      backups[marker[r]].revision = r
               PROVE  marker[r] \in ValidBackups'
            <4>1. marker[r] # i /\ marker[r] \in DOMAIN backups
                BY <3>2, <3>10 DEF ValidBackups
            <4>. QED BY <3>4, <3>10, <4>1
        <3>11. OwnIsKept'
            <4>1. marker[source] \in ValidBackups /\ marker[source] \notin {0, EmptyMarker}
                BY <1>d, <1>t, <2>1, <3>8 DEF OwnIsKept, ValidBackups, EmptyMarker
            <4>2. backups[marker[source]].revision = source
                BY <1>t, <3>8, <4>1 DEF MarkersFit
            <4>3. marker[source] \in ValidBackups'
                BY <3>8, <3>10, <4>1, <4>2
            <4>. QED BY <2>1, <3>5, <3>8, <4>3 DEF OwnIsKept
        <3>12. RemovedIsInvalid'
            <4>1. Newest(deploy'.plan) = i
                BY <3>5 DEF i
            <4>2. Newest(deploy.plan)' = Newest(deploy'.plan)
                BY DEF Newest
            <4>. QED BY <3>3, <3>4, <4>1, <4>2 DEF RemovedIsInvalid
        <3>13. DeployedCanBeRestored'
            <4>1. SUFFICES ASSUME deployed # NoRevision
                           PROVE  DeployedCanBeRestored'
                BY <2>1 DEF DeployedCanBeRestored
            <4>2. PICK k \in ValidBackups: backups[k].revision = deployed
                BY <1>t, <4>1 DEF DeployedCanBeRestored
            <4>3. k \in DOMAIN backups /\ k # i
                BY <3>2, <4>2 DEF ValidBackups
            <4>4. k \in ValidBackups' /\ backups'[k].revision = deployed
                BY <3>4, <4>2, <4>3
            <4>5. ASSUME marker[deployed] # EmptyMarker
                  PROVE  /\ marker[deployed] \in ValidBackups'
                         /\ backups'[marker[deployed]].revision = deployed
                <5>1. /\ deployed \in Revisions /\ marker[deployed] \in ValidBackups
                      /\ backups[marker[deployed]].revision = deployed
                    BY <1>d, <1>t, <4>1, <4>5 DEF DeployedCanBeRestored
                <5>2. marker[deployed] \in DOMAIN backups
                    BY <5>1 DEF ValidBackups
                <5>. QED BY <3>4, <3>10, <5>1, <5>2
            <4>. QED BY <2>1, <4>4, <4>5 DEF DeployedCanBeRestored
        <3>. QED BY <3>6, <3>7, <3>9, <3>11, <3>12, <3>13 DEF RetentionInv
    <2>3. CASE i \notin SafeToDelete
        <3>. DEFINE plan == deploy.plan \ {i}
        <3>1. UNCHANGED backups /\ deploy' = [deploy EXCEPT !.plan = plan]
            BY <1>6, <2>3 DEF RemoveTree
        <3>2. plan \in SUBSET Nat
            BY <1>d DEF Deployment
        <3>. HIDE DEF plan
        <3>3. /\ deploy' \in Deployment /\ deploy'.at = "retain"
              /\ deploy'.revision = deploy.revision /\ deploy'.index = deploy.index
            BY <1>d, <2>1, <3>1, <3>2 DEF Deployment
        <3>. QED BY <1>d, <1>t, <2>1, <3>1, <3>3, DeploymentMoves DEF OwnIsInstalled, OwnIsKept
    <2>. QED BY <2>2, <2>3
<1>7. CASE RemoveMarker
    <2>. DEFINE i == Newest(deploy.plan)
                r == backups[i].revision
                plan == deploy.plan \ {i}
    <2>1. /\ deploy.at = "removed" /\ UNCHANGED <<source, deployed>>
          /\ marker' = IF marker[r] = i THEN [marker EXCEPT ![r] = 0] ELSE marker
          /\ backups' = [backups EXCEPT ![i].state = "gone"]
          /\ deploy' = [deploy EXCEPT !.at = "retain", !.plan = plan]
        BY <1>7 DEF RemoveMarker
    <2>2. i \in DOMAIN backups /\ i \notin ValidBackups /\ plan \in SUBSET Nat
        BY <1>d, <1>t, <2>1 DEF RemovedIsInvalid, Deployment
    <2>. HIDE DEF i, plan
    <2>3. r \in Revisions
        <3>1. backups[i] \in Backup
            BY <1>d, <2>2
        <3>. QED BY <3>1 DEF Backup
    <2>4. /\ backups' \in Seq(Backup) /\ DOMAIN backups' = DOMAIN backups
          /\ \A j \in DOMAIN backups: backups'[j].revision = backups[j].revision
          /\ \A j \in DOMAIN backups \ {i}: j \in ValidBackups' <=> j \in ValidBackups
        BY <1>t, <2>1, <2>2, StateChanges
    <2>. HIDE DEF r
    <2>5. /\ marker' \in [Revisions -> Int]
          /\ \A v \in Revisions: marker'[v] \in {0, marker[v]}
          /\ \A v \in Revisions: marker[v] # i => marker'[v] = marker[v]
        BY <1>d, <2>1, <2>3
    <2>6. \A v \in Revisions: marker[v] \in ValidBackups =>
                marker'[v] = marker[v] /\ marker[v] \in ValidBackups'
        BY <2>2, <2>4, <2>5 DEF ValidBackups
    <2>7. /\ deploy' \in Deployment /\ deploy'.at = "retain"
          /\ deploy'.revision = deploy.revision /\ deploy'.index = deploy.index
        <3>. DEFINE x == [deploy EXCEPT !.at = "retain"]
        <3>1. x \in Deployment /\ x.at = "retain" /\ x.revision = deploy.revision
              /\ x.index = deploy.index
            BY <1>d DEF Deployment
        <3>2. deploy' = [x EXCEPT !.plan = plan]
            BY <2>1
        <3>. HIDE DEF x
        <3>. QED BY <2>2, <3>1, <3>2 DEF Deployment
    <2>8. RetentionTypes'
        BY <1>t, <2>1, <2>4, <2>5, <2>7 DEF RetentionTypes
    <2>9. MarkersFit'
        BY <1>t, <2>4, <2>5 DEF MarkersFit
    <2>10. OwnBackupFits' /\ ManifestIsWritten' /\ OwnIsInstalled' /\ RemovedIsInvalid'
        BY <1>t, <2>1, <2>4, <2>7
           DEF OwnBackupFits, ManifestIsWritten, OwnIsInstalled, RemovedIsInvalid
    <2>11. OwnIsKept'
        BY <1>t, <2>1, <2>6, <2>7 DEF OwnIsKept, OwnBackupFits
    <2>12. DeployedCanBeRestored'
        <3>1. SUFFICES ASSUME deployed # NoRevision
                       PROVE  DeployedCanBeRestored'
            BY <2>1 DEF DeployedCanBeRestored
        <3>2. deployed \in Revisions
            BY <1>d, <3>1
        <3>3. PICK k \in ValidBackups: backups[k].revision = deployed
            BY <1>t, <3>1 DEF DeployedCanBeRestored
        <3>4. k \in DOMAIN backups /\ k # i
            BY <2>2, <3>3 DEF ValidBackups
        <3>5. k \in ValidBackups' /\ backups'[k].revision = deployed
            BY <2>4, <3>3, <3>4
        <3>6. ASSUME marker'[deployed] # EmptyMarker
              PROVE  /\ marker'[deployed] \in ValidBackups'
                     /\ backups'[marker'[deployed]].revision = deployed
            <4>1. CASE marker[deployed] = EmptyMarker
                <5>1. i \in Nat
                    BY <1>d, <2>2
                <5>2. marker[deployed] # i
                    BY <4>1, <5>1 DEF EmptyMarker
                <5>. QED BY <2>5, <3>2, <3>6, <4>1, <5>2
            <4>2. CASE marker[deployed] # EmptyMarker
                <5>1. /\ marker[deployed] \in ValidBackups
                      /\ backups[marker[deployed]].revision = deployed
                    BY <1>t, <3>1, <4>2 DEF DeployedCanBeRestored
                <5>2. marker[deployed] \in DOMAIN backups
                    BY <5>1 DEF ValidBackups
                <5>. QED BY <2>4, <2>6, <3>2, <5>1, <5>2
            <4>. QED BY <4>1, <4>2
        <3>. QED BY <2>1, <3>5, <3>6 DEF DeployedCanBeRestored
    <2>. QED BY <2>8, <2>9, <2>10, <2>11, <2>12 DEF RetentionInv
<1>8. CASE RetentionDone
    <2>1. /\ deploy.at = "retain" /\ deploy' = [deploy EXCEPT !.at = "finish"]
          /\ UNCHANGED <<backups, marker, source, deployed>>
        BY <1>8 DEF RetentionDone
    <2>2. /\ deploy' \in Deployment /\ deploy'.at = "finish"
          /\ deploy'.revision = deploy.revision /\ deploy'.index = deploy.index
        BY <1>d, <2>1 DEF Deployment
    <2>. QED BY <1>d, <1>t, <2>1, <2>2, DeploymentMoves DEF OwnIsInstalled, OwnIsKept
<1>9. CASE WriteSuccessMarker \/ DeployFails
    BY <1>9, DeploymentEnds DEF WriteSuccessMarker, DeployFails
<1>10. CASE TruncateMarker
    <2>1. /\ deploy.index \in ValidBackups /\ deploy.index \in DOMAIN backups
          /\ deploy.revision \in Revisions
          /\ backups[deploy.index].revision = deploy.revision
          /\ marker' = [marker EXCEPT ![deploy.revision] = EmptyMarker]
          /\ deploy' = [deploy EXCEPT !.at = "write"]
          /\ UNCHANGED <<backups, source, deployed>>
        BY <1>10, <1>t DEF TruncateMarker, OwnBackupFits, ManifestIsWritten
    <2>2. deploy' \in Deployment /\ deploy'.at = "write" /\ deploy'.revision = deploy.revision
          /\ deploy'.index = deploy.index
        BY <1>d, <2>1 DEF Deployment
    <2>3. ValidBackups' = ValidBackups
        BY <2>1 DEF ValidBackups
    <2>4. \A r \in Revisions: marker'[r] = IF r = deploy.revision THEN EmptyMarker ELSE marker[r]
        BY <1>d, <2>1
    <2>a. marker' \in [Revisions -> Int]
        BY <1>d, <2>1 DEF Deployment, EmptyMarker
    <2>5. RetentionTypes'
        BY <1>t, <2>1, <2>2, <2>a DEF RetentionTypes
    <2>6. MarkersFit' /\ OwnBackupFits'
        BY <1>t, <2>1, <2>2, <2>4 DEF MarkersFit, OwnBackupFits
    <2>7. ManifestIsWritten' /\ OwnIsInstalled' /\ OwnIsKept' /\ RemovedIsInvalid'
        BY <2>1, <2>2, <2>3 DEF ManifestIsWritten, OwnIsInstalled, OwnIsKept, RemovedIsInvalid
    <2>8. DeployedCanBeRestored'
        BY <1>d, <1>t, <2>1, <2>3, <2>4 DEF DeployedCanBeRestored
    <2>. QED BY <2>5, <2>6, <2>7, <2>8 DEF RetentionInv
<1>11. CASE UNCHANGED retentionVars
    BY <1>11, <1>t DEF retentionVars, RetentionInv, RetentionTypes, MarkersFit, OwnBackupFits,
                       ManifestIsWritten, OwnIsInstalled, OwnIsKept, RemovedIsInvalid,
                       DeployedCanBeRestored, ValidBackups
<1>. QED BY <1>1, <1>2, <1>3, <1>4, <1>5, <1>6, <1>7, <1>8, <1>9, <1>10, <1>11 DEF RetentionNext

\* The backup of the revision last deployed is there, valid, and found through its marker,
\* for any number of revisions, backups and deployments that failed anywhere
\* (plan_validated_backups, deploy.yml).
THEOREM DeployedStaysRestorable == RetentionSpec => []DeployedCanBeRestored
<1>1. RetentionInv => DeployedCanBeRestored
    BY DEF RetentionInv
<1>. QED BY <1>1, RetentionInit_Inv, RetentionStep_Inv, PTL DEF RetentionSpec
-----------------------------------------------------------------------------
(* The telemetry's files                                                   *)
(*                                                                         *)
(* A record of a signal exists in a queue, in the worker's hand, in the    *)
(* index and as a row, with the same contents everywhere: it is submitted  *)
(* once in the life of its capture, and the worker only passes it on.      *)

Items == [stream: StreamSet, signal: Signals, content: Contents]
Files == [StreamSet -> [Signals -> Contents \cup {NoDecision}]]
Captures == [pc: {"none", "open", "finished", "past"}, decision: Decisions \cup {NoDecision},
             bought: BOOLEAN, sold: BOOLEAN]

RecorderTypes ==
    /\ capture \in [Signals -> Captures]
    /\ queues \in [StreamSet -> Seq(Items)]
    /\ worker \in [turn: 1..3, item: Items \cup {NoItem}, reserved: BOOLEAN]
    /\ index \in Files /\ rows \in Files

\* Where the record of a signal in a stream may be.
Queued(n, s, c) == \E j \in 1..Len(queues[n]): queues[n][j] = Item(n, s, c)
InHand(n, s, c) == worker.item = Item(n, s, c)
OnFile(n, s, c) == c # NoDecision /\ (index[n][s] = c \/ rows[n][s] = c)
Held(n, s, c)   == Queued(n, s, c) \/ InHand(n, s, c) \/ OnFile(n, s, c)

\* What has been submitted of a signal, and with which contents.
Settled(s) == capture[s].pc \in {"finished", "past"}
MayHold(n, s, c) ==
    CASE n = "predictors" -> Settled(s) /\ c = capture[s].decision
      [] n = "receipts"   -> Settled(s) /\ capture[s].bought /\ c = "BUY"
      [] n = "outcomes"   -> capture[s].sold

OwnQueue    == \A n \in StreamSet: \A j \in 1..Len(queues[n]): queues[n][j].stream = n
HeldIsMeant == \A n \in StreamSet, s \in Signals, c \in Contents: Held(n, s, c) => MayHold(n, s, c)
HeldIsOne   == \A n \in StreamSet, s \in Signals, c \in Contents, d \in Contents:
                  Held(n, s, c) /\ Held(n, s, d) => c = d
SealedFirst == \A n \in StreamSet, s \in Signals: rows[n][s] # NoDecision => index[n][s] # NoDecision
HandIsReserved ==
    worker.reserved => /\ worker.item # NoItem
                       /\ index[worker.item.stream][worker.item.signal] = worker.item.content
BuysAreBuys ==
    \A s \in Signals: /\ capture[s].bought => capture[s].decision = "BUY"
                      /\ capture[s].sold => capture[s].bought /\ Settled(s)

\* Where the decision on a signal of this process may be.
Accounted(s) ==
    \/ rows["predictors"][s] # NoDecision
    \/ \E i \in counted: i.stream = "predictors" /\ i.signal = s
    \/ \E c \in Contents: Queued("predictors", s, c) \/ InHand("predictors", s, c)
NoneIsLost == ending # "gone" => \A s \in Signals: capture[s].pc = "finished" => Accounted(s)
QuietEnd   == ending = "acknowledged" => ~Unfinished /\ \A s \in Signals: capture[s].pc # "open"

RecordsInv ==
    /\ RecorderTypes /\ OwnQueue /\ HeldIsMeant /\ HeldIsOne /\ SealedFirst /\ HandIsReserved
    /\ BuysAreBuys
RecorderInv == RecordsInv /\ NoneIsLost /\ QuietEnd

LEMMA StreamsAre == StreamSet = {"predictors", "receipts", "outcomes"}
BY DEF StreamSet, Streams

LEMMA ContentsAre == NoDecision \notin Contents /\ "BUY" \in Contents /\ "OTHER" \in Contents
BY RecorderAssumption DEF Contents, Decisions

\* An item is what it is made of.
LEMMA ItemsAre ==
    /\ \A n \in StreamSet, s \in Signals, c \in Contents:
          /\ Item(n, s, c) \in Items /\ Item(n, s, c) # NoItem
          /\ Item(n, s, c).stream = n /\ Item(n, s, c).signal = s /\ Item(n, s, c).content = c
    /\ \A i \in Items: /\ i = Item(i.stream, i.signal, i.content) /\ i # NoItem
                       /\ i.stream \in StreamSet /\ i.signal \in Signals /\ i.content \in Contents
<1>1. ASSUME NEW n \in StreamSet, NEW s \in Signals, NEW c \in Contents
      PROVE  /\ Item(n, s, c) \in Items
             /\ Item(n, s, c).stream = n /\ Item(n, s, c).signal = s /\ Item(n, s, c).content = c
    BY DEF Item, Items
<1>2. ASSUME NEW i \in Items
      PROVE  /\ i = Item(i.stream, i.signal, i.content)
             /\ i.stream \in StreamSet /\ i.signal \in Signals /\ i.content \in Contents
    BY DEF Item, Items
<1>3. ASSUME NEW i \in Items PROVE i # NoItem
    BY ItemAssumption DEF Items
<1>. QED BY <1>1, <1>2, <1>3

\* put_nowait: what is new in a queue was submitted, nothing else is gone, and what was
\* submitted is queued or counted.
LEMMA SubmitQueues ==
    ASSUME RecorderTypes, OwnQueue, NEW items \in SUBSET Items, Submit(items),
           \A i \in items, j \in items: i.stream = j.stream => i = j
    PROVE  /\ queues' \in [StreamSet -> Seq(Items)] /\ OwnQueue' /\ counted \subseteq counted'
           /\ \A n \in StreamSet, s \in Signals, c \in Contents:
                /\ Queued(n, s, c)' => Queued(n, s, c) \/ Item(n, s, c) \in items
                /\ Queued(n, s, c) => Queued(n, s, c)'
           /\ \A i \in items: i \in counted' \/ Queued(i.stream, i.signal, i.content)'
<1>. DEFINE fits(n) == Len(queues[n]) < QueueLimit
            sent(n) == {i \in items : i.stream = n /\ fits(n)}
<1>1. /\ queues' = [n \in StreamSet |->
                       IF sent(n) = {} THEN queues[n]
                       ELSE Append(queues[n], CHOOSE i \in sent(n) : TRUE)]
      /\ counted' = counted \cup {i \in items : ~fits(i.stream)}
    BY DEF Submit
<1>2. ASSUME NEW n \in StreamSet
      PROVE  \/ queues'[n] = queues[n] /\ sent(n) = {}
             \/ \E i \in sent(n): queues'[n] = Append(queues[n], i)
    BY <1>1
<1>3. ASSUME NEW n \in StreamSet, NEW i \in sent(n)
      PROVE  i \in items /\ i.stream = n
    OBVIOUS
<1>4. ASSUME NEW n \in StreamSet
      PROVE  queues[n] \in Seq(Items) /\ \A j \in 1..Len(queues[n]): queues[n][j].stream = n
    BY DEF RecorderTypes, OwnQueue
<1>5. ASSUME NEW n \in StreamSet, NEW i \in items, i.stream = n, queues'[n] = Append(queues[n], i)
      PROVE  /\ queues'[n] \in Seq(Items) /\ Len(queues'[n]) = Len(queues[n]) + 1
             /\ \A j \in 1..Len(queues[n]): queues'[n][j] = queues[n][j]
             /\ queues'[n][Len(queues[n]) + 1] = i
    BY <1>4, <1>5
<1>6. ASSUME NEW i \in items PROVE i \in counted' \/ i \in sent(i.stream)
    BY <1>1
<1>. HIDE DEF sent
<1>7. ASSUME NEW n \in StreamSet
      PROVE  /\ queues'[n] \in Seq(Items) /\ \A j \in 1..Len(queues'[n]): queues'[n][j].stream = n
             /\ \A s \in Signals, c \in Contents:
                  /\ Queued(n, s, c)' => Queued(n, s, c) \/ Item(n, s, c) \in items
                  /\ Queued(n, s, c) => Queued(n, s, c)'
             /\ \A i \in sent(n): \E j \in 1..Len(queues'[n]): queues'[n][j] = i
    <2>1. CASE queues'[n] = queues[n] /\ sent(n) = {}
        BY <1>4, <2>1 DEF Queued
    <2>2. ASSUME NEW i \in sent(n), queues'[n] = Append(queues[n], i)
          PROVE  /\ queues'[n] \in Seq(Items)
                 /\ \A j \in 1..Len(queues'[n]): queues'[n][j].stream = n
                 /\ \A s \in Signals, c \in Contents:
                      /\ Queued(n, s, c)' => Queued(n, s, c) \/ Item(n, s, c) \in items
                      /\ Queued(n, s, c) => Queued(n, s, c)'
                 /\ \A k \in sent(n): \E j \in 1..Len(queues'[n]): queues'[n][j] = k
        <3>. DEFINE m == Len(queues[n])
        <3>1. i \in items /\ i.stream = n
            BY <1>3
        <3>2. /\ queues'[n] \in Seq(Items) /\ Len(queues'[n]) = m + 1 /\ m \in Nat
              /\ \A j \in 1..m: queues'[n][j] = queues[n][j]
              /\ queues'[n][m + 1] = i
            BY <1>4, <1>5, <2>2, <3>1
        <3>3. \A j \in 1..m: queues[n][j].stream = n
            BY <1>4
        <3>. HIDE DEF m
        <3>4. \A j \in 1..(m + 1): j \in 1..m \/ j = m + 1
            BY <3>2
        <3>5. \A j \in 1..Len(queues'[n]): queues'[n][j].stream = n
            BY <3>1, <3>2, <3>3, <3>4
        <3>6. ASSUME NEW s \in Signals, NEW c \in Contents
              PROVE  /\ Queued(n, s, c)' => Queued(n, s, c) \/ Item(n, s, c) \in items
                     /\ Queued(n, s, c) => Queued(n, s, c)'
            <4>1. Queued(n, s, c) <=> \E j \in 1..m: queues[n][j] = Item(n, s, c)
                BY DEF Queued, m
            <4>2. Queued(n, s, c)' <=> \E j \in 1..(m + 1): queues'[n][j] = Item(n, s, c)
                BY <3>2 DEF Queued, Item
            <4>3. 1..m \subseteq 1..(m + 1)
                BY <3>2
            <4>. QED BY <3>1, <3>2, <3>4, <4>1, <4>2, <4>3
        <3>7. ASSUME NEW k \in sent(n) PROVE k = i
            BY <1>3, <3>1
        <3>8. m + 1 \in 1..Len(queues'[n])
            BY <3>2
        <3>. QED BY <3>2, <3>5, <3>6, <3>7, <3>8
    <2>. QED BY <1>2, <2>1, <2>2
<1>8. \A i \in items: i \in counted' \/ Queued(i.stream, i.signal, i.content)'
    <2>1. SUFFICES ASSUME NEW i \in items, i \notin counted'
                   PROVE  Queued(i.stream, i.signal, i.content)'
        OBVIOUS
    <2>2. i.stream \in StreamSet /\ i = Item(i.stream, i.signal, i.content) /\ i \in sent(i.stream)
        BY <1>6, <2>1, ItemsAre
    <2>3. \E j \in 1..Len(queues'[i.stream]): queues'[i.stream][j] = i
        BY <1>7, <2>2
    <2>. QED BY <2>2, <2>3 DEF Queued, Item
<1>9. queues' \in [StreamSet -> Seq(Items)]
    BY <1>1, <1>7
<1>. QED BY <1>1, <1>7, <1>8, <1>9 DEF OwnQueue
\* A step that submits the given items, none of them for the second time, and forgets no
\* submission.
OnlyAdds(items) ==
    \A n \in StreamSet, s \in Signals, c \in Contents:
       /\ Held(n, s, c)' => Held(n, s, c) \/ Item(n, s, c) \in items
       /\ MayHold(n, s, c) => MayHold(n, s, c)'
       /\ Item(n, s, c) \in items =>
            /\ MayHold(n, s, c)' /\ \A d \in Contents: ~Held(n, s, d)
            /\ \A d \in Contents: Item(n, s, d) \in items => c = d

\* Such a step leaves every record where it may be, and as it is.
LEMMA RecordsStay ==
    ASSUME HeldIsMeant, HeldIsOne, NEW items, OnlyAdds(items)
    PROVE  HeldIsMeant' /\ HeldIsOne'
<1>. USE DEF OnlyAdds
<1>1. ASSUME NEW n \in StreamSet, NEW s \in Signals, NEW c \in Contents, Held(n, s, c)'
      PROVE  MayHold(n, s, c)'
    BY <1>1, Zenon DEF HeldIsMeant
<1>2. ASSUME NEW n \in StreamSet, NEW s \in Signals, NEW c \in Contents, NEW d \in Contents,
             Held(n, s, c)', Held(n, s, d)'
      PROVE  c = d
    <2>1. CASE Held(n, s, c) /\ Held(n, s, d)
        BY <2>1, Zenon DEF HeldIsOne
    <2>2. CASE Item(n, s, c) \in items /\ Item(n, s, d) \in items
        BY <2>2, Zenon
    <2>3. ~(Item(n, s, c) \in items /\ Held(n, s, d)) /\ ~(Item(n, s, d) \in items /\ Held(n, s, c))
        BY Zenon
    <2>. QED BY <1>2, <2>1, <2>2, <2>3, Zenon
<1>. QED BY <1>1, <1>2, Zenon DEF HeldIsMeant, HeldIsOne

\* A step of the trading thread that touches one capture.
LEMMA CaptureTypes ==
    ASSUME NEW s \in Signals, capture \in [Signals -> Captures]
    PROVE  /\ [capture EXCEPT ![s].pc = "open"] \in [Signals -> Captures]
           /\ [capture EXCEPT ![s].sold = TRUE] \in [Signals -> Captures]
           /\ \A d \in Decisions \cup {NoDecision}:
                /\ [capture EXCEPT ![s].decision = d] \in [Signals -> Captures]
                /\ [capture EXCEPT ![s].decision = d, ![s].bought = TRUE] \in [Signals -> Captures]
                /\ [capture EXCEPT ![s].pc = "finished", ![s].decision = d]
                     \in [Signals -> Captures]
<1>1. capture[s] \in Captures
    OBVIOUS
<1>2. /\ [capture[s] EXCEPT !.pc = "open"] \in Captures
      /\ [capture[s] EXCEPT !.sold = TRUE] \in Captures
    BY <1>1 DEF Captures
<1>3. ASSUME NEW d \in Decisions \cup {NoDecision}
      PROVE  /\ [capture EXCEPT ![s].decision = d] \in [Signals -> Captures]
             /\ [capture EXCEPT ![s].decision = d, ![s].bought = TRUE] \in [Signals -> Captures]
             /\ [capture EXCEPT ![s].pc = "finished", ![s].decision = d] \in [Signals -> Captures]
    <2>1. /\ [capture[s] EXCEPT !.decision = d] \in Captures
          /\ [capture[s] EXCEPT !.decision = d, !.bought = TRUE] \in Captures
          /\ [capture[s] EXCEPT !.pc = "finished", !.decision = d] \in Captures
        BY <1>1 DEF Captures
    <2>2. [capture EXCEPT ![s].decision = d, ![s].bought = TRUE]
             = [capture EXCEPT ![s] = [capture[s] EXCEPT !.decision = d, !.bought = TRUE]]
        OBVIOUS
    <2>3. [capture EXCEPT ![s].pc = "finished", ![s].decision = d]
             = [capture EXCEPT ![s] = [capture[s] EXCEPT !.pc = "finished", !.decision = d]]
        OBVIOUS
    <2>. HIDE DEF Captures
    <2>. QED BY <2>1, <2>2, <2>3
<1>. HIDE DEF Captures
<1>4. /\ [capture EXCEPT ![s].pc = "open"] \in [Signals -> Captures]
      /\ [capture EXCEPT ![s].sold = TRUE] \in [Signals -> Captures]
    BY <1>2
<1>. QED BY <1>3, <1>4, Zenon

LEMMA RecorderInit_Records == RecorderInit => RecordsInv
<1>. SUFFICES ASSUME RecorderInit PROVE RecordsInv
    OBVIOUS
<1>. USE DEF RecorderInit
<1>1. RecorderTypes
    <2>1. capture \in [Signals -> Captures]
        BY DEF NewCapture, Captures
    <2>2. worker \in [turn: 1..3, item: Items \cup {NoItem}, reserved: BOOLEAN]
        BY DEF WorkerIdle
    <2>3. index \in Files /\ rows \in Files /\ queues \in [StreamSet -> Seq(Items)]
        BY DEF NoFiles, Files
    <2>. QED BY <2>1, <2>2, <2>3 DEF RecorderTypes
<1>2. \A n \in StreamSet, s \in Signals, c \in Contents: ~Held(n, s, c)
    <2>1. \A n \in StreamSet: Len(queues[n]) = 0
        OBVIOUS
    <2>2. \A n \in StreamSet, s \in Signals, c \in Contents: ~Queued(n, s, c)
        BY <2>1 DEF Queued
    <2>3. \A n \in StreamSet, s \in Signals, c \in Contents: ~InHand(n, s, c)
        BY ItemsAre DEF InHand, WorkerIdle
    <2>4. \A n \in StreamSet, s \in Signals, c \in Contents: ~OnFile(n, s, c)
        BY DEF OnFile, NoFiles
    <2>. QED BY <2>2, <2>3, <2>4, Zenon DEF Held
<1>3. OwnQueue /\ SealedFirst /\ HandIsReserved /\ BuysAreBuys
    BY DEF OwnQueue, SealedFirst, HandIsReserved, BuysAreBuys, NewCapture, NoFiles, WorkerIdle
<1>. QED BY <1>1, <1>2, <1>3 DEF RecordsInv, HeldIsMeant, HeldIsOne
\* What is held depends on the queues, the worker and the files alone.
LEMMA HeldUnchanged ==
    ASSUME UNCHANGED <<queues, worker, index, rows>>
    PROVE  \A n \in StreamSet, s \in Signals, c \in Contents: Held(n, s, c)' <=> Held(n, s, c)
BY DEF Held, Queued, InHand, OnFile, Item

\* Steps of the trading thread that submit nothing.
LEMMA Quiet_Records ==
    ASSUME RecordsInv, UNCHANGED <<queues, worker, index, rows>>,
           capture' \in [Signals -> Captures], BuysAreBuys',
           \A n \in StreamSet, s \in Signals, c \in Contents: MayHold(n, s, c) => MayHold(n, s, c)'
    PROVE  RecordsInv'
<1>1. HeldIsMeant' /\ HeldIsOne'
    <2>1. OnlyAdds({})
        BY HeldUnchanged DEF OnlyAdds
    <2>3. HeldIsMeant /\ HeldIsOne
        BY DEF RecordsInv
    <2>. QED BY <2>1, <2>3, RecordsStay, Zenon
<1>2. RecorderTypes' /\ OwnQueue' /\ SealedFirst' /\ HandIsReserved'
    BY DEF RecordsInv, RecorderTypes, OwnQueue, SealedFirst, HandIsReserved
<1>. QED BY <1>1, <1>2 DEF RecordsInv

\* Of a capture that is not finished nothing has been submitted.
LEMMA MayHoldKept ==
    ASSUME NEW s \in Signals, ~Settled(s), capture[s].sold = FALSE,
           \A t \in Signals: t # s => capture'[t] = capture[t]
    PROVE  \A n \in StreamSet, t \in Signals, c \in Contents:
              MayHold(n, t, c) => t # s /\ MayHold(n, t, c)'
<1>1. ASSUME NEW n \in StreamSet, NEW c \in Contents PROVE ~MayHold(n, s, c)
    BY StreamsAre DEF MayHold
<1>2. ASSUME NEW n \in StreamSet, NEW c \in Contents, NEW t \in Signals, t # s
      PROVE  MayHold(n, t, c)' <=> MayHold(n, t, c)
    BY <1>2 DEF MayHold, Settled
<1>. QED BY <1>1, <1>2, Zenon

LEMMA Trading_Records ==
    ASSUME RecordsInv, NEW s \in Signals
    PROVE  /\ BeginSignal(s) => RecordsInv'
           /\ \A why \in Rejections: Reject(s, why) => RecordsInv'
           /\ Buy(s) => RecordsInv'
<1>. USE DEF RecordsInv, RecorderTypes
<1>1. capture[s] \in Captures /\ capture \in [Signals -> Captures]
    OBVIOUS
<1>2. ASSUME capture[s].pc \in {"none", "open"}
      PROVE  capture[s].sold = FALSE /\ ~Settled(s)
    BY <1>1, <1>2 DEF BuysAreBuys, Settled, Captures
<1>3. ASSUME BeginSignal(s) PROVE RecordsInv'
    <2>1. capture' \in [Signals -> Captures]
        <3>1. capture' = [capture EXCEPT ![s].pc = "open"]
            BY <1>3 DEF BeginSignal
        <3>. QED BY <1>1, <3>1, CaptureTypes, Zenon
    <2>2. BuysAreBuys'
        BY <1>1, <1>2, <1>3 DEF BeginSignal, BuysAreBuys, Settled, Captures
    <2>3. \A n \in StreamSet, t \in Signals, c \in Contents: MayHold(n, t, c) => MayHold(n, t, c)'
        BY <1>1, <1>2, <1>3, MayHoldKept DEF BeginSignal
    <2>. QED BY <1>3, <2>1, <2>2, <2>3, Quiet_Records DEF BeginSignal
<1>4. ASSUME NEW why \in Rejections, Reject(s, why) PROVE RecordsInv'
    <2>1. capture' \in [Signals -> Captures]
        <3>1. capture' = [capture EXCEPT ![s].decision = why] /\ why \in Decisions \cup {NoDecision}
            BY <1>4 DEF Reject, Decisions
        <3>. QED BY <1>1, <3>1, CaptureTypes, Zenon
    <2>2. BuysAreBuys'
        BY <1>1, <1>2, <1>4 DEF Reject, MayReject, Open, BuysAreBuys, Settled, Captures
    <2>3. \A n \in StreamSet, t \in Signals, c \in Contents: MayHold(n, t, c) => MayHold(n, t, c)'
        BY <1>1, <1>2, <1>4, MayHoldKept DEF Reject, MayReject, Open
    <2>. QED BY <1>4, <2>1, <2>2, <2>3, Quiet_Records DEF Reject
<1>5. ASSUME Buy(s) PROVE RecordsInv'
    <2>1. capture' \in [Signals -> Captures]
        <3>1. capture' = [capture EXCEPT ![s].decision = "BUY", ![s].bought = TRUE] /\ "BUY" \in Decisions \cup {NoDecision}
            BY <1>5 DEF Buy, Decisions
        <3>. QED BY <1>1, <3>1, CaptureTypes, Zenon
    <2>2. BuysAreBuys'
        BY <1>1, <1>2, <1>5 DEF Buy, Open, BuysAreBuys, Settled, Captures
    <2>3. \A n \in StreamSet, t \in Signals, c \in Contents: MayHold(n, t, c) => MayHold(n, t, c)'
        BY <1>1, <1>2, <1>5, MayHoldKept DEF Buy, Open
    <2>. QED BY <1>5, <2>1, <2>2, <2>3, Quiet_Records DEF Buy
<1>. QED BY <1>3, <1>4, <1>5

LEMMA StartWorker_Records ==
    ASSUME RecordsInv, StartWorker
    PROVE  RecordsInv'
<1>. USE DEF RecordsInv, RecorderTypes
<1>1. \A s \in Signals: capture[s] \in Captures
    OBVIOUS
<1>2. ASSUME NEW s \in Signals
      PROVE  /\ capture'[s] \in Captures /\ (Settled(s) => Settled(s)')
             /\ capture'[s].decision = capture[s].decision /\ capture'[s].bought = capture[s].bought
             /\ capture'[s].sold = capture[s].sold
    BY <1>1 DEF StartWorker, Captures, Settled
<1>3. capture' \in [Signals -> Captures]
    BY <1>2 DEF StartWorker
<1>4. BuysAreBuys'
    BY <1>2 DEF BuysAreBuys
<1>5. \A n \in StreamSet, t \in Signals, c \in Contents: MayHold(n, t, c) => MayHold(n, t, c)'
    BY <1>2, StreamsAre DEF MayHold
<1>. QED BY <1>3, <1>4, <1>5, Quiet_Records DEF StartWorker
\* Steps of the trading thread that submit.
LEMMA Submit_Records ==
    ASSUME RecordsInv, NEW items \in SUBSET Items, Submit(items),
           UNCHANGED <<worker, index, rows>>, capture' \in [Signals -> Captures], BuysAreBuys',
           \A i \in items, j \in items: i.stream = j.stream => i = j,
           \A n \in StreamSet, s \in Signals, c \in Contents:
              /\ MayHold(n, s, c) => MayHold(n, s, c)'
              /\ Item(n, s, c) \in items => MayHold(n, s, c)' /\ \A d \in Contents: ~MayHold(n, s, d)
    PROVE  RecordsInv'
<1>1. RecorderTypes /\ OwnQueue /\ HeldIsMeant /\ HeldIsOne
    BY DEF RecordsInv
<1>2. /\ queues' \in [StreamSet -> Seq(Items)] /\ OwnQueue'
      /\ \A n \in StreamSet, s \in Signals, c \in Contents:
            Queued(n, s, c)' => Queued(n, s, c) \/ Item(n, s, c) \in items
    BY <1>1, SubmitQueues
<1>3. ASSUME NEW n \in StreamSet, NEW s \in Signals, NEW c \in Contents, Held(n, s, c)'
      PROVE  Held(n, s, c) \/ Item(n, s, c) \in items
    BY <1>2, <1>3 DEF Held, InHand, OnFile, Item
<1>4. ASSUME NEW n \in StreamSet, NEW s \in Signals, NEW c \in Contents, Item(n, s, c) \in items
      PROVE  /\ MayHold(n, s, c)' /\ \A d \in Contents: ~Held(n, s, d)
             /\ \A d \in Contents: Item(n, s, d) \in items => c = d
    <2>1. MayHold(n, s, c)' /\ \A d \in Contents: ~Held(n, s, d)
        BY <1>1, <1>4, Zenon DEF HeldIsMeant
    <2>2. ASSUME NEW d \in Contents, Item(n, s, d) \in items PROVE c = d
        <3>1. Item(n, s, c).stream = n /\ Item(n, s, d).stream = n
            BY ItemsAre
        <3>2. Item(n, s, c) = Item(n, s, d)
            BY <1>4, <2>2, <3>1
        <3>3. Item(n, s, c).content = c /\ Item(n, s, d).content = d
            BY ItemsAre
        <3>. QED BY <3>2, <3>3
    <2>. QED BY <2>1, <2>2
<1>5. OnlyAdds(items)
    BY <1>3, <1>4, Zenon DEF OnlyAdds
<1>6. HeldIsMeant' /\ HeldIsOne'
    BY <1>1, <1>5, RecordsStay, Zenon
<1>7. RecorderTypes' /\ SealedFirst' /\ HandIsReserved'
    BY <1>2 DEF RecordsInv, RecorderTypes, SealedFirst, HandIsReserved
<1>. QED BY <1>2, <1>6, <1>7 DEF RecordsInv

\* What a decided signal submits.
Decided(s) ==
    {Item("predictors", s, FinalDecision(capture[s].decision))} \cup
      IF capture[s].bought THEN {Item("receipts", s, "BUY")} ELSE {}

LEMMA DecidedAre ==
    ASSUME RecorderTypes, NEW s \in Signals
    PROVE  /\ FinalDecision(capture[s].decision) \in Contents \cap Decisions
           /\ Decided(s) \in SUBSET Items
           /\ \A i \in Decided(s), j \in Decided(s): i.stream = j.stream => i = j
           /\ \A n \in StreamSet, t \in Signals, c \in Contents: Item(n, t, c) \in Decided(s) =>
                /\ t = s
                /\ \/ n = "predictors" /\ c = FinalDecision(capture[s].decision)
                   \/ n = "receipts" /\ c = "BUY" /\ capture[s].bought
<1>. DEFINE d == FinalDecision(capture[s].decision)
<1>1. d \in Decisions /\ d \in Contents
    <2>1. capture[s] \in Captures
        BY DEF RecorderTypes
    <2>. QED BY <2>1 DEF Captures, FinalDecision, Decisions, Contents
<1>2. Decided(s) = {Item("predictors", s, d)} \cup
                     IF capture[s].bought THEN {Item("receipts", s, "BUY")} ELSE {}
    BY DEF Decided
<1>. HIDE DEF d
<1>3. /\ Item("predictors", s, d) \in Items /\ Item("predictors", s, d).stream = "predictors"
      /\ Item("receipts", s, "BUY") \in Items /\ Item("receipts", s, "BUY").stream = "receipts"
    BY <1>1, ItemsAre, StreamsAre, ContentsAre
<1>4. \A i \in Decided(s), j \in Decided(s): i.stream = j.stream => i = j
    BY <1>2, <1>3
<1>5. ASSUME NEW n \in StreamSet, NEW t \in Signals, NEW c \in Contents, Item(n, t, c) \in Decided(s)
      PROVE  t = s /\ \/ n = "predictors" /\ c = d
                      \/ n = "receipts" /\ c = "BUY" /\ capture[s].bought
    <2>1. \/ Item(n, t, c) = Item("predictors", s, d)
          \/ Item(n, t, c) = Item("receipts", s, "BUY") /\ capture[s].bought
        BY <1>2, <1>5
    <2>. QED BY <2>1 DEF Item
<1>6. Decided(s) \in SUBSET Items
    BY <1>2, <1>3
<1>. QED BY <1>1, <1>4, <1>5, <1>6 DEF d

LEMMA FinishSignal_Records ==
    ASSUME RecordsInv, NEW s \in Signals, FinishSignal(s)
    PROVE  RecordsInv'
<1>. DEFINE d == FinalDecision(capture[s].decision)
<1>1. /\ capture \in [Signals -> Captures] /\ capture[s] \in Captures /\ RecorderTypes /\ BuysAreBuys
    BY DEF RecordsInv, RecorderTypes
<1>2. /\ capture[s].pc = "open" /\ Submit(Decided(s)) /\ UNCHANGED <<worker, index, rows>>
      /\ capture' = [capture EXCEPT ![s].pc = "finished", ![s].decision = d]
    BY DEF FinishSignal, Decided, Open
<1>3. d \in Decisions \cup {NoDecision}
    BY <1>1, DecidedAre
<1>4. capture' \in [Signals -> Captures]
    BY <1>1, <1>2, <1>3, CaptureTypes, Zenon
<1>5. ~Settled(s) /\ capture[s].sold = FALSE
    BY <1>1, <1>2 DEF Settled, BuysAreBuys, Captures
<1>6. capture[s].bought => d = "BUY"
    BY <1>1, ContentsAre DEF BuysAreBuys, FinalDecision
<1>. HIDE DEF d
<1>7. /\ \A t \in Signals: t # s => capture'[t] = capture[t]
      /\ capture'[s].pc = "finished" /\ capture'[s].decision = d
      /\ capture'[s].bought = capture[s].bought /\ capture'[s].sold = capture[s].sold
    BY <1>1, <1>2 DEF Captures
<1>8. BuysAreBuys'
    BY <1>1, <1>5, <1>6, <1>7 DEF BuysAreBuys, Settled
<1>9. \A n \in StreamSet, t \in Signals, c \in Contents:
         MayHold(n, t, c) => t # s /\ MayHold(n, t, c)'
    BY <1>5, <1>7, MayHoldKept, Zenon
<1>10. ASSUME NEW n \in StreamSet, NEW t \in Signals, NEW c \in Contents, Item(n, t, c) \in Decided(s)
       PROVE  MayHold(n, t, c)' /\ \A e \in Contents: ~MayHold(n, t, e)
    <2>1. t = s /\ \/ n = "predictors" /\ c = d
                   \/ n = "receipts" /\ c = "BUY" /\ capture[s].bought
        BY <1>1, <1>10, DecidedAre DEF d
    <2>2. MayHold(n, t, c)'
        BY <1>7, <2>1 DEF MayHold, Settled
    <2>. QED BY <1>9, <2>1, <2>2
<1>11. /\ Decided(s) \in SUBSET Items
       /\ \A i \in Decided(s), j \in Decided(s): i.stream = j.stream => i = j
    BY <1>1, DecidedAre
<1>. QED BY <1>2, <1>4, <1>8, <1>9, <1>10, <1>11, Submit_Records

LEMMA SubmitOutcome_Records ==
    ASSUME RecordsInv, NEW s \in Signals, NEW result \in {"won", "lost"}, SubmitOutcome(s, result)
    PROVE  RecordsInv'
<1>. DEFINE items == {Item("outcomes", s, result)}
<1>1. /\ capture \in [Signals -> Captures] /\ capture[s] \in Captures /\ BuysAreBuys
      /\ "outcomes" \in StreamSet /\ result \in Contents
    BY StreamsAre DEF RecordsInv, RecorderTypes, Contents
<1>2. /\ Settled(s) /\ capture[s].bought /\ ~capture[s].sold
      /\ capture' = [capture EXCEPT ![s].sold = TRUE]
      /\ Submit(items) /\ UNCHANGED <<worker, index, rows>>
    BY DEF SubmitOutcome, Settled
<1>3. capture' \in [Signals -> Captures]
    BY <1>1, <1>2, CaptureTypes, Zenon
<1>4. /\ \A t \in Signals: t # s => capture'[t] = capture[t]
      /\ capture'[s].pc = capture[s].pc /\ capture'[s].decision = capture[s].decision
      /\ capture'[s].bought = capture[s].bought /\ capture'[s].sold = TRUE
    BY <1>1, <1>2 DEF Captures
<1>5. BuysAreBuys'
    BY <1>1, <1>2, <1>4 DEF BuysAreBuys, Settled
<1>6. \A n \in StreamSet, t \in Signals, c \in Contents: MayHold(n, t, c) => MayHold(n, t, c)'
    <2>1. ASSUME NEW n \in StreamSet, NEW t \in Signals, NEW c \in Contents, MayHold(n, t, c)
          PROVE  MayHold(n, t, c)'
        <3>1. CASE t # s
            BY <1>4, <2>1, <3>1 DEF MayHold, Settled
        <3>2. CASE t = s /\ n = "predictors"
            BY <1>4, <2>1, <3>2 DEF MayHold, Settled
        <3>3. CASE t = s /\ n = "receipts"
            BY <1>4, <2>1, <3>3 DEF MayHold, Settled
        <3>4. CASE t = s /\ n = "outcomes"
            BY <1>4, <2>1, <3>4 DEF MayHold
        <3>. QED BY <3>1, <3>2, <3>3, <3>4, StreamsAre
    <2>. QED BY <2>1
<1>7. ASSUME NEW n \in StreamSet, NEW t \in Signals, NEW c \in Contents, Item(n, t, c) \in items
      PROVE  MayHold(n, t, c)' /\ \A e \in Contents: ~MayHold(n, t, e)
    <2>1. n = "outcomes" /\ t = s
        BY <1>7 DEF Item
    <2>. QED BY <1>2, <1>4, <2>1 DEF MayHold
<1>8. items \in SUBSET Items /\ \A i \in items, j \in items: i.stream = j.stream => i = j
    BY <1>1, ItemsAre
<1>. HIDE DEF items
<1>. QED BY <1>2, <1>3, <1>5, <1>6, <1>7, <1>8, Submit_Records
\* Steps of the worker, and the end of the process: they only pass on what is held.
LEMMA Passing_Records ==
    ASSUME RecordsInv, UNCHANGED capture, RecorderTypes', OwnQueue', SealedFirst', HandIsReserved',
           \A n \in StreamSet, s \in Signals, c \in Contents: Held(n, s, c)' => Held(n, s, c)
    PROVE  RecordsInv'
<1>1. BuysAreBuys'
    BY DEF RecordsInv, BuysAreBuys, Settled
<1>2. OnlyAdds({})
    <2>1. ASSUME NEW n \in StreamSet, NEW s \in Signals, NEW c \in Contents
          PROVE  MayHold(n, s, c)' <=> MayHold(n, s, c)
        BY DEF MayHold, Settled
    <2>. QED BY <2>1 DEF OnlyAdds
<1>3. HeldIsMeant' /\ HeldIsOne'
    <2>1. HeldIsMeant /\ HeldIsOne
        BY DEF RecordsInv
    <2>. QED BY <1>2, <2>1, RecordsStay, Zenon
<1>. QED BY <1>1, <1>3 DEF RecordsInv

\* The next turn, and a worker that is done with a record.
LEMMA Workers ==
    /\ worker.turn \in 1..3 => Next3 \in 1..3 /\ Turn \in StreamSet
    /\ Done = [turn |-> Next3, item |-> NoItem, reserved |-> FALSE]
<1>1. worker.turn \in 1..3 => Turn \in StreamSet
    BY DEF Turn, StreamSet
<1>2. worker.turn \in 1..3 => Next3 \in 1..3
    <2>1. CASE worker.turn = 1
        BY <2>1 DEF Next3
    <2>2. CASE worker.turn = 2
        BY <2>2 DEF Next3
    <2>3. CASE worker.turn = 3
        BY <2>3 DEF Next3
    <2>. QED BY <2>1, <2>2, <2>3
<1>3. Done = [turn |-> Next3, item |-> NoItem, reserved |-> FALSE]
    <2>. DEFINE m == Next3
    <2>1. Done = [WorkerIdle EXCEPT !.turn = m]
        BY DEF Done
    <2>. HIDE DEF m
    <2>2. Done = [turn |-> m, item |-> NoItem, reserved |-> FALSE]
        BY <2>1 DEF WorkerIdle
    <2>. QED BY <2>2 DEF m
<1>. QED BY <1>1, <1>2, <1>3

LEMMA Take_Records ==
    ASSUME RecordsInv, Take
    PROVE  /\ RecordsInv'
           /\ \A n \in StreamSet, s \in Signals, c \in Contents:
                 Queued(n, s, c) => Queued(n, s, c)' \/ InHand(n, s, c)'
<1>. DEFINE q == queues[Turn]
            h == Head(q)
<1>1. /\ RecorderTypes /\ OwnQueue /\ HandIsReserved /\ worker.item = NoItem
      /\ worker.turn \in 1..3 /\ Turn \in StreamSet /\ worker.reserved \in BOOLEAN
      /\ queues \in [StreamSet -> Seq(Items)]
    BY Workers DEF RecordsInv, RecorderTypes, Take
<1>2. /\ q # <<>> /\ q \in Seq(Items) /\ UNCHANGED <<capture, index, rows>>
      /\ worker' = [worker EXCEPT !.item = h]
      /\ queues' = [queues EXCEPT ![Turn] = Tail(q)]
    BY <1>1 DEF Take
<1>3. /\ Len(q) \in Nat \ {0} /\ h = q[1] /\ h \in Items
      /\ Tail(q) \in Seq(Items) /\ Len(Tail(q)) = Len(q) - 1
      /\ \A j \in 1..(Len(q) - 1): Tail(q)[j] = q[j + 1]
    BY <1>2
<1>4. worker.reserved = FALSE
    BY <1>1 DEF HandIsReserved
<1>5. /\ worker' \in [turn: 1..3, item: Items \cup {NoItem}, reserved: BOOLEAN]
      /\ worker'.reserved = FALSE /\ worker'.item = h
    <2>1. worker \in [turn: 1..3, item: Items \cup {NoItem}, reserved: BOOLEAN]
        BY <1>1 DEF RecorderTypes
    <2>. HIDE DEF h, q
    <2>. QED BY <1>2, <1>3, <1>4, <2>1
<1>6. /\ queues' \in [StreamSet -> Seq(Items)] /\ queues'[Turn] = Tail(q)
      /\ \A n \in StreamSet: n # Turn => queues'[n] = queues[n]
    BY <1>1, <1>2, <1>3
<1>7. ASSUME NEW n \in StreamSet
      PROVE  /\ \A j \in 1..Len(queues'[n]): \E k \in 1..Len(queues[n]): queues'[n][j] = queues[n][k]
             /\ \A k \in 1..Len(queues[n]): queues[n][k] = h
                  \/ \E j \in 1..Len(queues'[n]): queues'[n][j] = queues[n][k]
    <2>1. CASE n # Turn
        BY <1>6, <2>1
    <2>2. CASE n = Turn
        <3>1. queues[n] = q /\ queues'[n] = Tail(q)
            BY <1>6, <2>2
        <3>. DEFINE l == Len(q)
                    t == Tail(q)
        <3>2. /\ l \in Nat \ {0} /\ Len(t) = l - 1 /\ h = q[1]
              /\ \A j \in 1..(l - 1): t[j] = q[j + 1]
            BY <1>3
        <3>. HIDE DEF l, q, h, t
        <3>3. \A j \in 1..(l - 1): j + 1 \in 1..l /\ t[j] = q[j + 1]
            BY <3>2
        <3>4. \A k \in 1..l: k = 1 \/ (k - 1 \in 1..(l - 1) /\ t[k - 1] = q[k])
            BY <3>2
        <3>5. Len(q) = l /\ Tail(q) = t
            BY DEF l, t
        <3>6. \A j \in 1..(l - 1): \E k \in 1..l: t[j] = q[k]
            BY <3>3
        <3>7. \A k \in 1..l: q[k] = h \/ \E j \in 1..(l - 1): t[j] = q[k]
            BY <3>2, <3>4
        <3>8. queues[n] = q /\ queues'[n] = t /\ Len(q) = l /\ Len(t) = l - 1
            BY <3>1, <3>2, <3>5
        <3>. QED BY <3>6, <3>7, <3>8
    <2>. QED BY <2>1, <2>2
<1>8. /\ \A n \in StreamSet, s \in Signals, c \in Contents: Queued(n, s, c)' => Queued(n, s, c)
      /\ \A n \in StreamSet, s \in Signals, c \in Contents:
            Queued(n, s, c) => Queued(n, s, c)' \/ h = Item(n, s, c)
    <2>. HIDE DEF h, q
    <2>1. ASSUME NEW n \in StreamSet, NEW i
          PROVE  /\ (\E j \in 1..Len(queues'[n]): queues'[n][j] = i)
                      => \E k \in 1..Len(queues[n]): queues[n][k] = i
                 /\ (\E k \in 1..Len(queues[n]): queues[n][k] = i)
                      => h = i \/ \E j \in 1..Len(queues'[n]): queues'[n][j] = i
        <3>1. ASSUME NEW j \in 1..Len(queues'[n]), queues'[n][j] = i
              PROVE  \E k \in 1..Len(queues[n]): queues[n][k] = i
            <4>1. PICK k \in 1..Len(queues[n]): queues'[n][j] = queues[n][k]
                BY <1>7
            <4>. QED BY <3>1, <4>1
        <3>2. ASSUME NEW k \in 1..Len(queues[n]), queues[n][k] = i, h # i
              PROVE  \E j \in 1..Len(queues'[n]): queues'[n][j] = i
            <4>1. PICK j \in 1..Len(queues'[n]): queues'[n][j] = queues[n][k]
                BY <1>7, <3>2
            <4>. QED BY <3>2, <4>1
        <3>. QED BY <3>1, <3>2
    <2>2. \A n \in StreamSet, s \in Signals, c \in Contents:
             /\ Queued(n, s, c) <=> \E k \in 1..Len(queues[n]): queues[n][k] = Item(n, s, c)
             /\ Queued(n, s, c)' <=> \E j \in 1..Len(queues'[n]): queues'[n][j] = Item(n, s, c)
        BY Zenon DEF Queued, Item
    <2>3. ASSUME NEW n \in StreamSet, NEW s \in Signals, NEW c \in Contents
          PROVE  /\ Queued(n, s, c)' => Queued(n, s, c)
                 /\ Queued(n, s, c) => Queued(n, s, c)' \/ h = Item(n, s, c)
        <3>. DEFINE i == Item(n, s, c)
        <3>1. /\ (\E j \in 1..Len(queues'[n]): queues'[n][j] = i)
                   => \E k \in 1..Len(queues[n]): queues[n][k] = i
              /\ (\E k \in 1..Len(queues[n]): queues[n][k] = i)
                   => h = i \/ \E j \in 1..Len(queues'[n]): queues'[n][j] = i
            BY <2>1
        <3>2. /\ Queued(n, s, c) <=> \E k \in 1..Len(queues[n]): queues[n][k] = i
              /\ Queued(n, s, c)' <=> \E j \in 1..Len(queues'[n]): queues'[n][j] = i
            BY <2>2
        <3>. QED BY <3>1, <3>2
    <2>. QED BY <2>3
<1>9. \A n \in StreamSet, s \in Signals, c \in Contents: InHand(n, s, c)' <=> h = Item(n, s, c)
    BY <1>5 DEF InHand, Item
<1>10. \A n \in StreamSet, s \in Signals, c \in Contents: h = Item(n, s, c) => Queued(n, s, c)
    <2>1. ASSUME NEW n \in StreamSet, NEW s \in Signals, NEW c \in Contents, h = Item(n, s, c)
          PROVE  Queued(n, s, c)
        <3>1. Item(n, s, c).stream = n /\ 1 \in 1..Len(q)
            BY <1>3, ItemsAre
        <3>2. q[1].stream = Turn
            BY <1>1, <3>1 DEF OwnQueue
        <3>. QED BY <1>3, <2>1, <3>1, <3>2 DEF Queued
    <2>. QED BY <2>1
<1>. HIDE DEF h, q
<1>11. \A n \in StreamSet, s \in Signals, c \in Contents: Held(n, s, c)' => Held(n, s, c)
    <2>1. \A n \in StreamSet, s \in Signals, c \in Contents: OnFile(n, s, c)' <=> OnFile(n, s, c)
        BY <1>2 DEF OnFile
    <2>. QED BY <1>8, <1>9, <1>10, <2>1 DEF Held
<1>12. OwnQueue'
    <2>1. ASSUME NEW n \in StreamSet, NEW j \in 1..Len(queues'[n]) PROVE queues'[n][j].stream = n
        <3>1. PICK k \in 1..Len(queues[n]): queues'[n][j] = queues[n][k]
            BY <1>7
        <3>. QED BY <1>1, <3>1 DEF OwnQueue
    <2>. QED BY <2>1 DEF OwnQueue
<1>13. RecorderTypes'
    BY <1>1, <1>2, <1>5, <1>6 DEF RecorderTypes
<1>14. SealedFirst' /\ HandIsReserved'
    BY <1>2, <1>5 DEF RecordsInv, SealedFirst, HandIsReserved
<1>15. RecordsInv'
    BY <1>2, <1>11, <1>12, <1>13, <1>14, Passing_Records
<1>. QED BY <1>8, <1>9, <1>15
\* One file is written.
With(f, i) == [f EXCEPT ![i.stream][i.signal] = i.content]

LEMMA FileWritten ==
    ASSUME NEW f \in Files, NEW i \in Items
    PROVE  /\ With(f, i) \in Files
           /\ \A n \in StreamSet, s \in Signals:
                 With(f, i)[n][s] = IF n = i.stream /\ s = i.signal THEN i.content ELSE f[n][s]
<1>1. i.stream \in StreamSet /\ i.signal \in Signals /\ i.content \in Contents
    BY ItemsAre
<1>2. f[i.stream] \in [Signals -> Contents \cup {NoDecision}]
    BY <1>1 DEF Files
<1>. DEFINE r == [f[i.stream] EXCEPT ![i.signal] = i.content]
<1>3. /\ r \in [Signals -> Contents \cup {NoDecision}]
      /\ \A s \in Signals: r[s] = IF s = i.signal THEN i.content ELSE f[i.stream][s]
    BY <1>1, <1>2
<1>. HIDE DEF r
<1>4. /\ [f EXCEPT ![i.stream] = r] \in Files
      /\ \A n \in StreamSet: [f EXCEPT ![i.stream] = r][n] = IF n = i.stream THEN r ELSE f[n]
    BY <1>1, <1>3 DEF Files
<1>5. With(f, i) = [f EXCEPT ![i.stream] = r]
    BY DEF r, With
<1>6. \A n \in StreamSet, s \in Signals: [f EXCEPT ![i.stream] = r][n][s]
          = IF n = i.stream /\ s = i.signal THEN i.content ELSE f[n][s]
    BY <1>3, <1>4
<1>. QED BY <1>4, <1>5, <1>6

\* What the worker has in hand.
LEMMA HandIs ==
    ASSUME RecorderTypes, worker.item # NoItem
    PROVE  /\ worker.item \in Items /\ worker.item.stream \in StreamSet
           /\ worker.item.signal \in Signals /\ worker.item.content \in Contents
           /\ InHand(worker.item.stream, worker.item.signal, worker.item.content)
           /\ \A n \in StreamSet, s \in Signals, c \in Contents: InHand(n, s, c)
                => n = worker.item.stream /\ s = worker.item.signal /\ c = worker.item.content
<1>1. worker.item \in Items
    BY DEF RecorderTypes
<1>2. \A n \in StreamSet, s \in Signals, c \in Contents: InHand(n, s, c)
         => n = worker.item.stream /\ s = worker.item.signal /\ c = worker.item.content
    BY ItemsAre DEF InHand
<1>. QED BY <1>1, <1>2, ItemsAre DEF InHand

LEMMA PassOver_Records ==
    ASSUME RecordsInv, PassOver
    PROVE  RecordsInv'
<1>1. RecorderTypes /\ worker.turn \in 1..3 /\ worker.item = NoItem
    BY DEF RecordsInv, RecorderTypes, PassOver
<1>2. /\ worker' \in [turn: 1..3, item: Items \cup {NoItem}, reserved: BOOLEAN]
      /\ worker'.item = worker.item /\ worker'.reserved = worker.reserved
    <2>. DEFINE m == Next3
    <2>1. m \in 1..3 /\ worker' = [worker EXCEPT !.turn = m]
        BY <1>1, Workers DEF PassOver
    <2>. HIDE DEF m
    <2>. QED BY <1>1, <2>1 DEF RecorderTypes
<1>3. UNCHANGED <<capture, queues, index, rows>>
    BY DEF PassOver
<1>4. \A n \in StreamSet, s \in Signals, c \in Contents: Held(n, s, c)' => Held(n, s, c)
    BY <1>2, <1>3 DEF Held, Queued, InHand, OnFile, Item
<1>5. RecorderTypes' /\ OwnQueue' /\ SealedFirst' /\ HandIsReserved'
    BY <1>1, <1>2, <1>3
    DEF RecordsInv, RecorderTypes, OwnQueue, SealedFirst, HandIsReserved
<1>. QED BY <1>3, <1>4, <1>5, Passing_Records

LEMMA ReserveFile_Records ==
    ASSUME RecordsInv, ReserveFile
    PROVE  RecordsInv'
<1>. DEFINE i == worker.item
<1>1. RecorderTypes /\ i # NoItem /\ index \in Files /\ SealedFirst
    BY DEF RecordsInv, RecorderTypes, ReserveFile, Busy
<1>2. /\ UNCHANGED <<capture, queues, rows>>
      /\ index' = With(index, i)
      /\ worker' = [worker EXCEPT !.reserved = TRUE]
    BY DEF ReserveFile, With
<1>3. /\ i \in Items /\ i.stream \in StreamSet /\ i.signal \in Signals /\ i.content \in Contents
      /\ InHand(i.stream, i.signal, i.content)
    BY <1>1, HandIs
<1>4. /\ worker' \in [turn: 1..3, item: Items \cup {NoItem}, reserved: BOOLEAN]
      /\ worker'.item = i
    BY <1>1, <1>2 DEF RecorderTypes
<1>. HIDE DEF i
<1>5. /\ index' \in Files
      /\ \A n \in StreamSet, s \in Signals:
            index'[n][s] = IF n = i.stream /\ s = i.signal THEN i.content ELSE index[n][s]
    BY <1>1, <1>2, <1>3, FileWritten
<1>6. ASSUME NEW n \in StreamSet, NEW s \in Signals, NEW c \in Contents, Held(n, s, c)'
      PROVE  Held(n, s, c)
    <2>1. Queued(n, s, c)' => Queued(n, s, c)
        BY <1>2 DEF Queued, Item
    <2>2. InHand(n, s, c)' => InHand(n, s, c)
        BY <1>4 DEF InHand, Item, i
    <2>3. OnFile(n, s, c)' => OnFile(n, s, c) \/ InHand(n, s, c)
        BY <1>2, <1>3, <1>5 DEF OnFile
    <2>. QED BY <1>6, <2>1, <2>2, <2>3 DEF Held
<1>7. RecorderTypes' /\ OwnQueue'
    BY <1>1, <1>2, <1>4, <1>5 DEF RecordsInv, RecorderTypes, OwnQueue
<1>8. SealedFirst'
    BY <1>1, <1>2, <1>3, <1>5, ContentsAre DEF SealedFirst
<1>9. HandIsReserved'
    <2>1. index'[i.stream][i.signal] = i.content
        BY <1>3, <1>5
    <2>2. worker'.item = i
        BY <1>4
    <2>. QED BY <1>1, <2>1, <2>2 DEF HandIsReserved
<1>. QED BY <1>2, <1>6, <1>7, <1>8, <1>9, Passing_Records
\* The worker is done with a record.
LEMMA DoneIs ==
    ASSUME RecorderTypes, worker' = Done
    PROVE  /\ worker' \in [turn: 1..3, item: Items \cup {NoItem}, reserved: BOOLEAN]
           /\ worker'.item = NoItem /\ worker'.reserved = FALSE
           /\ HandIsReserved'
           /\ \A n \in StreamSet, s \in Signals, c \in Contents: ~InHand(n, s, c)'
<1>1. worker.turn \in 1..3
    BY DEF RecorderTypes
<1>. DEFINE m == Next3
<1>2. m \in 1..3 /\ worker' = [turn |-> m, item |-> NoItem, reserved |-> FALSE]
    BY <1>1, Workers
<1>. HIDE DEF m
<1>3. worker' \in [turn: 1..3, item: Items \cup {NoItem}, reserved: BOOLEAN]
    BY <1>2
<1>4. worker'.item = NoItem /\ worker'.reserved = FALSE
    BY <1>2
<1>5. \A n \in StreamSet, s \in Signals, c \in Contents: Item(n, s, c)' # NoItem
    BY ItemsAre DEF Item
<1>. QED BY <1>3, <1>4, <1>5 DEF HandIsReserved, InHand

LEMMA Commit_Records ==
    ASSUME RecordsInv, Commit
    PROVE  /\ RecordsInv' /\ worker.item # NoItem
           /\ rows' \in Files
           /\ \A n \in StreamSet, s \in Signals:
                 rows'[n][s] = IF n = worker.item.stream /\ s = worker.item.signal
                               THEN worker.item.content ELSE rows[n][s]
<1>. DEFINE i == worker.item
<1>1. /\ RecorderTypes /\ i # NoItem /\ index \in Files /\ rows \in Files /\ SealedFirst
      /\ index[i.stream][i.signal] = i.content
    BY DEF RecordsInv, RecorderTypes, Commit, MayCommit, Busy, HandIsReserved
<1>2. /\ UNCHANGED <<capture, queues, index>> /\ worker' = Done
      /\ rows' = With(rows, i)
    BY DEF Commit, With
<1>3. /\ i \in Items /\ i.stream \in StreamSet /\ i.signal \in Signals /\ i.content \in Contents
      /\ InHand(i.stream, i.signal, i.content)
    BY <1>1, HandIs
<1>4. /\ worker' \in [turn: 1..3, item: Items \cup {NoItem}, reserved: BOOLEAN]
      /\ HandIsReserved' /\ \A n \in StreamSet, s \in Signals, c \in Contents: ~InHand(n, s, c)'
    BY <1>1, <1>2, DoneIs
<1>. HIDE DEF i
<1>5. /\ rows' \in Files
      /\ \A n \in StreamSet, s \in Signals:
            rows'[n][s] = IF n = i.stream /\ s = i.signal THEN i.content ELSE rows[n][s]
    BY <1>1, <1>2, <1>3, FileWritten
<1>6. ASSUME NEW n \in StreamSet, NEW s \in Signals, NEW c \in Contents, Held(n, s, c)'
      PROVE  Held(n, s, c)
    <2>1. Queued(n, s, c)' => Queued(n, s, c)
        BY <1>2 DEF Queued, Item
    <2>2. ~InHand(n, s, c)'
        BY <1>4
    <2>3. OnFile(n, s, c)' => OnFile(n, s, c) \/ InHand(n, s, c)
        BY <1>2, <1>3, <1>5 DEF OnFile
    <2>. QED BY <1>6, <2>1, <2>2, <2>3 DEF Held
<1>7. RecorderTypes' /\ OwnQueue'
    BY <1>1, <1>2, <1>4, <1>5 DEF RecordsInv, RecorderTypes, OwnQueue
<1>8. SealedFirst'
    BY <1>1, <1>2, <1>3, <1>5, ContentsAre DEF SealedFirst
<1>9. RecordsInv'
    BY <1>2, <1>4, <1>6, <1>7, <1>8, Passing_Records
<1>. QED BY <1>1, <1>5, <1>9 DEF i

LEMMA WriteFails_Records ==
    ASSUME RecordsInv, WriteFails
    PROVE  RecordsInv'
<1>1. RecorderTypes /\ UNCHANGED <<capture, queues, index, rows>> /\ worker' = Done
    BY DEF RecordsInv, WriteFails
<1>2. /\ worker' \in [turn: 1..3, item: Items \cup {NoItem}, reserved: BOOLEAN]
      /\ HandIsReserved' /\ \A n \in StreamSet, s \in Signals, c \in Contents: ~InHand(n, s, c)'
    BY <1>1, DoneIs
<1>3. \A n \in StreamSet, s \in Signals, c \in Contents: Held(n, s, c)' => Held(n, s, c)
    BY <1>1, <1>2 DEF Held, Queued, OnFile, Item
<1>4. RecorderTypes' /\ OwnQueue' /\ SealedFirst'
    BY <1>1, <1>2 DEF RecordsInv, RecorderTypes, OwnQueue, SealedFirst
<1>. QED BY <1>1, <1>2, <1>3, <1>4, Passing_Records

LEMMA ProcessEnds_Records ==
    ASSUME RecordsInv, ProcessEnds
    PROVE  RecordsInv'
<1>1. /\ UNCHANGED <<capture, index, rows>> /\ worker' = WorkerIdle
      /\ queues' = [n \in StreamSet |-> <<>>]
    BY DEF ProcessEnds
<1>2. /\ worker' \in [turn: 1..3, item: Items \cup {NoItem}, reserved: BOOLEAN]
      /\ worker'.item = NoItem /\ worker'.reserved = FALSE
    BY <1>1 DEF WorkerIdle
<1>3. /\ queues' \in [StreamSet -> Seq(Items)] /\ \A n \in StreamSet: Len(queues'[n]) = 0
    BY <1>1
<1>4. \A n \in StreamSet, s \in Signals, c \in Contents: ~Queued(n, s, c)'
    BY <1>3 DEF Queued
<1>5. \A n \in StreamSet, s \in Signals, c \in Contents: ~InHand(n, s, c)'
    BY <1>2, ItemsAre DEF InHand, Item
<1>6. \A n \in StreamSet, s \in Signals, c \in Contents: Held(n, s, c)' => Held(n, s, c)
    BY <1>1, <1>4, <1>5 DEF Held, OnFile
<1>7. OwnQueue'
    BY <1>3 DEF OwnQueue
<1>8. RecorderTypes' /\ SealedFirst' /\ HandIsReserved'
    BY <1>1, <1>2, <1>3 DEF RecordsInv, RecorderTypes, SealedFirst, HandIsReserved
<1>. QED BY <1>1, <1>6, <1>7, <1>8, Passing_Records
LEMMA RecorderStep_Records == RecordsInv /\ [RecorderNext]_recorderVars => RecordsInv'
<1>. SUFFICES ASSUME RecordsInv, [RecorderNext]_recorderVars PROVE RecordsInv'
    OBVIOUS
<1>1. ASSUME NEW s \in Signals, BeginSignal(s) \/ Buy(s) \/ FinishSignal(s) PROVE RecordsInv'
    BY <1>1, Trading_Records, FinishSignal_Records
<1>2. ASSUME NEW s \in Signals, NEW why \in Rejections, Reject(s, why) PROVE RecordsInv'
    BY <1>2, Trading_Records
<1>3. ASSUME NEW s \in Signals, NEW result \in {"won", "lost"}, SubmitOutcome(s, result)
      PROVE  RecordsInv'
    BY <1>3, SubmitOutcome_Records
<1>4. CASE Take \/ PassOver \/ ReserveFile \/ Commit \/ WriteFails
    BY <1>4, Take_Records, PassOver_Records, ReserveFile_Records, Commit_Records, WriteFails_Records
<1>5. CASE ProcessEnds \/ StartWorker
    BY <1>5, ProcessEnds_Records, StartWorker_Records
<1>6. CASE StopAsked \/ Acknowledge \/ UNCHANGED recorderVars
    <2>1. UNCHANGED <<capture, queues, worker, index, rows>>
        BY <1>6 DEF StopAsked, Acknowledge, recorderVars
    <2>2. \A n \in StreamSet, s \in Signals, c \in Contents: Held(n, s, c)' => Held(n, s, c)
        BY <2>1, HeldUnchanged, Zenon
    <2>3. RecorderTypes' /\ OwnQueue' /\ SealedFirst' /\ HandIsReserved'
        BY <2>1 DEF RecordsInv, RecorderTypes, OwnQueue, SealedFirst, HandIsReserved
    <2>. QED BY <2>1, <2>2, <2>3, Passing_Records
<1>. QED BY <1>1, <1>2, <1>3, <1>4, <1>5, <1>6 DEF RecorderNext

\* A decision that is queued, in hand, counted or on file remains one of these.
LEMMA AccountedStays ==
    ASSUME NEW s \in Signals, Accounted(s), counted \subseteq counted',
           rows["predictors"][s] # NoDecision => rows'["predictors"][s] # NoDecision,
           \A c \in Contents: Queued("predictors", s, c) => Accounted(s)',
           \A c \in Contents: InHand("predictors", s, c) => Accounted(s)'
    PROVE  Accounted(s)'
<1>1. CASE rows["predictors"][s] # NoDecision
    BY <1>1 DEF Accounted
<1>2. CASE \E i \in counted: i.stream = "predictors" /\ i.signal = s
    BY <1>2 DEF Accounted
<1>3. CASE \E c \in Contents: Queued("predictors", s, c) \/ InHand("predictors", s, c)
    BY <1>3
<1>. QED BY <1>1, <1>2, <1>3 DEF Accounted

LEMMA Submit_Accounted ==
    ASSUME RecordsInv, NEW items \in SUBSET Items, Submit(items), UNCHANGED <<worker, rows>>,
           \A i \in items, j \in items: i.stream = j.stream => i = j
    PROVE  /\ \A s \in Signals: Accounted(s) => Accounted(s)'
           /\ \A i \in items: i.stream = "predictors" => Accounted(i.signal)'
<1>1. /\ counted \subseteq counted'
      /\ \A n \in StreamSet, s \in Signals, c \in Contents: Queued(n, s, c) => Queued(n, s, c)'
      /\ \A i \in items: i \in counted' \/ Queued(i.stream, i.signal, i.content)'
    BY SubmitQueues DEF RecordsInv
<1>2. "predictors" \in StreamSet
    BY StreamsAre
<1>3. ASSUME NEW s \in Signals, NEW c \in Contents,
             Queued("predictors", s, c) \/ InHand("predictors", s, c)
      PROVE  Accounted(s)'
    <2>1. InHand("predictors", s, c) => InHand("predictors", s, c)'
        BY DEF InHand, Item
    <2>. QED BY <1>1, <1>2, <1>3, <2>1 DEF Accounted
<1>4. \A s \in Signals: Accounted(s) => Accounted(s)'
    BY <1>1, <1>3, AccountedStays
<1>5. ASSUME NEW i \in items, i.stream = "predictors" PROVE Accounted(i.signal)'
    <2>1. i.signal \in Signals /\ i.content \in Contents
        BY ItemsAre
    <2>2. CASE i \in counted'
        BY <1>5, <2>2 DEF Accounted
    <2>3. CASE Queued("predictors", i.signal, i.content)'
        BY <2>1, <2>3 DEF Accounted
    <2>. QED BY <1>1, <1>5, <2>2, <2>3
<1>. QED BY <1>4, <1>5

\* No step loses a decision, but for the end of the process.
LEMMA Worker_Accounted ==
    ASSUME RecordsInv, Take \/ PassOver \/ ReserveFile \/ Commit \/ WriteFails, NEW s \in Signals,
           Accounted(s)
    PROVE  Accounted(s)'
<1>1. RecorderTypes /\ "predictors" \in StreamSet
    BY StreamsAre DEF RecordsInv
<1>2. CASE Take
    <2>1. UNCHANGED <<rows, counted>> /\ worker.item = NoItem
        BY <1>2 DEF Take
    <2>2. \A c \in Contents: Queued("predictors", s, c) => Accounted(s)'
        BY <1>1, <1>2, Take_Records DEF Accounted
    <2>3. \A c \in Contents: ~InHand("predictors", s, c)
        BY <1>1, <2>1, ItemsAre DEF InHand
    <2>. QED BY <2>1, <2>2, <2>3, AccountedStays
<1>3. CASE PassOver \/ ReserveFile
    <2>1. UNCHANGED <<queues, rows, counted>> /\ worker'.item = worker.item
        BY <1>1, <1>3 DEF PassOver, ReserveFile, RecorderTypes
    <2>2. \A c \in Contents: /\ Queued("predictors", s, c) => Queued("predictors", s, c)'
                             /\ InHand("predictors", s, c) => InHand("predictors", s, c)'
        BY <2>1 DEF Queued, InHand, Item
    <2>. QED BY <2>1, <2>2, AccountedStays DEF Accounted
<1>4. CASE Commit
    <2>. DEFINE i == worker.item
    <2>1. UNCHANGED <<queues, counted>> /\ RecorderTypes'
        BY <1>4, Commit_Records DEF Commit, RecordsInv
    <2>2. /\ i # NoItem /\ i \in Items /\ i.content \in Contents
          /\ \A c \in Contents: InHand("predictors", s, c) => "predictors" = i.stream /\ s = i.signal
        BY <1>1, <1>4, Commit_Records, HandIs
    <2>3. rows'["predictors"][s] = IF "predictors" = i.stream /\ s = i.signal
                                   THEN i.content ELSE rows["predictors"][s]
        BY <1>1, <1>4, Commit_Records
    <2>. HIDE DEF i
    <2>4. \A c \in Contents: Queued("predictors", s, c) => Accounted(s)'
        BY <2>1 DEF Accounted, Queued, Item
    <2>5. \A c \in Contents: InHand("predictors", s, c) => Accounted(s)'
        BY <2>2, <2>3, ContentsAre DEF Accounted
    <2>6. rows["predictors"][s] # NoDecision => rows'["predictors"][s] # NoDecision
        BY <2>2, <2>3, ContentsAre
    <2>. QED BY <2>1, <2>4, <2>5, <2>6, AccountedStays
<1>5. CASE WriteFails
    <2>. DEFINE i == worker.item
    <2>1. /\ UNCHANGED <<queues, rows>> /\ counted' = counted \cup {i} /\ i # NoItem
        BY <1>5 DEF WriteFails, Busy
    <2>2. \A c \in Contents: InHand("predictors", s, c) => "predictors" = i.stream /\ s = i.signal
        BY <1>1, <2>1, HandIs
    <2>. HIDE DEF i
    <2>3. \A c \in Contents: Queued("predictors", s, c) => Accounted(s)'
        BY <2>1 DEF Accounted, Queued, Item
    <2>4. \A c \in Contents: InHand("predictors", s, c) => Accounted(s)'
        BY <2>1, <2>2 DEF Accounted
    <2>. QED BY <2>1, <2>3, <2>4, AccountedStays
<1>. QED BY <1>2, <1>3, <1>4, <1>5
LEMMA NoneIsLost_Step ==
    ASSUME RecordsInv, NoneIsLost, [RecorderNext]_recorderVars
    PROVE  NoneIsLost'
<1>. SUFFICES ASSUME ending' # "gone", NEW t \in Signals, capture'[t].pc = "finished"
              PROVE  Accounted(t)'
    BY DEF NoneIsLost
<1>0. capture \in [Signals -> Captures] /\ RecorderTypes
    BY DEF RecordsInv, RecorderTypes
<1>1. ASSUME UNCHANGED <<queues, worker, rows, counted>>, ending # "gone",
             capture'[t].pc = "finished" => capture[t].pc = "finished"
      PROVE  Accounted(t)'
    BY <1>1 DEF NoneIsLost, Accounted, Queued, InHand, Item
<1>2. ASSUME NEW s \in Signals,
             BeginSignal(s) \/ Buy(s) \/ \E why \in Rejections: Reject(s, why)
      PROVE  Accounted(t)'
    <2>1. UNCHANGED <<queues, worker, rows, counted>> /\ ending # "gone"
        BY <1>2 DEF BeginSignal, Buy, Reject
    <2>2. capture'[t].pc = "finished" => capture[t].pc = "finished"
        BY <1>0, <1>2 DEF BeginSignal, Buy, Reject, Captures
    <2>. QED BY <1>1, <2>1, <2>2
<1>3. ASSUME NEW s \in Signals, FinishSignal(s) PROVE Accounted(t)'
    <2>1. /\ Submit(Decided(s)) /\ UNCHANGED <<worker, rows>> /\ ending # "gone"
          /\ Decided(s) \in SUBSET Items
          /\ \A i \in Decided(s), j \in Decided(s): i.stream = j.stream => i = j
        BY <1>0, <1>3, DecidedAre DEF FinishSignal, Decided, Open
    <2>2. /\ \A u \in Signals: Accounted(u) => Accounted(u)'
          /\ \A i \in Decided(s): i.stream = "predictors" => Accounted(i.signal)'
        BY <2>1, Submit_Accounted
    <2>3. CASE t # s
        <3>1. capture[t].pc = "finished"
            BY <1>0, <1>3, <2>3 DEF FinishSignal
        <3>. QED BY <2>1, <2>2, <3>1 DEF NoneIsLost
    <2>4. Accounted(s)'
        <3>. DEFINE i == Item("predictors", s, FinalDecision(capture[s].decision))
        <3>1. i \in Decided(s) /\ i.stream = "predictors" /\ i.signal = s
            BY DEF Decided, Item
        <3>. HIDE DEF i
        <3>. QED BY <2>2, <3>1
    <2>. QED BY <2>3, <2>4
<1>4. ASSUME NEW s \in Signals, NEW result \in {"won", "lost"}, SubmitOutcome(s, result)
      PROVE  Accounted(t)'
    <2>. DEFINE items == {Item("outcomes", s, result)}
    <2>1. "outcomes" \in StreamSet /\ result \in Contents
        BY StreamsAre DEF Contents
    <2>2. items \in SUBSET Items /\ \A i \in items, j \in items: i.stream = j.stream => i = j
        BY <2>1, ItemsAre
    <2>3. Submit(items) /\ UNCHANGED <<worker, rows>> /\ ending # "gone"
        BY <1>4 DEF SubmitOutcome
    <2>4. capture[t].pc = "finished"
        BY <1>0, <1>4 DEF SubmitOutcome, Captures
    <2>. HIDE DEF items
    <2>. QED BY <2>2, <2>3, <2>4, Submit_Accounted DEF NoneIsLost
<1>5. CASE Take \/ PassOver \/ ReserveFile \/ Commit \/ WriteFails
    <2>1. UNCHANGED <<capture, ending>>
        BY <1>5 DEF Take, PassOver, ReserveFile, Commit, WriteFails
    <2>2. Accounted(t)
        BY <2>1 DEF NoneIsLost
    <2>. QED BY <1>5, <2>2, Worker_Accounted
<1>6. CASE StopAsked \/ Acknowledge \/ UNCHANGED recorderVars
    <2>1. UNCHANGED <<capture, queues, worker, rows, counted>> /\ ending # "gone"
        BY <1>6 DEF StopAsked, Acknowledge, recorderVars
    <2>. QED BY <1>1, <2>1
<1>7. ~ProcessEnds
    BY DEF ProcessEnds, Exit, Die
<1>8. ~StartWorker
    <2>1. StartWorker => capture'[t].pc \in {"none", "past"}
        BY <1>0 DEF StartWorker, Captures
    <2>. QED BY <2>1
<1>. QED BY <1>2, <1>3, <1>4, <1>5, <1>6, <1>7, <1>8 DEF RecorderNext

LEMMA QuietEnd_Step ==
    ASSUME RecordsInv, QuietEnd, [RecorderNext]_recorderVars
    PROVE  QuietEnd'
<1>. SUFFICES ASSUME ending' = "acknowledged"
              PROVE  ~Unfinished' /\ \A s \in Signals: capture'[s].pc # "open"
    BY DEF QuietEnd
<1>1. CASE Acknowledge
    BY <1>1 DEF Acknowledge, MayAcknowledge, Unfinished, Open
<1>2. ASSUME ending = "acknowledged", ~Acknowledge PROVE UNCHANGED recorderVars
    <2>1. ~Unfinished /\ \A s \in Signals: ~Open(s)
        BY <1>2 DEF QuietEnd, Open
    <2>2. \A s \in Signals: /\ ~BeginSignal(s) /\ ~Buy(s) /\ ~FinishSignal(s)
                            /\ \A why \in Rejections: ~Reject(s, why)
                            /\ \A result \in {"won", "lost"}: ~SubmitOutcome(s, result)
        BY <1>2, <2>1 DEF BeginSignal, Buy, FinishSignal, Reject, MayReject, SubmitOutcome
    <2>3. ~Take /\ ~PassOver /\ ~ReserveFile /\ ~Commit /\ ~WriteFails
        <3>1. Turn \in StreamSet
            BY Workers DEF RecordsInv, RecorderTypes
        <3>. QED BY <2>1, <3>1
             DEF Take, PassOver, ReserveFile, Commit, MayCommit, WriteFails, Busy, Unfinished
    <2>4. ~StopAsked /\ ~ProcessEnds /\ ~StartWorker
        BY <1>2 DEF StopAsked, ProcessEnds, Exit, Die, StartWorker
    <2>. QED BY <1>2, <2>2, <2>3, <2>4 DEF RecorderNext
<1>3. ASSUME ending # "acknowledged", ~Acknowledge PROVE FALSE
    BY <1>3 DEF RecorderNext, recorderVars, BeginSignal, Buy, FinishSignal, Reject, SubmitOutcome,
                Take, PassOver, ReserveFile, Commit, WriteFails, StopAsked, ProcessEnds, Exit, Die,
                StartWorker
<1>4. CASE UNCHANGED recorderVars /\ ending = "acknowledged"
    BY <1>4 DEF QuietEnd, Unfinished, recorderVars
<1>. QED BY <1>1, <1>2, <1>3, <1>4 DEF recorderVars

\* At any time whoever reads the files can join them, whatever the order in which the two
\* writes of a record, the three queues, failures and deaths of the process come in; and
\* when a stop is acknowledged, every signal that the process decided on is on disk or
\* counted as dropped (_persist_stream, iter_stream, join_streams, acknowledge_stopped).
THEOREM EvidenceStaysWhole == RecorderSpec => []EvidenceIsWhole
<1>1. RecorderInit => RecorderInv
    <2>1. RecorderInit => NoneIsLost /\ QuietEnd
        BY DEF RecorderInit, NoneIsLost, QuietEnd, NewCapture
    <2>. QED BY <2>1, RecorderInit_Records DEF RecorderInv
<1>2. RecorderInv /\ [RecorderNext]_recorderVars => RecorderInv'
    BY RecorderStep_Records, NoneIsLost_Step, QuietEnd_Step DEF RecorderInv
<1>3. RecorderInv => EvidenceIsWhole
    <2>. SUFFICES ASSUME RecorderInv PROVE EvidenceIsWhole
        OBVIOUS
    <2>1. RecordsInv /\ index \in Files /\ rows \in Files
        BY DEF RecorderInv, RecordsInv, RecorderTypes
    <2>2. ASSUME NEW n \in StreamSet, NEW s \in Signals PROVE Valid(n, s)
        <3>. DEFINE c == index[n][s]
                    d == rows[n][s]
        <3>1. c \in Contents \cup {NoDecision} /\ d \in Contents \cup {NoDecision}
            BY <2>1 DEF Files
        <3>2. CASE d # NoDecision
            <4>1. c # NoDecision
                BY <2>1, <3>2 DEF RecordsInv, SealedFirst
            <4>2. Held(n, s, c) /\ Held(n, s, d)
                BY <3>2, <4>1 DEF Held, OnFile
            <4>. HIDE DEF c, d
            <4>3. c = d
                BY <2>1, <3>1, <3>2, <4>1, <4>2 DEF RecordsInv, HeldIsOne
            <4>. QED BY <4>3 DEF Valid, c, d
        <3>. QED BY <3>2 DEF Valid
    <2>3. ASSUME NEW s \in Signals PROVE Joins(s)
        <3>. DEFINE c == rows["receipts"][s]
                    d == rows["predictors"][s]
        <3>1. "receipts" \in StreamSet /\ "predictors" \in StreamSet
            BY StreamsAre
        <3>2. c \in Contents \cup {NoDecision} /\ d \in Contents \cup {NoDecision}
            BY <2>1, <3>1 DEF Files
        <3>3. CASE c # NoDecision /\ d # NoDecision
            <4>1. Held("receipts", s, c) /\ Held("predictors", s, d)
                BY <3>3 DEF Held, OnFile
            <4>. HIDE DEF c, d
            <4>2. MayHold("receipts", s, c) /\ MayHold("predictors", s, d)
                BY <2>1, <3>1, <3>2, <3>3, <4>1 DEF RecordsInv, HeldIsMeant
            <4>3. d = "BUY"
                BY <2>1, <4>2 DEF MayHold, RecordsInv, BuysAreBuys
            <4>. QED BY <4>3 DEF Joins, d
        <3>. QED BY <3>3 DEF Joins
    <2>4. AcknowledgedIsDrained
        <3>. SUFFICES ASSUME ending = "acknowledged", NEW s \in Signals, capture[s].pc = "finished"
                      PROVE  \/ rows["predictors"][s] # NoDecision
                             \/ \E i \in counted: i.stream = "predictors" /\ i.signal = s
            BY DEF AcknowledgedIsDrained
        <3>1. Accounted(s) /\ ~Unfinished
            BY DEF RecorderInv, NoneIsLost, QuietEnd
        <3>2. "predictors" \in StreamSet /\ queues \in [StreamSet -> Seq(Items)]
            BY <2>1, StreamsAre DEF RecordsInv, RecorderTypes
        <3>3. worker.item = NoItem /\ queues["predictors"] = <<>>
            BY <3>1, <3>2 DEF Unfinished
        <3>4. \A c \in Contents: ~Queued("predictors", s, c)
            BY <3>3 DEF Queued
        <3>5. \A c \in Contents: ~InHand("predictors", s, c)
            BY <3>2, <3>3, ItemsAre DEF InHand
        <3>. QED BY <3>1, <3>4, <3>5 DEF Accounted
    <2>. QED BY <2>2, <2>3, <2>4 DEF EvidenceIsWhole, EpochIsReadable
<1>. QED BY <1>1, <1>2, <1>3, PTL DEF RecorderSpec
=============================================================================
