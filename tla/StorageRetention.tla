-------------------------- MODULE StorageRetention --------------------------
(***************************************************************************)
(* The backups that a deployment makes and removes.  Its steps are those   *)
(* of .github/workflows/deploy.yml, one deployment at a time; what may be  *)
(* removed is planned by plan_validated_backups of                         *)
(* scripts/storage_retention.py, and .deployed-sha is written at the end   *)
(* by scripts/deploy_contract.py.                                          *)
(*                                                                         *)
(* A deployment may fail after each step, also in the middle of a removal. *)
(* backups is in the order of the time stamps in their names.              *)
(***************************************************************************)
EXTENDS Integers, Sequences, FiniteSets

CONSTANTS
    Revisions,
    Keep,           \* --keep-backups
    MaxBackups,     \* bound: backups that are begun
    NoRevision

ASSUME RetentionAssumption == Keep \in Nat \ {0} /\ MaxBackups \in Nat /\ NoRevision \notin Revisions

VARIABLES
    backups,    \* the directories predeploy-<stamp>-<sha>: revision, and what is in them
    marker,     \* latest-<sha>.txt: the backup, 0 if there is no file, or EmptyMarker
    source,     \* the revision that is installed
    deployed,   \* .deployed-sha
    deploy      \* the deployment under way

retentionVars == <<backups, marker, source, deployed, deploy>>

NoDeploy == [at |-> "none", revision |-> NoRevision, plan |-> {}, index |-> 0]

EmptyMarker == -1    \* the file is there with nothing in it

Then(at)    == deploy' = [deploy EXCEPT !.at = at]
OwnBackup   == deploy.index       \* the backup of the deployment under way

-----------------------------------------------------------------------------
(* The plan                                                                *)

\* _validate_backup: a directory without its manifest, or half removed, is not valid.
ValidBackups == {i \in DOMAIN backups: backups[i].state = "valid"}

\* _validate_markers
MarkersKnown ==
    /\ \A r \in Revisions: marker[r] # 0 =>
            marker[r] \in ValidBackups /\ backups[marker[r]].revision = r
    /\ \A r \in {deployed, source}: r # NoRevision /\ marker[r] # 0

Latest == {i \in ValidBackups: Cardinality({j \in ValidBackups: j > i}) < Keep}

\* Bug: the backups of the installed revision and the latest ones are kept, no others.
Protected_Latest(i) == backups[i].revision = source \/ i \in Latest
Protected(i) == backups[i].revision \in {source, deployed} \/ i \in Latest

\* plan_validated_backups: what is SAFE_TO_DELETE
SafeToDelete == IF MarkersKnown THEN {i \in ValidBackups: ~Protected(i)} ELSE {}

-----------------------------------------------------------------------------
(* A deployment                                                            *)

BeginBackup(r) ==
    /\ deploy.at = "none" /\ Len(backups) < MaxBackups
    /\ backups' = Append(backups, [revision |-> r, state |-> "partial"])
    /\ deploy' = [at |-> "copy", revision |-> r, plan |-> {}, index |-> Len(backups) + 1]
    /\ UNCHANGED <<marker, source, deployed>>

WriteManifest ==
    /\ deploy.at = "copy"
    /\ backups' = [backups EXCEPT ![OwnBackup].state = "valid"]
    /\ Then("mark")
    /\ UNCHANGED <<marker, source, deployed>>

\* The shell truncates the file that printf is redirected to, also that of the revision
\* that is deployed, before printf writes it.
TruncateMarker ==
    /\ deploy.at = "mark"
    /\ marker' = [marker EXCEPT ![deploy.revision] = EmptyMarker]
    /\ Then("write")
    /\ UNCHANGED <<backups, source, deployed>>

WriteMarker ==
    /\ deploy.at = "write"
    /\ marker' = [marker EXCEPT ![deploy.revision] = OwnBackup]
    /\ Then("upload")
    /\ UNCHANGED <<backups, source, deployed>>

UploadSource ==
    /\ deploy.at = "upload"
    /\ source' = deploy.revision
    /\ Then("gate")
    /\ UNCHANGED <<backups, marker, deployed>>

\* The health gates pass; they read the backup through its marker.  Without a revision
\* that was deployed before, the retention fails on its argument.
HealthPasses ==
    /\ deploy.at = "gate" /\ marker[deploy.revision] \in ValidBackups
    /\ \/ Then("finish")
       \/ /\ deployed # NoRevision
          /\ deploy' = [deploy EXCEPT !.at = "retain", !.plan = SafeToDelete]
    /\ UNCHANGED <<backups, marker, source, deployed>>

Newest(plan) == CHOOSE i \in plan: \A j \in plan: j <= i

\* Everything is planned anew before each removal.
RemoveTree ==
    /\ deploy.at = "retain" /\ deploy.plan # {}
    /\ LET i == Newest(deploy.plan) IN
         IF i \in SafeToDelete
         THEN /\ backups' = [backups EXCEPT ![i].state = "partial"]
              /\ deploy' = [deploy EXCEPT !.at = "removed"]
         ELSE /\ deploy' = [deploy EXCEPT !.plan = @ \ {i}]
              /\ UNCHANGED backups
    /\ UNCHANGED <<marker, source, deployed>>

\* _remove_matching_marker, once the tree is gone
RemoveMarker ==
    /\ deploy.at = "removed"
    /\ LET i == Newest(deploy.plan)
           r == backups[i].revision
       IN  /\ marker' = IF marker[r] = i THEN [marker EXCEPT ![r] = 0] ELSE marker
           /\ backups' = [backups EXCEPT ![i].state = "gone"]
           /\ deploy' = [deploy EXCEPT !.at = "retain", !.plan = @ \ {i}]
    /\ UNCHANGED <<source, deployed>>

RetentionDone ==
    /\ deploy.at = "retain" /\ deploy.plan = {}
    /\ Then("finish")
    /\ UNCHANGED <<backups, marker, source, deployed>>

WriteSuccessMarker ==
    /\ deploy.at = "finish"
    /\ deployed' = deploy.revision
    /\ deploy' = NoDeploy
    /\ UNCHANGED <<backups, marker, source>>

DeployFails ==
    /\ deploy.at # "none"
    /\ deploy' = NoDeploy
    /\ UNCHANGED <<backups, marker, source, deployed>>

-----------------------------------------------------------------------------

RetentionInit ==
    /\ backups = <<>> /\ marker = [r \in Revisions |-> 0]
    /\ source = NoRevision /\ deployed = NoRevision /\ deploy = NoDeploy

RetentionNext ==
    \/ \E r \in Revisions: BeginBackup(r)
    \/ WriteManifest \/ TruncateMarker \/ WriteMarker \/ UploadSource \/ HealthPasses
    \/ RemoveTree \/ RemoveMarker \/ RetentionDone \/ WriteSuccessMarker \/ DeployFails

RetentionSpec == RetentionInit /\ [][RetentionNext]_retentionVars

-----------------------------------------------------------------------------
(* Properties                                                              *)

RetentionTypeOK ==
    /\ \A i \in DOMAIN backups: backups[i].state \in {"partial", "valid", "gone"}
    /\ \A r \in Revisions: marker[r] \in EmptyMarker..Len(backups)
    /\ deploy.plan \subseteq DOMAIN backups

\* However many deployments failed after the last one that succeeded, and wherever a
\* removal was interrupted (_execute_backup_plan): a backup of the revision last deployed
\* is there and valid, and its marker finds one, unless deploying that revision again has
\* emptied the marker (deploy.yml).
DeployedCanBeRestored ==
    deployed # NoRevision =>
        /\ \E i \in ValidBackups: backups[i].revision = deployed
        /\ marker[deployed] # EmptyMarker =>
              marker[deployed] \in ValidBackups /\ backups[marker[deployed]].revision = deployed
=============================================================================
