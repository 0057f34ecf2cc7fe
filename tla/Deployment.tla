----------------------------- MODULE Deployment -----------------------------
(***************************************************************************)
(* The deployment engine, backend/app/services/deployment_service: one     *)
(* certificate pushed to one server, any number of times.                  *)
(*                                                                         *)
(* The server is three places that every deployment of the certificate     *)
(* shares: the files the service reads, the staging directory              *)
(* /tmp/certmgr_<cert id>, and the backup directory.  A file's content is  *)
(* the deployment that uploaded it (0: what was there first), and its      *)
(* mtime a tick of the clock: backups are taken and restored with cp -a,   *)
(* which keeps the mtime, and the restored one is the first of ls -t.      *)
(*                                                                         *)
(* The chain file is handled like the key and is left out; a template is   *)
(* the set of its parts that are not empty or are switched on.             *)
(***************************************************************************)
EXTENDS Naturals, FiniteSets

CONSTANTS
  Workers,       \* processes that run deployments
  MaxDeploy,     \* bound: rows of the deployments table
  MaxQueue,      \* bound: deploy messages waiting in the broker
  Templates,     \* the deployment templates of this instance
  Eager,         \* celery_task_always_eager: requests run in the API process
  Preinstalled,  \* the server has certificate files before the first deployment
  Faults         \* what may go wrong besides a step of the deployment failing

Parts == {"backup", "script", "reload", "verify", "rollback"}
FaultKinds == {"unreachable", "restore", "abort", "crash"}

ASSUME DeployAssumption ==
  /\ MaxDeploy \in Nat
  /\ MaxQueue \in Nat
  /\ Templates \subseteq SUBSET Parts
  /\ Eager \in BOOLEAN
  /\ Preinstalled \in BOOLEAN
  /\ Faults \subseteq FaultKinds

VARIABLES
  dep,       \* the deployments table
  ndep,      \* rows created so far
  queue,     \* templates of the deploy messages not yet delivered
  remote,    \* the files the service reads
  staged,    \* the staging directory
  baks,      \* the backup directory
  clock,     \* stamps the mtime of an installed file
  worker     \* what each process is doing

vars == <<dep, ndep, queue, remote, staged, baks, clock, worker>>

Ids == 1..MaxDeploy
Files == {"cert", "key"}
DeploymentStatus == {"nil", "pending", "running", "success", "failed", "rolled_back"}
Content == [there: BOOLEAN, by: 0..MaxDeploy, at: Nat]
Backup == [there: {TRUE}, by: 0..MaxDeploy, at: Nat]
Nothing == [there |-> FALSE, by |-> 0, at |-> 0]
NoDeployment == [status |-> "nil", tmpl |-> {}, backed |-> FALSE,
                 before |-> [f \in Files |-> Nothing]]
Idle == [pc |-> "idle", id |-> 0, left |-> {}, backed |-> FALSE, msg |-> FALSE, manual |-> FALSE]

Init ==
  /\ dep = [d \in Ids |-> NoDeployment]
  /\ ndep = 0
  /\ queue = {}
  /\ remote = [f \in Files |-> [there |-> Preinstalled, by |-> 0, at |-> 0]]
  /\ staged = [f \in Files |-> Nothing]
  /\ baks = [f \in Files |-> {}]
  /\ clock = 0
  /\ worker = [w \in Workers |-> Idle]

----------------------------------------------------------------------------
(* Records and requests *)

\* Mutant: the row is inserted without a status
Mutant_CreateWithoutStatus(t) ==
  /\ ndep < MaxDeploy
  /\ ndep' = ndep + 1
  /\ dep' = [dep EXCEPT ![ndep + 1] = [NoDeployment EXCEPT !.tmpl = t]]

\* create_deployment_record
CreateRecord(t) ==
  /\ ndep < MaxDeploy
  /\ ndep' = ndep + 1
  /\ dep' = [dep EXCEPT ![ndep + 1] = [NoDeployment EXCEPT !.status = "pending", !.tmpl = t]]

\* POST /deployments in Celery mode: a record for the answer, and a message
\* that does not carry its id.
ApiDeploy(t) ==
  /\ ~Eager
  /\ Cardinality(queue) < MaxQueue
  /\ CreateRecord(t)
  /\ queue' = queue \cup {t}
  /\ UNCHANGED <<remote, staged, baks, clock, worker>>

\* deploy_certificate begins, for a message, or in the process of a request
\* (eager mode, and the retry of a deploy execution): it creates its own record.
Start(w, t) ==
  /\ worker[w].pc = "idle"
  /\ CreateRecord(t)
  /\ \E m \in BOOLEAN:
       /\ IF m THEN t \in queue /\ queue' = queue \ {t} ELSE UNCHANGED queue
       /\ worker' = [worker EXCEPT ![w] =
            [Idle EXCEPT !.pc = "begin", !.id = ndep + 1, !.msg = m]]
  /\ UNCHANGED <<remote, staged, baks, clock>>

Goto(w, pc, left) == [worker EXCEPT ![w].pc = pc, ![w].left = left]
SetStatus(w, s) == [dep EXCEPT ![worker[w].id].status = s]
Tmpl(w) == dep[worker[w].id].tmpl

\* The platform has no file for the certificate.
MaterialMissing(w) ==
  /\ worker[w].pc = "begin"
  /\ dep' = SetStatus(w, "failed")
  /\ worker' = [worker EXCEPT ![w] = Idle]
  /\ UNCHANGED <<ndep, queue, remote, staged, baks, clock>>

Run(w) ==
  /\ worker[w].pc = "begin"
  /\ dep' = SetStatus(w, "running")
  /\ worker' = Goto(w, "connect", {})
  /\ UNCHANGED <<ndep, queue, remote, staged, baks, clock>>

----------------------------------------------------------------------------
(* The workflow *)

\* The connection is open, and the pre-deploy script has run (its exit code is
\* logged and not looked at).
Connect(w) ==
  /\ worker[w].pc = "connect"
  /\ worker' = Goto(w, "stage", Files)
  /\ UNCHANGED <<dep, ndep, queue, remote, staged, baks, clock>>

AfterStaging(w) == IF "backup" \in Tmpl(w) THEN "backup" ELSE "install"

\* Files are uploaded, and replaced, certificate first.
NextFile(w, f) == f \in worker[w].left /\ ("cert" \in worker[w].left => f = "cert")

StageFile(w, f) ==
  /\ worker[w].pc = "stage"
  /\ NextFile(w, f)
  /\ staged' = [staged EXCEPT ![f] = [there |-> TRUE, by |-> worker[w].id, at |-> 0]]
  /\ worker' = IF worker[w].left = {f} THEN Goto(w, AfterStaging(w), Files)
               ELSE Goto(w, "stage", worker[w].left \ {f})
  /\ UNCHANGED <<dep, ndep, queue, remote, baks, clock>>

\* Mutant: backup_path is not noted on the record
Mutant_BackupNotNoted(w, f) ==
  /\ worker[w].pc = "backup"
  /\ NextFile(w, f)
  /\ baks' = [baks EXCEPT ![f] = IF remote[f].there THEN @ \cup {remote[f]} ELSE @]
  /\ dep' = [dep EXCEPT ![worker[w].id].before[f] = remote[f]]
  /\ worker' = IF worker[w].left = {f} THEN Goto(w, "install", Files)
               ELSE Goto(w, "backup", worker[w].left \ {f})
  /\ UNCHANGED <<ndep, queue, remote, staged, clock>>

\* Mutant: cp without -a, so that a backup is newer than the file it is a copy of
Mutant_BackupNotArchived(w, f) ==
  /\ worker[w].pc = "backup"
  /\ NextFile(w, f)
  /\ clock' = clock + 1
  /\ baks' = [baks EXCEPT ![f] = IF remote[f].there
                                 THEN @ \cup {[remote[f] EXCEPT !.at = clock + 1]} ELSE @]
  /\ dep' = [dep EXCEPT ![worker[w].id].before[f] = remote[f]]
  /\ worker' = IF worker[w].left = {f}
               THEN [Goto(w, "install", Files) EXCEPT ![w].backed = TRUE]
               ELSE Goto(w, "backup", worker[w].left \ {f})
  /\ UNCHANGED <<ndep, queue, remote, staged>>

\* Mutant: the backup directory is noted without a copy being made
Mutant_BackupNotTaken(w, f) ==
  /\ worker[w].pc = "backup"
  /\ NextFile(w, f)
  /\ dep' = [dep EXCEPT ![worker[w].id].before[f] = remote[f]]
  /\ worker' = IF worker[w].left = {f}
               THEN [Goto(w, "install", Files) EXCEPT ![w].backed = TRUE]
               ELSE Goto(w, "backup", worker[w].left \ {f})
  /\ UNCHANGED <<ndep, queue, remote, staged, baks, clock>>

\* The backup script copies each file that exists.  `before` is a history
\* variable: what this deployment found.
BackupFile(w, f) ==
  /\ worker[w].pc = "backup"
  /\ NextFile(w, f)
  /\ baks' = [baks EXCEPT ![f] = IF remote[f].there THEN @ \cup {remote[f]} ELSE @]
  /\ dep' = [dep EXCEPT ![worker[w].id].before[f] = remote[f]]
  /\ worker' = IF worker[w].left = {f}
               THEN [Goto(w, "install", Files) EXCEPT ![w].backed = TRUE]
               ELSE Goto(w, "backup", worker[w].left \ {f})
  /\ UNCHANGED <<ndep, queue, remote, staged, clock>>

InstallFile(w, f) ==
  /\ worker[w].pc = "install"
  /\ NextFile(w, f)
  /\ staged[f].there
  /\ clock' = clock + 1
  /\ remote' = [remote EXCEPT ![f] = [staged[f] EXCEPT !.at = clock + 1]]
  /\ worker' = Goto(w, "install", worker[w].left \ {f})
  /\ UNCHANGED <<dep, ndep, queue, staged, baks>>

\* Without a deploy script the engine runs the install commands itself, and
\* does not look at their exit codes.
InlineInstallFails(w, f) ==
  /\ worker[w].pc = "install"
  /\ "script" \notin Tmpl(w)
  /\ NextFile(w, f)
  /\ worker' = Goto(w, "install", worker[w].left \ {f})
  /\ UNCHANGED <<dep, ndep, queue, remote, staged, baks, clock>>

\* Post-deploy script (exit code not looked at), reload, TLS verification: the
\* last accepts any certificate valid for the domain, not only the one deployed.
Reload(w) ==
  /\ worker[w].pc = "install"
  /\ worker[w].left = {}
  /\ worker' = Goto(w, IF "verify" \in Tmpl(w) THEN "verify" ELSE "cleanup", {})
  /\ UNCHANGED <<dep, ndep, queue, remote, staged, baks, clock>>

Verify(w) ==
  /\ worker[w].pc = "verify"
  /\ worker' = Goto(w, "cleanup", {})
  /\ UNCHANGED <<dep, ndep, queue, remote, staged, baks, clock>>

\* The staging directory is removed (a failure to do so is ignored).
Succeed(w) ==
  /\ worker[w].pc = "cleanup"
  /\ \/ staged' = [f \in Files |-> Nothing]
     \/ UNCHANGED staged
  /\ dep' = [dep EXCEPT ![worker[w].id].status = "success",
                        ![worker[w].id].backed = worker[w].backed]
  /\ worker' = [worker EXCEPT ![w] = Idle]
  /\ UNCHANGED <<ndep, queue, remote, baks, clock>>

\* Mutant: an install that fails is not an error
Mutant_InstallErrorIgnored(w) ==
  \/ /\ worker[w].pc \in {"connect", "stage", "backup", "verify"}
     /\ worker' = Goto(w, "fail", {})
     /\ UNCHANGED <<dep, ndep, queue, remote, staged, baks, clock>>
  \/ /\ worker[w].pc = "install"
     /\ worker' = Goto(w, "install", {})
     /\ UNCHANGED <<dep, ndep, queue, remote, staged, baks, clock>>

\* Mutant: only SSHConnectionError is caught
Mutant_ErrorNotCaught(w) ==
  /\ worker[w].pc \in {"connect", "stage", "backup", "install", "verify"}
  /\ \/ worker' = Goto(w, "fail", {})
     \/ worker' = [worker EXCEPT ![w] = Idle]
  /\ UNCHANGED <<dep, ndep, queue, remote, staged, baks, clock>>

\* SSHConnectionError or DeploymentError: the connection is refused or lost, there
\* is no private key, a script or the reload exits non-zero, verification fails.
StepFails(w) ==
  /\ worker[w].pc \in {"connect", "stage", "backup", "install", "verify"}
  /\ worker' = Goto(w, "fail", {})
  /\ UNCHANGED <<dep, ndep, queue, remote, staged, baks, clock>>

\* Any other exception (a template that does not render, a secret that does not
\* decrypt, an SFTP error): nothing handles it, and the row stays RUNNING; or it
\* stays FAILED and is not rolled back, when the notification of the failure
\* cannot be queued.  Celery may run the message again.
Abort(w) ==
  /\ "abort" \in Faults
  /\ \/ worker[w].pc \in {"connect", "stage"}
     \/ worker[w].pc = "rollback" /\ worker[w].left = Files /\ ~worker[w].manual
  /\ worker' = [worker EXCEPT ![w] = Idle]
  /\ \/ UNCHANGED queue
     \/ worker[w].msg /\ queue' = queue \cup {Tmpl(w)}
  /\ UNCHANGED <<dep, ndep, remote, staged, baks, clock>>

Crash(w) ==
  /\ "crash" \in Faults
  /\ worker[w].pc # "idle"
  /\ worker' = [worker EXCEPT ![w] = Idle]
  /\ \/ UNCHANGED queue
     \/ worker[w].msg /\ queue' = queue \cup {Tmpl(w)}
  /\ UNCHANGED <<dep, ndep, remote, staged, baks, clock>>

----------------------------------------------------------------------------
(* Rollback *)

\* FAILED is committed first, then the rollback begins.
Fail(w) ==
  /\ worker[w].pc = "fail"
  /\ dep' = [dep EXCEPT ![worker[w].id].status = "failed",
                        ![worker[w].id].backed = worker[w].backed]
  /\ worker' = IF "rollback" \in Tmpl(w) THEN Goto(w, "rollback", Files)
               ELSE [worker EXCEPT ![w] = Idle]
  /\ UNCHANGED <<ndep, queue, remote, staged, baks, clock>>

\* POST /deployments/{id}/rollback, of a deployment in any status.  In Celery
\* mode the endpoint raises (it calls .delay on a plain function).  The row, and
\* its backup path, are the ones read when the request came in.
ManualRollback(w, d) ==
  /\ Eager
  /\ worker[w].pc = "idle"
  /\ d <= ndep
  /\ worker' = [worker EXCEPT ![w] = 
       [Idle EXCEPT !.pc = "rollback", !.id = d, !.left = Files,
                    !.backed = dep[d].backed, !.manual = TRUE]]
  /\ UNCHANGED <<dep, ndep, queue, remote, staged, baks, clock>>

\* No backup was noted: the rollback returns and the status stays.
NothingToRestore(w) ==
  /\ worker[w].pc = "rollback"
  /\ ~worker[w].backed
  /\ worker' = [worker EXCEPT ![w] = Idle]
  /\ UNCHANGED <<dep, ndep, queue, remote, staged, baks, clock>>

\* Mutant: the first backup ever made, instead of the latest
Mutant_OldestBackup(f) == CHOOSE b \in baks[f]: \A o \in baks[f]: b.at <= o.at

\* The first of ls -t
LatestBackup(f) == CHOOSE b \in baks[f]: \A o \in baks[f]: o.at <= b.at

RestoreFile(w, f) ==
  /\ worker[w].pc = "rollback"
  /\ worker[w].backed
  /\ NextFile(w, f)
  /\ remote' = [remote EXCEPT ![f] = IF baks[f] = {} THEN @ ELSE LatestBackup(f)]
  /\ worker' = Goto(w, "rollback", worker[w].left \ {f})
  /\ UNCHANGED <<dep, ndep, queue, staged, baks, clock>>

\* The copy exits non-zero: an error is logged and the rollback goes on.
RestoreFails(w, f) ==
  /\ "restore" \in Faults
  /\ worker[w].pc = "rollback"
  /\ worker[w].backed
  /\ NextFile(w, f)
  /\ worker' = Goto(w, "rollback", worker[w].left \ {f})
  /\ UNCHANGED <<dep, ndep, queue, remote, staged, baks, clock>>

RollbackCommit(w) ==
  /\ worker[w].pc = "rollback"
  /\ worker[w].backed
  /\ worker[w].left = {}
  /\ dep' = SetStatus(w, "rolled_back")
  /\ worker' = [worker EXCEPT ![w] = Idle]
  /\ UNCHANGED <<ndep, queue, remote, staged, baks, clock>>

\* The server cannot be reached, for the whole rollback or for the rest of it:
\* the deployment is marked rolled back.
RollbackUnreachable(w) ==
  /\ "unreachable" \in Faults
  /\ worker[w].pc = "rollback"
  /\ dep' = SetStatus(w, "rolled_back")
  /\ worker' = [worker EXCEPT ![w] = Idle]
  /\ UNCHANGED <<ndep, queue, remote, staged, baks, clock>>

Step(w) ==
  \/ MaterialMissing(w) \/ Run(w) \/ Connect(w) \/ Reload(w) \/ Verify(w)
  \/ \E f \in Files: \/ StageFile(w, f) \/ BackupFile(w, f) \/ InstallFile(w, f)
                     \/ InlineInstallFails(w, f) \/ RestoreFile(w, f)
                     \/ RestoreFails(w, f)
  \/ StepFails(w) \/ Succeed(w) \/ Fail(w)
  \/ NothingToRestore(w) \/ RollbackCommit(w) \/ RollbackUnreachable(w)

Next ==
  \/ \E t \in Templates: ApiDeploy(t)
  \/ \E w \in Workers:
       \/ Step(w) \/ Abort(w) \/ Crash(w)
       \/ \E t \in Templates: Start(w, t)
       \/ \E d \in Ids: ManualRollback(w, d)

Spec == Init /\ [][Next]_vars

\* Every step of a deployment ends (connections and commands have timeouts), and
\* a waiting message is taken by a worker.
FairSpec ==
  /\ Spec
  /\ \A w \in Workers: WF_vars(Step(w))
  /\ WF_vars(\E w \in Workers, t \in Templates: t \in queue /\ Start(w, t))

----------------------------------------------------------------------------
(* Properties *)

Pcs == {"idle", "begin", "connect", "stage", "backup", "install", "verify",
        "cleanup", "fail", "rollback"}
Row == [status: DeploymentStatus, tmpl: SUBSET Parts, backed: BOOLEAN,
        before: [Files -> Content]]
Process == [pc: Pcs, id: 0..MaxDeploy, left: SUBSET Files,
            backed: BOOLEAN, msg: BOOLEAN, manual: BOOLEAN]

\* The table, the server's directories and the processes hold what they should;
\* the rows created so far, and no others, have a status.
TypeOK ==
  /\ dep \in [Ids -> Row]
  /\ ndep \in 0..MaxDeploy
  /\ \A d \in Ids: dep[d].status = "nil" <=> d > ndep
  /\ queue \subseteq Templates
  /\ remote \in [Files -> Content]
  /\ staged \in [Files -> Content]
  /\ baks \in [Files -> SUBSET Backup]
  /\ clock \in Nat
  /\ worker \in [Workers -> Process]

\* "Rollback automatically if any step fails": a deployment with a deploy script
\* becomes SUCCESS only when both files on the server are the ones it uploaded.
\* (The inline install ignores its errors, and may replace nothing.)
SuccessMeansInstalled ==
  [][\A d \in Ids: /\ dep[d].status = "running" /\ dep'[d].status = "success"
                   /\ "script" \in dep[d].tmpl
       => \A f \in Files: remote[f].there /\ remote[f].by = d]_vars

\* The automatic rollback that marks a deployment ROLLED_BACK has put back what
\* the deployment found, although it restores the latest backup of each file and
\* not the ones this deployment took, and earlier rollbacks were cut off half way.
\* (One that is cut off itself is marked ROLLED_BACK too, with files left as they are.)
RollbackRestores ==
  [][\A w \in Workers: /\ worker[w].pc = "rollback" /\ worker[w].backed /\ ~worker[w].manual
                       /\ worker[w].left = {}
                       /\ dep'[worker[w].id].status = "rolled_back"
       => \A f \in Files: remote[f] = dep[worker[w].id].before[f]]_vars

\* A deployment that ends as FAILED (its rollback found no backup to restore)
\* has replaced nothing on the server.
FailedLeavesNothing ==
  [][\A w \in Workers: worker[w].pc = "rollback" /\ worker'[w].pc = "idle"
       /\ dep'[worker[w].id].status = "failed"
       => \A f \in Files: remote[f].by # worker[w].id]_vars

\* ls -t finds the right file because no backup is ever newer than the installed
\* file: cp -a keeps the mtime both ways.  Holds with any overlap of deployments.
NoBackupIsNewer ==
  \A f \in Files: \A b \in baks[f]: remote[f].there /\ b.at <= remote[f].at

\* What the server had before the first deployment is never lost, with any overlap
\* of deployments, crash or failed step: it is in place or in the backup directory.
OriginalKept ==
  Preinstalled => \A f \in Files:
    remote[f].by = 0 \/ \E b \in baks[f]: b.by = 0

\* The record of a deployment reaches a final status.
DeploymentEnds ==
  \A d \in Ids: dep[d].status \in {"pending", "running"}
                  ~> dep[d].status \in {"success", "failed", "rolled_back"}
=============================================================================
