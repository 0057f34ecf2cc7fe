-------------------------- MODULE DeploymentProofs --------------------------
(***************************************************************************)
(* Proofs about Deployment, for any templates and bounds.                  *)
(*                                                                         *)
(* TypeCorrect, NothingNewer and OriginalSurvives hold with any number of  *)
(* processes and any faults.  What the status of a row says of the server  *)
(* (SuccessIsInstalled, RollbackIsComplete, FailureIsHarmless) holds when  *)
(* deployments do not overlap: they share the staging directory.           *)
(***************************************************************************)
EXTENDS Deployment, TLAPS

\* A process works on a row that exists, and rows have the templates of requests.
SessionInv == \A w \in Workers: worker[w].pc # "idle" => worker[w].id \in 1..ndep
TemplateInv == \A d \in 1..ndep: dep[d].tmpl \in Templates

Base == TypeOK /\ SessionInv /\ TemplateInv

\* A backup directory that is not empty has a newest file.
MtimeInv ==
  /\ \A f \in Files: remote[f].at <= clock
  /\ \A f \in Files: baks[f] # {} => \E b \in baks[f]: \A o \in baks[f]: o.at <= b.at
  /\ NoBackupIsNewer

\* A process has staged file f, or may replace it now, or has replaced it.
HasStaged(w, f) ==
  worker[w].pc \in {"backup", "install"} \/ (worker[w].pc = "stage" /\ f \notin worker[w].left)
MayReplace(w, f) ==
  worker[w].pc = "install" \/ (worker[w].pc = "backup" /\ f \notin worker[w].left)
HasInstalled(w, f) ==
  worker[w].pc \in {"verify", "cleanup"} \/ (worker[w].pc = "install" /\ f \notin worker[w].left)

\* The original of a file that may be replaced has been backed up.
Saved(f) == \E b \in baks[f]: b.by = 0
KeptOK(f) ==
  /\ remote[f].there
  /\ staged[f].there => staged[f].by # 0
  /\ remote[f].by # 0 => Saved(f)
  /\ baks[f] # {} => Saved(f)
  /\ \A w \in Workers: MayReplace(w, f) => Saved(f)
KeptInv == \A f \in Files: KeptOK(f)

OneWorker == \A v, w \in Workers: v = w
AlwaysBackup == \A t \in Templates: "backup" \in t

\* What a deployment has staged and installed is its own.
OwnOK(w, f) ==
  /\ HasStaged(w, f) => staged[f].there /\ staged[f].by = worker[w].id
  /\ HasInstalled(w, f) =>
       ("script" \in Tmpl(w) => remote[f].there /\ remote[f].by = worker[w].id)
OwnInv == \A w \in Workers, f \in Files: OwnOK(w, f)

\* An mtime tells which of its copies a file is.
DistinctInv ==
  \A f \in Files: \A b \in baks[f]:
    /\ b.at = remote[f].at => b = remote[f]
    /\ \A c \in baks[f]: b.at = c.at => b = c

\* The newest backup is the one the deployment took, and is put back.
Found(w, f) == dep[worker[w].id].before[f]
HasBackup(w, f) ==
  /\ ~worker[w].manual
  /\ worker[w].backed \/ (worker[w].pc = "backup" /\ f \notin worker[w].left)
FoundOK(w, f) ==
  /\ remote[f].there
  /\ worker[w].manual => worker[w].pc = "rollback"
  /\ worker[w].backed => worker[w].pc \in {"install", "verify", "cleanup", "fail", "rollback"}
  /\ HasBackup(w, f) => Found(w, f) \in baks[f] /\ \A o \in baks[f]: o.at <= Found(w, f).at
  /\ HasBackup(w, f) /\ worker[w].pc = "rollback" /\ f \notin worker[w].left
       => remote[f] = Found(w, f)
FoundInv == \A w \in Workers, f \in Files: FoundOK(w, f)

\* Nothing of deployment d has been installed.
Untouched(d) == \A f \in Files: remote[f].by # d /\ \A b \in baks[f]: b.by # d
HarmlessOK(w) ==
  /\ worker[w].pc \in {"begin", "connect", "stage", "backup"} => Untouched(worker[w].id)
  /\ worker[w].pc \in {"fail", "rollback"} /\ ~worker[w].manual /\ ~worker[w].backed
       => Untouched(worker[w].id)
  /\ worker[w].pc \in {"install", "verify", "cleanup"} => worker[w].backed
  /\ worker[w].pc \in {"connect", "stage", "backup", "install", "verify", "cleanup", "fail"}
       => dep[worker[w].id].status = "running"
  /\ worker[w].pc = "begin" => dep[worker[w].id].status = "pending"
  /\ worker[w].manual => worker[w].pc = "rollback"
  /\ worker[w].pc = "rollback" => dep[worker[w].id].backed = worker[w].backed
HarmlessInv ==
  /\ \A w \in Workers: HarmlessOK(w)
  /\ \A d \in Ids: dep[d].status = "nil" => Untouched(d)
  /\ \A d \in Ids: dep[d].status = "failed" /\ ~dep[d].backed => Untouched(d)

----------------------------------------------------------------------------
(* Types *)

\* The process of w takes its next step, or ends; the others wait.
Moved(w, pc, left, backed) ==
  /\ worker' \in [Workers -> Process]
  /\ \A v \in Workers: v # w => worker'[v] = worker[v]
  /\ worker'[w].pc = pc
  /\ worker'[w].left = left
  /\ worker'[w].backed = backed
  /\ worker'[w].id = worker[w].id
  /\ worker'[w].msg = worker[w].msg
  /\ worker'[w].manual = worker[w].manual

Ended(w) ==
  /\ worker' \in [Workers -> Process]
  /\ \A v \in Workers: v # w => worker'[v] = worker[v]
  /\ worker'[w] = Idle

\* In both cases it goes on with the same row or with none.
Goes(w) ==
  /\ worker' \in [Workers -> Process]
  /\ \A v \in Workers: v # w => worker'[v] = worker[v]
  /\ worker'[w].pc = "idle" \/ worker'[w].id = worker[w].id

\* Goto moves one process and keeps what it works on.
LEMMA GotoMoves ==
  ASSUME TypeOK, NEW w \in Workers, NEW pc \in Pcs, NEW left \in SUBSET Files,
         worker' = Goto(w, pc, left)
  PROVE  Moved(w, pc, left, worker[w].backed)
  BY DEF TypeOK, Goto, Moved, Process

\* The last step of the backup also notes the backup.
LEMMA GotoBacked ==
  ASSUME TypeOK, NEW w \in Workers, NEW pc \in Pcs, NEW left \in SUBSET Files,
         worker' = [Goto(w, pc, left) EXCEPT ![w].backed = TRUE]
  PROVE  Moved(w, pc, left, TRUE)
<1> DEFINE p == worker[w]
           g == [p EXCEPT !.pc = pc, !.left = left]
           b == [g EXCEPT !.backed = TRUE]
<1>1. worker \in [Workers -> Process] /\ p \in Process
  BY DEF TypeOK
<1>2. g \in Process
  BY <1>1 DEF Process
<1>3. b \in Process /\ b.backed = TRUE
  BY <1>2 DEF Process
<1>4. b.pc = pc /\ b.left = left /\ b.id = p.id /\ b.msg = p.msg /\ b.manual = p.manual
  BY <1>1, <1>2 DEF Process
<1>5. Goto(w, pc, left) = [worker EXCEPT ![w] = g]
  BY <1>1 DEF Goto
<1>6. worker' = [worker EXCEPT ![w] = b]
  BY <1>1, <1>5
<1> HIDE DEF b
<1> QED BY <1>1, <1>3, <1>4, <1>6 DEF Moved

\* A process that ends is idle.
LEMMA IdleEnds ==
  ASSUME TypeOK, NEW w \in Workers, worker' = [worker EXCEPT ![w] = Idle]
  PROVE  Ended(w)
<1>1. Idle \in Process
  BY DeployAssumption DEF Idle, Process, Pcs
<1> QED BY <1>1 DEF TypeOK, Ended

\* A process works on one of the rows.
LEMMA Working ==
  ASSUME Base, NEW w \in Workers, worker[w].pc # "idle"
  PROVE  /\ worker[w].id \in 1..ndep /\ worker[w].id \in Ids
         /\ dep[worker[w].id] \in Row /\ dep[worker[w].id].status # "nil"
         /\ Tmpl(w) \in Templates
<1>1. worker[w].id \in 1..ndep /\ ndep \in 0..MaxDeploy /\ MaxDeploy \in Nat
  BY DeployAssumption DEF Base, SessionInv, TypeOK
<1>2. worker[w].id \in Ids
  BY <1>1 DEF Ids
<1>3. dep[worker[w].id] \in Row
  BY <1>2 DEF Base, TypeOK
<1>4. ~(worker[w].id > ndep)
  BY <1>1
<1>5. dep[worker[w].id].status # "nil"
  BY <1>2, <1>4 DEF Base, TypeOK
<1> QED BY <1>1, <1>2, <1>3, <1>5 DEF Base, TemplateInv, Tmpl

\* Only the row of the process changes: it keeps its template and has a status.
RowSet(w) ==
  /\ dep' \in [Ids -> Row]
  /\ \A d \in Ids: d # worker[w].id => dep'[d] = dep[d]
  /\ dep'[worker[w].id].status # "nil"
  /\ dep'[worker[w].id].tmpl = dep[worker[w].id].tmpl

LEMMA StatusSet ==
  ASSUME Base, NEW w \in Workers, worker[w].pc # "idle",
         NEW s \in DeploymentStatus \ {"nil"}, dep' = SetStatus(w, s)
  PROVE  /\ RowSet(w) /\ dep'[worker[w].id].status = s
         /\ dep'[worker[w].id].backed = dep[worker[w].id].backed
         /\ dep'[worker[w].id].before = dep[worker[w].id].before
  BY Working DEF SetStatus, RowSet, Base, TypeOK, Row

LEMMA OutcomeSet ==
  ASSUME Base, NEW w \in Workers, worker[w].pc # "idle",
         NEW s \in DeploymentStatus \ {"nil"},
         dep' = [dep EXCEPT ![worker[w].id].status = s,
                            ![worker[w].id].backed = worker[w].backed]
  PROVE  /\ RowSet(w) /\ dep'[worker[w].id].status = s
         /\ dep'[worker[w].id].backed = worker[w].backed
         /\ dep'[worker[w].id].before = dep[worker[w].id].before
<1> DEFINE d == worker[w].id
           b == worker[w].backed
           r == [dep[d] EXCEPT !.status = s, !.backed = b]
<1>1. dep \in [Ids -> Row] /\ d \in Ids /\ dep[d] \in Row /\ b \in BOOLEAN
  BY Working DEF Base, TypeOK, Process
<1>2. dep' = [dep EXCEPT ![d] = r]
  BY <1>1
<1>3. r \in Row
  BY <1>1 DEF Row
<1>4. r.status = s /\ r.backed = b /\ r.before = dep[d].before /\ r.tmpl = dep[d].tmpl
  BY <1>1 DEF Row
<1> HIDE DEF r, b
<1>5. dep'[d] = r /\ \A e \in Ids: e # d => dep'[e] = dep[e]
  BY <1>1, <1>2
<1>6. dep' \in [Ids -> Row]
  BY <1>1, <1>2, <1>3
<1> QED BY <1>4, <1>5, <1>6 DEF RowSet, b

LEMMA BeforeSet ==
  ASSUME Base, NEW w \in Workers, worker[w].pc # "idle", NEW f \in Files,
         dep' = [dep EXCEPT ![worker[w].id].before[f] = remote[f]]
  PROVE  /\ RowSet(w)
         /\ dep'[worker[w].id].status = dep[worker[w].id].status
         /\ dep'[worker[w].id].backed = dep[worker[w].id].backed
         /\ dep'[worker[w].id].before[f] = remote[f]
         /\ \A g \in Files: g # f => dep'[worker[w].id].before[g] = dep[worker[w].id].before[g]
<1> DEFINE r == dep[worker[w].id]
           s == [r EXCEPT !.before = [r.before EXCEPT ![f] = remote[f]]]
<1>1. worker[w].id \in Ids /\ r \in Row /\ r.status # "nil" /\ remote[f] \in Content
  BY Working DEF Base, TypeOK
<1>2. dep' = [dep EXCEPT ![worker[w].id] = s]
  OBVIOUS
<1>3. [r.before EXCEPT ![f] = remote[f]] \in [Files -> Content]
  BY <1>1 DEF Row
<1>4. s \in Row /\ s.status = r.status /\ s.backed = r.backed /\ s.tmpl = r.tmpl
      /\ s.before = [r.before EXCEPT ![f] = remote[f]]
  BY <1>1, <1>3 DEF Row
<1>5. s.before[f] = remote[f] /\ \A g \in Files: g # f => s.before[g] = r.before[g]
  BY <1>1, <1>4 DEF Row
<1> HIDE DEF s
<1>6. dep' \in [Ids -> Row] /\ dep'[worker[w].id] = s
      /\ \A d \in Ids: d # worker[w].id => dep'[d] = dep[d]
  BY <1>1, <1>2, <1>4 DEF Base, TypeOK
<1> QED BY <1>1, <1>4, <1>5, <1>6 DEF RowSet

\* A step of a process keeps the base, whatever it does to the server.
LEMMA StepBase ==
  ASSUME Base, NEW w \in Workers, worker[w].pc # "idle",
         Goes(w), UNCHANGED dep \/ RowSet(w), UNCHANGED ndep,
         queue' \subseteq Templates, clock' \in Nat,
         remote' \in [Files -> Content], staged' \in [Files -> Content],
         baks' \in [Files -> SUBSET Backup]
  PROVE  Base'
<1>1. /\ worker[w].id \in 1..ndep /\ worker[w].id \in Ids
      /\ dep[worker[w].id].status # "nil" /\ ndep \in 0..MaxDeploy /\ MaxDeploy \in Nat
  BY Working, DeployAssumption DEF Base, TypeOK
<1>2. /\ worker' \in [Workers -> Process]
      /\ \A v \in Workers: v # w => worker'[v] = worker[v]
      /\ worker'[w].pc = "idle" \/ worker'[w].id = worker[w].id
  BY DEF Goes
<1>3. /\ dep' \in [Ids -> Row]
      /\ \A d \in Ids: dep'[d].status = "nil" <=> dep[d].status = "nil"
      /\ \A d \in Ids: dep'[d].tmpl = dep[d].tmpl
  <2>1. CASE UNCHANGED dep BY <2>1 DEF Base, TypeOK
  <2>2. CASE RowSet(w) BY <2>2, <1>1 DEF RowSet
  <2> QED BY <2>1, <2>2
<1>4. \A d \in Ids: dep'[d].status = "nil" <=> d > ndep
  BY <1>3 DEF Base, TypeOK
<1>5. TypeOK'
  BY <1>2, <1>3, <1>4 DEF Base, TypeOK
<1>6. SessionInv'
  BY <1>1, <1>2 DEF Base, SessionInv
<1>7. TemplateInv'
  BY <1>1, <1>3 DEF Base, TemplateInv, Ids
<1> QED BY <1>5, <1>6, <1>7 DEF Base

\* Row d keeps its columns, or only the status and the backup path may change.
RowIs(d, status, backed) ==
  dep'[d].status = status /\ dep'[d].backed = backed /\ dep'[d].before = dep[d].before

\* What each step does to the process and to its row
LEMMA Shapes ==
  ASSUME Base, NEW w \in Workers
  PROVE  /\ MaterialMissing(w) => /\ Ended(w) /\ RowSet(w)
                                  /\ RowIs(worker[w].id, "failed", dep[worker[w].id].backed)
         /\ Run(w) => /\ Moved(w, "connect", {}, worker[w].backed) /\ RowSet(w)
                      /\ RowIs(worker[w].id, "running", dep[worker[w].id].backed)
         /\ Connect(w) => Moved(w, "stage", Files, worker[w].backed)
         /\ \A f \in Files: StageFile(w, f) =>
              IF worker[w].left = {f} THEN Moved(w, AfterStaging(w), Files, worker[w].backed)
              ELSE Moved(w, "stage", worker[w].left \ {f}, worker[w].backed)
         /\ \A f \in Files: BackupFile(w, f) =>
              IF worker[w].left = {f} THEN Moved(w, "install", Files, TRUE)
              ELSE Moved(w, "backup", worker[w].left \ {f}, worker[w].backed)
         /\ \A f \in Files: InstallFile(w, f) \/ InlineInstallFails(w, f) =>
              Moved(w, "install", worker[w].left \ {f}, worker[w].backed)
         /\ Reload(w) => \/ Moved(w, "verify", {}, worker[w].backed)
                         \/ Moved(w, "cleanup", {}, worker[w].backed)
         /\ Verify(w) => Moved(w, "cleanup", {}, worker[w].backed)
         /\ Succeed(w) => /\ Ended(w) /\ RowSet(w)
                          /\ RowIs(worker[w].id, "success", worker[w].backed)
         /\ StepFails(w) => Moved(w, "fail", {}, worker[w].backed)
         /\ Fail(w) => /\ Ended(w) \/ Moved(w, "rollback", Files, worker[w].backed)
                       /\ RowSet(w) /\ RowIs(worker[w].id, "failed", worker[w].backed)
         /\ NothingToRestore(w) \/ Abort(w) \/ Crash(w) => Ended(w)
         /\ \A f \in Files: RestoreFile(w, f) \/ RestoreFails(w, f) =>
              Moved(w, "rollback", worker[w].left \ {f}, worker[w].backed)
         /\ RollbackCommit(w) \/ RollbackUnreachable(w) =>
              /\ Ended(w) /\ RowSet(w)
              /\ RowIs(worker[w].id, "rolled_back", dep[worker[w].id].backed)
<1> USE DEF RowIs
<1>0. /\ TypeOK /\ Files \in SUBSET Files /\ {} \in SUBSET Files
      /\ \A f \in Files: worker[w].left \ {f} \in SUBSET Files
      /\ \A pc \in {"connect", "stage", "backup", "install", "verify", "cleanup", "fail",
                    "rollback"}: pc \in Pcs
      /\ \A s \in {"running", "success", "failed", "rolled_back"}:
           s \in DeploymentStatus \ {"nil"}
  BY DEF Base, TypeOK, Process, Pcs, DeploymentStatus
<1>1. MaterialMissing(w) => /\ Ended(w) /\ RowSet(w)
                            /\ RowIs(worker[w].id, "failed", dep[worker[w].id].backed)
  BY <1>0, IdleEnds, StatusSet DEF MaterialMissing
<1>2. Run(w) => /\ Moved(w, "connect", {}, worker[w].backed) /\ RowSet(w)
                /\ RowIs(worker[w].id, "running", dep[worker[w].id].backed)
  BY <1>0, GotoMoves, StatusSet DEF Run
<1>3. Connect(w) => Moved(w, "stage", Files, worker[w].backed)
  BY <1>0, GotoMoves DEF Connect
<1>4. \A f \in Files: StageFile(w, f) =>
        IF worker[w].left = {f} THEN Moved(w, AfterStaging(w), Files, worker[w].backed)
        ELSE Moved(w, "stage", worker[w].left \ {f}, worker[w].backed)
  <2>1. AfterStaging(w) \in Pcs
    BY <1>0 DEF AfterStaging
  <2> QED BY <1>0, <2>1, GotoMoves DEF StageFile
<1>5. \A f \in Files: BackupFile(w, f) =>
        IF worker[w].left = {f} THEN Moved(w, "install", Files, TRUE)
        ELSE Moved(w, "backup", worker[w].left \ {f}, worker[w].backed)
  BY <1>0, GotoMoves, GotoBacked DEF BackupFile
<1>6. \A f \in Files: InstallFile(w, f) \/ InlineInstallFails(w, f) =>
        Moved(w, "install", worker[w].left \ {f}, worker[w].backed)
  BY <1>0, GotoMoves DEF InstallFile, InlineInstallFails
<1>7. Reload(w) => \/ Moved(w, "verify", {}, worker[w].backed)
                   \/ Moved(w, "cleanup", {}, worker[w].backed)
  <2>1. CASE "verify" \in Tmpl(w)
    BY <2>1, <1>0, GotoMoves DEF Reload
  <2>2. CASE "verify" \notin Tmpl(w)
    BY <2>2, <1>0, GotoMoves DEF Reload
  <2> QED BY <2>1, <2>2
<1>8. Verify(w) => Moved(w, "cleanup", {}, worker[w].backed)
  BY <1>0, GotoMoves DEF Verify
<1>9. Succeed(w) => /\ Ended(w) /\ RowSet(w)
                    /\ RowIs(worker[w].id, "success", worker[w].backed)
  BY <1>0, IdleEnds, OutcomeSet DEF Succeed
<1>10. StepFails(w) => Moved(w, "fail", {}, worker[w].backed)
  BY <1>0, GotoMoves DEF StepFails
<1>11. Fail(w) => /\ Ended(w) \/ Moved(w, "rollback", Files, worker[w].backed)
                  /\ RowSet(w) /\ RowIs(worker[w].id, "failed", worker[w].backed)
  <2>1. Fail(w) => RowSet(w) /\ RowIs(worker[w].id, "failed", worker[w].backed)
    BY <1>0, OutcomeSet DEF Fail
  <2>2. Fail(w) => Ended(w) \/ Moved(w, "rollback", Files, worker[w].backed)
    BY <1>0, IdleEnds, GotoMoves DEF Fail
  <2> QED BY <2>1, <2>2
<1>12. NothingToRestore(w) \/ Abort(w) \/ Crash(w) => Ended(w)
  BY <1>0, IdleEnds DEF NothingToRestore, Abort, Crash
<1>13. \A f \in Files: RestoreFile(w, f) \/ RestoreFails(w, f) =>
         Moved(w, "rollback", worker[w].left \ {f}, worker[w].backed)
  BY <1>0, GotoMoves DEF RestoreFile, RestoreFails
<1>14. RollbackCommit(w) \/ RollbackUnreachable(w) =>
         /\ Ended(w) /\ RowSet(w)
         /\ RowIs(worker[w].id, "rolled_back", dep[worker[w].id].backed)
  BY <1>0, IdleEnds, StatusSet DEF RollbackCommit, RollbackUnreachable
<1> QED BY <1>1, <1>2, <1>3, <1>4, <1>5, <1>6, <1>7, <1>8, <1>9, <1>10, <1>11, <1>12,
           <1>13, <1>14

\* A row is added; its backup path is empty.
Created(t) ==
  /\ ndep' = ndep + 1
  /\ ndep + 1 \in Ids
  /\ dep' \in [Ids -> Row]
  /\ \A d \in Ids: d # ndep + 1 => dep'[d] = dep[d]
  /\ dep'[ndep + 1].status = "pending"
  /\ dep'[ndep + 1].tmpl = t
  /\ dep'[ndep + 1].backed = FALSE

LEMMA RecordCreated ==
  ASSUME Base, NEW t \in Templates, CreateRecord(t)
  PROVE  Created(t) /\ ndep' \in 0..MaxDeploy
<1> DEFINE r == [NoDeployment EXCEPT !.status = "pending", !.tmpl = t]
<1>1. ndep \in 0..MaxDeploy /\ MaxDeploy \in Nat /\ ndep < MaxDeploy /\ t \in SUBSET Parts
  BY DeployAssumption DEF Base, TypeOK, CreateRecord
<1>2. ndep + 1 \in Ids /\ ndep + 1 \in 0..MaxDeploy
  BY <1>1 DEF Ids
<1>3. Nothing \in Content
  BY <1>1 DEF Nothing, Content
<1>4. [f \in Files |-> Nothing] \in [Files -> Content]
  BY <1>3
<1>5. r \in Row /\ r.status = "pending" /\ r.tmpl = t /\ r.backed = FALSE
  BY <1>1, <1>4 DEF Row, NoDeployment, DeploymentStatus
<1>6. dep' = [dep EXCEPT ![ndep + 1] = r] /\ ndep' = ndep + 1
  BY DEF CreateRecord
<1> HIDE DEF r
<1> QED BY <1>2, <1>5, <1>6 DEF Created, Base, TypeOK

LEMMA CreatedBase ==
  ASSUME Base, NEW t \in Templates, Created(t), ndep' \in 0..MaxDeploy,
         worker' \in [Workers -> Process],
         \A v \in Workers: \/ worker'[v] = worker[v]
                           \/ worker'[v].id = ndep + 1
                           \/ worker'[v].pc = "idle",
         queue' \subseteq Templates, UNCHANGED <<remote, staged, baks, clock>>
  PROVE  Base'
<1>1. ndep \in Nat /\ ndep' = ndep + 1
  BY DEF Base, TypeOK, Created
<1>2. \A d \in Ids: dep'[d].status = "nil" <=> d > ndep'
  <2> SUFFICES ASSUME NEW d \in Ids PROVE dep'[d].status = "nil" <=> d > ndep'
    OBVIOUS
  <2>1. d \in Nat BY DEF Ids
  <2>2. CASE d = ndep + 1
    BY <1>1, <2>2 DEF Created
  <2>3. CASE d # ndep + 1
    <3>1. dep'[d] = dep[d] /\ (dep[d].status = "nil" <=> d > ndep)
      BY <2>3 DEF Created, Base, TypeOK
    <3>2. d > ndep <=> d > ndep'
      BY <1>1, <2>1, <2>3
    <3> QED BY <3>1, <3>2
  <2> QED BY <2>2, <2>3
<1>3. TypeOK'
  BY <1>2 DEF Base, TypeOK, Created
<1>4. SessionInv'
  <2> SUFFICES ASSUME NEW v \in Workers, worker'[v].pc # "idle"
               PROVE  worker'[v].id \in 1..ndep'
    BY DEF SessionInv
  <2>1. CASE worker'[v] = worker[v]
    BY <2>1, <1>1 DEF Base, SessionInv
  <2>2. CASE worker'[v].id = ndep + 1
    BY <2>2, <1>1
  <2> QED BY <2>1, <2>2
<1>5. TemplateInv'
  <2> SUFFICES ASSUME NEW d \in 1..ndep' PROVE dep'[d].tmpl \in Templates
    BY DEF TemplateInv
  <2>1. CASE d = ndep + 1
    BY <2>1 DEF Created
  <2>2. CASE d # ndep + 1
    <3>1. d \in 1..ndep /\ d \in Ids
      BY <2>2, <1>1, DeployAssumption DEF Ids, Base, TypeOK
    <3> QED BY <3>1, <2>2 DEF Created, Base, TemplateInv
  <2> QED BY <2>1, <2>2
<1> QED BY <1>3, <1>4, <1>5 DEF Base

\* The process of w begins with row d.
Begun(w, pc, d, backed, manual) ==
  /\ worker' \in [Workers -> Process]
  /\ \A v \in Workers: v # w => worker'[v] = worker[v]
  /\ worker'[w].pc = pc /\ worker'[w].id = d
  /\ worker'[w].backed = backed /\ worker'[w].manual = manual
  /\ manual => worker'[w].left = Files

LEMMA StartBegins ==
  ASSUME Base, NEW w \in Workers, NEW t \in Templates, Start(w, t)
  PROVE  Begun(w, "begin", ndep + 1, FALSE, FALSE) /\ Created(t) /\ queue' \subseteq Templates
<1>1. Created(t) /\ ndep + 1 \in 0..MaxDeploy
  BY RecordCreated DEF Start, Created
<1>2. PICK m \in BOOLEAN:
        /\ IF m THEN t \in queue /\ queue' = queue \ {t} ELSE UNCHANGED queue
        /\ worker' = [worker EXCEPT ![w] = [Idle EXCEPT !.pc = "begin", !.id = ndep + 1, !.msg = m]]
  BY DEF Start
<1> DEFINE p == [Idle EXCEPT !.pc = "begin", !.id = ndep + 1, !.msg = m]
<1>3. p \in Process /\ p.pc = "begin" /\ p.id = ndep + 1 /\ p.backed = FALSE /\ p.manual = FALSE
  BY <1>1 DEF Idle, Process, Pcs
<1> HIDE DEF p
<1>4. worker' = [worker EXCEPT ![w] = p]
  BY <1>2 DEF p
<1> QED BY <1>1, <1>2, <1>3, <1>4 DEF Begun, Base, TypeOK

LEMMA ManualBegins ==
  ASSUME Base, NEW w \in Workers, NEW d \in Ids, ManualRollback(w, d)
  PROVE  Begun(w, "rollback", d, dep[d].backed, TRUE) /\ d \in 1..ndep
<1>1. d \in 1..ndep /\ d \in 0..MaxDeploy
  BY DeployAssumption DEF ManualRollback, Ids, Base, TypeOK
<1> DEFINE p == [Idle EXCEPT !.pc = "rollback", !.id = d, !.left = Files,
                             !.backed = dep[d].backed, !.manual = TRUE]
<1>2. dep[d].backed \in BOOLEAN
  BY DEF Base, TypeOK, Row
<1>3. p \in Process /\ p.pc = "rollback" /\ p.id = d /\ p.backed = dep[d].backed
      /\ p.manual = TRUE /\ p.left = Files
  BY <1>1, <1>2 DEF Idle, Process, Pcs
<1>4. worker' = [worker EXCEPT ![w] = p]
  BY DEF ManualRollback
<1> HIDE DEF p
<1> QED BY <1>1, <1>3, <1>4 DEF Begun, Base, TypeOK

\* ls -t finds a newest backup.
LEMMA Newest ==
  ASSUME MtimeInv, NEW f \in Files, baks[f] # {}
  PROVE  LatestBackup(f) \in baks[f] /\ \A o \in baks[f]: o.at <= LatestBackup(f).at
<1>1. \E b \in baks[f]: \A o \in baks[f]: o.at <= b.at
  BY DEF MtimeInv
<1> QED BY <1>1 DEF LatestBackup

\* What the steps write to the server has the type of a file.
LEMMA ServerTypes ==
  ASSUME Base, MtimeInv, NEW w \in Workers, NEW f \in Files
  PROVE  /\ StageFile(w, f) => staged' \in [Files -> Content]
         /\ BackupFile(w, f) => baks' \in [Files -> SUBSET Backup]
         /\ InstallFile(w, f) => remote' \in [Files -> Content] /\ clock' \in Nat
         /\ RestoreFile(w, f) => remote' \in [Files -> Content]
<1>1. /\ remote \in [Files -> Content] /\ staged \in [Files -> Content]
      /\ baks \in [Files -> SUBSET Backup] /\ clock \in Nat /\ worker[w].id \in 0..MaxDeploy
  BY DEF Base, TypeOK, Process
<1>2. Backup \subseteq Content
  BY DEF Backup, Content
<1>3. StageFile(w, f) => staged' \in [Files -> Content]
  <2>1. [there |-> TRUE, by |-> worker[w].id, at |-> 0] \in Content
    BY <1>1 DEF Content
  <2> QED BY <1>1, <2>1 DEF StageFile
<1>4. BackupFile(w, f) => baks' \in [Files -> SUBSET Backup]
  <2>1. remote[f].there => remote[f] \in Backup
    BY <1>1 DEF Backup, Content
  <2>2. (IF remote[f].there THEN baks[f] \cup {remote[f]} ELSE baks[f]) \in SUBSET Backup
    BY <1>1, <2>1
  <2> QED BY <1>1, <2>2 DEF BackupFile
<1>5. InstallFile(w, f) => remote' \in [Files -> Content] /\ clock' \in Nat
  <2>1. clock + 1 \in Nat BY <1>1
  <2>2. [staged[f] EXCEPT !.at = clock + 1] \in Content
    BY <1>1, <2>1 DEF Content
  <2> QED BY <1>1, <2>1, <2>2 DEF InstallFile
<1>6. RestoreFile(w, f) => remote' \in [Files -> Content]
  <2>1. (IF baks[f] = {} THEN remote[f] ELSE LatestBackup(f)) \in Content
    BY <1>1, <1>2, Newest
  <2> QED BY <1>1, <2>1 DEF RestoreFile
<1> QED BY <1>3, <1>4, <1>5, <1>6

\* Every step keeps the types, and a process works on a row that exists.
LEMMA BaseStep ==
  ASSUME Base, MtimeInv, Next
  PROVE  Base'
<1>0. /\ remote \in [Files -> Content] /\ staged \in [Files -> Content]
      /\ baks \in [Files -> SUBSET Backup] /\ clock \in Nat
      /\ queue \subseteq Templates /\ worker \in [Workers -> Process]
      /\ TRUE \in BOOLEAN
  BY DEF Base, TypeOK
<1>a. \A w \in Workers:
        /\ Ended(w) => Goes(w)
        /\ \A pc, left, backed: Moved(w, pc, left, backed) => Goes(w)
  BY DEF Ended, Moved, Goes, Idle
<1>1. ASSUME NEW t \in Templates, ApiDeploy(t) PROVE Base'
  <2>1. Created(t) /\ ndep' \in 0..MaxDeploy
    BY <1>1, RecordCreated DEF ApiDeploy
  <2> QED BY <1>0, <1>1, <2>1, CreatedBase DEF ApiDeploy
<1>2. ASSUME NEW w \in Workers, NEW t \in Templates, Start(w, t) PROVE Base'
  <2>1. Created(t) /\ ndep' \in 0..MaxDeploy
    BY <1>2, RecordCreated DEF Start
  <2> QED BY <1>0, <1>2, <2>1, StartBegins, CreatedBase DEF Start, Begun
<1>3. ASSUME NEW w \in Workers, NEW d \in Ids, ManualRollback(w, d) PROVE Base'
  <2>1. Begun(w, "rollback", d, dep[d].backed, TRUE) /\ d \in 1..ndep
    BY <1>3, ManualBegins
  <2>2. TypeOK'
    BY <2>1, <1>3 DEF ManualRollback, Begun, Base, TypeOK
  <2>3. SessionInv'
    BY <2>1, <1>3 DEF ManualRollback, Begun, Base, SessionInv
  <2>4. TemplateInv'
    BY <1>3 DEF ManualRollback, Base, TemplateInv
  <2> QED BY <2>2, <2>3, <2>4 DEF Base
<1>4. ASSUME NEW w \in Workers, Step(w) \/ Abort(w) \/ Crash(w) PROVE Base'
  <2>1. CASE MaterialMissing(w)
    BY <2>1, <1>0, <1>a, Shapes, StepBase DEF MaterialMissing
  <2>2. CASE Run(w)
    BY <2>2, <1>0, <1>a, Shapes, StepBase DEF Run
  <2>3. CASE Connect(w)
    BY <2>3, <1>0, <1>a, Shapes, StepBase DEF Connect
  <2>4. CASE Reload(w)
    BY <2>4, <1>0, <1>a, Shapes, StepBase DEF Reload
  <2>5. CASE Verify(w)
    BY <2>5, <1>0, <1>a, Shapes, StepBase DEF Verify
  <2>6. ASSUME NEW f \in Files, StageFile(w, f) PROVE Base'
    <3>1. Goes(w)
      BY <2>6, <1>a, Shapes
    <3>2. worker[w].pc # "idle" /\ UNCHANGED <<dep, ndep, queue, remote, baks, clock>>
      BY <2>6 DEF StageFile
    <3>3. staged' \in [Files -> Content]
      BY <2>6, ServerTypes
    <3> QED BY <3>1, <3>2, <3>3, <1>0, StepBase
  <2>7. ASSUME NEW f \in Files, BackupFile(w, f) PROVE Base'
    <3>1. Goes(w)
      BY <2>7, <1>a, Shapes
    <3>2. worker[w].pc # "idle" /\ UNCHANGED <<ndep, queue, remote, staged, clock>>
      BY <2>7 DEF BackupFile
    <3>3. baks' \in [Files -> SUBSET Backup]
      BY <2>7, ServerTypes
    <3>4. RowSet(w)
      BY <2>7, <3>2, BeforeSet DEF BackupFile
    <3> QED BY <3>1, <3>2, <3>3, <3>4, <1>0, StepBase
  <2>8. ASSUME NEW f \in Files, InstallFile(w, f) PROVE Base'
    <3>1. Goes(w)
      BY <2>8, <1>a, Shapes
    <3>2. worker[w].pc # "idle" /\ UNCHANGED <<dep, ndep, queue, staged, baks>>
      BY <2>8 DEF InstallFile
    <3>3. remote' \in [Files -> Content] /\ clock' \in Nat
      BY <2>8, ServerTypes
    <3> QED BY <3>1, <3>2, <3>3, <1>0, StepBase
  <2>9. ASSUME NEW f \in Files, InlineInstallFails(w, f) \/ RestoreFails(w, f) PROVE Base'
    <3>1. Goes(w)
      BY <2>9, <1>a, Shapes
    <3>2. worker[w].pc # "idle" /\ UNCHANGED <<dep, ndep, queue, remote, staged, baks, clock>>
      BY <2>9 DEF InlineInstallFails, RestoreFails
    <3> QED BY <3>1, <3>2, <1>0, StepBase
  <2>10. ASSUME NEW f \in Files, RestoreFile(w, f) PROVE Base'
    <3>1. Goes(w)
      BY <2>10, <1>a, Shapes
    <3>2. worker[w].pc # "idle" /\ UNCHANGED <<dep, ndep, queue, staged, baks, clock>>
      BY <2>10 DEF RestoreFile
    <3>3. remote' \in [Files -> Content]
      BY <2>10, ServerTypes
    <3> QED BY <3>1, <3>2, <3>3, <1>0, StepBase
  <2>11. CASE StepFails(w)
    BY <2>11, <1>0, <1>a, Shapes, StepBase DEF StepFails
  <2>12. CASE Succeed(w)
    <3>1. [f \in Files |-> Nothing] \in [Files -> Content]
      BY DeployAssumption DEF Nothing, Content
    <3>2. staged' \in [Files -> Content]
      BY <2>12, <3>1, <1>0 DEF Succeed
    <3> QED BY <2>12, <3>2, <1>0, <1>a, Shapes, StepBase DEF Succeed
  <2>13. CASE Fail(w)
    BY <2>13, <1>0, <1>a, Shapes, StepBase DEF Fail
  <2>14. CASE NothingToRestore(w)
    BY <2>14, <1>0, <1>a, Shapes, StepBase DEF NothingToRestore
  <2>15. CASE RollbackCommit(w) \/ RollbackUnreachable(w)
    BY <2>15, <1>0, <1>a, Shapes, StepBase DEF RollbackCommit, RollbackUnreachable
  <2>16. CASE Abort(w) \/ Crash(w)
    <3>1. worker[w].pc # "idle" /\ Goes(w)
      BY <2>16, <1>a, Shapes DEF Abort, Crash
    <3>2. queue' \subseteq Templates
      BY <2>16, <3>1, <1>0, Working DEF Abort, Crash
    <3> QED BY <2>16, <3>1, <3>2, <1>0, StepBase DEF Abort, Crash
  <2> QED BY <1>4, <2>1, <2>2, <2>3, <2>4, <2>5, <2>6, <2>7, <2>8, <2>9, <2>10, <2>11,
             <2>12, <2>13, <2>14, <2>15, <2>16 DEF Step
<1> QED BY <1>1, <1>2, <1>3, <1>4 DEF Next

----------------------------------------------------------------------------
(* The backup directory *)

\* Three steps change the installed files or the backups.
LEMMA ServerSteps ==
  ASSUME Next
  PROVE  \/ UNCHANGED <<remote, baks, clock>>
         \/ \E w \in Workers, f \in Files:
              BackupFile(w, f) \/ InstallFile(w, f) \/ RestoreFile(w, f)
<1>1. ASSUME NEW w \in Workers, Step(w)
      PROVE  \/ UNCHANGED <<remote, baks, clock>>
             \/ \E f \in Files: BackupFile(w, f) \/ InstallFile(w, f) \/ RestoreFile(w, f)
  BY <1>1 DEF Step, MaterialMissing, Run, Connect, Reload, Verify, StageFile,
              InlineInstallFails, RestoreFails, StepFails, Succeed, Fail, NothingToRestore,
              RollbackCommit, RollbackUnreachable
<1> QED BY <1>1 DEF Next, ApiDeploy, Abort, Crash, Start, ManualRollback

\* What they do to file f; the other files stay as they are.
LEMMA ServerWrites ==
  ASSUME Base, MtimeInv, NEW w \in Workers, NEW f \in Files
  PROVE  /\ BackupFile(w, f) =>
              /\ UNCHANGED <<remote, clock>>
              /\ \A g \in Files: g # f => baks'[g] = baks[g]
              /\ baks'[f] = IF remote[f].there THEN baks[f] \cup {remote[f]} ELSE baks[f]
         /\ InstallFile(w, f) =>
              /\ UNCHANGED baks /\ clock' = clock + 1
              /\ \A g \in Files: g # f => remote'[g] = remote[g]
              /\ remote'[f].there /\ staged[f].there
              /\ remote'[f].by = staged[f].by /\ remote'[f].at = clock + 1
         /\ RestoreFile(w, f) =>
              /\ UNCHANGED <<baks, clock>>
              /\ \A g \in Files: g # f => remote'[g] = remote[g]
              /\ remote'[f] = IF baks[f] = {} THEN remote[f] ELSE LatestBackup(f)
<1>1. remote \in [Files -> Content] /\ baks \in [Files -> SUBSET Backup] /\ staged[f] \in Content
  BY DEF Base, TypeOK
<1>2. [staged[f] EXCEPT !.at = clock + 1].there = staged[f].there
      /\ [staged[f] EXCEPT !.at = clock + 1].by = staged[f].by
      /\ [staged[f] EXCEPT !.at = clock + 1].at = clock + 1
  BY <1>1 DEF Content
<1> QED BY <1>1, <1>2 DEF BackupFile, InstallFile, RestoreFile

\* Numbers of the mtimes
LEMMA Mtimes ==
  ASSUME Base
  PROVE  /\ clock \in Nat
         /\ \A f \in Files: remote[f].at \in Nat /\ remote[f].there \in BOOLEAN
         /\ \A f \in Files: \A b \in baks[f]: b.at \in Nat /\ b.there = TRUE
<1>1. \A b \in Backup: b.at \in Nat /\ b.there = TRUE
  BY DEF Backup
<1>2. \A c \in Content: c.at \in Nat /\ c.there \in BOOLEAN
  BY DEF Content
<1> QED BY <1>1, <1>2 DEF Base, TypeOK

\* No backup becomes newer than the installed file.
LEMMA MtimeStep ==
  ASSUME Base, MtimeInv, Next
  PROVE  MtimeInv'
<1>1. CASE UNCHANGED <<remote, baks, clock>>
  BY <1>1 DEF MtimeInv, NoBackupIsNewer
<1>2. ASSUME NEW w \in Workers, NEW f \in Files, BackupFile(w, f) PROVE MtimeInv'
  <2>1. /\ UNCHANGED <<remote, clock>>
        /\ \A g \in Files: g # f => baks'[g] = baks[g]
        /\ baks'[f] = IF remote[f].there THEN baks[f] \cup {remote[f]} ELSE baks[f]
    BY <1>2, ServerWrites
  <2>2. NoBackupIsNewer'
    <3> SUFFICES ASSUME NEW g \in Files, NEW b \in baks'[g]
                 PROVE  remote[g].there /\ b.at <= remote[g].at
      BY <2>1 DEF NoBackupIsNewer
    <3>1. CASE b \in baks[g] BY <3>1 DEF MtimeInv, NoBackupIsNewer
    <3>2. CASE b \notin baks[g]
      <4>1. g = f /\ remote[f].there /\ b = remote[f]
        BY <3>2, <2>1
      <4> QED BY <4>1, Mtimes
    <3> QED BY <3>1, <3>2
  <2>3. ASSUME NEW g \in Files, baks'[g] # {}
        PROVE  \E b \in baks'[g]: \A o \in baks'[g]: o.at <= b.at
    <3>1. CASE g = f /\ remote[f].there
      <4>1. remote[f] \in baks'[g]
        BY <3>1, <2>1
      <4>2. \A o \in baks'[g]: o.at <= remote[f].at
        BY <3>1, <2>1, <2>2 DEF NoBackupIsNewer
      <4> QED BY <4>1, <4>2
    <3>2. CASE ~(g = f /\ remote[f].there)
      BY <3>2, <2>1, <2>3 DEF MtimeInv
    <3> QED BY <3>1, <3>2
  <2> QED BY <2>1, <2>2, <2>3 DEF MtimeInv
<1>3. ASSUME NEW w \in Workers, NEW f \in Files, InstallFile(w, f) PROVE MtimeInv'
  <2>1. /\ UNCHANGED baks /\ clock' = clock + 1
        /\ \A g \in Files: g # f => remote'[g] = remote[g]
        /\ remote'[f].there /\ remote'[f].at = clock + 1
    BY <1>3, ServerWrites
  <2>2. \A g \in Files: remote'[g].at <= clock'
    BY <2>1, Mtimes DEF MtimeInv
  <2>3. NoBackupIsNewer'
    <3> SUFFICES ASSUME NEW g \in Files, NEW b \in baks[g]
                 PROVE  remote'[g].there /\ b.at <= remote'[g].at
      BY <2>1 DEF NoBackupIsNewer
    <3>1. remote[g].there /\ b.at <= remote[g].at /\ remote[g].at <= clock
      BY DEF MtimeInv, NoBackupIsNewer
    <3>2. CASE g = f
      <4>1. remote'[g].at = clock + 1 /\ remote'[g].there
        BY <2>1, <3>2
      <4>2. b.at \in Nat /\ remote[g].at \in Nat /\ clock \in Nat
        BY Mtimes
      <4>3. b.at <= clock + 1
        BY <3>1, <4>2
      <4> QED BY <4>1, <4>3
    <3> QED BY <2>1, <3>1, <3>2
  <2> QED BY <2>1, <2>2, <2>3 DEF MtimeInv
<1>4. ASSUME NEW w \in Workers, NEW f \in Files, RestoreFile(w, f) PROVE MtimeInv'
  <2>1. /\ UNCHANGED <<baks, clock>>
        /\ \A g \in Files: g # f => remote'[g] = remote[g]
        /\ remote'[f] = IF baks[f] = {} THEN remote[f] ELSE LatestBackup(f)
    BY <1>4, ServerWrites
  <2>2. CASE baks[f] = {}
    <3>1. \A g \in Files: remote'[g] = remote[g]
      BY <2>1, <2>2
    <3> QED BY <2>1, <3>1 DEF MtimeInv, NoBackupIsNewer
  <2>3. CASE baks[f] # {}
    <3>1. /\ remote'[f] \in baks[f]
          /\ \A o \in baks[f]: o.at <= remote'[f].at
      BY <2>1, <2>3, Newest
    <3>2. remote'[f].at <= clock
      <4>1. remote'[f].at <= remote[f].at /\ remote[f].at <= clock
        BY <3>1 DEF MtimeInv, NoBackupIsNewer
      <4>2. remote'[f].at \in Nat /\ remote[f].at \in Nat /\ clock \in Nat
        BY <3>1, Mtimes
      <4> QED BY <4>1, <4>2
    <3>3. remote'[f].there
      BY <3>1, Mtimes
    <3>4. NoBackupIsNewer'
      BY <2>1, <3>1, <3>3 DEF MtimeInv, NoBackupIsNewer
    <3> QED BY <2>1, <3>2, <3>4 DEF MtimeInv
  <2> QED BY <2>2, <2>3
<1> QED BY <1>1, <1>2, <1>3, <1>4, ServerSteps

\* At the start the server has its files, and no backups.
LEMMA BaseInit ==
  ASSUME Init
  PROVE  Base /\ MtimeInv
<1>1. MaxDeploy \in Nat /\ Preinstalled \in BOOLEAN
  BY DeployAssumption
<1>2. Nothing \in Content /\ [there |-> Preinstalled, by |-> 0, at |-> 0] \in Content
  BY <1>1 DEF Nothing, Content
<1>3. NoDeployment \in Row /\ NoDeployment.status = "nil"
  <2>1. [f \in Files |-> Nothing] \in [Files -> Content]
    BY <1>2
  <2> QED BY <2>1 DEF NoDeployment, Row, DeploymentStatus
<1>4. Idle \in Process /\ Idle.pc = "idle"
  BY <1>1 DEF Idle, Process, Pcs
<1>5. \A d \in Ids: d > 0
  BY <1>1 DEF Ids
<1>6. dep \in [Ids -> Row] /\ (\A d \in Ids: dep[d].status = "nil" <=> d > ndep)
  BY <1>3, <1>5 DEF Init
<1>7. TypeOK
  BY <1>1, <1>2, <1>4, <1>6 DEF Init, TypeOK
<1>8. SessionInv /\ TemplateInv
  BY <1>4 DEF Init, SessionInv, TemplateInv
<1>9. \A f \in Files: remote[f].at = 0 /\ baks[f] = {}
  BY DEF Init
<1>10. MtimeInv
  BY <1>9 DEF Init, MtimeInv, NoBackupIsNewer
<1> QED BY <1>7, <1>8, <1>10 DEF Base

LEMMA BaseKept ==
  ASSUME Base, MtimeInv, [Next]_vars
  PROVE  Base' /\ MtimeInv'
<1>1. CASE Next
  BY <1>1, BaseStep, MtimeStep
<1>2. CASE UNCHANGED vars
  BY <1>2 DEF vars, Base, TypeOK, SessionInv, TemplateInv, MtimeInv, NoBackupIsNewer
<1> QED BY <1>1, <1>2

LEMMA BaseAlways == Spec => [](Base /\ MtimeInv)
  BY BaseInit, BaseKept, PTL DEF Spec

\* The table, the server's directories and the processes hold what they should, with
\* any number of deployments at once (deploy_certificate).
THEOREM TypeCorrect == Spec => []TypeOK
<1>1. Base => TypeOK
  BY DEF Base
<1> QED BY <1>1, BaseAlways, PTL

\* No backup is ever newer than the installed file (cp -a in the backup and restore
\* scripts), with any overlap of deployments and rollbacks: ls -t finds the file
\* that was replaced last.
THEOREM NothingNewer == Spec => []NoBackupIsNewer
<1>1. MtimeInv => NoBackupIsNewer
  BY DEF MtimeInv
<1> QED BY <1>1, BaseAlways, PTL

----------------------------------------------------------------------------
(* The original *)

\* A file may be replaced only after it has been backed up, by templates that say so.
LEMMA Replacing ==
  ASSUME Base, AlwaysBackup, Next, NEW v \in Workers, NEW f \in Files, MayReplace(v, f)'
  PROVE  MayReplace(v, f) \/ BackupFile(v, f)
<1>1. ASSUME NEW t \in Templates, ApiDeploy(t) PROVE MayReplace(v, f)
  BY <1>1 DEF ApiDeploy, MayReplace
<1>2. ASSUME NEW w \in Workers, NEW t \in Templates, Start(w, t) PROVE MayReplace(v, f)
  BY <1>2, StartBegins DEF Begun, MayReplace
<1>3. ASSUME NEW w \in Workers, NEW d \in Ids, ManualRollback(w, d) PROVE MayReplace(v, f)
  BY <1>3, ManualBegins DEF Begun, MayReplace
<1>4. ASSUME NEW w \in Workers, Step(w) \/ Abort(w) \/ Crash(w), v # w PROVE MayReplace(v, f)
  <2>1. worker'[v] = worker[v]
    BY <1>4, Shapes DEF Step, Moved, Ended
  <2> QED BY <2>1 DEF MayReplace
<1>5. ASSUME Step(v) \/ Abort(v) \/ Crash(v) PROVE MayReplace(v, f) \/ BackupFile(v, f)
  <2>1. ASSUME NEW g \in Files, StageFile(v, g) PROVE FALSE
    <3>1. Tmpl(v) \in Templates
      BY <2>1, Working DEF StageFile
    <3>2. AfterStaging(v) = "backup"
      BY <3>1 DEF AlwaysBackup, AfterStaging
    <3> QED BY <2>1, <3>2, Shapes DEF Moved, MayReplace
  <2>2. ASSUME NEW g \in Files, BackupFile(v, g) PROVE MayReplace(v, f) \/ BackupFile(v, f)
    <3>1. CASE g = f BY <3>1, <2>2
    <3>2. CASE g # f
      <4>1. f \notin worker[v].left
        <5>1. CASE worker[v].left = {g} BY <5>1, <3>2
        <5>2. CASE worker[v].left # {g}
          <6>1. worker'[v].pc = "backup" /\ worker'[v].left = worker[v].left \ {g}
            BY <5>2, <2>2, Shapes DEF Moved
          <6> QED BY <3>2, <6>1 DEF MayReplace
        <5> QED BY <5>1, <5>2
      <4> QED BY <4>1, <2>2 DEF BackupFile, MayReplace
    <3> QED BY <3>1, <3>2
  <2>3. ASSUME NEW g \in Files, InstallFile(v, g) \/ InlineInstallFails(v, g) PROVE MayReplace(v, f)
    BY <2>3 DEF InstallFile, InlineInstallFails, MayReplace
  <2>4. ASSUME NEW g \in Files, RestoreFile(v, g) \/ RestoreFails(v, g) PROVE FALSE
    BY <2>4, Shapes DEF Moved, MayReplace
  <2>5. \/ \E g \in Files: \/ StageFile(v, g) \/ BackupFile(v, g) \/ InstallFile(v, g)
                           \/ InlineInstallFails(v, g) \/ RestoreFile(v, g)
                           \/ RestoreFails(v, g)
        \/ worker'[v].pc \in {"idle", "connect", "verify", "cleanup", "fail", "rollback"}
        \/ worker'[v].pc = "stage"
    <3>0. Ended(v) => worker'[v].pc = "idle"
      BY DEF Ended, Idle
    <3>1. MaterialMissing(v) \/ Succeed(v) \/ NothingToRestore(v) \/ RollbackCommit(v)
          \/ RollbackUnreachable(v) \/ Abort(v) \/ Crash(v) => worker'[v].pc = "idle"
      BY <3>0, Shapes
    <3>2. Run(v) \/ Connect(v) => worker'[v].pc \in {"connect", "stage"}
      BY Shapes DEF Moved
    <3>3. Reload(v) \/ Verify(v) \/ StepFails(v) => worker'[v].pc \in {"verify", "cleanup", "fail"}
      BY Shapes DEF Moved
    <3>4. Fail(v) => worker'[v].pc \in {"idle", "rollback"}
      BY <3>0, Shapes DEF Moved
    <3> QED BY <1>5, <3>1, <3>2, <3>3, <3>4 DEF Step
  <2>6. worker'[v].pc \in {"install", "backup"}
    BY DEF MayReplace
  <2> QED BY <2>1, <2>2, <2>3, <2>4, <2>5, <2>6
<1> QED BY <1>1, <1>2, <1>3, <1>4, <1>5 DEF Next

\* What is staged was uploaded by a deployment.
LEMMA StagingStep ==
  ASSUME Base, Next, NEW f \in Files, staged[f].there => staged[f].by # 0
  PROVE  staged'[f].there => staged'[f].by # 0
<1>1. ASSUME NEW w \in Workers, NEW g \in Files, StageFile(w, g)
      PROVE  staged'[f].there => staged'[f].by # 0
  <2>1. worker[w].id \in 1..ndep /\ worker[w].id # 0
    BY <1>1, Working DEF StageFile, Base, TypeOK
  <2>2. staged' = [staged EXCEPT ![g] = [there |-> TRUE, by |-> worker[w].id, at |-> 0]]
    BY <1>1 DEF StageFile
  <2> QED BY <2>1, <2>2 DEF Base, TypeOK
<1>2. ASSUME NEW w \in Workers, Succeed(w)
      PROVE  staged'[f].there => staged'[f].by # 0
  BY <1>2 DEF Succeed, Nothing
<1>3. \/ UNCHANGED staged
      \/ \E w \in Workers: Succeed(w)
      \/ \E w \in Workers, g \in Files: StageFile(w, g)
  <2>1. ASSUME NEW w \in Workers, Step(w)
        PROVE  UNCHANGED staged \/ Succeed(w) \/ \E g \in Files: StageFile(w, g)
    BY <2>1 DEF Step, MaterialMissing, Run, Connect, Reload, Verify, BackupFile, InstallFile,
                InlineInstallFails, RestoreFile, RestoreFails, StepFails, Fail,
                NothingToRestore, RollbackCommit, RollbackUnreachable
  <2> QED BY <2>1 DEF Next, ApiDeploy, Start, ManualRollback, Abort, Crash
<1> QED BY <1>1, <1>2, <1>3

LEMMA KeptStep ==
  ASSUME Preinstalled, AlwaysBackup, Base, MtimeInv, KeptInv, Next
  PROVE  KeptInv'
<1> SUFFICES ASSUME NEW f \in Files PROVE KeptOK(f)'
  BY DEF KeptInv
<1>0. KeptOK(f)
  BY DEF KeptInv
<1>1. staged'[f].there => staged'[f].by # 0
  BY <1>0, StagingStep DEF KeptOK
<1>2. ASSUME Saved(f)', remote'[f].there PROVE KeptOK(f)'
  BY <1>1, <1>2 DEF KeptOK
<1>3. ASSUME UNCHANGED <<remote[f], baks[f]>>, \A v \in Workers: ~BackupFile(v, f)
      PROVE  KeptOK(f)'
  <2>1. \A v \in Workers: MayReplace(v, f)' => MayReplace(v, f)
    BY <1>3, Replacing
  <2> QED BY <1>0, <1>1, <1>3, <2>1 DEF KeptOK, Saved
<1>4. CASE \E v \in Workers: BackupFile(v, f)
  <2>1. PICK v \in Workers: BackupFile(v, f) BY <1>4
  <2>2. UNCHANGED remote /\ baks'[f] = baks[f] \cup {remote[f]}
    BY <2>1, <1>0, ServerWrites DEF KeptOK
  <2>3. Saved(f)'
    <3>1. CASE remote[f].by = 0
      BY <2>2, <3>1 DEF Saved
    <3>2. CASE remote[f].by # 0
      BY <2>2, <3>2, <1>0 DEF Saved, KeptOK
    <3> QED BY <3>1, <3>2
  <2> QED BY <2>2, <2>3, <1>0, <1>2 DEF KeptOK
<1>5. ASSUME \A v \in Workers: ~BackupFile(v, f),
             NEW w \in Workers, NEW g \in Files, BackupFile(w, g)
      PROVE  KeptOK(f)'
  <2>1. UNCHANGED <<remote[f], baks[f]>>
    BY <1>5, ServerWrites
  <2> QED BY <2>1, <1>3, <1>5
<1>6. ASSUME \A v \in Workers: ~BackupFile(v, f),
             NEW w \in Workers, NEW g \in Files, InstallFile(w, g)
      PROVE  KeptOK(f)'
  <2>1. CASE g = f
    <3>1. Saved(f)
      BY <1>6, <1>0 DEF KeptOK, MayReplace, InstallFile
    <3> QED BY <1>2, <1>6, <2>1, <3>1, ServerWrites DEF Saved
  <2>2. CASE g # f
    BY <1>3, <1>6, <2>2, ServerWrites
  <2> QED BY <2>1, <2>2
<1>7. ASSUME \A v \in Workers: ~BackupFile(v, f),
             NEW w \in Workers, NEW g \in Files, RestoreFile(w, g)
      PROVE  KeptOK(f)'
  <2>1. CASE g = f /\ baks[f] # {}
    <3>1. UNCHANGED baks /\ remote'[f] \in baks[f]
      BY <1>7, <2>1, ServerWrites, Newest
    <3>2. remote'[f].there
      BY <3>1, Mtimes
    <3>3. Saved(f)
      BY <2>1, <1>0 DEF KeptOK
    <3> QED BY <1>2, <3>1, <3>2, <3>3 DEF Saved
  <2>2. CASE g # f \/ baks[f] = {}
    <3>1. UNCHANGED <<remote[f], baks[f]>>
      BY <1>7, <2>2, ServerWrites
    <3> QED BY <3>1, <1>3, <1>7
  <2> QED BY <2>1, <2>2
<1>8. CASE UNCHANGED <<remote, baks, clock>>
  BY <1>3, <1>4, <1>8
<1> QED BY <1>4, <1>5, <1>6, <1>7, <1>8, ServerSteps

LEMMA KeptInit ==
  ASSUME Init, Preinstalled
  PROVE  KeptInv
<1>1. \A f \in Files: /\ remote[f].there /\ remote[f].by = 0
                      /\ ~staged[f].there /\ baks[f] = {}
  BY DEF Init, Nothing
<1>2. \A w \in Workers, f \in Files: ~MayReplace(w, f)
  BY DEF Init, Idle, MayReplace
<1> QED BY <1>1, <1>2 DEF KeptInv, KeptOK

\* The files that were on the server before the first deployment are never lost when
\* templates make backups: they are in place or in the backup directory, with any
\* overlap of deployments, crashes, failed steps and rollbacks cut off half way.
THEOREM OriginalSurvives ==
  ASSUME AlwaysBackup
  PROVE  Spec => []OriginalKept
<1> DEFINE Inv == Preinstalled => KeptInv
<1>1. Init => Inv
  BY KeptInit
<1>2. Base /\ MtimeInv /\ Inv /\ [Next]_vars => Inv'
  <2> SUFFICES ASSUME Base, MtimeInv, Inv, [Next]_vars, Preinstalled PROVE KeptInv'
    OBVIOUS
  <2>1. CASE Next BY <2>1, KeptStep
  <2>2. CASE UNCHANGED vars
    BY <2>2 DEF vars, KeptInv, KeptOK, Saved, MayReplace
  <2> QED BY <2>1, <2>2
<1>3. Inv => OriginalKept
  BY DEF OriginalKept, KeptInv, KeptOK, Saved
<1> QED BY <1>1, <1>2, <1>3, BaseAlways, PTL DEF Spec

----------------------------------------------------------------------------
(* One deployment at a time *)

\* A step that is not one of the workflow's own leaves the workflow.
LEMMA Leaving ==
  ASSUME Base, NEW w \in Workers
  PROVE  /\ MaterialMissing(w) \/ Succeed(w) \/ NothingToRestore(w) \/ RollbackCommit(w)
            \/ RollbackUnreachable(w) \/ Abort(w) \/ Crash(w) => worker'[w].pc = "idle"
         /\ Run(w) => worker'[w].pc = "connect"
         /\ StepFails(w) => worker'[w].pc = "fail"
         /\ Fail(w) => worker'[w].pc \in {"idle", "rollback"}
         /\ \A f \in Files: RestoreFile(w, f) \/ RestoreFails(w, f) => worker'[w].pc = "rollback"
         /\ \A t \in Templates: Start(w, t) => worker'[w].pc = "begin"
         /\ \A d \in Ids: ManualRollback(w, d) => worker'[w].pc = "rollback"
<1>1. Ended(w) => worker'[w].pc = "idle"
  BY DEF Ended, Idle
<1>2. MaterialMissing(w) \/ Succeed(w) \/ NothingToRestore(w) \/ RollbackCommit(w)
      \/ RollbackUnreachable(w) \/ Abort(w) \/ Crash(w) => worker'[w].pc = "idle"
  BY <1>1, Shapes
<1>3. /\ Run(w) => worker'[w].pc = "connect"
      /\ StepFails(w) => worker'[w].pc = "fail"
  BY Shapes DEF Moved
<1>4. Fail(w) => worker'[w].pc \in {"idle", "rollback"}
  BY <1>1, Shapes DEF Moved
<1>5. \A f \in Files: RestoreFile(w, f) \/ RestoreFails(w, f) => worker'[w].pc = "rollback"
  BY Shapes DEF Moved
<1>6. \A t \in Templates: Start(w, t) => worker'[w].pc = "begin"
  BY StartBegins DEF Begun
<1>7. \A d \in Ids: ManualRollback(w, d) => worker'[w].pc = "rollback"
  BY ManualBegins DEF Begun
<1> QED BY <1>2, <1>3, <1>4, <1>5, <1>6, <1>7

\* The template of a row never changes.
LEMMA TemplateKept ==
  ASSUME Base, Next, NEW d \in 1..ndep
  PROVE  d \in Ids /\ dep'[d].tmpl = dep[d].tmpl
<1>0. d \in Ids /\ d # ndep + 1
  BY DeployAssumption DEF Base, TypeOK, Ids
<1>1. ASSUME NEW t \in Templates, CreateRecord(t) PROVE dep'[d] = dep[d]
  BY <1>0, <1>1, RecordCreated DEF Created
<1>2. ASSUME NEW w \in Workers, RowSet(w) PROVE dep'[d].tmpl = dep[d].tmpl
  BY <1>0, <1>2 DEF RowSet
<1>3. ASSUME NEW w \in Workers, Step(w) PROVE UNCHANGED dep \/ RowSet(w)
  <2>1. \A f \in Files: BackupFile(w, f) => RowSet(w)
    BY BeforeSet DEF BackupFile
  <2>2. /\ MaterialMissing(w) \/ Run(w) \/ Succeed(w) \/ Fail(w) => RowSet(w)
        /\ RollbackCommit(w) \/ RollbackUnreachable(w) => RowSet(w)
    BY Shapes
  <2> QED BY <1>3, <2>1, <2>2 DEF Step, Connect, Reload, Verify, StageFile, InstallFile,
             InlineInstallFails, RestoreFile, RestoreFails, StepFails, NothingToRestore
<1> QED BY <1>0, <1>1, <1>2, <1>3 DEF Next, ApiDeploy, Start, ManualRollback, Abort, Crash

\* What a deployment stages and installs stays its own when no other one runs.
LEMMA OwnStep ==
  ASSUME OneWorker, Base, MtimeInv, OwnInv, Next
  PROVE  OwnInv'
<1> SUFFICES ASSUME NEW w \in Workers, NEW f \in Files PROVE OwnOK(w, f)'
  BY DEF OwnInv
<1>0. OwnOK(w, f)
  BY DEF OwnInv
<1>1. ASSUME worker'[w].pc \in {"idle", "begin", "connect", "fail", "rollback"}
      PROVE  OwnOK(w, f)'
  BY <1>1 DEF OwnOK, HasStaged, HasInstalled
<1>2. worker[w].pc # "idle" /\ worker'[w].id = worker[w].id => Tmpl(w)' = Tmpl(w)
  BY Working, TemplateKept DEF Tmpl
<1>3. ASSUME NEW t \in Templates, ApiDeploy(t) PROVE OwnOK(w, f)'
  <2>1. UNCHANGED <<remote, staged, worker>>
    BY <1>3 DEF ApiDeploy
  <2>2. CASE worker[w].pc = "idle" BY <1>1, <2>1, <2>2
  <2>3. CASE worker[w].pc # "idle"
    <3>1. Tmpl(w)' = Tmpl(w) BY <1>2, <2>1, <2>3
    <3> QED BY <1>0, <2>1, <3>1 DEF OwnOK, HasStaged, HasInstalled
  <2> QED BY <2>2, <2>3
<1>4. ASSUME Connect(w) PROVE OwnOK(w, f)'
  <2>1. worker'[w].pc = "stage" /\ worker'[w].left = Files
    BY <1>4, Shapes DEF Moved
  <2> QED BY <2>1 DEF OwnOK, HasStaged, HasInstalled
<1>5. ASSUME NEW g \in Files, StageFile(w, g) PROVE OwnOK(w, f)'
  <2>1. worker[w].pc = "stage" /\ staged \in [Files -> Content]
    BY <1>5 DEF StageFile, Base, TypeOK
  <2>2. staged' = [staged EXCEPT ![g] = [there |-> TRUE, by |-> worker[w].id, at |-> 0]]
    BY <1>5 DEF StageFile
  <2>3. /\ worker'[w].id = worker[w].id
        /\ \/ worker'[w].pc \in {"backup", "install"} /\ worker'[w].left = Files
              /\ worker[w].left = {g}
           \/ worker'[w].pc = "stage" /\ worker'[w].left = worker[w].left \ {g}
    BY <1>5, Shapes DEF Moved, AfterStaging
  <2>4. ~HasInstalled(w, f)'
    BY <2>3 DEF HasInstalled
  <2>5. CASE f = g
    BY <2>1, <2>2, <2>3, <2>4, <2>5 DEF OwnOK
  <2>6. CASE f # g
    <3>1. HasStaged(w, f)' => HasStaged(w, f)
      BY <2>1, <2>3, <2>6 DEF HasStaged
    <3> QED BY <1>0, <2>1, <2>2, <2>3, <2>4, <2>6, <3>1 DEF OwnOK
  <2> QED BY <2>5, <2>6
<1>6. ASSUME NEW g \in Files, BackupFile(w, g) PROVE OwnOK(w, f)'
  <2>1. HasStaged(w, f) /\ UNCHANGED staged
    BY <1>6 DEF BackupFile, HasStaged
  <2>2. /\ worker'[w].id = worker[w].id
        /\ worker'[w].pc = "backup" \/ (worker'[w].pc = "install" /\ worker'[w].left = Files)
    BY <1>6, Shapes DEF Moved
  <2>3. ~HasInstalled(w, f)'
    BY <2>2 DEF HasInstalled
  <2> QED BY <1>0, <2>1, <2>2, <2>3 DEF OwnOK
<1>7. ASSUME NEW g \in Files, InstallFile(w, g) PROVE OwnOK(w, f)'
  <2>1. HasStaged(w, f) /\ UNCHANGED staged /\ worker[w].pc = "install"
    BY <1>7 DEF InstallFile, HasStaged
  <2>2. /\ worker'[w].id = worker[w].id /\ worker'[w].pc = "install"
        /\ worker'[w].left = worker[w].left \ {g}
    BY <1>7, Shapes DEF Moved
  <2>3. Tmpl(w)' = Tmpl(w)
    BY <1>2, <2>1, <2>2
  <2>4. CASE f = g
    <3>1. remote'[f].there /\ remote'[f].by = worker'[w].id
      BY <1>0, <1>7, <2>1, <2>2, <2>4, ServerWrites DEF OwnOK
    <3> QED BY <1>0, <2>1, <2>2, <3>1 DEF OwnOK
  <2>5. CASE f # g
    <3>1. HasInstalled(w, f)' => HasInstalled(w, f)
      BY <2>1, <2>2, <2>5 DEF HasInstalled
    <3>2. remote'[f] = remote[f]
      BY <1>7, <2>5, ServerWrites
    <3> QED BY <1>0, <2>1, <2>2, <2>3, <3>1, <3>2 DEF OwnOK
  <2> QED BY <2>4, <2>5
<1>8. ASSUME NEW g \in Files, InlineInstallFails(w, g) PROVE OwnOK(w, f)'
  <2>1. HasStaged(w, f) /\ UNCHANGED staged /\ worker[w].pc = "install"
        /\ "script" \notin Tmpl(w)
    BY <1>8 DEF InlineInstallFails, HasStaged
  <2>2. worker'[w].id = worker[w].id
    BY <1>8, Shapes DEF Moved
  <2>3. Tmpl(w)' = Tmpl(w)
    BY <1>2, <2>1, <2>2
  <2> QED BY <1>0, <2>1, <2>2, <2>3 DEF OwnOK
<1>9. ASSUME Reload(w) \/ Verify(w) PROVE OwnOK(w, f)'
  <2>1. HasInstalled(w, f) /\ UNCHANGED remote /\ worker[w].pc # "idle"
    BY <1>9 DEF Reload, Verify, HasInstalled
  <2>2. worker'[w].id = worker[w].id /\ worker'[w].pc \in {"verify", "cleanup"}
    BY <1>9, Shapes DEF Moved
  <2>3. Tmpl(w)' = Tmpl(w)
    BY <1>2, <2>1, <2>2
  <2>4. ~HasStaged(w, f)'
    BY <2>2 DEF HasStaged
  <2> QED BY <1>0, <2>1, <2>2, <2>3, <2>4 DEF OwnOK
<1>10. ASSUME Step(w) \/ Abort(w) \/ Crash(w) PROVE OwnOK(w, f)'
  BY <1>1, <1>4, <1>5, <1>6, <1>7, <1>8, <1>9, <1>10, Leaving DEF Step
<1>11. CASE \E t \in Templates: Start(w, t)
  BY <1>1, <1>11, Leaving
<1>12. CASE \E d \in Ids: ManualRollback(w, d)
  BY <1>1, <1>12, Leaving
<1> QED BY <1>3, <1>10, <1>11, <1>12 DEF Next, OneWorker

\* Only the end of the workflow makes a row SUCCESS.
LEMMA Succeeding ==
  ASSUME Base, Next, NEW d \in Ids, dep[d].status = "running", dep'[d].status = "success"
  PROVE  \E w \in Workers: Succeed(w) /\ worker[w].id = d
<1>1. ASSUME NEW t \in Templates, CreateRecord(t) PROVE FALSE
  BY <1>1, RecordCreated DEF Created
<1>2. ASSUME NEW w \in Workers, Step(w) PROVE Succeed(w) /\ worker[w].id = d
  <2>1. \A f \in Files: ~BackupFile(w, f)
    <3> SUFFICES ASSUME NEW f \in Files, BackupFile(w, f) PROVE FALSE
      OBVIOUS
    <3> QED BY BeforeSet DEF BackupFile, RowSet
  <2>2. ~(MaterialMissing(w) \/ Run(w) \/ Fail(w) \/ RollbackCommit(w) \/ RollbackUnreachable(w))
    BY Shapes DEF RowSet, RowIs
  <2>3. Succeed(w) => worker[w].id = d
    BY Shapes DEF RowSet
  <2> QED BY <1>2, <2>1, <2>2, <2>3 DEF Step, Connect, Reload, Verify, StageFile, InstallFile,
             InlineInstallFails, RestoreFile, RestoreFails, StepFails, NothingToRestore
<1> QED BY <1>1, <1>2 DEF Next, ApiDeploy, Start, ManualRollback, Abort, Crash

LEMMA OwnAlways ==
  ASSUME OneWorker
  PROVE  Spec => []OwnInv
<1>1. Init => OwnInv
  BY DEF Init, Idle, OwnInv, OwnOK, HasStaged, HasInstalled
<1>2. Base /\ MtimeInv /\ OwnInv /\ [Next]_vars => OwnInv'
  <2> SUFFICES ASSUME Base, MtimeInv, OwnInv, [Next]_vars PROVE OwnInv'
    OBVIOUS
  <2>1. CASE Next BY <2>1, OwnStep
  <2>2. CASE UNCHANGED vars
    BY <2>2 DEF vars, OwnInv, OwnOK, HasStaged, HasInstalled, Tmpl
  <2> QED BY <2>1, <2>2
<1> QED BY <1>1, <1>2, BaseAlways, PTL DEF Spec

\* A deployment with a deploy script becomes SUCCESS only when both files on the server
\* are the ones it uploaded, if deployments of the certificate to the server do not
\* overlap (deploy_certificate; they share the staging directory).
THEOREM SuccessIsInstalled ==
  ASSUME OneWorker
  PROVE  Spec => SuccessMeansInstalled
<1>1. Base /\ OwnInv /\ [Next]_vars =>
        [\A d \in Ids: /\ dep[d].status = "running" /\ dep'[d].status = "success"
                       /\ "script" \in dep[d].tmpl
           => \A f \in Files: remote[f].there /\ remote[f].by = d]_vars
  <2> SUFFICES ASSUME Base, OwnInv, Next, NEW d \in Ids, NEW f \in Files,
                      dep[d].status = "running", dep'[d].status = "success",
                      "script" \in dep[d].tmpl
               PROVE  remote[f].there /\ remote[f].by = d
    OBVIOUS
  <2>1. PICK w \in Workers: Succeed(w) /\ worker[w].id = d
    BY Succeeding
  <2>2. HasInstalled(w, f) /\ "script" \in Tmpl(w)
    BY <2>1 DEF Succeed, HasInstalled, Tmpl
  <2> QED BY <2>1, <2>2 DEF OwnInv, OwnOK
<1> QED BY <1>1, BaseAlways, OwnAlways, PTL DEF Spec, SuccessMeansInstalled

----------------------------------------------------------------------------
(* The automatic rollback *)

\* An installed file has an mtime of its own.
LEMMA DistinctStep ==
  ASSUME Base, MtimeInv, DistinctInv, Next
  PROVE  DistinctInv'
<1>1. CASE UNCHANGED <<remote, baks, clock>>
  BY <1>1 DEF DistinctInv
<1>2. ASSUME NEW w \in Workers, NEW f \in Files, BackupFile(w, f) PROVE DistinctInv'
  <2>1. /\ UNCHANGED remote
        /\ \A g \in Files: \A b \in baks'[g]: b \in baks[g] \/ b = remote[g]
    BY <1>2, ServerWrites
  <2> SUFFICES ASSUME NEW g \in Files, NEW b \in baks'[g]
               PROVE  /\ b.at = remote[g].at => b = remote[g]
                      /\ \A c \in baks'[g]: b.at = c.at => b = c
    BY <2>1 DEF DistinctInv
  <2>2. b.at = remote[g].at => b = remote[g]
    BY <2>1 DEF DistinctInv
  <2>3. ASSUME NEW c \in baks'[g], b.at = c.at PROVE b = c
    <3>1. CASE b \in baks[g] /\ c \in baks[g] BY <2>3, <3>1 DEF DistinctInv
    <3>2. CASE b = remote[g] BY <2>1, <2>3, <3>2 DEF DistinctInv
    <3>3. CASE c = remote[g] BY <2>2, <2>3, <3>3
    <3> QED BY <2>1, <3>1, <3>2, <3>3
  <2> QED BY <2>2, <2>3
<1>3. ASSUME NEW w \in Workers, NEW f \in Files, InstallFile(w, f) PROVE DistinctInv'
  <2>1. /\ UNCHANGED baks
        /\ \A g \in Files: g # f => remote'[g] = remote[g]
        /\ remote'[f].at = clock + 1
    BY <1>3, ServerWrites
  <2>2. \A b \in baks[f]: b.at # clock + 1
    <3> SUFFICES ASSUME NEW b \in baks[f] PROVE b.at # clock + 1
      OBVIOUS
    <3>1. b.at <= remote[f].at /\ remote[f].at <= clock
      BY DEF MtimeInv, NoBackupIsNewer
    <3>2. b.at \in Nat /\ remote[f].at \in Nat /\ clock \in Nat
      BY Mtimes
    <3> QED BY <3>1, <3>2
  <2> QED BY <2>1, <2>2 DEF DistinctInv
<1>4. ASSUME NEW w \in Workers, NEW f \in Files, RestoreFile(w, f) PROVE DistinctInv'
  <2>1. /\ UNCHANGED baks
        /\ \A g \in Files: g # f => remote'[g] = remote[g]
        /\ remote'[f] = remote[f] \/ remote'[f] \in baks[f]
    BY <1>4, ServerWrites, Newest
  <2> QED BY <2>1 DEF DistinctInv
<1> QED BY <1>1, <1>2, <1>3, <1>4, ServerSteps

\* Only the backup step notes what a deployment found.
LEMMA BeforeKept ==
  ASSUME Base, Next, NEW d \in 1..ndep,
         \A w \in Workers, f \in Files: BackupFile(w, f) => worker[w].id # d
  PROVE  dep'[d].before = dep[d].before
<1>0. d \in Ids /\ d # ndep + 1
  BY DeployAssumption DEF Base, TypeOK, Ids
<1>1. ASSUME NEW t \in Templates, CreateRecord(t) PROVE dep'[d] = dep[d]
  BY <1>0, <1>1, RecordCreated DEF Created
<1>2. ASSUME NEW w \in Workers, Step(w) PROVE dep'[d].before = dep[d].before
  <2>1. ASSUME NEW f \in Files, BackupFile(w, f) PROVE dep'[d] = dep[d]
    <3>1. RowSet(w)
      BY <2>1, BeforeSet DEF BackupFile
    <3> QED BY <2>1, <3>1, <1>0 DEF RowSet
  <2>2. ASSUME RowSet(w), NEW s, NEW b, RowIs(worker[w].id, s, b)
        PROVE  dep'[d].before = dep[d].before
    BY <2>2, <1>0 DEF RowSet, RowIs
  <2>3. /\ MaterialMissing(w) \/ Run(w) \/ Succeed(w) \/ Fail(w) => dep'[d].before = dep[d].before
        /\ RollbackCommit(w) \/ RollbackUnreachable(w) => dep'[d].before = dep[d].before
    BY <2>2, Shapes
  <2> QED BY <1>2, <2>1, <2>3 DEF Step, Connect, Reload, Verify, StageFile, InstallFile,
             InlineInstallFails, RestoreFile, RestoreFails, StepFails, NothingToRestore
<1> QED BY <1>0, <1>1, <1>2 DEF Next, ApiDeploy, Start, ManualRollback, Abort, Crash

\* A file that is there stays there.
LEMMA ThereStep ==
  ASSUME Base, MtimeInv, Next, NEW f \in Files, remote[f].there
  PROVE  remote'[f].there
<1>1. ASSUME NEW w \in Workers, NEW g \in Files, RestoreFile(w, g) PROVE remote'[f].there
  <2>1. remote'[f] = remote[f] \/ remote'[f] \in baks[f]
    BY <1>1, ServerWrites, Newest
  <2> QED BY <2>1, Mtimes
<1>2. ASSUME NEW w \in Workers, NEW g \in Files, InstallFile(w, g) PROVE remote'[f].there
  BY <1>2, ServerWrites
<1>3. ASSUME NEW w \in Workers, NEW g \in Files, BackupFile(w, g) PROVE remote'[f].there
  BY <1>3, ServerWrites
<1> QED BY <1>1, <1>2, <1>3, ServerSteps

\* The rollback restores what its deployment found, when deployments do not overlap
\* and no copy of the restore fails.
LEMMA FoundStep ==
  ASSUME OneWorker, "restore" \notin Faults, Base, MtimeInv, DistinctInv, FoundInv, Next
  PROVE  FoundInv'
<1> SUFFICES ASSUME NEW w \in Workers, NEW f \in Files PROVE FoundOK(w, f)'
  BY DEF FoundInv
<1>0. FoundOK(w, f)
  BY DEF FoundInv
<1>1. remote'[f].there
  BY <1>0, ThereStep DEF FoundOK
<1>2. ASSUME worker'[w].backed = FALSE, worker'[w].manual = FALSE, worker'[w].pc # "backup"
      PROVE  FoundOK(w, f)'
  BY <1>1, <1>2 DEF FoundOK, HasBackup
<1>3. Ended(w) => FoundOK(w, f)'
  <2>1. Ended(w) => worker'[w].backed = FALSE /\ worker'[w].manual = FALSE /\ worker'[w].pc # "backup"
    BY DEF Ended, Idle
  <2> QED BY <2>1, <1>2
<1>4. ASSUME worker[w].pc # "idle", worker'[w].id = worker[w].id,
             \A g \in Files: ~BackupFile(w, g)
      PROVE  Found(w, f)' = Found(w, f)
  BY <1>4, Working, BeforeKept DEF Found, OneWorker
\* The workflow goes on without touching the backups.
<1>5. ASSUME NEW pc \in {"connect", "stage", "install", "verify", "cleanup", "fail"}, NEW left,
             Moved(w, pc, left, worker[w].backed), worker[w].pc \notin {"idle", "rollback"},
             worker[w].backed => pc \in {"install", "verify", "cleanup", "fail"},
             UNCHANGED baks, \A g \in Files: ~BackupFile(w, g)
      PROVE  FoundOK(w, f)'
  <2>1. /\ worker'[w].pc = pc /\ worker'[w].backed = worker[w].backed
        /\ worker'[w].manual = worker[w].manual /\ worker'[w].id = worker[w].id
    BY <1>5 DEF Moved
  <2>2. Found(w, f)' = Found(w, f)
    BY <1>4, <1>5, <2>1
  <2>3. ~worker[w].manual
    BY <1>0, <1>5 DEF FoundOK
  <2>4. HasBackup(w, f)' => HasBackup(w, f)
    BY <1>5, <2>1 DEF HasBackup
  <2> QED BY <1>0, <1>1, <1>5, <2>1, <2>2, <2>3, <2>4 DEF FoundOK
<1>6. ASSUME NEW t \in Templates, ApiDeploy(t) PROVE FoundOK(w, f)'
  <2>1. UNCHANGED <<remote, baks, worker>>
    BY <1>6 DEF ApiDeploy
  <2>2. CASE worker[w].pc = "idle"
    BY <1>0, <1>1, <2>1, <2>2 DEF FoundOK, HasBackup
  <2>3. CASE worker[w].pc # "idle"
    <3>1. Created(t)
      BY <1>6, RecordCreated DEF ApiDeploy
    <3>2. worker[w].id \in Ids /\ worker[w].id # ndep + 1
      BY <2>3, Working DEF Base, TypeOK
    <3>3. Found(w, f)' = Found(w, f)
      BY <3>1, <3>2, <2>1 DEF Created, Found
    <3> QED BY <1>0, <2>1, <3>3 DEF FoundOK, HasBackup
  <2> QED BY <2>2, <2>3
<1>7. ASSUME NEW t \in Templates, Start(w, t) PROVE FoundOK(w, f)'
  <2>1. worker'[w].backed = FALSE /\ worker'[w].manual = FALSE /\ worker'[w].pc = "begin"
    BY <1>7, StartBegins DEF Begun
  <2> QED BY <1>2, <2>1
<1>8. ASSUME NEW d \in Ids, ManualRollback(w, d) PROVE FoundOK(w, f)'
  <2>1. worker'[w].manual = TRUE /\ worker'[w].pc = "rollback"
    BY <1>8, ManualBegins DEF Begun
  <2> QED BY <1>1, <2>1 DEF FoundOK, HasBackup
<1>9. ASSUME NEW g \in Files, StageFile(w, g) PROVE FoundOK(w, f)'
  <2>1. worker[w].backed = FALSE /\ worker[w].manual = FALSE
    <3>1. worker[w].pc = "stage" /\ worker[w].backed \in BOOLEAN /\ worker[w].manual \in BOOLEAN
      BY <1>9 DEF StageFile, Base, TypeOK, Process
    <3> QED BY <3>1, <1>0 DEF FoundOK
  <2>2. /\ worker'[w].backed = FALSE /\ worker'[w].manual = FALSE
        /\ worker'[w].pc = "backup" => worker'[w].left = Files
    BY <1>9, <2>1, Shapes DEF Moved, AfterStaging
  <2> QED BY <1>1, <2>2 DEF FoundOK, HasBackup
<1>10. ASSUME NEW g \in Files, BackupFile(w, g) PROVE FoundOK(w, f)'
  <2>1. worker[w].backed = FALSE /\ worker[w].manual = FALSE /\ worker[w].pc = "backup"
    <3>1. worker[w].pc = "backup" /\ worker[w].backed \in BOOLEAN /\ worker[w].manual \in BOOLEAN
      BY <1>10 DEF BackupFile, Base, TypeOK, Process
    <3> QED BY <3>1, <1>0 DEF FoundOK
  <2>2. /\ worker'[w].manual = FALSE /\ worker'[w].id = worker[w].id
        /\ \/ worker'[w].pc = "install" /\ worker[w].left = {g}
           \/ /\ worker'[w].pc = "backup" /\ worker'[w].backed = FALSE
              /\ worker'[w].left = worker[w].left \ {g}
    BY <1>10, <2>1, Shapes DEF Moved
  <2>3. /\ dep'[worker[w].id].before[g] = remote[g]
        /\ \A h \in Files: h # g => dep'[worker[w].id].before[h] = dep[worker[w].id].before[h]
    BY <1>10, <2>1, BeforeSet DEF BackupFile
  <2>4. CASE f = g
    <3>1. Found(w, f)' = remote[f]
      BY <2>2, <2>3, <2>4 DEF Found
    <3>2. UNCHANGED remote /\ baks'[f] = baks[f] \cup {remote[f]}
      BY <1>10, <1>0, <2>4, ServerWrites DEF FoundOK
    <3>3. \A o \in baks'[f]: o.at <= remote[f].at
      BY <3>2, Mtimes DEF MtimeInv, NoBackupIsNewer
    <3> QED BY <1>1, <2>2, <3>1, <3>2, <3>3 DEF FoundOK
  <2>5. CASE f # g
    <3>1. Found(w, f)' = Found(w, f)
      BY <2>2, <2>3, <2>5 DEF Found
    <3>2. baks'[f] = baks[f]
      BY <1>10, <2>5, ServerWrites
    <3>3. HasBackup(w, f)' => HasBackup(w, f)
      BY <2>1, <2>2, <2>5 DEF HasBackup
    <3> QED BY <1>0, <1>1, <2>2, <3>1, <3>2, <3>3 DEF FoundOK
  <2> QED BY <2>4, <2>5
<1>11. ASSUME NEW g \in Files, RestoreFile(w, g) PROVE FoundOK(w, f)'
  <2>1. /\ worker[w].pc = "rollback" /\ worker'[w].pc = "rollback"
        /\ worker'[w].backed = worker[w].backed
        /\ worker'[w].manual = worker[w].manual /\ worker'[w].id = worker[w].id
        /\ worker'[w].left = worker[w].left \ {g} /\ UNCHANGED baks
    BY <1>11, Shapes DEF Moved, RestoreFile
  <2>2. Found(w, f)' = Found(w, f)
    BY <1>4, <1>11, <2>1 DEF BackupFile
  <2>3. HasBackup(w, f)' = HasBackup(w, f)
    BY <2>1 DEF HasBackup
  <2>4. ASSUME HasBackup(w, f), f \notin worker'[w].left PROVE remote'[f] = Found(w, f)
    <3>1. Found(w, f) \in baks[f] /\ \A o \in baks[f]: o.at <= Found(w, f).at
      BY <2>4, <1>0 DEF FoundOK
    <3>2. CASE f = g
      <4>1. remote'[f] \in baks[f] /\ \A o \in baks[f]: o.at <= remote'[f].at
        BY <1>11, <3>1, <3>2, ServerWrites, Newest
      <4>2. remote'[f].at = Found(w, f).at
        <5>1. remote'[f].at <= Found(w, f).at /\ Found(w, f).at <= remote'[f].at
          BY <3>1, <4>1
        <5>2. remote'[f].at \in Nat /\ Found(w, f).at \in Nat
          BY <3>1, <4>1, Mtimes
        <5> QED BY <5>1, <5>2
      <4> QED BY <3>1, <4>1, <4>2 DEF DistinctInv
    <3>3. CASE f # g
      <4>1. remote'[f] = remote[f]
        BY <1>11, <3>3, ServerWrites
      <4>2. f \notin worker[w].left
        BY <2>1, <2>4, <3>3
      <4> QED BY <1>0, <2>1, <2>4, <4>1, <4>2 DEF FoundOK
    <3> QED BY <3>2, <3>3
  <2> QED BY <1>0, <1>1, <2>1, <2>2, <2>3, <2>4 DEF FoundOK
<1>12. ASSUME Fail(w) PROVE FoundOK(w, f)'
  <2>1. CASE Ended(w) BY <1>3, <2>1
  <2>2. CASE Moved(w, "rollback", Files, worker[w].backed)
    <3>1. /\ worker'[w].pc = "rollback" /\ worker'[w].left = Files
          /\ worker'[w].backed = worker[w].backed
          /\ worker'[w].manual = worker[w].manual /\ worker'[w].id = worker[w].id
          /\ UNCHANGED baks /\ worker[w].pc = "fail"
      BY <1>12, <2>2 DEF Moved, Fail
    <3>2. Found(w, f)' = Found(w, f)
      BY <1>4, <3>1 DEF BackupFile
    <3>3. HasBackup(w, f)' = HasBackup(w, f)
      BY <3>1 DEF HasBackup
    <3> QED BY <1>0, <1>1, <3>1, <3>2, <3>3 DEF FoundOK
  <2> QED BY <1>12, <2>1, <2>2, Shapes
<1>13. ASSUME Run(w) \/ Connect(w) PROVE FoundOK(w, f)'
  <2>1. worker[w].backed = FALSE /\ worker[w].manual = FALSE
    <3>1. worker[w].pc \in {"begin", "connect"} /\ worker[w].backed \in BOOLEAN
          /\ worker[w].manual \in BOOLEAN
      BY <1>13 DEF Run, Connect, Base, TypeOK, Process
    <3> QED BY <3>1, <1>0 DEF FoundOK
  <2>2. worker'[w].backed = FALSE /\ worker'[w].manual = FALSE /\ worker'[w].pc # "backup"
    BY <1>13, <2>1, Shapes DEF Moved
  <2> QED BY <1>2, <2>2
<1>14. ASSUME NEW g \in Files, InstallFile(w, g) \/ InlineInstallFails(w, g)
       PROVE  FoundOK(w, f)'
  <2>1. Moved(w, "install", worker[w].left \ {g}, worker[w].backed)
    BY <1>14, Shapes
  <2>2. worker[w].pc = "install" /\ UNCHANGED baks
    BY <1>14 DEF InstallFile, InlineInstallFails
  <2>3. \A h \in Files: ~BackupFile(w, h)
    BY <2>2 DEF BackupFile
  <2> QED BY <1>5, <2>1, <2>2, <2>3
<1>15. ASSUME Reload(w) \/ Verify(w) PROVE FoundOK(w, f)'
  <2>1. \/ Moved(w, "verify", {}, worker[w].backed)
        \/ Moved(w, "cleanup", {}, worker[w].backed)
    BY <1>15, Shapes
  <2>2. worker[w].pc \in {"install", "verify"} /\ UNCHANGED baks
    BY <1>15 DEF Reload, Verify
  <2>3. \A h \in Files: ~BackupFile(w, h)
    BY <2>2 DEF BackupFile
  <2> QED BY <1>5, <2>1, <2>2, <2>3
<1>16. ASSUME StepFails(w) PROVE FoundOK(w, f)'
  <2>1. /\ worker'[w].pc = "fail" /\ worker'[w].backed = worker[w].backed
        /\ worker'[w].manual = worker[w].manual /\ worker'[w].id = worker[w].id
        /\ UNCHANGED <<baks, dep>>
    BY <1>16, Shapes DEF Moved, StepFails
  <2>2. Found(w, f)' = Found(w, f)
    BY <2>1 DEF Found
  <2>3. worker[w].manual = FALSE
    <3>1. worker[w].pc # "rollback" /\ worker[w].manual \in BOOLEAN
      BY <1>16 DEF StepFails, Base, TypeOK, Process
    <3> QED BY <3>1, <1>0 DEF FoundOK
  <2>4. HasBackup(w, f)' => HasBackup(w, f)
    BY <2>1 DEF HasBackup
  <2> QED BY <1>0, <1>1, <2>1, <2>2, <2>3, <2>4 DEF FoundOK
<1>17. ~RestoreFails(w, f) /\ \A g \in Files: ~RestoreFails(w, g)
  BY DEF RestoreFails
<1>18. MaterialMissing(w) \/ Succeed(w) \/ NothingToRestore(w) \/ RollbackCommit(w)
       \/ RollbackUnreachable(w) \/ Abort(w) \/ Crash(w) => FoundOK(w, f)'
  BY <1>3, Shapes
<1>19. ASSUME Step(w) \/ Abort(w) \/ Crash(w) PROVE FoundOK(w, f)'
  BY <1>9, <1>10, <1>11, <1>12, <1>13, <1>14, <1>15, <1>16, <1>17, <1>18, <1>19 DEF Step
<1> QED BY <1>6, <1>7, <1>8, <1>19 DEF Next, OneWorker

\* The automatic rollback that marks a deployment ROLLED_BACK has put back what the
\* deployment found, although it restores the latest backup of each file and not the
\* ones this deployment took: when deployments do not overlap, the copies of the
\* rollback succeed, and the server had certificate files (rollback_deployment).
THEOREM RollbackIsComplete ==
  ASSUME OneWorker, Preinstalled, "restore" \notin Faults
  PROVE  Spec => RollbackRestores
<1> DEFINE Inv == DistinctInv /\ FoundInv
<1>1. Init => Inv
  <2> SUFFICES ASSUME Init PROVE Inv
    OBVIOUS
  <2>1. \A f \in Files: remote[f].there /\ baks[f] = {}
    BY DEF Init
  <2>2. \A w \in Workers: /\ worker[w].backed = FALSE /\ worker[w].manual = FALSE
                          /\ worker[w].pc = "idle"
    BY DEF Init, Idle
  <2> QED BY <2>1, <2>2 DEF DistinctInv, FoundInv, FoundOK, HasBackup
<1>2. Base /\ MtimeInv /\ Inv /\ [Next]_vars => Inv'
  <2> SUFFICES ASSUME Base, MtimeInv, Inv, [Next]_vars PROVE Inv'
    OBVIOUS
  <2>1. CASE Next BY <2>1, DistinctStep, FoundStep
  <2>2. CASE UNCHANGED vars
    <3>1. DistinctInv'
      BY <2>2 DEF vars, DistinctInv
    <3>2. FoundInv'
      BY <2>2 DEF vars, FoundInv, FoundOK, HasBackup, Found
    <3> QED BY <3>1, <3>2
  <2> QED BY <2>1, <2>2
<1>3. Inv /\ [Next]_vars =>
        [\A w \in Workers: /\ worker[w].pc = "rollback" /\ worker[w].backed /\ ~worker[w].manual
                           /\ worker[w].left = {}
                           /\ dep'[worker[w].id].status = "rolled_back"
           => \A f \in Files: remote[f] = dep[worker[w].id].before[f]]_vars
  BY DEF FoundInv, FoundOK, HasBackup, Found
<1> QED BY <1>1, <1>2, <1>3, BaseAlways, PTL DEF Spec, RollbackRestores

----------------------------------------------------------------------------
(* Deployments that fail *)

\* Installing is the only way to put a deployment's files on the server.
LEMMA UntouchedKept ==
  ASSUME Base, MtimeInv, OwnInv, Next, NEW d, Untouched(d),
         \A w \in Workers, f \in Files: InstallFile(w, f) => worker[w].id # d
  PROVE  \A e: e = d => Untouched(e)'
<1> SUFFICES ASSUME NEW f \in Files PROVE remote'[f].by # d /\ \A b \in baks'[f]: b.by # d
  BY DEF Untouched
<1>0. remote[f].by # d /\ \A b \in baks[f]: b.by # d
  BY DEF Untouched
<1>1. CASE UNCHANGED <<remote, baks, clock>> BY <1>0, <1>1
<1>2. ASSUME NEW w \in Workers, NEW g \in Files, BackupFile(w, g)
      PROVE  remote'[f].by # d /\ \A b \in baks'[f]: b.by # d
  <2>1. remote' = remote /\ baks'[f] \subseteq baks[f] \cup {remote[f]}
    BY <1>2, ServerWrites
  <2> QED BY <1>0, <2>1
<1>3. ASSUME NEW w \in Workers, NEW g \in Files, InstallFile(w, g)
      PROVE  remote'[f].by # d /\ \A b \in baks'[f]: b.by # d
  <2>1. staged[g].by = worker[w].id
    BY <1>3 DEF InstallFile, OwnInv, OwnOK, HasStaged
  <2>2. worker[w].id # d
    BY <1>3
  <2>3. baks' = baks /\ remote'[f].by \in {remote[f].by, staged[g].by}
    BY <1>3, ServerWrites
  <2> QED BY <1>0, <2>1, <2>2, <2>3
<1>4. ASSUME NEW w \in Workers, NEW g \in Files, RestoreFile(w, g)
      PROVE  remote'[f].by # d /\ \A b \in baks'[f]: b.by # d
  <2>1. UNCHANGED baks /\ (remote'[f] = remote[f] \/ remote'[f] \in baks[f])
    BY <1>4, ServerWrites, Newest
  <2> QED BY <1>0, <2>1
<1> QED BY <1>1, <1>2, <1>3, <1>4, ServerSteps

\* Nothing is installed for a row that is not running.
LEMMA UntouchedRow ==
  ASSUME Base, MtimeInv, OwnInv, HarmlessInv, Next, NEW d \in Ids,
         dep[d].status # "running", Untouched(d)
  PROVE  \A e: e = d => Untouched(e)'
<1>1. \A w \in Workers, f \in Files: InstallFile(w, f) => worker[w].id # d
  BY DEF HarmlessInv, HarmlessOK, InstallFile
<1> QED BY <1>1, UntouchedKept

\* The rows that have failed without a backup, and those to come
LEMMA RowsUntouched ==
  ASSUME Base, MtimeInv, OwnInv, HarmlessInv, Next, NEW d \in Ids
  PROVE  /\ dep'[d].status = "nil" => \A e: e = d => Untouched(e)'
         /\ dep'[d].status = "failed" /\ ~dep'[d].backed => \A e: e = d => Untouched(e)'
<1>1. CASE dep'[d] = dep[d]
  <2>1. ASSUME dep[d].status = "nil" \/ (dep[d].status = "failed" /\ ~dep[d].backed)
        PROVE  \A e: e = d => Untouched(e)'
    BY <2>1, UntouchedRow DEF HarmlessInv
  <2> QED BY <1>1, <2>1
<1>2. ASSUME NEW t \in Templates, CreateRecord(t), dep'[d] # dep[d]
      PROVE  dep'[d].status = "pending"
  BY <1>2, RecordCreated DEF Created
<1>3. ASSUME NEW w \in Workers, Step(w), dep'[d] # dep[d]
      PROVE  /\ dep'[d].status # "nil"
             /\ dep'[d].status = "failed" /\ ~dep'[d].backed => \A e: e = d => Untouched(e)'
  <2>0. HarmlessOK(w)
    BY DEF HarmlessInv
  <2>1. CASE MaterialMissing(w)
    <3>1. d = worker[w].id /\ dep'[d].status = "failed"
      BY <1>3, <2>1, Shapes DEF RowSet, RowIs
    <3>2. Untouched(d) /\ dep[d].status # "running"
      BY <2>0, <2>1, <3>1 DEF MaterialMissing, HarmlessOK
    <3> QED BY <3>1, <3>2, UntouchedRow
  <2>2. CASE Run(w) \/ Succeed(w) \/ RollbackCommit(w) \/ RollbackUnreachable(w)
    <3>1. d = worker[w].id
      BY <1>3, <2>2, Shapes DEF RowSet
    <3>2. dep'[d].status \in {"running", "success", "rolled_back"}
      BY <2>2, <3>1, Shapes DEF RowIs
    <3> QED BY <3>2
  <2>3. CASE Fail(w)
    <3>1. d = worker[w].id /\ dep'[d].status = "failed" /\ dep'[d].backed = worker[w].backed
      BY <1>3, <2>3, Shapes DEF RowSet, RowIs
    <3>2. ASSUME ~worker[w].backed PROVE Untouched(d)
      BY <2>0, <2>3, <3>1, <3>2 DEF Fail, HarmlessOK
    <3>3. \A v \in Workers, f \in Files: InstallFile(v, f) => UNCHANGED dep
      BY DEF InstallFile
    <3>4. \A v \in Workers, f \in Files: ~InstallFile(v, f)
      BY <1>3, <3>3
    <3> QED BY <3>1, <3>2, <3>4, UntouchedKept
  <2>4. ASSUME NEW f \in Files, BackupFile(w, f) PROVE dep'[d].status = "running"
    <3>1. /\ RowSet(w) /\ dep'[worker[w].id].status = dep[worker[w].id].status
      BY <2>4, BeforeSet DEF BackupFile
    <3>2. d = worker[w].id
      BY <1>3, <3>1 DEF RowSet
    <3> QED BY <2>0, <2>4, <3>1, <3>2 DEF BackupFile, HarmlessOK
  <2> QED BY <1>3, <2>1, <2>2, <2>3, <2>4 DEF Step, Connect, Reload, Verify, StageFile,
             InstallFile, InlineInstallFails, RestoreFile, RestoreFails, StepFails,
             NothingToRestore
<1> QED BY <1>1, <1>2, <1>3 DEF Next, ApiDeploy, Start, ManualRollback, Abort, Crash

LEMMA HarmlessStep ==
  ASSUME OneWorker, AlwaysBackup, Base, MtimeInv, OwnInv, HarmlessInv, Next
  PROVE  HarmlessInv'
<1>0. \A d \in Ids: /\ (dep[d].status = "nil" => Untouched(d))'
                    /\ (dep[d].status = "failed" /\ ~dep[d].backed => Untouched(d))'
  BY RowsUntouched
<1> SUFFICES ASSUME NEW w \in Workers PROVE HarmlessOK(w)'
  BY <1>0 DEF HarmlessInv
<1>1. HarmlessOK(w) /\ worker[w].backed \in BOOLEAN /\ worker[w].manual \in BOOLEAN
  BY DEF HarmlessInv, Base, TypeOK, Process
<1>2. ASSUME worker'[w].pc = "idle", worker'[w].manual = FALSE PROVE HarmlessOK(w)'
  BY <1>2 DEF HarmlessOK
<1>3. Ended(w) => HarmlessOK(w)'
  BY <1>2 DEF Ended, Idle
<1>4. ASSUME worker'[w].id = worker[w].id, Untouched(worker[w].id),
             \A f \in Files: ~InstallFile(w, f)
      PROVE  Untouched(worker[w].id)'
  <2>1. \A v \in Workers, f \in Files: ~InstallFile(v, f)
    BY <1>4 DEF OneWorker
  <2> QED BY <1>4, <2>1, UntouchedKept
<1>5. ASSUME NEW t \in Templates, ApiDeploy(t) PROVE HarmlessOK(w)'
  <2>1. UNCHANGED <<remote, baks, worker>>
    BY <1>5 DEF ApiDeploy
  <2>2. CASE worker[w].pc = "idle"
    BY <1>1, <1>2, <2>1, <2>2 DEF HarmlessOK
  <2>3. CASE worker[w].pc # "idle"
    <3>1. Created(t) /\ worker[w].id \in Ids /\ worker[w].id # ndep + 1
      BY <1>5, <2>3, RecordCreated, Working DEF ApiDeploy, Base, TypeOK
    <3>2. dep'[worker[w].id] = dep[worker[w].id]
      BY <3>1 DEF Created
    <3> QED BY <1>1, <2>1, <3>2 DEF HarmlessOK, Untouched
  <2> QED BY <2>2, <2>3
<1>6. ASSUME NEW t \in Templates, Start(w, t) PROVE HarmlessOK(w)'
  <2>1. /\ Created(t) /\ worker'[w].pc = "begin" /\ worker'[w].id = ndep + 1
        /\ worker'[w].manual = FALSE
    BY <1>6, StartBegins DEF Begun
  <2>2. ndep + 1 \in Ids /\ dep[ndep + 1].status = "nil"
    BY <2>1 DEF Created, Base, TypeOK
  <2>3. \A e: e = ndep + 1 => Untouched(e)'
    BY <2>2, UntouchedRow DEF HarmlessInv
  <2>4. Untouched(worker[w].id)'
    BY <2>1, <2>3
  <2>5. dep'[worker'[w].id].status = "pending"
    BY <2>1 DEF Created
  <2> QED BY <2>1, <2>4, <2>5 DEF HarmlessOK
<1>7. ASSUME NEW d \in Ids, ManualRollback(w, d) PROVE HarmlessOK(w)'
  <2>1. /\ worker'[w].pc = "rollback" /\ worker'[w].id = d /\ worker'[w].manual = TRUE
        /\ worker'[w].backed = dep[d].backed /\ UNCHANGED dep
    BY <1>7, ManualBegins DEF Begun, ManualRollback
  <2> QED BY <2>1 DEF HarmlessOK
<1>8. ASSUME Run(w) PROVE HarmlessOK(w)'
  <2>1. /\ worker[w].pc = "begin" /\ worker'[w].pc = "connect" /\ worker'[w].id = worker[w].id
        /\ worker'[w].manual = worker[w].manual /\ dep'[worker[w].id].status = "running"
    BY <1>8, Shapes DEF Run, Moved, RowIs
  <2>2. Untouched(worker[w].id)'
    BY <1>1, <1>4, <2>1 DEF HarmlessOK, InstallFile
  <2> QED BY <1>1, <2>1, <2>2 DEF HarmlessOK
<1>9. ASSUME \/ Connect(w)
             \/ \E f \in Files: StageFile(w, f)
      PROVE  HarmlessOK(w)'
  <2>1. /\ worker[w].pc \in {"connect", "stage"} /\ UNCHANGED dep
    BY <1>9 DEF Connect, StageFile
  <2>2. AfterStaging(w) = "backup"
    BY <2>1, Working DEF AlwaysBackup, AfterStaging
  <2>3. /\ worker'[w].pc \in {"stage", "backup"} /\ worker'[w].id = worker[w].id
        /\ worker'[w].manual = worker[w].manual
    BY <1>9, <2>2, Shapes DEF Moved
  <2>4. Untouched(worker[w].id)'
    BY <1>1, <1>4, <2>1, <2>3 DEF HarmlessOK, InstallFile
  <2> QED BY <1>1, <2>1, <2>3, <2>4 DEF HarmlessOK
<1>10. ASSUME NEW f \in Files, BackupFile(w, f) PROVE HarmlessOK(w)'
  <2>1. worker[w].pc = "backup" /\ dep'[worker[w].id].status = dep[worker[w].id].status
    BY <1>10, BeforeSet DEF BackupFile
  <2>2. /\ worker'[w].id = worker[w].id /\ worker'[w].manual = worker[w].manual
        /\ worker'[w].pc = "backup" \/ (worker'[w].pc = "install" /\ worker'[w].backed)
    BY <1>10, Shapes DEF Moved
  <2>3. Untouched(worker[w].id)'
    BY <1>1, <1>4, <2>1, <2>2 DEF HarmlessOK, InstallFile
  <2> QED BY <1>1, <2>1, <2>2, <2>3 DEF HarmlessOK
<1>11. ASSUME \/ \E f \in Files: InstallFile(w, f) \/ InlineInstallFails(w, f)
              \/ Reload(w)
              \/ Verify(w)
       PROVE  HarmlessOK(w)'
  <2>1. /\ worker[w].pc \in {"install", "verify"} /\ UNCHANGED dep
    BY <1>11 DEF InstallFile, InlineInstallFails, Reload, Verify
  <2>2. /\ worker'[w].pc \in {"install", "verify", "cleanup"} /\ worker'[w].id = worker[w].id
        /\ worker'[w].backed = worker[w].backed /\ worker'[w].manual = worker[w].manual
    BY <1>11, Shapes DEF Moved
  <2> QED BY <1>1, <2>1, <2>2 DEF HarmlessOK
<1>12. ASSUME StepFails(w) PROVE HarmlessOK(w)'
  <2>1. /\ worker[w].pc \in {"connect", "stage", "backup", "install", "verify"} /\ UNCHANGED dep
        /\ worker'[w].pc = "fail" /\ worker'[w].id = worker[w].id
        /\ worker'[w].backed = worker[w].backed /\ worker'[w].manual = worker[w].manual
    BY <1>12, Shapes DEF StepFails, Moved
  <2>2. ASSUME ~worker[w].backed PROVE Untouched(worker[w].id)'
    <3>1. Untouched(worker[w].id)
      BY <1>1, <2>1, <2>2 DEF HarmlessOK
    <3>2. \A f \in Files: ~InstallFile(w, f)
      BY <1>1, <2>1, <2>2 DEF HarmlessOK, InstallFile
    <3> QED BY <1>4, <2>1, <3>1, <3>2
  <2> QED BY <1>1, <2>1, <2>2 DEF HarmlessOK
<1>13. ASSUME Fail(w) PROVE HarmlessOK(w)'
  <2>1. CASE Ended(w) BY <1>3, <2>1
  <2>2. CASE Moved(w, "rollback", Files, worker[w].backed)
    <3>1. /\ worker[w].pc = "fail" /\ dep'[worker[w].id].backed = worker[w].backed
          /\ worker'[w].pc = "rollback" /\ worker'[w].id = worker[w].id
          /\ worker'[w].backed = worker[w].backed /\ worker'[w].manual = worker[w].manual
      BY <1>13, <2>2, Shapes DEF Fail, Moved, RowIs
    <3>2. ASSUME ~worker[w].backed PROVE Untouched(worker[w].id)'
      BY <1>1, <1>4, <3>1, <3>2 DEF HarmlessOK, InstallFile
    <3> QED BY <1>1, <3>1, <3>2 DEF HarmlessOK
  <2> QED BY <1>13, <2>1, <2>2, Shapes
<1>14. ASSUME NEW f \in Files, RestoreFile(w, f) \/ RestoreFails(w, f) PROVE HarmlessOK(w)'
  <2>1. /\ worker[w].pc = "rollback" /\ worker[w].backed /\ UNCHANGED dep
        /\ worker'[w].pc = "rollback" /\ worker'[w].id = worker[w].id
        /\ worker'[w].backed = worker[w].backed /\ worker'[w].manual = worker[w].manual
    BY <1>14, Shapes DEF RestoreFile, RestoreFails, Moved
  <2> QED BY <1>1, <2>1 DEF HarmlessOK
<1>15. MaterialMissing(w) \/ Succeed(w) \/ NothingToRestore(w) \/ RollbackCommit(w)
       \/ RollbackUnreachable(w) \/ Abort(w) \/ Crash(w) => HarmlessOK(w)'
  BY <1>3, Shapes
<1>16. ASSUME Step(w) \/ Abort(w) \/ Crash(w) PROVE HarmlessOK(w)'
  BY <1>8, <1>9, <1>10, <1>11, <1>12, <1>13, <1>14, <1>15, <1>16 DEF Step
<1> QED BY <1>5, <1>6, <1>7, <1>16 DEF Next, OneWorker

\* A deployment that ends as FAILED has replaced nothing on the server, when templates
\* make backups, deployments do not overlap and the process is not cut off
\* (rollback_deployment returns without a backup path and leaves the status).
THEOREM FailureIsHarmless ==
  ASSUME OneWorker, AlwaysBackup, "abort" \notin Faults, "crash" \notin Faults
  PROVE  Spec => FailedLeavesNothing
<1>1. Init => HarmlessInv
  <2> SUFFICES ASSUME Init PROVE HarmlessInv
    OBVIOUS
  <2>1. \A w \in Workers: worker[w].pc = "idle" /\ worker[w].manual = FALSE
    BY DEF Init, Idle
  <2>2. \A d \in Ids: Untouched(d)
    <3>1. \A d \in Ids: d # 0
      BY DEF Ids
    <3> QED BY <3>1 DEF Init, Untouched
  <2> QED BY <2>1, <2>2 DEF HarmlessInv, HarmlessOK
<1>2. Base /\ MtimeInv /\ OwnInv /\ HarmlessInv /\ [Next]_vars => HarmlessInv'
  <2> SUFFICES ASSUME Base, MtimeInv, OwnInv, HarmlessInv, [Next]_vars PROVE HarmlessInv'
    OBVIOUS
  <2>1. CASE Next BY <2>1, HarmlessStep
  <2>2. CASE UNCHANGED vars
    BY <2>2 DEF vars, HarmlessInv, HarmlessOK, Untouched
  <2> QED BY <2>1, <2>2
<1>3. Base /\ HarmlessInv /\ [Next]_vars =>
        [\A w \in Workers: worker[w].pc = "rollback" /\ worker'[w].pc = "idle"
           /\ dep'[worker[w].id].status = "failed"
           => \A f \in Files: remote[f].by # worker[w].id]_vars
  <2> SUFFICES ASSUME Base, HarmlessInv, Next, NEW w \in Workers, NEW f \in Files,
                      worker[w].pc = "rollback", worker'[w].pc = "idle",
                      dep'[worker[w].id].status = "failed"
               PROVE  remote[f].by # worker[w].id
    OBVIOUS
  <2>1. NothingToRestore(w)
    <3>1. ~(RollbackCommit(w) \/ RollbackUnreachable(w))
      BY Shapes DEF RowIs
    <3>2. \A g \in Files: ~(RestoreFile(w, g) \/ RestoreFails(w, g))
      BY Leaving
    <3>3. Step(w) => NothingToRestore(w)
      BY <3>1, <3>2 DEF Step, MaterialMissing, Run, Connect, Reload, Verify, StageFile,
           BackupFile, InstallFile, InlineInstallFails, StepFails, Succeed, Fail
    <3>4. \A t \in Templates: ~ApiDeploy(t)
      BY DEF ApiDeploy
    <3> QED BY <3>3, <3>4 DEF Next, OneWorker, Start, ManualRollback, Abort, Crash
  <2>2. ~worker[w].backed /\ dep[worker[w].id].status = "failed"
    BY <2>1 DEF NothingToRestore
  <2>3. worker[w].id \in Ids /\ ~dep[worker[w].id].backed
    BY <2>2, Working DEF HarmlessInv, HarmlessOK
  <2> QED BY <2>2, <2>3 DEF HarmlessInv, Untouched
<1> QED BY <1>1, <1>2, <1>3, BaseAlways, OwnAlways, PTL DEF Spec, FailedLeavesNothing
=============================================================================
