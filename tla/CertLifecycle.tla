--------------------------- MODULE CertLifecycle ---------------------------
(***************************************************************************)
(* The certificate lifecycle of backend/app/services/certificate_service:  *)
(* issue, renew, revoke, delete, the renewal sweep, and the two ways a     *)
(* stuck renewal is reset (an administrator's cancel, and the lazy 60      *)
(* minute check made whenever a certificate is read).                      *)
(*                                                                         *)
(* Several processes work on one table at once: Celery workers, API        *)
(* requests and the beat-driven sweep.  Each has an SQLAlchemy session     *)
(* with an identity map that is never refreshed by a query and never       *)
(* expired by a commit (expire_on_commit=False), so a process acts on the  *)
(* row as it first read it, and its commit writes only the columns whose   *)
(* value differs from what it read.  `view` is that identity map, and      *)
(* Flush is that commit.                                                   *)
(*                                                                         *)
(* Abstracted data: a certificate's files and its fingerprint are one      *)
(* number, numbered in order of ingestion; valid_until is the age of that  *)
(* material; executions of type revoke are written in their final state    *)
(* and never read back, so only issue and renew executions are kept.       *)
(* Audit records, notifications and the discovery_ignores row of a deleted *)
(* import are written by these operations and read by none of them.        *)
(***************************************************************************)
EXTENDS Naturals, FiniteSets

CONSTANTS
  Certs,      \* ids of certificate rows
  Imported,   \* those of them that are imported: managed_by_platform is False
  Workers,    \* sessions that can run a lifecycle operation or a sweep
  Readers,    \* API sessions that read a certificate or cancel its renewal
  Inputs,     \* bound: the kinds of request, and crashes, of this instance
  MaxExec,    \* bound: executions of type issue or renew ever started
  MaxFp,      \* bound: certificates ever ingested into the file store
  MaxQueue    \* bound: Celery messages waiting in the broker

ASSUME ConstantsAssumption ==
  /\ Imported \subseteq Certs
  /\ Workers \cap Readers = {}
  /\ Inputs \subseteq {"issue", "clone", "import", "renew", "revoke", "delete",
                 "bulk", "retry", "update", "cancel", "maintenance",
                 "partial", "crash"}
  /\ MaxExec \in Nat
  /\ MaxFp \in Nat
  /\ MaxQueue \in Nat

VARIABLES
  row,          \* the certificates table
  exec,         \* the job_executions table
  nexec,        \* executions created so far; ids follow started_at
  files,        \* fingerprints with a directory in the file store
  nfp,          \* fingerprints ingested so far
  age,          \* valid_until of each fingerprint, against the clock
  queue,        \* Celery messages not yet delivered
  session,      \* what each process is doing, and what it has read
  maintenance   \* the maintenance_mode flag

vars == <<row, exec, nexec, files, nfp, age, queue, session, maintenance>>

Sessions == Workers \cup Readers
ExecIds == 1..MaxExec
FpIds == 1..MaxFp

\* "nil": the id has not been allocated yet; "gone": the row was deleted.
CertificateStatus == {"nil", "issuing", "active", "renewing", "expiring",
                      "failed", "revoked", "gone"}
RenewalStatus == {"none", "in_progress", "success", "failed", "skipped", "disabled"}
NoCert == "no_cert"
JobStatus == {"queued", "running", "success", "failed"}
Row == [status: CertificateStatus, renewal: RenewalStatus, auto: BOOLEAN,
        fp: 0..MaxFp, path: 0..MaxFp]            \* 0 is NULL
Execution == [type: {"none", "issue", "renew"}, cert: Certs \cup {NoCert},
              status: JobStatus, old: BOOLEAN]
Ops == {"issue", "renew", "revoke", "delete"}
Task == [op: Ops, cert: Certs]
NoTask == [op |-> "none"]
SweepTask == [op |-> "sweep"]
NilRow == [status |-> "nil", renewal |-> "none", auto |-> FALSE, fp |-> 0, path |-> 0]
GoneRow == [NilRow EXCEPT !.status = "gone"]
NoExec == [type |-> "none", cert |-> NoCert, status |-> "queued", old |-> FALSE]
IdleSession == [pc |-> "idle", cert |-> NoCert, exec |-> 0, todo |-> {},
                task |-> NoTask, view |-> [c \in Certs |-> NilRow]]

Exists(c) == row[c].status \notin {"nil", "gone"}

Init ==
  /\ row = [c \in Certs |-> NilRow]
  /\ exec = [e \in ExecIds |-> NoExec]
  /\ nexec = 0
  /\ files = {}
  /\ nfp = 0
  /\ age = [g \in FpIds |-> "fresh"]
  /\ queue = {}
  /\ session = [s \in Sessions |-> IdleSession]
  /\ maintenance = FALSE

----------------------------------------------------------------------------
(* Sessions and commits *)

\* What an UPDATE writes over r when a session that read `seen` commits `new`:
\* the columns the session changed, and no other.
Flush(r, seen, new) ==
  [status  |-> IF new.status = seen.status THEN r.status ELSE new.status,
   renewal |-> IF new.renewal = seen.renewal THEN r.renewal ELSE new.renewal,
   auto    |-> IF new.auto = seen.auto THEN r.auto ELSE new.auto,
   fp      |-> IF new.fp = seen.fp THEN r.fp ELSE new.fp,
   path    |-> IF new.path = seen.path THEN r.path ELSE new.path]

Become(s, pc) == [session EXCEPT ![s].pc = pc]

\* The session is done with its certificate: a sweep goes on with the next
\* one, anything else ends (and the broker message, if any, is acknowledged).
Done(s) ==
  [session EXCEPT ![s] =
     IF session[s].todo = {} THEN IdleSession
     ELSE [@ EXCEPT !.pc = "sweep", !.cert = NoCert, !.exec = 0,
                    !.view[session[s].cert] = NilRow]]

\* An operation begins on row c, which the session reads now.
Begin(s, pc, c, e, t) ==
  [session EXCEPT ![s] = [IdleSession EXCEPT !.pc = pc, !.cert = c, !.exec = e,
                                             !.task = t, !.view[c] = row[c]]]

\* The UPDATE of a row that another session deleted matches nothing: the flush
\* raises StaleDataError, nothing is written, and the session refuses further
\* work until it is rolled back, so a sweep loses its remaining certificates.
StaleData(s) ==
  /\ row[session[s].cert].status = "gone"
  /\ session' = [session EXCEPT ![s] = IdleSession]
  /\ UNCHANGED <<row, exec>>

\* Mutant: a commit that inserts the row when it is no longer there
Mutant_CommitUpserts(s, new, outcome) ==
  LET c == session[s].cert IN
  /\ row' = [row EXCEPT ![c] = Flush(@, session[s].view[c], new)]
  /\ exec' = [exec EXCEPT ![session[s].exec].status = outcome]
  /\ session' = Done(s)

\* The commit at the end of an operation: row and execution together.
CommitOutcome(s, new, outcome) ==
  LET c == session[s].cert IN
  \/ StaleData(s)
  \/ /\ row[c].status # "gone"
     /\ row' = [row EXCEPT ![c] = Flush(@, session[s].view[c], new)]
     /\ exec' = [exec EXCEPT ![session[s].exec].status = outcome]
     /\ session' = Done(s)

NewExec(type, c) == [type |-> type, cert |-> c, status |-> "running", old |-> FALSE]

\* valid_until is later than now
StillValid(g) == g # 0 /\ age[g] # "lapsed"

\* Mutant: a lapsed certificate is given a status that no lifecycle query expects
Mutant_ExpiredAfterFailure(g) == IF StillValid(g) THEN "active" ELSE "expired"

\* The status a certificate returns to when its renewal comes to nothing
StatusAfterFailure(g) == IF StillValid(g) THEN "active" ELSE "expiring"

\* Mutant: the files are replaced and the metadata is not refreshed
Mutant_IngestedPathOnly(r) == [r EXCEPT !.path = nfp + 1]

\* _ingest_material with _apply_metadata: the next fingerprint becomes the row's
Ingested(r) == [r EXCEPT !.fp = nfp + 1, !.path = nfp + 1]
IngestFiles ==
  /\ nfp < MaxFp
  /\ nfp' = nfp + 1
  /\ files' = files \cup {nfp + 1}
\* An exception during or before ingestion: the directory may be left behind.
IngestAborted == IngestFiles \/ UNCHANGED <<files, nfp>>

----------------------------------------------------------------------------
(* Issue *)

NewRow(auto) == [NilRow EXCEPT !.status = "issuing", !.auto = auto]

\* POST /certificates: the row is committed and a message sent to the worker.
IssueCertificate(c, auto) ==
  /\ "issue" \in Inputs
  /\ ~maintenance
  /\ c \notin Imported
  /\ row[c].status = "nil"
  /\ Cardinality(queue) < MaxQueue
  /\ row' = [row EXCEPT ![c] = NewRow(auto)]
  /\ queue' = queue \cup {[op |-> "issue", cert |-> c]}
  /\ UNCHANGED <<exec, nexec, files, nfp, age, session, maintenance>>

\* POST /certificates/{id}/clone issues in the request itself, whatever the
\* maintenance flag says.
CloneCertificate(w, src, c) ==
  /\ "clone" \in Inputs
  /\ session[w].pc = "idle"
  /\ Exists(src)
  /\ c \notin Imported
  /\ row[c].status = "nil"
  /\ nexec < MaxExec
  /\ row' = [row EXCEPT ![c] = NewRow(row[src].auto)]
  /\ exec' = [exec EXCEPT ![nexec + 1] = NewExec("issue", c)]
  /\ nexec' = nexec + 1
  /\ session' = [session EXCEPT ![w] =
       [IdleSession EXCEPT !.pc = "issue_call", !.cert = c, !.exec = nexec + 1,
                           !.view[c] = NewRow(row[src].auto)]]
  /\ UNCHANGED <<files, nfp, age, queue, maintenance>>

\* _execute_issuance up to the provider call; nothing looks at the row's status.
IssueBegin(w, c, t) ==
  /\ session[w].pc = "idle"
  /\ Exists(c)
  /\ nexec < MaxExec
  /\ exec' = [exec EXCEPT ![nexec + 1] = NewExec("issue", c)]
  /\ nexec' = nexec + 1
  /\ session' = Begin(w, "issue_call", c, nexec + 1, t)
  /\ UNCHANGED <<row, files, nfp, age, maintenance>>

IssueSucceed(w) ==
  /\ session[w].pc = "issue_call"
  /\ IngestFiles
  /\ CommitOutcome(w, [Ingested(session[w].view[session[w].cert])
                         EXCEPT !.status = "active", !.renewal = "none"], "success")
  /\ UNCHANGED <<nexec, age, queue, maintenance>>

\* The provider reports failure, or the provider's name is unknown.
IssueFail(w) ==
  /\ session[w].pc = "issue_call"
  /\ CommitOutcome(w, [session[w].view[session[w].cert]
                         EXCEPT !.status = "failed", !.renewal = "failed"], "failed")
  /\ UNCHANGED <<nexec, files, nfp, age, queue, maintenance>>

\* An exception leaves _execute_issuance (the request cannot be rebuilt, a hook
\* is missing, the issued file cannot be read): the transaction is rolled back,
\* and what was committed before it stays: a running execution, status issuing.
\* issue_task's autoretry does not apply: run_job calls it as a function.
IssueAbort(w) ==
  /\ session[w].pc = "issue_call"
  /\ session' = [session EXCEPT ![w] = IdleSession]
  /\ IngestAborted
  /\ UNCHANGED <<row, exec, nexec, age, queue, maintenance>>

----------------------------------------------------------------------------
(* Renew *)

\* The guards of renew_certificate on the row as this session sees it
Renewable(c, r) == c \notin Imported /\ r.renewal # "in_progress"

RenewRead(w, c, t) ==
  /\ session[w].pc = "idle"
  /\ Exists(c)
  /\ Renewable(c, row[c])
  /\ session' = Begin(w, "renew_begin", c, 0, t)
  /\ UNCHANGED <<row, exec, nexec, files, nfp, age, maintenance>>

\* The commit that claims the certificate and records the execution
RenewBegin(w) ==
  LET c == session[w].cert
      seen == session[w].view[c]
      claimed == [seen EXCEPT !.renewal = "in_progress", !.status = "renewing"]
  IN
  /\ session[w].pc = "renew_begin"
  /\ \/ StaleData(w) /\ UNCHANGED nexec
     \/ /\ row[c].status # "gone"
        /\ nexec < MaxExec
        /\ row' = [row EXCEPT ![c] = Flush(@, seen, claimed)]
        /\ exec' = [exec EXCEPT ![nexec + 1] = NewExec("renew", c)]
        /\ nexec' = nexec + 1
        /\ session' = [session EXCEPT ![w].pc = "renew_call", ![w].exec = nexec + 1,
                                      ![w].view[c] = claimed]
  /\ UNCHANGED <<files, nfp, age, queue, maintenance>>

\* A new certificate was obtained and ingested
RenewSucceed(w) ==
  /\ session[w].pc = "renew_call"
  /\ IngestFiles
  /\ CommitOutcome(w, [Ingested(session[w].view[session[w].cert])
                         EXCEPT !.status = "active", !.renewal = "success"], "success")
  /\ UNCHANGED <<nexec, age, queue, maintenance>>

\* certbot found the certificate not yet due
RenewSkip(w) ==
  /\ session[w].pc = "renew_call"
  /\ CommitOutcome(w, [session[w].view[session[w].cert]
                         EXCEPT !.status = "active", !.renewal = "skipped"], "success")
  /\ UNCHANGED <<nexec, files, nfp, age, queue, maintenance>>

\* Mutant: the failure branch forgets to restore the status
Mutant_RenewFailKeepsStatus(w) ==
  /\ session[w].pc = "renew_call"
  /\ CommitOutcome(w, [session[w].view[session[w].cert] EXCEPT !.renewal = "failed"], "failed")
  /\ UNCHANGED <<nexec, files, nfp, age, queue, maintenance>>

RenewFail(w) ==
  LET seen == session[w].view[session[w].cert] IN
  /\ session[w].pc = "renew_call"
  /\ CommitOutcome(w, [seen EXCEPT !.status = StatusAfterFailure(seen.fp),
                                   !.renewal = "failed"], "failed")
  /\ UNCHANGED <<nexec, files, nfp, age, queue, maintenance>>

\* An exception (unknown provider, unreadable file, Celery's soft time limit)
\* leaves renew_certificate after the claim was committed: the claim stays.
\* In a sweep the exception is logged and the loop goes on.
RenewAbort(w) ==
  /\ session[w].pc = "renew_call"
  /\ session' = Done(w)
  /\ IngestAborted
  /\ UNCHANGED <<row, exec, nexec, age, queue, maintenance>>

\* In a sweep, an ingestion that fails after cert_path was assigned (a key or a
\* full chain that cannot be written) leaves the assignment pending in the session,
\* which nobody rolls back: the session's next commit writes it.
RenewIngestFails(w) ==
  /\ "partial" \in Inputs
  /\ session[w].pc = "renew_call"
  /\ session[w].task = SweepTask
  /\ IngestFiles
  /\ session' = [session EXCEPT ![w].pc = "renew_leak", ![w].exec = 0,
                                ![w].view[session[w].cert].path = nfp + 1]
  /\ UNCHANGED <<row, exec, nexec, age, queue, maintenance>>

LeakCommit(w) ==
  LET c == session[w].cert IN
  /\ session[w].pc = "renew_leak"
  /\ \/ StaleData(w)
     \/ /\ row[c].status # "gone"
        /\ row' = [row EXCEPT ![c].path = session[w].view[c].path]
        /\ session' = Done(w)
        /\ UNCHANGED exec
  /\ UNCHANGED <<nexec, files, nfp, age, queue, maintenance>>

----------------------------------------------------------------------------
(* The sweep *)

Due(c) ==
  /\ row[c].auto
  /\ row[c].status \in {"active", "expiring"}
  /\ row[c].fp # 0
  /\ age[row[c].fp] # "fresh"

\* renew_due loads every due row into its session once.
SweepStart(w) ==
  /\ session[w].pc = "idle"
  /\ ~maintenance
  /\ \E c \in Certs: Due(c)
  /\ session' = [session EXCEPT ![w] =
       [IdleSession EXCEPT !.pc = "sweep", !.task = SweepTask,
          !.todo = {c \in Certs: Due(c)},
          !.view = [c \in Certs |-> IF Due(c) THEN row[c] ELSE NilRow]]]
  /\ UNCHANGED <<row, exec, nexec, files, nfp, age, queue, maintenance>>

\* Mutant: the loop has no handler, so the first refusal ends the sweep
Mutant_SweepStopsAtRefusal(w, c) ==
  /\ session[w].pc = "sweep"
  /\ c \in session[w].todo
  /\ IF Exists(c) /\ Renewable(c, session[w].view[c])
     THEN session' = [session EXCEPT ![w].pc = "renew_begin", ![w].cert = c,
                                     ![w].todo = @ \ {c}]
     ELSE session' = [session EXCEPT ![w] = IdleSession]
  /\ UNCHANGED <<row, exec, nexec, files, nfp, age, queue, maintenance>>

\* The next certificate of the list: get_certificate finds its row in the
\* table, and returns the object the session already holds.  A refusal is
\* logged and the loop goes on.
SweepNext(w, c) ==
  /\ session[w].pc = "sweep"
  /\ c \in session[w].todo
  /\ IF Exists(c) /\ Renewable(c, session[w].view[c])
     THEN session' = [session EXCEPT ![w].pc = "renew_begin", ![w].cert = c,
                                     ![w].todo = @ \ {c}]
     ELSE session' = [session EXCEPT ![w] =
            IF session[w].todo = {c} THEN IdleSession
            ELSE [@ EXCEPT !.todo = session[w].todo \ {c}, !.view[c] = NilRow]]
  /\ UNCHANGED <<row, exec, nexec, files, nfp, age, queue, maintenance>>

----------------------------------------------------------------------------
(* Resetting a stuck renewal *)

RunningRenewals(c) ==
  {e \in ExecIds: exec[e].type = "renew" /\ exec[e].cert = c /\ exec[e].status = "running"}

\* The RUNNING renew execution with the latest started_at, or 0
LatestRunning(c) ==
  IF RunningRenewals(c) = {} THEN 0
  ELSE CHOOSE e \in RunningRenewals(c): \A f \in RunningRenewals(c): f <= e

\* Over 60 minutes old.  Without an execution the code compares updated_at,
\* which is not modelled: any age is possible.
Stale(c) == LatestRunning(c) # 0 => exec[LatestRunning(c)].old

\* cancel_renewal's and mark_stale_renewal_failed's reads
ResetRead(r, c) ==
  /\ session[r].pc = "idle"
  /\ Exists(c)
  /\ row[c].renewal = "in_progress"
  /\ session' = Begin(r, "reset", c, LatestRunning(c), NoTask)

CancelRenewal(r, c) ==
  /\ "cancel" \in Inputs
  /\ ResetRead(r, c)
  /\ UNCHANGED <<row, exec, nexec, files, nfp, age, queue, maintenance>>

\* Mutant: nothing resets a renewal on read
Mutant_NeverStale(r, c) == FALSE /\ UNCHANGED vars

MarkStaleRenewal(r, c) ==
  /\ Stale(c)
  /\ ResetRead(r, c)
  /\ UNCHANGED <<row, exec, nexec, files, nfp, age, queue, maintenance>>

\* Mutant: the reset forgets the certificate
Mutant_ResetExecutionOnly(r) ==
  LET c == session[r].cert IN
  /\ session[r].pc = "reset"
  /\ \/ StaleData(r)
     \/ /\ row[c].status # "gone"
        /\ exec' = [exec EXCEPT ![session[r].exec].status = "failed"]
        /\ session' = Done(r)
        /\ UNCHANGED row
  /\ UNCHANGED <<nexec, files, nfp, age, queue, maintenance>>

\* Both end with the same writes to the execution and the certificate.
ResetWrite(r) ==
  LET c == session[r].cert
      seen == session[r].view[c]
      reset == [seen EXCEPT !.renewal = "failed", !.status = StatusAfterFailure(seen.fp)]
  IN
  /\ session[r].pc = "reset"
  /\ \/ StaleData(r)
     \/ /\ row[c].status # "gone"
        /\ row' = [row EXCEPT ![c] = Flush(@, seen, reset)]
        /\ exec' = IF session[r].exec = 0 THEN exec
                   ELSE [exec EXCEPT ![session[r].exec].status = "failed"]
        /\ session' = Done(r)
  /\ UNCHANGED <<nexec, files, nfp, age, queue, maintenance>>

----------------------------------------------------------------------------
(* Revoke, delete, edit *)

\* An imported certificate has no registered provider: rejected cleanly.
RevokeRead(w, c, t) ==
  /\ session[w].pc = "idle"
  /\ Exists(c)
  /\ c \notin Imported
  /\ session' = Begin(w, "revoke_call", c, 0, t)
  /\ UNCHANGED <<row, exec, nexec, files, nfp, age, maintenance>>

\* The CA refuses: an execution and an audit record, nothing else.
RevokeFail(w) ==
  /\ session[w].pc = "revoke_call"
  /\ session' = Done(w)
  /\ UNCHANGED <<row, exec, nexec, files, nfp, age, queue, maintenance>>

\* The CA accepted (it needs the certificate file); with delete_after the
\* directory of the fingerprint this session read is removed.
RevokeAccepted(w, cleanup) ==
  LET seen == session[w].view[session[w].cert] IN
  /\ session[w].pc = "revoke_call"
  /\ seen.path # 0
  /\ files' = IF cleanup THEN files \ {seen.fp} ELSE files
  /\ session' = Become(w, IF cleanup THEN "revoke_clean" ELSE "revoke_keep")
  /\ UNCHANGED <<row, exec, nexec, nfp, age, queue, maintenance>>

\* Mutant: the files are gone and the row still names them
Mutant_RevokeKeepsPath(w) ==
  LET c == session[w].cert
      seen == session[w].view[c]
      revoked == [seen EXCEPT !.status = "revoked", !.auto = FALSE, !.renewal = "disabled"]
  IN
  /\ session[w].pc \in {"revoke_clean", "revoke_keep"}
  /\ \/ StaleData(w)
     \/ /\ row[c].status # "gone"
        /\ row' = [row EXCEPT ![c] = Flush(@, seen, revoked)]
        /\ session' = Done(w)
        /\ UNCHANGED exec
  /\ UNCHANGED <<nexec, files, nfp, age, queue, maintenance>>

RevokeCommit(w) ==
  LET c == session[w].cert
      seen == session[w].view[c]
      revoked == [seen EXCEPT !.status = "revoked", !.auto = FALSE,
                    !.renewal = "disabled",
                    !.path = IF session[w].pc = "revoke_clean" THEN 0 ELSE @]
  IN
  /\ session[w].pc \in {"revoke_clean", "revoke_keep"}
  /\ \/ StaleData(w)
     \/ /\ row[c].status # "gone"
        /\ row' = [row EXCEPT ![c] = Flush(@, seen, revoked)]
        /\ session' = Done(w)
        /\ UNCHANGED exec
  /\ UNCHANGED <<nexec, files, nfp, age, queue, maintenance>>

\* _DELETABLE_STATUSES, and imported certificates whatever their status
Deletable(c, r) == c \in Imported \/ r.status \in {"failed", "revoked"}

DeleteRead(w, c, t) ==
  /\ session[w].pc = "idle"
  /\ Exists(c)
  /\ Deletable(c, row[c])
  /\ session' = Begin(w, "delete_unlink", c, 0, t)
  /\ UNCHANGED <<row, exec, nexec, files, nfp, age, maintenance>>

DeleteUnlink(w) ==
  LET seen == session[w].view[session[w].cert] IN
  /\ session[w].pc = "delete_unlink"
  /\ files' = IF seen.path # 0 THEN files \ {seen.fp} ELSE files
  /\ session' = Become(w, "delete_commit")
  /\ UNCHANGED <<row, exec, nexec, nfp, age, queue, maintenance>>

\* Mutant: the delete does not cascade to the executions
Mutant_DeleteKeepsExecutions(w) ==
  /\ session[w].pc = "delete_commit"
  /\ row' = [row EXCEPT ![session[w].cert] = GoneRow]
  /\ session' = Done(w)
  /\ UNCHANGED <<exec, nexec, files, nfp, age, queue, maintenance>>

\* The ORM cascades the delete to the executions (all, delete-orphan).
DeleteCommit(w) ==
  LET c == session[w].cert IN
  /\ session[w].pc = "delete_commit"
  /\ row' = [row EXCEPT ![c] = GoneRow]
  /\ exec' = [e \in ExecIds |-> IF exec[e].cert = c THEN NoExec ELSE exec[e]]
  /\ session' = Done(w)
  /\ UNCHANGED <<nexec, files, nfp, age, queue, maintenance>>

\* PATCH /certificates/{id}: a request that changes auto_renew
UpdateCertificate(c) ==
  /\ "update" \in Inputs
  /\ Exists(c)
  /\ row' = [row EXCEPT ![c].auto = ~@]
  /\ UNCHANGED <<exec, nexec, files, nfp, age, queue, session, maintenance>>

\* An import enters as active, with files, and never renewable.
ImportCertificate(c, auto) ==
  /\ "import" \in Inputs
  /\ c \in Imported
  /\ row[c].status = "nil"
  /\ IngestFiles
  /\ row' = [row EXCEPT ![c] = [Ingested(NilRow) EXCEPT !.status = "active", !.auto = auto]]
  /\ UNCHANGED <<exec, nexec, age, queue, session, maintenance>>

\* The key does not match, after the directory was written.
ImportRejected ==
  /\ "import" \in Inputs
  /\ IngestFiles
  /\ UNCHANGED <<row, exec, nexec, age, queue, session, maintenance>>

----------------------------------------------------------------------------
(* Entry points: API requests, Celery messages, execution retry *)

ApiRenew(w, c) ==
  /\ "renew" \in Inputs
  /\ ~maintenance
  /\ RenewRead(w, c, NoTask)
  /\ UNCHANGED queue

ApiRevoke(w, c) ==
  /\ "revoke" \in Inputs
  /\ ~maintenance
  /\ RevokeRead(w, c, NoTask)
  /\ UNCHANGED queue

\* The delete endpoint does not consult the maintenance flag.
ApiDelete(w, c) ==
  /\ "delete" \in Inputs
  /\ DeleteRead(w, c, NoTask)
  /\ UNCHANGED queue

\* POST /certificates/bulk: one message per certificate
BulkAction(t) ==
  /\ "bulk" \in Inputs
  /\ ~maintenance
  /\ t.op # "issue"
  /\ Exists(t.cert)
  /\ Cardinality(queue) < MaxQueue
  /\ queue' = queue \cup {t}
  /\ UNCHANGED <<row, exec, nexec, files, nfp, age, session, maintenance>>

\* Retrying an issuance marks its row QUEUED and sends a message that names the
\* execution; run_job ignores the name and starts a new execution.
RetryIssue(e) ==
  /\ "retry" \in Inputs
  /\ exec[e].type = "issue"
  /\ Cardinality(queue) < MaxQueue
  /\ exec' = [exec EXCEPT ![e].status = "queued"]
  /\ queue' = queue \cup {[op |-> "issue", cert |-> exec[e].cert]}
  /\ UNCHANGED <<row, nexec, files, nfp, age, session, maintenance>>

\* Retrying a renewal renews in the request, whatever the maintenance flag says.
RetryRenew(w, e) ==
  /\ "retry" \in Inputs
  /\ exec[e].type = "renew"
  /\ RenewRead(w, exec[e].cert, NoTask)
  /\ UNCHANGED queue

Deliver(w, t) ==
  /\ t \in queue
  /\ ~maintenance
  /\ queue' = queue \ {t}
  /\ \/ t.op = "issue" /\ IssueBegin(w, t.cert, t)
     \/ t.op = "renew" /\ RenewRead(w, t.cert, t)
     \/ t.op = "revoke" /\ RevokeRead(w, t.cert, t)
     \/ t.op = "delete" /\ DeleteRead(w, t.cert, t)

\* db_task's maintenance guard or the service's own guard raises: the message
\* is acknowledged and nothing has happened.
Refused(t) ==
  \/ maintenance
  \/ ~Exists(t.cert)
  \/ t.op = "renew" /\ ~Renewable(t.cert, row[t.cert])
  \/ t.op = "revoke" /\ t.cert \in Imported
  \/ t.op = "delete" /\ ~Deletable(t.cert, row[t.cert])

TaskRaises(w, t) ==
  /\ session[w].pc = "idle"
  /\ t \in queue
  /\ Refused(t)
  /\ queue' = queue \ {t}
  /\ UNCHANGED <<row, exec, nexec, files, nfp, age, session, maintenance>>

SetMaintenance ==
  /\ "maintenance" \in Inputs
  /\ maintenance' = ~maintenance
  /\ UNCHANGED <<row, exec, nexec, files, nfp, age, queue, session>>

----------------------------------------------------------------------------
(* The environment *)

\* A process dies (crash, restart, Celery's hard time limit).  Its message was
\* not acknowledged (acks_late): the broker may deliver it again.
Crash(w) ==
  /\ "crash" \in Inputs
  /\ session[w].pc # "idle"
  /\ session' = [session EXCEPT ![w] = IdleSession]
  /\ \/ UNCHANGED queue
     \/ /\ session[w].task \in Task
        /\ queue' = queue \cup {session[w].task}
  /\ UNCHANGED <<row, exec, nexec, files, nfp, age, maintenance>>

\* An hour passes over a renewal whose process is gone.  A live one cannot
\* reach that age: certbot is stopped after certbot_timeout_seconds (900).
HourPasses(e) ==
  /\ exec[e].type = "renew"
  /\ exec[e].status = "running"
  /\ ~exec[e].old
  /\ \A w \in Workers: session[w].exec # e
  /\ exec' = [exec EXCEPT ![e].old = TRUE]
  /\ UNCHANGED <<row, nexec, files, nfp, age, queue, session, maintenance>>

CertificateAges(g) ==
  /\ g <= nfp
  /\ age[g] # "lapsed"
  /\ age' = [age EXCEPT ![g] = IF @ = "fresh" THEN "due" ELSE "lapsed"]
  /\ UNCHANGED <<row, exec, nexec, files, nfp, queue, session, maintenance>>

Provider(w) ==
  \/ IssueSucceed(w) \/ IssueFail(w) \/ IssueAbort(w)
  \/ RenewSucceed(w) \/ RenewSkip(w) \/ RenewFail(w) \/ RenewAbort(w)
  \/ RenewIngestFails(w)
  \/ RevokeFail(w) \/ \E b \in BOOLEAN: RevokeAccepted(w, b)

Internal(w) ==
  \/ RenewBegin(w) \/ LeakCommit(w) \/ RevokeCommit(w) \/ DeleteUnlink(w) \/ DeleteCommit(w)
  \/ \E c \in Certs: SweepNext(w, c)

Worker(w) ==
  \/ Provider(w) \/ Internal(w) \/ Crash(w) \/ SweepStart(w)
  \/ \E t \in Task: Deliver(w, t) \/ TaskRaises(w, t)
  \/ \E c \in Certs: ApiRenew(w, c) \/ ApiRevoke(w, c) \/ ApiDelete(w, c)
  \/ \E c, src \in Certs: CloneCertificate(w, src, c)
  \/ \E e \in ExecIds: RetryRenew(w, e)

Reader(r) == ResetWrite(r) \/ \E c \in Certs: CancelRenewal(r, c) \/ MarkStaleRenewal(r, c)

Next ==
  \/ \E w \in Workers: Worker(w)
  \/ \E r \in Readers: Reader(r)
  \/ \E c \in Certs, auto \in BOOLEAN: IssueCertificate(c, auto) \/ ImportCertificate(c, auto)
  \/ \E c \in Certs: UpdateCertificate(c)
  \/ \E t \in Task: BulkAction(t)
  \/ \E e \in ExecIds: RetryIssue(e) \/ HourPasses(e)
  \/ \E g \in FpIds: CertificateAges(g)
  \/ ImportRejected
  \/ SetMaintenance

Spec == Init /\ [][Next]_vars

\* Statements are executed, certbot returns or is stopped by its timeout, the
\* broker delivers, beat starts the sweep, the clock advances, and certificates
\* are read (every poll of the list reads them all).
Fairness ==
  /\ \A w \in Workers:
       /\ WF_vars(Internal(w))
       /\ WF_vars(Provider(w))
       /\ SF_vars(SweepStart(w))
       /\ WF_vars(\E t \in Task: Deliver(w, t) \/ TaskRaises(w, t))
  /\ \A r \in Readers: WF_vars(ResetWrite(r))
  /\ \A c \in Certs: WF_vars(\E r \in Readers: MarkStaleRenewal(r, c))
  /\ \A e \in ExecIds: WF_vars(HourPasses(e))

FairSpec == Spec /\ Fairness

----------------------------------------------------------------------------
(* Properties *)

Pcs == {"idle", "issue_call", "renew_begin", "renew_call", "renew_leak", "sweep",
        "reset", "revoke_call", "revoke_clean", "revoke_keep", "delete_unlink", "delete_commit"}

Session == [pc: Pcs, cert: Certs \cup {NoCert}, exec: 0..MaxExec, todo: SUBSET Certs,
            task: Task \cup {NoTask, SweepTask}, view: [Certs -> Row]]

\* Every table, session and counter holds values of its declared kind.
TypeOK ==
  /\ row \in [Certs -> Row]
  /\ exec \in [ExecIds -> Execution]
  /\ nexec \in 0..MaxExec
  /\ files \subseteq FpIds
  /\ nfp \in 0..MaxFp
  /\ age \in [FpIds -> {"fresh", "due", "lapsed"}]
  /\ queue \subseteq Task
  /\ session \in [Sessions -> Session]
  /\ maintenance \in BOOLEAN

\* A certificate whose renewal is in progress has a RUNNING renew execution, so
\* mark_stale_renewal_failed always finds a started_at to measure the hour from
\* (its updated_at fallback is moved by any edit of the row).
InProgressHasExecution ==
  \A c \in Certs: row[c].renewal = "in_progress" => RunningRenewals(c) # {}

\* A row shown as renewing still has a RUNNING renew execution: the status is
\* never left behind by a renewal that has ended.
RenewingHasExecution ==
  \A c \in Certs: row[c].status = "renewing" => RunningRenewals(c) # {}

\* cert_path points into the directory named by fingerprint_sha256: revoke and
\* delete test the one and remove the other.  (An ingestion that fails half way
\* in a sweep breaks this.)
PathMatchesFingerprint ==
  \A c \in Certs: row[c].path \in {0, row[c].fp}

\* A row that names files has them, unless a revocation or a deletion is between
\* the removal of the files and its commit.  (A crash there breaks this.)
MaterialPresent ==
  \A c \in Certs:
    \/ row[c].path \in files \cup {0}
    \/ \E w \in Workers: session[w].cert = c /\ session[w].pc \in {"revoke_clean", "delete_commit"}

\* No execution outlives its certificate, whatever was in flight at the delete.
NoOrphanExecutions ==
  \A e \in ExecIds: exec[e].type # "none" => Exists(exec[e].cert)

\* A deleted certificate never comes back, even when a renewal, an issuance or a
\* revocation that was in flight commits after the delete.
DeletedStaysDeleted ==
  [][\A c \in Certs: row[c].status = "gone" => row'[c].status = "gone"]_vars

\* No renewal stays in progress for ever, whatever crashed: the next attempt and
\* the deletion of the certificate are not blocked indefinitely.
StuckRenewalIsCleared ==
  \A c \in Certs: row[c].renewal = "in_progress" ~> row[c].renewal # "in_progress"

\* A due certificate is eventually taken by a sweep even if the sweep meets one
\* it must refuse (an import with auto_renew set) each time.
DueIsAttempted ==
  \A c \in Certs \ Imported: Due(c) ~> (~Due(c) \/ nexec = MaxExec)
=============================================================================
