------------------------------- MODULE Backups -------------------------------
(***************************************************************************)
(* Backup and restore of certificate material,                             *)
(* backend/app/services/backup_service, run by the scheduler, by Celery's  *)
(* beat, by the API and from the command line.                             *)
(*                                                                         *)
(* A certificate is a fingerprint (0: none yet) and the store directory    *)
(* its paths name (0: none); a directory is named after the fingerprint of *)
(* what it holds, so an archive holds a fingerprint, or no certificate at  *)
(* all.  Archives are named by certificate and second: `now` counts        *)
(* seconds that differ.  How a certificate gets, replaces and loses its    *)
(* material is CertLifecycle's subject and is one step each here.          *)
(***************************************************************************)
EXTENDS Scheduler, Naturals

CONSTANTS
  Certs,      \* ids of certificates
  Issued,     \* those that are there, with material, at first
  Workers,    \* sessions
  Inputs,     \* bound: the requests and faults of this instance
  MaxFp,      \* bound: fingerprints
  MaxRows,    \* bound: rows of backups
  MaxNow,     \* bound: seconds that differ
  MaxEvents   \* bound: requests, and other changes from outside

VARIABLES
  cert,     \* the certificates table
  store,    \* directories of the file store that hold material
  nfp,      \* fingerprints given out so far
  archive,  \* the files under the backup root
  backup,   \* the backups table
  dump,     \* what the dumps of the database hold
  now,
  worker,   \* the sessions
  nevent    \* events so far

bvars == <<cert, store, nfp, archive, backup, dump, now, worker, nevent>>
vars == <<svars, bvars>>

Fps == 1..MaxFp
Rows == 1..MaxRows
Names == [c: Certs, at: 1..MaxNow]

\* What an archive may hold besides a fingerprint: no certificate; nothing readable
Empty == 0
Broken == MaxFp + 1
Contents == 0..(MaxFp + 1)

\* What a dump may hold
Dumps == {"whole", "cut", "blank"}

NoCert == [there |-> FALSE, fp |-> 0, path |-> 0]
\* History: `clash`: it was written to twice.
NoArchive == [there |-> FALSE, holds |-> Empty, by |-> "none", clash |-> FALSE]
\* `sum` is the checksum, as what it was taken of.  History: `old`: past keep-days;
\* `mixed`: the paths of the certificate were not of its fingerprint.
NoRow == [there |-> FALSE, c |-> "none", at |-> 0, fp |-> 0, sum |-> Empty, old |-> FALSE,
          mixed |-> FALSE]
\* `snap` are the certificates a backup has loaded, `row` the one a restore has.
Idle == [pc |-> "idle", job |-> "none", snap |-> [c \in Certs |-> NoCert], todo |-> {},
         rows |-> {}, c |-> "none", at |-> 0, fp |-> 0, row |-> NoCert]

ASSUME BackupsAssumption ==
  /\ Issued \subseteq Certs
  /\ IsFiniteSet(Issued)
  /\ MaxFp \in Nat /\ MaxFp >= Cardinality(Issued)
  /\ MaxRows \in Nat
  /\ MaxNow \in Nat \ {0}
  /\ MaxEvents \in Nat

Init ==
  /\ SchedulerInit
  /\ nfp = Cardinality(Issued)
  /\ \E f \in [Issued -> 1..nfp]:
       /\ \A c, d \in Issued: f[c] = f[d] => c = d
       /\ cert = [c \in Certs |-> IF c \in Issued
                                  THEN [there |-> TRUE, fp |-> f[c], path |-> f[c]] ELSE NoCert]
  /\ store = 1..nfp
  /\ archive = [n \in Names |-> NoArchive]
  /\ backup = [r \in Rows |-> NoRow]
  /\ dump = {}
  /\ now = 1
  /\ worker = [w \in Workers |-> Idle]
  /\ nevent = 0

----------------------------------------------------------------------------
(* The certificates, as others change them *)

Event == nevent < MaxEvents /\ nevent' = nevent + 1

\* issue_certificate: a row without a fingerprint until certbot has answered.
RequestCertificate(c) ==
  /\ Event
  /\ "request" \in Inputs
  /\ ~cert[c].there
  /\ cert' = [cert EXCEPT ![c] = [NoCert EXCEPT !.there = TRUE]]
  /\ UNCHANGED <<svars, store, nfp, archive, backup, dump, now, worker>>

\* An issuance or a renewal ends: new material, in a directory of its own.
Renew(c) ==
  /\ Event
  /\ cert[c].there
  /\ nfp < MaxFp
  /\ nfp' = nfp + 1
  /\ store' = store \cup {nfp + 1}
  /\ cert' = [cert EXCEPT ![c] = [there |-> TRUE, fp |-> nfp + 1, path |-> nfp + 1]]
  /\ UNCHANGED <<svars, archive, backup, dump, now, worker>>

\* revoke_certificate with delete_after
RevokeAndRemove(c) ==
  /\ Event
  /\ "revoke" \in Inputs
  /\ cert[c].path # 0
  /\ store' = store \ {cert[c].fp}
  /\ cert' = [cert EXCEPT ![c] = [cert[c] EXCEPT !.path = 0]]
  /\ UNCHANGED <<svars, nfp, archive, backup, dump, now, worker>>

\* delete_certificate.  The relationship deletes the backup rows too; their archives
\* stay, for restore from the command line, and nothing ever removes them.
DeleteCertificate(c) ==
  /\ Event
  /\ "delete" \in Inputs
  /\ cert[c].there
  /\ store' = IF cert[c].path # 0 THEN store \ {cert[c].fp} ELSE store
  /\ cert' = [cert EXCEPT ![c] = NoCert]
  /\ backup' = [r \in Rows |-> IF backup[r].c = c THEN NoRow ELSE backup[r]]
  /\ UNCHANGED <<svars, nfp, archive, dump, now, worker>>

----------------------------------------------------------------------------
(* Backup *)

Session(w, s) == worker' = [worker EXCEPT ![w] = s] /\ UNCHANGED nevent

\* A session takes up a task.
Begin(w, s) ==
  /\ worker[w].pc = "idle"
  /\ Event
  /\ worker' = [worker EXCEPT ![w] = s]

\* backup_all loads the certificates; the session keeps them as they are now
\* (expire_on_commit is off).
Loaded(job) == [Idle EXCEPT !.pc = "run", !.job = job, !.snap = cert,
                            !.todo = {c \in Certs: cert[c].there}]

\* POST /backups/run, the daily task, the command
RunBackup(w) ==
  /\ "run" \in Inputs
  /\ Begin(w, Loaded("none"))
  /\ UNCHANGED <<svars, cert, store, nfp, archive, backup, dump, now>>

\* The scheduler dispatches a job of type backup.
ScheduledBackup(w, j) ==
  /\ Fire(j, "backup")
  /\ Begin(w, Loaded(j))
  /\ UNCHANGED <<cert, store, nfp, archive, backup, dump, now>>

\* The loop of backup_all goes on without c.
Without(s, c) ==
  [s EXCEPT !.pc = "run", !.todo = s.todo \ {c}, !.snap = [s.snap EXCEPT ![c] = NoCert],
            !.c = "none", !.at = 0]

\* backup_certificate: without material there is nothing to do.
Skip(w, c) ==
  /\ worker[w].pc = "run"
  /\ c \in worker[w].todo
  /\ worker[w].snap[c].path \notin store
  /\ Session(w, Without(worker[w], c))
  /\ UNCHANGED <<svars, cert, store, nfp, archive, backup, dump, now>>

\* The archive is opened, and what was there under its name is gone.
OpenArchive(w, c) ==
  LET n == [c |-> c, at |-> now] IN
  /\ worker[w].pc = "run"
  /\ c \in worker[w].todo
  /\ worker[w].snap[c].path \in store
  /\ archive' = [archive EXCEPT ![n] = [there |-> TRUE, holds |-> Broken, by |-> w,
                                        clash |-> archive[n].there]]
  /\ Session(w, [worker[w] EXCEPT !.pc = "write", !.c = c, !.at = now])
  /\ UNCHANGED <<svars, cert, store, nfp, backup, dump, now>>

\* The files that are there now are added.  One that goes away in between raises: the
\* archive is closed as it is, and the loop goes on.  Two sessions that write one file
\* may spoil it.
WriteArchive(w, ok) ==
  LET s == worker[w]
      n == [c |-> s.c, at |-> s.at]
      material == IF s.snap[s.c].path \in store THEN s.snap[s.c].path ELSE Empty
  IN
  /\ s.pc = "write"
  /\ \E h \in IF archive[n].by = w THEN {material} ELSE {material, Broken}:
       archive' = [archive EXCEPT ![n] = [archive[n] EXCEPT !.holds = h]]
  /\ Session(w, IF ok THEN [s EXCEPT !.pc = "insert"]
                ELSE Without(s, s.c))
  /\ UNCHANGED <<svars, cert, store, nfp, backup, dump, now>>

\* Mutant: the row is added without its certificate
Mutant_RowWithoutCertificate(s) == [NoRow EXCEPT !.there = TRUE, !.at = s.at]

\* Mutant: the row describes the certificate as it is when the row is added
Mutant_FingerprintNow(s) ==
  [there |-> TRUE, c |-> s.c, at |-> s.at, fp |-> cert[s.c].fp,
   sum |-> archive[[c |-> s.c, at |-> s.at]].holds, old |-> FALSE,
   mixed |-> s.snap[s.c].fp # s.snap[s.c].path]

BackupRow(s) ==
  [there |-> TRUE, c |-> s.c, at |-> s.at, fp |-> s.snap[s.c].fp,
   sum |-> archive[[c |-> s.c, at |-> s.at]].holds, old |-> FALSE,
   mixed |-> s.snap[s.c].fp # s.snap[s.c].path]

\* Ids are not used twice.
Unused == {r \in Rows: ~backup[r].there /\ \A w \in Workers: r \notin worker[w].rows}

\* The row is added.  A certificate that was deleted meanwhile violates the foreign
\* key; the session is not rolled back, so the handler itself raises, and the
\* certificates that are left are not backed up.
InsertRow(w) ==
  LET s == worker[w] IN
  /\ s.pc = "insert"
  /\ IF cert[s.c].there
     THEN /\ Unused # {}
          /\ backup' = [backup EXCEPT ![CHOOSE r \in Unused: TRUE] = BackupRow(s)]
          /\ Session(w, Without(s, s.c))
     ELSE /\ Session(w, [Idle EXCEPT !.pc = "run", !.job = s.job])
          /\ UNCHANGED backup
  /\ UNCHANGED <<svars, cert, store, nfp, archive, dump, now>>

EndRun(w) ==
  /\ worker[w].pc = "run"
  /\ worker[w].todo = {}
  /\ IF worker[w].job \in Jobs THEN Dispatched(worker[w].job) ELSE UNCHANGED svars
  /\ Session(w, Idle)
  /\ UNCHANGED <<cert, store, nfp, archive, backup, dump, now>>

\* backup_database: a dump that fails, or whose process dies, leaves what it has
\* written.  Dumps are not on record, and nothing removes them.
DumpDatabase(d) ==
  /\ "dump" \in Inputs
  /\ Event
  /\ dump' = dump \cup {d}
  /\ UNCHANGED <<svars, cert, store, nfp, archive, backup, now, worker>>

----------------------------------------------------------------------------
(* Cleanup *)

\* cleanup_old_backups reads the rows that are older than keep-days: those of any
\* second that is past (no backup of one certificate takes that long).
Cleanup(w, before) ==
  LET old == {r \in Rows: backup[r].there /\ backup[r].at < before} IN
  /\ "cleanup" \in Inputs
  /\ before <= now /\ \A v \in Workers: worker[v].at \notin 1..(before - 1)
  /\ old # {}
  /\ Begin(w, [Idle EXCEPT !.pc = "unlink", !.rows = old,
                           !.todo = {[c |-> backup[r].c, at |-> backup[r].at]: r \in old}])
  /\ backup' = [r \in Rows |-> IF r \in old THEN [backup[r] EXCEPT !.old = TRUE] ELSE backup[r]]
  /\ UNCHANGED <<svars, cert, store, nfp, archive, dump, now>>

\* The archive first; a file that is gone already, or cannot be removed, is no error.
Unlink(w, n) ==
  /\ worker[w].pc = "unlink"
  /\ n \in worker[w].todo
  /\ archive' = [archive EXCEPT ![n] = NoArchive]
  /\ Session(w, [worker[w] EXCEPT !.todo = worker[w].todo \ {n}])
  /\ UNCHANGED <<svars, cert, store, nfp, backup, dump, now>>

\* Then all rows in one transaction.
DeleteRows(w) ==
  /\ worker[w].pc = "unlink"
  /\ worker[w].todo = {}
  /\ backup' = [r \in Rows |-> IF r \in worker[w].rows THEN NoRow ELSE backup[r]]
  /\ Session(w, Idle)
  /\ UNCHANGED <<svars, cert, store, nfp, archive, dump, now>>

----------------------------------------------------------------------------
(* Restore *)

WithFingerprint(f) == {c \in Certs: cert[c].there /\ cert[c].fp = f}

\* restore_certificate: the certificate that was named, if its fingerprint matches or
\* it has none, or else one with the fingerprint.  Any other is refused.
Target(id, f) ==
  IF id # "none" THEN {c \in {id}: cert[c].there /\ cert[c].fp \in {0, f}} ELSE WithFingerprint(f)

\* An archive that can be read and holds a certificate; through the API only one that
\* is on record.  (dry_run stops here.)
RestoreRead(w, n, id) ==
  LET f == archive[n].holds
      s == [Idle EXCEPT !.fp = f]
  IN
  /\ "restore" \in Inputs
  /\ archive[n].there /\ f \in Fps
  /\ \/ \E c \in Target(id, f): Begin(w, [s EXCEPT !.pc = "restore", !.c = c, !.row = cert[c]])
     \/ id = "none" /\ WithFingerprint(f) = {} /\ Begin(w, [s EXCEPT !.pc = "import"])
  /\ UNCHANGED <<svars, cert, store, nfp, archive, backup, dump, now>>

\* Mutant: every column is written, changed or not
Mutant_EveryColumn(now_, read, f) == [there |-> TRUE, fp |-> f, path |-> f]

\* The session writes the columns it has changed: those that differ from what it read.
Merged(now_, read, f) ==
  [there |-> TRUE, fp |-> IF read.fp = f THEN now_.fp ELSE f,
   path |-> IF read.path = f THEN now_.path ELSE f]

\* The files are written, then the row: if it was deleted meanwhile the files stay
\* and the request fails.
RestoreWrite(w) ==
  LET s == worker[w] IN
  /\ s.pc = "restore"
  /\ store' = store \cup {s.fp}
  /\ cert' = IF cert[s.c].there THEN [cert EXCEPT ![s.c] = Merged(cert[s.c], s.row, s.fp)] ELSE cert
  /\ Session(w, Idle)
  /\ UNCHANGED <<svars, nfp, archive, backup, dump, now>>

\* import_certificate looks for the fingerprint again, and writes the files.
RestoreImport(w) ==
  LET s == worker[w] IN
  /\ s.pc = "import"
  /\ IF WithFingerprint(s.fp) # {} THEN Session(w, Idle) /\ UNCHANGED store
     ELSE Session(w, [s EXCEPT !.pc = "add"]) /\ store' = store \cup {s.fp}
  /\ UNCHANGED <<svars, cert, nfp, archive, backup, dump, now>>

RestoreAdd(w, c) ==
  LET s == worker[w] IN
  /\ s.pc = "add"
  /\ ~cert[c].there
  /\ cert' = [cert EXCEPT ![c] = [there |-> TRUE, fp |-> s.fp, path |-> s.fp]]
  /\ Session(w, Idle)
  /\ UNCHANGED <<svars, store, nfp, archive, backup, dump, now>>

----------------------------------------------------------------------------
(* Verification *)

\* verify_backup_archives looks at every archive on disk: it can be read, holds a
\* certificate, and the checksum is that of a row with its name, if there is one.
\* It changes nothing, so it is a function of the state.
RowsOf(n) == {r \in Rows: backup[r].there /\ backup[r].c = n.c /\ backup[r].at = n.at}

\* Mutant: only the checksum is looked at
Mutant_ChecksumOnly(n) ==
  RowsOf(n) = {} \/ \E r \in RowsOf(n): backup[r].sum = archive[n].holds

Verified(n) ==
  /\ archive[n].holds \in Fps
  /\ RowsOf(n) = {} \/ \E r \in RowsOf(n): backup[r].sum = archive[n].holds

\* _verify_database_dump takes any text, and any dump of which the head is there.
DumpVerified(d) == d # "blank"

VerifyOk == /\ \A n \in Names: archive[n].there => Verified(n)
            /\ \A d \in dump: DumpVerified(d)

----------------------------------------------------------------------------

\* A session's process dies.
Crash(w) ==
  /\ "crash" \in Inputs
  /\ Event
  /\ worker[w].pc # "idle"
  /\ worker[w].job = "none"
  /\ worker' = [worker EXCEPT ![w] = Idle]
  /\ UNCHANGED <<svars, cert, store, nfp, archive, backup, dump, now>>

\* The table is edited, the process of the scheduler starts.
SchedulerChanges ==
  /\ Event
  /\ StartScheduler \/ \E j \in Jobs, row \in JobRows: SaveJob(j, row)
  /\ UNCHANGED <<cert, store, nfp, archive, backup, dump, now, worker>>

\* The process of the scheduler stops, with the session of its job.
SchedulerStops ==
  /\ Event
  /\ StopScheduler
  /\ worker' = [w \in Workers |-> IF worker[w].job \in Jobs THEN Idle ELSE worker[w]]
  /\ UNCHANGED <<cert, store, nfp, archive, backup, dump, now>>

Tick ==
  /\ now < MaxNow
  /\ now' = now + 1
  /\ UNCHANGED <<svars, cert, store, nfp, archive, backup, dump, worker, nevent>>

Next ==
  \/ SchedulerChanges \/ SchedulerStops \/ Tick
  \/ \E d \in Dumps: DumpDatabase(d)
  \/ \E c \in Certs: \/ RequestCertificate(c) \/ Renew(c)
                     \/ RevokeAndRemove(c) \/ DeleteCertificate(c)
  \/ \E w \in Workers:
       \/ RunBackup(w) \/ InsertRow(w) \/ EndRun(w) \/ DeleteRows(w)
       \/ RestoreWrite(w) \/ RestoreImport(w) \/ Crash(w)
       \/ \E j \in Jobs: ScheduledBackup(w, j)
       \/ \E c \in Certs: Skip(w, c) \/ OpenArchive(w, c) \/ RestoreAdd(w, c)
       \/ \E ok \in BOOLEAN: WriteArchive(w, ok)
       \/ \E before \in 2..MaxNow: Cleanup(w, before)
       \/ \E n \in Names: Unlink(w, n) \/ \E id \in Certs \cup {"none"}: RestoreRead(w, n, id)

Spec == Init /\ [][Next]_vars

----------------------------------------------------------------------------
(* Properties *)

\* Fingerprints in use were given out, and seconds have come.
CertRow == [there: BOOLEAN, fp: 0..nfp, path: 0..nfp]
Archive == [there: BOOLEAN, holds: 0..nfp \cup {Broken}, by: Workers \cup {"none"},
            clash: BOOLEAN]
Row == [there: BOOLEAN, c: Certs \cup {"none"}, at: 0..now, fp: 0..nfp, sum: Contents,
        old: BOOLEAN, mixed: BOOLEAN]
Process == [pc: {"idle", "run", "write", "insert", "unlink", "restore", "import", "add"},
            job: Jobs \cup {"none"}, snap: [Certs -> CertRow], todo: SUBSET (Certs \cup Names),
            rows: SUBSET Rows, c: Certs \cup {"none"}, at: 0..now, fp: 0..nfp, row: CertRow]

\* Tables, files and sessions hold values of their kinds, and a backup on record has its
\* certificate.
TypeOK ==
  /\ cert \in [Certs -> CertRow]
  /\ nfp \in 0..MaxFp /\ store \subseteq 1..nfp
  /\ archive \in [Names -> Archive]
  /\ backup \in [Rows -> Row]
  /\ \A r \in Rows: backup[r].there => backup[r].c \in Certs
  /\ dump \subseteq Dumps
  /\ now \in 1..MaxNow /\ nevent \in 0..MaxEvents
  /\ worker \in [Workers -> Process]

\* A backup that is on record, and not past its keep-days, can be restored: its archive
\* is there and holds the certificate the row names.  Not so if two backups of the
\* certificate fell into one second, if its files were removed while they were archived,
\* or if a restore had left it with paths that are not of its fingerprint.
BackupIsRestorable ==
  \A r \in Rows: backup[r].there /\ ~backup[r].old /\ ~backup[r].mixed =>
    LET a == archive[[c |-> backup[r].c, at |-> backup[r].at]] IN
    a.there /\ (a.clash \/ a.holds \in {backup[r].fp, Empty})

\* What verification passes can be restored: an archive on disk that was written once
\* holds the certificate its row names, even if its files were being removed while
\* they were archived.  (A row whose archive is gone is not looked at.)
VerifiedRestores ==
  VerifyOk => \A n \in Names: archive[n].there /\ ~archive[n].clash
                => \A r \in RowsOf(n): backup[r].mixed \/ archive[n].holds = backup[r].fp

\* A session is restoring c, which was replaced since the session read it.
Overtaken(w, c) == worker[w].pc = "restore" /\ worker[w].c = c /\ worker[w].row # cert[c]

\* Apart from issuance and renewal, which use a new fingerprint, a certificate keeps the
\* one it has, and its path stays in the directory of that fingerprint.  Only a restore
\* that read the certificate before it was replaced may break this: the path, if it
\* differed then, and the fingerprint, if there was none.
RestoreKeepsIdentity ==
  [][\A c \in Certs: cert[c].there /\ cert'[c].there /\ nfp' = nfp =>
       \/ cert[c].fp = 0 /\ cert'[c].path = cert'[c].fp
       \/ /\ \/ cert'[c].fp = cert[c].fp
             \/ \E w \in Workers: Overtaken(w, c) /\ worker[w].row.fp = 0
          /\ \/ cert'[c].path \in {cert[c].path, 0, cert'[c].fp}
             \/ \E w \in Workers: Overtaken(w, c)]_vars
==============================================================================
