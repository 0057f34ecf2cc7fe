---------------------------- MODULE BackupsProofs ----------------------------
(***************************************************************************)
(* Proofs about Backups, for any certificates, sessions, requests and      *)
(* bounds.                                                                 *)
(*                                                                         *)
(* An archive is known by its name, the certificate and the second, which  *)
(* several sessions may use at once; `by` is the session that opened it    *)
(* last.  The argument is that a session whose archive was opened once is  *)
(* the one that opened it, and that cleanup only removes names of seconds  *)
(* that are past.                                                          *)
(***************************************************************************)
EXTENDS Backups, FiniteSetTheorems, TLAPS

Name(x) == [c |-> x.c, at |-> x.at]
Writes(w) == worker[w].pc \in {"write", "insert"}

\* The archive a session is writing is there, and is its own unless it was opened twice;
\* no row has its name yet.
WriterOK(w) ==
  Writes(w) =>
    /\ worker[w].c \in Certs /\ worker[w].at \in 1..now
    /\ archive[Name(worker[w])].there
    /\ \/ archive[Name(worker[w])].clash
       \/ /\ archive[Name(worker[w])].by = w
          /\ worker[w].pc = "insert" =>
               archive[Name(worker[w])].holds \in {worker[w].snap[worker[w].c].path, Empty}
          /\ \A r \in Rows: backup[r].there => Name(backup[r]) # Name(worker[w])

\* Cleanup removes archives of rows that are past keep-days, and of no session that writes.
CleanerOK(w) ==
  worker[w].pc = "unlink" => \A n \in worker[w].todo \cap Names:
    /\ n.at < now
    /\ \A v \in Workers: Writes(v) => n.at < worker[v].at
    /\ \A r \in Rows: backup[r].there /\ Name(backup[r]) = n => backup[r].old

\* A restore has read a certificate that has the fingerprint of the archive, or none.
RestorerOK(w) ==
  /\ worker[w].pc \in {"restore", "import", "add"} => worker[w].fp # 0
  /\ worker[w].pc = "restore" => worker[w].c \in Certs /\ worker[w].row.fp \in {0, worker[w].fp}

SessionInv == \A w \in Workers: WriterOK(w) /\ CleanerOK(w) /\ RestorerOK(w)

RowOK(r) ==
  backup[r].there =>
    /\ backup[r].c \in Certs /\ backup[r].at \in 1..now
    /\ backup[r].old => backup[r].at < now
    /\ ~backup[r].old => archive[Name(backup[r])].there
    /\ archive[Name(backup[r])].there /\ ~backup[r].mixed =>
         \/ archive[Name(backup[r])].clash
         \/ archive[Name(backup[r])].holds \in {backup[r].fp, Empty}
RowInv == \A r \in Rows: RowOK(r)

IInv == TypeOK /\ SessionInv /\ RowInv

----------------------------------------------------------------------------
(* Types *)

\* The types depend on the fingerprints given out and on the clock, and only grow.
LEMMA TypesGrow ==
  ASSUME nfp \in Nat, nfp' \in Nat, nfp <= nfp', now \in Nat, now' \in Nat, now <= now'
  PROVE  /\ CertRow \subseteq CertRow' /\ Archive \subseteq Archive'
         /\ Row \subseteq Row' /\ Process \subseteq Process'
<1>1. 0..nfp \subseteq 0..nfp' /\ 0..now \subseteq 0..now'
  OBVIOUS
<1>2. CertRow \subseteq CertRow'
  BY <1>1 DEF CertRow
<1>3. Archive \subseteq Archive'
  BY <1>1 DEF Archive, Broken
<1>4. Row \subseteq Row'
  BY <1>1 DEF Row, Contents
<1>5. Process \subseteq Process'
  BY <1>1, <1>2 DEF Process, Names, Rows
<1> QED BY <1>2, <1>3, <1>4, <1>5

LEMMA TypesSame ==
  ASSUME UNCHANGED <<nfp, now>>
  PROVE  CertRow' = CertRow /\ Archive' = Archive /\ Row' = Row /\ Process' = Process
  BY DEF CertRow, Archive, Row, Process

\* Numbers that are in use
LEMMA Numbers ==
  ASSUME TypeOK
  PROVE  /\ nfp \in Nat /\ now \in Nat /\ 0 \in 0..nfp /\ 0 \in 0..now /\ now \in 1..MaxNow
         /\ now \in 0..now /\ MaxFp \in Nat /\ MaxNow \in Nat /\ nevent \in 0..MaxEvents
         /\ 0..nfp \subseteq Contents /\ Broken \in Contents /\ nfp \in 0..MaxFp
  BY BackupsAssumption DEF TypeOK, Contents, Broken

\* What a session may be, step by step
LEMMA Sessions ==
  ASSUME TypeOK
  PROVE  /\ NoCert \in CertRow /\ NoRow \in Row /\ NoArchive \in Archive
         /\ Idle \in Process /\ Idle.pc = "idle"
         /\ \A job \in Jobs \cup {"none"}: Loaded(job) \in Process /\ Loaded(job).pc = "run"
         /\ \A job \in Jobs \cup {"none"}: [Idle EXCEPT !.pc = "run", !.job = job] \in Process
         /\ \A s \in Process, c \in Certs: Without(s, c) \in Process /\ Without(s, c).pc = "run"
<1>0. 0 \in 0..nfp /\ 0 \in 0..now /\ 0 \in Contents
  BY Numbers DEF Contents
<1>1. NoCert \in CertRow
  BY <1>0 DEF NoCert, CertRow
<1>2. NoRow \in Row
  BY <1>0 DEF NoRow, Row, Empty
<1>3. NoArchive \in Archive
  BY <1>0 DEF NoArchive, Archive, Empty
<1>4. [c \in Certs |-> NoCert] \in [Certs -> CertRow]
  BY <1>1
<1>5. Idle \in Process /\ Idle.pc = "idle"
  BY <1>0, <1>1, <1>4 DEF Idle, Process
<1>6. \A job \in Jobs \cup {"none"}: [Idle EXCEPT !.pc = "run", !.job = job] \in Process
  BY <1>5 DEF Process
<1>7. ASSUME NEW job \in Jobs \cup {"none"}
      PROVE  Loaded(job) \in Process /\ Loaded(job).pc = "run"
  <2>1. cert \in [Certs -> CertRow] /\ {c \in Certs: cert[c].there} \in SUBSET (Certs \cup Names)
    BY DEF TypeOK
  <2> QED BY <2>1, <1>5 DEF Loaded, Process
<1>8. ASSUME NEW s \in Process, NEW c \in Certs
      PROVE  Without(s, c) \in Process /\ Without(s, c).pc = "run"
  <2>1. [s.snap EXCEPT ![c] = NoCert] \in [Certs -> CertRow]
    BY <1>1 DEF Process
  <2>2. s.todo \ {c} \in SUBSET (Certs \cup Names)
    BY DEF Process
  <2> QED BY <1>0, <2>1, <2>2 DEF Without, Process
<1> QED BY <1>1, <1>2, <1>3, <1>5, <1>6, <1>7, <1>8

LEMMA EventCounted ==
  ASSUME TypeOK, Event
  PROVE  nevent' \in 0..MaxEvents
  BY BackupsAssumption DEF TypeOK, Event

\* A session that goes on has a type.
LEMMA SessionTyped ==
  ASSUME TypeOK, NEW w \in Workers, NEW s \in Process
  PROVE  /\ Session(w, s) => worker' \in [Workers -> Process] /\ nevent' \in 0..MaxEvents
         /\ Begin(w, s) => worker' \in [Workers -> Process] /\ nevent' \in 0..MaxEvents
  BY EventCounted DEF TypeOK, Session, Begin

LEMMA TypeFrom ==
  ASSUME TypeOK, UNCHANGED <<nfp, now>>,
         cert' \in [Certs -> CertRow], store' \subseteq 1..nfp,
         archive' \in [Names -> Archive], backup' \in [Rows -> Row],
         \A r \in Rows: backup'[r].there => backup'[r].c \in Certs,
         dump' \subseteq Dumps, worker' \in [Workers -> Process], nevent' \in 0..MaxEvents
  PROVE  TypeOK'
  BY TypesSame DEF TypeOK

\* The archive of a certificate at a second has a name.
LEMMA NameIs ==
  ASSUME TypeOK, NEW c \in Certs, NEW t \in 1..now
  PROVE  [c |-> c, at |-> t] \in Names
<1>1. t \in 1..MaxNow
  BY Numbers
<1> QED BY <1>1 DEF Names

\* The steps of a backup
LEMMA BackupTypes ==
  ASSUME TypeOK, SessionInv, NEW w \in Workers,
         \/ RunBackup(w) \/ InsertRow(w) \/ EndRun(w)
         \/ \E j \in Jobs: ScheduledBackup(w, j)
         \/ \E c \in Certs: Skip(w, c) \/ OpenArchive(w, c)
         \/ \E ok \in BOOLEAN: WriteArchive(w, ok)
  PROVE  TypeOK'
<1>0. /\ cert \in [Certs -> CertRow] /\ store \subseteq 1..nfp
      /\ archive \in [Names -> Archive] /\ backup \in [Rows -> Row]
      /\ \A r \in Rows: backup[r].there => backup[r].c \in Certs
      /\ dump \subseteq Dumps /\ worker \in [Workers -> Process] /\ worker[w] \in Process
  BY DEF TypeOK
<1>1. CASE RunBackup(w)
  <2>1. worker' \in [Workers -> Process] /\ nevent' \in 0..MaxEvents
    BY <1>1, Sessions, SessionTyped DEF RunBackup
  <2> QED BY <1>0, <1>1, <2>1, TypeFrom DEF RunBackup
<1>2. ASSUME NEW j \in Jobs, ScheduledBackup(w, j) PROVE TypeOK'
  <2>1. worker' \in [Workers -> Process] /\ nevent' \in 0..MaxEvents
    BY <1>2, Sessions, SessionTyped DEF ScheduledBackup
  <2> QED BY <1>0, <1>2, <2>1, TypeFrom DEF ScheduledBackup
<1>3. ASSUME NEW c \in Certs, Skip(w, c) PROVE TypeOK'
  <2>1. worker' \in [Workers -> Process] /\ nevent' \in 0..MaxEvents
    BY <1>0, <1>3, Sessions, SessionTyped DEF Skip
  <2> QED BY <1>0, <1>3, <2>1, TypeFrom DEF Skip
<1>4. CASE EndRun(w)
  <2>1. worker' \in [Workers -> Process] /\ nevent' \in 0..MaxEvents
    BY <1>4, Sessions, SessionTyped DEF EndRun
  <2> QED BY <1>0, <1>4, <2>1, TypeFrom DEF EndRun
<1>5. ASSUME NEW c \in Certs, OpenArchive(w, c) PROVE TypeOK'
  <2> DEFINE n == [c |-> c, at |-> now]
             a == [there |-> TRUE, holds |-> Broken, by |-> w, clash |-> archive[n].there]
             s == [worker[w] EXCEPT !.pc = "write", !.c = c, !.at = now]
  <2>1. now \in 1..now /\ n \in Names
    BY Numbers, NameIs
  <2>2. archive[n].there \in BOOLEAN
    BY <1>0, <2>1 DEF Archive
  <2>3. a \in Archive
    BY <2>2 DEF Archive
  <2>4. s \in Process
    BY <1>0, Numbers DEF Process
  <2>5. archive' = [archive EXCEPT ![n] = a] /\ Session(w, s)
    BY <1>5 DEF OpenArchive
  <2> HIDE DEF n, a, s
  <2>6. archive' \in [Names -> Archive] /\ worker' \in [Workers -> Process]
        /\ nevent' \in 0..MaxEvents
    BY <1>0, <2>1, <2>3, <2>4, <2>5, SessionTyped
  <2> QED BY <1>0, <1>5, <2>6, TypeFrom DEF OpenArchive
<1>6. ASSUME NEW ok \in BOOLEAN, WriteArchive(w, ok) PROVE TypeOK'
  <2> DEFINE s == worker[w]
             n == [c |-> s.c, at |-> s.at]
             material == IF s.snap[s.c].path \in store THEN s.snap[s.c].path ELSE Empty
  <2>1. s.pc = "write" /\ s.c \in Certs /\ s.at \in 1..now
    BY <1>6 DEF WriteArchive, SessionInv, WriterOK, Writes
  <2>2. n \in Names /\ archive[n] \in Archive
    BY <1>0, <2>1, NameIs
  <2>3. material \in 0..nfp \cup {Broken} /\ Broken \in 0..nfp \cup {Broken}
    <3>1. Empty \in 0..nfp /\ \A x \in store: x \in 0..nfp
      BY <1>0, Numbers DEF Empty
    <3> QED BY <3>1
  <2>4. PICK h \in 0..nfp \cup {Broken}:
          archive' = [archive EXCEPT ![n] = [archive[n] EXCEPT !.holds = h]]
    BY <1>6, <2>3 DEF WriteArchive
  <2>5. [archive[n] EXCEPT !.holds = h] \in Archive
    BY <2>2, <2>4 DEF Archive
  <2>6. archive' \in [Names -> Archive]
    BY <1>0, <2>2, <2>4, <2>5
  <2>7. [s EXCEPT !.pc = "insert"] \in Process /\ Without(s, s.c) \in Process
    BY <1>0, <2>1, Sessions DEF Process
  <2>8. (IF ok THEN [s EXCEPT !.pc = "insert"] ELSE Without(s, s.c)) \in Process
    BY <2>7
  <2>9. worker' \in [Workers -> Process] /\ nevent' \in 0..MaxEvents
    BY <1>6, <2>8, SessionTyped DEF WriteArchive
  <2> QED BY <1>0, <1>6, <2>6, <2>9, TypeFrom DEF WriteArchive
<1>7. CASE InsertRow(w)
  <2> DEFINE s == worker[w]
  <2>1. s.pc = "insert" /\ s.c \in Certs /\ s.at \in 1..now /\ s \in Process
    BY <1>0, <1>7 DEF InsertRow, SessionInv, WriterOK, Writes
  <2>2. s.snap[s.c] \in CertRow /\ archive[[c |-> s.c, at |-> s.at]] \in Archive
    BY <1>0, <2>1, NameIs DEF Process
  <2>3. s.snap[s.c].fp \in 0..nfp /\ archive[[c |-> s.c, at |-> s.at]].holds \in Contents
    BY <2>2, Numbers DEF CertRow, Archive
  <2>4. s.at \in 0..now
    BY <2>1, Numbers
  <2>5. BackupRow(s) \in Row /\ BackupRow(s).c = s.c
    BY <2>1, <2>3, <2>4 DEF BackupRow, Row
  <2>6. [Idle EXCEPT !.pc = "run", !.job = s.job] \in Process /\ Without(s, s.c) \in Process
    <3>1. s.job \in Jobs \cup {"none"}
      BY <2>1 DEF Process
    <3> QED BY <2>1, <3>1, Sessions
  <2>7. worker' \in [Workers -> Process] /\ nevent' \in 0..MaxEvents
    BY <1>7, <2>6, SessionTyped DEF InsertRow
  <2>8. backup' \in [Rows -> Row] /\ \A r \in Rows: backup'[r].there => backup'[r].c \in Certs
    <3>1. CASE UNCHANGED backup BY <1>0, <3>1
    <3>2. CASE Unused # {} /\ backup' = [backup EXCEPT ![CHOOSE r \in Unused: TRUE] = BackupRow(s)]
      <4>1. PICK q \in Rows: backup' = [backup EXCEPT ![q] = BackupRow(s)]
        BY <3>2 DEF Unused
      <4> QED BY <1>0, <2>1, <2>5, <4>1
    <3> QED BY <1>7, <3>1, <3>2 DEF InsertRow
  <2> QED BY <1>0, <1>7, <2>7, <2>8, TypeFrom DEF InsertRow
<1> QED BY <1>1, <1>2, <1>3, <1>4, <1>5, <1>6, <1>7

\* Cleanup and restore
LEMMA OtherTypes ==
  ASSUME TypeOK, SessionInv, RowInv, NEW w \in Workers,
         \/ DeleteRows(w) \/ RestoreWrite(w) \/ RestoreImport(w) \/ Crash(w)
         \/ \E c \in Certs: RestoreAdd(w, c)
         \/ \E before \in 2..MaxNow: Cleanup(w, before)
         \/ \E n \in Names: Unlink(w, n) \/ \E id \in Certs \cup {"none"}: RestoreRead(w, n, id)
  PROVE  TypeOK'
<1>0. /\ cert \in [Certs -> CertRow] /\ store \subseteq 1..nfp
      /\ archive \in [Names -> Archive] /\ backup \in [Rows -> Row]
      /\ \A r \in Rows: backup[r].there => backup[r].c \in Certs
      /\ dump \subseteq Dumps /\ worker \in [Workers -> Process] /\ worker[w] \in Process
  BY DEF TypeOK
<1>a. worker[w].fp # 0 => worker[w].fp \in 1..nfp
  BY <1>0, Numbers DEF Process
<1>1. CASE DeleteRows(w)
  <2>1. worker' \in [Workers -> Process] /\ nevent' \in 0..MaxEvents
    BY <1>1, Sessions, SessionTyped DEF DeleteRows
  <2>2. backup' = [r \in Rows |-> IF r \in worker[w].rows THEN NoRow ELSE backup[r]]
    BY <1>1 DEF DeleteRows
  <2>3. NoRow \in Row /\ NoRow.there = FALSE
    BY Sessions DEF NoRow
  <2>4. backup' \in [Rows -> Row] /\ \A r \in Rows: backup'[r].there => backup'[r].c \in Certs
    BY <1>0, <2>2, <2>3
  <2> QED BY <1>0, <1>1, <2>1, <2>4, TypeFrom DEF DeleteRows
<1>2. CASE RestoreWrite(w)
  <2>1. worker' \in [Workers -> Process] /\ nevent' \in 0..MaxEvents
    BY <1>2, Sessions, SessionTyped DEF RestoreWrite
  <2>2. worker[w].fp \in 1..nfp /\ worker[w].c \in Certs
    BY <1>2, <1>a DEF RestoreWrite, SessionInv, RestorerOK
  <2>3. cert[worker[w].c] \in CertRow /\ worker[w].row \in CertRow /\ worker[w].fp \in 0..nfp
    BY <1>0, <2>2, Numbers DEF Process
  <2>4. Merged(cert[worker[w].c], worker[w].row, worker[w].fp) \in CertRow
    BY <2>3 DEF Merged, CertRow
  <2>5. cert' \in [Certs -> CertRow]
    BY <1>0, <1>2, <2>4 DEF RestoreWrite
  <2>6. store' \subseteq 1..nfp
    BY <1>0, <1>2, <2>2 DEF RestoreWrite
  <2> QED BY <1>0, <1>2, <2>1, <2>5, <2>6, TypeFrom DEF RestoreWrite
<1>3. CASE RestoreImport(w)
  <2>1. [worker[w] EXCEPT !.pc = "add"] \in Process
    BY <1>0 DEF Process
  <2>2. worker' \in [Workers -> Process] /\ nevent' \in 0..MaxEvents
    BY <1>3, <2>1, Sessions, SessionTyped DEF RestoreImport
  <2>3. worker[w].fp \in 1..nfp
    BY <1>3, <1>a DEF RestoreImport, SessionInv, RestorerOK
  <2>4. store' \subseteq 1..nfp
    BY <1>0, <1>3, <2>3 DEF RestoreImport
  <2> QED BY <1>0, <1>3, <2>2, <2>4, TypeFrom DEF RestoreImport
<1>4. CASE Crash(w)
  <2>1. worker' \in [Workers -> Process] /\ nevent' \in 0..MaxEvents
    BY <1>0, <1>4, Sessions, EventCounted DEF Crash
  <2> QED BY <1>0, <1>4, <2>1, TypeFrom DEF Crash
<1>5. ASSUME NEW c \in Certs, RestoreAdd(w, c) PROVE TypeOK'
  <2>1. worker' \in [Workers -> Process] /\ nevent' \in 0..MaxEvents
    BY <1>5, Sessions, SessionTyped DEF RestoreAdd
  <2>2. [there |-> TRUE, fp |-> worker[w].fp, path |-> worker[w].fp] \in CertRow
    BY <1>0 DEF CertRow, Process
  <2>3. cert' \in [Certs -> CertRow]
    BY <1>0, <1>5, <2>2 DEF RestoreAdd
  <2> QED BY <1>0, <1>5, <2>1, <2>3, TypeFrom DEF RestoreAdd
<1>6. ASSUME NEW before \in 2..MaxNow, Cleanup(w, before) PROVE TypeOK'
  <2> DEFINE old == {r \in Rows: backup[r].there /\ backup[r].at < before}
             s == [Idle EXCEPT !.pc = "unlink", !.rows = old,
                               !.todo = {[c |-> backup[r].c, at |-> backup[r].at]: r \in old}]
  <2>1. \A r \in old: [c |-> backup[r].c, at |-> backup[r].at] \in Names
    <3> SUFFICES ASSUME NEW r \in old PROVE [c |-> backup[r].c, at |-> backup[r].at] \in Names
      OBVIOUS
    <3>1. backup[r].c \in Certs /\ backup[r].at \in 1..now
      BY DEF RowInv, RowOK
    <3> QED BY <3>1, NameIs
  <2>2. s \in Process
    <3>1. old \in SUBSET Rows
      OBVIOUS
    <3>2. {[c |-> backup[r].c, at |-> backup[r].at]: r \in old} \in SUBSET (Certs \cup Names)
      BY <2>1
    <3> HIDE DEF old
    <3> QED BY <3>1, <3>2, Sessions DEF Process
  <2>3. Begin(w, s)
    BY <1>6 DEF Cleanup
  <2>4. backup' = [r \in Rows |-> IF r \in old THEN [backup[r] EXCEPT !.old = TRUE] ELSE backup[r]]
    BY <1>6 DEF Cleanup
  <2>5. \A r \in Rows: /\ [backup[r] EXCEPT !.old = TRUE] \in Row
                       /\ [backup[r] EXCEPT !.old = TRUE].c = backup[r].c
                       /\ [backup[r] EXCEPT !.old = TRUE].there = backup[r].there
    BY <1>0 DEF Row
  <2> HIDE DEF s, old
  <2>6. worker' \in [Workers -> Process] /\ nevent' \in 0..MaxEvents
    BY <2>2, <2>3, SessionTyped
  <2>7. backup' \in [Rows -> Row] /\ \A r \in Rows: backup'[r].there => backup'[r].c \in Certs
    BY <1>0, <2>4, <2>5
  <2> QED BY <1>0, <1>6, <2>6, <2>7, TypeFrom DEF Cleanup
<1>7. ASSUME NEW n \in Names, Unlink(w, n) PROVE TypeOK'
  <2>1. [worker[w] EXCEPT !.todo = worker[w].todo \ {n}] \in Process
    BY <1>0 DEF Process
  <2>2. worker' \in [Workers -> Process] /\ nevent' \in 0..MaxEvents
    BY <1>7, <2>1, SessionTyped DEF Unlink
  <2>3. archive' \in [Names -> Archive]
    BY <1>0, <1>7, Sessions DEF Unlink
  <2> QED BY <1>0, <1>7, <2>2, <2>3, TypeFrom DEF Unlink
<1>8. ASSUME NEW n \in Names, NEW id \in Certs \cup {"none"}, RestoreRead(w, n, id) PROVE TypeOK'
  <2> DEFINE f == archive[n].holds
             s == [Idle EXCEPT !.fp = f]
  <2>1. f \in 0..nfp
    <3>1. f \in 0..nfp \cup {Broken} /\ f \in Fps
      BY <1>0, <1>8 DEF RestoreRead, Archive
    <3>2. Broken \notin Fps
      BY Numbers DEF Broken, Fps
    <3> QED BY <3>1, <3>2
  <2>2. s \in Process
    BY <2>1, Sessions DEF Process
  <2>3. \A c \in Certs: [s EXCEPT !.pc = "restore", !.c = c, !.row = cert[c]] \in Process
    BY <1>0, <2>2 DEF Process
  <2>4. [s EXCEPT !.pc = "import"] \in Process
    BY <2>2 DEF Process
  <2>5. Target(id, f) \subseteq Certs
    BY DEF Target, WithFingerprint
  <2>6. PICK p \in Process: Begin(w, p)
    BY <1>8, <2>3, <2>4, <2>5 DEF RestoreRead
  <2>7. worker' \in [Workers -> Process] /\ nevent' \in 0..MaxEvents
    BY <2>6, SessionTyped
  <2> QED BY <1>0, <1>8, <2>7, TypeFrom DEF RestoreRead
<1> QED BY <1>1, <1>2, <1>3, <1>4, <1>5, <1>6, <1>7, <1>8

\* The certificates, the scheduler and the clock
LEMMA OutsideTypes ==
  ASSUME TypeOK,
         \/ SchedulerChanges \/ SchedulerStops \/ Tick
         \/ \E d \in Dumps: DumpDatabase(d)
         \/ \E c \in Certs: \/ RequestCertificate(c) \/ Renew(c)
                            \/ RevokeAndRemove(c) \/ DeleteCertificate(c)
  PROVE  TypeOK'
<1>0. /\ cert \in [Certs -> CertRow] /\ store \subseteq 1..nfp
      /\ archive \in [Names -> Archive] /\ backup \in [Rows -> Row]
      /\ \A r \in Rows: backup[r].there => backup[r].c \in Certs
      /\ dump \subseteq Dumps /\ worker \in [Workers -> Process] /\ nevent \in 0..MaxEvents
  BY DEF TypeOK
<1>1. CASE SchedulerChanges
  <2>1. nevent' \in 0..MaxEvents
    BY <1>1, EventCounted DEF SchedulerChanges
  <2> QED BY <1>0, <1>1, <2>1, TypeFrom DEF SchedulerChanges
<1>2. CASE SchedulerStops
  <2>1. nevent' \in 0..MaxEvents
    BY <1>2, EventCounted DEF SchedulerStops
  <2>2. worker' \in [Workers -> Process]
    BY <1>0, <1>2, Sessions DEF SchedulerStops
  <2> QED BY <1>0, <1>2, <2>1, <2>2, TypeFrom DEF SchedulerStops
<1>3. CASE Tick
  <2>1. nfp \in Nat /\ nfp' = nfp /\ nfp <= nfp' /\ now \in Nat /\ now' \in Nat /\ now <= now'
        /\ now' \in 1..MaxNow
    BY <1>3, Numbers DEF Tick
  <2>2. /\ CertRow \subseteq CertRow' /\ Archive \subseteq Archive'
        /\ Row \subseteq Row' /\ Process \subseteq Process'
    BY <2>1, TypesGrow
  <2>3. /\ cert \in [Certs -> CertRow'] /\ archive \in [Names -> Archive']
        /\ backup \in [Rows -> Row'] /\ worker \in [Workers -> Process']
    BY <1>0, <2>2
  <2> QED BY <1>3, <2>1, <2>3 DEF Tick, TypeOK
<1>4. ASSUME NEW d \in Dumps, DumpDatabase(d) PROVE TypeOK'
  <2>1. nevent' \in 0..MaxEvents
    BY <1>4, EventCounted DEF DumpDatabase
  <2> QED BY <1>0, <1>4, <2>1, TypeFrom DEF DumpDatabase
<1>5. ASSUME NEW c \in Certs, RequestCertificate(c) PROVE TypeOK'
  <2>1. nevent' \in 0..MaxEvents
    BY <1>5, EventCounted DEF RequestCertificate
  <2>2. [NoCert EXCEPT !.there = TRUE] \in CertRow
    BY Sessions DEF CertRow
  <2>3. cert' \in [Certs -> CertRow]
    BY <1>0, <1>5, <2>2 DEF RequestCertificate
  <2> QED BY <1>0, <1>5, <2>1, <2>3, TypeFrom DEF RequestCertificate
<1>6. ASSUME NEW c \in Certs, Renew(c) PROVE TypeOK'
  <2>1. /\ nfp \in Nat /\ nfp' = nfp + 1 /\ nfp' \in Nat /\ nfp <= nfp' /\ now \in Nat
        /\ now' = now /\ now' \in Nat /\ now <= now' /\ nfp' \in 0..MaxFp
    BY <1>6, Numbers DEF Renew
  <2>2. /\ CertRow \subseteq CertRow' /\ Archive \subseteq Archive'
        /\ Row \subseteq Row' /\ Process \subseteq Process'
    BY <2>1, TypesGrow
  <2>3. /\ cert \in [Certs -> CertRow'] /\ archive \in [Names -> Archive']
        /\ backup \in [Rows -> Row'] /\ worker \in [Workers -> Process']
    BY <1>0, <2>2
  <2>4. nfp + 1 \in 0..nfp'
    BY <2>1
  <2>5. [there |-> TRUE, fp |-> nfp + 1, path |-> nfp + 1] \in CertRow'
    BY <2>4 DEF CertRow
  <2>6. cert' \in [Certs -> CertRow']
    BY <1>6, <2>3, <2>5 DEF Renew
  <2>7. store' \subseteq 1..nfp'
    <3>1. 1..nfp \subseteq 1..nfp' /\ nfp + 1 \in 1..nfp'
      BY <2>1
    <3> QED BY <1>0, <1>6, <3>1 DEF Renew
  <2>8. nevent' \in 0..MaxEvents
    BY <1>6, EventCounted DEF Renew
  <2> QED BY <1>0, <1>6, <2>1, <2>3, <2>6, <2>7, <2>8 DEF Renew, TypeOK
<1>7. ASSUME NEW c \in Certs, RevokeAndRemove(c) PROVE TypeOK'
  <2>1. nevent' \in 0..MaxEvents
    BY <1>7, EventCounted DEF RevokeAndRemove
  <2>2. [cert[c] EXCEPT !.path = 0] \in CertRow
    BY <1>0, Numbers DEF CertRow
  <2>3. cert' \in [Certs -> CertRow] /\ store' \subseteq 1..nfp
    BY <1>0, <1>7, <2>2 DEF RevokeAndRemove
  <2> QED BY <1>0, <1>7, <2>1, <2>3, TypeFrom DEF RevokeAndRemove
<1>8. ASSUME NEW c \in Certs, DeleteCertificate(c) PROVE TypeOK'
  <2>1. nevent' \in 0..MaxEvents
    BY <1>8, EventCounted DEF DeleteCertificate
  <2>2. cert' \in [Certs -> CertRow] /\ store' \subseteq 1..nfp
    BY <1>0, <1>8, Sessions DEF DeleteCertificate
  <2>3. NoRow \in Row /\ NoRow.there = FALSE
    BY Sessions DEF NoRow
  <2>4. backup' \in [Rows -> Row] /\ \A r \in Rows: backup'[r].there => backup'[r].c \in Certs
    BY <1>0, <1>8, <2>3 DEF DeleteCertificate
  <2> QED BY <1>0, <1>8, <2>1, <2>2, <2>4, TypeFrom DEF DeleteCertificate
<1> QED BY <1>1, <1>2, <1>3, <1>4, <1>5, <1>6, <1>7, <1>8

LEMMA TypeStep ==
  ASSUME IInv, Next
  PROVE  TypeOK'
  BY BackupTypes, OtherTypes, OutsideTypes DEF IInv, Next

----------------------------------------------------------------------------
(* Archives, rows and sessions *)

\* A session that stays as it is, or neither writes nor removes archives
Calm(w) ==
  \/ worker'[w] = worker[w]
  \/ worker'[w].pc \notin {"write", "insert", "unlink"} /\ RestorerOK(w)'

\* Steps that leave the archives alone, and at most take rows away
LEMMA CalmStep ==
  ASSUME IInv, \A w \in Workers: Calm(w), UNCHANGED archive, now' \in Nat, now <= now',
         \A r \in Rows: backup'[r] = backup[r] \/ ~backup'[r].there
  PROVE  SessionInv' /\ RowInv'
<1>0. now \in Nat /\ \A n \in Names: n.at \in Nat
  BY Numbers DEF IInv, Names
<1>1. \A w \in Workers: Writes(w)' => Writes(w) /\ worker'[w] = worker[w]
  BY DEF Calm, Writes
<1>2. ASSUME NEW w \in Workers PROVE WriterOK(w)'
  <2> SUFFICES ASSUME Writes(w)' PROVE WriterOK(w)'
    BY DEF WriterOK
  <2>1. Writes(w) /\ worker'[w] = worker[w] /\ WriterOK(w)
    BY <1>1 DEF IInv, SessionInv
  <2>2. worker[w].at \in 1..now'
    BY <1>0, <2>1 DEF WriterOK
  <2>3. \A r \in Rows: backup'[r].there => backup'[r] = backup[r]
    OBVIOUS
  <2> QED BY <2>1, <2>2, <2>3 DEF WriterOK, Name
<1>3. ASSUME NEW w \in Workers PROVE CleanerOK(w)'
  <2> SUFFICES ASSUME worker'[w].pc = "unlink", NEW n \in worker'[w].todo \cap Names
               PROVE  /\ n.at < now'
                      /\ \A v \in Workers: Writes(v)' => n.at < worker'[v].at
                      /\ \A r \in Rows: backup'[r].there /\ Name(backup'[r]) = n => backup'[r].old
    BY DEF CleanerOK, Name
  <2>1. worker'[w] = worker[w]
    BY DEF Calm
  <2>2. /\ n.at < now
        /\ \A v \in Workers: Writes(v) => n.at < worker[v].at
        /\ \A r \in Rows: backup[r].there /\ Name(backup[r]) = n => backup[r].old
    BY <2>1 DEF IInv, SessionInv, CleanerOK
  <2>3. n.at < now'
    BY <1>0, <2>2
  <2>4. \A r \in Rows: backup'[r].there => backup'[r] = backup[r]
    OBVIOUS
  <2> QED BY <1>1, <2>2, <2>3, <2>4
<1>4. ASSUME NEW w \in Workers PROVE RestorerOK(w)'
  <2>1. CASE worker'[w] = worker[w]
    BY <2>1 DEF IInv, SessionInv, RestorerOK
  <2> QED BY <2>1 DEF Calm
<1>5. ASSUME NEW r \in Rows PROVE RowOK(r)'
  <2> SUFFICES ASSUME backup'[r].there PROVE RowOK(r)'
    BY DEF RowOK
  <2>1. backup'[r] = backup[r] /\ RowOK(r)
    BY DEF IInv, RowInv
  <2>2. backup[r].at \in 1..now' /\ (backup[r].at < now => backup[r].at < now')
    BY <1>0, <2>1 DEF RowOK
  <2> QED BY <2>1, <2>2 DEF RowOK, Name
<1> QED BY <1>2, <1>3, <1>4, <1>5 DEF SessionInv, RowInv

\* An archive is opened: of what was there under its name nothing is left to rely on.
LEMMA OpenStep ==
  ASSUME IInv, TypeOK', NEW w \in Workers, NEW c \in Certs, OpenArchive(w, c)
  PROVE  SessionInv' /\ RowInv'
<1> DEFINE n == [c |-> c, at |-> now]
           s == [worker[w] EXCEPT !.pc = "write", !.c = c, !.at = now]
<1>0. /\ now \in Nat /\ now \in 1..now /\ n \in Names /\ archive \in [Names -> Archive]
      /\ worker[w] \in Process /\ worker \in [Workers -> Process]
      /\ \A m \in Names: m.at \in Nat
  BY Numbers, NameIs DEF IInv, TypeOK, Names
<1>1. /\ archive'[n].there = TRUE /\ archive'[n].by = w /\ archive'[n].clash = archive[n].there
      /\ \A m \in Names: m # n => archive'[m] = archive[m]
  BY <1>0 DEF OpenArchive
<1>2. s.pc = "write" /\ s.c = c /\ s.at = now /\ Name(s) = n
  BY <1>0 DEF Process, Name
<1>3. /\ worker'[w] = s /\ \A v \in Workers: v # w => worker'[v] = worker[v]
      /\ UNCHANGED <<backup, now>>
  BY <1>0 DEF OpenArchive, Session
<1> HIDE DEF s
<1>4. \A r \in Rows: backup[r].there => Name(backup[r]) \in Names
  BY NameIs DEF IInv, RowInv, RowOK, Name
<1>5. \A v \in Workers: Writes(v) => Name(worker[v]) \in Names
  BY NameIs DEF IInv, SessionInv, WriterOK, Name
\* A row of this second has its archive, so that the file is written to twice.
<1>6. ASSUME NEW r \in Rows, backup[r].there, Name(backup[r]) = n PROVE archive[n].there
  <2>1. RowOK(r) /\ backup[r].at = now
    BY <1>6 DEF IInv, RowInv, Name
  <2> QED BY <1>0, <1>6, <2>1 DEF RowOK
<1>7. WriterOK(w)'
  <2>1. Name(worker[w])' = n
    BY <1>2, <1>3 DEF Name
  <2>2. \/ archive'[n].clash
        \/ \A r \in Rows: backup'[r].there => Name(backup'[r]) # n
    BY <1>1, <1>3, <1>6
  <2> QED BY <1>0, <1>1, <1>2, <1>3, <2>1, <2>2 DEF WriterOK, Name
<1>8. ASSUME NEW v \in Workers, v # w PROVE WriterOK(v)'
  <2> SUFFICES ASSUME Writes(v) PROVE WriterOK(v)'
    BY <1>3, <1>8 DEF WriterOK, Writes
  <2>1. WriterOK(v) /\ worker'[v] = worker[v] /\ Name(worker[v])' = Name(worker[v])
    BY <1>3, <1>8 DEF IInv, SessionInv, Name
  <2>2. CASE Name(worker[v]) = n
    <3>1. archive'[n].clash
      BY <1>1, <2>1, <2>2 DEF WriterOK
    <3> QED BY <1>1, <1>3, <2>1, <2>2, <3>1 DEF WriterOK
  <2>3. CASE Name(worker[v]) # n
    <3>1. archive'[Name(worker[v])] = archive[Name(worker[v])]
      BY <1>1, <1>5, <2>3
    <3> QED BY <1>3, <2>1, <3>1 DEF WriterOK, Name
  <2> QED BY <2>2, <2>3
<1>9. ASSUME NEW v \in Workers PROVE CleanerOK(v)'
  <2> SUFFICES ASSUME worker'[v].pc = "unlink", NEW m \in worker'[v].todo \cap Names
               PROVE  /\ m.at < now
                      /\ \A u \in Workers: Writes(u)' => m.at < worker'[u].at
                      /\ \A r \in Rows: backup[r].there /\ Name(backup[r]) = m => backup[r].old
    BY <1>3 DEF CleanerOK, Name
  <2>1. v # w /\ worker'[v] = worker[v] /\ CleanerOK(v)
    BY <1>2, <1>3 DEF IInv, SessionInv
  <2>2. /\ m.at < now
        /\ \A u \in Workers: Writes(u) => m.at < worker[u].at
        /\ \A r \in Rows: backup[r].there /\ Name(backup[r]) = m => backup[r].old
    BY <2>1 DEF CleanerOK
  <2>3. ASSUME NEW u \in Workers, Writes(u)' PROVE m.at < worker'[u].at
    BY <1>2, <1>3, <2>2, <2>3 DEF Writes
  <2> QED BY <2>2, <2>3
<1>10. ASSUME NEW v \in Workers PROVE RestorerOK(v)'
  <2>1. CASE v = w
    BY <1>2, <1>3, <2>1 DEF RestorerOK
  <2>2. CASE v # w
    BY <1>3, <2>2 DEF IInv, SessionInv, RestorerOK
  <2> QED BY <2>1, <2>2
<1>11. ASSUME NEW r \in Rows PROVE RowOK(r)'
  <2> SUFFICES ASSUME backup[r].there PROVE RowOK(r)'
    BY <1>3 DEF RowOK
  <2>1. RowOK(r) /\ Name(backup[r])' = Name(backup[r])
    BY <1>3 DEF IInv, RowInv, Name
  <2>2. CASE Name(backup[r]) = n
    <3>1. archive'[n].clash /\ archive'[n].there
      BY <1>1, <1>6, <2>2
    <3> QED BY <1>3, <2>1, <2>2, <3>1 DEF RowOK
  <2>3. CASE Name(backup[r]) # n
    <3>1. archive'[Name(backup[r])] = archive[Name(backup[r])]
      BY <1>1, <1>4, <2>3
    <3> QED BY <1>3, <2>1, <3>1 DEF RowOK, Name
  <2> QED BY <2>2, <2>3
<1> QED BY <1>7, <1>8, <1>9, <1>10, <1>11 DEF SessionInv, RowInv

\* What the proofs of the steps below share: names, and the sessions that do not move
LEMMA NamesInUse ==
  ASSUME IInv
  PROVE  /\ now \in Nat /\ archive \in [Names -> Archive] /\ worker \in [Workers -> Process]
         /\ backup \in [Rows -> Row]
         /\ \A m \in Names: m.at \in Nat
         /\ \A r \in Rows: backup[r].there => Name(backup[r]) \in Names /\ backup[r].at \in Nat
         /\ \A v \in Workers: Writes(v) => Name(worker[v]) \in Names /\ worker[v].at \in Nat
<1>1. /\ now \in Nat /\ archive \in [Names -> Archive] /\ worker \in [Workers -> Process]
      /\ backup \in [Rows -> Row] /\ \A m \in Names: m.at \in Nat
  BY Numbers DEF IInv, TypeOK, Names
<1>2. ASSUME NEW r \in Rows, backup[r].there
      PROVE  Name(backup[r]) \in Names /\ backup[r].at \in Nat
  <2>1. backup[r].c \in Certs /\ backup[r].at \in 1..now
    BY <1>2 DEF IInv, RowInv, RowOK
  <2> QED BY <1>1, <2>1, NameIs DEF IInv, Name
<1>3. ASSUME NEW v \in Workers, Writes(v)
      PROVE  Name(worker[v]) \in Names /\ worker[v].at \in Nat
  <2>1. worker[v].c \in Certs /\ worker[v].at \in 1..now
    BY <1>3 DEF IInv, SessionInv, WriterOK
  <2> QED BY <1>1, <2>1, NameIs DEF IInv, Name
<1> QED BY <1>1, <1>2, <1>3

\* A session that is the only one to have opened an archive writes what it found there.
LEMMA WriteStep ==
  ASSUME IInv, NEW w \in Workers, NEW ok \in BOOLEAN, WriteArchive(w, ok)
  PROVE  SessionInv' /\ RowInv'
<1> DEFINE s == worker[w]
           n == Name(s)
           material == IF s.snap[s.c].path \in store THEN s.snap[s.c].path ELSE Empty
           after == IF ok THEN [s EXCEPT !.pc = "insert"] ELSE Without(s, s.c)
<1>0. s.pc = "write" /\ Writes(w) /\ WriterOK(w) /\ s \in Process /\ s.c \in Certs
  BY NamesInUse DEF WriteArchive, Writes, IInv, SessionInv, WriterOK
<1>1. n \in Names /\ archive[n] \in Archive /\ archive \in [Names -> Archive]
  BY <1>0, NamesInUse
<1>2. PICK h \in IF archive[n].by = w THEN {material} ELSE {material, Broken}:
        archive' = [archive EXCEPT ![n] = [archive[n] EXCEPT !.holds = h]]
  BY DEF WriteArchive, Name
<1>3. /\ archive'[n].there = archive[n].there /\ archive'[n].clash = archive[n].clash
      /\ archive'[n].by = archive[n].by /\ archive'[n].holds = h
      /\ \A m \in Names: m # n => archive'[m] = archive[m]
  <2> DEFINE b == [archive[n] EXCEPT !.holds = h]
  <2>1. b.there = archive[n].there /\ b.clash = archive[n].clash /\ b.by = archive[n].by
        /\ b.holds = h
    BY <1>1 DEF Archive
  <2> HIDE DEF b
  <2>2. archive' = [archive EXCEPT ![n] = b]
    BY <1>2 DEF b
  <2> QED BY <1>1, <2>1, <2>2
<1>4. \/ after.pc = "insert" /\ after.c = s.c /\ after.at = s.at /\ after.snap = s.snap
      \/ after.pc = "run"
  <2>1. CASE ok
    BY <1>0, <2>1 DEF Process
  <2>2. CASE ~ok
    <3>1. after = Without(s, s.c)
      BY <2>2
    <3> QED BY <1>0, <3>1, Sessions DEF IInv
  <2> QED BY <2>1, <2>2
<1>5. /\ worker'[w] = after /\ \A v \in Workers: v # w => worker'[v] = worker[v]
      /\ UNCHANGED <<backup, now>>
  BY <1>1, NamesInUse DEF WriteArchive, Session
<1> HIDE DEF after
<1>6. \A v \in Workers: Writes(v)' => Writes(v) /\ worker'[v].at = worker[v].at
  <2>1. Writes(w)' => Writes(w) /\ worker'[w].at = worker[w].at
    BY <1>0, <1>4, <1>5 DEF Writes
  <2> QED BY <1>5, <2>1 DEF Writes
<1>7. WriterOK(w)'
  <2> SUFFICES ASSUME Writes(w)' PROVE WriterOK(w)'
    BY DEF WriterOK
  <2>1. after.pc = "insert" /\ after.c = s.c /\ after.at = s.at /\ after.snap = s.snap
    BY <1>4, <1>5 DEF Writes
  <2>2. \A m: m = n => m = Name(worker[w])'
    BY <1>5, <2>1 DEF Name
  <2>3. CASE archive[n].clash
    BY <1>0, <1>3, <1>5, <2>1, <2>2, <2>3 DEF WriterOK
  <2>4. CASE ~archive[n].clash
    <3>1. archive[n].by = w /\ h = material
      BY <1>0, <1>2, <2>4 DEF WriterOK
    <3>2. h \in {s.snap[s.c].path, Empty}
      BY <3>1
    <3>3. \A r \in Rows: backup'[r].there => Name(backup'[r]) # n
      BY <1>0, <1>5, <2>4 DEF WriterOK
    <3> QED BY <1>0, <1>3, <1>5, <2>1, <2>2, <3>1, <3>2, <3>3 DEF WriterOK, Name
  <2> QED BY <2>3, <2>4
<1>8. ASSUME NEW v \in Workers, v # w PROVE WriterOK(v)'
  <2> SUFFICES ASSUME Writes(v) PROVE WriterOK(v)'
    BY <1>5, <1>8 DEF WriterOK, Writes
  <2>1. WriterOK(v) /\ worker'[v] = worker[v] /\ Name(worker[v])' = Name(worker[v])
    BY <1>5, <1>8 DEF IInv, SessionInv, Name
  <2>2. CASE Name(worker[v]) = n
    <3>1. archive[n].clash
      BY <1>0, <1>8, <2>1, <2>2 DEF WriterOK
    <3> QED BY <1>3, <1>5, <2>1, <2>2, <3>1 DEF WriterOK
  <2>3. CASE Name(worker[v]) # n
    <3>1. archive'[Name(worker[v])] = archive[Name(worker[v])]
      BY <1>3, <2>3, NamesInUse
    <3> QED BY <1>5, <2>1, <3>1 DEF WriterOK, Name
  <2> QED BY <2>2, <2>3
<1>9. ASSUME NEW v \in Workers PROVE CleanerOK(v)'
  <2>1. CASE v = w
    BY <1>4, <1>5, <2>1 DEF CleanerOK
  <2>2. CASE v # w
    <3>1. worker'[v] = worker[v] /\ CleanerOK(v)
      BY <1>5, <2>2 DEF IInv, SessionInv
    <3> QED BY <1>5, <1>6, <3>1 DEF CleanerOK, Name
  <2> QED BY <2>1, <2>2
<1>10. ASSUME NEW v \in Workers PROVE RestorerOK(v)'
  BY <1>4, <1>5 DEF IInv, SessionInv, RestorerOK
<1>11. ASSUME NEW r \in Rows PROVE RowOK(r)'
  <2> SUFFICES ASSUME backup[r].there PROVE RowOK(r)'
    BY <1>5 DEF RowOK
  <2>1. RowOK(r) /\ Name(backup[r])' = Name(backup[r])
    BY <1>5 DEF IInv, RowInv, Name
  <2>2. CASE Name(backup[r]) = n
    <3>1. archive'[n].clash /\ archive'[n].there
      BY <1>0, <1>3, <2>2 DEF WriterOK
    <3> QED BY <1>5, <2>1, <2>2, <3>1 DEF RowOK
  <2>3. CASE Name(backup[r]) # n
    <3>1. archive'[Name(backup[r])] = archive[Name(backup[r])]
      BY <1>3, <2>3, NamesInUse
    <3> QED BY <1>5, <2>1, <3>1 DEF RowOK, Name
  <2> QED BY <2>2, <2>3
<1> QED BY <1>7, <1>8, <1>9, <1>10, <1>11 DEF SessionInv, RowInv

\* The row that is added describes the archive the session has written.
LEMMA InsertStep ==
  ASSUME IInv, NEW w \in Workers, InsertRow(w), cert[worker[w].c].there
  PROVE  SessionInv' /\ RowInv'
<1> DEFINE s == worker[w]
           n == Name(s)
<1>0. s.pc = "insert" /\ Writes(w) /\ WriterOK(w) /\ s \in Process /\ s.c \in Certs
      /\ s.at \in 1..now
  BY NamesInUse DEF InsertRow, Writes, IInv, SessionInv, WriterOK
<1>1. PICK q \in Rows: backup' = [backup EXCEPT ![q] = BackupRow(s)]
  BY DEF InsertRow, Unused
<1>2. /\ backup'[q].c = s.c /\ backup'[q].at = s.at /\ backup'[q].fp = s.snap[s.c].fp
      /\ backup'[q].old = FALSE /\ backup'[q].mixed = (s.snap[s.c].fp # s.snap[s.c].path)
      /\ \A r \in Rows: r # q => backup'[r] = backup[r]
  BY <1>1, NamesInUse DEF BackupRow
<1>3. Name(backup'[q]) = n
  BY <1>2 DEF Name
<1>4. /\ worker'[w].pc = "run" /\ \A v \in Workers: v # w => worker'[v] = worker[v]
      /\ UNCHANGED <<archive, now>>
  <2>1. PICK new: worker' = [worker EXCEPT ![w] = new] /\ new.pc = "run" /\ UNCHANGED <<archive, now>>
    BY <1>0, Sessions, NamesInUse DEF IInv, InsertRow, Session
  <2>2. worker \in [Workers -> Process]
    BY DEF IInv, TypeOK
  <2> QED BY <2>1, <2>2
<1>5. \A v \in Workers: Writes(v)' => v # w /\ Writes(v) /\ worker'[v] = worker[v]
  BY <1>4 DEF Writes
<1>6. ASSUME NEW v \in Workers PROVE WriterOK(v)'
  <2> SUFFICES ASSUME Writes(v)' PROVE WriterOK(v)'
    BY DEF WriterOK
  <2>1. v # w /\ Writes(v) /\ WriterOK(v) /\ worker'[v] = worker[v]
        /\ Name(worker[v])' = Name(worker[v])
    BY <1>5 DEF IInv, SessionInv, Name
  <2>2. CASE archive[Name(worker[v])].clash
    BY <1>4, <2>1, <2>2 DEF WriterOK
  <2>3. CASE ~archive[Name(worker[v])].clash
    <3>1. archive[Name(worker[v])].by = v
      BY <2>1, <2>3 DEF WriterOK
    <3>2. Name(worker[v]) # n
      BY <1>0, <2>1, <2>3, <3>1 DEF WriterOK
    <3>3. \A r \in Rows: backup'[r].there => Name(backup'[r]) # Name(worker[v])
      BY <1>2, <1>3, <2>1, <2>3, <3>2 DEF WriterOK
    <3> QED BY <1>4, <2>1, <3>3 DEF WriterOK, Name
  <2> QED BY <2>2, <2>3
<1>7. ASSUME NEW v \in Workers PROVE CleanerOK(v)'
  <2> SUFFICES ASSUME worker'[v].pc = "unlink", NEW m \in worker'[v].todo \cap Names
               PROVE  /\ m.at < now
                      /\ \A u \in Workers: Writes(u)' => m.at < worker'[u].at
                      /\ \A r \in Rows: backup'[r].there /\ Name(backup'[r]) = m => backup'[r].old
    BY <1>4 DEF CleanerOK, Name
  <2>1. v # w /\ worker'[v] = worker[v] /\ CleanerOK(v)
    BY <1>4 DEF IInv, SessionInv
  <2>2. /\ m.at < now
        /\ \A u \in Workers: Writes(u) => m.at < worker[u].at
        /\ \A r \in Rows: backup[r].there /\ Name(backup[r]) = m => backup[r].old
    BY <2>1 DEF CleanerOK
  <2>3. m # n
    <3>1. m.at < s.at /\ n.at = s.at /\ s.at \in Nat
      BY <1>0, <2>2, NamesInUse DEF Name
    <3> QED BY <3>1
  <2> QED BY <1>2, <1>3, <1>5, <2>2, <2>3
<1>8. ASSUME NEW v \in Workers PROVE RestorerOK(v)'
  BY <1>4 DEF IInv, SessionInv, RestorerOK
<1>9. RowOK(q)'
  <2>1. \A m: m = n => m = Name(backup[q])'
    BY <1>2 DEF Name
  <2>2. archive[n].there /\ \/ archive[n].clash
                            \/ archive[n].holds \in {s.snap[s.c].path, Empty}
    BY <1>0 DEF WriterOK
  <2>3. ~backup'[q].mixed => s.snap[s.c].path = backup'[q].fp
    BY <1>2
  <2> QED BY <1>0, <1>2, <1>4, <2>1, <2>2, <2>3 DEF RowOK
<1>10. ASSUME NEW r \in Rows, r # q PROVE RowOK(r)'
  <2>1. backup'[r] = backup[r] /\ RowOK(r) /\ UNCHANGED <<archive, now>>
    BY <1>2, <1>4, <1>10 DEF IInv, RowInv
  <2> QED BY <2>1 DEF RowOK, Name
<1> QED BY <1>6, <1>7, <1>8, <1>9, <1>10 DEF SessionInv, RowInv

\* Cleanup takes rows of seconds that are past, and of which no session writes an archive.
LEMMA CleanupStep ==
  ASSUME IInv, NEW w \in Workers, NEW before \in 2..MaxNow, Cleanup(w, before)
  PROVE  SessionInv' /\ RowInv'
<1> DEFINE old == {r \in Rows: backup[r].there /\ backup[r].at < before}
           s == [Idle EXCEPT !.pc = "unlink", !.rows = old,
                             !.todo = {[c |-> backup[r].c, at |-> backup[r].at]: r \in old}]
<1>0. /\ before \in Nat /\ before <= now /\ worker[w].pc = "idle"
      /\ \A v \in Workers: worker[v].at \notin 1..(before - 1)
  BY Numbers DEF IInv, Cleanup, Begin
<1>1. s.pc = "unlink" /\ s.todo = {Name(backup[r]): r \in old}
  BY Sessions DEF IInv, Process, Name
<1>2. /\ worker'[w] = s /\ \A v \in Workers: v # w => worker'[v] = worker[v]
      /\ UNCHANGED <<archive, now>>
  BY NamesInUse DEF Cleanup, Begin
<1>3. backup' = [r \in Rows |-> IF r \in old THEN [backup[r] EXCEPT !.old = TRUE] ELSE backup[r]]
  BY DEF Cleanup
<1>4. ASSUME NEW r \in Rows
      PROVE  /\ backup'[r].there = backup[r].there /\ backup'[r].c = backup[r].c
             /\ backup'[r].at = backup[r].at /\ backup'[r].fp = backup[r].fp
             /\ backup'[r].mixed = backup[r].mixed
             /\ backup'[r].old = IF r \in old THEN TRUE ELSE backup[r].old
  <2>1. backup'[r] = IF r \in old THEN [backup[r] EXCEPT !.old = TRUE] ELSE backup[r]
    BY <1>3
  <2>2. backup[r] \in Row
    BY NamesInUse
  <2> HIDE DEF old
  <2> QED BY <2>1, <2>2 DEF Row
<1>5. \A r \in Rows: Name(backup'[r]) = Name(backup[r])
  BY <1>4 DEF Name
<1>6. \A v \in Workers: Writes(v)' => v # w /\ Writes(v) /\ worker'[v] = worker[v]
  BY <1>1, <1>2 DEF Writes
<1>7. ASSUME NEW v \in Workers PROVE WriterOK(v)'
  <2> SUFFICES ASSUME Writes(v)' PROVE WriterOK(v)'
    BY DEF WriterOK
  <2>1. Writes(v) /\ WriterOK(v) /\ worker'[v] = worker[v]
        /\ Name(worker[v])' = Name(worker[v])
    BY <1>6 DEF IInv, SessionInv, Name
  <2>2. \A r \in Rows: Name(backup[r])' = Name(backup[r]) /\ backup'[r].there = backup[r].there
    BY <1>4, <1>5 DEF Name
  <2> QED BY <1>2, <2>1, <2>2 DEF WriterOK
<1>8. CleanerOK(w)'
  <2> SUFFICES ASSUME NEW q \in old
               PROVE  /\ Name(backup[q]).at < now
                      /\ \A v \in Workers: Writes(v)' => Name(backup[q]).at < worker'[v].at
                      /\ \A r \in Rows:
                           backup'[r].there /\ Name(backup'[r]) = Name(backup[q]) => backup'[r].old
    BY <1>1, <1>2 DEF CleanerOK, Name
  <2>1. Name(backup[q]).at = backup[q].at /\ backup[q].at < before /\ backup[q].at \in Nat
        /\ now \in Nat
    BY NamesInUse DEF Name
  <2>2. backup[q].at < now
    BY <1>0, <2>1
  <2>3. ASSUME NEW v \in Workers, Writes(v)' PROVE backup[q].at < worker'[v].at
    <3>1. worker'[v] = worker[v] /\ worker[v].at \in 1..now
      BY <1>6, <2>3 DEF IInv, SessionInv, WriterOK
    <3>2. worker[v].at \notin 1..(before - 1)
      BY <1>0
    <3> QED BY <1>0, <2>1, <3>1, <3>2
  <2>4. ASSUME NEW r \in Rows, backup'[r].there, Name(backup'[r]) = Name(backup[q])
        PROVE  backup'[r].old
    <3>1. backup[r].at = backup[q].at /\ backup[r].there
      BY <1>4, <1>5, <2>4 DEF Name
    <3> QED BY <1>4, <2>1, <3>1
  <2> QED BY <2>1, <2>2, <2>3, <2>4
<1>9. ASSUME NEW v \in Workers, v # w PROVE CleanerOK(v)'
  <2> SUFFICES ASSUME worker'[v].pc = "unlink", NEW m \in worker'[v].todo \cap Names
               PROVE  /\ m.at < now
                      /\ \A u \in Workers: Writes(u)' => m.at < worker'[u].at
                      /\ \A r \in Rows: backup'[r].there /\ Name(backup'[r]) = m => backup'[r].old
    BY <1>2 DEF CleanerOK, Name
  <2>1. worker'[v] = worker[v] /\ CleanerOK(v)
    BY <1>2, <1>9 DEF IInv, SessionInv
  <2>2. /\ m.at < now
        /\ \A u \in Workers: Writes(u) => m.at < worker[u].at
        /\ \A r \in Rows: backup[r].there /\ Name(backup[r]) = m => backup[r].old
    BY <2>1 DEF CleanerOK
  <2> QED BY <1>4, <1>5, <1>6, <2>2
<1>10. ASSUME NEW v \in Workers PROVE RestorerOK(v)'
  BY <1>1, <1>2 DEF IInv, SessionInv, RestorerOK
<1>11. ASSUME NEW r \in Rows PROVE RowOK(r)'
  <2> SUFFICES ASSUME backup[r].there PROVE RowOK(r)'
    BY <1>4 DEF RowOK
  <2>1. RowOK(r) /\ Name(backup[r])' = Name(backup[r])
    BY <1>4 DEF IInv, RowInv, Name
  <2>2. r \in old => backup[r].at < now
    BY <1>0, NamesInUse
  <2>3. ~backup'[r].old => ~backup[r].old
    BY <1>4
  <2>4. backup'[r].old => backup[r].at < now
    BY <1>4, <2>1, <2>2 DEF RowOK
  <2> QED BY <1>2, <1>4, <2>1, <2>3, <2>4 DEF RowOK
<1> QED BY <1>7, <1>8, <1>9, <1>10, <1>11 DEF SessionInv, RowInv

\* An archive that is removed has no row that is within keep-days, and no writer.
LEMMA UnlinkStep ==
  ASSUME IInv, NEW w \in Workers, NEW n \in Names, Unlink(w, n)
  PROVE  SessionInv' /\ RowInv'
<1> DEFINE s == [worker[w] EXCEPT !.todo = worker[w].todo \ {n}]
<1>0. worker[w].pc = "unlink" /\ n \in worker[w].todo /\ CleanerOK(w)
  BY DEF Unlink, IInv, SessionInv
<1>1. /\ n.at \in Nat
      /\ \A v \in Workers: Writes(v) => n.at < worker[v].at
      /\ \A r \in Rows: backup[r].there /\ Name(backup[r]) = n => backup[r].old
  BY <1>0, NamesInUse DEF CleanerOK
<1>2. s.pc = "unlink" /\ s.todo = worker[w].todo \ {n}
  BY <1>0, NamesInUse DEF Process
<1>3. /\ worker'[w] = s /\ \A v \in Workers: v # w => worker'[v] = worker[v]
      /\ UNCHANGED <<backup, now>>
  BY NamesInUse DEF Unlink, Session
<1>4. archive'[n].there = FALSE /\ \A m \in Names: m # n => archive'[m] = archive[m]
  BY NamesInUse DEF Unlink, NoArchive
<1> HIDE DEF s
<1>5. \A v \in Workers: Writes(v)' => v # w /\ Writes(v) /\ worker'[v] = worker[v]
  BY <1>2, <1>3 DEF Writes
<1>6. ASSUME NEW v \in Workers PROVE WriterOK(v)'
  <2> SUFFICES ASSUME Writes(v)' PROVE WriterOK(v)'
    BY DEF WriterOK
  <2>1. Writes(v) /\ WriterOK(v) /\ worker'[v] = worker[v]
        /\ Name(worker[v])' = Name(worker[v])
    BY <1>5 DEF IInv, SessionInv, Name
  <2>2. Name(worker[v]) # n
    <3>1. n.at < worker[v].at /\ Name(worker[v]).at = worker[v].at /\ worker[v].at \in Nat
      BY <1>1, <2>1, NamesInUse DEF Name
    <3> QED BY <1>1, <3>1
  <2>3. archive'[Name(worker[v])] = archive[Name(worker[v])]
    BY <1>4, <2>1, <2>2, NamesInUse
  <2> QED BY <1>3, <2>1, <2>3 DEF WriterOK, Name
<1>7. ASSUME NEW v \in Workers PROVE CleanerOK(v)'
  <2>1. CleanerOK(v) /\ worker'[v].pc = worker[v].pc /\ worker'[v].todo \subseteq worker[v].todo
    BY <1>0, <1>2, <1>3 DEF IInv, SessionInv
  <2> QED BY <1>3, <1>5, <2>1 DEF CleanerOK, Name
<1>8. ASSUME NEW v \in Workers PROVE RestorerOK(v)'
  BY <1>2, <1>3 DEF IInv, SessionInv, RestorerOK
<1>9. ASSUME NEW r \in Rows PROVE RowOK(r)'
  <2> SUFFICES ASSUME backup[r].there PROVE RowOK(r)'
    BY <1>3 DEF RowOK
  <2>1. RowOK(r) /\ Name(backup[r])' = Name(backup[r])
    BY <1>3 DEF IInv, RowInv, Name
  <2>2. CASE Name(backup[r]) = n
    BY <1>1, <1>3, <1>4, <2>1, <2>2 DEF RowOK
  <2>3. CASE Name(backup[r]) # n
    <3>1. archive'[Name(backup[r])] = archive[Name(backup[r])]
      BY <1>4, <2>3, NamesInUse
    <3> QED BY <1>3, <2>1, <3>1 DEF RowOK, Name
  <2> QED BY <2>2, <2>3
<1> QED BY <1>6, <1>7, <1>8, <1>9 DEF SessionInv, RowInv

\* The steps that leave the archives alone
LEMMA CalmSteps ==
  ASSUME IInv, TypeOK', Next,
         \A w \in Workers:
           /\ \A c \in Certs: ~OpenArchive(w, c)
           /\ \A ok \in BOOLEAN: ~WriteArchive(w, ok)
           /\ ~(InsertRow(w) /\ cert[worker[w].c].there)
           /\ \A before \in 2..MaxNow: ~Cleanup(w, before)
           /\ \A n \in Names: ~Unlink(w, n)
  PROVE  SessionInv' /\ RowInv'
<1>0. /\ now \in Nat /\ now' \in Nat /\ worker \in [Workers -> Process]
      /\ \A w \in Workers: RestorerOK(w)
  BY Numbers DEF IInv, SessionInv, TypeOK
<1>1. ASSUME NEW w \in Workers, NEW s, worker' = [worker EXCEPT ![w] = s], s.pc \in {"idle", "run"}
      PROVE  \A v \in Workers: Calm(v)
  BY <1>0, <1>1 DEF Calm, RestorerOK
<1>2. UNCHANGED worker => \A v \in Workers: Calm(v)
  BY DEF Calm
<1>3. \A r \in Rows: UNCHANGED backup => backup'[r] = backup[r]
  OBVIOUS
<1>4. UNCHANGED now => now <= now'
  BY <1>0
<1>5. ASSUME NEW c \in Certs, DeleteCertificate(c) PROVE SessionInv' /\ RowInv'
  <2>1. \A r \in Rows: backup'[r] = backup[r] \/ ~backup'[r].there
    BY <1>5 DEF DeleteCertificate, NoRow
  <2> QED BY <1>0, <1>2, <1>4, <1>5, <2>1, CalmStep DEF DeleteCertificate
<1>6. ASSUME NEW w \in Workers, DeleteRows(w) PROVE SessionInv' /\ RowInv'
  <2>1. \A r \in Rows: backup'[r] = backup[r] \/ ~backup'[r].there
    BY <1>6 DEF DeleteRows, NoRow
  <2>2. \A v \in Workers: Calm(v)
    BY <1>1, <1>6, Sessions DEF IInv, DeleteRows, Session
  <2> QED BY <1>0, <1>4, <1>6, <2>1, <2>2, CalmStep DEF DeleteRows
<1>7. ASSUME NEW w \in Workers,
             \/ RunBackup(w) \/ EndRun(w) \/ RestoreWrite(w) \/ Crash(w)
             \/ \E j \in Jobs: ScheduledBackup(w, j)
             \/ \E c \in Certs: RestoreAdd(w, c)
      PROVE  SessionInv' /\ RowInv'
  <2>1. \E s: worker' = [worker EXCEPT ![w] = s] /\ s.pc \in {"idle", "run"}
    <3>1. CASE RunBackup(w) BY <3>1, Sessions DEF IInv, RunBackup, Begin
    <3>2. CASE EndRun(w) BY <3>2, Sessions DEF IInv, EndRun, Session
    <3>3. CASE RestoreWrite(w) BY <3>3, Sessions DEF IInv, RestoreWrite, Session
    <3>4. CASE Crash(w) BY <3>4, Sessions DEF IInv, Crash
    <3>5. CASE \E j \in Jobs: ScheduledBackup(w, j)
      BY <3>5, Sessions DEF IInv, ScheduledBackup, Begin
    <3>6. CASE \E c \in Certs: RestoreAdd(w, c)
      BY <3>6, Sessions DEF IInv, RestoreAdd, Session
    <3> QED BY <1>7, <3>1, <3>2, <3>3, <3>4, <3>5, <3>6
  <2>2. UNCHANGED <<archive, backup, now>>
    BY <1>7 DEF RunBackup, EndRun, RestoreWrite, Crash, ScheduledBackup, RestoreAdd
  <2> QED BY <1>0, <1>1, <1>3, <1>4, <2>1, <2>2, CalmStep
<1>8. ASSUME NEW w \in Workers, NEW c \in Certs, Skip(w, c) PROVE SessionInv' /\ RowInv'
  <2>1. \A v \in Workers: Calm(v)
    BY <1>0, <1>1, <1>8, Sessions DEF IInv, Skip, Session
  <2> QED BY <1>0, <1>3, <1>4, <1>8, <2>1, CalmStep DEF Skip
<1>9. ASSUME NEW w \in Workers, InsertRow(w) PROVE SessionInv' /\ RowInv'
  <2>1. Session(w, [Idle EXCEPT !.pc = "run", !.job = worker[w].job]) /\ UNCHANGED backup
    BY <1>9 DEF InsertRow
  <2>2. [Idle EXCEPT !.pc = "run", !.job = worker[w].job].pc = "run"
    BY DEF Idle
  <2>3. \A v \in Workers: Calm(v)
    BY <1>1, <2>1, <2>2 DEF Session
  <2> QED BY <1>0, <1>3, <1>4, <1>9, <2>1, <2>3, CalmStep DEF InsertRow
<1>10. ASSUME NEW w \in Workers, RestoreImport(w) PROVE SessionInv' /\ RowInv'
  <2>1. CASE worker' = [worker EXCEPT ![w] = Idle]
    <3>1. \A v \in Workers: Calm(v)
      BY <1>1, <2>1, Sessions DEF IInv
    <3> QED BY <1>0, <1>3, <1>4, <1>10, <3>1, CalmStep DEF RestoreImport
  <2>2. CASE worker' = [worker EXCEPT ![w] = [worker[w] EXCEPT !.pc = "add"]]
    <3>1. /\ worker'[w].pc = "add" /\ worker'[w].fp = worker[w].fp
          /\ \A v \in Workers: v # w => worker'[v] = worker[v]
      BY <1>0, <2>2 DEF Process
    <3>2. worker[w].fp # 0
      BY <1>0, <1>10 DEF RestoreImport, RestorerOK
    <3>3. RestorerOK(w)'
      BY <3>1, <3>2 DEF RestorerOK
    <3>4. \A v \in Workers: Calm(v)
      BY <3>1, <3>3 DEF Calm
    <3> QED BY <1>0, <1>3, <1>4, <1>10, <3>4, CalmStep DEF RestoreImport
  <2> QED BY <1>10, <2>1, <2>2 DEF RestoreImport, Session
<1>11. ASSUME NEW w \in Workers, NEW n \in Names, NEW id \in Certs \cup {"none"},
              RestoreRead(w, n, id)
       PROVE  SessionInv' /\ RowInv'
  <2> DEFINE f == archive[n].holds
             s == [Idle EXCEPT !.fp = f]
  <2>1. f # 0
    <3>1. f \in Fps
      BY <1>11 DEF RestoreRead
    <3>2. \A x \in Fps: x # 0
      BY DEF Fps
    <3> QED BY <3>1, <3>2
  <2>2. ASSUME NEW c \in Target(id, f), Begin(w, [s EXCEPT !.pc = "restore", !.c = c, !.row = cert[c]])
        PROVE  worker'[w].pc \notin {"write", "insert", "unlink"} /\ RestorerOK(w)'
    <3>1. c \in Certs /\ cert[c].fp \in {0, f}
      BY <2>2 DEF Target, WithFingerprint
    <3>2. worker'[w] = [s EXCEPT !.pc = "restore", !.c = c, !.row = cert[c]]
      BY <1>0, <2>2 DEF Begin
    <3>3. worker'[w].pc = "restore" /\ worker'[w].c = c /\ worker'[w].row = cert[c]
          /\ worker'[w].fp = f
      BY <3>2 DEF Idle
    <3> QED BY <2>1, <3>1, <3>3 DEF RestorerOK
  <2>3. ASSUME Begin(w, [s EXCEPT !.pc = "import"])
        PROVE  worker'[w].pc \notin {"write", "insert", "unlink"} /\ RestorerOK(w)'
    <3>1. worker'[w].pc = "import" /\ worker'[w].fp = f
      BY <1>0, <2>3 DEF Begin, Idle
    <3> QED BY <2>1, <3>1 DEF RestorerOK
  <2>4. \A v \in Workers: v # w => worker'[v] = worker[v]
    BY <1>0, <1>11 DEF RestoreRead, Begin
  <2>5. \A v \in Workers: Calm(v)
    BY <1>11, <2>2, <2>3, <2>4 DEF RestoreRead, Calm
  <2> QED BY <1>0, <1>3, <1>4, <1>11, <2>5, CalmStep DEF RestoreRead
<1>12. CASE SchedulerStops
  <2>1. \A v \in Workers: worker'[v] = worker[v] \/ worker'[v] = Idle
    BY <1>12 DEF SchedulerStops
  <2>2. \A v \in Workers: Calm(v)
    BY <2>1, Sessions DEF IInv, Calm, RestorerOK
  <2> QED BY <1>0, <1>3, <1>4, <1>12, <2>2, CalmStep DEF SchedulerStops
<1>13. CASE SchedulerChanges
  BY <1>0, <1>2, <1>3, <1>4, <1>13, CalmStep DEF SchedulerChanges
<1>14. CASE Tick
  <2>1. now <= now'
    BY <1>0, <1>14 DEF Tick
  <2> QED BY <1>0, <1>2, <1>3, <1>14, <2>1, CalmStep DEF Tick
<1>15. CASE \E d \in Dumps: DumpDatabase(d)
  BY <1>0, <1>2, <1>3, <1>4, <1>15, CalmStep DEF DumpDatabase
<1>16. CASE \E c \in Certs: RequestCertificate(c) \/ Renew(c) \/ RevokeAndRemove(c)
  BY <1>0, <1>2, <1>3, <1>4, <1>16, CalmStep DEF RequestCertificate, Renew, RevokeAndRemove
<1> QED BY <1>5, <1>6, <1>7, <1>8, <1>9, <1>10, <1>11, <1>12, <1>13, <1>14, <1>15, <1>16 DEF Next

LEMMA Inductive ==
  ASSUME IInv, [Next]_vars
  PROVE  IInv'
<1>1. CASE Next
  <2>1. TypeOK'
    BY <1>1, TypeStep
  <2>2. SessionInv' /\ RowInv'
    BY <1>1, <2>1, CalmSteps, OpenStep, WriteStep, InsertStep, CleanupStep, UnlinkStep
  <2> QED BY <2>1, <2>2 DEF IInv
<1>2. CASE UNCHANGED vars
  <2>1. UNCHANGED <<cert, store, nfp, archive, backup, dump, now, worker, nevent>>
    BY <1>2 DEF vars, bvars
  <2>2. TypeOK'
    BY <2>1, TypesSame DEF IInv, TypeOK
  <2>3. SessionInv' /\ RowInv'
    <3>1. \A w \in Workers: Calm(w)
      BY <2>1 DEF Calm
    <3> QED BY <2>1, <3>1, Numbers, CalmStep DEF IInv
  <2> QED BY <2>2, <2>3 DEF IInv
<1> QED BY <1>1, <1>2

LEMMA Initial ==
  ASSUME Init
  PROVE  IInv
<1>0. /\ nfp = Cardinality(Issued) /\ now = 1 /\ nevent = 0 /\ dump = {} /\ store = 1..nfp
      /\ archive = [n \in Names |-> NoArchive] /\ backup = [r \in Rows |-> NoRow]
      /\ worker = [w \in Workers |-> Idle]
  BY DEF Init
<1>1. nfp \in Nat /\ nfp \in 0..MaxFp /\ now \in 1..MaxNow /\ nevent \in 0..MaxEvents
      /\ 0 \in 0..nfp /\ 0 \in 0..now /\ 0 \in Contents
  <2>1. nfp \in Nat
    BY <1>0, BackupsAssumption, FS_CardinalityType
  <2> QED BY <1>0, <2>1, BackupsAssumption DEF Contents
<1>2. NoCert \in CertRow
  BY <1>1 DEF NoCert, CertRow
<1>3. NoRow \in Row /\ NoRow.there = FALSE
  BY <1>1 DEF NoRow, Row, Empty
<1>4. NoArchive \in Archive
  BY <1>1 DEF NoArchive, Archive, Empty
<1>5. Idle \in Process /\ Idle.pc = "idle"
  <2>1. [c \in Certs |-> NoCert] \in [Certs -> CertRow]
    BY <1>2
  <2> QED BY <1>1, <1>2, <2>1 DEF Idle, Process
<1>6. cert \in [Certs -> CertRow]
  <2>1. PICK f \in [Issued -> 1..nfp]:
          cert = [c \in Certs |-> IF c \in Issued
                                  THEN [there |-> TRUE, fp |-> f[c], path |-> f[c]] ELSE NoCert]
    BY DEF Init
  <2>2. \A c \in Issued: f[c] \in 0..nfp
    BY <1>1, <2>1
  <2>3. \A c \in Issued: [there |-> TRUE, fp |-> f[c], path |-> f[c]] \in CertRow
    BY <2>2 DEF CertRow
  <2> QED BY <1>2, <2>1, <2>3
<1>7. TypeOK
  BY <1>0, <1>1, <1>3, <1>4, <1>5, <1>6 DEF TypeOK
<1>8. SessionInv
  BY <1>0, <1>5 DEF SessionInv, WriterOK, CleanerOK, RestorerOK, Writes
<1>9. RowInv
  BY <1>0, <1>3 DEF RowInv, RowOK
<1> QED BY <1>7, <1>8, <1>9 DEF IInv

LEMMA Always == Spec => []IInv
  BY Initial, Inductive, PTL DEF Spec

\* Tables, files and sessions hold values of their kinds, a fingerprint in use was given
\* out, and a backup on record has its certificate (backup_service).
THEOREM TypeCorrect == Spec => []TypeOK
<1>1. IInv => TypeOK
  BY DEF IInv
<1> QED BY <1>1, Always, PTL

\* A backup on record and within keep-days can be restored, whatever sessions back up,
\* clean up, restore, crash or delete certificates meanwhile, unless two backups of the
\* certificate fell into one second, its files were being removed, or a restore had left
\* it with other paths (backup_certificate, cleanup_old_backups).
THEOREM Restorable == Spec => []BackupIsRestorable
<1>1. IInv => BackupIsRestorable
  BY DEF IInv, RowInv, RowOK, Name, BackupIsRestorable
<1> QED BY <1>1, Always, PTL

\* What verify_backup_archives passes, and was written once, holds the certificate its
\* row names, rows past keep-days included.
THEOREM VerificationIsSound == Spec => []VerifiedRestores
<1>1. IInv => VerifiedRestores
  <2> SUFFICES ASSUME IInv, VerifyOk, NEW n \in Names, archive[n].there, ~archive[n].clash,
                      NEW r \in RowsOf(n), ~backup[r].mixed
               PROVE  archive[n].holds = backup[r].fp
    BY DEF VerifiedRestores
  <2>1. r \in Rows /\ backup[r].there /\ backup[r].c = n.c /\ backup[r].at = n.at
    BY DEF RowsOf
  <2>2. Name(backup[r]) = n
    BY <2>1 DEF Name, Names
  <2>3. archive[n].holds \in {backup[r].fp, Empty}
    BY <2>1, <2>2 DEF IInv, RowInv, RowOK
  <2>4. archive[n].holds \in Fps
    BY DEF VerifyOk, Verified
  <2>5. Empty \notin Fps
    BY DEF Empty, Fps
  <2> QED BY <2>3, <2>4, <2>5
<1> QED BY <1>1, Always, PTL

\* Only a restore changes the fingerprint or the path of a certificate that is neither
\* issued, renewed nor revoked, and one that was not overtaken leaves it consistent
\* (restore_certificate, which writes the columns that differ from what it read).
THEOREM IdentityKept == Spec => RestoreKeepsIdentity
<1> DEFINE Kept(c) ==
      \/ cert[c].fp = 0 /\ cert'[c].path = cert'[c].fp
      \/ /\ \/ cert'[c].fp = cert[c].fp
            \/ \E w \in Workers: Overtaken(w, c) /\ worker[w].row.fp = 0
         /\ \/ cert'[c].path \in {cert[c].path, 0, cert'[c].fp}
            \/ \E w \in Workers: Overtaken(w, c)
<1>1. IInv /\ [Next]_vars =>
        [\A c \in Certs: cert[c].there /\ cert'[c].there /\ nfp' = nfp => Kept(c)]_vars
  <2> SUFFICES ASSUME IInv, Next, NEW c \in Certs, cert[c].there, cert'[c].there, nfp' = nfp
               PROVE  Kept(c)
    OBVIOUS
  <2>0. cert \in [Certs -> CertRow] /\ nfp \in Nat
    BY Numbers DEF IInv, TypeOK
  <2>1. CASE cert'[c] = cert[c]
    BY <2>1
  <2>2. ASSUME NEW d \in Certs, RevokeAndRemove(d), cert'[c] # cert[c] PROVE Kept(c)
    <3>1. c = d /\ cert'[c] = [cert[c] EXCEPT !.path = 0]
      BY <2>0, <2>2 DEF RevokeAndRemove
    <3>2. cert'[c].fp = cert[c].fp /\ cert'[c].path = 0
      BY <2>0, <3>1 DEF CertRow
    <3> QED BY <3>2
  <2>3. ASSUME NEW d \in Certs, RequestCertificate(d) \/ DeleteCertificate(d) \/ Renew(d)
        PROVE  cert'[c] = cert[c]
    <3>1. CASE RequestCertificate(d) BY <2>0, <3>1 DEF RequestCertificate
    <3>2. CASE DeleteCertificate(d) BY <2>0, <3>2 DEF DeleteCertificate, NoCert
    <3>3. ~Renew(d) BY <2>0 DEF Renew
    <3> QED BY <2>3, <3>1, <3>2, <3>3
  <2>4. ASSUME NEW w \in Workers, RestoreWrite(w), cert'[c] # cert[c] PROVE Kept(c)
    <3> DEFINE s == worker[w]
    <3>1. s.pc = "restore" /\ s.fp # 0 /\ s.row.fp \in {0, s.fp}
      BY <2>4 DEF RestoreWrite, IInv, SessionInv, RestorerOK
    <3>2. c = s.c /\ cert'[c] = Merged(cert[c], s.row, s.fp)
      BY <2>0, <2>4 DEF RestoreWrite
    <3>3. /\ cert'[c].fp = IF s.row.fp = s.fp THEN cert[c].fp ELSE s.fp
          /\ cert'[c].path = IF s.row.path = s.fp THEN cert[c].path ELSE s.fp
      BY <3>2 DEF Merged
    <3>4. CASE s.row = cert[c]
      BY <3>1, <3>3, <3>4
    <3>5. CASE s.row # cert[c]
      <4>1. Overtaken(w, c)
        BY <3>1, <3>2, <3>5 DEF Overtaken
      <4> QED BY <3>1, <3>3, <4>1
    <3> QED BY <3>4, <3>5
  <2>5. ASSUME NEW w \in Workers, NEW d \in Certs, RestoreAdd(w, d) PROVE cert'[c] = cert[c]
    BY <2>0, <2>5 DEF RestoreAdd
  <2>6. ASSUME NEW w \in Workers,
               \/ RunBackup(w) \/ InsertRow(w) \/ EndRun(w) \/ DeleteRows(w)
               \/ RestoreImport(w) \/ Crash(w) \/ \E j \in Jobs: ScheduledBackup(w, j)
               \/ \E d \in Certs: Skip(w, d) \/ OpenArchive(w, d)
        PROVE  cert' = cert
    BY <2>6 DEF RunBackup, InsertRow, EndRun, DeleteRows, RestoreImport, Crash,
       ScheduledBackup, Skip, OpenArchive
  <2> HIDE DEF Kept
  <2> QED BY <2>1, <2>2, <2>3, <2>4, <2>5, <2>6 DEF Next, SchedulerChanges, SchedulerStops, Tick,
        DumpDatabase, WriteArchive, Cleanup, Unlink, RestoreRead
<1> QED BY <1>1, Always, PTL DEF Spec, RestoreKeepsIdentity
=============================================================================
