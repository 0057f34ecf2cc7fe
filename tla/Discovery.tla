----------------------------- MODULE Discovery -----------------------------
(***************************************************************************)
(* Certificate discovery, backend/app/services/discovery_service: the      *)
(* filesystem scan, the network scan and the Certificate Transparency      *)
(* monitor, with the rows of discovery_runs they report to, the inventory  *)
(* they fill, the list of fingerprints that must stay deleted, and the     *)
(* findings analysts work on.                                              *)
(*                                                                         *)
(* The three scans keep a certificate from being registered twice in three *)
(* ways: a set of fingerprints read at the start, a query, and a query by  *)
(* serial number.  The filesystem scan commits every import; the other two *)
(* flush a new certificate and commit everything at the end, so their rows *)
(* are seen by nobody else until then.  Sessions do not flush before a     *)
(* query (autoflush=False): an observation or a finding added by the run   *)
(* is not seen by the run's own queries until the next flush.              *)
(*                                                                         *)
(* A certificate is its fingerprint.  A network sighting is a write that   *)
(* refers to the certificate's row; which host was seen is left out.       *)
(***************************************************************************)
EXTENDS Integers, FiniteSets

CONSTANTS
  Fps,          \* fingerprints of the certificates that exist
  CrtIds,       \* ids of crt.sh entries
  FpOf,         \* the certificate of each entry: one may be in several CT logs
  Places,       \* domains, hosts or directories of a scan
  Suspicious,   \* certificates with a detection besides "new certificate"
  Batches,      \* bound: what a scan may find, sets of pairs of a place and an entry
  Workers,      \* sessions that scan, or import an upload
  Readers,      \* sessions that list the runs or cancel one
  Inputs,       \* bound: the requests and faults of this instance
  MaxRuns,      \* bound: rows of discovery_runs
  MaxRows       \* bound: certificate rows ever inserted

ASSUME DiscoveryAssumption ==
  /\ FpOf \in [CrtIds -> Fps]
  /\ Suspicious \subseteq Fps
  /\ Batches \subseteq SUBSET (Places \X CrtIds)
  /\ Inputs \subseteq {"files", "network", "ct", "import", "delete", "unignore",
                       "close", "reopen", "cancel", "crash", "late"}
  /\ MaxRuns \in Nat
  /\ MaxRows \in Nat

VARIABLES
  run,       \* the discovery_runs table
  nrun,
  row,       \* the certificates table: discovered and imported certificates
  nrow,
  ignored,   \* the discovery_ignores table
  obs,       \* the ct_observations table
  find,      \* the ct_findings table: how many active and closed per certificate
  worker,    \* scanning sessions
  reader     \* sessions between the read of a run and their write to it

vars == <<run, nrun, row, nrow, ignored, obs, find, worker, reader>>

RunIds == 1..MaxRuns
RowIds == 1..MaxRows
Kinds == {"files", "network", "ct"}
RunStatus == {"nil", "running", "completed", "failed", "cancelled"}
Item == Places \X CrtIds
Observation == [id: CrtIds, cert: RowIds]

\* "sent": flushed by a session that has not committed; "void": rolled back
RowState == {"nil", "sent", "live", "gone", "void"}

NoRun == [kind |-> "none", status |-> "nil", old |-> FALSE, count |-> 0]
NoFp == "no_fp"
NilRow == [fp |-> NoFp, state |-> "nil", run |-> 0]
NoFindings == [active |-> 0, closed |-> 0]
Zero == [i \in RowIds |-> 0]

\* `skip` and `known` are what the scan read at its start.  `obs`, `finds` and
\* `touched` are writes not yet flushed, with the rows they refer to; `sentobs`,
\* `sentfinds` and `locked` are the flushed ones.
Idle == [pc |-> "idle", run |-> 0, todo |-> {}, skip |-> {}, known |-> {}, count |-> 0,
         hit |-> NoFp, obs |-> {}, twice |-> FALSE, finds |-> Zero, touched |-> {},
         sentobs |-> {}, sentfinds |-> Zero, locked |-> {}]

NoReset == [run |-> 0, to |-> "nil"]

Init ==
  /\ run = [r \in RunIds |-> NoRun]
  /\ nrun = 0
  /\ row = [i \in RowIds |-> NilRow]
  /\ nrow = 0
  /\ ignored = {}
  /\ obs = {}
  /\ find = [i \in RowIds |-> NoFindings]
  /\ worker = [w \in Workers |-> Idle]
  /\ reader = [r \in Readers |-> NoReset]

----------------------------------------------------------------------------
(* Sessions *)

Live == {i \in RowIds: row[i].state = "live"}
Sent(w) == {i \in RowIds: row[i].state = "sent" /\ row[i].run = worker[w].run}

\* Mutant: the scan looks only at committed rows
Mutant_VisibleIsCommitted(w, fp) == {i \in Live: row[i].fp = fp}

\* The rows a query of this session returns for a fingerprint
Visible(w, fp) == {i \in Live \cup Sent(w): row[i].fp = fp}

\* A flush fails if it inserts an observation twice (crt_sh_id is unique), or
\* refers to, or updates, a row that another session deleted.
CanFlush(w) ==
  /\ ~worker[w].twice
  /\ {o.id: o \in worker[w].obs} \cap {o.id: o \in obs} = {}
  /\ worker[w].touched \subseteq Live \cup Sent(w)

\* The session after a flush: what it wrote is in the transaction.
Flushed(s) ==
  [s EXCEPT !.obs = {}, !.finds = Zero, !.touched = {},
            !.sentobs = s.sentobs \cup s.obs,
            !.sentfinds = [i \in RowIds |-> s.sentfinds[i] + s.finds[i]],
            !.locked = s.locked \cup s.touched]

\* Rows of a transaction that is rolled back
Undone(w) == [i \in RowIds |-> IF i \in Sent(w) THEN [row[i] EXCEPT !.state = "void"] ELSE row[i]]

Drop(s, it) == [s EXCEPT !.todo = s.todo \ {it}]

----------------------------------------------------------------------------
(* A scan begins *)

\* The run is committed as running, then the scan reads what it must skip: the
\* ignored fingerprints and, for the filesystem, those already in the inventory.
StartRun(w, kind, batch) ==
  /\ kind \in Inputs
  /\ worker[w].pc = "idle"
  /\ nrun < MaxRuns
  /\ nrun' = nrun + 1
  /\ run' = [run EXCEPT ![nrun + 1] = [NoRun EXCEPT !.kind = kind, !.status = "running"]]
  /\ worker' = [worker EXCEPT ![w] =
       [Idle EXCEPT !.pc = "scan", !.run = nrun + 1, !.todo = batch,
                    !.skip = ignored \cup IF kind = "files" THEN {row[i].fp: i \in Live} ELSE {},
                    !.known = IF kind = "ct" THEN {o.id: o \in obs} ELSE {}]]
  /\ UNCHANGED <<row, nrow, ignored, obs, find, reader>>

\* A file, a handshake result or an entry that cannot be fetched or parsed
ItemSkipped(w, it) ==
  /\ worker[w].pc = "scan"
  /\ it \in worker[w].todo
  /\ worker' = [worker EXCEPT ![w] = Drop(worker[w], it)]
  /\ UNCHANGED <<run, nrun, row, nrow, ignored, obs, find, reader>>

----------------------------------------------------------------------------
(* Filesystem scan and import *)

\* Mutant: a certificate that is already known counts as imported
Mutant_DuplicateCounted(w, it) ==
  LET fp == FpOf[it[2]] IN
  /\ worker[w].pc = "scan"
  /\ run[worker[w].run].kind = "files"
  /\ it \in worker[w].todo
  /\ worker' = [worker EXCEPT ![w] =
       IF fp \in worker[w].skip \/ Visible(w, fp) # {}
       THEN [Drop(worker[w], it) EXCEPT !.count = @ + 1]
       ELSE [Drop(worker[w], it) EXCEPT !.pc = "import", !.hit = fp]]
  /\ UNCHANGED <<run, nrun, row, nrow, ignored, obs, find, reader>>

\* _maybe_import_cert and import_certificate's check for duplicates
FileFound(w, it) ==
  LET fp == FpOf[it[2]] IN
  /\ worker[w].pc = "scan"
  /\ run[worker[w].run].kind = "files"
  /\ it \in worker[w].todo
  /\ worker' = [worker EXCEPT ![w] =
       IF fp \in worker[w].skip \/ Visible(w, fp) # {} THEN Drop(worker[w], it)
       ELSE [Drop(worker[w], it) EXCEPT !.pc = "import", !.hit = fp]]
  /\ UNCHANGED <<run, nrun, row, nrow, ignored, obs, find, reader>>

\* POST /certificates/import: the ignored fingerprints are not looked at.
UploadFound(w, fp) ==
  /\ "import" \in Inputs
  /\ worker[w].pc = "idle"
  /\ Visible(w, fp) = {}
  /\ worker' = [worker EXCEPT ![w] = [Idle EXCEPT !.pc = "import", !.hit = fp]]
  /\ UNCHANGED <<run, nrun, row, nrow, ignored, obs, find, reader>>

\* The import is committed, and with it the count of the imports before it.
ImportCommit(w) ==
  LET s == worker[w] IN
  /\ s.pc = "import"
  /\ nrow < MaxRows
  /\ nrow' = nrow + 1
  /\ row' = [row EXCEPT ![nrow + 1] = [fp |-> s.hit, state |-> "live", run |-> s.run]]
  /\ run' = IF s.run = 0 THEN run ELSE [run EXCEPT ![s.run].count = s.count]
  /\ worker' = [worker EXCEPT ![w] =
       IF s.run = 0 THEN Idle
       ELSE [s EXCEPT !.pc = "scan", !.hit = NoFp, !.count = s.count + 1,
                      !.skip = s.skip \cup {s.hit}]]
  /\ UNCHANGED <<nrun, ignored, obs, find, reader>>

\* The private key does not match: nothing is inserted.
ImportRejected(w) ==
  /\ worker[w].pc = "import"
  /\ worker' = [worker EXCEPT ![w] = IF worker[w].run = 0 THEN Idle
                                     ELSE [worker[w] EXCEPT !.pc = "scan", !.hit = NoFp]]
  /\ UNCHANGED <<run, nrun, row, nrow, ignored, obs, find, reader>>

----------------------------------------------------------------------------
(* Network scan and CT monitor *)

\* db.add(certificate), db.flush(): the row gets its id inside the transaction.
\* `after` is the session once the flush has succeeded.
InsertRow(w, fp, after) ==
  IF CanFlush(w)
  THEN /\ nrow < MaxRows
       /\ nrow' = nrow + 1
       /\ row' = [row EXCEPT ![nrow + 1] = [fp |-> fp, state |-> "sent", run |-> worker[w].run]]
       /\ worker' = [worker EXCEPT ![w] = after]
  ELSE /\ worker' = [worker EXCEPT ![w].pc = "failing"]
       /\ UNCHANGED <<row, nrow>>

\* _record_sighting
SightCertificate(w, it) ==
  LET fp == FpOf[it[2]]
      s == Drop(worker[w], it)
  IN
  /\ worker[w].pc = "scan"
  /\ run[worker[w].run].kind = "network"
  /\ it \in worker[w].todo
  /\ \/ /\ Visible(w, fp) = {}
        /\ fp \in s.skip
        /\ worker' = [worker EXCEPT ![w] = s]
        /\ UNCHANGED <<row, nrow>>
     \/ /\ Visible(w, fp) = {}
        /\ fp \notin s.skip
        /\ InsertRow(w, fp, [Flushed(s) EXCEPT !.count = s.count + 1, !.touched = {nrow + 1}])
     \/ \E i \in Visible(w, fp):
          /\ worker' = [worker EXCEPT ![w] = [s EXCEPT !.touched = s.touched \cup {i}]]
          /\ UNCHANGED <<row, nrow>>
  /\ UNCHANGED <<run, nrun, ignored, obs, find, reader>>

\* Mutant: a finding is added for every observation
Mutant_FindingPerObservation(s, id, i, new) ==
  LET seen == [s EXCEPT !.obs = s.obs \cup {[id |-> id, cert |-> i]},
                        !.twice = s.twice \/ id \in {o.id: o \in s.obs \cup s.sentobs},
                        !.touched = s.touched \cup {i}]
  IN
  IF new \/ FpOf[id] \in Suspicious THEN [seen EXCEPT !.finds[i] = s.finds[i] + 1] ELSE seen

\* The end of _record_ct_observation: the observation, and the finding unless the
\* query finds an active one of this certificate.
Observed(s, id, i, new) ==
  LET seen == [s EXCEPT !.obs = s.obs \cup {[id |-> id, cert |-> i]},
                        !.twice = s.twice \/ id \in {o.id: o \in s.obs \cup s.sentobs},
                        !.touched = s.touched \cup {i}]
  IN
  IF (new \/ FpOf[id] \in Suspicious) /\ find[i].active + s.sentfinds[i] = 0
  THEN [seen EXCEPT !.finds[i] = s.finds[i] + 1]
  ELSE seen

\* An entry recorded by an earlier run: only its observation is updated.
KnownEntry(w, it) ==
  /\ worker[w].pc = "scan"
  /\ run[worker[w].run].kind = "ct"
  /\ it \in worker[w].todo
  /\ it[2] \in worker[w].known
  /\ worker' = [worker EXCEPT ![w] =
       [Drop(worker[w], it) EXCEPT
          !.touched = worker[w].touched \cup {o.cert: o \in {p \in obs: p.id = it[2]}}]]
  /\ UNCHANGED <<run, nrun, row, nrow, ignored, obs, find, reader>>

\* A new entry: matched by serial number and issuer to a row of the inventory, or
\* fetched and matched by fingerprint.
NewEntry(w, it) ==
  LET fp == FpOf[it[2]]
      s == Drop(worker[w], it)
  IN
  /\ worker[w].pc = "scan"
  /\ run[worker[w].run].kind = "ct"
  /\ it \in worker[w].todo
  /\ it[2] \notin worker[w].known
  /\ \/ /\ fp \in s.skip
        /\ worker' = [worker EXCEPT ![w] = s]
        /\ UNCHANGED <<row, nrow>>
     \/ \E i \in Visible(w, fp):
          /\ worker' = [worker EXCEPT ![w] = Observed(s, it[2], i, FALSE)]
          /\ UNCHANGED <<row, nrow>>
     \/ /\ Visible(w, fp) = {}
        /\ fp \notin s.skip
        /\ InsertRow(w, fp, Observed([Flushed(s) EXCEPT !.count = s.count + 1], it[2], nrow + 1, TRUE))
  /\ UNCHANGED <<run, nrun, ignored, obs, find, reader>>

----------------------------------------------------------------------------
(* A scan ends *)

\* The final commit.  The status differs from the one the session read at the
\* start, so it is written whatever the row holds by now.
Complete(w) ==
  LET s == Flushed(worker[w]) IN
  /\ worker[w].pc = "scan"
  /\ worker[w].todo = {}
  /\ IF CanFlush(w)
     THEN /\ run' = [run EXCEPT ![s.run].status = "completed", ![s.run].count = s.count]
          /\ row' = [i \in RowIds |-> IF i \in Sent(w) THEN [row[i] EXCEPT !.state = "live"]
                                      ELSE row[i]]
          /\ obs' = obs \cup s.sentobs
          /\ find' = [i \in RowIds |-> [find[i] EXCEPT !.active = find[i].active + s.sentfinds[i]]]
          /\ worker' = [worker EXCEPT ![w] = [Idle EXCEPT !.pc = "record", !.run = s.run]]
     ELSE /\ worker' = [worker EXCEPT ![w].pc = "failing"]
          /\ UNCHANGED <<run, row, obs, find>>
  /\ UNCHANGED <<nrun, nrow, ignored, reader>>

\* A second commit writes the execution and the audit record.
RecordRun(w) ==
  /\ worker[w].pc = "record"
  /\ worker' = [worker EXCEPT ![w] = Idle]
  /\ UNCHANGED <<run, nrun, row, nrow, ignored, obs, find, reader>>

\* Mutant: _tracked_run commits the status without rolling back first
Mutant_FailWithoutRollback(w) ==
  LET s == Flushed(worker[w]) IN
  /\ worker[w].pc \in {"scan", "failing"}
  /\ run' = [run EXCEPT ![s.run].status = "failed"]
  /\ row' = [i \in RowIds |-> IF i \in Sent(w) THEN [row[i] EXCEPT !.state = "live"] ELSE row[i]]
  /\ worker' = [worker EXCEPT ![w] = Idle]
  /\ UNCHANGED <<nrun, nrow, ignored, obs, find, reader>>

\* An exception reaches _tracked_run: the transaction is rolled back and the run
\* marked failed, after a failed flush or at any other point (the soft time limit).
RunFails(w) ==
  /\ \/ worker[w].pc \in {"scan", "failing"}
     \/ worker[w].pc = "record" /\ "late" \in Inputs
  /\ run' = [run EXCEPT ![worker[w].run].status = "failed"]
  /\ row' = Undone(w)
  /\ worker' = [worker EXCEPT ![w] = Idle]
  /\ UNCHANGED <<nrun, nrow, ignored, obs, find, reader>>

\* The process dies: the database rolls its transaction back, nobody tells the run.
Crash(w) ==
  /\ "crash" \in Inputs
  /\ worker[w].pc # "idle"
  /\ row' = Undone(w)
  /\ worker' = [worker EXCEPT ![w] = Idle]
  /\ UNCHANGED <<run, nrun, nrow, ignored, obs, find, reader>>

\* An hour passes over a run whose process is gone: a live one is killed by
\* Celery's hard time limit long before.
HourPasses(r) ==
  /\ run[r].status = "running"
  /\ ~run[r].old
  /\ \A w \in Workers: worker[w].run # r
  /\ run' = [run EXCEPT ![r].old = TRUE]
  /\ UNCHANGED <<nrun, row, nrow, ignored, obs, find, worker, reader>>

----------------------------------------------------------------------------
(* Requests *)

CancelRead(q, r) ==
  /\ "cancel" \in Inputs
  /\ reader[q] = NoReset
  /\ run[r].status = "running"
  /\ reader' = [reader EXCEPT ![q] = [run |-> r, to |-> "cancelled"]]
  /\ UNCHANGED <<run, nrun, row, nrow, ignored, obs, find, worker>>

\* Mutant: nobody looks for stale runs
Mutant_NeverStale(q, r) == FALSE /\ UNCHANGED vars

\* mark_stale_run_failed, for each run of the list
StaleRead(q, r) ==
  /\ reader[q] = NoReset
  /\ run[r].status = "running"
  /\ run[r].old
  /\ reader' = [reader EXCEPT ![q] = [run |-> r, to |-> "failed"]]
  /\ UNCHANGED <<run, nrun, row, nrow, ignored, obs, find, worker>>

ResetWrite(q) ==
  /\ reader[q] # NoReset
  /\ run' = [run EXCEPT ![reader[q].run].status = reader[q].to]
  /\ reader' = [reader EXCEPT ![q] = NoReset]
  /\ UNCHANGED <<nrun, row, nrow, ignored, obs, find, worker>>

\* DELETE /certificates/{id}: observations and findings go with the row, and its
\* fingerprint must stay deleted.  A row that an open transaction refers to is locked.
DeleteCertificate(i) ==
  /\ "delete" \in Inputs
  /\ i \in Live
  /\ \A w \in Workers: i \notin worker[w].locked
  /\ row' = [row EXCEPT ![i].state = "gone"]
  /\ ignored' = ignored \cup {row[i].fp}
  /\ obs' = {o \in obs: o.cert # i}
  /\ find' = [find EXCEPT ![i] = NoFindings]
  /\ UNCHANGED <<run, nrun, nrow, worker, reader>>

DeleteIgnore(fp) ==
  /\ "unignore" \in Inputs
  /\ fp \in ignored
  /\ ignored' = ignored \ {fp}
  /\ UNCHANGED <<run, nrun, row, nrow, obs, find, worker, reader>>

\* Mutant: a finding is closed without being looked up
Mutant_CloseAnyFinding(i) ==
  /\ "close" \in Inputs
  /\ find' = [find EXCEPT ![i].active = @ - 1, ![i].closed = @ + 1]
  /\ UNCHANGED <<run, nrun, row, nrow, ignored, obs, worker, reader>>

\* PATCH /findings/{id}: to false_positive or resolved, and back.
CloseFinding(i) ==
  /\ "close" \in Inputs
  /\ find[i].active > 0
  /\ find' = [find EXCEPT ![i].active = @ - 1, ![i].closed = @ + 1]
  /\ UNCHANGED <<run, nrun, row, nrow, ignored, obs, worker, reader>>

ReopenFinding(i) ==
  /\ "reopen" \in Inputs
  /\ find[i].closed > 0
  /\ find' = [find EXCEPT ![i].active = @ + 1, ![i].closed = @ - 1]
  /\ UNCHANGED <<run, nrun, row, nrow, ignored, obs, worker, reader>>

----------------------------------------------------------------------------

Scan(w) ==
  \/ \E it \in Item: \/ ItemSkipped(w, it) \/ FileFound(w, it) \/ SightCertificate(w, it)
                     \/ KnownEntry(w, it) \/ NewEntry(w, it)
  \/ ImportCommit(w) \/ ImportRejected(w)
  \/ Complete(w) \/ RecordRun(w) \/ RunFails(w)

Next ==
  \/ \E w \in Workers:
       \/ Scan(w) \/ Crash(w)
       \/ \E kind \in Kinds, batch \in Batches: StartRun(w, kind, batch)
       \/ \E fp \in Fps: UploadFound(w, fp)
  \/ \E q \in Readers:
       \/ ResetWrite(q)
       \/ \E r \in RunIds: CancelRead(q, r) \/ StaleRead(q, r)
  \/ \E r \in RunIds: HourPasses(r)
  \/ \E i \in RowIds: DeleteCertificate(i) \/ CloseFinding(i) \/ ReopenFinding(i)
  \/ \E fp \in Fps: DeleteIgnore(fp)

Spec == Init /\ [][Next]_vars

\* A scan goes on, the clock advances, and the list of runs, with this run among
\* the latest ones it shows, is read.
FairSpec ==
  /\ Spec
  /\ \A w \in Workers: WF_vars(Scan(w))
  /\ \A r \in RunIds: WF_vars(HourPasses(r)) /\ WF_vars(\E q \in Readers: StaleRead(q, r))
  /\ \A q \in Readers: WF_vars(ResetWrite(q))

----------------------------------------------------------------------------
(* Properties *)

Session == [pc: {"idle", "scan", "import", "failing", "record"}, run: 0..MaxRuns,
            todo: SUBSET Item, skip: SUBSET Fps, known: SUBSET CrtIds, count: Nat,
            hit: Fps \cup {NoFp}, obs: SUBSET Observation, twice: BOOLEAN,
            finds: [RowIds -> Nat], touched: SUBSET RowIds, sentobs: SUBSET Observation,
            sentfinds: [RowIds -> Nat], locked: SUBSET RowIds]

Run == [kind: Kinds \cup {"none"}, status: RunStatus, old: BOOLEAN, count: Nat]
Row == [fp: Fps \cup {NoFp}, state: RowState, run: 0..MaxRuns]

\* Tables and sessions hold values of their kinds.
TypeOK ==
  /\ run \in [RunIds -> Run]
  /\ nrun \in 0..MaxRuns
  /\ row \in [RowIds -> Row]
  /\ nrow \in 0..MaxRows
  /\ ignored \subseteq Fps
  /\ obs \subseteq Observation
  /\ find \in [RowIds -> [active: Nat, closed: Nat]]
  /\ worker \in [Workers -> Session]
  /\ reader \in [Readers -> [run: 0..MaxRuns, to: RunStatus]]

\* As long as one session scans at a time, no certificate is registered twice,
\* although the three scans look for it in three different ways and rows are
\* deleted meanwhile.  (Two sessions at once can.)
NoDuplicates ==
  \A i, j \in Live: row[i].fp = row[j].fp => i = j

\* A network scan or a CT run that failed has added nothing to the inventory:
\* everything it found is rolled back with it.
FailedLeavesNoRows ==
  \A i \in Live: row[i].run # 0 /\ run[row[i].run].kind # "files"
    => run[row[i].run].status # "failed"

\* The rows a run added, deleted since or not
AddedBy(r) == {i \in RowIds: row[i].run = r /\ row[i].state \in {"live", "gone"}}

\* imported_count never exceeds what the run added to the inventory, and is
\* exact once the run is completed.
CountIsRight ==
  \A r \in RunIds:
    /\ run[r].count <= Cardinality(AddedBy(r))
    /\ run[r].status = "completed" => run[r].count = Cardinality(AddedBy(r))

\* "One correlated finding per certificate, not one per detection/scan": a scan opens no
\* finding of a certificate that has an active one already, whatever was deleted, closed
\* or rolled back before.  (Two new log entries of one certificate within one scan open
\* two, since the scan's query does not see what it has not flushed.)
FindingsCorrelate ==
  [][\A i \in RowIds: find'[i].active > find[i].active /\ find'[i].closed = find[i].closed
       => find[i].active = 0]_vars

\* No run stays "running" for ever: it ends, or is marked failed when it is read.
RunEnds == \A r \in RunIds: run[r].status = "running" ~> run[r].status # "running"
=============================================================================
