--------------------------- MODULE DiscoveryProofs ---------------------------
(***************************************************************************)
(* Proofs about Discovery, for any certificates, log entries, batches and  *)
(* bounds, and, except where it is said, any number of sessions.           *)
(*                                                                         *)
(* The three scans share the inventory and the table of runs, and differ   *)
(* in when their rows are committed.  Base says to whom a run and a row in *)
(* a transaction belong; CountInv relates the count a session keeps to the *)
(* rows it has added, committed (files) or not (network, CT).              *)
(***************************************************************************)
EXTENDS Discovery, FiniteSetTheorems, TLAPS

\* A session that works for a run
Busy == {"scan", "failing", "import"}

\* A row in a transaction belongs to a network scan or CT run that goes on.
RowOK(i) ==
  /\ i > nrow => row[i].state = "nil"
  /\ row[i].run <= nrun
  /\ row[i].state \in {"live", "sent"} => row[i].fp \in Fps
  /\ row[i].state = "sent" =>
       /\ row[i].run # 0 /\ run[row[i].run].kind # "files"
       /\ \E w \in Workers: worker[w].run = row[i].run /\ worker[w].pc \in {"scan", "failing"}

RowInv == \A i \in RowIds: RowOK(i)

SessionOK(w) ==
  /\ worker[w].run <= nrun
  /\ worker[w].pc = "idle" => worker[w].run = 0
  /\ worker[w].pc \in {"scan", "failing", "record"} => worker[w].run # 0
  /\ worker[w].pc = "import" => worker[w].hit \in Fps
  /\ worker[w].pc = "import" /\ worker[w].run # 0 => run[worker[w].run].kind = "files"
  /\ \A v \in Workers: worker[v].run = worker[w].run /\ worker[w].run # 0 => v = w

SessionInv == \A w \in Workers: SessionOK(w)

RunOK(r) ==
  /\ r > nrun => run[r] = NoRun
  /\ run[r].status = "completed" => \A w \in Workers: worker[w].run = r => worker[w].pc = "record"

RunInv ==
  /\ \A r \in RunIds: RunOK(r)
  /\ \A q \in Readers: reader[q].to # "completed" /\ reader[q].run <= nrun

Base == TypeOK /\ RowInv /\ SessionInv /\ RunInv

\* The count a session keeps is the number of the rows it has added.
CountOK(w) ==
  worker[w].pc \in Busy /\ worker[w].run # 0 =>
    IF run[worker[w].run].kind = "files"
    THEN worker[w].count = Cardinality(AddedBy(worker[w].run))
    ELSE AddedBy(worker[w].run) = {} /\ worker[w].count = Cardinality(Sent(w))

CountInv == (\A w \in Workers: CountOK(w)) /\ CountIsRight

\* Rows of a network scan or CT run are in the inventory only once it is completed: it
\* may be cancelled after that, but is not given up as stale.
CommittedOK(i) ==
  row[i].state = "live" /\ row[i].run # 0 /\ run[row[i].run].kind # "files" =>
    /\ run[row[i].run].status \in {"completed", "cancelled"} /\ ~run[row[i].run].old
    /\ \A w \in Workers: worker[w].run = row[i].run => worker[w].pc = "record"

StaleInv ==
  /\ \A r \in RunIds: run[r].old => \A w \in Workers: worker[w].run # r
  /\ \A q \in Readers: \/ reader[q] = NoReset
                       \/ reader[q].to = "cancelled"
                       \/ /\ reader[q].to = "failed" /\ reader[q].run \in RunIds
                          /\ run[reader[q].run].old

FailInv == (\A i \in RowIds: CommittedOK(i)) /\ StaleInv

\* No two rows of one certificate, in the inventory or in a transaction, and none of
\* the certificate that is being imported
Shown(i) == row[i].state \in {"live", "sent"}

DupInv ==
  /\ \A i, j \in RowIds: Shown(i) /\ Shown(j) /\ row[i].fp = row[j].fp => i = j
  /\ \A w \in Workers, i \in RowIds: worker[w].pc = "import" /\ Shown(i) => row[i].fp # worker[w].hit

\* A session adds findings only of certificates that have none active.
FindInv ==
  \A w \in Workers, i \in RowIds:
    worker[w].finds[i] # 0 \/ worker[w].sentfinds[i] # 0 => find[i].active = 0

OneSession == \A v, w \in Workers: v = w

----------------------------------------------------------------------------
(* What the steps of a session do *)

\* New findings are of certificates without an active one.
Pending(w, s) ==
  \A i \in RowIds: s.finds[i] # 0 \/ s.sentfinds[i] # 0 =>
    worker[w].finds[i] # 0 \/ worker[w].sentfinds[i] # 0 \/ find[i].active = 0

\* Only the session changes.
Quiet(w, s) ==
  /\ s \in Session
  /\ worker' = [worker EXCEPT ![w] = s]
  /\ UNCHANGED <<run, nrun, row, nrow, ignored, obs, find, reader>>
  /\ s.run = worker[w].run /\ (s.run = 0 \/ s.count = worker[w].count)
  /\ Pending(w, s)
  /\ \/ worker[w].pc \in {"idle", "import"} /\ s.run = 0 /\ s.pc \in {"idle", "import"}
     \/ worker[w].pc \in Busy /\ s.run # 0 /\ s.pc \in {"scan", "failing"}
     \/ worker[w].pc = "scan" /\ s.run # 0 /\ s.pc = "import" /\ run[s.run].kind = "files"
  /\ s.pc = "import" => s.hit \in Fps /\ Visible(w, s.hit) = {}

\* A network scan or CT run flushes a new row.
Insert(w, s, fp) ==
  /\ s \in Session /\ fp \in Fps
  /\ worker[w].pc = "scan" /\ run[worker[w].run].kind # "files"
  /\ Visible(w, fp) = {}
  /\ nrow < MaxRows /\ nrow' = nrow + 1
  /\ row' = [row EXCEPT ![nrow + 1] = [fp |-> fp, state |-> "sent", run |-> worker[w].run]]
  /\ worker' = [worker EXCEPT ![w] = s]
  /\ UNCHANGED <<run, nrun, ignored, obs, find, reader>>
  /\ s.run = worker[w].run /\ s.pc = "scan" /\ s.count = worker[w].count + 1
  /\ Pending(w, s)

LEMMA Records ==
  /\ Idle \in Session /\ NoRun \in Run /\ NilRow \in Row /\ NoFindings \in [active: Nat, closed: Nat]
  /\ Zero \in [RowIds -> Nat]
<1>1. Zero \in [RowIds -> Nat]
  BY DEF Zero
<1>2. 0 \in 0..MaxRuns /\ 0 \in Nat
  BY DiscoveryAssumption
<1>3. Idle \in Session
  BY <1>1, <1>2 DEF Idle, Session
<1>4. NoRun \in Run /\ NilRow \in Row
  BY <1>2 DEF NoRun, NilRow, Run, Row, RunStatus, RowState
<1> QED BY <1>1, <1>2, <1>3, <1>4 DEF NoFindings

LEMMA EntryFp ==
  ASSUME NEW it \in Item PROVE FpOf[it[2]] \in Fps /\ it[2] \in CrtIds
BY DiscoveryAssumption DEF Item

\* Drop changes what is left to do, and nothing else.
LEMMA DropKeeps ==
  ASSUME NEW s \in Session, NEW it \in Item
  PROVE  /\ Drop(s, it) \in Session
         /\ Drop(s, it).pc = s.pc /\ Drop(s, it).run = s.run /\ Drop(s, it).count = s.count
         /\ Drop(s, it).finds = s.finds /\ Drop(s, it).sentfinds = s.sentfinds
         /\ Drop(s, it).touched = s.touched /\ Drop(s, it).skip = s.skip
BY DEF Drop, Session

LEMMA FlushedSession ==
  ASSUME NEW s \in Session
  PROVE  /\ Flushed(s) \in Session
         /\ Flushed(s).pc = s.pc /\ Flushed(s).run = s.run /\ Flushed(s).count = s.count
         /\ Flushed(s).finds = Zero
         /\ Flushed(s).sentfinds = [i \in RowIds |-> s.sentfinds[i] + s.finds[i]]
<1>1. s.finds \in [RowIds -> Nat] /\ s.sentfinds \in [RowIds -> Nat]
  BY DEF Session
<1>2. [i \in RowIds |-> s.sentfinds[i] + s.finds[i]] \in [RowIds -> Nat]
  BY <1>1
<1> QED BY <1>2, Records DEF Flushed, Session

LEMMA ObservedSession ==
  ASSUME NEW s \in Session, NEW id \in CrtIds, NEW i \in RowIds, NEW new \in BOOLEAN
  PROVE  /\ Observed(s, id, i, new) \in Session
         /\ Observed(s, id, i, new).pc = s.pc /\ Observed(s, id, i, new).run = s.run
         /\ Observed(s, id, i, new).count = s.count
         /\ Observed(s, id, i, new).sentfinds = s.sentfinds
         /\ \A j \in RowIds: \/ Observed(s, id, i, new).finds[j] = s.finds[j]
                             \/ j = i /\ find[i].active + s.sentfinds[i] = 0
<1> DEFINE o == [id |-> id, cert |-> i]
           seen == [s EXCEPT !.obs = s.obs \cup {o},
                             !.twice = s.twice \/ id \in {x.id: x \in s.obs \cup s.sentobs},
                             !.touched = s.touched \cup {i}]
           more == [seen EXCEPT !.finds[i] = s.finds[i] + 1]
<1>1. o \in Observation
  BY DEF Observation
<1>2. (s.twice \/ id \in {x.id: x \in s.obs \cup s.sentobs}) \in BOOLEAN
  OBVIOUS
<1>3. s.obs \cup {o} \in SUBSET Observation /\ s.touched \cup {i} \in SUBSET RowIds
  BY <1>1 DEF Session
<1> HIDE DEF o
<1>4. /\ seen \in Session /\ seen.pc = s.pc /\ seen.run = s.run /\ seen.count = s.count
      /\ seen.sentfinds = s.sentfinds /\ seen.finds = s.finds
  BY <1>2, <1>3 DEF Session
<1> HIDE DEF seen
<1>5. s.finds \in [RowIds -> Nat]
  BY DEF Session
<1>6. [seen.finds EXCEPT ![i] = s.finds[i] + 1] \in [RowIds -> Nat]
  BY <1>4, <1>5
<1>7. /\ more \in Session /\ more.pc = s.pc /\ more.run = s.run /\ more.count = s.count
      /\ more.sentfinds = s.sentfinds /\ more.finds = [seen.finds EXCEPT ![i] = s.finds[i] + 1]
  BY <1>4, <1>6 DEF Session
<1>8. \A j \in RowIds: j # i => more.finds[j] = s.finds[j]
  BY <1>4, <1>5, <1>7
<1> HIDE DEF more
<1>9. Observed(s, id, i, new) = IF (new \/ FpOf[id] \in Suspicious) /\ find[i].active + s.sentfinds[i] = 0
                               THEN more ELSE seen
  BY DEF Observed, more, seen, o
<1> QED BY <1>4, <1>7, <1>8, <1>9

LEMMA ScanSession ==
  ASSUME Base, NEW w \in Workers, worker[w].pc = "scan"
  PROVE  worker[w] \in Session /\ worker[w].run # 0 /\ worker[w].run \in RunIds
BY DiscoveryAssumption DEF Base, TypeOK, SessionInv, SessionOK, RunIds, Session

\* A session that goes on scanning, with new findings where it may
LEMMA GoesOn ==
  ASSUME Base, NEW w \in Workers, worker[w].pc = "scan", NEW s \in Session,
         s.pc = "scan", s.run = worker[w].run, s.count = worker[w].count, Pending(w, s),
         worker' = [worker EXCEPT ![w] = s],
         UNCHANGED <<run, nrun, row, nrow, ignored, obs, find, reader>>
  PROVE  Quiet(w, s)
BY ScanSession DEF Quiet, Busy

LEMMA SameFindings ==
  ASSUME NEW w, NEW s, s.finds = worker[w].finds, s.sentfinds = worker[w].sentfinds
  PROVE  Pending(w, s)
BY DEF Pending

\* A flush that fails leaves the session failing, and nothing else.
LEMMA FailedFlush ==
  ASSUME Base, NEW w \in Workers, worker[w].pc = "scan", ~CanFlush(w), NEW fp, NEW s,
         InsertRow(w, fp, s), UNCHANGED <<run, nrun, ignored, obs, find, reader>>
  PROVE  \E t: Quiet(w, t)
<1> DEFINE t == [worker[w] EXCEPT !.pc = "failing"]
<1>1. worker[w] \in Session /\ worker[w].run # 0
  BY ScanSession
<1>2. /\ t \in Session /\ t.pc = "failing" /\ t.run = worker[w].run /\ t.count = worker[w].count
      /\ t.finds = worker[w].finds /\ t.sentfinds = worker[w].sentfinds
  BY <1>1 DEF Session
<1>3. worker' = [worker EXCEPT ![w] = t] /\ UNCHANGED <<row, nrow>>
  BY DEF InsertRow, Base, TypeOK
<1> HIDE DEF t
<1>4. Pending(w, t)
  BY <1>2, SameFindings
<1>5. Quiet(w, t)
  BY <1>1, <1>2, <1>3, <1>4 DEF Quiet, Busy
<1> QED BY <1>5

\* Session s after a flush of what w wrote: Pending, whatever it adds to findings.
LEMMA FlushPending ==
  ASSUME NEW w \in Workers, worker[w] \in Session, NEW s, NEW t,
         s.finds = worker[w].finds, s.sentfinds = worker[w].sentfinds,
         t.sentfinds = [i \in RowIds |-> s.sentfinds[i] + s.finds[i]],
         \A j \in RowIds: t.finds[j] = 0 \/ find[j].active = 0
  PROVE  Pending(w, t)
<1>1. worker[w].finds \in [RowIds -> Nat] /\ worker[w].sentfinds \in [RowIds -> Nat]
  BY DEF Session
<1>2. \A j \in RowIds: t.sentfinds[j] # 0 => worker[w].finds[j] # 0 \/ worker[w].sentfinds[j] # 0
  BY <1>1
<1> QED BY <1>2 DEF Pending

LEMMA SkippedEffect ==
  ASSUME Base, NEW w \in Workers, NEW it \in Item, ItemSkipped(w, it)
  PROVE  \E s: Quiet(w, s)
<1> DEFINE d == Drop(worker[w], it)
<1>1. worker[w].pc = "scan" /\ worker[w] \in Session
  BY ScanSession DEF ItemSkipped
<1>2. /\ d \in Session /\ d.pc = "scan" /\ d.run = worker[w].run /\ d.count = worker[w].count
      /\ d.finds = worker[w].finds /\ d.sentfinds = worker[w].sentfinds
  BY <1>1, DropKeeps
<1>3. /\ worker' = [worker EXCEPT ![w] = d]
      /\ UNCHANGED <<run, nrun, row, nrow, ignored, obs, find, reader>>
  BY DEF ItemSkipped
<1> HIDE DEF d
<1>4. Quiet(w, d)
  BY <1>1, <1>2, <1>3, GoesOn, SameFindings
<1> QED BY <1>4

LEMMA FileEffect ==
  ASSUME Base, NEW w \in Workers, NEW it \in Item, FileFound(w, it)
  PROVE  \E s: Quiet(w, s)
<1> DEFINE fp == FpOf[it[2]]
           d == Drop(worker[w], it)
           t == [d EXCEPT !.pc = "import", !.hit = fp]
<1>1. worker[w].pc = "scan" /\ worker[w] \in Session /\ worker[w].run # 0
  BY ScanSession DEF FileFound
<1>2. fp \in Fps
  BY EntryFp
<1>3. /\ d \in Session /\ d.pc = "scan" /\ d.run = worker[w].run /\ d.count = worker[w].count
      /\ d.finds = worker[w].finds /\ d.sentfinds = worker[w].sentfinds
  BY <1>1, DropKeeps
<1>4. /\ worker' = [worker EXCEPT ![w] = IF fp \in worker[w].skip \/ Visible(w, fp) # {} THEN d ELSE t]
      /\ UNCHANGED <<run, nrun, row, nrow, ignored, obs, find, reader>>
      /\ run[worker[w].run].kind = "files"
  BY DEF FileFound
<1> HIDE DEF d, fp
<1>5. CASE fp \in worker[w].skip \/ Visible(w, fp) # {}
  <2>1. Quiet(w, d)
    BY <1>1, <1>3, <1>4, <1>5, GoesOn, SameFindings
  <2> QED BY <2>1
<1>6. CASE ~(fp \in worker[w].skip \/ Visible(w, fp) # {})
  <2>1. /\ t \in Session /\ t.pc = "import" /\ t.hit = fp /\ t.run = worker[w].run
        /\ t.count = worker[w].count
        /\ t.finds = worker[w].finds /\ t.sentfinds = worker[w].sentfinds
    BY <1>2, <1>3 DEF Session
  <2>2. worker' = [worker EXCEPT ![w] = t] /\ Visible(w, fp) = {}
    BY <1>4, <1>6
  <2> HIDE DEF t
  <2>3. Pending(w, t)
    BY <2>1, SameFindings
  <2>4. Quiet(w, t)
    BY <1>1, <1>2, <1>4, <2>1, <2>2, <2>3 DEF Quiet
  <2> QED BY <2>4
<1> QED BY <1>5, <1>6

LEMMA UploadEffect ==
  ASSUME Base, NEW w \in Workers, NEW fp \in Fps, UploadFound(w, fp)
  PROVE  \E s: Quiet(w, s)
<1> DEFINE t == [Idle EXCEPT !.pc = "import", !.hit = fp]
<1>1. worker[w].pc = "idle" /\ worker[w].run = 0
  BY DEF UploadFound, Base, SessionInv, SessionOK
<1>2. t \in Session /\ t.pc = "import" /\ t.hit = fp /\ t.run = 0 /\ t.finds = Zero /\ t.sentfinds = Zero
  BY Records DEF Session, Idle
<1>3. /\ worker' = [worker EXCEPT ![w] = t] /\ Visible(w, fp) = {}
      /\ UNCHANGED <<run, nrun, row, nrow, ignored, obs, find, reader>>
  BY DEF UploadFound
<1> HIDE DEF t
<1>4. Pending(w, t)
  BY <1>2 DEF Pending, Zero
<1>5. Quiet(w, t)
  BY <1>1, <1>2, <1>3, <1>4 DEF Quiet
<1> QED BY <1>5

LEMMA RejectedEffect ==
  ASSUME Base, NEW w \in Workers, ImportRejected(w)
  PROVE  \E s: Quiet(w, s)
<1>1. /\ worker[w].pc = "import" /\ worker[w] \in Session
      /\ UNCHANGED <<run, nrun, row, nrow, ignored, obs, find, reader>>
      /\ worker' = [worker EXCEPT ![w] = IF worker[w].run = 0 THEN Idle
                                         ELSE [worker[w] EXCEPT !.pc = "scan", !.hit = NoFp]]
  BY DEF ImportRejected, Base, TypeOK
<1>2. CASE worker[w].run = 0
  <2>1. Idle \in Session /\ Idle.run = 0 /\ Idle.pc = "idle" /\ Idle.finds = Zero /\ Idle.sentfinds = Zero
    BY Records DEF Idle
  <2>2. Pending(w, Idle)
    BY <2>1 DEF Pending, Zero
  <2>3. Quiet(w, Idle)
    BY <1>1, <1>2, <2>1, <2>2 DEF Quiet
  <2> QED BY <2>3
<1>3. CASE worker[w].run # 0
  <2> DEFINE t == [worker[w] EXCEPT !.pc = "scan", !.hit = NoFp]
  <2>1. /\ t \in Session /\ t.pc = "scan" /\ t.run = worker[w].run /\ t.count = worker[w].count
        /\ t.finds = worker[w].finds /\ t.sentfinds = worker[w].sentfinds
    BY <1>1 DEF Session
  <2>2. worker' = [worker EXCEPT ![w] = t]
    BY <1>1, <1>3
  <2> HIDE DEF t
  <2>3. Quiet(w, t)
    BY <1>1, <1>3, <2>1, <2>2, SameFindings DEF Quiet, Busy
  <2> QED BY <2>3
<1> QED BY <1>2, <1>3

LEMMA KnownEffect ==
  ASSUME Base, NEW w \in Workers, NEW it \in Item, KnownEntry(w, it)
  PROVE  \E s: Quiet(w, s)
<1> DEFINE d == Drop(worker[w], it)
           more == worker[w].touched \cup {o.cert: o \in {p \in obs: p.id = it[2]}}
           t == [d EXCEPT !.touched = more]
<1>1. worker[w].pc = "scan" /\ worker[w] \in Session /\ worker[w].run # 0
  BY ScanSession DEF KnownEntry
<1>2. /\ d \in Session /\ d.pc = "scan" /\ d.run = worker[w].run /\ d.count = worker[w].count
      /\ d.finds = worker[w].finds /\ d.sentfinds = worker[w].sentfinds
  BY <1>1, DropKeeps
<1>3. more \in SUBSET RowIds
  BY <1>1 DEF Session, Base, TypeOK, Observation
<1>4. /\ worker' = [worker EXCEPT ![w] = t]
      /\ UNCHANGED <<run, nrun, row, nrow, ignored, obs, find, reader>>
  BY DEF KnownEntry
<1> HIDE DEF d, more
<1>5. /\ t \in Session /\ t.pc = "scan" /\ t.run = worker[w].run /\ t.count = worker[w].count
      /\ t.finds = worker[w].finds /\ t.sentfinds = worker[w].sentfinds
  BY <1>2, <1>3 DEF Session
<1> HIDE DEF t
<1>6. Quiet(w, t)
  BY <1>1, <1>4, <1>5, GoesOn, SameFindings
<1> QED BY <1>6

LEMMA SightEffect ==
  ASSUME Base, NEW w \in Workers, NEW it \in Item, SightCertificate(w, it)
  PROVE  \E s: Quiet(w, s) \/ \E fp: Insert(w, s, fp)
<1> DEFINE fp == FpOf[it[2]]
           d == Drop(worker[w], it)
<1>1. worker[w].pc = "scan" /\ worker[w] \in Session /\ worker[w].run # 0
  BY ScanSession DEF SightCertificate
<1>2. /\ d \in Session /\ d.pc = "scan" /\ d.run = worker[w].run /\ d.count = worker[w].count
      /\ d.finds = worker[w].finds /\ d.sentfinds = worker[w].sentfinds
  BY <1>1, DropKeeps
<1>3. /\ \/ worker' = [worker EXCEPT ![w] = d] /\ UNCHANGED <<row, nrow>>
         \/ /\ Visible(w, fp) = {}
            /\ InsertRow(w, fp, [Flushed(d) EXCEPT !.count = d.count + 1, !.touched = {nrow + 1}])
         \/ \E i \in Visible(w, fp):
              /\ worker' = [worker EXCEPT ![w] = [d EXCEPT !.touched = d.touched \cup {i}]]
              /\ UNCHANGED <<row, nrow>>
      /\ UNCHANGED <<run, nrun, ignored, obs, find, reader>>
      /\ run[worker[w].run].kind # "files"
  BY DEF SightCertificate
<1>4. fp \in Fps
  BY EntryFp
<1> HIDE DEF d, fp
<1>5. CASE worker' = [worker EXCEPT ![w] = d] /\ UNCHANGED <<row, nrow>>
  <2>1. Quiet(w, d)
    BY <1>1, <1>2, <1>3, <1>5, GoesOn, SameFindings
  <2> QED BY <2>1
<1>6. CASE /\ Visible(w, fp) = {}
           /\ InsertRow(w, fp, [Flushed(d) EXCEPT !.count = d.count + 1, !.touched = {nrow + 1}])
  <2> DEFINE t == [Flushed(d) EXCEPT !.count = d.count + 1, !.touched = {nrow + 1}]
  <2>1. CASE CanFlush(w)
    <3>1. nrow < MaxRows /\ nrow + 1 \in RowIds
      BY <1>6, <2>1, DiscoveryAssumption DEF InsertRow, Base, TypeOK, RowIds
    <3>2. d.count + 1 \in Nat
      BY <1>2 DEF Session
    <3>3. Flushed(d) \in Session
      BY <1>2, FlushedSession
    <3>4. /\ t \in Session /\ t.pc = Flushed(d).pc /\ t.run = Flushed(d).run /\ t.count = d.count + 1
          /\ t.finds = Flushed(d).finds /\ t.sentfinds = Flushed(d).sentfinds
      BY <3>1, <3>2, <3>3 DEF Session
    <3>5. InsertRow(w, fp, t)
      BY <1>6
    <3> HIDE DEF t
    <3>6. /\ t.pc = "scan" /\ t.run = worker[w].run /\ t.count = worker[w].count + 1
          /\ t.finds = Zero /\ t.sentfinds = [i \in RowIds |-> d.sentfinds[i] + d.finds[i]]
      BY <1>2, <3>4, FlushedSession
    <3>7. Pending(w, t)
      <4>1. \A j \in RowIds: t.finds[j] = 0
        BY <3>6 DEF Zero
      <4> QED BY <1>1, <1>2, <3>6, <4>1, FlushPending
    <3>8. Insert(w, t, fp)
      BY <1>1, <1>3, <1>4, <1>6, <2>1, <3>4, <3>5, <3>6, <3>7 DEF Insert, InsertRow
    <3> QED BY <3>8
  <2>2. CASE ~CanFlush(w)
    BY <1>1, <1>3, <1>6, <2>2, FailedFlush
  <2> QED BY <2>1, <2>2
<1>7. CASE \E i \in Visible(w, fp):
             /\ worker' = [worker EXCEPT ![w] = [d EXCEPT !.touched = d.touched \cup {i}]]
             /\ UNCHANGED <<row, nrow>>
  <2>1. PICK i \in Visible(w, fp):
             /\ worker' = [worker EXCEPT ![w] = [d EXCEPT !.touched = d.touched \cup {i}]]
             /\ UNCHANGED <<row, nrow>>
    BY <1>7
  <2> DEFINE t == [d EXCEPT !.touched = d.touched \cup {i}]
  <2>2. d.touched \cup {i} \in SUBSET RowIds
    BY <1>2 DEF Session, Visible, Live, Sent
  <2>3. /\ t \in Session /\ t.pc = "scan" /\ t.run = worker[w].run /\ t.count = worker[w].count
        /\ t.finds = worker[w].finds /\ t.sentfinds = worker[w].sentfinds
    BY <1>2, <2>2 DEF Session
  <2>4. worker' = [worker EXCEPT ![w] = t]
    BY <2>1
  <2> HIDE DEF t
  <2>5. Quiet(w, t)
    BY <1>1, <1>3, <2>1, <2>3, <2>4, GoesOn, SameFindings
  <2> QED BY <2>5
<1> QED BY <1>3, <1>5, <1>6, <1>7

LEMMA EntryEffect ==
  ASSUME Base, NEW w \in Workers, NEW it \in Item, NewEntry(w, it)
  PROVE  \E s: Quiet(w, s) \/ \E fp: Insert(w, s, fp)
<1> DEFINE fp == FpOf[it[2]]
           d == Drop(worker[w], it)
           f == [Flushed(d) EXCEPT !.count = d.count + 1]
<1>1. worker[w].pc = "scan" /\ worker[w] \in Session /\ worker[w].run # 0
  BY ScanSession DEF NewEntry
<1>2. /\ d \in Session /\ d.pc = "scan" /\ d.run = worker[w].run /\ d.count = worker[w].count
      /\ d.finds = worker[w].finds /\ d.sentfinds = worker[w].sentfinds
  BY <1>1, DropKeeps
<1>3. /\ \/ worker' = [worker EXCEPT ![w] = d] /\ UNCHANGED <<row, nrow>>
         \/ \E i \in Visible(w, fp):
              /\ worker' = [worker EXCEPT ![w] = Observed(d, it[2], i, FALSE)]
              /\ UNCHANGED <<row, nrow>>
         \/ Visible(w, fp) = {} /\ InsertRow(w, fp, Observed(f, it[2], nrow + 1, TRUE))
      /\ UNCHANGED <<run, nrun, ignored, obs, find, reader>>
      /\ run[worker[w].run].kind # "files"
  BY DEF NewEntry
<1>4. fp \in Fps /\ it[2] \in CrtIds
  BY EntryFp
<1>5. find \in [RowIds -> [active: Nat, closed: Nat]]
  BY DEF Base, TypeOK
<1> HIDE DEF d, fp, f
<1>6. CASE worker' = [worker EXCEPT ![w] = d] /\ UNCHANGED <<row, nrow>>
  <2>1. Quiet(w, d)
    BY <1>1, <1>2, <1>3, <1>6, GoesOn, SameFindings
  <2> QED BY <2>1
<1>7. CASE \E i \in Visible(w, fp):
             /\ worker' = [worker EXCEPT ![w] = Observed(d, it[2], i, FALSE)]
             /\ UNCHANGED <<row, nrow>>
  <2>1. PICK i \in Visible(w, fp):
             /\ worker' = [worker EXCEPT ![w] = Observed(d, it[2], i, FALSE)]
             /\ UNCHANGED <<row, nrow>>
    BY <1>7
  <2> DEFINE t == Observed(d, it[2], i, FALSE)
  <2>2. i \in RowIds
    BY DEF Visible, Live, Sent
  <2>3. /\ t \in Session /\ t.pc = "scan" /\ t.run = worker[w].run /\ t.count = worker[w].count
        /\ t.sentfinds = worker[w].sentfinds
        /\ \A j \in RowIds: \/ t.finds[j] = worker[w].finds[j]
                            \/ j = i /\ find[i].active + worker[w].sentfinds[i] = 0
    <3>1. FALSE \in BOOLEAN
      OBVIOUS
    <3>2. /\ t \in Session /\ t.pc = d.pc /\ t.run = d.run /\ t.count = d.count
          /\ t.sentfinds = d.sentfinds
          /\ \A j \in RowIds: \/ t.finds[j] = d.finds[j]
                              \/ j = i /\ find[i].active + d.sentfinds[i] = 0
      BY <1>2, <1>4, <2>2, <3>1, ObservedSession
    <3> HIDE DEF t
    <3> QED BY <1>2, <3>2
  <2>4. worker' = [worker EXCEPT ![w] = t]
    BY <2>1
  <2> HIDE DEF t
  <2>5. find[i].active + worker[w].sentfinds[i] = 0 => find[i].active = 0
    BY <1>1, <1>5, <2>2 DEF Session
  <2>6. Pending(w, t)
    BY <2>3, <2>5 DEF Pending
  <2>7. Quiet(w, t)
    BY <1>1, <1>3, <2>1, <2>3, <2>4, <2>6, GoesOn
  <2> QED BY <2>7
<1>8. CASE Visible(w, fp) = {} /\ InsertRow(w, fp, Observed(f, it[2], nrow + 1, TRUE))
  <2> DEFINE t == Observed(f, it[2], nrow + 1, TRUE)
  <2>1. CASE CanFlush(w)
    <3>1. nrow < MaxRows /\ nrow + 1 \in RowIds
      BY <1>8, <2>1, DiscoveryAssumption DEF InsertRow, Base, TypeOK, RowIds
    <3>2. d.count + 1 \in Nat
      BY <1>2 DEF Session
    <3>3. Flushed(d) \in Session
      BY <1>2, FlushedSession
    <3>4. /\ f \in Session /\ f.pc = Flushed(d).pc /\ f.run = Flushed(d).run /\ f.count = d.count + 1
          /\ f.finds = Flushed(d).finds /\ f.sentfinds = Flushed(d).sentfinds
      BY <3>2, <3>3 DEF Session, f
    <3>5. InsertRow(w, fp, t)
      BY <1>8
    <3>6. /\ f.pc = "scan" /\ f.run = worker[w].run /\ f.count = worker[w].count + 1
          /\ f.finds = Zero /\ f.sentfinds = [i \in RowIds |-> d.sentfinds[i] + d.finds[i]]
      BY <1>2, <3>4, FlushedSession
    <3>7. TRUE \in BOOLEAN
      OBVIOUS
    <3>8. /\ t \in Session /\ t.pc = f.pc /\ t.run = f.run /\ t.count = f.count
          /\ t.sentfinds = f.sentfinds
          /\ \A j \in RowIds: \/ t.finds[j] = f.finds[j]
                              \/ j = nrow + 1 /\ find[nrow + 1].active + f.sentfinds[nrow + 1] = 0
      BY <1>4, <3>1, <3>4, <3>7, ObservedSession
    <3> HIDE DEF t
    <3>9. find[nrow + 1].active + f.sentfinds[nrow + 1] = 0 => find[nrow + 1].active = 0
      BY <1>5, <3>1, <3>4 DEF Session
    <3>10. Pending(w, t)
      <4>1. \A j \in RowIds: t.finds[j] = 0 \/ find[j].active = 0
        BY <3>6, <3>8, <3>9 DEF Zero
      <4>2. t.sentfinds = [i \in RowIds |-> d.sentfinds[i] + d.finds[i]]
        BY <3>6, <3>8
      <4> QED BY <1>1, <1>2, <4>1, <4>2, FlushPending
    <3>11. Insert(w, t, fp)
      BY <1>1, <1>3, <1>4, <1>8, <2>1, <3>5, <3>6, <3>8, <3>10 DEF Insert, InsertRow
    <3> QED BY <3>11
  <2>2. CASE ~CanFlush(w)
    BY <1>1, <1>3, <1>8, <2>2, FailedFlush
  <2> QED BY <2>1, <2>2
<1> QED BY <1>3, <1>6, <1>7, <1>8

\* The steps of a scan over what it found, and of an upload
LEMMA ItemEffect ==
  ASSUME Base, NEW w \in Workers,
         \/ \E it \in Item: \/ ItemSkipped(w, it) \/ FileFound(w, it) \/ SightCertificate(w, it)
                            \/ KnownEntry(w, it) \/ NewEntry(w, it)
         \/ ImportRejected(w)
         \/ \E fp \in Fps: UploadFound(w, fp)
  PROVE  \E s: Quiet(w, s) \/ \E fp: Insert(w, s, fp)
BY SkippedEffect, FileEffect, SightEffect, KnownEffect, EntryEffect, RejectedEffect, UploadEffect

----------------------------------------------------------------------------
(* To whom runs and rows belong, and what is counted *)

LEMMA Finite ==
  ASSUME NEW S, S \subseteq RowIds
  PROVE  IsFiniteSet(S) /\ Cardinality(S) \in Nat
<1>1. IsFiniteSet(RowIds)
  BY FS_Interval, DiscoveryAssumption DEF RowIds
<1>2. IsFiniteSet(S)
  BY <1>1, FS_Subset
<1> QED BY <1>2, FS_CardinalityType

\* A new row is one more.
LEMMA OneMore ==
  ASSUME NEW S, S \subseteq RowIds, NEW x, x \notin S
  PROVE  Cardinality(S \cup {x}) = Cardinality(S) + 1
BY Finite, FS_AddElement

LEMMA QuietStep ==
  ASSUME Base, CountInv, NEW w \in Workers, NEW s, Quiet(w, s)
  PROVE  Base' /\ CountInv'
<1>1. TypeOK /\ RowInv /\ SessionInv /\ RunInv
  BY DEF Base
<1>2. UNCHANGED <<run, nrun, row, nrow, ignored, obs, find, reader>>
  BY DEF Quiet
<1>3. worker'[w] = s /\ \A v \in Workers: v # w => worker'[v] = worker[v]
  BY <1>1 DEF Quiet, TypeOK
<1>4. worker' \in [Workers -> Session]
  BY <1>1 DEF Quiet, TypeOK
<1>5. \A v \in Workers: worker'[v].run = worker[v].run
  BY <1>3 DEF Quiet
<1>6. TypeOK'
  BY <1>1, <1>2, <1>4 DEF TypeOK
<1>7. ASSUME NEW i \in RowIds PROVE RowOK(i)'
  <2>1. ASSUME row[i].state = "sent", NEW v \in Workers, worker[v].run = row[i].run,
               worker[v].pc \in {"scan", "failing"}
        PROVE  worker'[v].pc \in {"scan", "failing"}
    BY <1>1, <1>3, <2>1 DEF Quiet, RowInv, RowOK
  <2> QED BY <1>1, <1>2, <1>5, <2>1 DEF RowInv, RowOK
<1>8. ASSUME NEW v \in Workers PROVE SessionOK(v)'
  <2>1. SessionOK(v)
    BY <1>1 DEF SessionInv
  <2>2. CASE v # w
    BY <1>2, <1>3, <1>5, <2>1, <2>2 DEF SessionOK
  <2>3. CASE v = w
    BY <1>2, <1>3, <1>5, <2>1, <2>3 DEF SessionOK, Quiet
  <2> QED BY <2>2, <2>3
<1>9. ASSUME NEW r \in RunIds PROVE RunOK(r)'
  <2>1. run[r].status = "completed" /\ worker[w].run = r => worker'[w].pc = "record"
    BY <1>1, <1>3 DEF RunInv, RunOK, Quiet, Busy, RunIds
  <2> QED BY <1>1, <1>2, <1>3, <1>5, <2>1 DEF RunInv, RunOK
<1>10. Base'
  BY <1>1, <1>2, <1>6, <1>7, <1>8, <1>9 DEF Base, RowInv, SessionInv, RunInv
<1>11. \A r: AddedBy(r)' = AddedBy(r)
  BY <1>2 DEF AddedBy
<1>12. \A v \in Workers: Sent(v)' = Sent(v)
  BY <1>2, <1>5 DEF Sent
<1>13. CountIsRight'
  BY <1>2, <1>11 DEF CountInv, CountIsRight
<1>14. ASSUME NEW v \in Workers PROVE CountOK(v)'
  <2>1. \A r: r = worker[v].run => AddedBy(worker[v].run)' = AddedBy(r)
    BY <1>5, <1>11
  <2>2. worker'[v].pc \in Busy /\ worker'[v].run # 0 =>
          worker[v].pc \in Busy /\ worker'[v].count = worker[v].count
    BY <1>3 DEF Quiet, Busy
  <2> QED BY <1>2, <1>5, <1>12, <2>1, <2>2 DEF CountInv, CountOK
<1> QED BY <1>10, <1>13, <1>14 DEF CountInv

LEMMA InsertStep ==
  ASSUME Base, CountInv, NEW w \in Workers, NEW s, NEW fp, Insert(w, s, fp)
  PROVE  Base' /\ CountInv'
<1>1. TypeOK /\ RowInv /\ SessionInv /\ RunInv
  BY DEF Base
<1> DEFINE x == nrow + 1
           R == worker[w].run
           new == [fp |-> fp, state |-> "sent", run |-> R]
<1>2. UNCHANGED <<run, nrun, ignored, obs, find, reader>> /\ nrow' = x /\ nrow \in Nat
  BY <1>1 DEF Insert, TypeOK
<1>3. x \in RowIds /\ nrow' \in 0..MaxRows
  BY <1>1, DiscoveryAssumption DEF Insert, TypeOK, RowIds
<1>4. R # 0 /\ R \in RunIds /\ R <= nrun /\ run[R].kind # "files"
  BY <1>1, ScanSession DEF Insert, SessionInv, SessionOK
<1>5. new \in Row
  BY <1>4, DiscoveryAssumption DEF Row, RowState, RunIds, Insert
<1>6. row' = [row EXCEPT ![x] = new]
  BY DEF Insert
<1>7. row' \in [RowIds -> Row] /\ row'[x] = new /\ \A i \in RowIds: i # x => row'[i] = row[i]
  BY <1>1, <1>3, <1>5, <1>6 DEF TypeOK
<1>8. worker'[w] = s /\ \A v \in Workers: v # w => worker'[v] = worker[v]
  BY <1>1 DEF Insert, TypeOK
<1>9. worker' \in [Workers -> Session]
  BY <1>1 DEF Insert, TypeOK
<1>10. \A v \in Workers: worker'[v].run = worker[v].run /\ worker'[v].pc = worker[v].pc
  BY <1>8 DEF Insert
<1>11. new.state = "sent" /\ new.run = R /\ new.fp \in Fps
  BY DEF Insert
<1>12. row[x].state = "nil"
  BY <1>1, <1>2, <1>3 DEF RowInv, RowOK
<1> HIDE DEF x, new, R
<1>13. TypeOK'
  BY <1>1, <1>2, <1>3, <1>7, <1>9 DEF TypeOK
<1>14. ASSUME NEW i \in RowIds PROVE RowOK(i)'
  <2>1. CASE i = x
    <3>1. row'[i].run = R /\ row'[i].state = "sent" /\ row'[i].fp \in Fps /\ ~(i > nrow')
      BY <1>2, <1>3, <1>7, <1>11, <2>1 DEF RowIds
    <3>2. worker'[w].run = R /\ worker'[w].pc = "scan"
      BY <1>10 DEF R, Insert
    <3> QED BY <1>2, <1>4, <3>1, <3>2 DEF RowOK
  <2>2. CASE i # x
    <3>1. i > nrow' => i > nrow
      BY <1>2 DEF RowIds, x
    <3> QED BY <1>1, <1>2, <1>7, <1>10, <2>2, <3>1 DEF RowInv, RowOK
  <2> QED BY <2>1, <2>2
<1>15. ASSUME NEW v \in Workers PROVE SessionOK(v)'
  <2>1. worker[v].pc = "import" => v # w
    BY DEF Insert
  <2> QED BY <1>1, <1>2, <1>8, <1>10, <2>1 DEF SessionInv, SessionOK
<1>16. RunInv'
  BY <1>1, <1>2, <1>10 DEF RunInv, RunOK
<1>17. Base'
  BY <1>13, <1>14, <1>15, <1>16 DEF Base, RowInv, SessionInv
<1>18. \A r: AddedBy(r)' = AddedBy(r)
  BY <1>7, <1>11, <1>12 DEF AddedBy
<1>19. Sent(w)' = Sent(w) \cup {x} /\ x \notin Sent(w)
  BY <1>3, <1>7, <1>10, <1>11, <1>12 DEF Sent, R
<1>20. \A v \in Workers: v # w => Sent(v)' = Sent(v)
  <2>1. ASSUME NEW v \in Workers, v # w PROVE worker[v].run # R
    BY <1>1, <1>4, <2>1 DEF SessionInv, SessionOK, R
  <2> QED BY <1>7, <1>10, <1>11, <1>12, <2>1 DEF Sent
<1>21. CountIsRight'
  BY <1>2, <1>18 DEF CountInv, CountIsRight
<1>22. ASSUME NEW v \in Workers PROVE CountOK(v)'
  <2>1. \A r: r = worker[v].run => AddedBy(worker[v].run)' = AddedBy(r)
    BY <1>10, <1>18
  <2>2. CASE v # w
    BY <1>2, <1>8, <1>20, <2>1, <2>2 DEF CountInv, CountOK
  <2>3. CASE v = w
    <3>1. Sent(w) \subseteq RowIds
      BY DEF Sent
    <3>2. Cardinality(Sent(w)') = Cardinality(Sent(w)) + 1
      BY <1>19, <3>1, OneMore
    <3>3. worker'[w].count = worker[w].count + 1
      BY <1>8 DEF Insert
    <3>4. worker[w].count = Cardinality(Sent(w)) /\ AddedBy(R) = {}
      BY <1>4 DEF CountInv, CountOK, Insert, Busy, R
    <3>5. run'[worker'[w].run].kind # "files"
      BY <1>2, <1>4, <1>10 DEF R
    <3>6. AddedBy(worker[w].run)' = {}
      BY <2>1, <2>3, <3>4 DEF R
    <3> QED BY <2>3, <3>2, <3>3, <3>4, <3>5, <3>6 DEF CountOK
  <2> QED BY <2>2, <2>3
<1> QED BY <1>17, <1>21, <1>22 DEF CountInv

LEMMA StartStep ==
  ASSUME Base, CountInv, NEW w \in Workers, NEW kind \in Kinds, NEW batch \in Batches,
         StartRun(w, kind, batch)
  PROVE  Base' /\ CountInv'
<1>1. TypeOK /\ RowInv /\ SessionInv /\ RunInv
  BY DEF Base
<1> DEFINE x == nrun + 1
           new == [NoRun EXCEPT !.kind = kind, !.status = "running"]
           skip == ignored \cup IF kind = "files" THEN {row[i].fp: i \in Live} ELSE {}
           known == IF kind = "ct" THEN {o.id: o \in obs} ELSE {}
           s == [Idle EXCEPT !.pc = "scan", !.run = x, !.todo = batch, !.skip = skip, !.known = known]
<1>2. /\ run' = [run EXCEPT ![x] = new] /\ worker' = [worker EXCEPT ![w] = s]
      /\ nrun' = x /\ nrun < MaxRuns /\ worker[w].pc = "idle"
      /\ UNCHANGED <<row, nrow, ignored, obs, find, reader>>
  BY DEF StartRun
<1>3. nrun \in Nat /\ x \in RunIds /\ x # 0 /\ x \in 0..MaxRuns
  BY <1>1, <1>2, DiscoveryAssumption DEF TypeOK, RunIds
<1>4. new \in Run /\ new.kind = kind /\ new.status = "running" /\ new.count = 0
  BY Records DEF Run, NoRun, RunStatus
<1>5. skip \subseteq Fps
  <2>1. \A i \in Live: row[i].fp \in Fps
    BY <1>1 DEF Live, RowInv, RowOK
  <2> QED BY <1>1, <2>1 DEF TypeOK
<1>6. known \subseteq CrtIds
  BY <1>1 DEF TypeOK, Observation
<1>7. batch \subseteq Item
  BY DiscoveryAssumption DEF Item
<1> HIDE DEF x, new, skip, known
<1>8. s \in Session /\ s.pc = "scan" /\ s.run = x /\ s.count = 0
  BY <1>3, <1>5, <1>6, <1>7, Records DEF Session, Idle
<1> HIDE DEF s
<1>9. run' \in [RunIds -> Run] /\ run'[x] = new /\ \A r \in RunIds: r # x => run'[r] = run[r]
  BY <1>1, <1>2, <1>3, <1>4 DEF TypeOK
<1>10. /\ worker' \in [Workers -> Session] /\ worker'[w] = s
       /\ \A v \in Workers: v # w => worker'[v] = worker[v]
  BY <1>1, <1>2, <1>8 DEF TypeOK
<1>11. TypeOK'
  BY <1>1, <1>2, <1>3, <1>9, <1>10 DEF TypeOK
<1>12. /\ \A i \in RowIds: row[i].run \in 0..MaxRuns /\ row[i].run <= nrun /\ row[i].run # x
       /\ \A v \in Workers: worker[v].run \in 0..MaxRuns /\ worker[v].run <= nrun /\ worker[v].run # x
  <2>1. \A i \in RowIds: row[i].run \in 0..MaxRuns /\ row[i].run <= nrun
    BY <1>1 DEF TypeOK, Row, RowInv, RowOK
  <2>2. \A v \in Workers: worker[v].run \in 0..MaxRuns /\ worker[v].run <= nrun
    BY <1>1 DEF TypeOK, Session, SessionInv, SessionOK
  <2> QED BY <1>3, <2>1, <2>2, DiscoveryAssumption DEF x
<1>13. nrun' >= nrun /\ \A n \in 0..MaxRuns: n <= nrun => n <= nrun'
  BY <1>2, <1>3, DiscoveryAssumption DEF x
<1>14. ASSUME NEW i \in RowIds PROVE RowOK(i)'
  <2>1. row[i].run # 0 => row[i].run \in RunIds
    BY <1>12, DiscoveryAssumption DEF RunIds
  <2>2. \A v \in Workers: worker[v].pc \in {"scan", "failing"} => v # w
    BY <1>2
  <2> QED BY <1>1, <1>2, <1>9, <1>10, <1>12, <1>13, <2>1, <2>2 DEF RowInv, RowOK
<1>15. ASSUME NEW v \in Workers PROVE SessionOK(v)'
  <2>1. CASE v = w
    <3>1. x <= nrun' /\ worker'[v].run = x /\ worker'[v].pc = "scan"
      BY <1>2, <1>3, <1>8, <1>10, <2>1
    <3>2. \A u \in Workers: worker'[u].run = x => u = w
      BY <1>10, <1>12
    <3> QED BY <1>3, <2>1, <3>1, <3>2 DEF SessionOK
  <2>2. CASE v # w
    <3>1. SessionOK(v) /\ worker'[v] = worker[v] /\ worker[v].run # x
      BY <1>1, <1>10, <1>12, <2>2 DEF SessionInv
    <3>2. worker[v].run # 0 => run'[worker[v].run] = run[worker[v].run]
      BY <1>9, <1>12, DiscoveryAssumption DEF RunIds
    <3>3. \A u \in Workers: worker'[u].run = worker[v].run /\ worker[v].run # 0 => u = v
      BY <1>8, <1>10, <3>1 DEF SessionOK
    <3> QED BY <1>12, <1>13, <3>1, <3>2, <3>3 DEF SessionOK
  <2> QED BY <2>1, <2>2
<1>16. ASSUME NEW r \in RunIds PROVE RunOK(r)'
  <2>1. CASE r = x
    BY <1>2, <1>3, <1>4, <1>9, <2>1 DEF RunOK
  <2>2. CASE r # x
    <3>1. r > nrun' => r > nrun
      BY <1>2, <1>3 DEF x, RunIds
    <3> QED BY <1>1, <1>8, <1>9, <1>10, <2>2, <3>1 DEF RunInv, RunOK
  <2> QED BY <2>1, <2>2
<1>17. Base'
  <2>1. \A q \in Readers: reader[q].run \in 0..MaxRuns /\ reader[q].run <= nrun
    BY <1>1 DEF TypeOK, RunInv
  <2>2. \A q \in Readers: reader'[q].run <= nrun'
    BY <1>2, <1>13, <2>1
  <2> QED BY <1>1, <1>2, <1>11, <1>14, <1>15, <1>16, <2>2 DEF Base, RowInv, SessionInv, RunInv
<1>18. /\ \A r: AddedBy(r)' = AddedBy(r)
       /\ AddedBy(x) = {} /\ Cardinality({}) = 0
  BY <1>2, <1>12, FS_EmptySet DEF AddedBy
<1>19. CountIsRight'
  <2>1. run'[x].count = 0 /\ run'[x].status # "completed" /\ 0 <= 0
    BY <1>4, <1>9
  <2>2. \A r: r = x => run'[r].count <= Cardinality(AddedBy(r)')
    BY <1>18, <2>1
  <2> QED BY <1>9, <1>18, <2>1, <2>2 DEF CountInv, CountIsRight
<1>20. ASSUME NEW v \in Workers PROVE CountOK(v)'
  <2>1. CASE v = w
    <3>1. AddedBy(worker[v].run)' = {}
      BY <1>8, <1>10, <1>18, <2>1
    <3>2. Sent(v)' = {}
      BY <1>2, <1>8, <1>10, <1>12, <2>1 DEF Sent
    <3>3. worker'[v].count = 0
      BY <1>8, <1>10, <2>1
    <3> QED BY <1>18, <3>1, <3>2, <3>3 DEF CountOK
  <2>2. CASE v # w
    <3>1. worker'[v] = worker[v]
      BY <1>10, <2>2
    <3>2. worker[v].run # 0 => run'[worker[v].run] = run[worker[v].run]
      BY <1>9, <1>12, DiscoveryAssumption DEF RunIds
    <3>3. AddedBy(worker[v].run)' = AddedBy(worker[v].run) /\ Sent(v)' = Sent(v)
      BY <1>2, <1>18, <3>1 DEF Sent
    <3> QED BY <3>1, <3>2, <3>3 DEF CountInv, CountOK
  <2> QED BY <2>1, <2>2
<1> QED BY <1>17, <1>19, <1>20 DEF CountInv

LEMMA ImportStep ==
  ASSUME Base, CountInv, NEW w \in Workers, ImportCommit(w)
  PROVE  Base' /\ CountInv'
<1>1. TypeOK /\ RowInv /\ SessionInv /\ RunInv
  BY DEF Base
<1> DEFINE x == nrow + 1
           s == worker[w]
           R == worker[w].run
           new == [fp |-> s.hit, state |-> "live", run |-> R]
           t == IF R = 0 THEN Idle
                ELSE [s EXCEPT !.pc = "scan", !.hit = NoFp, !.count = s.count + 1,
                               !.skip = s.skip \cup {s.hit}]
<1>2. /\ s.pc = "import" /\ nrow < MaxRows /\ nrow' = x
      /\ row' = [row EXCEPT ![x] = new] /\ worker' = [worker EXCEPT ![w] = t]
      /\ run' = IF R = 0 THEN run ELSE [run EXCEPT ![R].count = s.count]
      /\ UNCHANGED <<nrun, ignored, obs, find, reader>>
  BY DEF ImportCommit
<1>3. s \in Session /\ s.hit \in Fps /\ R \in 0..MaxRuns /\ R <= nrun /\ s.count \in Nat
  BY <1>1, <1>2 DEF TypeOK, Session, SessionInv, SessionOK
<1>4. R # 0 => R \in RunIds /\ run[R].kind = "files"
  BY <1>1, <1>2, <1>3, DiscoveryAssumption DEF SessionInv, SessionOK, RunIds
<1>5. nrow \in Nat /\ x \in RowIds /\ nrow' \in 0..MaxRows
  BY <1>1, <1>2, DiscoveryAssumption DEF TypeOK, RowIds
<1>6. new \in Row /\ new.state = "live" /\ new.run = R /\ new.fp \in Fps
  BY <1>3 DEF Row, RowState
<1>7. row[x].state = "nil"
  BY <1>1, <1>5 DEF RowInv, RowOK
<1>8. t \in Session /\ t.run = R /\ (R = 0 => t.pc = "idle")
      /\ (R # 0 => t.pc = "scan" /\ t.count = s.count + 1)
  <2>1. CASE R = 0
    BY <2>1, Records DEF Idle
  <2>2. CASE R # 0
    <3>1. s.count + 1 \in Nat /\ s.skip \cup {s.hit} \in SUBSET Fps
      BY <1>3 DEF Session
    <3> QED BY <1>3, <2>2, <3>1 DEF Session
  <2> QED BY <2>1, <2>2
<1> HIDE DEF x, new, t
<1>9. /\ row' \in [RowIds -> Row] /\ row'[x] = new /\ \A i \in RowIds: i # x => row'[i] = row[i]
  BY <1>1, <1>2, <1>5, <1>6 DEF TypeOK
<1>10. /\ worker' \in [Workers -> Session] /\ worker'[w] = t
       /\ \A v \in Workers: v # w => worker'[v] = worker[v]
  BY <1>1, <1>2, <1>8 DEF TypeOK
<1>11. /\ run' \in [RunIds -> Run]
       /\ \A r \in RunIds: /\ run'[r].kind = run[r].kind /\ run'[r].status = run[r].status
                           /\ r # R => run'[r] = run[r]
       /\ R # 0 => run'[R].count = s.count
  <2>1. run \in [RunIds -> Run]
    BY <1>1 DEF TypeOK
  <2>2. CASE R = 0
    BY <1>2, <2>1, <2>2
  <2>3. CASE R # 0
    <3>1. run' = [run EXCEPT ![R].count = s.count] /\ R \in RunIds
      BY <1>2, <1>4, <2>3
    <3>2. [run[R] EXCEPT !.count = s.count] \in Run
      BY <1>3, <2>1, <3>1 DEF Run
    <3> QED BY <1>3, <2>1, <3>1, <3>2 DEF Run
  <2> QED BY <2>2, <2>3
<1>12. TypeOK'
  BY <1>1, <1>2, <1>5, <1>9, <1>10, <1>11 DEF TypeOK
<1>13. \A i \in RowIds: row[i].run # 0 => row[i].run \in RunIds
  BY <1>1, DiscoveryAssumption DEF TypeOK, Row, RunIds
<1>14. \A v \in Workers: worker[v].run # 0 => worker[v].run \in RunIds
  BY <1>1, DiscoveryAssumption DEF TypeOK, Session, RunIds
<1>15. \A v \in Workers: worker'[v].run = worker[v].run
  BY <1>8, <1>10
<1>16. ASSUME NEW i \in RowIds PROVE RowOK(i)'
  <2>1. CASE i = x
    <3>1. ~(i > nrow') /\ row'[i].run = R /\ row'[i].state = "live" /\ row'[i].fp \in Fps
      BY <1>2, <1>5, <1>6, <1>9, <2>1 DEF RowIds
    <3> QED BY <1>2, <1>3, <3>1 DEF RowOK
  <2>2. CASE i # x
    <3>1. row'[i] = row[i] /\ (i > nrow' => i > nrow)
      BY <1>2, <1>5, <1>9, <2>2 DEF x, RowIds
    <3>2. \A v \in Workers: worker[v].pc \in {"scan", "failing"} => worker'[v] = worker[v]
      BY <1>2, <1>10
    <3> QED BY <1>1, <1>2, <1>11, <1>13, <3>1, <3>2 DEF RowInv, RowOK
  <2> QED BY <2>1, <2>2
<1>17. ASSUME NEW v \in Workers PROVE SessionOK(v)'
  <2>1. SessionOK(v)
    BY <1>1 DEF SessionInv
  <2>2. CASE v = w
    BY <1>2, <1>8, <1>10, <1>15, <2>1, <2>2 DEF SessionOK
  <2>3. CASE v # w
    BY <1>2, <1>10, <1>11, <1>14, <1>15, <2>1, <2>3 DEF SessionOK
  <2> QED BY <2>2, <2>3
<1>18. ASSUME NEW r \in RunIds PROVE RunOK(r)'
  <2>1. RunOK(r)
    BY <1>1 DEF RunInv
  <2>2. R # 0 => ~(R > nrun)
    BY <1>1, <1>3, DiscoveryAssumption DEF TypeOK
  <2>3. r > nrun => r # R
    BY <2>2 DEF RunIds
  <2>4. run[r].status = "completed" => worker[w].run # r
    BY <1>2, <2>1 DEF RunOK
  <2>5. r > nrun' => run'[r] = NoRun
    BY <1>2, <1>11, <2>1, <2>3 DEF RunOK
  <2>6. run'[r].status = "completed" => \A v \in Workers: worker'[v].run = r => worker'[v].pc = "record"
    BY <1>10, <1>11, <1>15, <2>1, <2>4 DEF RunOK
  <2> QED BY <2>5, <2>6 DEF RunOK
<1>19. Base'
  BY <1>1, <1>2, <1>12, <1>16, <1>17, <1>18 DEF Base, RowInv, SessionInv, RunInv
<1>20. /\ AddedBy(R)' = AddedBy(R) \cup {x} /\ x \notin AddedBy(R)
       /\ \A r: r # R => AddedBy(r)' = AddedBy(r)
  <2>1. \A r: r = R => AddedBy(r)' = AddedBy(R) \cup {x}
    BY <1>5, <1>6, <1>7, <1>9 DEF AddedBy
  <2>2. \A r: r # R => AddedBy(r)' = AddedBy(r)
    BY <1>5, <1>6, <1>7, <1>9 DEF AddedBy
  <2>3. x \notin AddedBy(R)
    BY <1>7 DEF AddedBy
  <2> QED BY <1>15, <2>1, <2>2, <2>3
<1>21. \A r: r = R => Cardinality(AddedBy(r)') = Cardinality(AddedBy(R)) + 1
  <2>1. AddedBy(R) \subseteq RowIds
    BY DEF AddedBy
  <2>2. \A r: r = R => AddedBy(r)' = AddedBy(R) \cup {x}
    BY <1>15, <1>20
  <2> QED BY <1>20, <2>1, <2>2, OneMore
<1>22. R # 0 => s.count = Cardinality(AddedBy(R))
  BY <1>2, <1>4 DEF CountInv, CountOK, Busy
<1>23. Cardinality(AddedBy(R)) \in Nat
  BY Finite DEF AddedBy
<1>24. CountIsRight'
  <2> SUFFICES ASSUME NEW r \in RunIds
               PROVE  /\ run'[r].count <= Cardinality(AddedBy(r)')
                      /\ run'[r].status = "completed" => run'[r].count = Cardinality(AddedBy(r)')
    BY DEF CountIsRight
  <2>1. CASE r # R
    BY <1>11, <1>20, <2>1 DEF CountInv, CountIsRight
  <2>2. CASE r = R
    <3>1. R # 0 /\ run'[r].count = Cardinality(AddedBy(R))
      BY <1>11, <1>22, <2>2 DEF RunIds
    <3>2. run[r].status # "completed"
      BY <1>1, <1>2, <2>2 DEF RunInv, RunOK
    <3> QED BY <1>11, <1>21, <1>23, <2>2, <3>1, <3>2
  <2> QED BY <2>1, <2>2
<1>25. ASSUME NEW v \in Workers PROVE CountOK(v)'
  <2>1. CASE v # w
    <3>1. worker[v].run # 0 => worker[v].run # R
      BY <1>1, <2>1 DEF SessionInv, SessionOK
    <3>2. worker[v].run # 0 => AddedBy(worker[v].run)' = AddedBy(worker[v].run)
      BY <1>15, <1>20, <3>1
    <3>3. Sent(v)' = Sent(v)
      BY <1>6, <1>7, <1>9, <1>15 DEF Sent
    <3>4. worker'[v] = worker[v]
      BY <1>10, <2>1
    <3> QED BY <1>11, <1>14, <3>2, <3>3, <3>4 DEF CountInv, CountOK
  <2>2. CASE v = w
    <3>1. CASE R = 0
      BY <1>15, <2>2, <3>1 DEF CountOK
    <3>2. CASE R # 0
      <4>1. worker'[w].run = R /\ worker'[w].count = s.count + 1 /\ run'[R].kind = "files"
        BY <1>4, <1>8, <1>10, <1>11, <3>2
      <4>2. Cardinality(AddedBy(worker[w].run)') = s.count + 1
        BY <1>15, <1>21, <1>22, <3>2, <4>1
      <4> QED BY <2>2, <4>1, <4>2 DEF CountOK
    <3> QED BY <3>1, <3>2
  <2> QED BY <2>1, <2>2
<1> QED BY <1>19, <1>24, <1>25 DEF CountInv

\* The rows of a transaction that is committed or rolled back are nobody else's.
LEMMA OwnRows ==
  ASSUME Base, NEW w \in Workers
  PROVE  /\ worker[w].run = 0 => Sent(w) = {}
         /\ \A v \in Workers: v # w /\ worker[v].run # 0 => worker[v].run # worker[w].run
         /\ worker[w].run # 0 /\ run[worker[w].run].kind = "files" => Sent(w) = {}
BY DEF Base, RowInv, RowOK, SessionInv, SessionOK, Sent

\* The final commit, when the flush before it fails
LEMMA CompleteFails ==
  ASSUME Base, NEW w \in Workers, Complete(w), ~CanFlush(w)
  PROVE  \E s: Quiet(w, s)
<1> DEFINE t == [worker[w] EXCEPT !.pc = "failing"]
<1>1. worker[w].pc = "scan" /\ worker[w] \in Session /\ worker[w].run # 0
  BY ScanSession DEF Complete
<1>2. /\ t \in Session /\ t.pc = "failing" /\ t.run = worker[w].run /\ t.count = worker[w].count
      /\ t.finds = worker[w].finds /\ t.sentfinds = worker[w].sentfinds
  BY <1>1 DEF Session
<1>3. /\ worker' = [worker EXCEPT ![w] = t]
      /\ UNCHANGED <<run, nrun, row, nrow, ignored, obs, find, reader>>
  BY DEF Complete, Base, TypeOK
<1> HIDE DEF t
<1>4. Quiet(w, t)
  BY <1>1, <1>2, <1>3, SameFindings DEF Quiet, Busy
<1> QED BY <1>4

LEMMA CompleteStep ==
  ASSUME Base, CountInv, NEW w \in Workers, Complete(w), CanFlush(w)
  PROVE  Base' /\ CountInv'
<1>1. TypeOK /\ RowInv /\ SessionInv /\ RunInv
  BY DEF Base
<1> DEFINE s == Flushed(worker[w])
           R == worker[w].run
           t == [Idle EXCEPT !.pc = "record", !.run = R]
           done == [run[R] EXCEPT !.status = "completed", !.count = worker[w].count]
<1>2. worker[w].pc = "scan" /\ worker[w] \in Session /\ R # 0 /\ R \in RunIds /\ R <= nrun
  BY <1>1, ScanSession DEF Complete, SessionInv, SessionOK
<1>3. s \in Session /\ s.run = R /\ s.count = worker[w].count /\ worker[w].count \in Nat
  BY <1>2, FlushedSession DEF Session
<1>4. /\ run' = [run EXCEPT ![s.run].status = "completed", ![s.run].count = s.count]
      /\ row' = [i \in RowIds |-> IF i \in Sent(w) THEN [row[i] EXCEPT !.state = "live"] ELSE row[i]]
      /\ obs' = obs \cup s.sentobs
      /\ find' = [i \in RowIds |-> [find[i] EXCEPT !.active = find[i].active + s.sentfinds[i]]]
      /\ worker' = [worker EXCEPT ![w] = [Idle EXCEPT !.pc = "record", !.run = s.run]]
      /\ UNCHANGED <<nrun, nrow, ignored, reader>>
  BY DEF Complete
<1> HIDE DEF s
<1>5. run' = [run EXCEPT ![R] = done] /\ worker' = [worker EXCEPT ![w] = t]
  BY <1>1, <1>2, <1>3, <1>4 DEF TypeOK
<1>6. /\ done \in Run /\ done.kind = run[R].kind /\ done.status = "completed"
      /\ done.count = worker[w].count
  <2>1. run[R] \in Run
    BY <1>1, <1>2 DEF TypeOK
  <2> QED BY <1>3, <2>1 DEF Run, RunStatus
<1>7. t \in Session /\ t.pc = "record" /\ t.run = R
  <2>1. R \in 0..MaxRuns
    BY <1>2 DEF RunIds
  <2> QED BY <2>1, Records DEF Session, Idle
<1> HIDE DEF done, t
<1>8. run' \in [RunIds -> Run] /\ run'[R] = done /\ \A r \in RunIds: r # R => run'[r] = run[r]
  BY <1>1, <1>2, <1>5, <1>6 DEF TypeOK
<1>9. /\ worker' \in [Workers -> Session] /\ worker'[w] = t
      /\ \A v \in Workers: v # w => worker'[v] = worker[v]
  BY <1>1, <1>5, <1>7 DEF TypeOK
<1>10. \A i \in RowIds:
         /\ row'[i] \in Row /\ row'[i].run = row[i].run /\ row'[i].fp = row[i].fp
         /\ row'[i].state = IF i \in Sent(w) THEN "live" ELSE row[i].state
  <2> SUFFICES ASSUME NEW i \in RowIds
               PROVE  /\ row'[i] \in Row /\ row'[i].run = row[i].run /\ row'[i].fp = row[i].fp
                      /\ row'[i].state = IF i \in Sent(w) THEN "live" ELSE row[i].state
    OBVIOUS
  <2>1. row'[i] = IF i \in Sent(w) THEN [row[i] EXCEPT !.state = "live"] ELSE row[i]
    BY <1>4
  <2>2. row[i] \in Row
    BY <1>1 DEF TypeOK
  <2> QED BY <2>1, <2>2 DEF Row, RowState
<1>11. TypeOK'
  <2>1. row' \in [RowIds -> Row]
    BY <1>4, <1>10
  <2>2. obs' \subseteq Observation
    BY <1>1, <1>3, <1>4 DEF TypeOK, Session
  <2>3. \A i \in RowIds: find[i].active + s.sentfinds[i] \in Nat /\ find[i] \in [active: Nat, closed: Nat]
    BY <1>1, <1>3 DEF TypeOK, Session
  <2>4. find' \in [RowIds -> [active: Nat, closed: Nat]]
    BY <1>4, <2>3
  <2> QED BY <1>1, <1>4, <1>8, <1>9, <2>1, <2>2, <2>4 DEF TypeOK
<1>12. \A v \in Workers: worker'[v].run = worker[v].run
  BY <1>7, <1>9
<1>13. \A i \in RowIds: row[i].run # 0 => row[i].run \in RunIds
  BY <1>1, DiscoveryAssumption DEF TypeOK, Row, RunIds
<1>14. \A v \in Workers: worker[v].run # 0 => worker[v].run \in RunIds
  BY <1>1, DiscoveryAssumption DEF TypeOK, Session, RunIds
<1>15. \A r \in RunIds: run'[r].kind = run[r].kind
  BY <1>6, <1>8
<1>16. ASSUME NEW i \in RowIds PROVE RowOK(i)'
  <2>1. RowOK(i)
    BY <1>1 DEF RowInv
  <2>2. i > nrow => i \notin Sent(w)
    BY <2>1 DEF RowOK, Sent
  <2>3. row'[i].state \in {"live", "sent"} => row[i].state \in {"live", "sent"}
    BY <1>10 DEF Sent
  <2>4. ASSUME row'[i].state = "sent"
        PROVE  /\ row[i].run # 0 /\ run'[row[i].run].kind # "files"
               /\ \E v \in Workers: worker'[v].run = row[i].run /\ worker'[v].pc \in {"scan", "failing"}
    <3>1. row[i].state = "sent" /\ row[i].run # R
      BY <1>10, <2>4 DEF Sent
    <3> QED BY <1>9, <1>12, <1>13, <1>15, <2>1, <3>1 DEF RowOK
  <2> QED BY <1>4, <1>10, <2>1, <2>2, <2>3, <2>4 DEF RowOK
<1>17. ASSUME NEW v \in Workers PROVE SessionOK(v)'
  <2>1. SessionOK(v)
    BY <1>1 DEF SessionInv
  <2>2. CASE v = w
    BY <1>2, <1>4, <1>7, <1>9, <1>12, <2>1, <2>2 DEF SessionOK
  <2>3. CASE v # w
    BY <1>4, <1>9, <1>12, <1>14, <1>15, <2>1, <2>3 DEF SessionOK
  <2> QED BY <2>2, <2>3
<1>18. ASSUME NEW r \in RunIds PROVE RunOK(r)'
  <2>1. RunOK(r)
    BY <1>1 DEF RunInv
  <2>2. CASE r = R
    <3>1. ~(r > nrun')
      BY <1>1, <1>2, <1>4, <2>2 DEF RunIds, TypeOK
    <3>2. \A v \in Workers: worker'[v].run = r => worker'[v].pc = "record"
      BY <1>2, <1>7, <1>9, <1>12, <2>2, OwnRows
    <3> QED BY <3>1, <3>2 DEF RunOK
  <2>3. CASE r # R
    BY <1>4, <1>8, <1>9, <1>12, <2>1, <2>3 DEF RunOK
  <2> QED BY <2>2, <2>3
<1>19. Base'
  BY <1>1, <1>4, <1>11, <1>16, <1>17, <1>18 DEF Base, RowInv, SessionInv, RunInv
<1>20. /\ \A r: r = R => AddedBy(r)' = AddedBy(R) \cup Sent(w)
       /\ \A r: r # R => AddedBy(r)' = AddedBy(r)
  BY <1>10 DEF AddedBy, Sent
<1>21. \A r: r = R => worker[w].count = Cardinality(AddedBy(r)')
  <2>1. CASE run[R].kind = "files"
    <3>1. Sent(w) = {} /\ worker[w].count = Cardinality(AddedBy(R))
      BY <1>2, <2>1, OwnRows DEF CountInv, CountOK, Busy
    <3>2. \A r: r = R => AddedBy(r)' = AddedBy(R)
      BY <1>20, <3>1
    <3> QED BY <3>1, <3>2
  <2>2. CASE run[R].kind # "files"
    <3>1. AddedBy(R) = {} /\ worker[w].count = Cardinality(Sent(w))
      BY <1>2, <2>2 DEF CountInv, CountOK, Busy
    <3>2. \A r: r = R => AddedBy(r)' = Sent(w)
      BY <1>20, <3>1
    <3> QED BY <3>1, <3>2
  <2> QED BY <2>1, <2>2
<1>22. CountIsRight'
  <2> SUFFICES ASSUME NEW r \in RunIds
               PROVE  /\ run'[r].count <= Cardinality(AddedBy(r)')
                      /\ run'[r].status = "completed" => run'[r].count = Cardinality(AddedBy(r)')
    BY DEF CountIsRight
  <2>1. CASE r # R
    BY <1>8, <1>20, <2>1 DEF CountInv, CountIsRight
  <2>2. CASE r = R
    BY <1>3, <1>6, <1>8, <1>21, <2>2
  <2> QED BY <2>1, <2>2
<1>23. ASSUME NEW v \in Workers PROVE CountOK(v)'
  <2>1. CASE v = w
    BY <1>7, <1>9, <2>1 DEF CountOK, Busy
  <2>2. CASE v # w
    <3>1. worker[v].run # 0 => worker[v].run # R
      BY <2>2, OwnRows
    <3>2. worker[v].run # 0 => AddedBy(worker[v].run)' = AddedBy(worker[v].run)
      BY <1>12, <1>20, <3>1
    <3>3. worker[v].run # 0 => Sent(v)' = Sent(v)
      BY <1>10, <1>12, <3>1 DEF Sent
    <3>4. worker'[v] = worker[v]
      BY <1>9, <2>2
    <3> QED BY <1>14, <1>15, <3>2, <3>3, <3>4 DEF CountInv, CountOK
  <2> QED BY <2>1, <2>2
<1> QED BY <1>19, <1>22, <1>23 DEF CountInv

\* A transaction is rolled back, after an exception or with its process.
LEMMA EndStep ==
  ASSUME Base, CountInv, NEW w \in Workers, RunFails(w) \/ Crash(w)
  PROVE  Base' /\ CountInv'
<1>1. TypeOK /\ RowInv /\ SessionInv /\ RunInv
  BY DEF Base
<1> DEFINE R == worker[w].run
<1>2. /\ row' = Undone(w) /\ worker' = [worker EXCEPT ![w] = Idle]
      /\ UNCHANGED <<nrun, nrow, ignored, obs, find, reader>>
  BY DEF RunFails, Crash
<1>3. /\ run' \in [RunIds -> Run]
      /\ \A r \in RunIds: /\ run'[r].kind = run[r].kind /\ run'[r].count = run[r].count
                          /\ run'[r] = run[r] \/ (r = R /\ run'[r].status = "failed")
  <2>1. run \in [RunIds -> Run]
    BY <1>1 DEF TypeOK
  <2>2. CASE UNCHANGED run
    BY <2>1, <2>2
  <2>3. CASE run' = [run EXCEPT ![R].status = "failed"]
    <3>1. \A r \in RunIds: [run[r] EXCEPT !.status = "failed"] \in Run
      BY <2>1 DEF Run, RunStatus
    <3>2. \A r \in RunIds: run'[r] = IF r = R THEN [run[r] EXCEPT !.status = "failed"] ELSE run[r]
      BY <2>1, <2>3
    <3>3. run' = [r \in RunIds |-> IF r = R THEN [run[r] EXCEPT !.status = "failed"] ELSE run[r]]
      BY <2>1, <2>3
    <3> QED BY <2>1, <3>1, <3>2, <3>3 DEF Run
  <2> QED BY <2>2, <2>3 DEF RunFails, Crash
<1>4. /\ worker' \in [Workers -> Session] /\ worker'[w] = Idle
      /\ \A v \in Workers: v # w => worker'[v] = worker[v]
  BY <1>1, <1>2, Records DEF TypeOK
<1>5. Idle.run = 0 /\ Idle.pc = "idle"
  BY DEF Idle
<1>6. \A i \in RowIds:
        /\ row'[i] \in Row /\ row'[i].run = row[i].run /\ row'[i].fp = row[i].fp
        /\ row'[i].state = IF i \in Sent(w) THEN "void" ELSE row[i].state
  <2> SUFFICES ASSUME NEW i \in RowIds
               PROVE  /\ row'[i] \in Row /\ row'[i].run = row[i].run /\ row'[i].fp = row[i].fp
                      /\ row'[i].state = IF i \in Sent(w) THEN "void" ELSE row[i].state
    OBVIOUS
  <2>1. row'[i] = IF i \in Sent(w) THEN [row[i] EXCEPT !.state = "void"] ELSE row[i]
    BY <1>2 DEF Undone
  <2>2. row[i] \in Row
    BY <1>1 DEF TypeOK
  <2> QED BY <2>1, <2>2 DEF Row, RowState
<1>7. row' \in [RowIds -> Row]
  BY <1>2, <1>6 DEF Undone
<1>8. TypeOK'
  BY <1>1, <1>2, <1>3, <1>4, <1>7 DEF TypeOK
<1>9. \A i \in RowIds: row[i].run # 0 => row[i].run \in RunIds
  BY <1>1, DiscoveryAssumption DEF TypeOK, Row, RunIds
<1>10. \A v \in Workers: worker[v].run # 0 => worker[v].run \in RunIds
  BY <1>1, DiscoveryAssumption DEF TypeOK, Session, RunIds
<1>11. ASSUME NEW i \in RowIds PROVE RowOK(i)'
  <2>1. RowOK(i)
    BY <1>1 DEF RowInv
  <2>2. i > nrow => i \notin Sent(w)
    BY <2>1 DEF RowOK, Sent
  <2>3. ASSUME row'[i].state = "sent"
        PROVE  /\ row[i].run # 0 /\ run'[row[i].run].kind # "files"
               /\ \E v \in Workers: worker'[v].run = row[i].run /\ worker'[v].pc \in {"scan", "failing"}
    <3>1. row[i].state = "sent" /\ row[i].run # R
      BY <1>6, <2>3 DEF Sent
    <3> QED BY <1>3, <1>4, <1>9, <2>1, <3>1 DEF RowOK
  <2> QED BY <1>2, <1>6, <2>1, <2>2, <2>3 DEF RowOK
<1>12. ASSUME NEW v \in Workers PROVE SessionOK(v)'
  <2>1. SessionOK(v) /\ nrun \in Nat
    BY <1>1 DEF SessionInv, TypeOK
  <2>2. CASE v = w
    BY <1>2, <1>4, <1>5, <2>1, <2>2 DEF SessionOK
  <2>3. CASE v # w
    BY <1>2, <1>3, <1>4, <1>5, <1>10, <2>1, <2>3 DEF SessionOK
  <2> QED BY <2>2, <2>3
<1>13. ASSUME NEW r \in RunIds PROVE RunOK(r)'
  <2>1. RunOK(r)
    BY <1>1 DEF RunInv
  <2>2. r > nrun => r # R
    <3>1. R <= nrun /\ R \in 0..MaxRuns
      BY <1>1 DEF SessionInv, SessionOK, TypeOK, Session
    <3> QED BY <1>1, <3>1 DEF RunIds, TypeOK
  <2>3. \A v \in Workers: worker'[v].run = r => worker'[v] = worker[v]
    BY <1>4, <1>5 DEF RunIds
  <2> QED BY <1>2, <1>3, <2>1, <2>2, <2>3 DEF RunOK
<1>14. Base'
  BY <1>1, <1>2, <1>8, <1>11, <1>12, <1>13 DEF Base, RowInv, SessionInv, RunInv
<1>15. \A r: AddedBy(r)' = AddedBy(r)
  BY <1>6 DEF AddedBy, Sent
<1>16. CountIsRight'
  BY <1>3, <1>15 DEF CountInv, CountIsRight
<1>17. ASSUME NEW v \in Workers PROVE CountOK(v)'
  <2>1. CASE v = w
    BY <1>4, <1>5, <2>1 DEF CountOK
  <2>2. CASE v # w
    <3>1. worker[v].run # 0 => worker[v].run # R
      BY <2>2, OwnRows
    <3>2. worker'[v] = worker[v]
      BY <1>4, <2>2
    <3>3. AddedBy(worker[v].run)' = AddedBy(worker[v].run)
      BY <1>15, <3>2
    <3>4. worker[v].run # 0 => Sent(v)' = Sent(v)
      BY <1>6, <3>1, <3>2 DEF Sent
    <3> QED BY <1>3, <1>10, <3>2, <3>3, <3>4 DEF CountInv, CountOK
  <2> QED BY <2>1, <2>2
<1> QED BY <1>14, <1>16, <1>17 DEF CountInv

LEMMA RecordStep ==
  ASSUME Base, CountInv, NEW w \in Workers, RecordRun(w)
  PROVE  Base' /\ CountInv'
<1>1. TypeOK /\ RowInv /\ SessionInv /\ RunInv
  BY DEF Base
<1>2. /\ worker[w].pc = "record" /\ worker' = [worker EXCEPT ![w] = Idle]
      /\ UNCHANGED <<run, nrun, row, nrow, ignored, obs, find, reader>>
  BY DEF RecordRun
<1>3. /\ worker' \in [Workers -> Session] /\ worker'[w] = Idle
      /\ \A v \in Workers: v # w => worker'[v] = worker[v]
  BY <1>1, <1>2, Records DEF TypeOK
<1>4. Idle.run = 0 /\ Idle.pc = "idle"
  BY DEF Idle
<1>5. TypeOK'
  BY <1>1, <1>2, <1>3 DEF TypeOK
<1>6. RowInv'
  BY <1>1, <1>2, <1>3 DEF RowInv, RowOK
<1>7. ASSUME NEW v \in Workers PROVE SessionOK(v)'
  <2>1. SessionOK(v) /\ nrun \in Nat
    BY <1>1 DEF SessionInv, TypeOK
  <2> QED BY <1>2, <1>3, <1>4, <2>1 DEF SessionOK
<1>8. RunInv'
  BY <1>1, <1>2, <1>3, <1>4 DEF RunInv, RunOK, RunIds
<1>9. \A r: AddedBy(r)' = AddedBy(r)
  BY <1>2 DEF AddedBy
<1>10. ASSUME NEW v \in Workers PROVE CountOK(v)'
  <2>1. CASE v = w
    BY <1>3, <1>4, <2>1 DEF CountOK
  <2>2. CASE v # w
    <3>1. worker'[v] = worker[v]
      BY <1>3, <2>2
    <3>2. AddedBy(worker[v].run)' = AddedBy(worker[v].run) /\ Sent(v)' = Sent(v)
      BY <1>2, <1>9, <3>1 DEF Sent
    <3> QED BY <1>2, <3>1, <3>2 DEF CountInv, CountOK
  <2> QED BY <2>1, <2>2
<1>11. CountIsRight'
  BY <1>2, <1>9 DEF CountInv, CountIsRight
<1> QED BY <1>5, <1>6, <1>7, <1>8, <1>10, <1>11 DEF Base, SessionInv, CountInv

\* What a request does to the run it read: the status, or the hour it is older
RunWritten ==
  /\ run' \in [RunIds -> Run]
  /\ \A r \in RunIds:
       \/ run'[r] = run[r]
       \/ /\ run'[r].kind = run[r].kind /\ run'[r].count = run[r].count
          /\ r <= nrun
          /\ run'[r].status = "completed" => run[r].status = "completed"
  /\ reader' \in [Readers -> [run: 0..MaxRuns, to: RunStatus]]
  /\ \A q \in Readers: reader'[q].to # "completed" /\ reader'[q].run <= nrun
  /\ UNCHANGED <<nrun, row, nrow, ignored, obs, find, worker>>

LEMMA RunWrittenStep ==
  ASSUME Base, CountInv, RunWritten PROVE Base' /\ CountInv'
<1>1. TypeOK /\ RowInv /\ SessionInv /\ RunInv
  BY DEF Base
<1>2. UNCHANGED <<nrun, row, nrow, ignored, obs, find, worker>>
  BY DEF RunWritten
<1>3. \A r \in RunIds: /\ run'[r].kind = run[r].kind /\ run'[r].count = run[r].count
                       /\ r > nrun => run'[r] = run[r]
                       /\ run'[r].status = "completed" => run[r].status = "completed"
  <2>1. \A r \in RunIds: r > nrun => ~(r <= nrun)
    BY <1>1 DEF RunIds, TypeOK
  <2> QED BY <2>1 DEF RunWritten
<1>4. \A i \in RowIds: row[i].run # 0 => row[i].run \in RunIds
  BY <1>1, DiscoveryAssumption DEF TypeOK, Row, RunIds
<1>5. \A v \in Workers: worker[v].run # 0 => worker[v].run \in RunIds
  BY <1>1, DiscoveryAssumption DEF TypeOK, Session, RunIds
<1>6. TypeOK'
  BY <1>1, <1>2 DEF TypeOK, RunWritten
<1>7. RowInv'
  BY <1>1, <1>2, <1>3, <1>4 DEF RowInv, RowOK
<1>8. SessionInv'
  BY <1>1, <1>2, <1>3, <1>5 DEF SessionInv, SessionOK
<1>9. RunInv'
  BY <1>1, <1>2, <1>3 DEF RunInv, RunOK, RunWritten
<1>10. \A r: AddedBy(r)' = AddedBy(r)
  BY <1>2 DEF AddedBy
<1>11. \A v \in Workers: Sent(v)' = Sent(v) /\ AddedBy(worker[v].run)' = AddedBy(worker[v].run)
  BY <1>2, <1>10 DEF Sent
<1>12. CountIsRight'
  BY <1>3, <1>10 DEF CountInv, CountIsRight
<1>13. \A v \in Workers: CountOK(v)'
  BY <1>2, <1>3, <1>5, <1>11 DEF CountInv, CountOK
<1> QED BY <1>6, <1>7, <1>8, <1>9, <1>12, <1>13 DEF Base, CountInv

LEMMA RequestEffect ==
  ASSUME Base,
         \/ \E r \in RunIds: HourPasses(r)
         \/ \E q \in Readers: ResetWrite(q) \/ \E r \in RunIds: CancelRead(q, r) \/ StaleRead(q, r)
  PROVE  RunWritten
<1>1. /\ run \in [RunIds -> Run] /\ reader \in [Readers -> [run: 0..MaxRuns, to: RunStatus]]
      /\ \A q \in Readers: reader[q].to # "completed" /\ reader[q].run <= nrun
      /\ nrun \in 0..MaxRuns
  BY DEF Base, TypeOK, RunInv
<1>2. /\ NoReset.to = "nil" /\ NoReset.run = 0 /\ 0 <= nrun
      /\ NoReset \in [run: 0..MaxRuns, to: RunStatus]
  <2>1. 0 \in 0..MaxRuns /\ 0 <= nrun
    BY <1>1, DiscoveryAssumption
  <2> QED BY <2>1 DEF NoReset, RunStatus
<1>0. ASSUME NEW r \in RunIds, run[r].status = "running" PROVE r <= nrun
  <2>1. ~(r > nrun)
    BY <1>0 DEF Base, RunInv, RunOK, NoRun
  <2> QED BY <1>1, <2>1 DEF RunIds
<1>3. ASSUME NEW r \in RunIds, HourPasses(r) PROVE RunWritten
  <2>1. run' = [run EXCEPT ![r] = [run[r] EXCEPT !.old = TRUE]] /\ run[r].status = "running"
    BY <1>1, <1>3 DEF HourPasses
  <2> DEFINE h == [run[r] EXCEPT !.old = TRUE]
  <2>2. h \in Run /\ h.kind = run[r].kind /\ h.count = run[r].count /\ h.status = run[r].status
    BY <1>1 DEF Run
  <2> HIDE DEF h
  <2>3. run' = [run EXCEPT ![r] = h]
    BY <2>1 DEF h
  <2>4. UNCHANGED <<nrun, row, nrow, ignored, obs, find, worker, reader>>
    BY <1>3 DEF HourPasses
  <2>5. r <= nrun
    BY <1>0, <2>1
  <2> QED BY <1>1, <1>2, <2>1, <2>2, <2>3, <2>4, <2>5 DEF RunWritten
<1>4. ASSUME NEW q \in Readers, NEW r \in RunIds, CancelRead(q, r) \/ StaleRead(q, r)
      PROVE  RunWritten
  <2>1. PICK to \in {"cancelled", "failed"}: reader' = [reader EXCEPT ![q] = [run |-> r, to |-> to]]
    BY <1>4 DEF CancelRead, StaleRead
  <2>2. UNCHANGED <<run, nrun, row, nrow, ignored, obs, find, worker>>
    BY <1>4 DEF CancelRead, StaleRead
  <2>3. [run |-> r, to |-> to] \in [run: 0..MaxRuns, to: RunStatus]
    BY DEF RunIds, RunStatus
  <2>4. r <= nrun
    BY <1>0, <1>4 DEF CancelRead, StaleRead
  <2> QED BY <1>1, <2>1, <2>2, <2>3, <2>4 DEF RunWritten
<1>5. ASSUME NEW q \in Readers, ResetWrite(q) PROVE RunWritten
  <2> DEFINE R == reader[q].run
             to == reader[q].to
  <2>1. /\ run' = [run EXCEPT ![R].status = to] /\ reader' = [reader EXCEPT ![q] = NoReset]
        /\ UNCHANGED <<nrun, row, nrow, ignored, obs, find, worker>>
    BY <1>5 DEF ResetWrite
  <2>2. to \in RunStatus /\ to # "completed" /\ R <= nrun
    BY <1>1
  <2> HIDE DEF R, to
  <2>3. \A r \in RunIds: run'[r] = IF r = R THEN [run[r] EXCEPT !.status = to] ELSE run[r]
    BY <1>1, <2>1
  <2>4. \A r \in RunIds: LET h == [run[r] EXCEPT !.status = to] IN
           h \in Run /\ h.kind = run[r].kind /\ h.count = run[r].count /\ h.status = to
    BY <1>1, <2>2 DEF Run
  <2> QED BY <1>1, <1>2, <2>1, <2>2, <2>3, <2>4 DEF RunWritten
<1> QED BY <1>3, <1>4, <1>5

\* What other requests do to the tables of certificates and findings
RowsWritten ==
  /\ UNCHANGED <<run, nrun, nrow, worker, reader>>
  /\ ignored' \subseteq Fps /\ obs' \subseteq Observation
  /\ find' \in [RowIds -> [active: Nat, closed: Nat]]
  /\ row' \in [RowIds -> Row]
  /\ \A i \in RowIds: \/ row'[i] = row[i]
                      \/ /\ row[i].state = "live" /\ row'[i].state = "gone"
                         /\ row'[i].run = row[i].run /\ row'[i].fp = row[i].fp

LEMMA TableEffect ==
  ASSUME Base,
         \/ \E i \in RowIds: DeleteCertificate(i) \/ CloseFinding(i) \/ ReopenFinding(i)
         \/ \E fp \in Fps: DeleteIgnore(fp)
  PROVE  RowsWritten
<1>1. TypeOK /\ RowInv
  BY DEF Base
<1>2. ASSUME NEW i \in RowIds, DeleteCertificate(i) PROVE RowsWritten
  <2> DEFINE g == [row[i] EXCEPT !.state = "gone"]
  <2>1. /\ row' = [row EXCEPT ![i] = g] /\ row[i].state = "live" /\ row[i] \in Row
        /\ ignored' = ignored \cup {row[i].fp} /\ find' = [find EXCEPT ![i] = NoFindings]
        /\ obs' \subseteq obs /\ UNCHANGED <<run, nrun, nrow, worker, reader>>
    BY <1>1, <1>2 DEF DeleteCertificate, Live, TypeOK
  <2>2. g \in Row /\ g.state = "gone" /\ g.run = row[i].run /\ g.fp = row[i].fp
    BY <2>1 DEF Row, RowState
  <2> HIDE DEF g
  <2>3. row[i].fp \in Fps
    BY <1>1, <2>1 DEF RowInv, RowOK
  <2> QED BY <1>1, <2>1, <2>2, <2>3, Records DEF RowsWritten, TypeOK
<1>3. ASSUME NEW i \in RowIds, CloseFinding(i) \/ ReopenFinding(i) PROVE RowsWritten
  <2>1. find[i] \in [active: Nat, closed: Nat]
    BY <1>1 DEF TypeOK
  <2>2. CASE CloseFinding(i)
    <3> DEFINE f == [find[i] EXCEPT !.active = find[i].active - 1, !.closed = find[i].closed + 1]
    <3>1. find[i].active - 1 \in Nat /\ find[i].closed + 1 \in Nat
      BY <2>1, <2>2 DEF CloseFinding
    <3>2. f \in [active: Nat, closed: Nat]
      BY <2>1, <3>1
    <3>3. find' = [find EXCEPT ![i] = f]
      BY <1>1, <2>2 DEF CloseFinding, TypeOK
    <3> HIDE DEF f
    <3> QED BY <1>1, <2>2, <3>2, <3>3 DEF CloseFinding, RowsWritten, TypeOK
  <2>3. CASE ReopenFinding(i)
    <3> DEFINE f == [find[i] EXCEPT !.active = find[i].active + 1, !.closed = find[i].closed - 1]
    <3>1. find[i].active + 1 \in Nat /\ find[i].closed - 1 \in Nat
      BY <2>1, <2>3 DEF ReopenFinding
    <3>2. f \in [active: Nat, closed: Nat]
      BY <2>1, <3>1
    <3>3. find' = [find EXCEPT ![i] = f]
      BY <1>1, <2>3 DEF ReopenFinding, TypeOK
    <3> HIDE DEF f
    <3> QED BY <1>1, <2>3, <3>2, <3>3 DEF ReopenFinding, RowsWritten, TypeOK
  <2> QED BY <1>3, <2>2, <2>3
<1>4. ASSUME NEW fp \in Fps, DeleteIgnore(fp) PROVE RowsWritten
  BY <1>1, <1>4 DEF DeleteIgnore, RowsWritten, TypeOK
<1> QED BY <1>2, <1>3, <1>4

LEMMA RowsWrittenStep ==
  ASSUME Base, CountInv, RowsWritten PROVE Base' /\ CountInv'
<1>1. TypeOK /\ RowInv /\ SessionInv /\ RunInv
  BY DEF Base
<1>2. UNCHANGED <<run, nrun, nrow, worker, reader>>
  BY DEF RowsWritten
<1>3. \A i \in RowIds:
        /\ row'[i].run = row[i].run /\ row'[i].fp = row[i].fp
        /\ row'[i].state = row[i].state \/ (row[i].state = "live" /\ row'[i].state = "gone")
  BY DEF RowsWritten
<1>4. TypeOK'
  BY <1>1, <1>2 DEF TypeOK, RowsWritten
<1>5. RowInv'
  BY <1>1, <1>2, <1>3 DEF RowInv, RowOK
<1>6. SessionInv' /\ RunInv'
  BY <1>1, <1>2 DEF SessionInv, SessionOK, RunInv, RunOK
<1>7. \A r: AddedBy(r)' = AddedBy(r)
  BY <1>3 DEF AddedBy
<1>8. \A v \in Workers: Sent(v)' = Sent(v) /\ AddedBy(worker[v].run)' = AddedBy(worker[v].run)
  BY <1>2, <1>3, <1>7 DEF Sent
<1>9. CountIsRight'
  BY <1>2, <1>7 DEF CountInv, CountIsRight
<1>10. \A v \in Workers: CountOK(v)'
  BY <1>2, <1>8 DEF CountInv, CountOK
<1> QED BY <1>4, <1>5, <1>6, <1>9, <1>10 DEF Base, CountInv

----------------------------------------------------------------------------

LEMMA InitHolds == Init => Base /\ CountInv
<1> SUFFICES ASSUME Init PROVE Base /\ CountInv
  OBVIOUS
<1>1. /\ NoRun.status = "nil" /\ NoRun.count = 0 /\ NilRow.state = "nil" /\ NilRow.run = 0
      /\ Idle.pc = "idle" /\ Idle.run = 0
  BY DEF NoRun, NilRow, Idle
<1>2. NoReset.to = "nil" /\ NoReset.run = 0 /\ NoReset \in [run: 0..MaxRuns, to: RunStatus]
  <2>1. 0 \in 0..MaxRuns
    BY DiscoveryAssumption
  <2> QED BY <2>1 DEF NoReset, RunStatus
<1>3. TypeOK
  BY <1>2, Records, DiscoveryAssumption DEF Init, TypeOK
<1>4. RowInv /\ SessionInv
  BY <1>1, DiscoveryAssumption DEF Init, RowInv, RowOK, SessionInv, SessionOK
<1>5. RunInv
  BY <1>1, <1>2 DEF Init, RunInv, RunOK
<1>6. \A w \in Workers: CountOK(w)
  BY <1>1 DEF Init, CountOK
<1>7. \A r \in RunIds: run[r].count = 0 /\ run[r].status # "completed" /\ Cardinality(AddedBy(r)) \in Nat
  BY <1>1, Finite DEF Init, AddedBy
<1>8. CountIsRight
  BY <1>7 DEF CountIsRight
<1> QED BY <1>3, <1>4, <1>5, <1>6, <1>8 DEF Base, CountInv

\* Every step is one of these.
LEMMA Effects ==
  ASSUME Base, Next
  PROVE  \/ \E w \in Workers: \E s: Quiet(w, s) \/ \E fp: Insert(w, s, fp)
         \/ \E w \in Workers:
              \/ ImportCommit(w) \/ (Complete(w) /\ CanFlush(w)) \/ RecordRun(w) \/ RunFails(w) \/ Crash(w)
              \/ \E kind \in Kinds, batch \in Batches: StartRun(w, kind, batch)
         \/ \E q \in Readers: ResetWrite(q) \/ \E r \in RunIds: CancelRead(q, r) \/ StaleRead(q, r)
         \/ \E r \in RunIds: HourPasses(r)
         \/ \E i \in RowIds: DeleteCertificate(i) \/ CloseFinding(i) \/ ReopenFinding(i)
         \/ \E fp \in Fps: DeleteIgnore(fp)
<1>1. ASSUME NEW w \in Workers,
             \/ \E it \in Item: \/ ItemSkipped(w, it) \/ FileFound(w, it) \/ SightCertificate(w, it)
                                \/ KnownEntry(w, it) \/ NewEntry(w, it)
             \/ ImportRejected(w)
             \/ \E fp \in Fps: UploadFound(w, fp)
      PROVE  \E s: Quiet(w, s) \/ \E fp: Insert(w, s, fp)
  BY <1>1, ItemEffect
<1>2. ASSUME NEW w \in Workers, Complete(w)
      PROVE  (\E s: Quiet(w, s)) \/ (Complete(w) /\ CanFlush(w))
  BY <1>2, CompleteFails
<1> QED BY <1>1, <1>2 DEF Next, Scan

LEMMA NextHolds == Base /\ CountInv /\ [Next]_vars => Base' /\ CountInv'
<1> SUFFICES ASSUME Base, CountInv, [Next]_vars PROVE Base' /\ CountInv'
  OBVIOUS
<1>1. CASE UNCHANGED vars
  <2>1. RowsWritten
    BY <1>1 DEF vars, RowsWritten, Base, TypeOK
  <2> QED BY <2>1, RowsWrittenStep
<1>2. CASE Next
  BY <1>2, Effects, QuietStep, InsertStep, StartStep, ImportStep, CompleteStep, RecordStep, EndStep,
     RequestEffect, RunWrittenStep, TableEffect, RowsWrittenStep
<1> QED BY <1>1, <1>2

LEMMA Always == Spec => [](Base /\ CountInv)
BY InitHolds, NextHolds, PTL DEF Spec

\* Tables and sessions hold values of their kinds, for any number of sessions.
THEOREM TypeCorrect == Spec => []TypeOK
<1>1. Base => TypeOK
  BY DEF Base
<1> QED BY <1>1, Always, PTL

\* imported_count, kept by the session and committed at different times by the three
\* scans, is never more than the run added and is exact once it is completed, whatever
\* other sessions, cancellations, deletions and crashes come between.
THEOREM CountsAreRight == Spec => []CountIsRight
<1>1. CountInv => CountIsRight
  BY DEF CountInv
<1> QED BY <1>1, Always, PTL

----------------------------------------------------------------------------
(* A scan that failed *)

LEMMA RowRun ==
  ASSUME Base, NEW i \in RowIds
  PROVE  row[i].run # 0 => row[i].run \in RunIds
BY DiscoveryAssumption DEF Base, TypeOK, Row, RunIds

\* Steps of a session that end nothing: its run, and the rows in the inventory, are the same.
LEMMA SessionFail ==
  ASSUME Base, FailInv, NEW w \in Workers,
         UNCHANGED <<run, reader>>, worker[w].pc # "record",
         \A v \in Workers: v # w => worker'[v] = worker[v],
         worker'[w].run = worker[w].run,
         \A i \in RowIds: row'[i].state = "live" =>
            row'[i].run = 0 \/ run[row'[i].run].kind = "files" \/ row'[i] = row[i]
  PROVE  FailInv'
<1>1. ASSUME NEW i \in RowIds PROVE CommittedOK(i)'
  <2> SUFFICES ASSUME row'[i].state = "live", row'[i].run # 0, run[row'[i].run].kind # "files"
               PROVE  CommittedOK(i)'
    BY DEF CommittedOK
  <2>1. row'[i] = row[i]
    OBVIOUS
  <2>2. CommittedOK(i)
    BY DEF FailInv
  <2>3. worker[w].run # row[i].run
    BY <2>1, <2>2 DEF CommittedOK
  <2> QED BY <2>1, <2>2, <2>3 DEF CommittedOK
<1>2. StaleInv'
  BY DEF FailInv, StaleInv
<1> QED BY <1>1, <1>2 DEF FailInv

LEMMA ItemFail ==
  ASSUME Base, FailInv, NEW w \in Workers, NEW s, Quiet(w, s) \/ \E fp: Insert(w, s, fp)
  PROVE  FailInv'
<1>1. worker'[w] = s /\ \A v \in Workers: v # w => worker'[v] = worker[v]
  BY DEF Quiet, Insert, Base, TypeOK
<1>2. UNCHANGED <<run, reader>> /\ s.run = worker[w].run /\ worker[w].pc # "record"
  BY DEF Quiet, Insert, Busy
<1>3. \A i \in RowIds: row'[i].state = "live" => row'[i] = row[i]
  <2>1. CASE Quiet(w, s)
    BY <2>1 DEF Quiet
  <2>2. CASE \E fp: Insert(w, s, fp)
    <3>1. PICK fp: Insert(w, s, fp)
      BY <2>2
    <3> DEFINE new == [fp |-> fp, state |-> "sent", run |-> worker[w].run]
    <3>2. \A i \in RowIds: row'[i] = row[i] \/ row'[i] = new
      BY <3>1 DEF Insert, Base, TypeOK
    <3>3. new.state = "sent"
      OBVIOUS
    <3> HIDE DEF new
    <3> QED BY <3>2, <3>3
  <2> QED BY <2>1, <2>2
<1> QED BY <1>1, <1>2, <1>3, SessionFail

\* What changes no status: a count, or the end of a session
LEMMA SameStatus ==
  ASSUME Base, FailInv, UNCHANGED reader,
         \A r \in RunIds: /\ run'[r].kind = run[r].kind /\ run'[r].old = run[r].old
                          /\ run'[r].status = run[r].status,
         \A v \in Workers: worker'[v] = worker[v] \/ worker'[v].run = 0
                           \/ (worker'[v].run = worker[v].run /\ worker[v].pc # "record"),
         \A i \in RowIds: row'[i].state = "live" =>
            \/ row'[i].run = 0
            \/ row'[i].run \in RunIds /\ run[row'[i].run].kind = "files"
            \/ row'[i] = row[i]
  PROVE  FailInv'
<1>1. ASSUME NEW i \in RowIds PROVE CommittedOK(i)'
  <2> SUFFICES ASSUME row'[i].state = "live", row'[i].run # 0, run'[row'[i].run].kind # "files"
               PROVE  CommittedOK(i)'
    BY DEF CommittedOK
  <2>1. row'[i] = row[i] /\ row[i].run \in RunIds
    BY RowRun
  <2>2. CommittedOK(i)
    BY DEF FailInv
  <2>3. \A v \in Workers: worker'[v].run = row[i].run => worker'[v].pc = "record"
    BY <2>1, <2>2 DEF CommittedOK, RunIds
  <2> QED BY <2>1, <2>2, <2>3 DEF CommittedOK
<1>2. StaleInv'
  <2>1. \A r \in RunIds: run'[r].old => \A v \in Workers: worker'[v].run # r
    BY DEF FailInv, StaleInv, RunIds
  <2> QED BY <2>1 DEF FailInv, StaleInv
<1> QED BY <1>1, <1>2 DEF FailInv

LEMMA ImportFail ==
  ASSUME Base, FailInv, NEW w \in Workers, ImportCommit(w)
  PROVE  FailInv'
<1>1. TypeOK /\ SessionOK(w)
  BY DEF Base, SessionInv
<1> DEFINE R == worker[w].run
<1>2. /\ worker[w].pc = "import" /\ UNCHANGED reader
      /\ run' = IF R = 0 THEN run ELSE [run EXCEPT ![R].count = worker[w].count]
      /\ row' = [row EXCEPT ![nrow + 1] = [fp |-> worker[w].hit, state |-> "live", run |-> R]]
  BY DEF ImportCommit
<1>3. R # 0 => R \in RunIds /\ run[R].kind = "files"
  BY <1>1, <1>2, DiscoveryAssumption DEF SessionOK, TypeOK, Session, RunIds
<1>4. \A i \in RowIds: row'[i].state = "live" =>
        row'[i].run = 0 \/ (row'[i].run \in RunIds /\ run[row'[i].run].kind = "files") \/ row'[i] = row[i]
  <2>1. \A i \in RowIds: row'[i] = row[i] \/ row'[i] = [fp |-> worker[w].hit, state |-> "live", run |-> R]
    BY <1>1, <1>2 DEF TypeOK
  <2> HIDE DEF R
  <2> QED BY <1>3, <2>1
<1>5. \A r \in RunIds: /\ run'[r].kind = run[r].kind /\ run'[r].old = run[r].old
                       /\ run'[r].status = run[r].status
  BY <1>1, <1>2 DEF TypeOK, Run
<1>6. \A v \in Workers: worker'[v] = worker[v] \/ worker'[v].run = 0
                        \/ (worker'[v].run = worker[v].run /\ worker[v].pc # "record")
  <2>1. \A v \in Workers: v # w => worker'[v] = worker[v]
    BY <1>1 DEF ImportCommit, TypeOK
  <2>2. worker'[w] = IF R = 0 THEN Idle
                     ELSE [worker[w] EXCEPT !.pc = "scan", !.hit = NoFp, !.count = worker[w].count + 1,
                                            !.skip = worker[w].skip \cup {worker[w].hit}]
    BY <1>1 DEF ImportCommit, TypeOK
  <2>3. worker'[w].run = R
    BY <1>1, <2>2 DEF Idle, TypeOK, Session
  <2> QED BY <1>2, <2>1, <2>3
<1> QED BY <1>2, <1>4, <1>5, <1>6, SameStatus

LEMMA RecordFail ==
  ASSUME Base, FailInv, NEW w \in Workers, RecordRun(w) \/ Crash(w)
  PROVE  FailInv'
<1>1. /\ UNCHANGED <<run, reader>> /\ \A v \in Workers: worker'[v] = worker[v] \/ worker'[v].run = 0
  BY DEF RecordRun, Crash, Base, TypeOK, Idle
<1>2. \A i \in RowIds: row'[i].state = "live" => row'[i] = row[i]
  BY DEF RecordRun, Crash, Undone, Base, TypeOK, Row
<1> QED BY <1>1, <1>2, SameStatus

LEMMA RollbackFail ==
  ASSUME Base, FailInv, NEW w \in Workers, RunFails(w), "late" \notin Inputs
  PROVE  FailInv'
<1>1. TypeOK /\ SessionOK(w)
  BY DEF Base, SessionInv
<1> DEFINE R == worker[w].run
<1>2. /\ worker[w].pc \in {"scan", "failing"} /\ UNCHANGED reader
      /\ run' = [run EXCEPT ![R].status = "failed"]
  BY DEF RunFails
<1>3. \A v \in Workers: worker'[v] = worker[v] \/ worker'[v].run = 0
  BY <1>1 DEF RunFails, TypeOK, Idle
<1>4. \A i \in RowIds: row'[i].state = "live" => row'[i] = row[i]
  BY <1>1 DEF RunFails, Undone, TypeOK, Row
<1> HIDE DEF R
<1>5. \A r \in RunIds: run'[r].kind = run[r].kind /\ run'[r].old = run[r].old /\ (r # R => run'[r] = run[r])
  BY <1>1, <1>2 DEF TypeOK, Run
<1>6. ASSUME NEW i \in RowIds PROVE CommittedOK(i)'
  <2> SUFFICES ASSUME row'[i].state = "live", row'[i].run # 0, run'[row'[i].run].kind # "files"
               PROVE  CommittedOK(i)'
    BY DEF CommittedOK
  <2>1. row'[i] = row[i] /\ row[i].run \in RunIds
    BY <1>4, RowRun
  <2>2. CommittedOK(i) /\ run[row[i].run].kind # "files"
    BY <1>5, <2>1 DEF FailInv
  <2>3. row[i].run # R
    BY <1>2, <2>1, <2>2 DEF CommittedOK, R
  <2>4. run'[row[i].run] = run[row[i].run]
    BY <1>5, <2>1, <2>3
  <2> QED BY <1>3, <2>1, <2>2, <2>4 DEF CommittedOK
<1>7. StaleInv'
  <2>1. \A r \in RunIds: run'[r].old => \A v \in Workers: worker'[v].run # r
    BY <1>3, <1>5 DEF FailInv, StaleInv, RunIds
  <2> QED BY <1>2, <1>5, <2>1 DEF FailInv, StaleInv
<1> QED BY <1>6, <1>7 DEF FailInv

LEMMA StartFail ==
  ASSUME Base, FailInv, NEW w \in Workers, NEW kind, NEW batch, StartRun(w, kind, batch)
  PROVE  FailInv'
<1>1. TypeOK
  BY DEF Base
<1> DEFINE x == nrun + 1
<1>2. UNCHANGED <<row, reader>> /\ run' = [run EXCEPT ![x] = [NoRun EXCEPT !.kind = kind, !.status = "running"]]
  BY DEF StartRun
<1>3. worker'[w].run = x /\ \A v \in Workers: v # w => worker'[v] = worker[v]
  BY <1>1 DEF StartRun, TypeOK, Idle
<1>4. \A i \in RowIds: row[i].run # x
  <2>1. \A i \in RowIds: row[i].run \in Nat /\ row[i].run <= nrun
    BY <1>1, DiscoveryAssumption DEF TypeOK, Row, Base, RowInv, RowOK
  <2> QED BY <1>1, <2>1 DEF TypeOK
<1>5. \A q \in Readers: reader[q].run \in RunIds => reader[q].run # x
  <2>1. \A q \in Readers: reader[q].run <= nrun
    BY DEF Base, RunInv
  <2> QED BY <1>1, <2>1 DEF TypeOK, RunIds
<1> HIDE DEF x
<1>6. \A r \in RunIds: (r # x => run'[r] = run[r]) /\ (r = x => ~run'[r].old)
  BY <1>1, <1>2 DEF TypeOK, NoRun
<1>7. ASSUME NEW i \in RowIds PROVE CommittedOK(i)'
  <2>1. row[i].run # 0 => run'[row[i].run] = run[row[i].run]
    BY <1>4, <1>6, RowRun
  <2> QED BY <1>2, <1>3, <1>4, <2>1 DEF FailInv, CommittedOK
<1>8. StaleInv'
  <2>1. \A r \in RunIds: run'[r].old => \A v \in Workers: worker'[v].run # r
    BY <1>3, <1>6 DEF FailInv, StaleInv
  <2> QED BY <1>2, <1>5, <1>6, <2>1 DEF FailInv, StaleInv
<1> QED BY <1>7, <1>8 DEF FailInv

\* The final commit: the run is completed with its rows.
LEMMA CompleteFail ==
  ASSUME Base, FailInv, NEW w \in Workers, Complete(w), CanFlush(w)
  PROVE  FailInv'
<1>1. TypeOK
  BY DEF Base
<1> DEFINE R == worker[w].run
<1>2. worker[w].pc = "scan" /\ worker[w] \in Session /\ R \in RunIds /\ R # 0
  BY ScanSession DEF Complete
<1>3. Flushed(worker[w]).run = R
  BY <1>2, FlushedSession
<1>4. /\ run' = [run EXCEPT ![R].status = "completed", ![R].count = Flushed(worker[w]).count]
      /\ row' = [i \in RowIds |-> IF i \in Sent(w) THEN [row[i] EXCEPT !.state = "live"] ELSE row[i]]
      /\ worker' = [worker EXCEPT ![w] = [Idle EXCEPT !.pc = "record", !.run = R]]
      /\ UNCHANGED reader
  BY <1>3 DEF Complete
<1>5. /\ worker'[w].run = R /\ worker'[w].pc = "record"
      /\ \A v \in Workers: v # w => worker'[v] = worker[v]
  BY <1>1, <1>4 DEF TypeOK, Idle
<1>6. \A r \in RunIds: /\ run'[r].kind = run[r].kind /\ run'[r].old = run[r].old
                       /\ r # R => run'[r] = run[r]
                       /\ r = R => run'[r].status = "completed"
  BY <1>1, <1>4 DEF TypeOK, Run
<1>7. ~run[R].old
  BY <1>2 DEF FailInv, StaleInv
<1>8. ASSUME NEW i \in RowIds PROVE CommittedOK(i)'
  <2>1. row'[i].run = row[i].run /\ (row[i].run # R => row'[i] = row[i])
    BY <1>1, <1>4 DEF Sent, TypeOK, Row
  <2>2. row[i].run # 0 => row[i].run \in RunIds
    BY RowRun
  <2>3. CASE row[i].run = R
    <3>1. \A v \in Workers: worker'[v].run = R => worker'[v].pc = "record"
      BY <1>2, <1>5, OwnRows
    <3> QED BY <1>2, <1>6, <1>7, <2>1, <2>3, <3>1 DEF CommittedOK
  <2>4. CASE row[i].run # R
    BY <1>5, <1>6, <2>1, <2>2, <2>4 DEF FailInv, CommittedOK
  <2> QED BY <2>3, <2>4
<1>9. StaleInv'
  <2>1. \A v \in Workers: worker'[v].run = worker[v].run
    BY <1>5
  <2>2. \A r \in RunIds: run'[r].old => \A v \in Workers: worker'[v].run # r
    BY <1>6, <2>1 DEF FailInv, StaleInv
  <2>3. reader' = reader /\ \A r \in RunIds: run'[r].old = run[r].old
    BY <1>4, <1>6
  <2> QED BY <2>2, <2>3 DEF FailInv, StaleInv
<1> QED BY <1>8, <1>9 DEF FailInv

\* A request writes the status of a run it read earlier.
LEMMA RequestFail ==
  ASSUME Base, FailInv,
         \/ \E r \in RunIds: HourPasses(r)
         \/ \E q \in Readers: ResetWrite(q) \/ \E r \in RunIds: CancelRead(q, r) \/ StaleRead(q, r)
  PROVE  FailInv'
<1>1. TypeOK /\ (\A i \in RowIds: CommittedOK(i)) /\ StaleInv
  BY DEF Base, FailInv
<1>2. ASSUME NEW r \in RunIds, HourPasses(r) PROVE FailInv'
  <2>1. /\ run' = [run EXCEPT ![r].old = TRUE] /\ run[r].status = "running"
        /\ UNCHANGED <<row, worker, reader>> /\ \A w \in Workers: worker[w].run # r
    BY <1>2 DEF HourPasses
  <2>2. \A z \in RunIds: /\ z # r => run'[z] = run[z]
                         /\ run'[z].kind = run[z].kind /\ (run[z].old => run'[z].old)
    BY <1>1, <2>1 DEF TypeOK, Run
  <2>3. ASSUME NEW i \in RowIds PROVE CommittedOK(i)'
    <3>1. row[i].run # 0 => row[i].run \in RunIds
      BY RowRun
    <3>2. CommittedOK(i)
      BY <1>1
    <3>3. row[i].run = r /\ row[i].state = "live" => run[r].kind = "files"
      BY <2>1, <3>2 DEF CommittedOK, RunIds
    <3> QED BY <2>1, <2>2, <3>1, <3>2, <3>3 DEF CommittedOK
  <2>4. StaleInv'
    <3>1. \A z \in RunIds: run'[z].old => \A w \in Workers: worker'[w].run # z
      BY <1>1, <2>1, <2>2 DEF StaleInv
    <3> QED BY <1>1, <2>1, <2>2, <3>1 DEF StaleInv
  <2> QED BY <2>3, <2>4 DEF FailInv
<1>3. ASSUME NEW q \in Readers, NEW r \in RunIds, CancelRead(q, r) \/ StaleRead(q, r) PROVE FailInv'
  <2>1. UNCHANGED <<run, row, worker>> /\ \A p \in Readers: p # q => reader'[p] = reader[p]
    BY <1>1, <1>3 DEF CancelRead, StaleRead, TypeOK
  <2>2. \/ reader'[q].to = "cancelled"
        \/ reader'[q].to = "failed" /\ reader'[q].run \in RunIds /\ run[reader'[q].run].old
    BY <1>1, <1>3 DEF CancelRead, StaleRead, TypeOK
  <2> QED BY <1>1, <2>1, <2>2 DEF FailInv, CommittedOK, StaleInv
<1>4. ASSUME NEW q \in Readers, ResetWrite(q) PROVE FailInv'
  <2> DEFINE R == reader[q].run
             to == reader[q].to
  <2>1. /\ run' = [run EXCEPT ![R].status = to] /\ reader[q] # NoReset
        /\ reader' = [reader EXCEPT ![q] = NoReset] /\ UNCHANGED <<row, worker>>
    BY <1>4 DEF ResetWrite
  <2>2. to = "cancelled" \/ (to = "failed" /\ R \in RunIds /\ run[R].old)
    BY <1>1, <2>1 DEF StaleInv
  <2> HIDE DEF R, to
  <2>3. \A r \in RunIds: /\ run'[r].kind = run[r].kind /\ run'[r].old = run[r].old
                         /\ r # R => run'[r] = run[r]
                         /\ r = R => run'[r].status = to
    BY <1>1, <2>1 DEF TypeOK, Run
  <2>4. ASSUME NEW i \in RowIds PROVE CommittedOK(i)'
    <3>1. row[i].run # 0 => row[i].run \in RunIds
      BY RowRun
    <3>2. CommittedOK(i)
      BY <1>1
    <3>3. CASE row[i].run # R
      BY <2>1, <2>3, <3>1, <3>2, <3>3 DEF CommittedOK
    <3>4. CASE row[i].run = R
      BY <2>1, <2>2, <2>3, <3>1, <3>2, <3>4 DEF CommittedOK
    <3> QED BY <3>3, <3>4
  <2>5. StaleInv'
    <3>1. \A p \in Readers: reader'[p] = reader[p] \/ reader'[p] = NoReset
      BY <1>1, <2>1 DEF TypeOK
    <3> QED BY <1>1, <2>1, <2>3, <3>1 DEF StaleInv
  <2> QED BY <2>4, <2>5 DEF FailInv
<1> QED BY <1>2, <1>3, <1>4

LEMMA TableFail ==
  ASSUME Base, FailInv, RowsWritten PROVE FailInv'
<1>1. UNCHANGED <<run, worker, reader>> /\ \A i \in RowIds: row'[i].state = "live" => row'[i] = row[i]
  BY DEF RowsWritten
<1> QED BY <1>1 DEF FailInv, CommittedOK, StaleInv

LEMMA FailNext ==
  ASSUME "late" \notin Inputs PROVE Base /\ FailInv /\ [Next]_vars => FailInv'
<1> SUFFICES ASSUME Base, FailInv, [Next]_vars PROVE FailInv'
  OBVIOUS
<1>1. CASE UNCHANGED vars
  BY <1>1 DEF vars, FailInv, CommittedOK, StaleInv
<1>2. CASE Next
  BY <1>2, Effects, ItemFail, ImportFail, RecordFail, RollbackFail, StartFail, CompleteFail,
     RequestFail, TableEffect, TableFail
<1> QED BY <1>1, <1>2

\* _tracked_run: when no exception comes after a scan's final commit, a network scan or CT
\* run that is marked failed, by its own session or as stale by a reader, has added
\* nothing to the inventory, for any number of sessions.
THEOREM FailedAddsNothing ==
  ASSUME "late" \notin Inputs PROVE Spec => []FailedLeavesNoRows
<1>1. Init => FailInv
  BY DEF Init, FailInv, CommittedOK, StaleInv, NilRow, NoRun
<1>2. Base /\ FailInv /\ [Next]_vars => FailInv'
  BY FailNext
<1>3. FailInv => FailedLeavesNoRows
  BY DEF FailInv, CommittedOK, FailedLeavesNoRows, Live
<1> QED BY <1>1, <1>2, <1>3, Always, PTL DEF Spec

----------------------------------------------------------------------------
(* One session at a time *)

\* What a query of the only session does not find is in no row.
LEMMA NotVisible ==
  ASSUME Base, OneSession, NEW w \in Workers, NEW fp, Visible(w, fp) = {},
         NEW i \in RowIds, Shown(i)
  PROVE  row[i].fp # fp
<1>1. row[i].state = "sent" => \E v \in Workers: worker[v].run = row[i].run
  BY DEF Base, RowInv, RowOK
<1>2. i \in Live \cup Sent(w)
  BY <1>1 DEF Shown, OneSession, Live, Sent
<1> QED BY <1>2 DEF Visible

\* Steps that add no row and begin no import
LEMMA NoNewRow ==
  ASSUME DupInv,
         \A i \in RowIds: Shown(i)' => Shown(i) /\ row'[i].fp = row[i].fp,
         \A w \in Workers: worker'[w].pc # "import" \/ worker'[w] = worker[w]
  PROVE  DupInv'
BY DEF DupInv

\* Steps that add a row of a certificate that is in none
LEMMA NewRow ==
  ASSUME DupInv, NEW x \in RowIds, NEW fp,
         \A i \in RowIds: Shown(i) => row[i].fp # fp,
         row'[x].fp = fp,
         \A i \in RowIds: i # x => row'[i] = row[i],
         \A w \in Workers: worker'[w].pc # "import"
  PROVE  DupInv'
BY DEF DupInv, Shown

LEMMA QuietDup ==
  ASSUME Base, OneSession, DupInv, NEW w \in Workers, NEW s, Quiet(w, s) PROVE DupInv'
<1>1. UNCHANGED row /\ worker'[w] = s
  BY DEF Quiet, Base, TypeOK
<1>2. \A v \in Workers: v = w
  BY DEF OneSession
<1>3. ASSUME s.pc = "import", NEW i \in RowIds, Shown(i) PROVE row[i].fp # s.hit
  <2>1. Visible(w, s.hit) = {}
    BY <1>3 DEF Quiet
  <2> QED BY <1>3, <2>1, NotVisible
<1> QED BY <1>1, <1>2, <1>3 DEF DupInv, Shown

LEMMA InsertDup ==
  ASSUME Base, OneSession, DupInv, NEW w \in Workers, NEW s, NEW fp, Insert(w, s, fp) PROVE DupInv'
<1>1. worker'[w] = s /\ s.pc = "scan"
  BY DEF Insert, Base, TypeOK
<1>2. \A v \in Workers: worker'[v].pc # "import"
  BY <1>1 DEF OneSession
<1>3. nrow + 1 \in RowIds
  BY DiscoveryAssumption DEF Insert, Base, TypeOK, RowIds
<1>4. row'[nrow + 1].fp = fp /\ \A i \in RowIds: i # nrow + 1 => row'[i] = row[i]
  BY <1>3 DEF Insert, Base, TypeOK
<1>5. \A i \in RowIds: Shown(i) => row[i].fp # fp
  BY NotVisible DEF Insert
<1> QED BY <1>2, <1>3, <1>4, <1>5, NewRow

LEMMA ImportDup ==
  ASSUME Base, OneSession, DupInv, NEW w \in Workers, ImportCommit(w) PROVE DupInv'
<1>1. /\ worker[w].pc = "import"
      /\ worker'[w] = IF worker[w].run = 0 THEN Idle
                      ELSE [worker[w] EXCEPT !.pc = "scan", !.hit = NoFp, !.count = worker[w].count + 1,
                                             !.skip = worker[w].skip \cup {worker[w].hit}]
  BY DEF ImportCommit, Base, TypeOK
<1>2. worker'[w].pc # "import"
  BY <1>1 DEF Idle, Base, TypeOK, Session
<1>3. \A v \in Workers: worker'[v].pc # "import"
  BY <1>2 DEF OneSession
<1>4. nrow + 1 \in RowIds
  BY DiscoveryAssumption DEF ImportCommit, Base, TypeOK, RowIds
<1>5. row'[nrow + 1].fp = worker[w].hit /\ \A i \in RowIds: i # nrow + 1 => row'[i] = row[i]
  BY <1>4 DEF ImportCommit, Base, TypeOK
<1>6. \A i \in RowIds: Shown(i) => row[i].fp # worker[w].hit
  BY <1>1 DEF DupInv
<1> QED BY <1>3, <1>4, <1>5, <1>6, NewRow

LEMMA OtherDup ==
  ASSUME Base, OneSession, DupInv,
         \/ \E w \in Workers:
              \/ (Complete(w) /\ CanFlush(w)) \/ RecordRun(w) \/ RunFails(w) \/ Crash(w)
              \/ \E kind \in Kinds, batch \in Batches: StartRun(w, kind, batch)
         \/ RunWritten \/ RowsWritten
  PROVE  DupInv'
<1>1. CASE RunWritten \/ RowsWritten
  <2>1. \A i \in RowIds: Shown(i)' => Shown(i) /\ row'[i].fp = row[i].fp
    BY <1>1 DEF RunWritten, RowsWritten, Shown
  <2>2. UNCHANGED worker
    BY <1>1 DEF RunWritten, RowsWritten
  <2> QED BY <2>1, <2>2, NoNewRow
<1>2. ASSUME NEW w \in Workers,
             \/ (Complete(w) /\ CanFlush(w)) \/ RecordRun(w) \/ RunFails(w) \/ Crash(w)
             \/ \E kind \in Kinds, batch \in Batches: StartRun(w, kind, batch)
      PROVE  DupInv'
  <2>1. worker'[w].pc # "import"
    <3>1. worker \in [Workers -> Session] /\ Idle.pc = "idle"
      BY DEF Base, TypeOK, Idle
    <3>2. CASE RecordRun(w) \/ RunFails(w) \/ Crash(w)
      BY <3>1, <3>2 DEF RecordRun, RunFails, Crash
    <3>3. CASE Complete(w) /\ CanFlush(w)
      <4>1. worker' = [worker EXCEPT ![w] = [Idle EXCEPT !.pc = "record", !.run = Flushed(worker[w]).run]]
        BY <3>3 DEF Complete
      <4> QED BY <3>1, <4>1 DEF Idle
    <3>4. ASSUME NEW kind \in Kinds, NEW batch \in Batches, StartRun(w, kind, batch)
          PROVE  worker'[w].pc # "import"
      BY <3>1, <3>4 DEF StartRun, Idle
    <3> QED BY <1>2, <3>2, <3>3, <3>4
  <2>2. \A v \in Workers: worker'[v].pc # "import"
    BY <2>1 DEF OneSession
  <2>3. \A i \in RowIds: row[i] \in Row
    BY DEF Base, TypeOK
  <2>4. \A i \in RowIds: Shown(i)' => Shown(i) /\ row'[i].fp = row[i].fp
    <3>1. CASE Complete(w) /\ CanFlush(w)
      <4>1. row' = [i \in RowIds |-> IF i \in Sent(w) THEN [row[i] EXCEPT !.state = "live"] ELSE row[i]]
        BY <3>1 DEF Complete
      <4> QED BY <2>3, <4>1 DEF Shown, Sent, Row
    <3>2. CASE RunFails(w) \/ Crash(w)
      <4>1. row' = [i \in RowIds |-> IF i \in Sent(w) THEN [row[i] EXCEPT !.state = "void"] ELSE row[i]]
        BY <3>2 DEF RunFails, Crash, Undone
      <4> QED BY <2>3, <4>1 DEF Shown, Sent, Row
    <3>3. CASE UNCHANGED row
      BY <3>3 DEF Shown
    <3> QED BY <1>2, <3>1, <3>2, <3>3 DEF RecordRun, StartRun
  <2> QED BY <2>2, <2>4, NoNewRow
<1> QED BY <1>1, <1>2

\* The filesystem scan's set of fingerprints, the network scan's query and the CT
\* monitor's: each keeps a certificate from being registered twice, in any sequence of
\* scans, uploads, deletions and failures, as long as one session works at a time.
THEOREM RegisteredOnce ==
  ASSUME OneSession PROVE Spec => []NoDuplicates
<1>1. Init => DupInv
  BY DEF Init, DupInv, Shown, NilRow
<1>2. Base /\ DupInv /\ [Next]_vars => DupInv'
  <2> SUFFICES ASSUME Base, DupInv, [Next]_vars PROVE DupInv'
    OBVIOUS
  <2>1. CASE UNCHANGED vars
    BY <2>1 DEF vars, DupInv, Shown
  <2>2. CASE Next
    BY <2>2, Effects, QuietDup, InsertDup, ImportDup, OtherDup, RequestEffect, TableEffect
  <2> QED BY <2>1, <2>2
<1>3. DupInv => NoDuplicates
  BY DEF DupInv, NoDuplicates, Live, Shown
<1> QED BY <1>1, <1>2, <1>3, Always, PTL DEF Spec

----------------------------------------------------------------------------
(* Findings *)

LEMMA ItemFind ==
  ASSUME Base, OneSession, FindInv, NEW w \in Workers, NEW s, Quiet(w, s) \/ \E fp: Insert(w, s, fp)
  PROVE  FindInv' /\ UNCHANGED find
<1>1. UNCHANGED find /\ worker'[w] = s /\ Pending(w, s)
  BY DEF Quiet, Insert, Base, TypeOK
<1>2. \A v \in Workers: v = w
  BY DEF OneSession
<1> QED BY <1>1, <1>2 DEF FindInv, Pending

\* A session that ends or begins, and the import of a file, add no finding.
LEMMA SessionFind ==
  ASSUME Base, OneSession, FindInv, NEW w \in Workers,
         \/ ImportCommit(w) \/ RecordRun(w) \/ RunFails(w) \/ Crash(w)
         \/ \E kind \in Kinds, batch \in Batches: StartRun(w, kind, batch)
  PROVE  FindInv' /\ UNCHANGED find
<1>1. \A v \in Workers: v = w
  BY DEF OneSession
<1>2. UNCHANGED find
  BY DEF ImportCommit, RecordRun, RunFails, Crash, StartRun
<1>3. Idle.finds = Zero /\ Idle.sentfinds = Zero
  BY DEF Idle
<1>4. worker \in [Workers -> Session]
  BY DEF Base, TypeOK
<1>5. \/ worker'[w].finds = Zero /\ worker'[w].sentfinds = Zero
      \/ worker'[w].finds = worker[w].finds /\ worker'[w].sentfinds = worker[w].sentfinds
  <2>1. CASE RecordRun(w) \/ RunFails(w) \/ Crash(w)
    BY <1>3, <1>4, <2>1 DEF RecordRun, RunFails, Crash
  <2>2. ASSUME NEW kind \in Kinds, NEW batch \in Batches, StartRun(w, kind, batch)
        PROVE  worker'[w].finds = Zero /\ worker'[w].sentfinds = Zero
    BY <1>4, <2>2 DEF StartRun, Idle
  <2>3. CASE ImportCommit(w)
    <3>1. worker'[w] = IF worker[w].run = 0 THEN Idle
                       ELSE [worker[w] EXCEPT !.pc = "scan", !.hit = NoFp, !.count = worker[w].count + 1,
                                              !.skip = worker[w].skip \cup {worker[w].hit}]
      BY <1>4, <2>3 DEF ImportCommit
    <3> QED BY <1>3, <1>4, <3>1 DEF Session
  <2> QED BY <2>1, <2>2, <2>3
<1> QED BY <1>1, <1>2, <1>5 DEF FindInv, Zero

LEMMA CompleteFind ==
  ASSUME Base, OneSession, FindInv, NEW w \in Workers, Complete(w), CanFlush(w)
  PROVE  /\ FindInv'
         /\ \A i \in RowIds: find'[i].active > find[i].active => find[i].active = 0
<1>1. \A v \in Workers: v = w
  BY DEF OneSession
<1>2. worker[w] \in Session /\ find \in [RowIds -> [active: Nat, closed: Nat]]
  BY DEF Base, TypeOK
<1>3. worker' = [worker EXCEPT ![w] = [Idle EXCEPT !.pc = "record", !.run = Flushed(worker[w]).run]]
  BY DEF Complete
<1>4. worker'[w].finds = Zero /\ worker'[w].sentfinds = Zero
  BY <1>3 DEF Base, TypeOK, Idle
<1>5. FindInv'
  BY <1>1, <1>4 DEF FindInv, Zero
<1>6. ASSUME NEW i \in RowIds, find'[i].active > find[i].active PROVE find[i].active = 0
  <2>1. find' = [j \in RowIds |-> [find[j] EXCEPT !.active = find[j].active + Flushed(worker[w]).sentfinds[j]]]
    BY DEF Complete
  <2>2. Flushed(worker[w]).sentfinds[i] = worker[w].sentfinds[i] + worker[w].finds[i]
    BY <1>2, FlushedSession
  <2>3. find'[i].active = find[i].active + (worker[w].sentfinds[i] + worker[w].finds[i])
    BY <1>2, <2>1, <2>2
  <2>4. worker[w].sentfinds[i] \in Nat /\ worker[w].finds[i] \in Nat /\ find[i].active \in Nat
    BY <1>2 DEF Session
  <2>5. worker[w].sentfinds[i] # 0 \/ worker[w].finds[i] # 0
    <3>1. \A a, b, c \in Nat: a + (b + c) > a => b # 0 \/ c # 0
      OBVIOUS
    <3> QED BY <1>6, <2>3, <2>4, <3>1
  <2> QED BY <2>5 DEF FindInv
<1> QED BY <1>5, <1>6

LEMMA TableFind ==
  ASSUME Base, FindInv, "reopen" \notin Inputs,
         \/ \E i \in RowIds: DeleteCertificate(i) \/ CloseFinding(i) \/ ReopenFinding(i)
         \/ \E fp \in Fps: DeleteIgnore(fp)
  PROVE  /\ FindInv'
         /\ \A i \in RowIds: ~(find'[i].active > find[i].active)
<1>1. find \in [RowIds -> [active: Nat, closed: Nat]] /\ UNCHANGED worker
  BY DEF Base, TypeOK, DeleteCertificate, CloseFinding, ReopenFinding, DeleteIgnore
<1>2. ASSUME NEW i \in RowIds, DeleteCertificate(i) \/ CloseFinding(i)
      PROVE  /\ \A j \in RowIds: j # i => find'[j] = find[j]
             /\ find'[i].active = 0 \/ find[i].active > 0
             /\ ~(find'[i].active > find[i].active)
  <2>1. CASE DeleteCertificate(i)
    BY <1>1, <2>1 DEF DeleteCertificate, NoFindings
  <2>2. CASE CloseFinding(i)
    <3>1. find'[i].active = find[i].active - 1 /\ find[i].active > 0 /\ find[i].active \in Nat
      BY <1>1, <2>2 DEF CloseFinding
    <3>2. \A j \in RowIds: j # i => find'[j] = find[j]
      BY <1>1, <2>2 DEF CloseFinding
    <3> QED BY <3>1, <3>2
  <2> QED BY <1>2, <2>1, <2>2
<1>3. \A j \in RowIds: find[j].active \in Nat
  BY <1>1
<1>4. ASSUME NEW i \in RowIds, DeleteCertificate(i) \/ CloseFinding(i)
      PROVE  FindInv' /\ \A j \in RowIds: ~(find'[j].active > find[j].active)
  <2>1. ASSUME NEW w \in Workers, NEW j \in RowIds,
               worker[w].finds[j] # 0 \/ worker[w].sentfinds[j] # 0
        PROVE  find'[j].active = 0
    <3>1. find[j].active = 0
      BY <2>1 DEF FindInv
    <3>2. ~(find[j].active > 0)
      BY <3>1
    <3> QED BY <1>2, <1>4, <3>1, <3>2
  <2>2. \A j \in RowIds: ~(find'[j].active > find[j].active)
    BY <1>2, <1>3, <1>4
  <2> QED BY <1>1, <2>1, <2>2 DEF FindInv
<1>5. ASSUME NEW fp \in Fps, DeleteIgnore(fp) PROVE UNCHANGED find
  BY <1>5 DEF DeleteIgnore
<1>6. CASE UNCHANGED find
  BY <1>1, <1>3, <1>6 DEF FindInv
<1> QED BY <1>4, <1>5, <1>6 DEF ReopenFinding

LEMMA FindNext ==
  ASSUME OneSession, "reopen" \notin Inputs
  PROVE  Base /\ FindInv /\ [Next]_vars =>
           /\ FindInv'
           /\ \A i \in RowIds: find'[i].active > find[i].active => find[i].active = 0
<1> SUFFICES ASSUME Base, FindInv, [Next]_vars
             PROVE  /\ FindInv'
                    /\ \A i \in RowIds: find'[i].active > find[i].active => find[i].active = 0
  OBVIOUS
<1>1. \A i \in RowIds: find[i].active \in Nat
  BY DEF Base, TypeOK
<1>2. ASSUME FindInv', UNCHANGED find
      PROVE  FindInv' /\ \A i \in RowIds: find'[i].active > find[i].active => find[i].active = 0
  BY <1>1, <1>2
<1>3. CASE UNCHANGED vars
  <2>1. FindInv'
    BY <1>3 DEF vars, FindInv
  <2> QED BY <1>2, <1>3, <2>1 DEF vars
<1>4. CASE RunWritten
  <2>1. FindInv' /\ UNCHANGED find
    BY <1>4 DEF RunWritten, FindInv
  <2> QED BY <1>2, <2>1
<1>5. CASE Next
  BY <1>2, <1>4, <1>5, Effects, ItemFind, SessionFind, CompleteFind, TableFind, RequestEffect
<1> QED BY <1>3, <1>5

\* _record_ct_observation opens no finding of a certificate that has an active one,
\* although it adds and flushes them in batches, as long as one session works at a time
\* and nobody reopens a finding meanwhile.
THEOREM OneFindingPerCertificate ==
  ASSUME OneSession, "reopen" \notin Inputs PROVE Spec => FindingsCorrelate
<1>1. Init => FindInv
  BY DEF Init, FindInv, NoFindings
<1>2. Base /\ FindInv /\ [Next]_vars => FindInv'
  BY FindNext
<1>3. Base /\ FindInv /\ [Next]_vars =>
        [\A i \in RowIds: find'[i].active > find[i].active /\ find'[i].closed = find[i].closed
           => find[i].active = 0]_vars
  BY FindNext
<1> QED BY <1>1, <1>2, <1>3, Always, PTL DEF Spec, FindingsCorrelate
=============================================================================
