--------------------------- MODULE UsageScanProofs ---------------------------
(***************************************************************************)
(* Proofs about UsageScan, for any hosts, ports, requests, workers and     *)
(* bounds: it implements ScanRun, the counters of a completed scan account *)
(* for every candidate, and no scan replaces a better source.              *)
(*                                                                         *)
(* All three rest on one fact: a scan is worked on by one session at a     *)
(* time, although messages are delivered again after a crash (HoldInv).    *)
(***************************************************************************)
EXTENDS UsageScan, FiniteSetTheorems, WellFoundedInduction, TLAPS

Active == {"empty", "scan", "wait", "failing"}

\* The scans a session answers for: the one it works on and the one its message names
Holds(w) == {worker[w].scan, worker[w].msg.scan} \ {0}

\* A session that works has a scan that exists, and its message names no other.
SessionOK(w) ==
  /\ worker[w].pc \in Active => worker[w].scan \in 1..nscan
  /\ worker[w].pc \notin Active => worker[w].scan = 0 /\ worker[w].buf = {}
  /\ worker[w].pc # "idle" => worker[w].msg \in Messages
  /\ worker[w].pc = "idle" => worker[w].msg = NoMsg
  /\ worker[w].scan # 0 => worker[w].msg.scan \in {0, worker[w].scan}
  /\ worker[w].msg.scan <= nscan

\* Every scan is in one pair of hands: one session's or one message's.
HoldInv ==
  /\ \A w \in Workers: SessionOK(w)
  /\ \A v, w \in Workers: v # w => Holds(v) \cap Holds(w) = {}
  /\ \A m \in queue: /\ m.scan <= nscan
                     /\ \A w \in Workers: m.scan \notin Holds(w)
  /\ \A m, n \in queue: m.scan = n.scan /\ m.scan # 0 => m = n

\* A scan somebody works on is running, unless it was deleted; nothing is written
\* for a certificate that is gone.
RunInv ==
  /\ \A w \in Workers: worker[w].pc \in Active =>
       /\ scan[worker[w].scan].status \in {"running", "gone"}
       /\ ~scan[worker[w].scan].old
  /\ \A s \in ScanIds: scan[s].status = "gone" => ~cert
  /\ \A w \in Workers: worker[w].buf # {} => cert
  /\ \A w \in Workers: worker[w].pc = "scan" => worker[w].todo # {} \/ worker[w].buf # {}

TInv == TypeOK /\ HoldInv /\ RunInv

\* The counters of a scan that has completed, once or more often
ScanCount(s) ==
  /\ scan[s].ends = 0 => scan[s].scanned = 0 /\ scan[s].counted = 0
  /\ scan[s].ends > 0 => /\ scan[s].counted = scan[s].candidates
                         /\ scan[s].scanned >= scan[s].candidates
                         /\ scan[s].ends = 1 => scan[s].scanned = scan[s].candidates
  /\ scan[s].status \in {"nil", "queued", "gone"} => scan[s].ends = 0
  /\ scan[s].status = "completed" => scan[s].ends > 0

Begun(s) == scan[s].status \notin {"nil", "queued", "gone"}

\* A message that is delivered again has the candidates of the first time.
MsgCount(m) == m.scan # 0 /\ Begun(m.scan) => scan[m.scan].candidates = Cardinality(m.targets)

\* What a session has counted and what it has still to do
SessionCount(w) ==
  LET s == worker[w].scan IN
  /\ MsgCount(worker[w].msg)
  /\ worker[w].todo \subseteq worker[w].msg.targets
  /\ worker[w].pc = "empty" => worker[w].msg.targets = {}
  /\ worker[w].pc \in {"scan", "wait"} =>
       worker[w].counted + Cardinality(worker[w].todo) = Cardinality(worker[w].msg.targets)
  /\ worker[w].pc \in Active /\ Begun(s) =>
       scan[s].candidates = Cardinality(worker[w].msg.targets)
  /\ worker[w].pc \in {"scan", "wait"} /\ Begun(s) =>
       worker[w].scanned = scan[s].scanned + worker[w].counted

CountInv ==
  /\ \A s \in ScanIds: ScanCount(s)
  /\ \A m \in queue: MsgCount(m)
  /\ \A w \in Workers: SessionCount(w)

\* Rows that are written and not committed: one per endpoint, by one session, and not
\* of a lesser source than the committed row, unless the session had to wait.
BufferInv ==
  /\ \A v, w \in Workers: \A a \in worker[v].buf, b \in worker[w].buf:
       a.key = b.key => v = w /\ a = b
  /\ \A w \in Workers: \A b \in worker[w].buf:
       ~b.waited /\ result[b.key].there => Precedence[b.src] >= Precedence[result[b.key].src]

----------------------------------------------------------------------------
(* The operators *)

\* The record of an idle session is a session.
LEMMA IdleType ==
  /\ Idle \in Session /\ NoMsg.scan = 0 /\ NoMsg.targets = {}
  /\ Idle.pc = "idle" /\ Idle.scan = 0 /\ Idle.msg = NoMsg /\ Idle.buf = {} /\ Idle.todo = {}
<1>1. 0 \in 0..MaxScans
  BY UsageAssumption
<1>2. Idle \in Session
  BY <1>1 DEF Idle, Session
<1> QED BY <1>2 DEF Idle, NoMsg

\* The port a host without a port ends at is one of the configured ones.
LEMMA FallbackType ==
  ASSUME NEW answer
  PROVE  Fallback(answer) \in DOMAIN Ports
<1> DEFINE up == {i \in 2..Len(Ports): answer[i] \notin Connectivity}
<1>1. Len(Ports) \in Nat /\ DOMAIN Ports = 1..Len(Ports) /\ Len(Ports) # 0
  BY UsageAssumption
<1>2. CASE up = {}
  BY <1>1, <1>2 DEF Fallback
<1>3. CASE up # {}
  <2>1. up \subseteq Nat /\ up \subseteq DOMAIN Ports
    BY <1>1
  <2>2. PICK m \in up: \A n \in up: <<n, m>> \notin OpToRel(<, Nat)
    <3> HIDE DEF up
    <3> QED BY <1>3, <2>1, NatLessThanWellFounded, WFMin
  <2>3. \A n \in up: m <= n
    <3> HIDE DEF up
    <3>1. \A n \in up: ~(n < m)
      BY <2>1, <2>2 DEF OpToRel
    <3> QED BY <2>1, <3>1
  <2>4. (CHOOSE i \in up: \A j \in up: i <= j) \in up
    <3> HIDE DEF up
    <3> QED BY <2>3
  <2> QED BY <1>1, <2>1, <2>4 DEF Fallback
<1> QED BY <1>2, <1>3

\* The row an answer is recorded in is one of the table.
LEMMA KeyType ==
  ASSUME TypeOK, NEW w \in Workers, NEW t \in Targets, NEW f \in Found(t),
         NEW k \in RowsFor(w, f)
  PROVE  k \in Keys
<1> DEFINE ends == IF t.port # 0 THEN {<<t.port, st>>: st \in Answers}
                   ELSE {<<Ports[Fallback(a)], a[Fallback(a)]>>: a \in [DOMAIN Ports -> Answers]}
<1>0. PICK e \in ends: \E ip \in Addresses(e[2]): f = [host |-> t.host, port |-> e[1], ip |-> ip]
  BY DEF Found
<1>1. PICK ip: f = [host |-> t.host, port |-> e[1], ip |-> ip]
  BY <1>0
<1>2. e[1] \in PortSet
  <2>1. CASE t.port # 0
    BY <1>0, <2>1 DEF Targets
  <2>2. CASE t.port = 0
    <3>1. PICK a \in [DOMAIN Ports -> Answers]: e = <<Ports[Fallback(a)], a[Fallback(a)]>>
      BY <1>0, <2>2
    <3>2. Fallback(a) \in DOMAIN Ports
      BY FallbackType
    <3> QED BY <3>1, <3>2 DEF PortSet
  <2> QED BY <2>1, <2>2
<1>3. f.host \in Hosts /\ f.port \in PortSet
  BY <1>1, <1>2 DEF Targets
<1>4. worker[w].scan \in 0..MaxScans /\ 0 \in 0..MaxScans /\ ScanIds \subseteq 0..MaxScans
  BY UsageAssumption DEF TypeOK, Session, ScanIds
<1>5. PICK by \in 0..MaxScans: k = [host |-> f.host, port |-> f.port, by |-> by]
  BY <1>4 DEF RowsFor
<1> QED BY <1>3, <1>5 DEF Keys

\* Sources are ordered by numbers.
LEMMA PrecedenceType == \A src \in Sources: Precedence[src] \in Nat
  BY DEF Precedence, Sources

\* The source that is written is one, and no lesser one than the one the session has
\* written before, or, if it has written none, than the one on record.
LEMMA SourceType ==
  ASSUME TypeOK, NEW w \in Workers, NEW k \in Keys, NEW src \in Sources
  PROVE  /\ SourceOf(w, k, src) \in Sources
         /\ \A b \in Own(w, k): Own(w, k) = {b} =>
              Precedence[SourceOf(w, k, src)] >= Precedence[b.src]
         /\ Own(w, k) = {} /\ result[k].there =>
              Precedence[SourceOf(w, k, src)] >= Precedence[result[k].src]
<1> DEFINE old == IF Own(w, k) # {} THEN {b.src: b \in Own(w, k)}
                  ELSE IF result[k].there THEN {result[k].src} ELSE {}
<1>1. Own(w, k) \subseteq Buffered /\ result[k].src \in Sources
  BY DEF TypeOK, Session, Own, ResultRow
<1>2. old \subseteq Sources
  BY <1>1 DEF Buffered
<1>3. SourceOf(w, k, src) = IF \E o \in old: Precedence[o] >= Precedence[src]
                            THEN CHOOSE o \in old: TRUE ELSE src
  BY DEF SourceOf
<1>4. SourceOf(w, k, src) \in Sources
  <2> HIDE DEF old
  <2> QED BY <1>2, <1>3
<1>5. ASSUME NEW o \in Sources, old = {o}
      PROVE  Precedence[SourceOf(w, k, src)] >= Precedence[o]
  <2> HIDE DEF old
  <2>1. Precedence[o] \in Nat /\ Precedence[src] \in Nat
    BY PrecedenceType
  <2>2. SourceOf(w, k, src) = IF Precedence[o] >= Precedence[src] THEN o ELSE src
    BY <1>3, <1>5
  <2> QED BY <2>1, <2>2
<1>6. ASSUME NEW b \in Own(w, k), Own(w, k) = {b}
      PROVE  Precedence[SourceOf(w, k, src)] >= Precedence[b.src]
  <2>1. old = {b.src} /\ b.src \in Sources
    BY <1>1, <1>6 DEF Buffered
  <2> HIDE DEF old
  <2> QED BY <1>5, <2>1
<1>7. ASSUME Own(w, k) = {}, result[k].there
      PROVE  Precedence[SourceOf(w, k, src)] >= Precedence[result[k].src]
  <2>1. old = {result[k].src}
    BY <1>7
  <2> HIDE DEF old
  <2> QED BY <1>1, <1>5, <2>1
<1> QED BY <1>4, <1>6, <1>7

----------------------------------------------------------------------------
(* One session per scan *)

\* One session changes, the others do not.
LEMMA WorkerStep ==
  ASSUME TypeOK, NEW w \in Workers, NEW r \in Session, worker' = [worker EXCEPT ![w] = r]
  PROVE  /\ worker' \in [Workers -> Session]
         /\ worker'[w] = r
         /\ \A v \in Workers: v # w => worker'[v] = worker[v]
  BY DEF TypeOK

\* What a session has flushed are rows.
LEMMA FlushedType ==
  ASSUME TypeOK, NEW w \in Workers, NEW k \in Keys, NEW src \in Sources, NEW waited \in BOOLEAN
  PROVE  Flushed(w, k, src, waited) \in SUBSET Buffered /\ Flushed(w, k, src, waited) # {}
<1>1. [key |-> k, src |-> src, waited |-> waited] \in Buffered
  BY DEF Buffered
<1>2. worker[w].buf \in SUBSET Buffered
  BY DEF TypeOK, Session
<1> QED BY <1>1, <1>2 DEF Flushed

\* What a session writes: not over a row that another one has written, and, unless it
\* has waited, the better of two sources
Writes(w, buf) ==
  \E k \in Keys, src \in Sources, waited \in BOOLEAN:
    /\ buf = Flushed(w, k, src, waited)
    /\ ~HeldBy(w, k)
    /\ waited \/ /\ \E x \in Sources: src = SourceOf(w, k, x)
                 /\ \A b \in Own(w, k): ~b.waited

\* The steps of a session that only change what it has counted and written
Local(w, r) ==
  /\ r \in Session
  /\ worker' = [worker EXCEPT ![w] = r]
  /\ worker[w].pc \in {"scan", "wait"} /\ r.pc \in {"scan", "wait", "failing"}
  /\ r.scan = worker[w].scan /\ r.msg = worker[w].msg
  /\ \/ /\ r.todo = worker[w].todo
        /\ r.counted = worker[w].counted /\ r.scanned = worker[w].scanned
     \/ \E t \in worker[w].todo:
          /\ r.todo = worker[w].todo \ {t}
          /\ r.counted = worker[w].counted + 1 /\ r.scanned = worker[w].scanned + 1
  /\ r.buf = worker[w].buf \/ Writes(w, r.buf)
  /\ r.buf # worker[w].buf => cert
  /\ r.pc = "scan" => r.buf # {}
  /\ UNCHANGED <<scan, nscan, result, queue, cert, ncrash>>

\* They keep a scan in the hands it was in.
LEMMA LocalInv ==
  ASSUME TInv, NEW w \in Workers, NEW r, Local(w, r)
  PROVE  TInv'
<1>1. /\ worker' \in [Workers -> Session]
      /\ worker'[w] = r
      /\ \A v \in Workers: v # w => worker'[v] = worker[v]
  BY WorkerStep DEF Local, TInv
<1>2. /\ worker[w].pc \in {"scan", "wait"} /\ r.pc \in {"scan", "wait", "failing"}
      /\ r.scan = worker[w].scan /\ r.msg = worker[w].msg
      /\ UNCHANGED <<scan, nscan, result, queue, cert, ncrash>>
  BY DEF Local
<1>3. TypeOK'
  BY <1>1, <1>2 DEF TInv, TypeOK
<1>4. \A v \in Workers: Holds(v)' = Holds(v) /\ SessionOK(v)'
  <2> SUFFICES ASSUME NEW v \in Workers PROVE Holds(v)' = Holds(v) /\ SessionOK(v)'
    OBVIOUS
  <2>1. CASE v = w
    BY <1>1, <1>2, <2>1 DEF TInv, HoldInv, SessionOK, Holds, Active
  <2>2. CASE v # w
    BY <1>1, <1>2, <2>2 DEF TInv, HoldInv, SessionOK, Holds
  <2> QED BY <2>1, <2>2
<1>5. HoldInv'
  <2>1. queue' = queue /\ nscan' = nscan
    BY <1>2
  <2> QED BY <1>4, <2>1 DEF TInv, HoldInv
<1>6. RunInv'
  <2>1. worker[w].buf # {} => cert
    BY DEF TInv, RunInv
  <2>2. r.buf # {} => cert
    BY <2>1 DEF Local
  <2>3. r.pc = "scan" => r.buf # {}
    BY DEF Local
  <2> QED BY <1>1, <1>2, <2>2, <2>3 DEF TInv, RunInv, Active
<1> QED BY <1>3, <1>5, <1>6 DEF TInv

\* Recording an answer, or the end of a wait, is such a step.
LEMMA RecordLocal ==
  ASSUME TInv, NEW w \in Workers, NEW t \in worker[w].todo, NEW f \in Found(t),
         NEW k \in RowsFor(w, f), RecordResult(w, t, f, k)
  PROVE  /\ k \in Keys /\ t \in Targets /\ SourceOf(w, k, t.src) \in Sources
         /\ \E r: Local(w, r)
<1>1. worker[w] \in Session /\ t \in Targets /\ t.src \in Sources
  BY DEF TInv, TypeOK, Session, Targets
<1>2. k \in Keys
  BY <1>1, KeyType DEF TInv
<1>3. SourceOf(w, k, t.src) \in Sources
  BY <1>1, <1>2, SourceType DEF TInv
<1> DEFINE s == worker[w]
           src == SourceOf(w, k, t.src)
           late == \E b \in Own(w, k): b.waited
           c == Counted(s, t)
           buf == Flushed(w, k, src, late)
           row == [key |-> k, src |-> src, new |-> ~Seen(w, k)]
<1>4. worker' = [worker EXCEPT ![w] =
                   IF ~cert THEN [@ EXCEPT !.pc = "failing"]
                   ELSE IF HeldBy(w, k) THEN [Counted(@, t) EXCEPT !.pc = "wait", !.want = {row}]
                   ELSE [Counted(@, t) EXCEPT !.buf = buf]]
  BY DEF RecordResult
<1>5. c \in Session
  <2>1. s.todo \ {t} \in SUBSET Targets /\ s.scanned + 1 \in Nat /\ s.counted + 1 \in Nat
    BY <1>1 DEF Session
  <2> QED BY <1>1, <2>1 DEF Counted, Session
<1>a. /\ c.pc = s.pc /\ c.scan = s.scan /\ c.msg = s.msg /\ c.buf = s.buf
      /\ c.todo = s.todo \ {t} /\ c.counted = s.counted + 1 /\ c.scanned = s.scanned + 1
  BY <1>1 DEF Counted, Session
<1>b. row \in [key: Keys, src: Sources, new: BOOLEAN]
  BY <1>2, <1>3
<1>c. buf \in SUBSET Buffered /\ buf # {}
  <2>1. late \in BOOLEAN /\ src \in Sources
    BY <1>3
  <2> HIDE DEF late, src
  <2> QED BY <1>2, <2>1, FlushedType DEF TInv
<1>d. ~HeldBy(w, k) => Writes(w, buf)
  <2>1. late \in BOOLEAN /\ src \in Sources /\ (late \/ \A b \in Own(w, k): ~b.waited)
    BY <1>3
  <2>2. \E x \in Sources: src = SourceOf(w, k, x)
    BY <1>1
  <2> HIDE DEF late, src
  <2> QED BY <1>2, <2>1, <2>2 DEF Writes
<1> HIDE DEF c, src, buf, row
<1>6. CASE ~cert
  <2> DEFINE r == [s EXCEPT !.pc = "failing"]
  <2>1. worker' = [worker EXCEPT ![w] = r]
    BY <1>4, <1>6
  <2>2. /\ r \in Session /\ r.pc = "failing" /\ r.scan = s.scan /\ r.msg = s.msg /\ r.buf = s.buf
        /\ r.todo = s.todo /\ r.counted = s.counted /\ r.scanned = s.scanned
    BY <1>1 DEF Session
  <2> HIDE DEF r
  <2>3. Local(w, r)
    BY <2>1, <2>2 DEF Local, RecordResult
  <2> QED BY <1>1, <1>2, <1>3, <2>3 DEF src
<1>7. CASE cert /\ HeldBy(w, k)
  <2> DEFINE r == [c EXCEPT !.pc = "wait", !.want = {row}]
  <2>1. worker' = [worker EXCEPT ![w] = r]
    BY <1>4, <1>7 DEF c
  <2>2. {row} \in SUBSET [key: Keys, src: Sources, new: BOOLEAN]
    BY <1>b
  <2>3. /\ r \in Session /\ r.pc = "wait" /\ r.scan = c.scan /\ r.msg = c.msg /\ r.buf = c.buf
        /\ r.todo = c.todo /\ r.counted = c.counted /\ r.scanned = c.scanned
    BY <1>5, <2>2 DEF Session
  <2> HIDE DEF r
  <2>4. Local(w, r)
    BY <1>a, <2>1, <2>3 DEF Local, RecordResult
  <2> QED BY <1>1, <1>2, <1>3, <2>4 DEF src
<1>8. CASE cert /\ ~HeldBy(w, k)
  <2> DEFINE r == [c EXCEPT !.buf = buf]
  <2>1. worker' = [worker EXCEPT ![w] = r]
    BY <1>4, <1>8 DEF c
  <2>3. /\ r \in Session /\ r.pc = c.pc /\ r.scan = c.scan /\ r.msg = c.msg /\ r.buf = buf
        /\ r.todo = c.todo /\ r.counted = c.counted /\ r.scanned = c.scanned
    BY <1>5, <1>c DEF Session
  <2> HIDE DEF r
  <2>4. Local(w, r)
    BY <1>8, <1>a, <1>c, <1>d, <2>1, <2>3 DEF Local, RecordResult
  <2> QED BY <1>1, <1>2, <1>3, <2>4 DEF src
<1> QED BY <1>6, <1>7, <1>8

\* So are the end of a wait, a deadlock and a time limit.
LEMMA WaitLocal ==
  ASSUME TInv, NEW w \in Workers, WaitEnds(w) \/ DeadlockVictim(w) \/ ScanInterrupted(w)
  PROVE  \E r: Local(w, r)
<1> DEFINE s == worker[w]
           failing == [s EXCEPT !.pc = "failing"]
<1>1. s \in Session
  BY DEF TInv, TypeOK
<1>2. /\ failing \in Session /\ failing.pc = "failing" /\ failing.scan = s.scan
      /\ failing.msg = s.msg /\ failing.buf = s.buf
      /\ failing.todo = s.todo /\ failing.counted = s.counted /\ failing.scanned = s.scanned
  BY <1>1 DEF Session
<1>3. ASSUME worker' = [worker EXCEPT ![w] = failing], s.pc \in {"scan", "wait"},
             UNCHANGED <<scan, nscan, result, queue, cert, ncrash>>
      PROVE  \E r: Local(w, r)
  <2> HIDE DEF failing
  <2>1. Local(w, failing)
    BY <1>2, <1>3 DEF Local
  <2> QED BY <2>1
<1>4. CASE DeadlockVictim(w) \/ ScanInterrupted(w)
  <2>1. worker' = [worker EXCEPT ![w] = failing]
    BY <1>1, <1>4 DEF DeadlockVictim, ScanInterrupted
  <2> QED BY <1>3, <1>4, <2>1 DEF DeadlockVictim, ScanInterrupted
<1>5. CASE WaitEnds(w)
  <2>1. PICK row \in s.want:
          ~HeldBy(w, row.key) /\
          worker' = [worker EXCEPT ![w] =
            IF ~cert \/ (row.new /\ result[row.key].there) THEN [@ EXCEPT !.pc = "failing"]
            ELSE [@ EXCEPT !.pc = "scan", !.want = {},
                           !.buf = Flushed(w, row.key, row.src, TRUE)]]
    BY <1>5 DEF WaitEnds
  <2>2. CASE ~cert \/ (row.new /\ result[row.key].there)
    <3>1. worker' = [worker EXCEPT ![w] = failing]
      BY <2>1, <2>2
    <3> QED BY <1>3, <1>5, <3>1 DEF WaitEnds
  <2>3. CASE ~(~cert \/ (row.new /\ result[row.key].there))
    <3> DEFINE buf == Flushed(w, row.key, row.src, TRUE)
               r == [s EXCEPT !.pc = "scan", !.want = {}, !.buf = buf]
    <3>1. worker' = [worker EXCEPT ![w] = r]
      BY <2>1, <2>3
    <3>2. row.key \in Keys /\ row.src \in Sources
      BY <1>1 DEF Session
    <3>5. buf \in SUBSET Buffered /\ buf # {}
      BY <3>2, FlushedType DEF TInv
    <3>6. Writes(w, buf)
      BY <2>1, <3>2 DEF Writes
    <3> HIDE DEF buf
    <3>3. /\ r \in Session /\ r.pc = "scan" /\ r.scan = s.scan /\ r.msg = s.msg /\ r.buf = buf
          /\ r.todo = s.todo /\ r.counted = s.counted /\ r.scanned = s.scanned
      BY <1>1, <3>5 DEF Session
    <3> HIDE DEF r
    <3>4. Local(w, r)
      BY <1>5, <2>3, <3>1, <3>3, <3>5, <3>6 DEF Local, WaitEnds
    <3> QED BY <3>4
  <2> QED BY <2>2, <2>3
<1> QED BY <1>4, <1>5

\* One scan changes, the others do not.
LEMMA ScanStep ==
  ASSUME TypeOK, NEW s \in ScanIds, NEW r \in ScanRow, scan' = [scan EXCEPT ![s] = r]
  PROVE  /\ scan' \in [ScanIds -> ScanRow]
         /\ scan'[s] = r
         /\ \A z \in ScanIds: z # s => scan'[z] = scan[z]
  BY DEF TypeOK

\* The steps with which a session lets its scan go
Release(w, r) ==
  /\ r \in Session
  /\ worker' = [worker EXCEPT ![w] = r]
  /\ worker[w].pc # "idle"
  /\ \/ r = Idle
     \/ r.pc = "record" /\ r.scan = 0 /\ r.buf = {} /\ r.msg = worker[w].msg
  /\ queue' = queue \/ (r = Idle /\ queue' = queue \cup {worker[w].msg})
  /\ scan' \in [ScanIds -> ScanRow]
  /\ \A z \in ScanIds: z # worker[w].scan => scan'[z] = scan[z]
  /\ \A z \in ScanIds: /\ scan'[z].status = "nil" <=> scan[z].status = "nil"
                       /\ scan'[z].status = "gone" <=> scan[z].status = "gone"
  /\ UNCHANGED <<nscan, cert>>

\* They keep every other scan in the hands it was in.
LEMMA ReleaseInv ==
  ASSUME TInv, NEW w \in Workers, NEW r, Release(w, r),
         result' \in [Keys -> ResultRow], ncrash' \in 0..MaxCrashes
  PROVE  TInv'
<1>1. /\ worker' \in [Workers -> Session]
      /\ worker'[w] = r
      /\ \A v \in Workers: v # w => worker'[v] = worker[v]
  BY WorkerStep DEF Release, TInv
<1>2. worker[w].msg \in Messages /\ SessionOK(w) /\ nscan \in Nat
  BY DEF Release, TInv, HoldInv, SessionOK, TypeOK
<1>3. TypeOK'
  <2>1. queue' \subseteq Messages
    BY <1>2 DEF Release, TInv, TypeOK
  <2>2. \A z \in ScanIds: scan'[z].status = "nil" <=> z > nscan'
    <3>1. \A z \in ScanIds: scan'[z].status = "nil" <=> scan[z].status = "nil"
      BY DEF Release
    <3>2. \A z \in ScanIds: scan[z].status = "nil" <=> z > nscan
      BY DEF TInv, TypeOK
    <3>3. nscan' = nscan
      BY DEF Release
    <3> QED BY <3>1, <3>2, <3>3
  <2> QED BY <1>1, <2>1, <2>2 DEF Release, TInv, TypeOK
<1>4. r.scan = 0 /\ r.buf = {} /\ r.pc \in {"idle", "record"} /\ r.msg \in {NoMsg, worker[w].msg}
  BY IdleType DEF Release
<1>5. \A v \in Workers: SessionOK(v)' /\ Holds(v)' \subseteq Holds(v)
  <2> SUFFICES ASSUME NEW v \in Workers PROVE SessionOK(v)' /\ Holds(v)' \subseteq Holds(v)
    OBVIOUS
  <2>1. CASE v = w
    <3>1. r = Idle => SessionOK(w)'
      BY <1>1, <1>2, IdleType DEF SessionOK, Active, Release
    <3>2. r # Idle => SessionOK(w)'
      BY <1>1, <1>2 DEF SessionOK, Active, Release
    <3>3. Holds(w)' \subseteq Holds(w)
      BY <1>1, <1>4, IdleType DEF Holds
    <3> QED BY <2>1, <3>1, <3>2, <3>3
  <2>2. CASE v # w
    BY <1>1, <2>2 DEF TInv, HoldInv, SessionOK, Holds, Release
  <2> QED BY <2>1, <2>2
<1>6. HoldInv'
  <2>1. \A u, v \in Workers: u # v => Holds(u)' \cap Holds(v)' = {}
    BY <1>5 DEF TInv, HoldInv
  <2>2. CASE queue' = queue
    <3>1. nscan' = nscan
      BY DEF Release
    <3> QED BY <1>5, <2>1, <2>2, <3>1 DEF TInv, HoldInv
  <2>3. CASE r = Idle /\ queue' = queue \cup {worker[w].msg}
    <3>1. Holds(w)' = {} /\ nscan' = nscan
      BY <1>1, <2>3, IdleType DEF Holds, Release
    <3>2. worker[w].msg.scan <= nscan
      BY <1>2 DEF SessionOK
    <3>3. \A v \in Workers: worker[w].msg.scan \notin Holds(v)'
      <4> SUFFICES ASSUME NEW v \in Workers, v # w PROVE worker[w].msg.scan \notin Holds(v)
        BY <1>5, <3>1
      <4>1. Holds(v) \cap Holds(w) = {}
        BY DEF TInv, HoldInv
      <4> QED BY <4>1 DEF Holds
    <3>4. \A m \in queue: m.scan = worker[w].msg.scan => m.scan = 0
      BY DEF TInv, HoldInv, Holds
    <3> QED BY <1>5, <2>1, <2>3, <3>1, <3>2, <3>3, <3>4 DEF TInv, HoldInv
  <2> QED BY <2>2, <2>3 DEF Release
<1>7. RunInv'
  <2>1. \A v \in Workers: worker'[v].pc \in Active =>
          /\ scan'[worker'[v].scan].status \in {"running", "gone"}
          /\ ~scan'[worker'[v].scan].old
    <3> SUFFICES ASSUME NEW v \in Workers, worker'[v].pc \in Active
                 PROVE  /\ scan'[worker'[v].scan].status \in {"running", "gone"}
                        /\ ~scan'[worker'[v].scan].old
      OBVIOUS
    <3>1. v # w
      BY <1>1, <1>4 DEF Active
    <3>2. worker'[v] = worker[v] /\ worker[v].pc \in Active
      BY <1>1, <3>1
    <3>3. worker[v].scan \in 1..nscan /\ worker[v].scan \in ScanIds
      <4>1. worker[v].scan \in 1..nscan
        BY <3>2 DEF TInv, HoldInv, SessionOK
      <4>2. nscan \in 0..MaxScans
        BY DEF TInv, TypeOK
      <4> QED BY <4>1, <4>2, UsageAssumption DEF ScanIds
    <3>4. worker[v].scan # worker[w].scan
      <4>1. Holds(v) \cap Holds(w) = {}
        BY <3>1 DEF TInv, HoldInv
      <4> QED BY <3>3, <4>1 DEF Holds
    <3>5. scan'[worker[v].scan] = scan[worker[v].scan]
      BY <3>3, <3>4 DEF Release
    <3> QED BY <3>2, <3>5 DEF TInv, RunInv
  <2>2. \A v \in Workers: worker'[v].buf # {} => cert'
    BY <1>1, <1>4 DEF TInv, RunInv, Release
  <2>3. \A v \in Workers: worker'[v].pc = "scan" => worker'[v].todo # {} \/ worker'[v].buf # {}
    BY <1>1, <1>4 DEF TInv, RunInv
  <2>4. \A s \in ScanIds: scan'[s].status = "gone" => ~cert'
    <3>1. \A z \in ScanIds: scan'[z].status = "gone" => scan[z].status = "gone"
      BY DEF Release
    <3>2. \A z \in ScanIds: scan[z].status = "gone" => ~cert
      BY DEF TInv, RunInv
    <3>3. cert' = cert
      BY DEF Release
    <3> QED BY <3>1, <3>2, <3>3
  <2> QED BY <2>1, <2>2, <2>3, <2>4 DEF RunInv
<1> QED BY <1>3, <1>6, <1>7 DEF TInv

\* What a session that works on a scan knows of it
LEMMA ActiveScan ==
  ASSUME TInv, NEW w \in Workers, worker[w].pc \in Active
  PROVE  /\ worker[w].scan \in ScanIds /\ worker[w].scan <= nscan
         /\ scan[worker[w].scan] \in ScanRow
         /\ scan[worker[w].scan].status \in {"running", "gone"}
<1>1. worker[w].scan \in 1..nscan
  BY DEF TInv, HoldInv, SessionOK
<1>2. nscan \in 0..MaxScans
  BY DEF TInv, TypeOK
<1>3. worker[w].scan \in ScanIds /\ worker[w].scan <= nscan
  BY <1>1, <1>2, UsageAssumption DEF ScanIds
<1>4. scan[worker[w].scan].status \in {"running", "gone"}
  BY DEF TInv, RunInv
<1> QED BY <1>3, <1>4 DEF TInv, TypeOK

\* Completing, recording, failing and dying let a scan go.
LEMMA ReleaseSteps ==
  ASSUME TInv, NEW w \in Workers,
         CompleteEmpty(w) \/ CompleteScan(w) \/ RecordScan(w) \/ FailScan(w) \/ Crash(w)
  PROVE  /\ \E r: Release(w, r)
         /\ result' \in [Keys -> ResultRow] /\ ncrash' \in 0..MaxCrashes
<1> DEFINE s == worker[w].scan
<1>0. /\ worker[w] \in Session /\ scan \in [ScanIds -> ScanRow] /\ result \in [Keys -> ResultRow]
      /\ ncrash \in 0..MaxCrashes
  BY DEF TInv, TypeOK
<1>1. CASE RecordScan(w) \/ Crash(w)
  <2>1. Release(w, Idle)
    BY <1>0, <1>1, IdleType DEF RecordScan, Crash, Release
  <2>2. ncrash' \in 0..MaxCrashes
    BY <1>0, <1>1, UsageAssumption DEF RecordScan, Crash
  <2> QED BY <1>0, <1>1, <2>1, <2>2 DEF RecordScan, Crash
<1>2. CASE CompleteEmpty(w) \/ FailScan(w)
  <2>1. worker[w].pc \in Active
    BY <1>2 DEF CompleteEmpty, FailScan, Active
  <2>2. s \in ScanIds /\ scan[s] \in ScanRow /\ scan[s].status \in {"running", "gone"}
    BY <2>1, ActiveScan
  <2>3. PICK row \in ScanRow: /\ scan' = [scan EXCEPT ![s] = row]
                              /\ row.status = "gone" <=> scan[s].status = "gone"
                              /\ row.status # "nil"
    <3>1. CASE scan[s].status = "gone"
      <4>1. scan' = [scan EXCEPT ![s] = scan[s]]
        <5>1. CASE CompleteEmpty(w)
          BY <1>0, <2>2, <3>1, <5>1 DEF CompleteEmpty
        <5>2. CASE FailScan(w)
          <6>1. scan[s] = [scan[s] EXCEPT !.status = "gone"]
            BY <2>2, <3>1 DEF ScanRow
          <6>2. scan' = [scan EXCEPT ![s].status = "gone"]
            BY <3>1, <5>2 DEF FailScan
          <6> QED BY <6>1, <6>2
        <5> QED BY <1>2, <5>1, <5>2
      <4> QED BY <2>2, <3>1, <4>1
    <3>2. CASE scan[s].status # "gone" /\ FailScan(w)
      <4> DEFINE row == [scan[s] EXCEPT !.status = "failed"]
      <4>1. scan' = [scan EXCEPT ![s] = row]
        BY <3>2 DEF FailScan
      <4>2. row \in ScanRow /\ row.status = "failed"
        BY <2>2 DEF ScanRow, ScanStatus
      <4> QED BY <3>2, <4>1, <4>2
    <3>3. CASE scan[s].status # "gone" /\ CompleteEmpty(w)
      <4> DEFINE row == [scan[s] EXCEPT !.status = "completed", !.ends = scan[s].ends + 1]
      <4>1. scan' = [scan EXCEPT ![s] = row]
        BY <1>0, <2>2, <3>3 DEF CompleteEmpty
      <4>2. row \in ScanRow /\ row.status = "completed"
        <5>1. scan[s].ends + 1 \in Nat /\ "completed" \in ScanStatus
          BY <2>2 DEF ScanRow, ScanStatus
        <5> QED BY <2>2, <5>1 DEF ScanRow
      <4> QED BY <3>3, <4>1, <4>2
    <3> QED BY <1>2, <3>1, <3>2, <3>3
  <2>4. /\ scan' \in [ScanIds -> ScanRow] /\ scan'[s] = row
        /\ \A z \in ScanIds: z # s => scan'[z] = scan[z]
    BY <2>2, <2>3, ScanStep DEF TInv
  <2>5. Release(w, Idle)
    BY <1>2, <2>2, <2>3, <2>4, IdleType DEF CompleteEmpty, FailScan, Release
  <2> QED BY <1>0, <1>2, <2>5 DEF CompleteEmpty, FailScan
<1>3. CASE CompleteScan(w)
  <2>1. worker[w].pc \in Active /\ worker[w].buf # {}
    BY <1>3 DEF CompleteScan, Active, TInv, RunInv
  <2>2. /\ s \in ScanIds /\ scan[s] \in ScanRow /\ scan[s].status = "running"
        /\ worker[w].scanned \in Nat /\ worker[w].counted \in Nat
    BY <1>0, <2>1, ActiveScan DEF TInv, RunInv, Session
  <2> DEFINE row == [scan[s] EXCEPT !.status = "completed", !.ends = scan[s].ends + 1,
                       !.scanned = worker[w].scanned, !.counted = worker[w].counted]
             r == [Idle EXCEPT !.pc = "record", !.msg = worker[w].msg]
  <2>3. row \in ScanRow /\ row.status = "completed"
    <3>1. scan[s].ends + 1 \in Nat /\ "completed" \in ScanStatus
      BY <2>2 DEF ScanRow, ScanStatus
    <3> QED BY <2>2, <3>1 DEF ScanRow
  <2>4. scan' = [scan EXCEPT ![s] = row] /\ worker' = [worker EXCEPT ![w] = r]
    BY <1>3 DEF CompleteScan
  <2>5. r \in Session /\ r.pc = "record" /\ r.scan = 0 /\ r.buf = {} /\ r.msg = worker[w].msg
    <3>1. worker[w].msg \in Messages \cup {NoMsg}
      BY <1>0 DEF Session
    <3> QED BY <3>1, IdleType DEF Session
  <2> HIDE DEF row, r
  <2>6. /\ scan' \in [ScanIds -> ScanRow] /\ scan'[s] = row
        /\ \A z \in ScanIds: z # s => scan'[z] = scan[z]
    BY <2>2, <2>3, <2>4, ScanStep DEF TInv
  <2>7. Release(w, r)
    BY <1>3, <2>1, <2>2, <2>3, <2>4, <2>5, <2>6 DEF CompleteScan, Release
  <2>8. result' \in [Keys -> ResultRow]
    <3>1. result' = Written(w)
      BY <1>3 DEF CompleteScan
    <3>2. ASSUME NEW k \in Keys, Own(w, k) # {}
          PROVE  [there |-> TRUE, src |-> (CHOOSE x \in Own(w, k): TRUE).src, scan |-> s] \in ResultRow
      <4>1. (CHOOSE x \in Own(w, k): TRUE) \in Buffered
        BY <1>0, <3>2 DEF Own, Session
      <4>2. s \in 0..MaxScans
        BY <1>0 DEF Session
      <4> QED BY <4>1, <4>2 DEF Buffered, ResultRow
    <3> QED BY <1>0, <3>1, <3>2 DEF Written
  <2> QED BY <1>0, <1>3, <2>7, <2>8 DEF CompleteScan
<1> QED BY <1>1, <1>2, <1>3

\* A session that takes a message holds its scan, or a new one.
LEMMA BeginInv ==
  ASSUME TInv, NEW w \in Workers, NEW msg \in queue, DeliverScan(w, msg)
  PROVE  LET s == IF msg.scan = 0 THEN nscan + 1 ELSE msg.scan IN
         /\ TInv'
         /\ s \in ScanIds /\ scan[s] \in ScanRow /\ scan[s].status # "gone"
         /\ Cardinality(msg.targets) \in Nat
         /\ \A v \in Workers: s \notin Holds(v)
<1> DEFINE s == IF msg.scan = 0 THEN nscan + 1 ELSE msg.scan
           row == [scan[s] EXCEPT !.status = "running", !.old = FALSE,
                                  !.candidates = Cardinality(msg.targets)]
           r == [Idle EXCEPT !.pc = IF msg.targets = {} THEN "empty" ELSE "scan", !.scan = s,
                             !.msg = msg, !.todo = msg.targets, !.scanned = scan[s].scanned]
<1>1. /\ cert /\ worker[w].pc = "idle" /\ s <= MaxScans /\ queue' = queue \ {msg}
      /\ nscan' = IF msg.scan = 0 THEN s ELSE nscan
      /\ scan' = [scan EXCEPT ![s] = row]
      /\ worker' = [worker EXCEPT ![w] = r]
      /\ UNCHANGED <<result, cert, ncrash>>
  BY DEF DeliverScan, BeginScan
<1>2. /\ msg \in Messages /\ msg.scan \in 0..MaxScans /\ msg.targets \in Requests
      /\ msg.scan <= nscan /\ nscan \in 0..MaxScans
  BY DEF TInv, TypeOK, HoldInv, Messages
<1>3. /\ s \in ScanIds /\ s \in 0..MaxScans /\ nscan' \in 0..MaxScans /\ s <= nscan'
      /\ nscan <= nscan'
  BY <1>1, <1>2, UsageAssumption DEF ScanIds
<1>4. Cardinality(msg.targets) \in Nat /\ msg.targets \in SUBSET Targets
  BY <1>2, UsageAssumption, FS_CardinalityType
<1>5. scan[s] \in ScanRow /\ scan[s].status # "gone" /\ scan[s].scanned \in Nat
  BY <1>1, <1>3 DEF TInv, TypeOK, RunInv, ScanRow
<1>6. row \in ScanRow /\ row.status = "running" /\ ~row.old
  <2> DEFINE n == Cardinality(msg.targets)
  <2>1. n \in Nat
    BY <1>4
  <2> HIDE DEF n
  <2> QED BY <1>5, <2>1 DEF ScanRow, ScanStatus, n
<1>7. /\ r \in Session
      /\ r.pc = IF msg.targets = {} THEN "empty" ELSE "scan"
      /\ r.scan = s /\ r.msg = msg /\ r.todo = msg.targets /\ r.buf = {}
  <2> DEFINE n == scan[s].scanned
             z == s
  <2>1. n \in Nat /\ z \in 0..MaxScans /\ msg \in Messages \cup {NoMsg}
    BY <1>2, <1>3, <1>5
  <2> HIDE DEF n, z
  <2> DEFINE q == [Idle EXCEPT !.pc = IF msg.targets = {} THEN "empty" ELSE "scan", !.scan = z,
                               !.msg = msg, !.todo = msg.targets, !.scanned = n]
  <2>2. q \in Session
    BY <1>4, <2>1, IdleType DEF Session
  <2>3. /\ q.pc = IF msg.targets = {} THEN "empty" ELSE "scan"
        /\ q.scan = z /\ q.msg = msg /\ q.todo = msg.targets /\ q.buf = {}
    BY IdleType DEF Session
  <2>4. q = r
    BY DEF n, z
  <2> HIDE DEF q, r
  <2> QED BY <2>2, <2>3, <2>4 DEF z
<1>8. \A v \in Workers: s \notin Holds(v)
  <2> SUFFICES ASSUME NEW v \in Workers PROVE s \notin Holds(v)
    OBVIOUS
  <2>1. CASE msg.scan # 0
    BY <2>1 DEF TInv, HoldInv
  <2>2. CASE msg.scan = 0
    <3>1. worker[v].msg.scan <= nscan /\ worker[v].scan <= nscan
      <4>1. SessionOK(v)
        BY DEF TInv, HoldInv
      <4> QED BY <1>2, <4>1 DEF SessionOK, Active
    <3> QED BY <1>2, <2>2, <3>1 DEF Holds
  <2> QED BY <2>1, <2>2
<1> HIDE DEF row, r
<1>9. /\ scan' \in [ScanIds -> ScanRow] /\ scan'[s] = row
      /\ \A z \in ScanIds: z # s => scan'[z] = scan[z]
  <2> HIDE DEF s
  <2> QED BY <1>1, <1>3, <1>6, ScanStep DEF TInv
<1>10. /\ worker' \in [Workers -> Session] /\ worker'[w] = r
       /\ \A v \in Workers: v # w => worker'[v] = worker[v]
  BY <1>1, <1>7, WorkerStep DEF TInv
<1>11. TypeOK'
  <2>1. \A z \in ScanIds: scan'[z].status = "nil" <=> z > nscan'
    <3> SUFFICES ASSUME NEW z \in ScanIds PROVE scan'[z].status = "nil" <=> z > nscan'
      OBVIOUS
    <3>1. scan[z].status = "nil" <=> z > nscan
      BY DEF TInv, TypeOK
    <3>2. CASE z = s
      BY <1>2, <1>3, <1>6, <1>9, <3>2 DEF ScanIds
    <3>3. CASE z # s
      <4>1. z > nscan <=> z > nscan'
        BY <1>1, <1>2, <3>3 DEF ScanIds
      <4> QED BY <1>9, <3>1, <3>3, <4>1
    <3> QED BY <3>2, <3>3
  <2>2. queue' \subseteq Messages
    BY <1>1 DEF TInv, TypeOK
  <2> QED BY <1>1, <1>3, <1>9, <1>10, <2>1, <2>2 DEF TInv, TypeOK
<1>12. Holds(w)' = {s} /\ \A v \in Workers: v # w => Holds(v)' = Holds(v)
  BY <1>2, <1>3, <1>7, <1>10 DEF Holds, ScanIds
<1>13. HoldInv'
  <2>1. \A v \in Workers: SessionOK(v)'
    <3> SUFFICES ASSUME NEW v \in Workers PROVE SessionOK(v)'
      OBVIOUS
    <3>1. CASE v = w
      <4>1. s \in 1..nscan' /\ msg.scan \in {0, s} /\ msg.scan <= nscan'
        BY <1>2, <1>3 DEF ScanIds
      <4> HIDE DEF s
      <4> QED BY <1>2, <1>7, <1>10, <3>1, <4>1 DEF SessionOK, Active
    <3>2. CASE v # w
      <4>1. worker'[v] = worker[v] /\ SessionOK(v) /\ worker[v] \in Session
        BY <1>10, <3>2 DEF TInv, HoldInv, TypeOK
      <4>2. worker[v].scan \in Nat /\ (worker[v].msg.scan <= nscan => worker[v].msg.scan <= nscan')
        <5>1. worker[v].msg.scan \in Nat
          BY <4>1, IdleType DEF Session, Messages
        <5> QED BY <1>2, <1>3, <4>1, <5>1 DEF Session
      <4> HIDE DEF s
      <4> QED BY <1>2, <1>3, <4>1, <4>2 DEF SessionOK
    <3> QED BY <3>1, <3>2
  <2>2. \A u, v \in Workers: u # v => Holds(u)' \cap Holds(v)' = {}
    <3> HIDE DEF s
    <3> QED BY <1>8, <1>12 DEF TInv, HoldInv
  <2>3. \A m \in queue': m \in queue /\ m.scan # s
    <3> SUFFICES ASSUME NEW m \in queue' PROVE m \in queue /\ m.scan # s
      OBVIOUS
    <3>1. m \in queue /\ m # msg /\ m.scan <= nscan /\ m.scan \in Nat
      BY <1>1 DEF TInv, HoldInv, TypeOK, Messages
    <3>2. m.scan = msg.scan => m.scan = 0
      BY <3>1 DEF TInv, HoldInv
    <3> QED BY <1>2, <3>1, <3>2
  <2>4. \A m \in queue: m.scan \in Nat /\ m.scan <= nscan
    BY DEF TInv, HoldInv, TypeOK, Messages
  <2>5. \A m \in queue': m.scan <= nscan'
    BY <1>2, <1>3, <2>3, <2>4
  <2> HIDE DEF s
  <2>6. \A m \in queue': \A v \in Workers: m.scan \notin Holds(v)'
    BY <1>12, <2>3 DEF TInv, HoldInv
  <2> QED BY <2>1, <2>2, <2>3, <2>5, <2>6 DEF TInv, HoldInv
<1>14. RunInv'
  <2> HIDE DEF s
  <2>1. \A v \in Workers: worker'[v].pc \in Active =>
          /\ scan'[worker'[v].scan].status \in {"running", "gone"}
          /\ ~scan'[worker'[v].scan].old
    <3> SUFFICES ASSUME NEW v \in Workers, worker'[v].pc \in Active
                 PROVE  /\ scan'[worker'[v].scan].status \in {"running", "gone"}
                        /\ ~scan'[worker'[v].scan].old
      OBVIOUS
    <3>1. CASE v = w
      BY <1>6, <1>7, <1>9, <1>10, <3>1
    <3>2. CASE v # w
      <4>1. worker'[v] = worker[v] /\ worker[v].pc \in Active
        BY <1>10, <3>2
      <4>2. worker[v].scan \in ScanIds
        BY <4>1, ActiveScan
      <4>3. worker[v].scan # s
        BY <1>8, <4>2 DEF Holds, ScanIds
      <4> QED BY <1>9, <4>1, <4>2, <4>3 DEF TInv, RunInv
    <3> QED BY <3>1, <3>2
  <2>2. \A z \in ScanIds: scan'[z].status = "gone" => ~cert'
    BY <1>1, <1>6, <1>9 DEF TInv, RunInv
  <2>3. \A v \in Workers: worker'[v].buf # {} => cert'
    BY <1>1
  <2>4. \A v \in Workers: worker'[v].pc = "scan" => worker'[v].todo # {} \/ worker'[v].buf # {}
    BY <1>7, <1>10 DEF TInv, RunInv
  <2> QED BY <2>1, <2>2, <2>3, <2>4 DEF RunInv
<1> QED BY <1>3, <1>4, <1>5, <1>8, <1>11, <1>13, <1>14 DEF TInv

\* A message for a new scan, or for none yet, joins the others.
LEMMA RequestInv ==
  ASSUME TInv, NEW targets \in Requests, TriggerScan(targets) \/ BulkScan(targets)
  PROVE  TInv'
<1>0. nscan \in 0..MaxScans /\ scan \in [ScanIds -> ScanRow]
  BY DEF TInv, TypeOK
<1>1. \A v \in Workers: /\ worker[v].msg.scan \in Nat /\ worker[v].msg.scan <= nscan
                        /\ worker[v].scan \in Nat /\ worker[v].scan <= nscan
  <2> SUFFICES ASSUME NEW v \in Workers
               PROVE  /\ worker[v].msg.scan \in Nat /\ worker[v].msg.scan <= nscan
                      /\ worker[v].scan \in Nat /\ worker[v].scan <= nscan
    OBVIOUS
  <2>1. SessionOK(v) /\ worker[v] \in Session
    BY DEF TInv, HoldInv, TypeOK
  <2>2. worker[v].msg.scan \in Nat /\ worker[v].scan \in Nat
    BY <2>1, IdleType DEF Session, Messages
  <2> QED BY <1>0, <2>1, <2>2 DEF SessionOK, Active
<1>2. \A m \in queue: m.scan \in Nat /\ m.scan <= nscan
  BY DEF TInv, HoldInv, TypeOK, Messages
<1>3. CASE BulkScan(targets)
  <2> DEFINE m == [scan |-> 0, targets |-> targets]
  <2>1. m \in Messages /\ m.scan = 0
    BY UsageAssumption DEF Messages
  <2>2. queue' = queue \cup {m} /\ UNCHANGED <<scan, nscan, result, worker, cert, ncrash>>
    BY <1>3 DEF BulkScan
  <2> HIDE DEF m
  <2>3. TypeOK'
    BY <2>1, <2>2 DEF TInv, TypeOK
  <2>4. RunInv'
    BY <2>2 DEF TInv, RunInv
  <2>5. \A v \in Workers: SessionOK(v)' /\ Holds(v)' = Holds(v) /\ 0 \notin Holds(v)
    BY <2>2 DEF TInv, HoldInv, SessionOK, Holds
  <2>6. HoldInv'
    BY <1>0, <2>1, <2>2, <2>5 DEF TInv, HoldInv
  <2> QED BY <2>3, <2>4, <2>6 DEF TInv
<1>4. CASE TriggerScan(targets)
  <2> DEFINE n == nscan + 1
             m == [scan |-> n, targets |-> targets]
             row == [NoScan EXCEPT !.status = "queued"]
  <2>1. n \in ScanIds /\ n \in 0..MaxScans /\ n > nscan
    BY <1>0, <1>4, UsageAssumption DEF TriggerScan, ScanIds
  <2>2. row \in ScanRow /\ row.status = "queued"
    BY DEF NoScan, ScanRow, ScanStatus
  <2>3. /\ queue' = queue \cup {m} /\ nscan' = n /\ scan' = [scan EXCEPT ![n] = row] /\ cert
        /\ UNCHANGED <<result, worker, cert, ncrash>>
    BY <1>4 DEF TriggerScan
  <2>4. m \in Messages /\ m.scan = n
    BY <2>1 DEF Messages
  <2>5. \A z \in ScanIds: z > n <=> z > nscan /\ z # n
    BY <1>0 DEF ScanIds
  <2>d. \A z \in Nat: z <= nscan => z <= n /\ z # n
    BY <1>0
  <2> HIDE DEF m, row, n
  <2>6. /\ scan' \in [ScanIds -> ScanRow] /\ scan'[n] = row
        /\ \A z \in ScanIds: z # n => scan'[z] = scan[z]
    BY <2>1, <2>2, <2>3, ScanStep DEF TInv
  <2>7. TypeOK'
    <3>1. \A z \in ScanIds: scan'[z].status = "nil" <=> z > nscan'
      BY <2>2, <2>3, <2>5, <2>6 DEF TInv, TypeOK
    <3>2. queue' \subseteq Messages
      BY <2>3, <2>4 DEF TInv, TypeOK
    <3> QED BY <2>1, <2>3, <2>6, <3>1, <3>2 DEF TInv, TypeOK
  <2>8. RunInv'
    <3>1. \A v \in Workers: worker[v].pc \in Active => worker[v].scan \in ScanIds /\ worker[v].scan # n
      BY <1>1, <2>d, ActiveScan
    <3> QED BY <2>2, <2>3, <2>6, <3>1 DEF TInv, RunInv
  <2>9. \A v \in Workers: SessionOK(v)' /\ Holds(v)' = Holds(v) /\ n \notin Holds(v)
    <3> SUFFICES ASSUME NEW v \in Workers PROVE SessionOK(v)' /\ Holds(v)' = Holds(v) /\ n \notin Holds(v)
      OBVIOUS
    <3>1. Holds(v)' = Holds(v) /\ n \notin Holds(v)
      BY <1>1, <2>3, <2>d DEF Holds
    <3>2. SessionOK(v) /\ worker'[v] = worker[v] /\ nscan' = n
      BY <2>3 DEF TInv, HoldInv
    <3>3. worker[v].msg.scan <= n
      BY <1>1, <2>d
    <3>4. worker[v].scan \in 1..nscan => worker[v].scan \in 1..n
      BY <1>0, <1>1 DEF n
    <3> QED BY <3>1, <3>2, <3>3, <3>4 DEF SessionOK
  <2>10. HoldInv'
    <3>1. \A q \in queue: q.scan <= n /\ q.scan # n
      BY <1>2, <2>d
    <3>2. n <= n
      BY <2>1 DEF ScanIds
    <3> QED BY <2>3, <2>4, <2>9, <3>1, <3>2 DEF TInv, HoldInv
  <2> QED BY <2>7, <2>8, <2>10 DEF TInv
<1> QED BY <1>3, <1>4

\* What time, polls, a task that raises and the deletion of the certificate do
LEMMA OtherInv ==
  ASSUME TInv,
         \/ \E msg \in queue: TaskRaises(msg)
         \/ \E s \in ScanIds: HalfHourPasses(s) \/ MarkStaleScanFailed(s)
         \/ DeleteCertificate
  PROVE  TInv'
<1>0. scan \in [ScanIds -> ScanRow] /\ nscan \in 0..MaxScans
  BY DEF TInv, TypeOK
<1>1. ASSUME NEW msg \in queue, TaskRaises(msg) PROVE TInv'
  <2>1. queue' \subseteq queue /\ UNCHANGED <<scan, nscan, result, worker, cert, ncrash>>
    BY <1>1 DEF TaskRaises
  <2>2. TypeOK' /\ RunInv'
    BY <2>1 DEF TInv, TypeOK, RunInv
  <2>3. \A v \in Workers: SessionOK(v)' /\ Holds(v)' = Holds(v)
    BY <2>1 DEF TInv, HoldInv, SessionOK, Holds
  <2>4. HoldInv'
    BY <2>1, <2>3 DEF TInv, HoldInv
  <2> QED BY <2>2, <2>4 DEF TInv
<1>2. ASSUME NEW s \in ScanIds, NEW row \in ScanRow, scan' = [scan EXCEPT ![s] = row],
             scan[s].status = "running", row.status \in {"running", "failed"},
             \A v \in Workers: worker[v].scan # s,
             UNCHANGED <<nscan, result, queue, worker, cert, ncrash>>
      PROVE  TInv'
  <2>1. /\ scan' \in [ScanIds -> ScanRow] /\ scan'[s] = row
        /\ \A z \in ScanIds: z # s => scan'[z] = scan[z]
    BY <1>2, ScanStep DEF TInv
  <2>2. TypeOK'
    <3>1. \A z \in ScanIds: scan'[z].status = "nil" <=> scan[z].status = "nil"
      BY <1>2, <2>1
    <3> QED BY <1>2, <2>1, <3>1 DEF TInv, TypeOK
  <2>3. \A v \in Workers: SessionOK(v)' /\ Holds(v)' = Holds(v)
    BY <1>2 DEF TInv, HoldInv, SessionOK, Holds
  <2>4. HoldInv'
    BY <1>2, <2>3 DEF TInv, HoldInv
  <2>5. RunInv'
    <3>1. \A v \in Workers: worker[v].pc \in Active => worker[v].scan \in ScanIds
      BY ActiveScan
    <3> QED BY <1>2, <2>1, <3>1 DEF TInv, RunInv
  <2> QED BY <2>2, <2>4, <2>5 DEF TInv
<1>3. ASSUME NEW s \in ScanIds, HalfHourPasses(s) PROVE TInv'
  <2> DEFINE row == [scan[s] EXCEPT !.old = TRUE]
  <2>1. row \in ScanRow /\ row.status = scan[s].status /\ scan' = [scan EXCEPT ![s] = row]
    BY <1>0, <1>3 DEF HalfHourPasses, ScanRow
  <2> HIDE DEF row
  <2> QED BY <1>2, <1>3, <2>1 DEF HalfHourPasses
<1>4. ASSUME NEW s \in ScanIds, MarkStaleScanFailed(s) PROVE TInv'
  <2> DEFINE row == [scan[s] EXCEPT !.status = "failed"]
  <2>1. row \in ScanRow /\ row.status = "failed" /\ scan' = [scan EXCEPT ![s] = row]
    BY <1>0, <1>4 DEF MarkStaleScanFailed, ScanRow, ScanStatus
  <2> HIDE DEF row
  <2>2. \A v \in Workers: worker[v].scan # s
    BY <1>4 DEF MarkStaleScanFailed, TInv, HoldInv, SessionOK, RunInv, ScanIds
  <2> QED BY <1>2, <1>4, <2>1, <2>2 DEF MarkStaleScanFailed
<1>5. ASSUME DeleteCertificate PROVE TInv'
  <2> DEFINE gone == [NoScan EXCEPT !.status = "gone"]
  <2>1. gone \in ScanRow /\ gone.status = "gone" /\ gone.old = FALSE
    BY DEF NoScan, ScanRow, ScanStatus
  <2>2. /\ ~cert' /\ cert' \in BOOLEAN /\ UNCHANGED <<nscan, queue, worker, ncrash>>
        /\ scan' = [s \in ScanIds |-> IF s <= nscan THEN gone ELSE scan[s]]
        /\ result' = [k \in Keys |-> NoResult]
        /\ \A v \in Workers: worker[v].buf = {}
    BY <1>5 DEF DeleteCertificate
  <2> HIDE DEF gone
  <2>3. NoResult \in ResultRow
    BY UsageAssumption DEF NoResult, ResultRow, Sources
  <2>4. TypeOK'
    <3>1. \A z \in ScanIds: scan'[z].status = "nil" <=> z > nscan'
      BY <1>0, <2>1, <2>2 DEF TInv, TypeOK, ScanIds
    <3>2. scan' \in [ScanIds -> ScanRow] /\ result' \in [Keys -> ResultRow]
      BY <1>0, <2>1, <2>2, <2>3
    <3> QED BY <2>2, <3>1, <3>2 DEF TInv, TypeOK
  <2>5. \A v \in Workers: SessionOK(v)' /\ Holds(v)' = Holds(v)
    BY <2>2 DEF TInv, HoldInv, SessionOK, Holds
  <2>6. HoldInv'
    BY <2>2, <2>5 DEF TInv, HoldInv
  <2>7. RunInv'
    <3>1. \A v \in Workers: worker[v].pc \in Active => worker[v].scan \in ScanIds /\ worker[v].scan <= nscan
      BY ActiveScan
    <3> QED BY <2>1, <2>2, <3>1 DEF TInv, RunInv
  <2> QED BY <2>4, <2>6, <2>7 DEF TInv
<1> QED BY <1>1, <1>3, <1>4, <1>5

\* One session per scan, at first and after every step.
LEMMA InitTInv == Init => TInv
<1> SUFFICES ASSUME Init PROVE TInv
  OBVIOUS
<1>1. NoScan \in ScanRow /\ NoScan.status = "nil"
  BY DEF NoScan, ScanRow, ScanStatus
<1>2. NoResult \in ResultRow
  BY UsageAssumption DEF NoResult, ResultRow, Sources
<1>3. TypeOK
  <2>1. \A s \in ScanIds: scan[s].status = "nil" <=> s > nscan
    BY <1>1 DEF Init, ScanIds
  <2>2. nscan \in 0..MaxScans /\ ncrash \in 0..MaxCrashes
    BY UsageAssumption DEF Init
  <2> QED BY <1>1, <1>2, <2>1, <2>2, IdleType DEF Init, TypeOK
<1>4. \A w \in Workers: SessionOK(w) /\ Holds(w) = {}
  BY IdleType DEF Init, SessionOK, Holds, Active
<1>5. HoldInv
  BY <1>4 DEF Init, HoldInv
<1>6. RunInv
  BY <1>1, IdleType DEF Init, RunInv, Active
<1> QED BY <1>3, <1>5, <1>6 DEF TInv

\* The same, for the steps
LEMMA NextTInv == TInv /\ [Next]_vars => TInv'
<1> SUFFICES ASSUME TInv, [Next]_vars PROVE TInv'
  OBVIOUS
<1>1. CASE UNCHANGED vars
  BY <1>1 DEF vars, TInv, TypeOK, HoldInv, SessionOK, Holds, RunInv
<1>2. ASSUME NEW w \in Workers, Step(w) \/ ScanInterrupted(w) \/ Crash(w) PROVE TInv'
  <2>1. CASE CompleteEmpty(w) \/ CompleteScan(w) \/ RecordScan(w) \/ FailScan(w) \/ Crash(w)
    BY <2>1, ReleaseSteps, ReleaseInv
  <2>2. CASE WaitEnds(w) \/ DeadlockVictim(w) \/ ScanInterrupted(w)
    BY <2>2, WaitLocal, LocalInv
  <2>3. CASE \E t \in worker[w].todo: \E f \in Found(t): \E k \in RowsFor(w, f):
               RecordResult(w, t, f, k)
    BY <2>3, RecordLocal, LocalInv
  <2> QED BY <1>2, <2>1, <2>2, <2>3 DEF Step
<1>3. ASSUME NEW w \in Workers, NEW msg \in queue, DeliverScan(w, msg) PROVE TInv'
  BY <1>3, BeginInv
<1> QED BY <1>1, <1>2, <1>3, RequestInv, OtherInv DEF Next

\* Tables, messages and sessions hold values of their kinds.
THEOREM TypeCorrect == Spec => []TypeOK
<1>1. Spec => []TInv
  BY InitTInv, NextTInv, PTL DEF Spec
<1>2. TInv => TypeOK
  BY DEF TInv
<1> QED BY <1>1, <1>2, PTL

----------------------------------------------------------------------------
(* UsageScan implements ScanRun *)

\* The table of scans as a poll sees it, and who owns each result
Status == [s \in ScanIds |-> scan[s].status]
Owner == [k \in Keys |-> result[k].scan]

\* Every step is one that ScanRun allows, or none.
LEMMA StepRefines ==
  ASSUME TInv, [Next]_vars
  PROVE  [Abstract!Next]_(Abstract!vars)
<1> USE DEF Status, Owner
<1>0. /\ scan \in [ScanIds -> ScanRow] /\ nscan \in 0..MaxScans
      /\ result \in [Keys -> ResultRow]
  BY DEF TInv, TypeOK
<1>1. ASSUME UNCHANGED <<Status, Owner>> PROVE Abstract!vars' = Abstract!vars
  BY <1>1 DEF Abstract!vars
<1>2. ASSUME NEW s \in ScanIds, NEW row, scan' = [scan EXCEPT ![s] = row]
      PROVE  Status' = [Status EXCEPT ![s] = row.status]
  BY <1>0, <1>2
<1>3. ASSUME UNCHANGED result PROVE Owner' = Owner
  BY <1>3
<1>4. ASSUME NEW targets \in Requests, TriggerScan(targets) PROVE Abstract!Next
  <2>1. nscan + 1 \in ScanIds
    BY <1>0, <1>4, UsageAssumption DEF TriggerScan, ScanIds
  <2>2. Status[nscan + 1] = "nil"
    BY <1>0, <2>1 DEF TInv, TypeOK
  <2>3. [NoScan EXCEPT !.status = "queued"].status = "queued"
    BY DEF NoScan
  <2>4. Status' = [Status EXCEPT ![nscan + 1] = "queued"] /\ Owner' = Owner
    BY <1>2, <1>3, <1>4, <2>1, <2>3 DEF TriggerScan
  <2>5. PICK z \in ScanIds: z = nscan + 1
    BY <2>1
  <2>6. Abstract!Request(z)
    BY <2>2, <2>4, <2>5 DEF Abstract!Request
  <2> QED BY <2>6 DEF Abstract!Next
<1>5. ASSUME NEW w \in Workers, NEW msg \in queue, DeliverScan(w, msg) PROVE Abstract!Next
  <2> DEFINE s == IF msg.scan = 0 THEN nscan + 1 ELSE msg.scan
             row == [scan[s] EXCEPT !.status = "running", !.old = FALSE,
                                    !.candidates = Cardinality(msg.targets)]
  <2>1. s \in ScanIds /\ scan[s] \in ScanRow /\ scan[s].status # "gone"
    BY <1>5, BeginInv
  <2>2. scan' = [scan EXCEPT ![s] = row] /\ result' = result
    BY <1>5 DEF DeliverScan, BeginScan
  <2>3. row.status = "running"
    BY <2>1 DEF ScanRow
  <2> HIDE DEF s, row
  <2>4. Status' = [Status EXCEPT ![s] = "running"] /\ Owner' = Owner
    BY <1>2, <1>3, <2>1, <2>2, <2>3
  <2>5. PICK z \in ScanIds: z = s
    BY <2>1
  <2>6. Abstract!Begin(z)
    BY <2>1, <2>4, <2>5 DEF Abstract!Begin
  <2> QED BY <2>6 DEF Abstract!Next
<1>6. ASSUME NEW w \in Workers, CompleteEmpty(w) PROVE [Abstract!Next]_(Abstract!vars)
  <2> DEFINE s == worker[w].scan
             row == [scan[s] EXCEPT !.status = "completed", !.ends = scan[s].ends + 1]
  <2>1. s \in ScanIds /\ scan[s] \in ScanRow /\ scan[s].status \in {"running", "gone"}
    BY <1>6, ActiveScan DEF CompleteEmpty, Active
  <2>2. CASE scan[s].status = "gone"
    BY <1>1, <1>6, <2>2 DEF CompleteEmpty
  <2>3. CASE scan[s].status = "running"
    <3>1. scan' = [scan EXCEPT ![s] = row] /\ result' = result
      BY <1>0, <1>6, <2>1, <2>3 DEF CompleteEmpty
    <3>2. row.status = "completed"
      BY <2>1 DEF ScanRow
    <3> HIDE DEF row, s
    <3>3. Status' = [Status EXCEPT ![s] = "completed"]
      <4>1. Status' = [Status EXCEPT ![s] = row.status]
        <5> HIDE DEF Status
        <5> QED BY <1>2, <2>1, <3>1
      <4> QED BY <3>2, <4>1
    <3>4. Owner' = [e \in Keys |-> IF e \in {} THEN s ELSE Owner[e]]
      BY <3>1
    <3>5. PICK z \in ScanIds: z = s
      BY <2>1
    <3>6. Abstract!Publish(z, {})
      BY <2>1, <2>3, <3>3, <3>4, <3>5 DEF Abstract!Publish
    <3> QED BY <3>6 DEF Abstract!Next
  <2> QED BY <2>1, <2>2, <2>3
<1>7. ASSUME NEW w \in Workers, CompleteScan(w) PROVE Abstract!Next
  <2> DEFINE s == worker[w].scan
             row == [scan[s] EXCEPT !.status = "completed", !.ends = scan[s].ends + 1,
                       !.scanned = worker[w].scanned, !.counted = worker[w].counted]
             found == {k \in Keys: Own(w, k) # {}}
  <2>1. s \in ScanIds /\ scan[s] \in ScanRow /\ scan[s].status = "running"
    <3>1. worker[w].buf # {}
      BY <1>7 DEF CompleteScan, TInv, RunInv
    <3> QED BY <1>7, <3>1, ActiveScan DEF CompleteScan, Active, TInv, RunInv
  <2>2. scan' = [scan EXCEPT ![s] = row] /\ result' = Written(w)
    BY <1>7 DEF CompleteScan
  <2>3. row.status = "completed"
    BY <2>1 DEF ScanRow
  <2>4. Owner' = [e \in Keys |-> IF e \in found THEN s ELSE Owner[e]]
    BY <2>2 DEF Written
  <2>5. found \in SUBSET Keys
    OBVIOUS
  <2> HIDE DEF row, s, found
  <2>6. Status' = [Status EXCEPT ![s] = "completed"]
    <3>1. Status' = [Status EXCEPT ![s] = row.status]
      <4> HIDE DEF Status
      <4> QED BY <1>2, <2>1, <2>2
    <3> QED BY <2>3, <3>1
  <2>7. PICK z \in ScanIds, y \in SUBSET Keys: z = s /\ y = found
    BY <2>1, <2>5
  <2>8. Abstract!Publish(z, y)
    BY <2>1, <2>4, <2>6, <2>7 DEF Abstract!Publish
  <2> QED BY <2>8 DEF Abstract!Next
<1>8. ASSUME NEW w \in Workers, FailScan(w) PROVE [Abstract!Next]_(Abstract!vars)
  <2> DEFINE s == worker[w].scan
  <2>1. s \in ScanIds /\ scan[s] \in ScanRow /\ scan[s].status \in {"running", "gone"}
    BY <1>8, ActiveScan DEF FailScan, Active
  <2>2. scan' = [scan EXCEPT ![s].status = IF scan[s].status = "gone" THEN "gone" ELSE "failed"]
        /\ result' = result
    BY <1>8 DEF FailScan
  <2>3. Status' = [Status EXCEPT ![s] = IF scan[s].status = "gone" THEN "gone" ELSE "failed"]
    BY <1>0, <2>1, <2>2 DEF ScanRow
  <2>4. CASE scan[s].status = "gone"
    <3>1. Status' = Status
      BY <2>1, <2>3, <2>4
    <3> QED BY <1>1, <1>3, <2>2, <3>1
  <2>5. CASE scan[s].status = "running"
    <3>1. PICK z \in ScanIds: z = s
      BY <2>1
    <3>2. Abstract!Fail(z)
      BY <1>3, <2>1, <2>2, <2>3, <2>5, <3>1 DEF Abstract!Fail
    <3> QED BY <3>2 DEF Abstract!Next
  <2> QED BY <2>1, <2>4, <2>5
<1>9. ASSUME NEW s \in ScanIds, MarkStaleScanFailed(s) PROVE Abstract!Next
  <2>1. Status' = [Status EXCEPT ![s] = "failed"] /\ Owner' = Owner /\ Status[s] = "running"
    BY <1>0, <1>9 DEF MarkStaleScanFailed, ScanRow
  <2>2. Abstract!Fail(s)
    BY <2>1 DEF Abstract!Fail
  <2> QED BY <2>2 DEF Abstract!Next
<1>10. ASSUME NEW s \in ScanIds, HalfHourPasses(s) PROVE UNCHANGED <<Status, Owner>>
  BY <1>0, <1>10 DEF HalfHourPasses, ScanRow
<1>11. ASSUME DeleteCertificate PROVE Abstract!Next
  <2>1. \A s \in ScanIds: scan[s].status = "nil" <=> ~(s <= nscan)
    BY <1>0 DEF TInv, TypeOK, ScanIds
  <2>2. Status' = [s \in ScanIds |-> IF Status[s] = "nil" THEN "nil" ELSE "gone"]
    BY <1>11, <2>1 DEF DeleteCertificate, NoScan
  <2>3. Owner' = [e \in Keys |-> 0]
    BY <1>11 DEF DeleteCertificate, NoResult
  <2>4. Abstract!Remove
    BY <2>2, <2>3 DEF Abstract!Remove
  <2> QED BY <2>4 DEF Abstract!Next
<1>12. ASSUME NEW w \in Workers,
              \/ WaitEnds(w) \/ DeadlockVictim(w) \/ RecordScan(w) \/ ScanInterrupted(w) \/ Crash(w)
              \/ \E t \in worker[w].todo: \E f \in Found(t): \E k \in RowsFor(w, f):
                   RecordResult(w, t, f, k)
       PROVE  UNCHANGED <<Status, Owner>>
  <2>1. UNCHANGED <<scan, result>>
    BY <1>12 DEF WaitEnds, DeadlockVictim, RecordScan, ScanInterrupted, Crash, RecordResult
  <2> QED BY <2>1
<1>13. ASSUME \/ UNCHANGED vars
              \/ \E targets \in Requests: BulkScan(targets)
              \/ \E msg \in queue: TaskRaises(msg)
       PROVE  UNCHANGED <<Status, Owner>>
  <2>1. UNCHANGED <<scan, result>>
    BY <1>13 DEF vars, BulkScan, TaskRaises
  <2> QED BY <2>1
<1> HIDE DEF Status, Owner
<1> QED BY <1>1, <1>4, <1>5, <1>6, <1>7, <1>8, <1>9, <1>10, <1>11, <1>12, <1>13 DEF Next, Step

\* The results of a usage scan appear all at once, with its completion; a scan that
\* failed, died or was overtaken by the deletion of its certificate has changed none.
\* This holds for any number of sessions and of messages delivered twice.
THEOREM ScansRefine == Spec => ResultsAppearWithCompletion
<1>1. Init => Abstract!Init
  BY DEF Init, Abstract!Init, NoScan, NoResult
<1>2. TInv /\ [Next]_vars => [Abstract!Next]_(Abstract!vars)
  BY StepRefines
<1>3. Spec => []TInv
  BY InitTInv, NextTInv, PTL DEF Spec
<1> QED BY <1>1, <1>2, <1>3, PTL DEF Spec, ResultsAppearWithCompletion, Abstract!Spec

----------------------------------------------------------------------------
(* The counters *)

\* What a session has to do is finite.
LEMMA TodoFinite ==
  ASSUME TInv, CountInv, NEW w \in Workers
  PROVE  IsFiniteSet(worker[w].todo) /\ IsFiniteSet(worker[w].msg.targets)
<1>1. IsFiniteSet({})
  BY FS_EmptySet
<1>2. IsFiniteSet(worker[w].msg.targets)
  BY <1>1, UsageAssumption, IdleType DEF TInv, TypeOK, Session, Messages
<1>3. worker[w].todo \subseteq worker[w].msg.targets
  BY DEF CountInv, SessionCount
<1> QED BY <1>2, <1>3, FS_Subset

\* A session that records an answer counts it.
LEMMA LocalCount ==
  ASSUME TInv, CountInv, NEW w \in Workers, NEW r, Local(w, r)
  PROVE  CountInv'
<1>1. /\ worker'[w] = r
      /\ \A v \in Workers: v # w => worker'[v] = worker[v]
      /\ UNCHANGED <<scan, queue>>
  BY WorkerStep DEF Local, TInv
<1>2. \A z: Begun(z)' = Begun(z)
  BY <1>1 DEF Begun
<1>3. \A m: MsgCount(m) => MsgCount(m)'
  BY <1>1, <1>2 DEF MsgCount
<1>4. \A z \in ScanIds: ScanCount(z)'
  BY <1>1 DEF CountInv, ScanCount
<1>5. ASSUME NEW v \in Workers, v # w PROVE SessionCount(v)'
  <2>1. SessionCount(v) /\ worker'[v] = worker[v] /\ scan' = scan
    BY <1>1, <1>5 DEF CountInv
  <2> QED BY <1>2, <1>3, <2>1 DEF SessionCount
<1>6. SessionCount(w)'
  <2>1. /\ SessionCount(w) /\ worker[w].pc \in {"scan", "wait"} /\ worker[w] \in Session
        /\ r \in Session /\ r.pc \in {"scan", "wait", "failing"}
        /\ r.scan = worker[w].scan /\ r.msg = worker[w].msg
    BY DEF CountInv, Local, TInv, TypeOK
  <2>2. /\ worker[w].counted \in Nat /\ worker[w].scanned \in Nat
        /\ Cardinality(worker[w].todo) \in Nat
    BY <2>1, TodoFinite, FS_CardinalityType DEF Session
  <2>3. scan' = scan /\ (Begun(r.scan) => scan[r.scan].scanned \in Nat)
    <3>1. r.scan \in ScanIds
      BY <2>1, ActiveScan DEF Active
    <3> QED BY <1>1, <3>1 DEF TInv, TypeOK, ScanRow
  <2>4. /\ r.todo \subseteq worker[w].todo
        /\ r.counted + Cardinality(r.todo) = worker[w].counted + Cardinality(worker[w].todo)
        /\ \/ r.counted = worker[w].counted /\ r.scanned = worker[w].scanned
           \/ r.counted = worker[w].counted + 1 /\ r.scanned = worker[w].scanned + 1
    <3>1. CASE /\ r.todo = worker[w].todo
               /\ r.counted = worker[w].counted /\ r.scanned = worker[w].scanned
      BY <3>1
    <3>2. ASSUME NEW t \in worker[w].todo,
                 r.todo = worker[w].todo \ {t},
                 r.counted = worker[w].counted + 1, r.scanned = worker[w].scanned + 1
          PROVE  r.counted + Cardinality(r.todo) = worker[w].counted + Cardinality(worker[w].todo)
      <4>1. Cardinality(worker[w].todo \ {t}) = Cardinality(worker[w].todo) - 1
        BY TodoFinite, FS_RemoveElement
      <4> QED BY <2>2, <3>2, <4>1
    <3> QED BY <3>1, <3>2 DEF Local
  <2>5. MsgCount(r.msg)' /\ r.todo \subseteq r.msg.targets
    BY <1>3, <2>1, <2>4 DEF SessionCount
  <2>6. r.pc \in {"scan", "wait"} => r.counted + Cardinality(r.todo) = Cardinality(r.msg.targets)
    BY <2>1, <2>4 DEF SessionCount
  <2>7. Begun(r.scan) => /\ scan[r.scan].candidates = Cardinality(r.msg.targets)
                         /\ r.scanned = scan[r.scan].scanned + r.counted
    BY <2>1, <2>2, <2>3, <2>4 DEF SessionCount, Active
  <2> QED BY <1>1, <1>2, <2>1, <2>3, <2>5, <2>6, <2>7 DEF SessionCount
<1> QED BY <1>1, <1>3, <1>4, <1>5, <1>6 DEF CountInv

\* A session that lets its scan go leaves the counters of the others.
LEMMA ReleaseCount ==
  ASSUME TInv, CountInv, NEW w \in Workers, NEW r, Release(w, r), r.todo = {},
         \A z \in ScanIds: /\ scan'[z].candidates = scan[z].candidates
                           /\ Begun(z)' <=> Begun(z)
                           /\ ScanCount(z)'
  PROVE  CountInv'
<1>1. /\ worker'[w] = r
      /\ \A v \in Workers: v # w => worker'[v] = worker[v]
  BY WorkerStep DEF Release, TInv
<1>2. ASSUME NEW m, m.scan # 0 => m.scan \in ScanIds, MsgCount(m) PROVE MsgCount(m)'
  BY <1>2 DEF MsgCount
<1>3. r.pc \in {"idle", "record"} /\ (r.msg = NoMsg \/ r.msg = worker[w].msg)
  BY IdleType DEF Release
<1>4. \A v \in Workers: worker[v].msg.scan # 0 => worker[v].msg.scan \in ScanIds
  BY IdleType DEF TInv, TypeOK, Session, Messages, ScanIds
<1>5. \A m \in queue: m.scan # 0 => m.scan \in ScanIds
  BY DEF TInv, TypeOK, Messages, ScanIds
<1>6. \A m: m = worker[w].msg => MsgCount(m)'
  BY <1>2, <1>4 DEF CountInv, SessionCount
<1>7. \A m \in queue': MsgCount(m)'
  BY <1>2, <1>5, <1>6 DEF CountInv, Release
<1>8. SessionCount(w)'
  <2>1. MsgCount(r.msg)'
    BY <1>3, <1>6, IdleType DEF MsgCount
  <2> QED BY <1>1, <1>3, <2>1 DEF SessionCount, Active
<1>9. ASSUME NEW v \in Workers, v # w PROVE SessionCount(v)'
  <2>1. SessionCount(v) /\ worker'[v] = worker[v]
    BY <1>1, <1>9 DEF CountInv
  <2>2. MsgCount(worker[v].msg)'
    BY <1>2, <1>4, <2>1 DEF SessionCount
  <2>3. CASE worker[v].pc \in Active
    <3>1. worker[v].scan \in ScanIds
      BY <2>3, ActiveScan
    <3>2. worker[v].scan # worker[w].scan
      <4>1. Holds(v) \cap Holds(w) = {}
        BY <1>9 DEF TInv, HoldInv
      <4> QED BY <3>1, <4>1 DEF Holds, ScanIds
    <3>3. scan'[worker[v].scan] = scan[worker[v].scan] /\ Begun(worker[v].scan)' = Begun(worker[v].scan)
      BY <3>1, <3>2 DEF Release, Begun
    <3> QED BY <2>1, <2>2, <3>3 DEF SessionCount
  <2>4. CASE worker[v].pc \notin Active
    BY <2>1, <2>2, <2>4 DEF SessionCount, Active
  <2> QED BY <2>3, <2>4
<1> QED BY <1>7, <1>8, <1>9 DEF CountInv

\* A completed scan has counted every candidate, and those that fail or die have
\* written no counter.
LEMMA ReleaseCounts ==
  ASSUME TInv, CountInv, NEW w \in Workers,
         CompleteEmpty(w) \/ CompleteScan(w) \/ RecordScan(w) \/ FailScan(w) \/ Crash(w)
  PROVE  CountInv'
<1> DEFINE s == worker[w].scan
<1>1. PICK r: Release(w, r)
  BY ReleaseSteps
<1>2. r.todo = {}
  <2>1. worker'[w] = r
    BY <1>1, WorkerStep DEF Release, TInv
  <2>2. CASE r = Idle
    BY <2>2, IdleType
  <2>3. CASE r # Idle
    <3>1. CompleteScan(w)
      BY <1>1, <2>1, <2>3 DEF CompleteEmpty, RecordScan, FailScan, Crash, TInv, TypeOK
    <3>2. worker'[w] = [Idle EXCEPT !.pc = "record", !.msg = worker[w].msg]
      BY <3>1 DEF CompleteScan, TInv, TypeOK
    <3> QED BY <2>1, <3>2, IdleType DEF Session
  <2> QED BY <2>2, <2>3
<1>3. ASSUME UNCHANGED scan PROVE CountInv'
  <2>1. \A z \in ScanIds: /\ scan'[z].candidates = scan[z].candidates
                          /\ Begun(z)' <=> Begun(z)
                          /\ ScanCount(z)'
    BY <1>3 DEF Begun, CountInv, ScanCount
  <2> QED BY <1>1, <1>2, <2>1, ReleaseCount
<1>4. ASSUME s \in ScanIds, scan[s].status # "gone", NEW row \in ScanRow,
             scan' = [scan EXCEPT ![s] = row], Begun(s), row.status \in {"completed", "failed"},
             row.candidates = scan[s].candidates,
             row.ends = 0 => row.scanned = 0 /\ row.counted = 0,
             row.ends > 0 => /\ row.counted = row.candidates
                             /\ row.scanned >= row.candidates
                             /\ row.ends = 1 => row.scanned = row.candidates,
             row.status = "completed" => row.ends > 0
      PROVE  CountInv'
  <2>1. /\ scan'[s] = row
        /\ \A z \in ScanIds: z # s => scan'[z] = scan[z]
    BY <1>4, ScanStep DEF TInv
  <2>2. ASSUME NEW z \in ScanIds
        PROVE  /\ scan'[z].candidates = scan[z].candidates
               /\ Begun(z)' <=> Begun(z)
               /\ ScanCount(z)'
    <3>1. CASE z = s
      BY <1>4, <2>1, <3>1 DEF Begun, ScanCount
    <3>2. CASE z # s
      BY <2>1, <3>2 DEF Begun, CountInv, ScanCount
    <3> QED BY <3>1, <3>2
  <2> QED BY <1>1, <1>2, <2>2, ReleaseCount
<1>5. CASE RecordScan(w) \/ Crash(w)
  BY <1>3, <1>5 DEF RecordScan, Crash
<1>6. ASSUME worker[w].pc \in Active
      PROVE  /\ s \in ScanIds /\ scan[s] \in ScanRow /\ scan[s].status \in {"running", "gone"}
             /\ ScanCount(s) /\ SessionCount(w)
             /\ scan[s].status = "running" => Begun(s)
             /\ scan[s].ends \in Nat /\ scan[s].scanned \in Nat /\ scan[s].counted \in Nat
  BY <1>6, ActiveScan DEF CountInv, Begun, ScanRow
<1>7. CASE FailScan(w)
  <2>1. s \in ScanIds /\ scan[s] \in ScanRow /\ scan[s].status \in {"running", "gone"} /\ ScanCount(s)
    BY <1>6, <1>7 DEF FailScan, Active
  <2>2. CASE scan[s].status = "gone"
    <3>1. scan' = [scan EXCEPT ![s].status = "gone"]
      BY <1>7, <2>2 DEF FailScan
    <3>2. scan' = scan
      BY <2>1, <2>2, <3>1 DEF TInv, TypeOK, ScanRow
    <3> QED BY <1>3, <3>2
  <2>3. CASE scan[s].status = "running"
    <3> DEFINE row == [scan[s] EXCEPT !.status = "failed"]
    <3>1. scan' = [scan EXCEPT ![s] = row]
      BY <1>7, <2>3 DEF FailScan
    <3>2. /\ row \in ScanRow /\ row.status = "failed" /\ row.candidates = scan[s].candidates
          /\ row.ends = scan[s].ends /\ row.scanned = scan[s].scanned /\ row.counted = scan[s].counted
      BY <2>1 DEF ScanRow, ScanStatus
    <3> HIDE DEF row
    <3>3. Begun(s)
      BY <2>3 DEF Begun
    <3> QED BY <1>4, <2>1, <2>3, <3>1, <3>2, <3>3 DEF ScanCount
  <2> QED BY <2>1, <2>2, <2>3
<1>8. CASE CompleteEmpty(w)
  <2>1. /\ s \in ScanIds /\ scan[s] \in ScanRow /\ scan[s].status \in {"running", "gone"}
        /\ ScanCount(s) /\ SessionCount(w) /\ worker[w].pc = "empty"
        /\ scan[s].status = "running" => Begun(s)
        /\ scan[s].ends \in Nat
    BY <1>6, <1>8 DEF CompleteEmpty, Active
  <2>2. CASE scan[s].status = "gone"
    BY <1>3, <1>8, <2>2 DEF CompleteEmpty
  <2>3. CASE scan[s].status = "running"
    <3> DEFINE row == [scan[s] EXCEPT !.status = "completed", !.ends = scan[s].ends + 1]
    <3>1. scan' = [scan EXCEPT ![s] = row]
      BY <1>8, <2>1, <2>3 DEF CompleteEmpty, TInv, TypeOK
    <3>2. row \in ScanRow
      <4>1. scan[s].ends + 1 \in Nat /\ "completed" \in ScanStatus
        BY <2>1 DEF ScanRow, ScanStatus
      <4> QED BY <2>1, <4>1 DEF ScanRow
    <3>3. /\ row.status = "completed" /\ row.candidates = scan[s].candidates
          /\ row.ends = scan[s].ends + 1 /\ row.scanned = scan[s].scanned
          /\ row.counted = scan[s].counted
      BY <2>1 DEF ScanRow
    <3> HIDE DEF row
    <3>4. scan[s].candidates = 0
      BY <2>1, <2>3, FS_EmptySet DEF SessionCount, Active
    <3>5. row.ends > 0 /\ row.counted = row.candidates /\ row.scanned >= row.candidates
          /\ (row.ends = 1 => row.scanned = row.candidates)
      <4>1. scan[s].ends = 0 \/ scan[s].ends > 0
        BY <2>1
      <4>2. row.ends > 0 /\ (row.ends = 1 => scan[s].ends = 0)
        BY <2>1, <3>3
      <4> QED BY <2>1, <3>3, <3>4, <4>1, <4>2 DEF ScanCount
    <3>6. row.ends # 0
      BY <2>1, <3>3
    <3> QED BY <1>4, <2>1, <2>3, <3>1, <3>2, <3>3, <3>5, <3>6
  <2> QED BY <2>1, <2>2, <2>3
<1>9. CASE CompleteScan(w)
  <2>0. scan[s].status = "running"
    <3>1. worker[w].buf # {} /\ cert
      BY <1>9 DEF CompleteScan, TInv, RunInv
    <3> QED BY <1>6, <1>9, <3>1 DEF CompleteScan, Active, TInv, RunInv
  <2>1. /\ s \in ScanIds /\ scan[s] \in ScanRow
        /\ ScanCount(s) /\ SessionCount(w) /\ worker[w].pc = "scan" /\ worker[w].todo = {}
        /\ Begun(s) /\ scan[s].ends \in Nat /\ scan[s].scanned \in Nat
        /\ worker[w].scanned \in Nat /\ worker[w].counted \in Nat
    <3>1. worker[w].scanned \in Nat /\ worker[w].counted \in Nat
      BY DEF TInv, TypeOK, Session
    <3> QED BY <1>6, <1>9, <2>0, <3>1 DEF CompleteScan, Active
  <2> DEFINE row == [scan[s] EXCEPT !.status = "completed", !.ends = scan[s].ends + 1,
                       !.scanned = worker[w].scanned, !.counted = worker[w].counted]
  <2>2. scan' = [scan EXCEPT ![s] = row]
    BY <1>9 DEF CompleteScan
  <2>3. row \in ScanRow
    <3>1. scan[s].ends + 1 \in Nat /\ "completed" \in ScanStatus
      BY <2>1 DEF ScanRow, ScanStatus
    <3> QED BY <2>1, <3>1 DEF ScanRow
  <2>4. /\ row.status = "completed" /\ row.candidates = scan[s].candidates
        /\ row.ends = scan[s].ends + 1 /\ row.scanned = worker[w].scanned
        /\ row.counted = worker[w].counted
    BY <2>1 DEF ScanRow
  <2> HIDE DEF row
  <2>5. scan[s].candidates = worker[w].counted /\ worker[w].scanned = scan[s].scanned + worker[w].counted
    <3>1. Cardinality({}) = 0
      BY FS_EmptySet
    <3> QED BY <2>1, <3>1 DEF SessionCount, Active
  <2>6. row.ends > 0 /\ row.counted = row.candidates /\ row.scanned >= row.candidates
        /\ (row.ends = 1 => row.scanned = row.candidates)
    <3>1. row.ends > 0 /\ (row.ends = 1 => scan[s].ends = 0)
      BY <2>1, <2>4
    <3> QED BY <2>1, <2>4, <2>5, <3>1 DEF ScanCount
  <2>7. row.ends # 0
    BY <2>1, <2>4
  <2> QED BY <1>4, <2>0, <2>1, <2>2, <2>3, <2>4, <2>6, <2>7
<1> QED BY <1>5, <1>7, <1>8, <1>9

\* A scan that is begun again has the candidates it had the first time.
LEMMA BeginCounts ==
  ASSUME TInv, CountInv, NEW w \in Workers, NEW msg \in queue, DeliverScan(w, msg)
  PROVE  CountInv'
<1> DEFINE s == IF msg.scan = 0 THEN nscan + 1 ELSE msg.scan
           n == Cardinality(msg.targets)
           row == [scan[s] EXCEPT !.status = "running", !.old = FALSE, !.candidates = n]
           r == [Idle EXCEPT !.pc = IF msg.targets = {} THEN "empty" ELSE "scan", !.scan = s,
                             !.msg = msg, !.todo = msg.targets, !.scanned = scan[s].scanned]
<1>1. /\ TInv' /\ s \in ScanIds /\ scan[s] \in ScanRow /\ scan[s].status # "gone" /\ n \in Nat
      /\ \A v \in Workers: s \notin Holds(v)
  BY BeginInv
<1>2. /\ queue' = queue \ {msg} /\ scan' = [scan EXCEPT ![s] = row]
      /\ worker' = [worker EXCEPT ![w] = r]
  BY DEF DeliverScan, BeginScan
<1>3. /\ row.status = "running" /\ row.candidates = n /\ row.ends = scan[s].ends
      /\ row.scanned = scan[s].scanned /\ row.counted = scan[s].counted
  <2> HIDE DEF s, n
  <2> QED BY <1>1 DEF ScanRow
<1>4. /\ r.pc = IF msg.targets = {} THEN "empty" ELSE "scan"
      /\ r.scan = s /\ r.msg = msg /\ r.todo = msg.targets
      /\ r.scanned = scan[s].scanned /\ r.counted = 0
  <2> HIDE DEF s
  <2> QED BY DEF Idle
<1>5. scan[s].ends > 0 => scan[s].candidates = n
  <2>1. CASE msg.scan = 0
    <3>1. scan[s].status = "nil"
      <4>1. s > nscan
        BY <2>1 DEF TInv, TypeOK
      <4> QED BY <1>1, <4>1 DEF TInv, TypeOK
    <3> QED BY <1>1, <3>1 DEF CountInv, ScanCount
  <2>2. CASE msg.scan # 0
    <3>1. scan[s].ends > 0 => Begun(msg.scan)
      BY <1>1, <2>2 DEF CountInv, ScanCount, Begun
    <3> QED BY <2>2, <3>1 DEF CountInv, MsgCount
  <2> QED BY <2>1, <2>2
<1>6. scan[s].scanned \in Nat /\ scan[s].ends \in Nat /\ ScanCount(s)
  BY <1>1 DEF CountInv, ScanRow
<1> HIDE DEF s, n, row, r
<1>7. /\ scan'[s] = row
      /\ \A z \in ScanIds: z # s => scan'[z] = scan[z]
  BY <1>1, <1>2 DEF TInv, TypeOK
<1>8. /\ worker'[w] = r
      /\ \A v \in Workers: v # w => worker'[v] = worker[v]
  BY <1>2 DEF TInv, TypeOK
<1>9. ASSUME NEW z \in ScanIds PROVE ScanCount(z)'
  <2>1. CASE z = s
    BY <1>3, <1>5, <1>6, <1>7, <2>1 DEF ScanCount
  <2>2. CASE z # s
    BY <1>7, <2>2 DEF CountInv, ScanCount
  <2> QED BY <2>1, <2>2
<1>10. s \in Holds(w)'
  BY <1>1, <1>4, <1>8 DEF Holds, ScanIds
<1>11. ASSUME NEW m, m.scan # 0 => m.scan \in ScanIds, m.scan # s, MsgCount(m) PROVE MsgCount(m)'
  BY <1>7, <1>11 DEF MsgCount, Begun
<1>12. ASSUME NEW m \in queue' PROVE MsgCount(m)'
  <2>1. m.scan # s /\ m \in queue
    BY <1>1, <1>2, <1>10, <1>12 DEF TInv, HoldInv
  <2>2. m.scan # 0 => m.scan \in ScanIds
    BY <2>1 DEF TInv, TypeOK, Messages, ScanIds
  <2> QED BY <1>11, <2>1, <2>2 DEF CountInv
<1>13. SessionCount(w)'
  <2>1. MsgCount(msg)'
    <3>1. msg.scan # 0 => msg.scan = s
      BY DEF s
    <3> QED BY <1>3, <1>7, <3>1 DEF MsgCount, n
  <2>2. 0 + n = n /\ scan[s].scanned = scan[s].scanned + 0
    BY <1>1, <1>6
  <2>3. MsgCount(worker[w].msg)'
    BY <1>4, <1>8, <2>1
  <2> QED BY <1>3, <1>4, <1>7, <1>8, <2>2, <2>3 DEF SessionCount, n
<1>14. ASSUME NEW v \in Workers, v # w PROVE SessionCount(v)'
  <2>2. worker[v].msg.scan # 0 => worker[v].msg.scan \in ScanIds
    BY IdleType DEF TInv, TypeOK, Session, Messages, ScanIds
  <2>3. s # 0
    BY <1>1 DEF ScanIds
  <2>4. SessionCount(v) /\ worker'[v] = worker[v]
    BY <1>8, <1>14 DEF CountInv
  <2>5. \A m: m = worker[v].msg => MsgCount(m)'
    BY <1>1, <1>11, <2>2, <2>3, <2>4 DEF SessionCount, Holds
  <2>6. MsgCount(worker[v].msg)'
    BY <2>4, <2>5
  <2>7. CASE worker[v].pc \in Active
    <3>1. worker[v].scan \in ScanIds /\ worker[v].scan # s
      BY <1>1, <2>3, <2>7, ActiveScan DEF Holds
    <3>2. scan'[worker[v].scan] = scan[worker[v].scan] /\ Begun(worker[v].scan)' = Begun(worker[v].scan)
      BY <1>7, <2>4, <3>1 DEF Begun
    <3> QED BY <2>4, <2>6, <3>2 DEF SessionCount
  <2>8. CASE worker[v].pc \notin Active
    BY <2>4, <2>6, <2>8 DEF SessionCount, Active
  <2> QED BY <2>7, <2>8
<1> QED BY <1>9, <1>12, <1>13, <1>14 DEF CountInv

\* No other step touches the counters of a scan that exists.
LEMMA OtherCounts ==
  ASSUME TInv, CountInv,
         \/ \E targets \in Requests: TriggerScan(targets) \/ BulkScan(targets)
         \/ \E msg \in queue: TaskRaises(msg)
         \/ \E s \in ScanIds: HalfHourPasses(s) \/ MarkStaleScanFailed(s)
         \/ DeleteCertificate
  PROVE  CountInv'
<1>0. /\ scan \in [ScanIds -> ScanRow] /\ nscan \in 0..MaxScans
      /\ \A m \in queue: m.scan # 0 => m.scan \in ScanIds /\ m.scan <= nscan
      /\ \A v \in Workers: worker[v].msg.scan # 0 =>
           worker[v].msg.scan \in ScanIds /\ worker[v].msg.scan <= nscan
      /\ \A v \in Workers: worker[v].pc \in Active =>
           worker[v].scan \in ScanIds /\ worker[v].scan <= nscan
  <2>1. scan \in [ScanIds -> ScanRow] /\ nscan \in 0..MaxScans
    BY DEF TInv, TypeOK
  <2>2. \A m \in queue: m.scan # 0 => m.scan \in ScanIds /\ m.scan <= nscan
    BY DEF TInv, TypeOK, Messages, ScanIds, HoldInv
  <2>3. \A v \in Workers: worker[v].msg.scan # 0 => worker[v].msg.scan \in ScanIds /\ worker[v].msg.scan <= nscan
    BY IdleType DEF TInv, TypeOK, Session, Messages, ScanIds, HoldInv, SessionOK
  <2>4. \A v \in Workers: worker[v].pc \in Active => worker[v].scan \in ScanIds /\ worker[v].scan <= nscan
    BY ActiveScan
  <2> QED BY <2>1, <2>2, <2>3, <2>4
\* What keeps or voids the counts of every scan that is held
<1>1. ASSUME UNCHANGED worker, queue' \subseteq queue,
             \A z \in ScanIds: ScanCount(z)',
             \A z \in ScanIds: z <= nscan =>
               \/ ~Begun(z)'
               \/ Begun(z) /\ scan'[z].candidates = scan[z].candidates /\ scan'[z].scanned = scan[z].scanned
      PROVE  CountInv'
  <2>1. ASSUME NEW m, m.scan # 0 => m.scan \in ScanIds /\ m.scan <= nscan, MsgCount(m) PROVE MsgCount(m)'
    BY <1>1, <2>1 DEF MsgCount
  <2>2. \A m \in queue': MsgCount(m)'
    BY <1>0, <1>1, <2>1 DEF CountInv
  <2>3. ASSUME NEW v \in Workers PROVE SessionCount(v)'
    <3>1. SessionCount(v) /\ worker'[v] = worker[v]
      BY <1>1 DEF CountInv
    <3>2. \A m: m = worker[v].msg => MsgCount(m)'
      BY <1>0, <2>1, <3>1 DEF SessionCount
    <3>3. MsgCount(worker[v].msg)'
      BY <3>1, <3>2
    <3>4. CASE worker[v].pc \in Active
      <4>1. PICK z \in ScanIds: z = worker[v].scan /\ z <= nscan
        BY <1>0, <3>4
      <4>2. \/ ~Begun(z)'
            \/ Begun(z) /\ scan'[z].candidates = scan[z].candidates /\ scan'[z].scanned = scan[z].scanned
        BY <1>1, <4>1
      <4>3. worker'[v].scan = z
        BY <3>1, <4>1
      <4> QED BY <3>1, <3>3, <4>1, <4>2, <4>3 DEF SessionCount
    <3>5. CASE worker[v].pc \notin Active
      BY <3>1, <3>3, <3>5 DEF SessionCount, Active
    <3> QED BY <3>4, <3>5
  <2> QED BY <1>1, <2>2, <2>3 DEF CountInv
<1>2. ASSUME NEW msg \in queue, TaskRaises(msg) PROVE CountInv'
  <2>1. UNCHANGED <<worker, scan>> /\ queue' \subseteq queue
    BY <1>2 DEF TaskRaises
  <2>2. \A z \in ScanIds: ScanCount(z)'
    BY <2>1 DEF CountInv, ScanCount
  <2>3. \A z \in ScanIds: Begun(z)' = Begun(z) /\ scan'[z] = scan[z]
    BY <2>1 DEF Begun
  <2> QED BY <1>1, <2>1, <2>2, <2>3
<1>3. ASSUME NEW s \in ScanIds, NEW row, UNCHANGED <<worker, queue>>,
             scan' = [scan EXCEPT ![s] = row], scan[s].status = "running",
             row.status \in {"running", "failed"}, row.candidates = scan[s].candidates,
             row.ends = scan[s].ends, row.scanned = scan[s].scanned, row.counted = scan[s].counted
      PROVE  CountInv'
  <2>1. scan'[s] = row /\ \A z \in ScanIds: z # s => scan'[z] = scan[z]
    BY <1>0, <1>3
  <2>2. ASSUME NEW z \in ScanIds PROVE ScanCount(z)'
    <3>1. CASE z = s
      BY <1>3, <2>1, <3>1 DEF CountInv, ScanCount
    <3>2. CASE z # s
      BY <2>1, <3>2 DEF CountInv, ScanCount
    <3> QED BY <3>1, <3>2
  <2>3. ASSUME NEW z \in ScanIds
        PROVE  \/ ~Begun(z)'
               \/ Begun(z) /\ scan'[z].candidates = scan[z].candidates /\ scan'[z].scanned = scan[z].scanned
    BY <1>3, <2>1 DEF Begun
  <2> QED BY <1>1, <1>3, <2>2, <2>3
<1>4. ASSUME NEW s \in ScanIds, HalfHourPasses(s) PROVE CountInv'
  <2> DEFINE row == [scan[s] EXCEPT !.old = TRUE]
  <2>1. /\ row.status = scan[s].status /\ row.candidates = scan[s].candidates
        /\ row.ends = scan[s].ends /\ row.scanned = scan[s].scanned /\ row.counted = scan[s].counted
    BY <1>0 DEF ScanRow
  <2>2. /\ scan' = [scan EXCEPT ![s] = row] /\ scan[s].status = "running"
        /\ UNCHANGED <<worker, queue>>
    BY <1>4 DEF HalfHourPasses
  <2> HIDE DEF row
  <2> QED BY <1>3, <2>1, <2>2
<1>5. ASSUME NEW s \in ScanIds, MarkStaleScanFailed(s) PROVE CountInv'
  <2> DEFINE row == [scan[s] EXCEPT !.status = "failed"]
  <2>1. /\ row.status = "failed" /\ row.candidates = scan[s].candidates
        /\ row.ends = scan[s].ends /\ row.scanned = scan[s].scanned /\ row.counted = scan[s].counted
    BY <1>0 DEF ScanRow
  <2>2. /\ scan' = [scan EXCEPT ![s] = row] /\ scan[s].status = "running"
        /\ UNCHANGED <<worker, queue>>
    BY <1>5 DEF MarkStaleScanFailed
  <2> HIDE DEF row
  <2> QED BY <1>3, <2>1, <2>2
<1>6. ASSUME DeleteCertificate PROVE CountInv'
  <2>1. UNCHANGED <<worker, queue>>
    BY <1>6 DEF DeleteCertificate
  <2>2. \A z \in ScanIds: IF z <= nscan THEN scan'[z].status = "gone" /\ scan'[z].ends = 0
                                            /\ scan'[z].scanned = 0 /\ scan'[z].counted = 0
                          ELSE scan'[z] = scan[z]
    BY <1>6 DEF DeleteCertificate, NoScan
  <2>3. ASSUME NEW z \in ScanIds PROVE ScanCount(z)'
    BY <2>2 DEF CountInv, ScanCount
  <2>4. \A z \in ScanIds: z <= nscan => ~Begun(z)'
    BY <2>2 DEF Begun
  <2> QED BY <1>1, <2>1, <2>3, <2>4
<1>7. ASSUME NEW targets \in Requests, TriggerScan(targets) \/ BulkScan(targets) PROVE CountInv'
  <2>1. PICK m:
          /\ queue' = queue \cup {m} /\ worker' = worker
          /\ \/ m.scan = 0 /\ scan' = scan
             \/ /\ m.scan = nscan + 1 /\ nscan + 1 \in ScanIds
                /\ scan' = [scan EXCEPT ![nscan + 1] = [NoScan EXCEPT !.status = "queued"]]
    <3>1. CASE BulkScan(targets)
      <4> DEFINE m == [scan |-> 0, targets |-> targets]
      <4>1. m.scan = 0 /\ queue' = queue \cup {m} /\ worker' = worker /\ scan' = scan
        BY <3>1 DEF BulkScan
      <4> HIDE DEF m
      <4> QED BY <4>1
    <3>2. CASE TriggerScan(targets)
      <4> DEFINE m == [scan |-> nscan + 1, targets |-> targets]
      <4>1. m.scan = nscan + 1 /\ queue' = queue \cup {m} /\ worker' = worker
            /\ scan' = [scan EXCEPT ![nscan + 1] = [NoScan EXCEPT !.status = "queued"]]
        BY <3>2 DEF TriggerScan
      <4>2. nscan + 1 \in ScanIds
        BY <1>0, <3>2, UsageAssumption DEF TriggerScan, ScanIds
      <4> HIDE DEF m
      <4> QED BY <4>1, <4>2
    <3> QED BY <1>7, <3>1, <3>2
  <2>2. \A z \in ScanIds: z <= nscan => scan'[z] = scan[z] /\ Begun(z)' = Begun(z)
    <3> SUFFICES ASSUME NEW z \in ScanIds, z <= nscan PROVE scan'[z] = scan[z] /\ Begun(z)' = Begun(z)
      OBVIOUS
    <3>1. z # nscan + 1
      BY <1>0 DEF ScanIds
    <3>2. scan'[z] = scan[z]
      BY <1>0, <2>1, <3>1
    <3> QED BY <3>2 DEF Begun
  <2>3. ASSUME NEW z \in ScanIds PROVE ScanCount(z)'
    <3>1. CASE scan'[z] = scan[z]
      BY <3>1 DEF CountInv, ScanCount
    <3>2. CASE scan'[z] = [NoScan EXCEPT !.status = "queued"]
      <4>1. scan'[z].ends = 0 /\ scan'[z].scanned = 0 /\ scan'[z].counted = 0 /\ scan'[z].status = "queued"
        BY <3>2 DEF NoScan
      <4> QED BY <4>1 DEF ScanCount
    <3> QED BY <1>0, <2>1, <3>1, <3>2
  <2>4. MsgCount(m)'
    <3>1. CASE m.scan = 0
      BY <3>1 DEF MsgCount
    <3>2. CASE m.scan # 0
      <4>1. scan'[m.scan].status = "queued"
        BY <1>0, <2>1, <3>2 DEF NoScan
      <4> QED BY <4>1 DEF MsgCount, Begun
    <3> QED BY <3>1, <3>2
  <2>5. ASSUME NEW q \in queue PROVE MsgCount(q)'
    <3>1. MsgCount(q) /\ (q.scan # 0 => q.scan \in ScanIds /\ q.scan <= nscan)
      BY <1>0 DEF CountInv
    <3> QED BY <2>2, <3>1 DEF MsgCount
  <2>6. ASSUME NEW v \in Workers PROVE SessionCount(v)'
    <3>1. SessionCount(v) /\ worker'[v] = worker[v]
      BY <2>1 DEF CountInv
    <3>2. MsgCount(worker[v].msg)'
      <4>1. \A x: x = worker[v].msg => MsgCount(x)'
        BY <1>0, <2>2, <3>1 DEF SessionCount, MsgCount
      <4> QED BY <3>1, <4>1
    <3>3. CASE worker[v].pc \in Active
      <4>1. PICK z \in ScanIds: z = worker[v].scan /\ z <= nscan
        BY <1>0, <3>3
      <4>2. Begun(z)' = Begun(z) /\ scan'[z] = scan[z]
        BY <2>2, <4>1
      <4>3. worker'[v].scan = z
        BY <3>1, <4>1
      <4> QED BY <3>1, <3>2, <4>1, <4>2, <4>3 DEF SessionCount
    <3>4. CASE worker[v].pc \notin Active
      BY <3>1, <3>2, <3>4 DEF SessionCount, Active
    <3> QED BY <3>3, <3>4
  <2> QED BY <2>1, <2>3, <2>4, <2>5, <2>6 DEF CountInv
<1> QED BY <1>2, <1>4, <1>5, <1>6, <1>7

\* The outcome counters of every completed scan account for all of its candidates, and
\* so does scanned_count unless the scan was completed twice.
THEOREM CountersAddUp == Spec => []CountsAddUp
<1> DEFINE CInv == TInv /\ CountInv
<1>1. Init => CInv
  <2> SUFFICES ASSUME Init PROVE CountInv
    BY InitTInv
  <2>1. \A s \in ScanIds: ScanCount(s)
    BY DEF Init, ScanCount, NoScan
  <2>2. \A w \in Workers: SessionCount(w)
    BY IdleType DEF Init, SessionCount, MsgCount, Active
  <2> QED BY <2>1, <2>2 DEF CountInv, Init
<1>2. CInv /\ [Next]_vars => CInv'
  <2> SUFFICES ASSUME TInv, CountInv, [Next]_vars PROVE CountInv'
    BY NextTInv
  <2>1. CASE UNCHANGED vars
    BY <2>1 DEF vars, CountInv, ScanCount, MsgCount, SessionCount, Begun
  <2>2. ASSUME NEW w \in Workers, Step(w) \/ ScanInterrupted(w) \/ Crash(w) PROVE CountInv'
    <3>1. CASE CompleteEmpty(w) \/ CompleteScan(w) \/ RecordScan(w) \/ FailScan(w) \/ Crash(w)
      BY <3>1, ReleaseCounts
    <3>2. CASE WaitEnds(w) \/ DeadlockVictim(w) \/ ScanInterrupted(w)
      BY <3>2, WaitLocal, LocalCount
    <3>3. CASE \E t \in worker[w].todo: \E f \in Found(t): \E k \in RowsFor(w, f):
                 RecordResult(w, t, f, k)
      BY <3>3, RecordLocal, LocalCount
    <3> QED BY <2>2, <3>1, <3>2, <3>3 DEF Step
  <2>3. ASSUME NEW w \in Workers, NEW msg \in queue, DeliverScan(w, msg) PROVE CountInv'
    BY <2>3, BeginCounts
  <2> QED BY <2>1, <2>2, <2>3, OtherCounts DEF Next
<1>3. CInv => CountsAddUp
  BY DEF CountInv, ScanCount, CountsAddUp
<1> HIDE DEF CInv
<1> QED BY <1>1, <1>2, <1>3, PTL DEF Spec

----------------------------------------------------------------------------
(* The sources *)

\* A row that is written and not committed is of no lesser source than the committed
\* one, whatever the sessions do.
LEMMA BufferStep ==
  ASSUME TInv, BufferInv, [Next]_vars
  PROVE  BufferInv'
<1>0. /\ \A v \in Workers: worker[v].buf \subseteq Buffered
      /\ \A v \in Workers: worker[v].pc \notin Active => worker[v].buf = {}
      /\ worker \in [Workers -> Session]
      /\ result \in [Keys -> ResultRow]
  BY DEF TInv, TypeOK, Session, HoldInv, SessionOK
<1>1. ASSUME \A v \in Workers: worker'[v].buf \in {worker[v].buf, {}},
             \A v \in Workers: \A b \in worker'[v].buf: result'[b.key] = result[b.key]
      PROVE  BufferInv'
  BY <1>1 DEF BufferInv
<1>2. ASSUME NEW w \in Workers, NEW r, Local(w, r) PROVE BufferInv'
  <2>1. /\ worker'[w] = r
        /\ \A v \in Workers: v # w => worker'[v] = worker[v]
        /\ UNCHANGED result
    BY <1>2, WorkerStep DEF Local, TInv
  <2>2. CASE r.buf = worker[w].buf
    BY <1>1, <2>1, <2>2
  <2>3. CASE Writes(w, r.buf)
    <3>1. PICK k \in Keys, src \in Sources, waited \in BOOLEAN:
            /\ r.buf = Flushed(w, k, src, waited)
            /\ ~HeldBy(w, k)
            /\ waited \/ /\ \E x \in Sources: src = SourceOf(w, k, x)
                         /\ \A b \in Own(w, k): ~b.waited
      BY <2>3 DEF Writes
    <3> DEFINE n == [key |-> k, src |-> src, waited |-> waited]
    <3>2. r.buf = (worker[w].buf \ Own(w, k)) \cup {n} /\ n.key = k /\ n.src = src /\ n.waited = waited
      BY <3>1 DEF Flushed
    <3> HIDE DEF n
    <3>3. \A v \in Workers: \A b \in worker'[v].buf:
            (b = n /\ v = w) \/ (b \in worker[v].buf /\ b.key # k)
      BY <2>1, <3>1, <3>2 DEF HeldBy, Own
    <3>4. \A v, u \in Workers: \A a \in worker'[v].buf, b \in worker'[u].buf:
            a.key = b.key => v = u /\ a = b
      BY <3>2, <3>3 DEF BufferInv
    <3>5. ~waited /\ result[k].there => Precedence[src] >= Precedence[result[k].src]
      <4> SUFFICES ASSUME ~waited, result[k].there
                   PROVE  Precedence[src] >= Precedence[result[k].src]
        OBVIOUS
      <4>1. PICK x \in Sources: src = SourceOf(w, k, x)
        BY <3>1
      <4>2. CASE Own(w, k) = {}
        BY <4>1, <4>2, SourceType DEF TInv
      <4>3. CASE Own(w, k) # {}
        <5>1. PICK b \in Own(w, k): TRUE
          BY <4>3
        <5>2. Own(w, k) = {b} /\ b \in worker[w].buf /\ b.key = k /\ ~b.waited
          BY <3>1, <5>1 DEF Own, BufferInv
        <5>3. Precedence[src] >= Precedence[b.src]
          BY <4>1, <5>1, <5>2, SourceType DEF TInv
        <5>4. Precedence[b.src] >= Precedence[result[k].src]
          BY <5>2 DEF BufferInv
        <5>5. b.src \in Sources /\ result[k].src \in Sources
          BY <1>0, <5>2 DEF Buffered, ResultRow
        <5> QED BY <5>3, <5>4, <5>5, PrecedenceType
      <4> QED BY <4>2, <4>3
    <3>6. \A v \in Workers: \A b \in worker'[v].buf:
            ~b.waited /\ result'[b.key].there => Precedence[b.src] >= Precedence[result'[b.key].src]
      BY <2>1, <3>2, <3>3, <3>5 DEF BufferInv
    <3> QED BY <3>4, <3>6 DEF BufferInv
  <2> QED BY <1>2, <2>2, <2>3 DEF Local
<1>3. ASSUME NEW w \in Workers, CompleteScan(w) PROVE BufferInv'
  <2>1. worker' = [worker EXCEPT ![w] = [Idle EXCEPT !.pc = "record", !.msg = worker[w].msg]]
        /\ result' = Written(w)
    BY <1>3 DEF CompleteScan
  <2>2. [Idle EXCEPT !.pc = "record", !.msg = worker[w].msg].buf = {}
    BY DEF Idle
  <2>3. worker'[w].buf = {} /\ \A v \in Workers: v # w => worker'[v] = worker[v]
    BY <1>0, <2>1, <2>2
  <2>4. ASSUME NEW v \in Workers, NEW b \in worker'[v].buf PROVE result'[b.key] = result[b.key]
    <3>1. v # w /\ b \in worker[v].buf /\ b.key \in Keys
      BY <1>0, <2>3, <2>4 DEF Buffered
    <3>2. Own(w, b.key) = {}
      BY <3>1 DEF Own, BufferInv
    <3> QED BY <2>1, <3>1, <3>2 DEF Written
  <2> QED BY <1>1, <2>3, <2>4
<1>4. ASSUME NEW w \in Workers, CompleteEmpty(w) \/ RecordScan(w) \/ FailScan(w) \/ Crash(w)
      PROVE  BufferInv'
  <2>1. worker' = [worker EXCEPT ![w] = Idle] /\ result' = result
    BY <1>4 DEF CompleteEmpty, RecordScan, FailScan, Crash
  <2>2. \A v \in Workers: worker'[v].buf \in {worker[v].buf, {}}
    BY <1>0, <2>1, IdleType
  <2> QED BY <1>1, <2>1, <2>2
<1>5. ASSUME NEW w \in Workers, NEW msg \in queue, DeliverScan(w, msg) PROVE BufferInv'
  <2>1. PICK s: worker' = [worker EXCEPT ![w] =
                   [Idle EXCEPT !.pc = IF msg.targets = {} THEN "empty" ELSE "scan", !.scan = s,
                      !.msg = msg, !.todo = msg.targets, !.scanned = scan[s].scanned]]
                /\ result' = result
    BY <1>5 DEF DeliverScan, BeginScan
  <2>2. [Idle EXCEPT !.pc = IF msg.targets = {} THEN "empty" ELSE "scan", !.scan = s,
                     !.msg = msg, !.todo = msg.targets, !.scanned = scan[s].scanned].buf = {}
    BY DEF Idle
  <2>3. \A v \in Workers: worker'[v].buf \in {worker[v].buf, {}}
    BY <1>0, <2>1, <2>2
  <2> QED BY <1>1, <2>1, <2>3
<1>6. ASSUME \/ UNCHANGED vars
             \/ \E targets \in Requests: TriggerScan(targets) \/ BulkScan(targets)
             \/ \E msg \in queue: TaskRaises(msg)
             \/ \E s \in ScanIds: HalfHourPasses(s) \/ MarkStaleScanFailed(s)
      PROVE  BufferInv'
  <2>1. UNCHANGED <<worker, result>>
    BY <1>6 DEF vars, TriggerScan, BulkScan, TaskRaises, HalfHourPasses, MarkStaleScanFailed
  <2> QED BY <1>1, <2>1
<1>7. ASSUME DeleteCertificate PROVE BufferInv'
  <2>1. worker' = worker /\ \A v \in Workers: worker[v].buf = {}
    BY <1>7 DEF DeleteCertificate
  <2> QED BY <2>1 DEF BufferInv
<1>8. ASSUME NEW w \in Workers,
             \/ WaitEnds(w) \/ DeadlockVictim(w) \/ ScanInterrupted(w)
             \/ \E t \in worker[w].todo: \E f \in Found(t): \E k \in RowsFor(w, f):
                  RecordResult(w, t, f, k)
      PROVE  BufferInv'
  BY <1>2, <1>8, WaitLocal, RecordLocal
<1> QED BY <1>3, <1>4, <1>5, <1>6, <1>7, <1>8 DEF Next, Step

\* No scan replaces the source of an endpoint by a lesser one, unless it had to wait for
\* another scan after it had read the row.
THEOREM SourcesRise == Spec => SourceNeverDowngraded
<1> DEFINE A == \A k \in Keys: result[k].there /\ result'[k].there
                  => \/ Precedence[result'[k].src] >= Precedence[result[k].src]
                     \/ \E w \in Workers: \E b \in Own(w, k): b.waited
           BInv == TInv /\ BufferInv
<1>1. Init => BInv
  <2> SUFFICES ASSUME Init PROVE BufferInv
    BY InitTInv
  <2> QED BY IdleType DEF Init, BufferInv
<1>2. BInv /\ [Next]_vars => BInv'
  BY NextTInv, BufferStep
<1>3. BInv /\ [Next]_vars => [A]_vars
  <2> SUFFICES ASSUME BInv, [Next]_vars, NEW k \in Keys, result[k].there, result'[k].there
               PROVE  \/ Precedence[result'[k].src] >= Precedence[result[k].src]
                      \/ \E w \in Workers: \E b \in Own(w, k): b.waited
    OBVIOUS
  <2>1. result[k].src \in Sources
    BY DEF TInv, TypeOK, ResultRow
  <2>2. CASE result' = result
    BY <2>1, <2>2, PrecedenceType
  <2>3. ASSUME NEW w \in Workers, CompleteScan(w)
        PROVE  \/ Precedence[result'[k].src] >= Precedence[result[k].src]
               \/ \E v \in Workers: \E b \in Own(v, k): b.waited
    <3>1. CASE Own(w, k) = {}
      <4>1. result'[k] = result[k]
        BY <2>3, <3>1 DEF CompleteScan, Written
      <4> QED BY <2>1, <4>1, PrecedenceType
    <3>2. CASE Own(w, k) # {}
      <4> DEFINE b == CHOOSE x \in Own(w, k): TRUE
      <4>1. b \in Own(w, k)
        BY <3>2
      <4>2. result'[k].src = b.src
        BY <2>3, <3>2 DEF CompleteScan, Written
      <4> HIDE DEF b
      <4>3. b \in worker[w].buf /\ b.key = k
        BY <4>1 DEF Own
      <4>4. ~b.waited => Precedence[b.src] >= Precedence[result[k].src]
        BY <4>3 DEF BufferInv
      <4> QED BY <4>1, <4>2, <4>4
    <3> QED BY <3>1, <3>2
  <2>4. CASE DeleteCertificate
    BY <2>4 DEF DeleteCertificate, NoResult
  <2>5. CASE ~DeleteCertificate /\ \A w \in Workers: ~CompleteScan(w)
    <3>1. result' = result
      <4>1. ASSUME NEW w \in Workers, Step(w) PROVE result' = result
        BY <2>5, <4>1 DEF Step, CompleteEmpty, WaitEnds, DeadlockVictim, RecordScan, FailScan,
           RecordResult
      <4>2. ASSUME NEW w \in Workers, ScanInterrupted(w) \/ Crash(w) PROVE result' = result
        BY <4>2 DEF ScanInterrupted, Crash
      <4>3. ASSUME NEW w \in Workers, NEW msg \in queue, DeliverScan(w, msg) PROVE result' = result
        BY <4>3 DEF DeliverScan, BeginScan
      <4>4. ASSUME \/ UNCHANGED vars
                   \/ \E targets \in Requests: TriggerScan(targets) \/ BulkScan(targets)
                   \/ \E msg \in queue: TaskRaises(msg)
                   \/ \E s \in ScanIds: HalfHourPasses(s) \/ MarkStaleScanFailed(s)
            PROVE  result' = result
        BY <4>4 DEF vars, TriggerScan, BulkScan, TaskRaises, HalfHourPasses, MarkStaleScanFailed
      <4> HIDE DEF BInv
      <4> QED BY <2>5, <4>1, <4>2, <4>3, <4>4 DEF Next
    <3> QED BY <2>2, <3>1
  <2> QED BY <2>3, <2>4, <2>5
<1> HIDE DEF A, BInv
<1>4. Spec => [][A]_vars
  BY <1>1, <1>2, <1>3, PTL DEF Spec
<1> QED BY <1>4 DEF A, SourceNeverDowngraded

==============================================================================
