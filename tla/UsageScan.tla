------------------------------ MODULE UsageScan ------------------------------
(***************************************************************************)
(* Usage discovery, backend/app/services/certificate_usage_service: which  *)
(* endpoints serve one wildcard or multi-SAN certificate.                  *)
(*                                                                         *)
(* A scan is a row that is committed as running; its probes run in threads *)
(* that touch no table; every answer is written and flushed by the scan's  *)
(* session and seen by the others only after the last commit.  A result is *)
(* one row per (host, address, port), written again by every later scan.   *)
(* What the address is matters only in that a failed lookup has none       *)
(* (NULL), which the unique constraint does not see: the scan that inserts *)
(* such a row tells it from others of the same host and port.              *)
(*                                                                         *)
(* Candidate hosts come from four sources; matching names to wildcards is  *)
(* left to the instance, which says what a request finds.                  *)
(***************************************************************************)
EXTENDS Integers, FiniteSets, Sequences

CONSTANTS
  Hosts,      \* host names
  Ports,      \* the configured ports, in order
  Requests,   \* bound: what a request finds: sets of targets
  Answers,    \* bound: how a probe of this instance may end
  Workers,    \* processes that scan
  Inputs,     \* bound: the requests and faults of this instance
  MaxScans,   \* bound: rows of certificate_usage_scans
  MaxCrashes, \* bound: processes that die
  MaxQueue    \* bound: messages waiting in the broker

Sources == {"inventory", "certificate_sans", "manual", "network_sighting"}
ProbeStatus == {"confirmed", "different_certificate", "unreachable", "dns_failed",
                "tls_failed", "timeout"}
PortSet == {Ports[i]: i \in DOMAIN Ports}

\* Port 0: no specific port in mind, the configured ones are tried in order.
Targets == [host: Hosts, port: PortSet \cup {0}, src: Sources]

ASSUME UsageAssumption ==
  /\ Ports \in Seq(Nat \ {0}) /\ Ports # <<>>
  /\ Requests \subseteq SUBSET Targets
  /\ \A r \in Requests: IsFiniteSet(r)
  /\ Answers \subseteq ProbeStatus
  /\ Inputs \subseteq {"bulk", "delete", "limit", "lost"}
  /\ MaxScans \in Nat
  /\ MaxCrashes \in Nat
  /\ MaxQueue \in Nat

VARIABLES
  scan,     \* the certificate_usage_scans table
  nscan,
  result,   \* the certificate_usage_results table
  queue,    \* scan messages not yet delivered
  worker,   \* the sessions
  cert,     \* the certificate is there
  ncrash    \* processes that died so far

vars == <<scan, nscan, result, queue, worker, cert, ncrash>>

ScanIds == 1..MaxScans
Keys == [host: Hosts, port: PortSet, by: 0..MaxScans]   \* by = 0: the address is known
ScanStatus == {"nil", "queued", "running", "completed", "failed", "gone"}

NoScan == [status |-> "nil", old |-> FALSE, candidates |-> 0, scanned |-> 0, counted |-> 0,
           ends |-> 0]
NoResult == [there |-> FALSE, src |-> "inventory", scan |-> 0]
NoMsg == [scan |-> 0, targets |-> {}]

\* `buf` are the rows flushed and not committed, and which of them the session wrote
\* after it had waited for another one; `want` is the write that waits.
Idle == [pc |-> "idle", scan |-> 0, msg |-> NoMsg, todo |-> {}, scanned |-> 0, counted |-> 0,
         buf |-> {}, want |-> {}]

Init ==
  /\ scan = [s \in ScanIds |-> NoScan]
  /\ nscan = 0
  /\ result = [k \in Keys |-> NoResult]
  /\ queue = {}
  /\ worker = [w \in Workers |-> Idle]
  /\ cert = TRUE
  /\ ncrash = 0

----------------------------------------------------------------------------
(* Probes *)

Connectivity == {"dns_failed", "unreachable", "timeout"}

\* probe_hostname_with_port_fallback: the position of the port that is reported, from
\* the answers of all ports
Fallback(answer) ==
  LET up == {i \in 2..Len(Ports): answer[i] \notin Connectivity} IN
  IF answer[1] \notin Connectivity \/ answer[1] = "dns_failed" \/ up = {} THEN 1
  ELSE CHOOSE i \in up: \A j \in up: i <= j

\* A name that is not resolved in time, or a probe that raises, has no address.
Addresses(st) == CASE st = "dns_failed" -> {FALSE}
                   [] st \in {"unreachable", "timeout"} -> BOOLEAN
                   [] OTHER -> {TRUE}

\* The endpoints a target may turn out to be
Found(t) ==
  LET ends == IF t.port # 0 THEN {<<t.port, st>>: st \in Answers}
              ELSE {<<Ports[Fallback(a)], a[Fallback(a)]>>: a \in [DOMAIN Ports -> Answers]}
  IN UNION {{[host |-> t.host, port |-> e[1], ip |-> ip]: ip \in Addresses(e[2])}: e \in ends}

----------------------------------------------------------------------------
(* Requests *)

\* Mutant: the row is inserted without a status
Mutant_TriggerWithoutStatus(targets) ==
  /\ cert
  /\ nscan < MaxScans
  /\ Cardinality(queue) < MaxQueue
  /\ nscan' = nscan + 1
  /\ queue' = queue \cup {[scan |-> nscan + 1, targets |-> targets]}
  /\ UNCHANGED <<scan, result, worker, cert, ncrash>>

\* POST /certificates/{id}/usage/scan: the row first, then the message
TriggerScan(targets) ==
  /\ cert
  /\ nscan < MaxScans
  /\ Cardinality(queue) < MaxQueue
  /\ nscan' = nscan + 1
  /\ scan' = [scan EXCEPT ![nscan + 1] = [NoScan EXCEPT !.status = "queued"]]
  /\ queue' = queue \cup {[scan |-> nscan + 1, targets |-> targets]}
  /\ UNCHANGED <<result, worker, cert, ncrash>>

\* POST /certificates/bulk: the message alone.  (With celery_task_always_eager every
\* request scans itself, and makes its row in the same way.)
BulkScan(targets) ==
  /\ "bulk" \in Inputs
  /\ cert
  /\ nscan < MaxScans
  /\ Cardinality(queue) < MaxQueue
  /\ queue' = queue \cup {[scan |-> 0, targets |-> targets]}
  /\ UNCHANGED <<scan, nscan, result, worker, cert, ncrash>>

\* start_scan up to its first commit; without a row to reuse it makes one.
BeginScan(w, msg) ==
  LET s == IF msg.scan = 0 THEN nscan + 1 ELSE msg.scan IN
  /\ cert
  /\ worker[w].pc = "idle"
  /\ s <= MaxScans
  /\ nscan' = IF msg.scan = 0 THEN s ELSE nscan
  /\ scan' = [scan EXCEPT ![s] = [@ EXCEPT !.status = "running", !.old = FALSE,
                                          !.candidates = Cardinality(msg.targets)]]
  /\ worker' = [worker EXCEPT ![w] =
       [Idle EXCEPT !.pc = IF msg.targets = {} THEN "empty" ELSE "scan", !.scan = s, !.msg = msg,
                    !.todo = msg.targets, !.scanned = scan[s].scanned]]
  /\ UNCHANGED <<result, cert, ncrash>>

DeliverScan(w, msg) ==
  /\ msg \in queue
  /\ queue' = queue \ {msg}
  /\ BeginScan(w, msg)

\* The certificate is gone, or the task met maintenance mode: it raises and the
\* message is acknowledged.
TaskRaises(msg) ==
  /\ msg \in queue
  /\ ~cert \/ "lost" \in Inputs
  /\ queue' = queue \ {msg}
  /\ UNCHANGED <<scan, nscan, result, worker, cert, ncrash>>

----------------------------------------------------------------------------
(* A scan *)

\* No candidate hosts: nothing else is recorded.
CompleteEmpty(w) ==
  LET s == worker[w].scan IN
  /\ worker[w].pc = "empty"
  /\ IF scan[s].status = "gone" THEN UNCHANGED scan
     ELSE scan' = [scan EXCEPT ![s].status = "completed", ![s].ends = @ + 1]
  /\ worker' = [worker EXCEPT ![w] = Idle]
  /\ UNCHANGED <<nscan, result, queue, cert, ncrash>>

Precedence == [inventory |-> 0, certificate_sans |-> 1, manual |-> 2, network_sighting |-> 3]

Own(w, k) == {b \in worker[w].buf: b.key = k}
HeldBy(w, k) == \E v \in Workers \ {w}: Own(v, k) # {}
Seen(w, k) == result[k].there \/ Own(w, k) # {}

\* The rows _record_result may go to: one its query returns, or a new one
RowsFor(w, f) ==
  LET key(by) == [host |-> f.host, port |-> f.port, by |-> by]
      seen == {by \in ScanIds: Seen(w, key(by))}
  IN {key(by): by \in IF f.ip THEN {0} ELSE IF seen = {} THEN {worker[w].scan} ELSE seen}

\* Mutant: the source is the one of the last candidate that reached the endpoint
Mutant_LastSource(w, k, src) == src

\* _record_result's lookup, which sees what is committed and what the session itself
\* flushed: a higher source replaces the one on record.
SourceOf(w, k, src) ==
  LET old == IF Own(w, k) # {} THEN {b.src: b \in Own(w, k)}
             ELSE IF result[k].there THEN {result[k].src} ELSE {}
  IN IF \E o \in old: Precedence[o] >= Precedence[src] THEN CHOOSE o \in old: TRUE ELSE src

\* Mutant: only hosts without a port are counted
Mutant_CountFallback(s, t) ==
  IF t.port = 0 THEN [s EXCEPT !.todo = @ \ {t}, !.scanned = @ + 1, !.counted = @ + 1]
  ELSE [s EXCEPT !.todo = @ \ {t}]

\* _finish
Counted(s, t) == [s EXCEPT !.todo = @ \ {t}, !.scanned = @ + 1, !.counted = @ + 1]

\* The session's rows once it has written one, or written it again
Flushed(w, k, src, waited) ==
  (worker[w].buf \ Own(w, k)) \cup {[key |-> k, src |-> src, waited |-> waited]}

\* One answer is recorded, those of hosts without a port first: counted, and written
\* unless another session has written the same row and has not ended.
RecordResult(w, t, f, k) ==
  LET src == SourceOf(w, k, t.src)
      late == \E b \in Own(w, k): b.waited
  IN
  /\ worker[w].pc = "scan"
  /\ t \in worker[w].todo
  /\ t.port # 0 => \A u \in worker[w].todo: u.port # 0
  /\ worker' = [worker EXCEPT ![w] =
       IF ~cert THEN [@ EXCEPT !.pc = "failing"]
       ELSE IF HeldBy(w, k)
            THEN [Counted(@, t) EXCEPT !.pc = "wait",
                                       !.want = {[key |-> k, src |-> src, new |-> ~Seen(w, k)]}]
            ELSE [Counted(@, t) EXCEPT !.buf = Flushed(w, k, src, late)]]
  /\ UNCHANGED <<scan, nscan, result, queue, cert, ncrash>>

\* The other session ended.  If it inserted the row this one wants to insert, the
\* unique constraint is violated.
WaitEnds(w) ==
  /\ worker[w].pc = "wait"
  /\ \E row \in worker[w].want:
       /\ ~HeldBy(w, row.key)
       /\ worker' = [worker EXCEPT ![w] =
            IF ~cert \/ (row.new /\ result[row.key].there) THEN [@ EXCEPT !.pc = "failing"]
            ELSE [@ EXCEPT !.pc = "scan", !.want = {},
                           !.buf = Flushed(w, row.key, row.src, TRUE)]]
  /\ UNCHANGED <<scan, nscan, result, queue, cert, ncrash>>

\* Two sessions wait for each other: the database lets one of them fail.
DeadlockVictim(w) ==
  /\ worker[w].pc = "wait"
  /\ \E v \in Workers \ {w}:
       /\ worker[v].pc = "wait"
       /\ \E row \in worker[w].want: Own(v, row.key) # {}
       /\ \E row \in worker[v].want: Own(w, row.key) # {}
  /\ worker' = [worker EXCEPT ![w].pc = "failing"]
  /\ UNCHANGED <<scan, nscan, result, queue, cert, ncrash>>

Written(w) ==
  [k \in Keys |-> IF Own(w, k) = {} THEN result[k]
                  ELSE LET b == CHOOSE x \in Own(w, k): TRUE IN
                       [there |-> TRUE, src |-> b.src, scan |-> worker[w].scan]]

\* The counters and the status are written and everything is committed.
CompleteScan(w) ==
  LET s == worker[w].scan IN
  /\ worker[w].pc = "scan"
  /\ worker[w].todo = {}
  /\ scan' = [scan EXCEPT ![s] = [@ EXCEPT !.status = "completed", !.ends = scan[s].ends + 1,
                !.scanned = worker[w].scanned, !.counted = worker[w].counted]]
  /\ result' = Written(w)
  /\ worker' = [worker EXCEPT ![w] = [Idle EXCEPT !.pc = "record", !.msg = worker[w].msg]]
  /\ UNCHANGED <<nscan, queue, cert, ncrash>>

\* A second commit writes the execution and the audit record.
RecordScan(w) ==
  /\ worker[w].pc = "record"
  /\ worker' = [worker EXCEPT ![w] = Idle]
  /\ UNCHANGED <<scan, nscan, result, queue, cert, ncrash>>

\* Mutant: the status is committed without rolling back first
Mutant_FailWithoutRollback(w) ==
  /\ worker[w].pc = "failing"
  /\ scan' = [scan EXCEPT ![worker[w].scan].status = "failed"]
  /\ result' = Written(w)
  /\ worker' = [worker EXCEPT ![w] = Idle]
  /\ UNCHANGED <<nscan, queue, cert, ncrash>>

\* The exception handler: roll back, then mark the scan failed.  A scan that was
\* deleted with its certificate cannot be marked, and the task raises.
FailScan(w) ==
  LET s == worker[w].scan IN
  /\ worker[w].pc = "failing"
  /\ scan' = [scan EXCEPT ![s].status = IF @ = "gone" THEN "gone" ELSE "failed"]
  /\ worker' = [worker EXCEPT ![w] = Idle]
  /\ UNCHANGED <<nscan, result, queue, cert, ncrash>>

\* Celery's soft time limit, or any other exception inside the scan
ScanInterrupted(w) ==
  /\ "limit" \in Inputs
  /\ worker[w].pc \in {"scan", "wait"}
  /\ worker' = [worker EXCEPT ![w].pc = "failing"]
  /\ UNCHANGED <<scan, nscan, result, queue, cert, ncrash>>

\* The process dies.  Its transaction is rolled back; its message was not
\* acknowledged (acks_late) and may be delivered again.
Crash(w) ==
  /\ ncrash < MaxCrashes
  /\ ncrash' = ncrash + 1
  /\ worker[w].pc # "idle"
  /\ worker' = [worker EXCEPT ![w] = Idle]
  /\ \/ UNCHANGED queue
     \/ queue' = queue \cup {worker[w].msg}
  /\ UNCHANGED <<scan, nscan, result, cert>>

----------------------------------------------------------------------------
(* Polling and deletion *)

\* Half an hour passes over a scan whose process is gone: Celery's hard time limit
\* (17 minutes) ends a live one long before.
HalfHourPasses(s) ==
  /\ scan[s].status = "running"
  /\ ~scan[s].old
  /\ \A w \in Workers: worker[w].scan # s
  /\ scan' = [scan EXCEPT ![s].old = TRUE]
  /\ UNCHANGED <<nscan, result, queue, worker, cert, ncrash>>

\* Mutant: a poll only reads
Mutant_PollOnlyReads(s) == FALSE /\ UNCHANGED vars

\* GET /certificate-usage/scans/{id}: mark_stale_scan_failed
MarkStaleScanFailed(s) ==
  /\ scan[s].status = "running"
  /\ scan[s].old
  /\ scan' = [scan EXCEPT ![s].status = "failed"]
  /\ UNCHANGED <<nscan, result, queue, worker, cert, ncrash>>

\* Scans and results go with the certificate (ON DELETE CASCADE).  Rows that an
\* open transaction has written, or refers to, are locked.
DeleteCertificate ==
  /\ "delete" \in Inputs
  /\ cert
  /\ \A w \in Workers: worker[w].buf = {}
  /\ cert' = FALSE
  /\ scan' = [s \in ScanIds |-> IF s <= nscan THEN [NoScan EXCEPT !.status = "gone"] ELSE scan[s]]
  /\ result' = [k \in Keys |-> NoResult]
  /\ UNCHANGED <<nscan, queue, worker, ncrash>>

----------------------------------------------------------------------------

Step(w) ==
  \/ CompleteEmpty(w) \/ WaitEnds(w) \/ DeadlockVictim(w) \/ CompleteScan(w) \/ RecordScan(w)
  \/ FailScan(w)
  \/ \E t \in worker[w].todo: \E f \in Found(t): \E k \in RowsFor(w, f):
       RecordResult(w, t, f, k)

Messages == [scan: 0..MaxScans, targets: Requests]

Next ==
  \/ \E targets \in Requests:
       TriggerScan(targets) \/ BulkScan(targets)
  \/ \E w \in Workers:
       \/ Step(w) \/ ScanInterrupted(w) \/ Crash(w)
       \/ \E msg \in queue: DeliverScan(w, msg)
  \/ \E msg \in queue: TaskRaises(msg)
  \/ \E s \in ScanIds: HalfHourPasses(s) \/ MarkStaleScanFailed(s)
  \/ DeleteCertificate

Spec == Init /\ [][Next]_vars

\* Sessions go on (probes have timeouts), the broker delivers, the clock advances
\* and the page that started a scan polls it.
FairSpec ==
  /\ Spec
  /\ \A w \in Workers: WF_vars(Step(w))
  /\ \A msg \in Messages: WF_vars(TaskRaises(msg) \/ \E w \in Workers: DeliverScan(w, msg))
  /\ \A s \in ScanIds: WF_vars(HalfHourPasses(s)) /\ WF_vars(MarkStaleScanFailed(s))

----------------------------------------------------------------------------
(* Properties *)

ScanRow == [status: ScanStatus, old: BOOLEAN, candidates: Nat, scanned: Nat, counted: Nat,
            ends: Nat]
ResultRow == [there: BOOLEAN, src: Sources, scan: 0..MaxScans]
Buffered == [key: Keys, src: Sources, waited: BOOLEAN]
Session == [pc: {"idle", "empty", "scan", "wait", "record", "failing"}, scan: 0..MaxScans,
            msg: Messages \cup {NoMsg}, todo: SUBSET Targets, scanned: Nat, counted: Nat,
            buf: SUBSET Buffered, want: SUBSET [key: Keys, src: Sources, new: BOOLEAN]]

\* Tables, messages and sessions hold values of their kinds; the scans created so
\* far, and no others, have a status.
TypeOK ==
  /\ scan \in [ScanIds -> ScanRow]
  /\ nscan \in 0..MaxScans
  /\ \A s \in ScanIds: scan[s].status = "nil" <=> s > nscan
  /\ result \in [Keys -> ResultRow]
  /\ queue \subseteq Messages
  /\ worker \in [Workers -> Session]
  /\ cert \in BOOLEAN
  /\ ncrash \in 0..MaxCrashes

\* The outcome counters of a completed scan (`counted` is their sum) account for every
\* candidate, although two candidates may end at one row and answers are recorded in
\* any order; and so does scanned_count, unless a message delivered twice completed
\* the scan twice (it is not reset).
CountsAddUp ==
  \A s \in ScanIds: scan[s].status = "completed" =>
    /\ scan[s].counted = scan[s].candidates
    /\ scan[s].scanned >= scan[s].candidates
    /\ scan[s].ends = 1 => scan[s].scanned = scan[s].candidates

\* "Upgrade (never downgrade) discovery_source": once an endpoint was reached by a
\* better source, no later scan replaces it by a lesser one.  The exception: a
\* scan that read the row, then waited for another scan that was writing it.
SourceNeverDowngraded ==
  [][\A k \in Keys: result[k].there /\ result'[k].there
       => \/ Precedence[result'[k].src] >= Precedence[result[k].src]
          \/ \E w \in Workers: \E b \in Own(w, k): b.waited]_vars

\* No scan stays queued or running for ever: it ends, or a poll finds it stale.
ScanEnds ==
  \A s \in ScanIds: scan[s].status \in {"queued", "running"}
                      ~> scan[s].status \in {"completed", "failed", "gone"}

\* What a scan promises (ScanRun): its results appear with its completion, all at
\* once, and a scan that failed or died has changed none.
Abstract == INSTANCE ScanRun WITH
  Scans <- ScanIds, Endpoints <- Keys, None <- 0,
  status <- [s \in ScanIds |-> scan[s].status],
  owner <- [k \in Keys |-> result[k].scan]
ResultsAppearWithCompletion == Abstract!Spec
=============================================================================
