------------------------------- MODULE Alerts -------------------------------
(***************************************************************************)
(* Notifications: backend/app/services/notification_service, the tasks of  *)
(* app/tasks/notifications, the settings and retry endpoints, and the      *)
(* retention purge, for one certificate.                                   *)
(*                                                                         *)
(* The warning days, largest first, are the levels 1..Levels; `near` is    *)
(* how many of them the certificate has come within, Levels + 1 once it    *)
(* has expired.  An event is a level, or 0 for any other.  What a message  *)
(* says, who receives it and how a channel is spoken to are left out: a    *)
(* channel takes a message or does not.                                    *)
(***************************************************************************)
EXTENDS Naturals, FiniteSets

CONSTANTS
  Channels,       \* rows of notification_settings
  Smtp,           \* the channels that fall back on the settings of the process
  Levels,         \* number of expiry thresholds
  Settings,       \* bound: what a channel may be set to: [ch, on, events]
  Workers,        \* Celery workers, and the API process for a test message
  Inputs,         \* bound: the requests and faults of this instance
  MaxNotes,       \* bound: rows of notifications
  Reserve,        \* bound: rows kept free for warnings
  MaxQueue        \* bound: deliver messages in the broker

\* 0: any event that is not an expiry warning
Events == 0..Levels

ASSUME AlertsAssumption ==
  /\ IsFiniteSet(Channels)
  /\ Smtp \subseteq Channels
  /\ Levels \in Nat \ {0}
  /\ Settings \subseteq [ch: Channels, on: BOOLEAN, events: SUBSET Events]
  /\ \A c \in Channels: \E s \in Settings: s.ch = c
  /\ MaxNotes \in Nat
  /\ Reserve \in Nat
  /\ MaxQueue \in Nat

VARIABLES
  near,     \* thresholds the certificate has come within
  chan,     \* the notification_settings table
  note,     \* the notifications table
  queue,    \* ids in the deliver messages
  worker    \* what each process is doing

vars == <<near, chan, note, queue, worker>>

Notes == 1..MaxNotes
\* History: `out`: a message really went out; `again`: there is a reason to send one
\* more (see SentOnce); `twice`: another one went out without a reason.
NoNote == [status |-> "nil", ev |-> 0, ch |-> 0, out |-> FALSE, again |-> FALSE, twice |-> FALSE]
\* `st` is the status that was read, then the one to write ("nil": it has not changed).
Idle == [pc |-> "idle", id |-> 0, msg |-> FALSE, st |-> "nil", add |-> {}, ev |-> 0]

Saved(s) == [on |-> s.on, events |-> s.events, cfg |-> "ok"]

\* The channels have been set up; nothing has happened yet.
Init ==
  /\ near = 0
  /\ chan = [c \in Channels |-> Saved(CHOOSE s \in Settings: s.ch = c)]
  /\ note = [n \in Notes |-> NoNote]
  /\ queue = {}
  /\ worker = [w \in Workers |-> Idle]

----------------------------------------------------------------------------
(* Channels *)

\* save_channel_config: the row is made or replaced, its configuration encrypted anew.
SaveChannel(s) ==
  /\ chan' = [chan EXCEPT ![s.ch] = Saved(s)]
  /\ UNCHANGED <<near, note, queue, worker>>

\* The process starts with another master key: what is stored cannot be decrypted.
MasterKeyReplaced ==
  /\ "key" \in Inputs
  /\ chan' = [c \in Channels |-> IF chan[c].cfg = "ok" THEN [chan[c] EXCEPT !.cfg = "bad"]
                                 ELSE chan[c]]
  /\ UNCHANGED <<near, note, queue, worker>>

\* get_channel_config, or {}: there is a configuration to deliver with
Configured(c) == chan[c].on /\ chan[c].cfg = "ok"

----------------------------------------------------------------------------
(* Queueing *)

\* Mutant: the loop ends at the first channel that is not subscribed
Mutant_BreakAtUnsubscribed(ev) ==
  IF \E c \in Channels: chan[c].on /\ ev \notin chan[c].events THEN {}
  ELSE {c \in Channels: chan[c].on /\ ev \in chan[c].events}

\* queue_event_notifications: the channels a row is added for
Subscribed(ev) == {c \in Channels: chan[c].on /\ ev \in chan[c].events}

\* A configuration that cannot be decrypted raises, and the caller fails with it.
Readable(ev) == \A c \in Subscribed(ev): chan[c].cfg # "bad"

\* A row that was purged, and that nothing refers to, may be a new one.
Unused == {n \in Notes: /\ note[n].status = "nil"
                        /\ n \notin queue
                        /\ \A w \in Workers: worker[w].id # n}

\* Bound: whoever adds other rows leaves room for the warnings.
Room(k) == Cardinality(Unused) >= k + Reserve

\* Mutant: the row is inserted without its channel
Mutant_WithoutChannel(ev, c) == [NoNote EXCEPT !.status = "queued", !.ev = ev]

New(ev, c) == [NoNote EXCEPT !.status = "queued", !.ev = ev, !.ch = c]

\* Rows for the channels `add`, in unused places
Added(ev, add) ==
  LET place == CHOOSE f \in [add -> Unused]: \A c, d \in add: f[c] = f[d] => c = d
  IN [n \in Notes |-> IF \E c \in add: place[c] = n
                      THEN New(ev, CHOOSE c \in add: place[c] = n) ELSE note[n]]

\* What _notify adds rows for: an exception is only logged there, and the rows that
\* were added before it stay.
Notified == IF Readable(0) THEN {Subscribed(0)}
            ELSE SUBSET {c \in Subscribed(0): chan[c].cfg # "bad"}

\* A certificate is issued, renewed, deployed, revoked, or the operation fails.
QueueEvent ==
  /\ "event" \in Inputs
  /\ \E add \in Notified \ {{}}: Room(Cardinality(add)) /\ note' = Added(0, add)
  /\ UNCHANGED <<near, chan, queue, worker>>

\* The thresholds are tried largest first, and the first match ends the loop.
FirstMatch == CHOOSE i \in 1..near: \A j \in 1..near: i <= j

\* expiry_warnings reads the certificate, the notification that was sent if there is
\* one, and the channels.
WarnRead(w) ==
  /\ worker[w].pc = "idle"
  /\ near \in 1..Levels
  /\ ~\E n \in Notes: note[n].status = "sent" /\ note[n].ev = FirstMatch
  /\ Subscribed(FirstMatch) # {}
  /\ Readable(FirstMatch)
  /\ Cardinality(Unused) >= Cardinality(Subscribed(FirstMatch))
  /\ worker' = [worker EXCEPT ![w] = [Idle EXCEPT !.pc = "warn", !.ev = FirstMatch,
                                                  !.add = Subscribed(FirstMatch)]]
  /\ UNCHANGED <<near, chan, note, queue>>

WarnCommit(w) ==
  /\ worker[w].pc = "warn"
  /\ Cardinality(Unused) >= Cardinality(worker[w].add)
  /\ note' = Added(worker[w].ev, worker[w].add)
  /\ worker' = [worker EXCEPT ![w] = Idle]
  /\ UNCHANGED <<near, chan, queue>>

----------------------------------------------------------------------------
(* Delivery *)

\* POST /notifications/{id}/retry, of any notification; nothing else sends the rows
\* that were queued.
RetryNotification(n) ==
  /\ note[n].status # "nil"
  /\ Cardinality(queue) < MaxQueue
  /\ n \notin queue
  /\ queue' = queue \cup {n}
  /\ UNCHANGED <<near, chan, note, worker>>

Delivering(w, n, msg) ==
  [worker EXCEPT ![w] = [Idle EXCEPT !.pc = "send", !.id = n, !.msg = msg,
                                     !.st = note[n].status]]

\* Mutant: the status is not looked at
Mutant_SendWhateverStatus(w, n) ==
  /\ worker[w].pc = "idle"
  /\ n \in queue
  /\ note[n].status # "nil"
  /\ queue' = queue \ {n}
  /\ worker' = Delivering(w, n, TRUE)
  /\ note' = [note EXCEPT ![n].again = @ \/ \E v \in Workers: worker[v].id = n]
  /\ UNCHANGED <<near, chan>>

\* deliver reads the row
DeliverRead(w, n) ==
  /\ worker[w].pc = "idle"
  /\ n \in queue
  /\ note[n].status \notin {"nil", "sent"}
  /\ queue' = queue \ {n}
  /\ worker' = Delivering(w, n, TRUE)
  /\ note' = [note EXCEPT ![n].again = @ \/ \E v \in Workers: worker[v].id = n]
  /\ UNCHANGED <<near, chan>>

\* The row is gone, or was sent already.
NothingToDeliver(n) ==
  /\ n \in queue
  /\ note[n].status \in {"nil", "sent"}
  /\ queue' = queue \ {n}
  /\ UNCHANGED <<near, chan, note, worker>>

\* Mutant: a channel without a configuration is no error
Mutant_NotConfiguredIsFine(c) == {<<TRUE, Configured(c)>>}

\* Without a configuration only SMTP has settings to fall back on.  An error does not
\* say that the message did not go out.
Outcomes(c) ==
  {<<FALSE, FALSE>>} \cup IF Configured(c) \/ c \in Smtp THEN {<<TRUE, TRUE>>, <<FALSE, TRUE>>}
                          ELSE {}

\* History of a row whose message went out once more
Gone(row, ok) ==
  [row EXCEPT !.out = TRUE, !.again = row.again \/ ~ok,
              !.twice = row.twice \/ (row.out /\ ~row.again)]

\* _deliver_channel: `ok` is what is reported, `gone` whether the message went out.
Send(w, ok, gone) ==
  LET n == worker[w].id
      status == IF ok THEN "sent" ELSE "failed"
  IN
  /\ worker[w].pc = "send"
  /\ note[n].status # "nil" => <<ok, gone>> \in Outcomes(note[n].ch)
  /\ worker' = [worker EXCEPT ![w].pc = "commit",
                              ![w].st = IF @ = status THEN "nil" ELSE status]
  /\ note' = IF gone /\ note[n].status # "nil"
             THEN [note EXCEPT ![n] = Gone(note[n], ok)] ELSE note
  /\ UNCHANGED <<near, chan, queue>>

\* The status is written, when it is not the one that was read.  Of a row that was
\* purged meanwhile nothing is (the commit raises).
DeliverCommit(w) ==
  LET n == worker[w].id IN
  /\ worker[w].pc = "commit"
  /\ note' = IF "nil" \in {note[n].status, worker[w].st} THEN note
             ELSE [note EXCEPT ![n].status = worker[w].st]
  /\ worker' = [worker EXCEPT ![w] = Idle]
  /\ UNCHANGED <<near, chan, queue>>

\* daily_summary: a row for the first channel that is switched on, delivered at once.
DailySummary(w, c) ==
  /\ "summary" \in Inputs
  /\ worker[w].pc = "idle"
  /\ chan[c].on
  /\ Room(1)
  /\ LET n == CHOOSE m \in Unused: TRUE IN
       /\ note' = [note EXCEPT ![n] = New(0, c)]
       /\ worker' = [worker EXCEPT ![w] = [Idle EXCEPT !.pc = "send", !.id = n, !.st = "queued"]]
  /\ UNCHANGED <<near, chan, queue>>

\* send_test: a row, and the message; the row stays queued.
SendTest(c, gone) ==
  /\ "test" \in Inputs
  /\ chan[c].on /\ chan[c].cfg # "bad"
  /\ Room(1)
  /\ LET n == CHOOSE m \in Unused: TRUE IN
       note' = [note EXCEPT ![n] = [New(0, c) EXCEPT !.again = TRUE,
                                                           !.out = gone]]
  /\ UNCHANGED <<near, chan, queue, worker>>

\* The process dies.  An unacknowledged message may be delivered again.  (One that dies
\* in expiry_warnings has changed nothing, and the task comes again.)
Crash(w) ==
  LET n == worker[w].id IN
  /\ worker[w].pc \in {"send", "commit"}
  /\ worker' = [worker EXCEPT ![w] = Idle]
  /\ queue' \in {queue} \cup IF worker[w].msg THEN {queue \cup {n}} ELSE {}
  /\ note' = IF worker[w].pc = "commit" /\ note[n].status # "nil"
             THEN [note EXCEPT ![n].again = TRUE] ELSE note
  /\ UNCHANGED <<near, chan>>

----------------------------------------------------------------------------
(* Time and retention *)

DaysPass ==
  /\ near < Levels \/ (near = Levels /\ "expire" \in Inputs)
  /\ near' = near + 1
  /\ UNCHANGED <<chan, note, queue, worker>>

Renew ==
  /\ near > 0
  /\ near' = 0
  /\ UNCHANGED <<chan, note, queue, worker>>

\* apply_retention: the old rows, whatever their status.  (Ages are not kept: any
\* rows may be the old ones.)
ApplyRetention(old) ==
  /\ "purge" \in Inputs
  /\ \E n \in old: note[n].status # "nil"
  /\ note' = [n \in Notes |-> IF n \in old THEN NoNote ELSE note[n]]
  /\ UNCHANGED <<near, chan, queue, worker>>

----------------------------------------------------------------------------

Step(w) ==
  \/ WarnCommit(w) \/ DeliverCommit(w)
  \/ \E ok, gone \in BOOLEAN: Send(w, ok, gone)

Next ==
  \/ \E s \in Settings: SaveChannel(s)
  \/ \E c \in Channels, gone \in BOOLEAN: SendTest(c, gone)
  \/ MasterKeyReplaced \/ QueueEvent \/ DaysPass \/ Renew
  \/ \E old \in SUBSET Notes: ApplyRetention(old)
  \/ \E n \in Notes: RetryNotification(n) \/ NothingToDeliver(n)
  \/ \E w \in Workers:
       \/ Step(w) \/ WarnRead(w) \/ Crash(w)
       \/ \E n \in Notes: DeliverRead(w, n)
       \/ \E c \in Channels: DailySummary(w, c)

Spec == Init /\ [][Next]_vars

\* Sessions go on (every channel has a timeout), messages that have nothing to deliver
\* are taken, and the beat schedule keeps sending the warning task, which a worker
\* takes between two others.
FairSpec ==
  /\ Spec
  /\ \A w \in Workers: WF_vars(Step(w))
  /\ \A n \in Notes: WF_vars(NothingToDeliver(n))
  /\ SF_vars(\E w \in Workers: WarnRead(w))

----------------------------------------------------------------------------
(* Properties *)

Channel == [on: BOOLEAN, events: SUBSET Events, cfg: {"ok", "bad"}]
Note == [status: {"nil", "queued", "sent", "failed"}, ev: Events, ch: Channels \cup {0},
         out: BOOLEAN, again: BOOLEAN, twice: BOOLEAN]
Process == [pc: {"idle", "warn", "send", "commit"}, id: 0..MaxNotes, msg: BOOLEAN,
            st: {"nil", "queued", "failed", "sent"}, add: SUBSET Channels, ev: Events]

\* Tables and processes hold values of their kinds; a notification has a channel.
TypeOK ==
  /\ near \in 0..(Levels + 1)
  /\ chan \in [Channels -> Channel]
  /\ note \in [Notes -> Note]
  /\ \A n \in Notes: note[n].status # "nil" => note[n].ch \in Channels
  /\ queue \subseteq Notes
  /\ worker \in [Workers -> Process]

\* A notification on record as sent has gone out, however its row was retried, its
\* channel reconfigured and its worker lost.
SentWasSent == \A n \in Notes: note[n].status = "sent" => note[n].out

\* No message goes out twice, unless there is a reason: two deliveries of the row at
\* once, a worker that died before it wrote the result, an error after the message
\* had left, or a test message (whose row stays queued).
SentOnce == \A n \in Notes: ~note[n].twice

Due == /\ near \in 1..Levels
       /\ \E c \in Channels: chan[c].on /\ 1 \in chan[c].events
       /\ \A c \in Channels: chan[c].on => chan[c].cfg # "bad"

\* A certificate within the largest threshold gets a warning on record, as long as some
\* channel asks for it and no configuration is unreadable (one that is stops them all).
DueIsOnRecord ==
  Due ~> (~Due \/ \E n \in Notes: note[n].status # "nil" /\ note[n].ev = 1)
=============================================================================
