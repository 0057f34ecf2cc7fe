---------------------------- MODULE AlertsProofs ----------------------------
(***************************************************************************)
(* Proofs about Alerts, for any channels, settings, thresholds, workers    *)
(* and bounds.                                                             *)
(*                                                                         *)
(* A delivery reads the row, sends, and writes the status later, and any   *)
(* other delivery, a purge or a lost worker may come between.  HoldInv is  *)
(* what a worker may rely on while it holds a row, OnceInv who can still   *)
(* send it: a row that has gone out for no second reason is either on      *)
(* record as sent or in the hands of the one worker that will record it.   *)
(***************************************************************************)
EXTENDS Alerts, FiniteSetTheorems, FunctionTheorems, TLAPS

\* A worker between the read of a row and the write of its status
HoldOK(w) ==
  /\ worker[w].id = 0 <=> worker[w].pc \in {"idle", "warn"}
  /\ worker[w].pc = "send" => worker[w].st \in {"queued", "failed"}
  /\ worker[w].pc = "commit" /\ worker[w].st = "sent" /\ note[worker[w].id].status # "nil"
       => note[worker[w].id].out

HoldInv == \A w \in Workers: HoldOK(w)

\* Who holds the row of a notification
OnceOK(n) ==
  note[n].status # "nil" /\ ~note[n].again =>
    /\ \A v, w \in Workers: worker[v].id = n /\ worker[w].id = n => v = w
    /\ note[n].out =>
         /\ \A w \in Workers: worker[w].id = n =>
              worker[w].pc = "commit" /\ worker[w].st = "sent"
         /\ note[n].status = "sent" \/ \E w \in Workers: worker[w].id = n

OnceInv == \A n \in Notes: OnceOK(n)

IInv == TypeOK /\ HoldInv /\ OnceInv /\ SentWasSent /\ SentOnce

----------------------------------------------------------------------------

LEMMA Records ==
  /\ Idle \in Process /\ NoNote \in Note
  /\ \A ev \in Events, c \in Channels: New(ev, c) \in Note
<1>1. 0 \in Events /\ 0 \in 0..MaxNotes
  BY AlertsAssumption DEF Events
<1>2. Idle \in Process
  BY <1>1 DEF Idle, Process
<1>3. NoNote \in Note
  BY <1>1 DEF NoNote, Note
<1>4. \A ev \in Events, c \in Channels: New(ev, c) \in Note
  BY <1>1 DEF NoNote, Note, New
<1> QED BY <1>2, <1>3, <1>4

\* A finite set fits into one that is at least as large.
LEMMA Fits ==
  ASSUME NEW S, NEW T, IsFiniteSet(S), IsFiniteSet(T), Cardinality(S) <= Cardinality(T)
  PROVE  \E f \in [S -> T]: \A c, d \in S: f[c] = f[d] => c = d
<1>1. PICK g: g \in Bijection(S, 1..Cardinality(S))
  BY FS_CardinalityType, Fun_ExistsBijSymmetric DEF ExistsBijection
<1>2. PICK h: h \in Bijection(1..Cardinality(T), T)
  BY FS_CardinalityType DEF ExistsBijection
<1>3. Cardinality(S) \in Nat /\ Cardinality(T) \in Nat
  BY FS_CardinalityType
<1>4. /\ g \in [S -> 1..Cardinality(S)] /\ \A c, d \in S: g[c] = g[d] => c = d
      /\ h \in [1..Cardinality(T) -> T]
      /\ \A i, j \in 1..Cardinality(T): h[i] = h[j] => i = j
  BY <1>1, <1>2 DEF Bijection, Injection, IsInjective
<1>5. \A c \in S: g[c] \in 1..Cardinality(T)
  BY <1>3, <1>4
<1>6. [c \in S |-> h[g[c]]] \in [S -> T]
  BY <1>4, <1>5
<1>7. \A c, d \in S: [e \in S |-> h[g[e]]][c] = [e \in S |-> h[g[e]]][d] => c = d
  BY <1>4, <1>5
<1> QED BY <1>6, <1>7

\* The rows that can still be used are finitely many.
LEMMA UnusedFinite == IsFiniteSet(Unused)
<1>1. IsFiniteSet(1..MaxNotes)
  BY FS_Interval, AlertsAssumption
<1>2. Unused \subseteq 1..MaxNotes
  BY DEF Unused, Notes
<1> QED BY <1>1, <1>2, FS_Subset

\* queue_event_notifications changes no row that is there, or that anybody refers to.
LEMMA AddedRows ==
  ASSUME TypeOK, NEW ev \in Events, NEW add \in SUBSET Channels,
         Cardinality(Unused) >= Cardinality(add)
  PROVE  /\ Added(ev, add) \in [Notes -> Note]
         /\ \A n \in Notes: \/ Added(ev, add)[n] = note[n]
                            \/ n \in Unused /\ \E c \in add: Added(ev, add)[n] = New(ev, c)
<1> DEFINE place == CHOOSE f \in [add -> Unused]: \A c, d \in add: f[c] = f[d] => c = d
<1>1. IsFiniteSet(add)
  BY FS_Subset, AlertsAssumption
<1>2. IsFiniteSet(Unused)
  BY UnusedFinite
<1>3. Cardinality(add) <= Cardinality(Unused)
  BY <1>1, <1>2, FS_CardinalityType
<1>4. \E f \in [add -> Unused]: \A c, d \in add: f[c] = f[d] => c = d
  BY <1>1, <1>2, <1>3, Fits
<1>5. place \in [add -> Unused]
  BY <1>4
<1> HIDE DEF place
<1>6. Added(ev, add) = [n \in Notes |-> IF \E c \in add: place[c] = n
                                        THEN New(ev, CHOOSE c \in add: place[c] = n)
                                        ELSE note[n]]
  BY DEF Added, place
<1>7. ASSUME NEW n \in Notes
      PROVE  \/ Added(ev, add)[n] = note[n]
             \/ n \in Unused /\ \E c \in add: Added(ev, add)[n] = New(ev, c)
  <2>1. CASE \E c \in add: place[c] = n
    <3>1. Added(ev, add)[n] = New(ev, CHOOSE c \in add: place[c] = n)
      BY <1>6, <2>1
    <3>2. (CHOOSE c \in add: place[c] = n) \in add
      BY <2>1
    <3>3. n \in Unused
      BY <1>5, <2>1
    <3> QED BY <3>1, <3>2, <3>3
  <2>2. CASE ~\E c \in add: place[c] = n
    BY <1>6, <2>2
  <2> QED BY <2>1, <2>2
<1>8. \A n \in Notes: Added(ev, add)[n] \in Note
  BY <1>7, Records DEF TypeOK
<1>9. Added(ev, add) = [n \in Notes |-> Added(ev, add)[n]]
  BY <1>6
<1> QED BY <1>7, <1>8, <1>9

LEMMA FirstRow ==
  ASSUME TypeOK, Room(1) PROVE (CHOOSE m \in Unused: TRUE) \in Unused
<1>1. IsFiniteSet(Unused)
  BY UnusedFinite
<1>2. Cardinality(Unused) # 0
  BY <1>1, FS_CardinalityType, AlertsAssumption DEF Room
<1>3. Unused # {}
  BY <1>2, FS_EmptySet
<1> QED BY <1>3

\* What a worker may rely on, when neither it nor its row changes
LEMMA HoldFrame ==
  ASSUME NEW w \in Workers, HoldOK(w), TypeOK, worker'[w] = worker[w],
         worker[w].id \in Notes => \/ note'[worker[w].id] = note[worker[w].id]
                                   \/ note'[worker[w].id].status = "nil"
                                   \/ note'[worker[w].id].out
  PROVE  HoldOK(w)'
<1>1. worker[w].pc = "commit" => worker[w].id \in Notes
  BY AlertsAssumption DEF TypeOK, Process, HoldOK, Notes
<1> QED BY <1>1 DEF HoldOK

\* Who holds a row, when neither it nor its holders change
LEMMA OnceFrame ==
  ASSUME NEW n \in Notes, OnceOK(n), note'[n] = note[n],
         \A v \in Workers: worker'[v].id = n \/ worker[v].id = n => worker'[v] = worker[v]
  PROVE  OnceOK(n)'
BY DEF OnceOK

\* Rows that are added: a new row is held by nobody but, perhaps, its maker.
LEMMA RowsAdded ==
  ASSUME IInv, note' \in [Notes -> Note],
         \A n \in Notes:
           \/ note'[n] = note[n]
           \/ /\ n \in Unused /\ note'[n].status = "queued" /\ ~note'[n].twice
              /\ note'[n].out => note'[n].again
              /\ note'[n].ch \in Channels,
         \A v \in Workers: \/ worker'[v] = worker[v]
                           \/ worker[v].id = 0 /\ worker'[v].id = 0
  PROVE  /\ \A n \in Notes: note'[n].status # "nil" => note'[n].ch \in Channels
         /\ OnceInv' /\ SentWasSent' /\ SentOnce'
         /\ \A v \in Workers: worker'[v] = worker[v] => HoldOK(v)'
<1>1. TypeOK /\ HoldInv /\ OnceInv /\ SentWasSent /\ SentOnce
  BY DEF IInv
<1>2. \A n \in Notes: note'[n].status # "nil" => note'[n].ch \in Channels
  BY <1>1 DEF TypeOK
<1>3. ASSUME NEW n \in Notes PROVE OnceOK(n)'
  <2>1. \A v \in Workers: worker'[v].id = n \/ worker[v].id = n => worker'[v] = worker[v]
    BY <1>3 DEF Notes
  <2>2. CASE note'[n] = note[n]
    BY <1>1, <2>1, <2>2, OnceFrame DEF OnceInv
  <2>3. CASE n \in Unused /\ (note'[n].out => note'[n].again)
    <3>1. \A v \in Workers: worker'[v].id # n
      BY <2>1, <2>3 DEF Unused
    <3> QED BY <2>3, <3>1 DEF OnceOK
  <2> QED BY <2>2, <2>3
<1>4. SentWasSent' /\ SentOnce'
  BY <1>1 DEF SentWasSent, SentOnce
<1>5. ASSUME NEW v \in Workers, worker'[v] = worker[v] PROVE HoldOK(v)'
  <2>1. worker[v].id \in Notes => note'[worker[v].id] = note[worker[v].id]
    BY DEF Unused
  <2> QED BY <1>1, <1>5, <2>1, HoldFrame DEF HoldInv
<1> QED BY <1>2, <1>3, <1>4, <1>5 DEF OnceInv


\* Steps that touch neither the rows nor the workers
LEMMA ChannelStep ==
  ASSUME IInv,
         \/ \E t \in Settings: SaveChannel(t)
         \/ MasterKeyReplaced \/ DaysPass \/ Renew
         \/ \E n \in Notes: RetryNotification(n) \/ NothingToDeliver(n)
  PROVE  IInv'
<1>1. TypeOK /\ HoldInv /\ OnceInv /\ SentWasSent /\ SentOnce
  BY DEF IInv
<1>2. UNCHANGED <<note, worker>>
  BY DEF SaveChannel, MasterKeyReplaced, DaysPass, Renew, RetryNotification, NothingToDeliver
<1>3. near' \in 0..(Levels + 1)
  BY <1>1, AlertsAssumption
     DEF TypeOK, SaveChannel, MasterKeyReplaced, DaysPass, Renew, RetryNotification, NothingToDeliver
<1>4. chan' \in [Channels -> Channel]
  <2>1. ASSUME NEW t \in Settings, SaveChannel(t) PROVE chan' \in [Channels -> Channel]
    BY <1>1, <2>1, AlertsAssumption DEF TypeOK, SaveChannel, Saved, Channel
  <2>2. CASE MasterKeyReplaced
    BY <1>1, <2>2 DEF TypeOK, MasterKeyReplaced, Channel
  <2> QED BY <1>1, <2>1, <2>2 DEF TypeOK, DaysPass, Renew, RetryNotification, NothingToDeliver
<1>5. queue' \subseteq Notes
  BY <1>1 DEF TypeOK, SaveChannel, MasterKeyReplaced, DaysPass, Renew, RetryNotification, NothingToDeliver
<1>6. TypeOK'
  BY <1>1, <1>2, <1>3, <1>4, <1>5 DEF TypeOK
<1>7. HoldInv' /\ OnceInv' /\ SentWasSent' /\ SentOnce'
  BY <1>1, <1>2 DEF HoldInv, HoldOK, OnceInv, OnceOK, SentWasSent, SentOnce
<1> QED BY <1>6, <1>7 DEF IInv

LEMMA QueueEventStep ==
  ASSUME IInv, QueueEvent PROVE IInv'
<1>1. TypeOK /\ HoldInv
  BY DEF IInv
<1>2. PICK add \in Notified \ {{}}: Room(Cardinality(add)) /\ note' = Added(0, add)
  BY DEF QueueEvent
<1>3. add \in SUBSET Channels
  BY <1>2 DEF Notified, Subscribed
<1>4. Cardinality(Unused) >= Cardinality(add)
  <2>1. IsFiniteSet(Unused)
    BY UnusedFinite
  <2>2. IsFiniteSet(add)
    BY <1>3, FS_Subset, AlertsAssumption
  <2>3. Cardinality(Unused) \in Nat /\ Cardinality(add) \in Nat
    BY <2>1, <2>2, FS_CardinalityType
  <2> QED BY <1>2, <2>3, AlertsAssumption DEF Room
<1>5. UNCHANGED <<near, chan, queue, worker>>
  BY DEF QueueEvent
<1>6. 0 \in Events
  BY AlertsAssumption DEF Events
<1>7. /\ note' \in [Notes -> Note]
      /\ \A n \in Notes: note'[n] = note[n] \/ (n \in Unused /\ \E c \in add: note'[n] = New(0, c))
  BY <1>1, <1>2, <1>3, <1>4, <1>6, AddedRows
<1>8. \A c \in add: /\ New(0, c).status = "queued" /\ ~New(0, c).twice /\ ~New(0, c).out
                    /\ New(0, c).ch \in Channels
  BY <1>3 DEF New, NoNote
<1>9. /\ \A n \in Notes: note'[n].status # "nil" => note'[n].ch \in Channels
      /\ OnceInv' /\ SentWasSent' /\ SentOnce' /\ \A v \in Workers: HoldOK(v)'
  BY <1>5, <1>7, <1>8, RowsAdded
<1>10. TypeOK'
  BY <1>1, <1>5, <1>7, <1>9 DEF TypeOK
<1> QED BY <1>9, <1>10 DEF IInv, HoldInv

\* expiry_warnings: the read
LEMMA WarnReadStep ==
  ASSUME IInv, NEW w \in Workers, WarnRead(w) PROVE IInv'
<1>1. TypeOK /\ HoldInv /\ OnceInv /\ SentWasSent /\ SentOnce
  BY DEF IInv
<1>2. FirstMatch \in Events
  <2>1. near \in Nat /\ near >= 1 /\ near <= Levels
    BY AlertsAssumption DEF WarnRead
  <2>2. \E i \in 1..near: \A j \in 1..near: i <= j
    BY <2>1
  <2>3. FirstMatch \in 1..near
    BY <2>2 DEF FirstMatch
  <2> QED BY <2>1, <2>3, AlertsAssumption DEF Events
<1> DEFINE s == [Idle EXCEPT !.pc = "warn", !.ev = FirstMatch, !.add = Subscribed(FirstMatch)]
<1>3. worker' = [worker EXCEPT ![w] = s] /\ UNCHANGED <<near, chan, note, queue>>
  BY DEF WarnRead
<1>4. Subscribed(FirstMatch) \subseteq Channels
  BY DEF Subscribed
<1>5. s \in Process /\ s.id = 0 /\ s.pc = "warn"
  BY <1>2, <1>4, Records DEF Process, Idle
<1> HIDE DEF s
<1>6. worker[w].id = 0
  BY <1>1 DEF WarnRead, HoldInv, HoldOK
<1>7. worker' \in [Workers -> Process]
  BY <1>1, <1>3, <1>5 DEF TypeOK
<1>8. TypeOK'
  BY <1>1, <1>3, <1>7 DEF TypeOK
<1>9. HoldOK(w)'
  BY <1>1, <1>3, <1>5 DEF HoldOK, TypeOK
<1>10. \A v \in Workers: v # w => worker'[v] = worker[v]
  BY <1>1, <1>3 DEF TypeOK
<1>11. worker'[w].id = 0
  BY <1>1, <1>3, <1>5 DEF TypeOK
<1>12. /\ OnceInv' /\ SentWasSent' /\ SentOnce'
       /\ \A v \in Workers: worker'[v] = worker[v] => HoldOK(v)'
  <2>1. note' \in [Notes -> Note] /\ \A n \in Notes: note'[n] = note[n]
    BY <1>1, <1>3 DEF TypeOK
  <2>2. \A v \in Workers: worker'[v] = worker[v] \/ (worker[v].id = 0 /\ worker'[v].id = 0)
    BY <1>6, <1>10, <1>11
  <2> QED BY <2>1, <2>2, RowsAdded
<1> QED BY <1>8, <1>9, <1>10, <1>12 DEF IInv, HoldInv

LEMMA IdleAgain ==
  ASSUME TypeOK, NEW w \in Workers, worker' = [worker EXCEPT ![w] = Idle]
  PROVE  /\ worker' \in [Workers -> Process] /\ worker'[w] = Idle /\ worker'[w].id = 0
         /\ \A v \in Workers: v # w => worker'[v] = worker[v]
         /\ HoldOK(w)'
<1>1. worker' \in [Workers -> Process] /\ worker'[w] = Idle
  BY Records DEF TypeOK
<1>2. worker'[w].id = 0 /\ worker'[w].pc = "idle"
  BY <1>1 DEF Idle
<1>3. \A v \in Workers: v # w => worker'[v] = worker[v]
  BY DEF TypeOK
<1> QED BY <1>1, <1>2, <1>3 DEF HoldOK

LEMMA WarnCommitStep ==
  ASSUME IInv, NEW w \in Workers, WarnCommit(w) PROVE IInv'
<1>1. TypeOK /\ HoldInv
  BY DEF IInv
<1> DEFINE add == worker[w].add
           ev == worker[w].ev
<1>2. add \in SUBSET Channels /\ ev \in Events /\ Cardinality(Unused) >= Cardinality(add)
  BY <1>1 DEF TypeOK, Process, WarnCommit
<1>3. note' = Added(ev, add) /\ worker' = [worker EXCEPT ![w] = Idle]
  BY DEF WarnCommit
<1> HIDE DEF add, ev
<1>4. UNCHANGED <<near, chan, queue>>
  BY DEF WarnCommit
<1>5. /\ note' \in [Notes -> Note]
      /\ \A n \in Notes: note'[n] = note[n] \/ (n \in Unused /\ \E c \in add: note'[n] = New(ev, c))
  BY <1>1, <1>2, <1>3, AddedRows
<1>6. \A c \in add: /\ New(ev, c).status = "queued" /\ ~New(ev, c).twice /\ ~New(ev, c).out
                    /\ New(ev, c).ch \in Channels
  BY <1>2 DEF New, NoNote
<1>7. worker[w].id = 0
  BY <1>1 DEF WarnCommit, HoldInv, HoldOK
<1>8. /\ worker' \in [Workers -> Process] /\ worker'[w].id = 0
      /\ \A v \in Workers: v # w => worker'[v] = worker[v]
      /\ HoldOK(w)'
  BY <1>1, <1>3, IdleAgain
<1>9. \A v \in Workers: worker'[v] = worker[v] \/ (worker[v].id = 0 /\ worker'[v].id = 0)
  BY <1>7, <1>8
<1>10. \A n \in Notes:
         \/ note'[n] = note[n]
         \/ /\ n \in Unused /\ note'[n].status = "queued" /\ ~note'[n].twice
            /\ note'[n].out => note'[n].again
            /\ note'[n].ch \in Channels
  BY <1>5, <1>6
<1>11. /\ \A n \in Notes: note'[n].status # "nil" => note'[n].ch \in Channels
       /\ OnceInv' /\ SentWasSent' /\ SentOnce'
       /\ \A v \in Workers: worker'[v] = worker[v] => HoldOK(v)'
  BY <1>5, <1>9, <1>10, RowsAdded
<1>12. TypeOK'
  BY <1>1, <1>4, <1>5, <1>8, <1>11 DEF TypeOK
<1> QED BY <1>8, <1>11, <1>12 DEF IInv, HoldInv

\* send_test
LEMMA SendTestStep ==
  ASSUME IInv, NEW c \in Channels, NEW gone \in BOOLEAN, SendTest(c, gone) PROVE IInv'
<1>1. TypeOK /\ HoldInv
  BY DEF IInv
<1> DEFINE n == CHOOSE m \in Unused: TRUE
           r == [New(0, c) EXCEPT !.again = TRUE, !.out = gone]
<1>2. n \in Unused
  BY <1>1, FirstRow DEF SendTest
<1>3. note' = [note EXCEPT ![n] = r] /\ UNCHANGED <<near, chan, queue, worker>>
  BY DEF SendTest
<1>4. /\ r \in Note /\ r.status = "queued" /\ r.twice = FALSE /\ r.again = TRUE /\ r.ch = c
  <2>1. New(0, c) \in Note
    BY Records, AlertsAssumption DEF Events
  <2> QED BY <2>1 DEF Note, New, NoNote
<1> HIDE DEF n, r
<1>5. note' \in [Notes -> Note]
  BY <1>1, <1>3, <1>4 DEF TypeOK
<1>6. \A m \in Notes:
        \/ note'[m] = note[m]
        \/ /\ m \in Unused /\ note'[m].status = "queued" /\ ~note'[m].twice
           /\ note'[m].out => note'[m].again
           /\ note'[m].ch \in Channels
  BY <1>1, <1>2, <1>3, <1>4 DEF TypeOK
<1>7. /\ \A m \in Notes: note'[m].status # "nil" => note'[m].ch \in Channels
      /\ OnceInv' /\ SentWasSent' /\ SentOnce' /\ \A v \in Workers: HoldOK(v)'
  BY <1>3, <1>5, <1>6, RowsAdded
<1>8. TypeOK'
  BY <1>1, <1>3, <1>5, <1>7 DEF TypeOK
<1> QED BY <1>7, <1>8 DEF IInv, HoldInv

\* daily_summary: the row is new, and its maker the only one to hold it.
LEMMA DailySummaryStep ==
  ASSUME IInv, NEW w \in Workers, NEW c \in Channels, DailySummary(w, c) PROVE IInv'
<1>1. TypeOK /\ HoldInv /\ OnceInv /\ SentWasSent /\ SentOnce
  BY DEF IInv
<1> DEFINE n == CHOOSE m \in Unused: TRUE
           r == New(0, c)
           s == [Idle EXCEPT !.pc = "send", !.id = n, !.st = "queued"]
<1>2. n \in Unused
  BY <1>1, FirstRow DEF DailySummary
<1>3. /\ note' = [note EXCEPT ![n] = r] /\ worker' = [worker EXCEPT ![w] = s]
      /\ UNCHANGED <<near, chan, queue>>
  BY DEF DailySummary
<1>4. r \in Note
  BY Records, AlertsAssumption DEF Events
<1>5. r.status = "queued" /\ r.twice = FALSE /\ r.out = FALSE /\ r.ch = c
  BY DEF New, NoNote
<1>6. s \in Process /\ s.pc = "send" /\ s.id = n /\ s.st = "queued"
  <2>1. n \in 0..MaxNotes
    BY <1>2, AlertsAssumption DEF Unused, Notes
  <2> QED BY <2>1, Records DEF Process, Idle
<1> HIDE DEF n, r, s
<1>7. n \in Notes /\ n # 0 /\ \A v \in Workers: worker[v].id # n
  BY <1>2 DEF Unused, Notes
<1>8. note' \in [Notes -> Note] /\ worker' \in [Workers -> Process]
  BY <1>1, <1>3, <1>4, <1>6 DEF TypeOK
<1>9. /\ note'[n] = r /\ \A m \in Notes: m # n => note'[m] = note[m]
      /\ worker'[w] = s /\ \A v \in Workers: v # w => worker'[v] = worker[v]
  BY <1>1, <1>3, <1>7 DEF TypeOK
<1>10. TypeOK'
  <2>1. \A m \in Notes: note'[m].status # "nil" => note'[m].ch \in Channels
    BY <1>1, <1>5, <1>9 DEF TypeOK
  <2> QED BY <1>1, <1>3, <1>8, <2>1 DEF TypeOK
<1>11. ASSUME NEW v \in Workers PROVE HoldOK(v)'
  <2>1. CASE v = w
    BY <1>6, <1>7, <1>9, <2>1 DEF HoldOK
  <2>2. CASE v # w
    <3>1. worker[v].id \in Notes => note'[worker[v].id] = note[worker[v].id]
      BY <1>7, <1>9
    <3> QED BY <1>1, <1>9, <2>2, <3>1, HoldFrame DEF HoldInv
  <2> QED BY <2>1, <2>2
<1>12. ASSUME NEW m \in Notes PROVE OnceOK(m)'
  <2>1. CASE m = n
    <3>1. \A v \in Workers: worker'[v].id = m => v = w
      BY <1>7, <1>9, <2>1
    <3> QED BY <1>5, <1>9, <2>1, <3>1 DEF OnceOK
  <2>2. CASE m # n
    <3>1. worker[w].id = 0 /\ m # 0
      BY <1>1 DEF DailySummary, HoldInv, HoldOK, Notes
    <3>2. \A v \in Workers: worker'[v].id = m \/ worker[v].id = m => worker'[v] = worker[v]
      BY <1>6, <1>9, <2>2, <3>1
    <3> QED BY <1>1, <1>9, <2>2, <3>2, OnceFrame DEF OnceInv
  <2> QED BY <2>1, <2>2
<1>13. SentWasSent' /\ SentOnce'
  BY <1>1, <1>5, <1>9 DEF SentWasSent, SentOnce
<1> QED BY <1>10, <1>11, <1>12, <1>13 DEF IInv, HoldInv, OnceInv

\* deliver reads a row that is not on record as sent.
LEMMA DeliverReadStep ==
  ASSUME IInv, NEW w \in Workers, NEW n \in Notes, DeliverRead(w, n) PROVE IInv'
<1>1. TypeOK /\ HoldInv /\ OnceInv /\ SentWasSent /\ SentOnce
  BY DEF IInv
<1> DEFINE s == [Idle EXCEPT !.pc = "send", !.id = n, !.msg = TRUE, !.st = note[n].status]
           other == \E v \in Workers: worker[v].id = n
           r == [note[n] EXCEPT !.again = note[n].again \/ other]
<1>2. /\ note' = [note EXCEPT ![n] = r] /\ worker' = [worker EXCEPT ![w] = s]
      /\ queue' = queue \ {n} /\ UNCHANGED <<near, chan>>
  BY <1>1 DEF DeliverRead, Delivering, TypeOK
<1>3. note[n].status \in {"queued", "failed"} /\ note[n] \in Note
  BY <1>1 DEF DeliverRead, TypeOK, Note
<1>4. n \in 0..MaxNotes /\ n # 0
  BY AlertsAssumption DEF Notes
<1>5. s \in Process /\ s.pc = "send" /\ s.id = n /\ s.st = note[n].status
  BY <1>3, <1>4, Records DEF Process, Idle
<1>6. other \in BOOLEAN
  OBVIOUS
<1>7. /\ r \in Note /\ r.status = note[n].status /\ r.out = note[n].out
      /\ r.twice = note[n].twice /\ r.ch = note[n].ch
  BY <1>3, <1>6 DEF Note
<1>8. r.again <=> note[n].again \/ other
  BY <1>3 DEF Note
<1> HIDE DEF s, r
<1>9. note' \in [Notes -> Note] /\ worker' \in [Workers -> Process]
  BY <1>1, <1>2, <1>5, <1>7 DEF TypeOK
<1>10. /\ note'[n] = r /\ \A m \in Notes: m # n => note'[m] = note[m]
       /\ worker'[w] = s /\ \A v \in Workers: v # w => worker'[v] = worker[v]
  BY <1>1, <1>2 DEF TypeOK
<1>11. TypeOK'
  <2>1. \A m \in Notes: note'[m].status # "nil" => note'[m].ch \in Channels
    BY <1>1, <1>7, <1>10 DEF TypeOK
  <2> QED BY <1>1, <1>2, <1>9, <2>1 DEF TypeOK
<1>12. ASSUME NEW v \in Workers PROVE HoldOK(v)'
  <2>1. CASE v = w
    BY <1>3, <1>4, <1>5, <1>10, <2>1 DEF HoldOK
  <2>2. CASE v # w
    <3>1. HoldOK(v) /\ worker'[v] = worker[v]
      BY <1>1, <1>10, <2>2 DEF HoldInv
    <3>2. CASE worker[v].id # n
      <4>1. worker[v].id \in Notes => note'[worker[v].id] = note[worker[v].id]
        BY <1>10, <3>2
      <4> QED BY <1>1, <3>1, <4>1, HoldFrame
    <3>3. CASE worker[v].id = n
      BY <1>7, <1>10, <3>1, <3>3 DEF HoldOK
    <3> QED BY <3>2, <3>3
  <2> QED BY <2>1, <2>2
<1>13. worker[w].id = 0
  BY <1>1 DEF DeliverRead, HoldInv, HoldOK
<1>14. ASSUME NEW m \in Notes PROVE OnceOK(m)'
  <2>1. CASE m = n
    <3>1. CASE other
      BY <1>8, <1>10, <2>1, <3>1 DEF OnceOK
    <3>2. CASE ~other
      <4>1. \A v \in Workers: worker'[v].id = m => v = w
        BY <1>10, <2>1, <3>2
      <4>2. r.again \/ ~r.out
        BY <1>1, <1>3, <1>7, <1>8, <3>2 DEF OnceInv, OnceOK
      <4> QED BY <1>10, <2>1, <4>1, <4>2 DEF OnceOK
    <3> QED BY <3>1, <3>2
  <2>2. CASE m # n
    <3>1. \A v \in Workers: worker'[v].id = m \/ worker[v].id = m => worker'[v] = worker[v]
      BY <1>5, <1>10, <1>13, <2>2 DEF Notes
    <3> QED BY <1>1, <1>10, <2>2, <3>1, OnceFrame DEF OnceInv
  <2> QED BY <2>1, <2>2
<1>15. SentWasSent' /\ SentOnce'
  BY <1>1, <1>7, <1>10 DEF SentWasSent, SentOnce
<1> QED BY <1>11, <1>12, <1>14, <1>15 DEF IInv, HoldInv, OnceInv

\* The message goes out, or not.
LEMMA SendStep ==
  ASSUME IInv, NEW w \in Workers, NEW ok \in BOOLEAN, NEW gone \in BOOLEAN, Send(w, ok, gone)
  PROVE  IInv'
<1>1. TypeOK /\ HoldInv /\ OnceInv /\ SentWasSent /\ SentOnce
  BY DEF IInv
<1> DEFINE n == worker[w].id
           status == IF ok THEN "sent" ELSE "failed"
           st == IF worker[w].st = status THEN "nil" ELSE status
           s == [worker[w] EXCEPT !.pc = "commit", !.st = st]
           r == Gone(note[n], ok)
<1>2. worker[w] \in Process /\ worker[w].pc = "send" /\ worker[w].st \in {"queued", "failed"}
  BY <1>1 DEF TypeOK, Send, HoldInv, HoldOK
<1>3. n # 0 /\ n \in Notes
  BY <1>1, <1>2, AlertsAssumption DEF HoldInv, HoldOK, Process, Notes
<1>4. /\ worker' = [worker EXCEPT ![w] = s]
      /\ note' = IF gone /\ note[n].status # "nil" THEN [note EXCEPT ![n] = r] ELSE note
      /\ UNCHANGED <<near, chan, queue>>
  BY <1>1 DEF Send, TypeOK
<1>5. s \in Process /\ s.pc = "commit" /\ s.id = n /\ s.st = st
  BY <1>2 DEF Process
<1>6. /\ ok => st = "sent"
      /\ ~ok => st \in {"nil", "failed"}
  BY <1>2
<1>7. note[n].status # "nil" /\ ok => gone
  BY DEF Send, Outcomes
<1>8. note[n] \in Note
  BY <1>1, <1>3 DEF TypeOK
<1>9. /\ r \in Note /\ r.status = note[n].status /\ r.out = TRUE /\ r.ch = note[n].ch
      /\ r.again <=> note[n].again \/ ~ok
      /\ r.twice <=> note[n].twice \/ (note[n].out /\ ~note[n].again)
  BY <1>8 DEF Gone, Note
<1>10. note[n].status # "nil" => note[n].again \/ ~note[n].out
  BY <1>1, <1>2, <1>3 DEF OnceInv, OnceOK
<1> HIDE DEF n, st, s, r
<1>11. /\ worker' \in [Workers -> Process] /\ note' \in [Notes -> Note]
  BY <1>1, <1>4, <1>5, <1>9 DEF TypeOK
<1>12. /\ \A m \in Notes: m # n => note'[m] = note[m]
       /\ note'[n] = IF gone /\ note[n].status # "nil" THEN r ELSE note[n]
       /\ worker'[w] = s /\ \A v \in Workers: v # w => worker'[v] = worker[v]
  BY <1>1, <1>3, <1>4 DEF TypeOK
<1>13. TypeOK'
  <2>1. \A m \in Notes: note'[m].status # "nil" => note'[m].ch \in Channels
    BY <1>1, <1>9, <1>12 DEF TypeOK
  <2> QED BY <1>1, <1>4, <1>11, <2>1 DEF TypeOK
<1>14. ASSUME NEW v \in Workers PROVE HoldOK(v)'
  <2>1. CASE v = w
    <3>1. worker'[v].pc = "commit" /\ worker'[v].id = n /\ worker'[v].st = st
      BY <1>5, <1>12, <2>1
    <3>2. st = "sent" /\ note'[n].status # "nil" => note'[n].out
      BY <1>6, <1>7, <1>9, <1>12
    <3> QED BY <1>3, <3>1, <3>2 DEF HoldOK
  <2>2. CASE v # w
    <3>1. HoldOK(v) /\ worker'[v] = worker[v]
      BY <1>1, <1>12, <2>2 DEF HoldInv
    <3>2. worker[v].id \in Notes => \/ note'[worker[v].id] = note[worker[v].id]
                                    \/ note'[worker[v].id].out
      BY <1>9, <1>12
    <3> QED BY <1>1, <3>1, <3>2, HoldFrame
  <2> QED BY <2>1, <2>2
<1>15. ASSUME NEW m \in Notes PROVE OnceOK(m)'
  <2>1. CASE m = n
    <3> SUFFICES ASSUME note'[m].status # "nil", ~note'[m].again PROVE OnceOK(m)'
      BY DEF OnceOK
    <3>1. note[m].status # "nil" /\ ~note[m].again
      BY <1>9, <1>12, <2>1
    <3>2. \A v \in Workers: worker[v].id = m => v = w
      BY <1>1, <2>1, <3>1 DEF OnceInv, OnceOK, n
    <3>3. \A v \in Workers: worker'[v].id = m => v = w
      BY <1>12, <3>2
    <3>4. worker'[w].id = m /\ worker'[w].pc = "commit" /\ worker'[w].st = st
      BY <1>5, <1>12, <2>1
    <3>5. note'[m].out => st = "sent"
      BY <1>6, <1>9, <1>10, <1>12, <2>1, <3>1
    <3> QED BY <3>3, <3>4, <3>5 DEF OnceOK
  <2>2. CASE m # n
    <3>1. \A v \in Workers: worker'[v].id = m \/ worker[v].id = m => worker'[v] = worker[v]
      BY <1>5, <1>12, <2>2 DEF n
    <3> QED BY <1>1, <1>12, <2>2, <3>1, OnceFrame DEF OnceInv
  <2> QED BY <2>1, <2>2
<1>16. SentWasSent'
  BY <1>1, <1>9, <1>12 DEF SentWasSent
<1>17. SentOnce'
  BY <1>1, <1>3, <1>9, <1>10, <1>12 DEF SentOnce
<1> QED BY <1>13, <1>14, <1>15, <1>16, <1>17 DEF IInv, HoldInv, OnceInv

\* The result is recorded, unless the row was purged.
LEMMA DeliverCommitStep ==
  ASSUME IInv, NEW w \in Workers, DeliverCommit(w) PROVE IInv'
<1>1. TypeOK /\ HoldInv /\ OnceInv /\ SentWasSent /\ SentOnce
  BY DEF IInv
<1> DEFINE n == worker[w].id
           st == worker[w].st
           r == [note[n] EXCEPT !.status = st]
           writes == note[n].status # "nil" /\ st # "nil"
<1>2. worker[w].pc = "commit" /\ HoldOK(w) /\ st \in {"nil", "queued", "failed", "sent"}
  BY <1>1 DEF DeliverCommit, HoldInv, TypeOK, Process
<1>3. n \in Notes
  BY <1>1, <1>2, AlertsAssumption DEF HoldOK, TypeOK, Process, Notes
<1>4. /\ worker' = [worker EXCEPT ![w] = Idle]
      /\ note' = IF writes THEN [note EXCEPT ![n] = r] ELSE note
      /\ UNCHANGED <<near, chan, queue>>
  BY <1>1 DEF DeliverCommit, TypeOK
<1>5. note[n] \in Note
  BY <1>1, <1>3 DEF TypeOK
<1>6. /\ r \in Note /\ r.status = st /\ r.out = note[n].out /\ r.ch = note[n].ch
      /\ r.again = note[n].again /\ r.twice = note[n].twice
  BY <1>2, <1>5 DEF Note
<1>7. /\ worker' \in [Workers -> Process] /\ worker'[w].id = 0
      /\ \A v \in Workers: v # w => worker'[v] = worker[v]
      /\ HoldOK(w)'
  BY <1>1, <1>4, IdleAgain
<1>8. writes /\ st = "sent" => note[n].out
  BY <1>2 DEF HoldOK
<1> HIDE DEF n, st, r, writes
<1>9. note' \in [Notes -> Note]
  BY <1>1, <1>4, <1>6 DEF TypeOK
<1>10. /\ \A m \in Notes: m # n => note'[m] = note[m]
       /\ note'[n] = IF writes THEN r ELSE note[n]
  BY <1>1, <1>3, <1>4 DEF TypeOK
<1>11. TypeOK'
  <2>1. \A m \in Notes: note'[m].status # "nil" => note'[m].ch \in Channels
    BY <1>1, <1>6, <1>10 DEF TypeOK, writes
  <2> QED BY <1>1, <1>4, <1>7, <1>9, <2>1 DEF TypeOK
<1>12. ASSUME NEW v \in Workers PROVE HoldOK(v)'
  <2>1. CASE v = w
    BY <1>7, <2>1
  <2>2. CASE v # w
    <3>1. HoldOK(v) /\ worker'[v] = worker[v]
      BY <1>1, <1>7, <2>2 DEF HoldInv
    <3>2. CASE worker[v].id # n
      <4>1. worker[v].id \in Notes => note'[worker[v].id] = note[worker[v].id]
        BY <1>10, <3>2
      <4> QED BY <1>1, <3>1, <4>1, HoldFrame
    <3>3. CASE worker[v].id = n
      <4>1. note'[n].out = note[n].out /\ (note'[n].status # "nil" => note[n].status # "nil")
        BY <1>6, <1>10 DEF writes
      <4> QED BY <3>1, <3>3, <4>1 DEF HoldOK
    <3> QED BY <3>2, <3>3
  <2> QED BY <2>1, <2>2
<1>13. ASSUME NEW m \in Notes PROVE OnceOK(m)'
  <2>1. CASE m = n
    <3> SUFFICES ASSUME note'[m].status # "nil", ~note'[m].again PROVE OnceOK(m)'
      BY DEF OnceOK
    <3>1. /\ note[m].status # "nil" /\ ~note[m].again /\ note'[m].out = note[m].out
      BY <1>6, <1>10, <2>1 DEF writes
    <3>2. \A v \in Workers: worker[v].id = m => v = w
      BY <1>1, <2>1, <3>1 DEF OnceInv, OnceOK, n
    <3>3. \A v \in Workers: worker'[v].id # m
      BY <1>7, <3>2 DEF Notes
    <3>4. note[m].out => st = "sent"
      BY <1>1, <2>1, <3>1 DEF OnceInv, OnceOK, n, st
    <3>5. note[m].out => note'[m].status = "sent"
      BY <1>6, <1>10, <2>1, <3>1, <3>4 DEF writes
    <3> QED BY <3>1, <3>3, <3>5 DEF OnceOK
  <2>2. CASE m # n
    <3>1. \A v \in Workers: worker'[v].id = m \/ worker[v].id = m => worker'[v] = worker[v]
      BY <1>7, <2>2 DEF n, Notes
    <3> QED BY <1>1, <1>10, <2>2, <3>1, OnceFrame DEF OnceInv
  <2> QED BY <2>1, <2>2
<1>14. SentWasSent' /\ SentOnce'
  BY <1>1, <1>6, <1>8, <1>10 DEF SentWasSent, SentOnce
<1> QED BY <1>11, <1>12, <1>13, <1>14 DEF IInv, HoldInv, OnceInv

\* A worker dies between the message and the record of it: a second message has a reason.
LEMMA CrashStep ==
  ASSUME IInv, NEW w \in Workers, Crash(w) PROVE IInv'
<1>1. TypeOK /\ HoldInv /\ OnceInv /\ SentWasSent /\ SentOnce
  BY DEF IInv
<1> DEFINE n == worker[w].id
           r == [note[n] EXCEPT !.again = TRUE]
           marks == worker[w].pc = "commit" /\ note[n].status # "nil"
<1>2. worker[w].pc \in {"send", "commit"} /\ HoldOK(w)
  BY <1>1 DEF Crash, HoldInv
<1>3. n \in Notes
  BY <1>1, <1>2, AlertsAssumption DEF HoldOK, TypeOK, Process, Notes
<1>4. /\ worker' = [worker EXCEPT ![w] = Idle]
      /\ note' = IF marks THEN [note EXCEPT ![n] = r] ELSE note
      /\ UNCHANGED <<near, chan>>
  BY <1>1 DEF Crash, TypeOK
<1>5. queue' \subseteq Notes
  BY <1>1, <1>3 DEF Crash, TypeOK
<1>6. note[n] \in Note
  BY <1>1, <1>3 DEF TypeOK
<1>7. /\ r \in Note /\ r.status = note[n].status /\ r.out = note[n].out /\ r.ch = note[n].ch
      /\ r.again = TRUE /\ r.twice = note[n].twice
  BY <1>6 DEF Note
<1>8. /\ worker' \in [Workers -> Process] /\ worker'[w].id = 0
      /\ \A v \in Workers: v # w => worker'[v] = worker[v]
      /\ HoldOK(w)'
  BY <1>1, <1>4, IdleAgain
<1> HIDE DEF n, r, marks
<1>9. note' \in [Notes -> Note]
  BY <1>1, <1>4, <1>7 DEF TypeOK
<1>10. /\ \A m \in Notes: m # n => note'[m] = note[m]
       /\ note'[n] = IF marks THEN r ELSE note[n]
  BY <1>1, <1>3, <1>4 DEF TypeOK
<1>11. TypeOK'
  <2>1. \A m \in Notes: note'[m].status # "nil" => note'[m].ch \in Channels
    BY <1>1, <1>7, <1>10 DEF TypeOK
  <2> QED BY <1>1, <1>4, <1>5, <1>8, <1>9, <2>1 DEF TypeOK
<1>12. ASSUME NEW v \in Workers PROVE HoldOK(v)'
  <2>1. CASE v = w
    BY <1>8, <2>1
  <2>2. CASE v # w
    <3>1. HoldOK(v) /\ worker'[v] = worker[v]
      BY <1>1, <1>8, <2>2 DEF HoldInv
    <3>2. CASE worker[v].id # n
      <4>1. worker[v].id \in Notes => note'[worker[v].id] = note[worker[v].id]
        BY <1>10, <3>2
      <4> QED BY <1>1, <3>1, <4>1, HoldFrame
    <3>3. CASE worker[v].id = n
      <4>1. note'[n].out = note[n].out /\ note'[n].status = note[n].status
        BY <1>7, <1>10
      <4> QED BY <3>1, <3>3, <4>1 DEF HoldOK
    <3> QED BY <3>2, <3>3
  <2> QED BY <2>1, <2>2
<1>13. ASSUME NEW m \in Notes PROVE OnceOK(m)'
  <2>1. CASE m = n
    <3> SUFFICES ASSUME note'[m].status # "nil", ~note'[m].again PROVE OnceOK(m)'
      BY DEF OnceOK
    <3>1. ~marks /\ note'[m] = note[m]
      BY <1>7, <1>10, <2>1
    <3>2. \A v \in Workers: worker[v].id = m => v = w
      BY <1>1, <2>1, <3>1 DEF OnceInv, OnceOK, n
    <3>3. \A v \in Workers: worker'[v].id # m
      BY <1>8, <3>2 DEF Notes
    <3>4. worker[w].pc # "commit"
      BY <2>1, <3>1 DEF marks
    <3>5. ~note[m].out
      BY <1>1, <2>1, <3>1, <3>4 DEF OnceInv, OnceOK, n
    <3> QED BY <3>1, <3>3, <3>5 DEF OnceOK
  <2>2. CASE m # n
    <3>1. \A v \in Workers: worker'[v].id = m \/ worker[v].id = m => worker'[v] = worker[v]
      BY <1>8, <2>2 DEF n, Notes
    <3> QED BY <1>1, <1>10, <2>2, <3>1, OnceFrame DEF OnceInv
  <2> QED BY <2>1, <2>2
<1>14. SentWasSent' /\ SentOnce'
  BY <1>1, <1>7, <1>10 DEF SentWasSent, SentOnce
<1> QED BY <1>11, <1>12, <1>13, <1>14 DEF IInv, HoldInv, OnceInv

\* Rows are purged, whoever holds them.
LEMMA RetentionStep ==
  ASSUME IInv, NEW old \in SUBSET Notes, ApplyRetention(old) PROVE IInv'
<1>1. TypeOK /\ HoldInv /\ OnceInv /\ SentWasSent /\ SentOnce
  BY DEF IInv
<1>2. /\ note' = [n \in Notes |-> IF n \in old THEN NoNote ELSE note[n]]
      /\ UNCHANGED <<near, chan, queue, worker>>
  BY DEF ApplyRetention
<1>3. note' \in [Notes -> Note]
  BY <1>1, <1>2, Records DEF TypeOK
<1>4. NoNote.status = "nil" /\ ~NoNote.twice
  BY DEF NoNote
<1>5. \A n \in Notes: \/ note'[n] = note[n]
                      \/ note'[n].status = "nil" /\ ~note'[n].twice
  BY <1>2, <1>4
<1>6. TypeOK'
  <2>1. \A m \in Notes: note'[m].status # "nil" => note'[m].ch \in Channels
    BY <1>1, <1>5 DEF TypeOK
  <2> QED BY <1>1, <1>2, <1>3, <2>1 DEF TypeOK
<1>7. \A w \in Workers: HoldOK(w)'
  BY <1>1, <1>2, <1>5, HoldFrame DEF HoldInv
<1>8. ASSUME NEW m \in Notes PROVE OnceOK(m)'
  BY <1>1, <1>2, <1>5 DEF OnceInv, OnceOK
<1>9. SentWasSent' /\ SentOnce'
  BY <1>1, <1>5 DEF SentWasSent, SentOnce
<1> QED BY <1>6, <1>7, <1>8, <1>9 DEF IInv, HoldInv, OnceInv

----------------------------------------------------------------------------

LEMMA InitHolds == Init => IInv
<1> SUFFICES ASSUME Init PROVE IInv
  OBVIOUS
<1>1. \A c \in Channels: Saved(CHOOSE t \in Settings: t.ch = c) \in Channel
  BY AlertsAssumption DEF Saved, Channel
<1>2. chan \in [Channels -> Channel] /\ near \in 0..(Levels + 1) /\ queue \subseteq Notes
  BY <1>1, AlertsAssumption DEF Init
<1>3. note \in [Notes -> Note] /\ \A n \in Notes: note[n] = NoNote
  BY Records DEF Init
<1>4. worker \in [Workers -> Process] /\ \A w \in Workers: worker[w] = Idle
  BY Records DEF Init
<1>5. NoNote.status = "nil" /\ ~NoNote.twice /\ Idle.id = 0 /\ Idle.pc = "idle"
  BY DEF NoNote, Idle
<1>6. TypeOK
  BY <1>2, <1>3, <1>4, <1>5 DEF TypeOK
<1>7. HoldInv /\ OnceInv /\ SentWasSent /\ SentOnce
  BY <1>3, <1>4, <1>5 DEF HoldInv, HoldOK, OnceInv, OnceOK, SentWasSent, SentOnce
<1> QED BY <1>6, <1>7 DEF IInv

LEMMA NextHolds == IInv /\ [Next]_vars => IInv'
<1> SUFFICES ASSUME IInv, [Next]_vars PROVE IInv'
  OBVIOUS
<1>1. CASE UNCHANGED vars
  BY <1>1 DEF vars, IInv, TypeOK, HoldInv, HoldOK, OnceInv, OnceOK, SentWasSent, SentOnce
<1>2. CASE Next
  BY <1>2, ChannelStep, QueueEventStep, WarnReadStep, WarnCommitStep, SendTestStep,
     DailySummaryStep, DeliverReadStep, SendStep, DeliverCommitStep, CrashStep, RetentionStep
     DEF Next, Step
<1> QED BY <1>1, <1>2

LEMMA Always == Spec => []IInv
BY InitHolds, NextHolds, PTL DEF Spec

\* The tables and the workers hold values of their kinds, and every notification has a
\* channel, whatever is queued, purged or lost.
THEOREM TypeCorrect == Spec => []TypeOK
<1>1. IInv => TypeOK
  BY DEF IInv
<1> QED BY <1>1, Always, PTL

\* deliver: a notification on record as sent has gone out, for any number of workers,
\* retries, purges and crashes.
THEOREM SentIsTrue == Spec => []SentWasSent
<1>1. IInv => SentWasSent
  BY DEF IInv
<1> QED BY <1>1, Always, PTL

\* deliver: a second message goes out only after an overlapping delivery, a lost worker,
\* an error reported after the message had left, or a test message.
THEOREM NoSecondMessage == Spec => []SentOnce
<1>1. IInv => SentOnce
  BY DEF IInv
<1> QED BY <1>1, Always, PTL
=============================================================================
