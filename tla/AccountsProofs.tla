--------------------------- MODULE AccountsProofs ---------------------------
(***************************************************************************)
(* Proofs about Accounts, for any sets of users and processes, any         *)
(* max_login_attempts and any bounds.                                      *)
(*                                                                         *)
(* Each request writes against the row it read, so what the properties say *)
(* of the table must also be known of the rows that requests hold: that is *)
(* RequestInv.  StartInv is why three attempts to seed are more than       *)
(* enough, and FlushInv why only one process inserts the administrator.    *)
(***************************************************************************)
EXTENDS Accounts, TLAPS

\* A second attempt finds everything seeded, so it does not collide again.
StartOK(p) ==
  /\ proc[p].pc \in {"boot", "seed"} /\ proc[p].left < 3 => seeded
  /\ proc[p].pc = "seed" /\ proc[p].left < 3 => proc[p].found
  /\ proc[p].pc \notin {"boot", "seed"} => seeded
  /\ proc[p].pc \in {"up", "busy", "issue"} => user["admin"].there

StartInv == \A p \in Procs: StartOK(p)

\* One process at a time has flushed the administrator, and nobody has committed one.
FlushInv ==
  \A p \in Procs: proc[p].pc = "flushed" =>
    /\ ~user["admin"].there
    /\ \A q \in Procs: proc[q].pc = "flushed" => q = p

\* A lock has a time, and the counter counts.
Regular(r) == r.locked <=> r.until # "none"

RowOK(u) ==
  /\ ~user[u].there => user[u] = NoUser /\ wrong[u] = 0
  /\ u \notin stale => Regular(user[u]) /\ wrong[u] = user[u].fails

RowInv == \A u \in Names: RowOK(u)

\* What a request holds: the row as it was when the request passed its checks
RequestOK(p) ==
  LET s == proc[p] IN
  /\ s.pc = "busy" =>
       /\ s.op \in Ops
       /\ s.op = "create" => s.row = NoUser
       /\ s.op # "create" => s.row.there /\ user[s.u].there
       /\ s.u \notin stale => Regular(s.row) /\ (s.op = "login" => s.row.until # "on")
       /\ s.op \in {"disable", "demote"} /\ s.row.admin /\ s.row.active => s.others # {}
  /\ s.pc = "issue" => s.op = "login" /\ user[s.u].there

RequestInv == \A p \in Procs: RequestOK(p)

\* Whoever holds a token has a row.
TokenInv ==
  /\ \A u \in access \cup apikey: user[u].there
  /\ \A i \in 1..MaxTokens: token[i].live => user[token[i].user].there

IInv == /\ TypeOK /\ StartInv /\ FlushInv /\ RowInv /\ RequestInv /\ TokenInv
        /\ LastAdminStays /\ OldTokensRevoked

----------------------------------------------------------------------------

\* The record of a process that begins, and of a free one, is a process.
LEMMA StartingType ==
  NoUser \in Row /\ Starting \in Proc /\ [Starting EXCEPT !.pc = "up"] \in Proc
<1>1. NoUser \in Row
  BY DEF NoUser, Row
<1>2. Starting \in Proc
  BY <1>1, AccountsAssumption DEF Starting, Proc
<1>3. [Starting EXCEPT !.pc = "up"] \in Proc
  BY <1>2 DEF Proc
<1> QED BY <1>1, <1>2, <1>3

\* The invariant holds before anything has started.
LEMMA InitInv == Init => IInv
<1> SUFFICES ASSUME Init PROVE IInv
  OBVIOUS
<1> USE AccountsAssumption, StartingType DEF Init
<1>1. TypeOK
  <2>1. NoToken \in [user: Names, pw: Nat, live: BOOLEAN]
    BY DEF NoToken
  <2>2. NoUser.fails < MaxAttempts
    BY DEF NoUser
  <2>3. user \in [Names -> Row] /\ \A u \in Names: user[u].fails < MaxAttempts
    BY <2>2
  <2>4. token \in [1..MaxTokens -> [user: Names, pw: Nat, live: BOOLEAN]]
    BY <2>1
  <2>5. proc \in [Procs -> Proc] /\ wrong \in [Names -> Nat]
    OBVIOUS
  <2>6. nreq \in 0..MaxRequests /\ ntoken \in 0..MaxTokens
    OBVIOUS
  <2> QED BY <2>3, <2>4, <2>5, <2>6 DEF TypeOK
<1>2. StartInv /\ FlushInv
  BY DEF StartInv, StartOK, FlushInv, Starting
<1>3. RowInv
  BY DEF RowInv, RowOK, Regular, NoUser
<1>4. RequestInv
  BY DEF RequestInv, RequestOK, Starting
<1>5. TokenInv /\ LastAdminStays /\ OldTokensRevoked
  BY DEF TokenInv, LastAdminStays, OldTokensRevoked, NoToken, NoUser
<1> QED BY <1>1, <1>2, <1>3, <1>4, <1>5 DEF IInv

\* What a request wants is a row; the columns it does not name are those it read.
Wanted(r, op, ok, new) ==
  LET w == Changed(r, op, ok, new) IN
  /\ w \in Row
  /\ w.fails = r.fails \/ w.fails < MaxAttempts
  /\ op # "create" =>
       /\ w.there = r.there
       /\ w.admin = r.admin \/ op \in {"demote", "promote"}
       /\ op = "promote" => w.admin
       /\ w.active = r.active \/ op \in {"disable", "enable"}
       /\ op = "enable" => w.active
       /\ op \notin {"password", "reset"} => w.pw = r.pw /\ w.must = r.must
       /\ op = "reset" => w.must
       /\ op # "login" => w.fails = r.fails /\ w.locked = r.locked /\ w.until = r.until
  /\ op = "create" => w = [NoUser EXCEPT !.there = TRUE, !.pw = new, !.admin = ok]

\* Every operation of a request is of that kind.
LEMMA ChangedColumns ==
  ASSUME NEW r \in Row, NEW op \in Ops, NEW ok \in BOOLEAN, NEW new \in Nat
  PROVE  Wanted(r, op, ok, new)
<1> USE AccountsAssumption, StartingType DEF Wanted
<1>1. CASE op = "login"
  <2> DEFINE w == Changed(r, op, ok, new)
  <2>1. w = IF ok THEN [r EXCEPT !.fails = 0, !.locked = FALSE, !.until = "none"] ELSE Failed(r)
    BY <1>1 DEF Changed
  <2>2. w \in Row
    <3>1. [r EXCEPT !.fails = 0, !.locked = FALSE, !.until = "none"] \in Row
      BY DEF Row
    <3>2. [r EXCEPT !.fails = 0, !.locked = TRUE, !.until = "on"] \in Row
      BY DEF Row
    <3>3. [r EXCEPT !.fails = @ + 1] \in Row
      BY DEF Row
    <3> QED BY <2>1, <3>1, <3>2, <3>3 DEF Failed
  <2>3. w.fails = r.fails \/ w.fails < MaxAttempts
    BY <2>1 DEF Failed, Row
  <2>4. w.there = r.there /\ w.admin = r.admin /\ w.active = r.active
        /\ w.pw = r.pw /\ w.must = r.must
    BY <2>1 DEF Failed, Row
  <2> QED BY <1>1, <2>2, <2>3, <2>4
<1>2. CASE op = "create"
  <2>1. Changed(r, op, ok, new) = [NoUser EXCEPT !.there = TRUE, !.pw = new, !.admin = ok]
    BY <1>2 DEF Changed
  <2>2. NoUser \in Row /\ NoUser.fails = 0
    BY StartingType DEF NoUser
  <2> DEFINE made == [NoUser EXCEPT !.there = TRUE, !.pw = new, !.admin = ok]
  <2>3. made \in Row
    BY <2>2 DEF Row
  <2>4. made.fails = 0
    BY <2>2 DEF Row
  <2> HIDE DEF made
  <2>5. Changed(r, op, ok, new) = made
    BY <2>1 DEF made
  <2>6. op = "create" => Changed(r, op, ok, new) = [NoUser EXCEPT !.there = TRUE, !.pw = new, !.admin = ok]
    BY <2>1
  <2> QED BY <1>2, <2>3, <2>4, <2>5, <2>6
<1>3. CASE op \in {"password", "reset"}
  <2>1. CASE op = "password"
    BY <2>1 DEF Changed, Row
  <2>2. CASE op = "reset"
    BY <2>2 DEF Changed, Row
  <2> QED BY <1>3, <2>1, <2>2
<1>4. CASE op \in {"disable", "enable"}
  BY <1>4 DEF Changed, Row
<1>5. CASE op \in {"demote", "promote"}
  BY <1>5 DEF Changed, Row
<1>6. CASE op \in Mfas
  <2>1. CASE op = "mfa_setup"
    BY <2>1 DEF Changed, Row
  <2>2. CASE op = "mfa_enable"
    BY <2>2 DEF Changed, Row
  <2>3. CASE op = "mfa_disable"
    BY <2>3 DEF Changed, Row, MfaOff
  <2> QED BY <1>6, <2>1, <2>2, <2>3 DEF Mfas
<1> QED BY <1>1, <1>2, <1>3, <1>4, <1>5, <1>6 DEF Ops, Updates

\* Whatever a process goes on to, the other processes stay as they are.
LEMMA ProcStep ==
  ASSUME TypeOK, NEW p \in Procs, NEW r \in Proc, proc' = [proc EXCEPT ![p] = r]
  PROVE  /\ proc' \in [Procs -> Proc]
         /\ proc'[p] = r
         /\ \A q \in Procs: q # p => proc'[q] = proc[q]
  BY DEF TypeOK

\* A process that is free keeps every part of the invariant, once everything is seeded.
LEMMA FreeStep ==
  ASSUME IInv, NEW p \in Procs, proc' = Free(p),
         seeded', user'["admin"].there,
         UNCHANGED <<user, token, ntoken, access, apikey, nreq, wrong, stale>>
  PROVE  IInv'
<1> DEFINE r == [Starting EXCEPT !.pc = "up"]
<1>1. r \in Proc /\ r.pc = "up"
  BY StartingType DEF Proc
<1>2. /\ proc' \in [Procs -> Proc]
      /\ proc'[p] = r
      /\ \A q \in Procs: q # p => proc'[q] = proc[q]
  BY <1>1, ProcStep DEF IInv, Free
<1> HIDE DEF r
<1>3. TypeOK'
  BY <1>2 DEF IInv, TypeOK
<1>4. StartInv' /\ FlushInv'
  BY <1>1, <1>2 DEF IInv, StartInv, StartOK, FlushInv
<1>5. RequestInv'
  BY <1>1, <1>2 DEF IInv, RequestInv, RequestOK
<1>6. RowInv' /\ TokenInv' /\ LastAdminStays' /\ OldTokensRevoked'
  BY DEF IInv, RowInv, RowOK, TokenInv, LastAdminStays, ActiveAdmins, OldTokensRevoked
<1> QED BY <1>3, <1>4, <1>5, <1>6 DEF IInv

\* Starting up: three attempts are enough, and one process inserts the administrator.
LEMMA StartupInv ==
  ASSUME IInv, NEW p \in Procs, Startup(p)
  PROVE  IInv'
<1> USE DEF IInv
<1>0. proc[p] \in Proc /\ StartOK(p)
  BY DEF TypeOK, StartInv
<1>a. ASSUME NEW r \in Proc, proc' = [proc EXCEPT ![p] = r],
             UNCHANGED <<user, token, ntoken, access, apikey, nreq, wrong, stale>>,
             seeded' \in BOOLEAN, seeded => seeded',
             r.pc \in {"boot", "seed", "find", "insert", "flushed"},
             r.pc \in {"boot", "seed"} /\ r.left < 3 => seeded',
             r.pc = "seed" /\ r.left < 3 => r.found,
             r.pc \notin {"boot", "seed"} => seeded',
             r.pc = "flushed" => /\ ~user["admin"].there
                                 /\ \A q \in Procs: proc[q].pc # "flushed"
      PROVE  IInv'
  <2>1. /\ proc' \in [Procs -> Proc]
        /\ proc'[p] = r
        /\ \A q \in Procs: q # p => proc'[q] = proc[q]
    BY <1>a, ProcStep
  <2>2. TypeOK'
    BY <1>a, <2>1 DEF TypeOK
  <2>3. StartInv'
    BY <1>a, <2>1 DEF StartInv, StartOK
  <2>4. FlushInv'
    BY <1>a, <2>1 DEF FlushInv
  <2>5. RequestInv'
    BY <1>a, <2>1 DEF RequestInv, RequestOK
  <2>6. RowInv' /\ TokenInv' /\ LastAdminStays' /\ OldTokensRevoked'
    BY <1>a DEF RowInv, RowOK, TokenInv, LastAdminStays, ActiveAdmins, OldTokensRevoked
  <2> QED BY <2>2, <2>3, <2>4, <2>5, <2>6
<1>1. CASE SeedRead(p)
  <2> DEFINE r == [proc[p] EXCEPT !.pc = "seed", !.found = seeded]
  <2>1. r \in Proc /\ r.pc = "seed" /\ r.found = seeded /\ r.left = proc[p].left
    BY <1>0 DEF Proc, TypeOK
  <2>2. proc' = [proc EXCEPT ![p] = r]
    BY <1>1 DEF SeedRead, TypeOK
  <2>3. r.left < 3 => seeded
    BY <1>0, <1>1, <2>1 DEF SeedRead, StartOK
  <2> HIDE DEF r
  <2> QED BY <1>1, <1>a, <2>1, <2>2, <2>3 DEF SeedRead, TypeOK
<1>2. CASE SeedCommit(p)
  <2>1. CASE seeded /\ ~proc[p].found
    <3>1. proc[p].left = 3
      BY <1>0, <1>2, <2>1 DEF SeedCommit, StartOK, Proc
    <3> DEFINE r == [proc[p] EXCEPT !.pc = "boot", !.left = @ - 1]
    <3>2. r \in Proc
      <4>1. proc[p].left - 1 \in 1..3
        BY <3>1
      <4> QED BY <1>0, <4>1 DEF Proc
    <3>4. r.pc = "boot"
      BY <1>0 DEF Proc
    <3>3. proc' = [proc EXCEPT ![p] = r]
      <4>1. proc' = [proc EXCEPT ![p].pc = "boot", ![p].left = @ - 1]
        BY <1>2, <2>1, <3>1 DEF SeedCommit
      <4> QED BY <4>1 DEF TypeOK
    <3> HIDE DEF r
    <3> QED BY <1>2, <1>a, <2>1, <3>2, <3>3, <3>4 DEF SeedCommit
  <2>2. CASE ~(seeded /\ ~proc[p].found)
    <3> DEFINE r == [proc[p] EXCEPT !.pc = "find"]
    <3>2. r \in Proc /\ r.pc = "find"
      BY <1>0 DEF Proc
    <3>3. proc' = [proc EXCEPT ![p] = r]
      BY <1>2, <2>2 DEF SeedCommit, Goto, TypeOK
    <3> HIDE DEF r
    <3> QED BY <1>2, <1>a, <2>2, <3>2, <3>3 DEF SeedCommit
  <2> QED BY <2>1, <2>2
<1>3. CASE FindAdmin(p) \/ FlushAdmin(p)
  <2>0. seeded
    BY <1>0, <1>3 DEF FindAdmin, FlushAdmin, StartOK
  <2>1. CASE user["admin"].there
    BY <1>3, <2>0, <2>1, FreeStep DEF FindAdmin, FlushAdmin
  <2>2. CASE ~user["admin"].there /\ FindAdmin(p)
    <3> DEFINE r == [proc[p] EXCEPT !.pc = "insert"]
    <3>2. r \in Proc /\ r.pc = "insert"
      BY <1>0 DEF Proc
    <3>3. proc' = [proc EXCEPT ![p] = r]
      BY <2>2 DEF FindAdmin, Goto, TypeOK
    <3> HIDE DEF r
    <3> QED BY <1>a, <2>0, <2>2, <3>2, <3>3 DEF FindAdmin
  <2>3. CASE ~user["admin"].there /\ FlushAdmin(p)
    <3> DEFINE r == [proc[p] EXCEPT !.pc = "flushed"]
    <3>2. r \in Proc /\ r.pc = "flushed"
      BY <1>0 DEF Proc
    <3>3. proc' = [proc EXCEPT ![p] = r]
      BY <2>3 DEF FlushAdmin, Goto, TypeOK
    <3> HIDE DEF r
    <3> QED BY <1>a, <2>0, <2>3, <3>2, <3>3 DEF FlushAdmin
  <2> QED BY <1>3, <2>1, <2>2, <2>3
<1>4. CASE CommitAdmin(p)
  <2> DEFINE r == [NoUser EXCEPT !.there = TRUE, !.admin = TRUE]
  <2>0. /\ r \in Row
        /\ r.there /\ r.admin /\ r.active /\ r.fails = 0 /\ Regular(r)
    BY StartingType DEF NoUser, Row, Regular
  <2>1. "admin" \in Names /\ user' = [user EXCEPT !["admin"] = r]
    BY <1>4, AccountsAssumption DEF CommitAdmin
  <2> HIDE DEF r
  <2>2. /\ user' \in [Names -> Row]
        /\ user'["admin"] = r
        /\ \A u \in Names: u # "admin" => user'[u] = user[u]
    BY <2>0, <2>1 DEF TypeOK
  <2>3. ~user["admin"].there /\ seeded /\ \A q \in Procs: proc[q].pc = "flushed" => q = p
    BY <1>0, <1>4 DEF CommitAdmin, FlushInv, StartOK
  <2>4. wrong["admin"] = 0 /\ \A i \in 1..MaxTokens: token[i].live => token[i].user # "admin"
    BY <2>1, <2>3 DEF RowInv, RowOK, TokenInv
  <2>5. /\ proc' \in [Procs -> Proc]
        /\ proc'[p] = [Starting EXCEPT !.pc = "up"]
        /\ \A q \in Procs: q # p => proc'[q] = proc[q]
    BY <1>4, StartingType, ProcStep DEF CommitAdmin, Free
  <2>6. proc'[p].pc = "up"
    BY <2>5, StartingType DEF Proc
  <2>7. TypeOK'
    <3>1. \A u \in Names: user'[u].fails < MaxAttempts
      BY <2>0, <2>2, AccountsAssumption DEF TypeOK
    <3> QED BY <1>4, <2>2, <2>5, <3>1 DEF CommitAdmin, TypeOK
  <2>8. StartInv' /\ FlushInv'
    <3>1. seeded' /\ user'["admin"].there
      BY <1>4, <2>0, <2>2, <2>3 DEF CommitAdmin
    <3>2. \A q \in Procs: proc'[q].pc # "flushed"
      BY <2>3, <2>5, <2>6
    <3>3. FlushInv'
      BY <3>2 DEF FlushInv
    <3>4. ASSUME NEW q \in Procs PROVE StartOK(q)'
      <4>1. CASE q = p
        BY <2>6, <3>1, <4>1 DEF StartOK
      <4>2. CASE q # p
        BY <1>0, <2>5, <3>1, <4>2 DEF StartInv, StartOK
      <4> QED BY <4>1, <4>2
    <3> QED BY <3>3, <3>4 DEF StartInv
  <2>9. RowInv' /\ TokenInv'
    BY <1>4, <2>0, <2>1, <2>2, <2>4 DEF CommitAdmin, RowInv, RowOK, TokenInv, TypeOK
  <2>10. RequestInv'
    <3> SUFFICES ASSUME NEW q \in Procs PROVE RequestOK(q)'
      BY DEF RequestInv
    <3>1. CASE q = p
      BY <2>6, <3>1 DEF RequestOK
    <3>2. CASE q # p
      <4>1. proc'[q] = proc[q] /\ RequestOK(q) /\ proc[q].u \in Names /\ stale' = stale
        BY <1>4, <2>5, <3>2 DEF RequestInv, TypeOK, Proc, CommitAdmin
      <4>2. user[proc[q].u].there => user'[proc[q].u].there
        BY <2>0, <2>2, <4>1
      <4> QED BY <4>1, <4>2 DEF RequestOK
    <3> QED BY <3>1, <3>2
  <2>11. LastAdminStays'
    BY <2>0, <2>1, <2>2 DEF LastAdminStays, ActiveAdmins
  <2>12. OldTokensRevoked'
    BY <1>4, <2>2, <2>4 DEF CommitAdmin, OldTokensRevoked, TypeOK
  <2> QED BY <2>7, <2>8, <2>9, <2>10, <2>11, <2>12
<1> QED BY <1>1, <1>2, <1>3, <1>4 DEF Startup

\* A request that passes its checks holds the row as it is, and somebody else can
\* administer if it is about to take an administrator away.
LEMMA BeginInv ==
  ASSUME IInv, NEW p \in Procs, NEW op \in Inputs \ {"api"}, NEW u \in Names,
         NEW ok \in BOOLEAN, Begin(p, op, u, ok)
  PROVE  IInv'
<1> USE DEF IInv
<1>0. proc[p] \in Proc /\ StartOK(p) /\ RowOK(u) /\ user[u] \in Row /\ op \in Ops
  BY AccountsAssumption DEF TypeOK, StartInv, RowInv, Ops, Updates, Mfas
<1> DEFINE others == IF op \in Updates THEN ActiveAdmins \ {u} ELSE {}
           r == [proc[p] EXCEPT !.pc = "busy", !.op = op, !.u = u, !.ok = ok, !.row = user[u],
                                !.others = others]
<1>1. others \in SUBSET Names
  BY DEF ActiveAdmins
<1>2. r \in Proc
  BY <1>0, <1>1 DEF Proc
<1>3. /\ r.pc = "busy" /\ r.op = op /\ r.u = u
      /\ r.row = user[u] /\ r.others = others
  BY <1>0 DEF Proc
<1>4. proc' = [proc EXCEPT ![p] = r]
  BY DEF Begin
<1>5. /\ May(op, u, ok) /\ proc[p].pc = "up" /\ nreq < MaxRequests /\ nreq' = nreq + 1
      /\ UNCHANGED <<seeded, user, token, ntoken, access, apikey, wrong, stale>>
  BY DEF Begin
<1> HIDE DEF r
<1>6. /\ proc' \in [Procs -> Proc]
      /\ proc'[p] = r
      /\ \A q \in Procs: q # p => proc'[q] = proc[q]
  BY <1>2, <1>4, ProcStep
<1>7. TypeOK'
  <2>1. nreq' \in 0..MaxRequests
    BY <1>5, AccountsAssumption DEF TypeOK
  <2> QED BY <1>5, <1>6, <2>1 DEF TypeOK
<1>8. StartInv' /\ FlushInv'
  BY <1>0, <1>3, <1>5, <1>6 DEF StartInv, StartOK, FlushInv
<1>9. RowInv' /\ TokenInv' /\ LastAdminStays' /\ OldTokensRevoked'
  BY <1>5 DEF RowInv, RowOK, TokenInv, LastAdminStays, ActiveAdmins, OldTokensRevoked
<1>10. op = "create" => user[u] = NoUser
  <2>1. CASE op = "create"
    BY <1>0, <1>5, <2>1 DEF May, RowOK, Updates
  <2> QED BY <2>1
<1>11. op # "create" => user[u].there
  <2>1. CASE op = "login" \/ op \in Updates
    BY <1>5, <2>1 DEF May, Updates
  <2>2. CASE op = "password" \/ op \in Mfas
    <3>1. u \in access \cup apikey
      BY <1>5, <2>2 DEF May, Updates, Mfas, CurrentUser
    <3> QED BY <3>1 DEF TokenInv
  <2> QED BY <1>0, <2>1, <2>2 DEF Ops
<1>12. u \notin stale => Regular(user[u]) /\ (op = "login" => user[u].until # "on")
  <2>1. op = "login" => ~Locked(user[u])
    <3>1. CASE op = "login"
      BY <1>5, <3>1 DEF May, Updates
    <3> QED BY <3>1
  <2> QED BY <1>0, <2>1 DEF RowOK, Regular, Locked
<1>13. op \in {"disable", "demote"} /\ user[u].admin /\ user[u].active => others # {}
  <2> SUFFICES ASSUME op \in {"disable", "demote"}, user[u].admin, user[u].active
               PROVE  others # {}
    OBVIOUS
  <2>1. user[u].there /\ MayUpdate(op, u) /\ op \in Updates
    BY <1>5 DEF May, Updates
  <2>2. u \in ActiveAdmins
    BY <2>1 DEF ActiveAdmins
  <2>3. ActiveAdmins # {u}
    BY <2>1, <2>2 DEF MayUpdate
  <2> QED BY <2>1, <2>2, <2>3
<1>14. RequestInv'
  <2> SUFFICES ASSUME NEW q \in Procs PROVE RequestOK(q)'
    BY DEF RequestInv
  <2>1. CASE q = p
    <3> HIDE DEF others
    <3> QED BY <1>0, <1>3, <1>5, <1>6, <1>10, <1>11, <1>12, <1>13, <2>1 DEF RequestOK
  <2>2. CASE q # p
    BY <1>5, <1>6, <2>2 DEF RequestInv, RequestOK
  <2> QED BY <2>1, <2>2
<1> QED BY <1>7, <1>8, <1>9, <1>14

\* The tokens, the API tokens and the clock
LEMMA TokenSteps ==
  ASSUME IInv,
         \/ \E i \in 1..MaxTokens: Refresh(i) \/ Logout(i)
         \/ \E u \in Names: \/ CreateApiToken(u) \/ ApiTokenEnds(u) \/ AccessExpires(u)
                            \/ LockoutPasses(u)
  PROVE  IInv'
<1> USE DEF IInv
<1>1. ASSUME NEW i \in 1..MaxTokens, Refresh(i) PROVE IInv'
  <2>1. token[i].user \in Names /\ user[token[i].user].there
    BY <1>1 DEF Refresh, TokenInv, TypeOK
  <2>2. TypeOK' /\ TokenInv'
    BY <1>1, <2>1 DEF Refresh, TypeOK, TokenInv
  <2>3. StartInv' /\ FlushInv' /\ RowInv' /\ RequestInv' /\ LastAdminStays' /\ OldTokensRevoked'
    BY <1>1 DEF Refresh, StartInv, StartOK, FlushInv, RowInv, RowOK, RequestInv, RequestOK,
                LastAdminStays, ActiveAdmins, OldTokensRevoked
  <2> QED BY <2>2, <2>3
<1>2. ASSUME NEW i \in 1..MaxTokens, Logout(i) PROVE IInv'
  <2>0. token' \in [1..MaxTokens -> [user: Names, pw: Nat, live: BOOLEAN]]
    BY <1>2 DEF Logout, TypeOK
  <2>1. \A j \in 1..MaxTokens:
          /\ token'[j].live => token[j].live
          /\ token'[j].user = token[j].user /\ token'[j].pw = token[j].pw
    BY <1>2 DEF Logout, TypeOK
  <2>2. TypeOK'
    BY <1>2, <2>0 DEF Logout, TypeOK
  <2>4. TokenInv' /\ OldTokensRevoked'
    BY <1>2, <2>1 DEF Logout, TokenInv, OldTokensRevoked
  <2>3. StartInv' /\ FlushInv' /\ RowInv' /\ RequestInv' /\ LastAdminStays'
    BY <1>2 DEF Logout, StartInv, StartOK, FlushInv, RowInv, RowOK, RequestInv, RequestOK,
                LastAdminStays, ActiveAdmins
  <2> QED BY <2>2, <2>3, <2>4
<1>3. ASSUME NEW u \in Names, CreateApiToken(u) \/ ApiTokenEnds(u) \/ AccessExpires(u) PROVE IInv'
  <2>1. CreateApiToken(u) => user[u].there
    BY DEF CreateApiToken, CurrentUser, TokenInv
  <2>2. TypeOK' /\ TokenInv'
    BY <1>3, <2>1 DEF CreateApiToken, ApiTokenEnds, AccessExpires, TypeOK, TokenInv
  <2>3. StartInv' /\ FlushInv' /\ RowInv' /\ RequestInv' /\ LastAdminStays' /\ OldTokensRevoked'
    BY <1>3 DEF CreateApiToken, ApiTokenEnds, AccessExpires, StartInv, StartOK, FlushInv, RowInv,
                RowOK, RequestInv, RequestOK, LastAdminStays, ActiveAdmins, OldTokensRevoked
  <2> QED BY <2>2, <2>3
<1>4. ASSUME NEW u \in Names, LockoutPasses(u) PROVE IInv'
  <2> DEFINE r == [user[u] EXCEPT !.until = "over"]
  <2>0. user[u] \in Row /\ user[u].until = "on"
    BY <1>4 DEF TypeOK, LockoutPasses
  <2>1. /\ r \in Row /\ r.until = "over" /\ r.there = user[u].there /\ r.admin = user[u].admin
        /\ r.active = user[u].active /\ r.fails = user[u].fails /\ r.locked = user[u].locked
        /\ r.pw = user[u].pw /\ r.must = user[u].must
    BY <2>0 DEF Row
  <2>2. user' = [user EXCEPT ![u] = r]
    BY <1>4 DEF LockoutPasses
  <2> HIDE DEF r
  <2>3. /\ user' \in [Names -> Row] /\ user'[u] = r
        /\ \A v \in Names: v # u => user'[v] = user[v]
    BY <2>1, <2>2 DEF TypeOK
  <2>4. \A v \in Names:
          /\ user'[v].there = user[v].there /\ user'[v].admin = user[v].admin
          /\ user'[v].active = user[v].active /\ user'[v].fails = user[v].fails
          /\ user'[v].pw = user[v].pw /\ user'[v].must = user[v].must
    BY <2>1, <2>3
  <2>5. TypeOK'
    BY <1>4, <2>3, <2>4 DEF LockoutPasses, TypeOK
  <2>6. StartInv' /\ FlushInv' /\ RequestInv'
    <3>1. \A q \in Procs: proc[q].u \in Names
      BY DEF TypeOK, Proc
    <3> QED BY <1>4, <2>4, <3>1, AccountsAssumption DEF LockoutPasses, StartInv, StartOK,
               FlushInv, RequestInv, RequestOK
  <2>7. RowInv'
    <3>1. user[u].there
      BY <2>0 DEF RowInv, RowOK, NoUser
    <3> QED BY <1>4, <2>0, <2>1, <2>3, <3>1 DEF LockoutPasses, RowInv, RowOK, Regular
  <2>8. ActiveAdmins' = ActiveAdmins
    BY <2>4 DEF ActiveAdmins
  <2>9. TokenInv' /\ LastAdminStays' /\ OldTokensRevoked'
    BY <1>4, <2>4, <2>8, AccountsAssumption DEF LockoutPasses, TokenInv, LastAdminStays,
       OldTokensRevoked, TypeOK
  <2> QED BY <2>5, <2>6, <2>7, <2>9
<1> QED BY <1>1, <1>2, <1>3, <1>4

\* Two rows that agree but for the end of the lock
LEMMA TimelessRows ==
  ASSUME NEW a \in Row, NEW b \in Row,
         [a EXCEPT !.until = "none"] = [b EXCEPT !.until = "none"]
  PROVE  /\ a.there = b.there /\ a.admin = b.admin /\ a.active = b.active
         /\ a.fails = b.fails /\ a.locked = b.locked /\ a.pw = b.pw /\ a.must = b.must
<1> DEFINE x == [a EXCEPT !.until = "none"]
           y == [b EXCEPT !.until = "none"]
<1>1. /\ x.there = a.there /\ x.admin = a.admin /\ x.active = a.active
      /\ x.fails = a.fails /\ x.locked = a.locked /\ x.pw = a.pw /\ x.must = a.must
  BY DEF Row
<1>2. /\ y.there = b.there /\ y.admin = b.admin /\ y.active = b.active
      /\ y.fails = b.fails /\ y.locked = b.locked /\ y.pw = b.pw /\ y.must = b.must
  BY DEF Row
<1>3. x = y
  OBVIOUS
<1> HIDE DEF x, y
<1> QED BY <1>1, <1>2, <1>3

\* What a commit writes: a row, of a user that is there, and the request's decision
\* where nobody has come between.
LEMMA CommitRow ==
  ASSUME IInv, NEW p \in Procs, Commit(p)
  PROVE  LET s == proc[p]
             w == Changed(s.row, s.op, s.ok, nreq)
             now == user[s.u]
             new == user'[s.u]
         IN
         /\ user' \in [Names -> Row]
         /\ \A v \in Names: v # s.u => user'[v] = user[v]
         /\ w \in Row /\ new = Merged(s.row, w, now)
         /\ new.there
         /\ new.fails < MaxAttempts
<1> USE DEF IInv
<1> DEFINE s == proc[p]
           w == Changed(s.row, s.op, s.ok, nreq)
           now == user[s.u]
           m == Merged(s.row, w, now)
<1>1. /\ s \in Proc /\ s.u \in Names /\ s.row \in Row /\ s.ok \in BOOLEAN
      /\ now \in Row /\ now.fails < MaxAttempts /\ nreq \in Nat
  BY AccountsAssumption DEF TypeOK, Proc
<1>2. s.pc = "busy" /\ RequestOK(p) /\ s.op \in Ops
  BY DEF Commit, RequestInv, RequestOK
<1>3. w \in Row /\ (w.fails = s.row.fails \/ w.fails < MaxAttempts)
      /\ (s.op # "create" => w.there = s.row.there)
      /\ (s.op = "create" => w.there)
  <2>1. [NoUser EXCEPT !.there = TRUE, !.pw = nreq, !.admin = s.ok].there = TRUE
    BY DEF NoUser
  <2>2. /\ w \in Row
        /\ w.fails = s.row.fails \/ w.fails < MaxAttempts
        /\ s.op # "create" => w.there = s.row.there
        /\ s.op = "create" => w = [NoUser EXCEPT !.there = TRUE, !.pw = nreq, !.admin = s.ok]
    <3>1. Wanted(s.row, s.op, s.ok, nreq)
      BY <1>1, <1>2, ChangedColumns
    <3> QED BY <3>1 DEF Wanted
  <2> HIDE DEF w
  <2> QED BY <2>1, <2>2
<1> HIDE DEF w
<1>4. m \in Row
  BY <1>1, <1>3 DEF Merged, Column, Row
<1>5. m.fails < MaxAttempts
  BY <1>1, <1>3 DEF Merged, Column
<1>6. m.there
  <2>1. m.there = IF w.there = s.row.there THEN now.there ELSE w.there
    BY DEF Merged, Column
  <2>2. s.op = "create" => s.row.there = FALSE
    BY <1>2 DEF RequestOK, NoUser
  <2>3. s.op # "create" => now.there
    BY <1>2 DEF RequestOK
  <2> QED BY <1>1, <1>3, <2>1, <2>2, <2>3
<1>7. user' = [user EXCEPT ![s.u] = m]
  BY DEF Commit, w
<1> HIDE DEF m
<1>8. user' \in [Names -> Row] /\ user'[s.u] = m /\ \A v \in Names: v # s.u => user'[v] = user[v]
  BY <1>1, <1>4, <1>7 DEF TypeOK
<1> QED BY <1>3, <1>5, <1>6, <1>8 DEF w, m

\* A commit where nobody has come between keeps the row regular, the counter exact,
\* an administrator, and the password of whoever must not change it.
LEMMA FreshRow ==
  ASSUME IInv, NEW p \in Procs, Commit(p), Fresh(p), proc[p].u \notin stale
  PROVE  LET s == proc[p]
             now == user[s.u]
             new == user'[s.u]
         IN
         /\ Regular(new)
         /\ wrong'[s.u] = new.fails
         /\ s.op = "password" \/ new.pw = now.pw \/ new.must
         /\ new.must \/ ~now.must \/ s.op = "password"
         /\ now.there /\ now.admin /\ now.active =>
              \/ new.admin /\ new.active
              \/ s.op \in {"disable", "demote"} /\ s.row.admin /\ s.row.active
<1> USE DEF IInv
<1> DEFINE s == proc[p]
           r == s.row
           w == Changed(s.row, s.op, s.ok, nreq)
           now == user[s.u]
           new == user'[s.u]
<1>1. /\ s \in Proc /\ s.u \in Names /\ r \in Row /\ s.ok \in BOOLEAN
      /\ now \in Row /\ nreq \in Nat
  BY AccountsAssumption DEF TypeOK, Proc
<1>2. s.pc = "busy" /\ RequestOK(p) /\ RowOK(s.u) /\ s.op \in Ops
  BY <1>1 DEF Commit, RequestInv, RequestOK, RowInv
<1>3. /\ now.there = r.there /\ now.admin = r.admin /\ now.active = r.active
      /\ now.fails = r.fails /\ now.locked = r.locked /\ now.pw = r.pw /\ now.must = r.must
  BY <1>1, TimelessRows DEF Fresh
<1>4. w \in Row /\ new = Merged(r, w, now)
  BY CommitRow
<1>5. wrong[s.u] = now.fails /\ Regular(now) /\ Regular(r)
      /\ (s.op = "login" => r.until # "on")
  BY <1>1, <1>2 DEF RowOK, RequestOK
<1>6. wrong'[s.u] = IF s.op # "login" THEN wrong[s.u]
                    ELSE IF s.ok \/ w.until = "on" THEN 0 ELSE wrong[s.u] + 1
  BY <1>1 DEF Commit, TypeOK
<1>7. /\ new.admin = w.admin /\ new.active = w.active /\ new.fails = w.fails
      /\ new.locked = w.locked /\ new.pw = w.pw /\ new.must = w.must
      /\ new.until = Column(r.until, w.until, now.until)
  BY <1>3, <1>4 DEF Merged, Column
<1> HIDE DEF new
<1>8. CASE s.op = "login"
  <2>1. w = IF s.ok THEN [r EXCEPT !.fails = 0, !.locked = FALSE, !.until = "none"] ELSE Failed(r)
    BY <1>8 DEF Changed
  <2> HIDE DEF w
  <2>2. w.pw = r.pw /\ w.must = r.must /\ w.admin = r.admin /\ w.active = r.active
    BY <1>1, <2>1 DEF Failed, Row
  <2>3. CASE s.ok
    <3>1. w.fails = 0 /\ w.locked = FALSE /\ w.until = "none"
      BY <1>1, <2>1, <2>3 DEF Row
    <3> QED BY <1>3, <1>5, <1>6, <1>7, <1>8, <2>2, <2>3, <3>1 DEF Regular, Column, new
  <2>4. CASE ~s.ok /\ r.fails + 1 >= MaxAttempts
    <3>1. w.fails = 0 /\ w.locked = TRUE /\ w.until = "on"
      BY <1>1, <2>1, <2>4 DEF Row, Failed
    <3> QED BY <1>3, <1>5, <1>6, <1>7, <1>8, <2>2, <2>4, <3>1 DEF Regular, Column, new
  <2>5. CASE ~s.ok /\ ~(r.fails + 1 >= MaxAttempts)
    <3>1. w.fails = r.fails + 1 /\ w.locked = r.locked /\ w.until = r.until
      BY <1>1, <2>1, <2>5 DEF Row, Failed
    <3> QED BY <1>3, <1>5, <1>6, <1>7, <1>8, <2>2, <2>5, <3>1 DEF Regular, Column, new
  <2> QED BY <2>3, <2>4, <2>5
<1>9. CASE s.op = "create"
  <2>1. w = [NoUser EXCEPT !.there = TRUE, !.pw = nreq, !.admin = s.ok]
    BY <1>9 DEF Changed
  <2>2. ~now.there /\ now = NoUser
    BY <1>2, <1>9 DEF Commit, RowOK
  <2>3. r = NoUser
    BY <1>2, <1>9 DEF RequestOK
  <2>4. /\ w.fails = 0 /\ w.locked = FALSE /\ w.until = "none" /\ w.must = TRUE
        /\ now.until = "none" /\ now.fails = 0
    BY <2>1, <2>2 DEF NoUser
  <2> HIDE DEF w
  <2> QED BY <1>5, <1>6, <1>7, <1>9, <2>2, <2>4 DEF Regular, Column, new
<1>10. CASE s.op \notin {"login", "create"}
  <2>1. /\ w.admin = r.admin \/ s.op = "demote" \/ (s.op = "promote" /\ w.admin)
        /\ w.active = r.active \/ s.op = "disable" \/ (s.op = "enable" /\ w.active)
        /\ s.op \notin {"password", "reset"} => w.pw = r.pw /\ w.must = r.must
        /\ s.op = "reset" => w.must
        /\ w.fails = r.fails /\ w.locked = r.locked /\ w.until = r.until
    <3>1. /\ w.admin = r.admin \/ s.op \in {"demote", "promote"}
          /\ s.op = "promote" => w.admin
          /\ w.active = r.active \/ s.op \in {"disable", "enable"}
          /\ s.op = "enable" => w.active
          /\ s.op \notin {"password", "reset"} => w.pw = r.pw /\ w.must = r.must
          /\ s.op = "reset" => w.must
          /\ s.op # "login" => w.fails = r.fails /\ w.locked = r.locked /\ w.until = r.until
      <4>1. Wanted(s.row, s.op, s.ok, nreq)
        BY <1>1, <1>2, ChangedColumns
      <4> QED BY <1>10, <4>1 DEF Wanted
    <3> HIDE DEF w
    <3> QED BY <1>10, <3>1
  <2> HIDE DEF w
  <2>2. Regular(new) /\ wrong'[s.u] = new.fails
    BY <1>3, <1>5, <1>6, <1>7, <1>10, <2>1 DEF Regular, Column
  <2>3. /\ s.op = "password" \/ new.pw = now.pw \/ new.must
        /\ new.must \/ ~now.must \/ s.op = "password"
    BY <1>3, <1>7, <2>1
  <2>4. now.there /\ now.admin /\ now.active =>
              \/ new.admin /\ new.active
              \/ s.op \in {"disable", "demote"} /\ s.row.admin /\ s.row.active
    BY <1>3, <1>7, <2>1
  <2> QED BY <2>2, <2>3, <2>4 DEF new
<1> QED BY <1>8, <1>9, <1>10 DEF new

\* A commit: a stale one marks its user, any other keeps what it decided on.
LEMMA CommitInv ==
  ASSUME IInv, NEW p \in Procs, Commit(p)
  PROVE  IInv'
<1> USE DEF IInv
<1> DEFINE s == proc[p]
           u == s.u
<1>1. /\ s \in Proc /\ u \in Names /\ s.row \in Row
      /\ s.pc = "busy" /\ RequestOK(p) /\ StartOK(p) /\ RowOK(u)
  BY DEF TypeOK, Proc, Commit, RequestInv, StartInv, RowInv
<1>2. /\ user' \in [Names -> Row]
      /\ \A v \in Names: v # u => user'[v] = user[v]
      /\ user'[u].there /\ user'[u].fails < MaxAttempts
  BY CommitRow
<1>3. /\ stale' = IF Fresh(p) THEN stale ELSE stale \cup {u}
      /\ token' = IF s.op = "password" THEN Revoked(u) ELSE token
      /\ UNCHANGED <<seeded, ntoken, access, apikey, nreq>>
  BY DEF Commit
<1>4. /\ wrong' \in [Names -> Nat]
      /\ \A v \in Names: v # u => wrong'[v] = wrong[v]
  <2>1. CASE s.op # "login"
    BY <2>1 DEF Commit, TypeOK
  <2>2. CASE s.op = "login"
    <3> DEFINE n == IF s.ok \/ Changed(s.row, s.op, s.ok, nreq).until = "on" THEN 0 ELSE wrong[u] + 1
    <3>1. n \in Nat
      BY <1>1 DEF TypeOK
    <3>2. wrong' = [wrong EXCEPT ![u] = n]
      BY <1>1, <2>2 DEF Commit, TypeOK
    <3> HIDE DEF n
    <3> QED BY <1>1, <3>1, <3>2 DEF TypeOK
  <2> QED BY <2>1, <2>2
<1>5. /\ token' \in [1..MaxTokens -> [user: Names, pw: Nat, live: BOOLEAN]]
      /\ \A i \in 1..MaxTokens:
           /\ token'[i].user = token[i].user /\ token'[i].pw = token[i].pw
           /\ token'[i].live => token[i].live
           /\ s.op = "password" /\ token[i].user = u => ~token'[i].live
  BY <1>3 DEF Revoked, TypeOK
<1>6. PICK r \in Proc: /\ proc' = [proc EXCEPT ![p] = r]
                       /\ r.pc = "up" \/ (r.pc = "issue" /\ r.op = "login" /\ r.u = u)
  <2>1. CASE s.op = "login" /\ s.ok
    <3> DEFINE r == [s EXCEPT !.pc = "issue", !.row = user'[u]]
    <3>1. r \in Proc /\ r.pc = "issue" /\ r.op = "login" /\ r.u = u
      BY <1>1, <1>2, <2>1 DEF Proc
    <3>2. proc' = [proc EXCEPT ![p] = r]
      <4>1. proc' = [proc EXCEPT ![p].pc = "issue", ![p].row = user'[s.u]]
        BY <2>1 DEF Commit
      <4> QED BY <4>1 DEF TypeOK
    <3> QED BY <3>1, <3>2
  <2>2. CASE ~(s.op = "login" /\ s.ok)
    <3> DEFINE r == [Starting EXCEPT !.pc = "up"]
    <3>1. r \in Proc /\ r.pc = "up"
      BY StartingType DEF Proc
    <3>2. proc' = [proc EXCEPT ![p] = r]
      BY <2>2 DEF Commit, Free
    <3> QED BY <3>1, <3>2
  <2> QED BY <2>1, <2>2
<1>7. /\ proc' \in [Procs -> Proc]
      /\ proc'[p] = r
      /\ \A q \in Procs: q # p => proc'[q] = proc[q]
  BY <1>6, ProcStep
<1>8. \A v \in Names: user[v].there => user'[v].there
  BY <1>2
<1>9. TypeOK'
  <2>1. \A v \in Names: user'[v].fails < MaxAttempts
    BY <1>2 DEF TypeOK
  <2>2. stale' \subseteq Names
    BY <1>1, <1>3 DEF TypeOK
  <2> QED BY <1>2, <1>3, <1>4, <1>5, <1>7, <2>1, <2>2 DEF TypeOK
<1>10. user["admin"].there /\ user'["admin"].there /\ seeded
  BY <1>1, <1>8, AccountsAssumption DEF StartOK
<1>11. StartInv' /\ FlushInv'
  BY <1>3, <1>6, <1>7, <1>10 DEF StartInv, StartOK, FlushInv
<1>12. RowInv'
  <2> SUFFICES ASSUME NEW v \in Names PROVE RowOK(v)'
    BY DEF RowInv
  <2>1. CASE v = u
    <3>1. u \notin stale' => Fresh(p) /\ u \notin stale
      BY <1>3
    <3>2. u \notin stale' => Regular(user'[u]) /\ wrong'[u] = user'[u].fails
      BY <3>1, FreshRow
    <3> QED BY <1>2, <2>1, <3>2 DEF RowOK, Regular
  <2>2. CASE v # u
    BY <1>2, <1>3, <1>4, <2>2 DEF RowInv, RowOK, Regular
  <2> QED BY <2>1, <2>2
<1>13. RequestInv'
  <2> SUFFICES ASSUME NEW q \in Procs PROVE RequestOK(q)'
    BY DEF RequestInv
  <2>1. CASE q = p
    BY <1>2, <1>6, <1>7, <2>1 DEF RequestOK
  <2>2. CASE q # p
    <3>1. proc'[q] = proc[q] /\ RequestOK(q) /\ proc[q].u \in Names
      BY <1>7, <2>2 DEF RequestInv, TypeOK, Proc
    <3>2. proc[q].u \notin stale' => proc[q].u \notin stale
      BY <1>3
    <3>3. user[proc[q].u].there => user'[proc[q].u].there
      BY <1>8, <3>1
    <3> QED BY <3>1, <3>2, <3>3 DEF RequestOK
  <2> QED BY <2>1, <2>2
<1>14. TokenInv'
  <2>1. \A i \in 1..MaxTokens: token[i].user \in Names
    BY DEF TypeOK
  <2> QED BY <1>3, <1>5, <1>8, <2>1 DEF TokenInv, TypeOK
<1>15. LastAdminStays'
  <2> SUFFICES ASSUME stale' = {} PROVE ActiveAdmins' # {}
    BY DEF LastAdminStays
  <2>1. Fresh(p) /\ stale = {}
    BY <1>3
  <2>2. PICK a \in Names: user[a].there /\ user[a].admin /\ user[a].active
    BY <1>10, <2>1 DEF LastAdminStays, ActiveAdmins
  <2>3. CASE a # u
    BY <1>2, <2>2, <2>3 DEF ActiveAdmins
  <2>4. CASE a = u
    <3>1. \/ user'[u].admin /\ user'[u].active
          \/ s.op \in {"disable", "demote"} /\ s.row.admin /\ s.row.active
      BY <2>1, <2>2, <2>4, FreshRow
    <3>2. CASE user'[u].admin /\ user'[u].active
      BY <1>1, <1>2, <3>2 DEF ActiveAdmins
    <3>3. CASE s.op \in {"disable", "demote"} /\ s.row.admin /\ s.row.active
      <4>1. s.others # {}
        BY <1>1, <3>3 DEF RequestOK
      <4>2. s.others = ActiveAdmins \ {u}
        BY <2>1, <3>3 DEF Fresh, Updates
      <4>3. PICK b \in Names: b # u /\ user[b].there /\ user[b].admin /\ user[b].active
        BY <4>1, <4>2 DEF ActiveAdmins
      <4> QED BY <1>2, <4>3 DEF ActiveAdmins
    <3> QED BY <3>1, <3>2, <3>3
  <2> QED BY <2>3, <2>4
<1>16. OldTokensRevoked'
  <2> SUFFICES ASSUME NEW i \in 1..MaxTokens, token'[i].live, token'[i].user \notin stale'
               PROVE  token'[i].pw = user'[token'[i].user].pw \/ user'[token'[i].user].must
    BY DEF OldTokensRevoked
  <2>1. /\ token[i].user \in Names /\ token'[i].user = token[i].user
        /\ token'[i].pw = token[i].pw /\ token[i].live
        /\ token[i].user \notin stale
    BY <1>3, <1>5 DEF TypeOK
  <2>2. token[i].pw = user[token[i].user].pw \/ user[token[i].user].must
    BY <2>1 DEF OldTokensRevoked
  <2>3. CASE token[i].user # u
    BY <1>2, <2>1, <2>2, <2>3
  <2>4. CASE token[i].user = u
    <3>1. Fresh(p) /\ s.op # "password"
      BY <1>3, <1>5, <2>1, <2>4
    <3>2. /\ user'[u].pw = user[u].pw \/ user'[u].must
          /\ user'[u].must \/ ~user[u].must
      BY <2>1, <2>4, <3>1, FreshRow
    <3> QED BY <2>1, <2>2, <2>4, <3>2
  <2> QED BY <2>3, <2>4
<1> QED BY <1>9, <1>11, <1>12, <1>13, <1>14, <1>15, <1>16

\* A login hands out tokens for the password it has checked.
LEMMA IssueInv ==
  ASSUME IInv, NEW p \in Procs, IssueTokens(p)
  PROVE  IInv'
<1> USE DEF IInv
<1> DEFINE s == proc[p]
           u == s.u
           t == [user |-> u, pw |-> s.row.pw, live |-> TRUE]
           r == [Starting EXCEPT !.pc = "up"]
<1>1. /\ s \in Proc /\ u \in Names /\ s.row \in Row /\ s.row.pw \in Nat
      /\ s.pc = "issue" /\ user[u].there /\ seeded /\ user["admin"].there
  BY DEF TypeOK, Proc, Row, IssueTokens, RequestInv, RequestOK, StartInv, StartOK
<1>2. ntoken' \in 0..MaxTokens /\ ntoken + 1 \in 1..MaxTokens
  BY AccountsAssumption DEF IssueTokens, TypeOK
<1>3. /\ token' = [token EXCEPT ![ntoken + 1] = t]
      /\ access' = access \cup {u}
      /\ stale' = IF Fresh(p) THEN stale ELSE stale \cup {u}
      /\ UNCHANGED <<seeded, user, apikey, nreq, wrong>>
  BY DEF IssueTokens
<1>4. t \in [user: Names, pw: Nat, live: BOOLEAN] /\ t.user = u /\ t.pw = s.row.pw
  BY <1>1
<1>5. r \in Proc /\ r.pc = "up"
  BY StartingType DEF Proc
<1>6. proc' = [proc EXCEPT ![p] = r]
  BY DEF IssueTokens, Free
<1> HIDE DEF t, r
<1>7. /\ proc' \in [Procs -> Proc]
      /\ proc'[p] = r
      /\ \A q \in Procs: q # p => proc'[q] = proc[q]
  BY <1>5, <1>6, ProcStep
<1>8. /\ token' \in [1..MaxTokens -> [user: Names, pw: Nat, live: BOOLEAN]]
      /\ token'[ntoken + 1] = t
      /\ \A i \in 1..MaxTokens: i # ntoken + 1 => token'[i] = token[i]
  BY <1>2, <1>3, <1>4 DEF TypeOK
<1>9. TypeOK'
  <2>1. access' \subseteq Names /\ stale' \subseteq Names
    BY <1>1, <1>3 DEF TypeOK
  <2> QED BY <1>2, <1>3, <1>7, <1>8, <2>1 DEF TypeOK
<1>10. StartInv' /\ FlushInv'
  BY <1>1, <1>3, <1>5, <1>7 DEF StartInv, StartOK, FlushInv
<1>11. RowInv'
  BY <1>3 DEF RowInv, RowOK
<1>12. RequestInv'
  BY <1>3, <1>5, <1>7 DEF RequestInv, RequestOK
<1>13. TokenInv'
  BY <1>1, <1>3, <1>4, <1>8 DEF TokenInv
<1>14. LastAdminStays'
  BY <1>3 DEF LastAdminStays, ActiveAdmins
<1>15. OldTokensRevoked'
  <2> SUFFICES ASSUME NEW i \in 1..MaxTokens, token'[i].live, token'[i].user \notin stale'
               PROVE  token'[i].pw = user'[token'[i].user].pw \/ user'[token'[i].user].must
    BY DEF OldTokensRevoked
  <2>1. CASE i = ntoken + 1
    <3>1. Fresh(p)
      BY <1>3, <1>4, <1>8, <2>1
    <3>2. user[u] \in Row
      BY <1>1 DEF TypeOK
    <3>3. user[u].pw = s.row.pw
      BY <1>1, <3>1, <3>2, TimelessRows DEF Fresh
    <3> QED BY <1>3, <1>4, <1>8, <2>1, <3>3
  <2>2. CASE i # ntoken + 1
    BY <1>3, <1>8, <2>2 DEF OldTokensRevoked
  <2> QED BY <2>1, <2>2
<1> QED BY <1>9, <1>10, <1>11, <1>12, <1>13, <1>14, <1>15

\* Every step keeps the invariant.
LEMMA NextInv == IInv /\ [Next]_vars => IInv'
<1> SUFFICES ASSUME IInv, [Next]_vars PROVE IInv'
  OBVIOUS
<1>1. ASSUME NEW p \in Procs, CreateCollides(p) \/ MfaFails(p) PROVE IInv'
  <2>1. seeded /\ user["admin"].there
    BY <1>1 DEF IInv, StartInv, StartOK, CreateCollides, MfaFails
  <2> QED BY <1>1, <2>1, FreeStep DEF CreateCollides, MfaFails
<1>2. CASE UNCHANGED vars
  BY <1>2 DEF vars, IInv, TypeOK, StartInv, StartOK, FlushInv, RowInv, RowOK, RequestInv,
     RequestOK, TokenInv, LastAdminStays, ActiveAdmins, OldTokensRevoked
<1> QED BY <1>1, <1>2, StartupInv, BeginInv, CommitInv, IssueInv, TokenSteps DEF Next

\* The invariant is one.
LEMMA Invariance == Spec => []IInv
  BY InitInv, NextInv, PTL DEF Spec

----------------------------------------------------------------------------

\* Tables and processes hold values of their kinds, and no failure counter reaches
\* max_login_attempts.
THEOREM TypeCorrect == Spec => []TypeOK
  BY Invariance, PTL DEF IInv

\* However many processes start at once, none serves a request before the roles, the
\* settings and the administrator are there: the third attempt is never needed.
THEOREM SeedingEnds == Spec => []StartupSeeds
<1>1. IInv => StartupSeeds
  BY DEF IInv, StartInv, StartOK, StartupSeeds
<1> QED BY <1>1, Invariance, PTL

\* As long as no request decided on a row or a count that was no longer true, there is
\* an active administrator: the check in update_user is enough for every sequence of
\* requests.
THEOREM LastAdministrator == Spec => []LastAdminStays
  BY Invariance, PTL DEF IInv

\* A user no stale request has written is locked by the last of max_login_attempts wrong
\* passwords in a row, whatever the limit and whoever else signs in.
THEOREM LockoutIsCounted == Spec => []LockoutCounts
<1>1. IInv => LockoutCounts
  BY DEF IInv, TypeOK, RowInv, RowOK, LockoutCounts
<1> QED BY <1>1, Invariance, PTL

\* A live refresh token was issued for the password of today, or the user must change it.
THEOREM TokensRevoked == Spec => []OldTokensRevoked
  BY Invariance, PTL DEF IInv

=============================================================================
