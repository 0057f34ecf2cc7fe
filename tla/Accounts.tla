------------------------------ MODULE Accounts ------------------------------
(***************************************************************************)
(* Accounts: start-up seeding, login with lockout, tokens, passwords, MFA  *)
(* and user administration (backend/app/services/auth_service, main,       *)
(* api/v1/auth and users).                                                 *)
(*                                                                         *)
(* A request has a session of its own: it reads a row, decides (bcrypt     *)
(* takes long), and commits the columns that differ from what it read.     *)
(* `stale` is a history variable: the users whose row was written by a     *)
(* request that had decided on what was no longer true.                    *)
(*                                                                         *)
(* A password is its number; the token hashes, scopes, expiry of refresh   *)
(* tokens, e-mail addresses and audit records are left out.                *)
(***************************************************************************)
EXTENDS Naturals, FiniteSets

CONSTANTS
  Names,        \* usernames; "admin" is one of them
  Procs,        \* API processes, each serving one request at a time
  Inputs,       \* bound: the requests of this instance
  MaxAttempts,  \* settings.max_login_attempts
  MaxRequests,  \* bound: requests that read a user row
  MaxTokens     \* bound: rows of refresh_tokens

ASSUME AccountsAssumption ==
  /\ "admin" \in Names
  /\ Inputs \subseteq {"login", "create", "disable", "enable", "demote", "promote", "reset",
                       "password", "mfa_setup", "mfa_enable", "mfa_disable", "api"}
  /\ MaxAttempts \in Nat \ {0}
  /\ MaxRequests \in Nat
  /\ MaxTokens \in Nat

VARIABLES
  seeded,  \* the built-in roles and the default settings are there
  user,    \* the users table
  token,   \* the refresh_tokens table
  ntoken,
  access,  \* users who hold an access token that has not expired
  apikey,  \* users who have an API token that was not revoked
  proc,    \* what each process is doing
  nreq,    \* requests so far; numbers the new passwords
  wrong,   \* history: wrong passwords in a row, since the last login or lock
  stale    \* history: see above

vars == <<seeded, user, token, ntoken, access, apikey, proc, nreq, wrong, stale>>

NoUser == [there |-> FALSE, admin |-> FALSE, active |-> TRUE, fails |-> 0, locked |-> FALSE,
           until |-> "none", pw |-> 0, must |-> TRUE, mfa |-> FALSE, secret |-> FALSE]
NoToken == [user |-> "admin", pw |-> 0, live |-> FALSE]
Starting == [pc |-> "boot", left |-> 3, found |-> FALSE, op |-> "none", u |-> "admin",
             ok |-> FALSE, row |-> NoUser, others |-> {}]

Init ==
  /\ seeded = FALSE
  /\ user = [u \in Names |-> NoUser]
  /\ token = [i \in 1..MaxTokens |-> NoToken]
  /\ ntoken = 0
  /\ access = {}
  /\ apikey = {}
  /\ proc = [p \in Procs |-> Starting]
  /\ nreq = 0
  /\ wrong = [u \in Names |-> 0]
  /\ stale = {}

Goto(p, pc) == [proc EXCEPT ![p].pc = pc]
Free(p) == [proc EXCEPT ![p] = [Starting EXCEPT !.pc = "up"]]

----------------------------------------------------------------------------
(* Start-up: _seed_data *)

\* An attempt begins: which roles and settings are missing?
SeedRead(p) ==
  /\ proc[p].pc = "boot"
  /\ proc' = [proc EXCEPT ![p].pc = "seed", ![p].found = seeded]
  /\ UNCHANGED <<seeded, user, token, ntoken, access, apikey, nreq, wrong, stale>>

\* Mutant: one attempt only
Mutant_NoRetry(p) ==
  /\ proc[p].pc = "seed"
  /\ seeded' = TRUE
  /\ proc' = IF seeded /\ ~proc[p].found THEN Free(p) ELSE Goto(p, "find")
  /\ UNCHANGED <<user, token, ntoken, access, apikey, nreq, wrong, stale>>

\* Those that were missing are inserted.  Another process was faster: the unique
\* names collide, the attempt is rolled back and another one begins, three in all.
SeedCommit(p) ==
  /\ proc[p].pc = "seed"
  /\ seeded' = TRUE
  /\ proc' = IF seeded /\ ~proc[p].found
             THEN IF proc[p].left = 1 THEN Free(p)
                  ELSE [proc EXCEPT ![p].pc = "boot", ![p].left = @ - 1]
             ELSE Goto(p, "find")
  /\ UNCHANGED <<user, token, ntoken, access, apikey, nreq, wrong, stale>>

\* get_or_create_bootstrap_admin looks for the row first
FindAdmin(p) ==
  /\ proc[p].pc = "find"
  /\ proc' = IF user["admin"].there THEN Free(p) ELSE Goto(p, "insert")
  /\ UNCHANGED <<seeded, user, token, ntoken, access, apikey, nreq, wrong, stale>>

\* The flush waits for another process that has flushed the same name; the loser
\* rolls back and returns the winner's row.
FlushAdmin(p) ==
  /\ proc[p].pc = "insert"
  /\ \A q \in Procs: proc[q].pc # "flushed"
  /\ proc' = IF user["admin"].there THEN Free(p) ELSE Goto(p, "flushed")
  /\ UNCHANGED <<seeded, user, token, ntoken, access, apikey, nreq, wrong, stale>>

CommitAdmin(p) ==
  /\ proc[p].pc = "flushed"
  /\ user' = [user EXCEPT !["admin"] = [NoUser EXCEPT !.there = TRUE, !.admin = TRUE]]
  /\ proc' = Free(p)
  /\ UNCHANGED <<seeded, token, ntoken, access, apikey, nreq, wrong, stale>>

----------------------------------------------------------------------------
(* Requests *)

Locked(r) == r.locked /\ r.until = "on"
ActiveAdmins == {u \in Names: user[u].there /\ user[u].admin /\ user[u].active}

\* get_current_user, for all but the three endpoints that serve a user who must
\* change the password
CurrentUser(a) == /\ a \in access \cup apikey
                  /\ user[a].active
                  /\ ~user[a].must
Administrator == \E a \in Names: CurrentUser(a) /\ user[a].admin

Updates == {"disable", "enable", "demote", "promote", "reset"}
Mfas == {"mfa_setup", "mfa_enable", "mfa_disable"}

\* Mutant: the last administrator may be disabled
Mutant_LastMayBeDisabled(op, u) ==
  \/ op = "reset" /\ CurrentUser(u)
  \/ /\ Administrator
     /\ op = "demote" /\ u \in ActiveAdmins => ActiveAdmins # {u}

\* update_user: an administrator, or the user, whose changes of role and status
\* are ignored.  The last active administrator must not be lost.
MayUpdate(op, u) ==
  \/ op = "reset" /\ CurrentUser(u)
  \/ /\ Administrator
     /\ op \in {"disable", "demote"} /\ u \in ActiveAdmins => ActiveAdmins # {u}

\* Which requests get past their checks; `ok` is whether the password, or the MFA
\* code, that comes with it is right; of a new user, whether it is an administrator.
May(op, u, ok) ==
  CASE op = "login"       -> user[u].there /\ user[u].active /\ ~Locked(user[u])
    [] op = "create"      -> Administrator /\ ~user[u].there
    [] op \in Updates     -> user[u].there /\ MayUpdate(op, u) /\ ok
    [] op = "password"    -> u \in access \cup apikey /\ user[u].active /\ ok
    [] op = "mfa_setup"   -> CurrentUser(u) /\ ok
    [] op = "mfa_enable"  -> CurrentUser(u) /\ user[u].secret /\ ok
    [] op = "mfa_disable" -> CurrentUser(u) /\ ok

\* A request reads the row and what else it decides on.
Begin(p, op, u, ok) ==
  /\ op \in Inputs
  /\ proc[p].pc = "up"
  /\ nreq < MaxRequests
  /\ nreq' = nreq + 1
  /\ May(op, u, ok)
  /\ proc' = [proc EXCEPT ![p] =
       [@ EXCEPT !.pc = "busy", !.op = op, !.u = u, !.ok = ok, !.row = user[u],
                 !.others = IF op \in Updates THEN ActiveAdmins \ {u} ELSE {}]]
  /\ UNCHANGED <<seeded, user, token, ntoken, access, apikey, wrong, stale>>

\* Mutant: the attempt after the last one locks
Mutant_OneMoreAttempt(r) ==
  IF r.fails + 1 > MaxAttempts THEN [r EXCEPT !.fails = 0, !.locked = TRUE, !.until = "on"]
  ELSE [r EXCEPT !.fails = @ + 1]

\* Mutant: the count is kept only when it locks
Mutant_CountNotSaved(r) ==
  IF r.fails + 1 >= MaxAttempts THEN [r EXCEPT !.fails = 0, !.locked = TRUE, !.until = "on"]
  ELSE r

\* authenticate: the wrong password
Failed(r) ==
  IF r.fails + 1 >= MaxAttempts THEN [r EXCEPT !.fails = 0, !.locked = TRUE, !.until = "on"]
  ELSE [r EXCEPT !.fails = @ + 1]

\* disable_mfa
MfaOff(r) == [r EXCEPT !.mfa = FALSE, !.secret = FALSE]

\* The row the request wants
Changed(r, op, ok, new) ==
  CASE op = "login"       -> IF ok THEN [r EXCEPT !.fails = 0, !.locked = FALSE, !.until = "none"]
                             ELSE Failed(r)
    [] op = "create"      -> [NoUser EXCEPT !.there = TRUE, !.pw = new, !.admin = ok]
    [] op = "password"    -> [r EXCEPT !.pw = new, !.must = FALSE]
    [] op = "reset"       -> [r EXCEPT !.pw = new, !.must = TRUE]
    [] op = "disable"     -> [r EXCEPT !.active = FALSE]
    [] op = "enable"      -> [r EXCEPT !.active = TRUE]
    [] op = "demote"      -> [r EXCEPT !.admin = FALSE]
    [] op = "promote"     -> [r EXCEPT !.admin = TRUE]
    [] op = "mfa_setup"   -> [r EXCEPT !.secret = TRUE]
    [] op = "mfa_enable"  -> [r EXCEPT !.mfa = TRUE]
    [] op = "mfa_disable" -> MfaOff(r)

\* UPDATE sets the columns that the request changed
Column(read, wanted, now) == IF wanted = read THEN now ELSE wanted
Merged(read, wanted, now) ==
  [there  |-> Column(read.there, wanted.there, now.there),
   admin  |-> Column(read.admin, wanted.admin, now.admin),
   active |-> Column(read.active, wanted.active, now.active),
   fails  |-> Column(read.fails, wanted.fails, now.fails),
   locked |-> Column(read.locked, wanted.locked, now.locked),
   until  |-> Column(read.until, wanted.until, now.until),
   pw     |-> Column(read.pw, wanted.pw, now.pw),
   must   |-> Column(read.must, wanted.must, now.must),
   mfa    |-> Column(read.mfa, wanted.mfa, now.mfa),
   secret |-> Column(read.secret, wanted.secret, now.secret)]

\* Nobody has written what the request decided on.
Fresh(p) ==
  LET s == proc[p]
      timeless(r) == [r EXCEPT !.until = "none"]
  IN /\ timeless(user[s.u]) = timeless(s.row)
     /\ s.op \in Updates => s.others = ActiveAdmins \ {s.u}

\* Mutant: the tokens of a user who changes the password stay
Mutant_TokensStay(u) == token

\* change_password invalidates the refresh tokens
Revoked(u) == [i \in 1..MaxTokens |-> IF token[i].user = u THEN [token[i] EXCEPT !.live = FALSE]
                                      ELSE token[i]]

\* The request commits.  A login goes on to the MFA code and the tokens.
Commit(p) ==
  LET s == proc[p]
      wanted == Changed(s.row, s.op, s.ok, nreq)
  IN
  /\ s.pc = "busy"
  /\ s.op = "create" => ~user[s.u].there
  /\ user' = [user EXCEPT ![s.u] = Merged(s.row, wanted, @)]
  /\ token' = IF s.op = "password" THEN Revoked(s.u) ELSE token
  /\ wrong' = IF s.op # "login" THEN wrong
              ELSE [wrong EXCEPT ![s.u] = IF s.ok \/ wanted.until = "on" THEN 0 ELSE @ + 1]
  /\ stale' = IF Fresh(p) THEN stale ELSE stale \cup {s.u}
  /\ proc' = IF s.op = "login" /\ s.ok THEN [proc EXCEPT ![p].pc = "issue", ![p].row = user'[s.u]]
             ELSE Free(p)
  /\ UNCHANGED <<seeded, ntoken, access, apikey, nreq>>

\* Another request created a user of the same name: the unique constraint.
CreateCollides(p) ==
  /\ proc[p].pc = "busy"
  /\ proc[p].op = "create"
  /\ user[proc[p].u].there
  /\ proc' = Free(p)
  /\ UNCHANGED <<seeded, user, token, ntoken, access, apikey, nreq, wrong, stale>>

\* The MFA code is wrong.
MfaFails(p) ==
  /\ proc[p].pc = "issue"
  /\ proc[p].row.mfa /\ proc[p].row.secret
  /\ proc' = Free(p)
  /\ UNCHANGED <<seeded, user, token, ntoken, access, apikey, nreq, wrong, stale>>

\* issue_tokens; the row is not read again.
IssueTokens(p) ==
  LET s == proc[p] IN
  /\ s.pc = "issue"
  /\ ntoken < MaxTokens
  /\ ntoken' = ntoken + 1
  /\ token' = [token EXCEPT ![ntoken + 1] = [user |-> s.u, pw |-> s.row.pw, live |-> TRUE]]
  /\ access' = access \cup {s.u}
  /\ stale' = IF Fresh(p) THEN stale ELSE stale \cup {s.u}
  /\ proc' = Free(p)
  /\ UNCHANGED <<seeded, user, apikey, nreq, wrong>>

----------------------------------------------------------------------------
(* Tokens and time *)

\* refresh_access_token
Refresh(i) ==
  /\ token[i].live
  /\ user[token[i].user].active
  /\ token[i].user \notin access
  /\ access' = access \cup {token[i].user}
  /\ UNCHANGED <<seeded, user, token, ntoken, apikey, proc, nreq, wrong, stale>>

\* logout: revoke_refresh_token, of a user who is signed in
Logout(i) ==
  /\ token[i].live
  /\ token[i].user \in access
  /\ user[token[i].user].active
  /\ token' = [token EXCEPT ![i].live = FALSE]
  /\ UNCHANGED <<seeded, user, ntoken, access, apikey, proc, nreq, wrong, stale>>

CreateApiToken(u) ==
  /\ "api" \in Inputs
  /\ CurrentUser(u)
  /\ u \notin apikey
  /\ apikey' = apikey \cup {u}
  /\ UNCHANGED <<seeded, user, token, ntoken, access, proc, nreq, wrong, stale>>

\* revoke_token, or expires_at has passed
ApiTokenEnds(u) ==
  /\ u \in apikey
  /\ apikey' = apikey \ {u}
  /\ UNCHANGED <<seeded, user, token, ntoken, access, proc, nreq, wrong, stale>>

AccessExpires(u) ==
  /\ u \in access
  /\ access' = access \ {u}
  /\ UNCHANGED <<seeded, user, token, ntoken, apikey, proc, nreq, wrong, stale>>

LockoutPasses(u) ==
  /\ user[u].until = "on"
  /\ user' = [user EXCEPT ![u].until = "over"]
  /\ UNCHANGED <<seeded, token, ntoken, access, apikey, proc, nreq, wrong, stale>>

----------------------------------------------------------------------------

Startup(p) == SeedRead(p) \/ SeedCommit(p) \/ FindAdmin(p) \/ FlushAdmin(p) \/ CommitAdmin(p)

Next ==
  \/ \E p \in Procs:
       \/ Startup(p) \/ Commit(p) \/ CreateCollides(p) \/ MfaFails(p) \/ IssueTokens(p)
       \/ \E op \in Inputs \ {"api"}, u \in Names, ok \in BOOLEAN: Begin(p, op, u, ok)
  \/ \E i \in 1..MaxTokens: Refresh(i) \/ Logout(i)
  \/ \E u \in Names: \/ CreateApiToken(u) \/ ApiTokenEnds(u) \/ AccessExpires(u)
                     \/ LockoutPasses(u)

Spec == Init /\ [][Next]_vars

----------------------------------------------------------------------------
(* Properties *)

Row == [there: BOOLEAN, admin: BOOLEAN, active: BOOLEAN, fails: Nat, locked: BOOLEAN,
        until: {"none", "on", "over"}, pw: Nat, must: BOOLEAN, mfa: BOOLEAN, secret: BOOLEAN]
Ops == {"login", "create", "password"} \cup Updates \cup Mfas
Proc == [pc: {"boot", "seed", "find", "insert", "flushed", "up", "busy", "issue"},
         left: 1..3, found: BOOLEAN, op: Ops \cup {"none"}, u: Names, ok: BOOLEAN,
         row: Row, others: SUBSET Names]

\* Tables and processes hold values of their kinds, and the counter of a user that
\* is not locked stays below the limit.
TypeOK ==
  /\ seeded \in BOOLEAN
  /\ user \in [Names -> Row]
  /\ \A u \in Names: user[u].fails < MaxAttempts
  /\ token \in [1..MaxTokens -> [user: Names, pw: Nat, live: BOOLEAN]]
  /\ ntoken \in 0..MaxTokens
  /\ access \subseteq Names
  /\ apikey \subseteq Names
  /\ proc \in [Procs -> Proc]
  /\ nreq \in 0..MaxRequests
  /\ wrong \in [Names -> Nat]
  /\ stale \subseteq Names

\* A process that serves requests has found or made the roles, the settings and the
\* administrator, although all processes start at once and collide.
StartupSeeds ==
  \A p \in Procs: proc[p].pc = "up" => seeded /\ user["admin"].there

\* "Never allow the last active administrator to be disabled or demoted": as long
\* as no request decided on a count that was no longer true, somebody can administer.
LastAdminStays == user["admin"].there /\ stale = {} => ActiveAdmins # {}

\* A user who was never written by a stale request is locked by the last of
\* max_login_attempts wrong passwords in a row, whoever else logs in meanwhile.
LockoutCounts == \A u \in Names \ stale: wrong[u] < MaxAttempts

\* Change of password: "Invalidate all refresh tokens".  Whoever holds a token got it
\* with the password of today, or an administrator has set a new one that the user
\* must change.
OldTokensRevoked ==
  \A i \in 1..MaxTokens: token[i].live /\ token[i].user \notin stale
    => token[i].pw = user[token[i].user].pw \/ user[token[i].user].must

=============================================================================
