------------------------------ MODULE Accounts -----------------------------
(***************************************************************************)
(* Accounts and what they own outside the database: signup and login, and  *)
(* the private simulations and tournaments, which are kept in memory and    *)
(* lost when the process ends.  A request runs between its awaits without   *)
(* interruption; requests of all tabs interleave at the awaits.             *)
(* A user is a row of the table, a token the number of its row, 0 none.    *)
(***************************************************************************)
EXTENDS Naturals, Sequences, FiniteSets

CONSTANTS
  Emails,             \* as the schemas lower-case them
  Tabs,
  MAX_SIMS_PER_USER,
  MaxRows,            \* bound: accounts there are at the start
  MaxReboots          \* bound

ASSUME AccountsAssumption ==
  MAX_SIMS_PER_USER \in Nat /\ MaxRows \in Nat /\ MaxReboots \in Nat

\* What a tab may have in flight: /auth/me as the layout and as the editor ask
\* it, the requests of two forms (a link leaves a form and its document stays,
\* with what it asked), and one of the document before.
Slots == {"load", "editor", "form", "second", "old"}
Requests == Tabs \X Slots

VARIABLES
  users,        \* the table: e-mails in the order of their rows
  _sims,        \* id -> owner
  simCount,     \* ids given so far
  _tournaments, \* the creators, in order
  reboots,
  call          \* the requests and their answers

accountsVars == <<users, _sims, simCount, _tournaments, reboots, call>>

Idle == [kind |-> "none"]
\* The table may have the accounts of earlier runs, of different e-mails.
AccountsInit ==
  /\ \E n \in 0 .. MaxRows :
       users \in {rows \in [1 .. n -> Emails] : \A u, v \in 1 .. n : rows[u] = rows[v] => u = v}
  /\ _sims = << >> /\ simCount = 0 /\ _tournaments = << >>
  /\ reboots = 0 /\ call = [r \in Requests |-> Idle]

\* A request as it is sent, with the token of its cookie.
Sent(request, token) ==
  [kind |-> request.kind, ask |-> request, stage |-> "sent", token |-> token]

At(r, kind, stage) == call[r].kind = kind /\ call[r].stage = stage

\* The answer of a request; token: that of its answer.
Answered(r, status, token) ==
  call' = [call EXCEPT ![r] = [kind |-> @.kind, stage |-> "answered",
                               status |-> status, token |-> token]]

RowsOf(email) == {u \in DOMAIN users : users[u] = email}

\* Mutant: the row is added and never committed.
SignupUncommitted(r) ==
  /\ At(r, "signup", "sent")
  /\ \/ RowsOf(call[r].ask.email) # {} /\ Answered(r, 400, 0)
     \/ RowsOf(call[r].ask.email) = {} /\ Answered(r, 201, Len(users) + 1)
  /\ UNCHANGED <<users, _sims, simCount, _tournaments, reboots>>

\* signup up to the end of its select
SignupSelect(r) ==
  /\ At(r, "signup", "sent")
  /\ \/ RowsOf(call[r].ask.email) # {} /\ Answered(r, 400, 0)
     \/ /\ RowsOf(call[r].ask.email) = {}
        /\ call' = [call EXCEPT ![r].stage = "commit"]
  /\ UNCHANGED <<users, _sims, simCount, _tournaments, reboots>>

\* Mutant: the e-mails of the table are not a unique index.
CommitAnyway(r) ==
  /\ At(r, "signup", "commit")
  /\ users' = Append(users, call[r].ask.email) /\ Answered(r, 201, Len(users) + 1)
  /\ UNCHANGED <<_sims, simCount, _tournaments, reboots>>

\* The commit: the unique index refuses a second row, and the request fails.
SignupCommit(r) ==
  /\ At(r, "signup", "commit")
  /\ \/ /\ RowsOf(call[r].ask.email) = {}
        /\ users' = Append(users, call[r].ask.email)
        /\ Answered(r, 201, Len(users) + 1)
     \/ RowsOf(call[r].ask.email) # {} /\ Answered(r, 500, 0) /\ UNCHANGED users
  /\ UNCHANGED <<_sims, simCount, _tournaments, reboots>>

\* login: the password is the account's or not.
Login(r) ==
  /\ At(r, "login", "sent")
  /\ \/ \E u \in RowsOf(call[r].ask.email) : Answered(r, 200, u)
     \/ Answered(r, 401, 0)
  /\ UNCHANGED <<users, _sims, simCount, _tournaments, reboots>>

\* logout asks for no token.
Logout(r) ==
  /\ At(r, "logout", "sent")
  /\ Answered(r, 200, 0)
  /\ UNCHANGED <<users, _sims, simCount, _tournaments, reboots>>

\* current_user: the token's user, none when there is none.
current_user(r) == {u \in DOMAIN users : u = call[r].token}
Denied(r) == current_user(r) = {} /\ Answered(r, 401, 0)

Me(r) ==
  /\ At(r, "me", "sent")
  /\ Denied(r) \/ \E u \in current_user(r) : Answered(r, 200, u)
  /\ UNCHANGED <<users, _sims, simCount, _tournaments, reboots>>

SimsOf(u) == {s \in DOMAIN _sims : _sims[s] = u}

AtQuota(u) == Cardinality(SimsOf(u)) >= MAX_SIMS_PER_USER

\* create_sim under _sims_lock; a max_ticks that is no number raises.
create_sim(r) ==
  /\ At(r, "create_sim", "sent")
  /\ \/ (Denied(r) \/ \E u \in current_user(r) :
                         \/ AtQuota(u) /\ Answered(r, 429, 0)
                         \/ ~AtQuota(u) /\ Answered(r, 500, 0))
        /\ UNCHANGED <<_sims, simCount>>
     \/ \E u \in current_user(r) :
          /\ ~AtQuota(u)
          /\ simCount' = simCount + 1
          /\ _sims' = [s \in DOMAIN _sims \union {simCount'} |->
                      IF s = simCount' THEN u ELSE _sims[s]]
          /\ Answered(r, 201, 0)
  /\ UNCHANGED <<users, _tournaments, reboots>>

MayDelete(r, s) == s \in DOMAIN _sims /\ _sims[s] \in current_user(r)

delete_sim(r) ==
  /\ At(r, "delete_sim", "sent")
  /\ LET s == call[r].ask.sim IN
     \/ (Denied(r) \/ /\ current_user(r) # {} /\ ~MayDelete(r, s)
                      /\ Answered(r, IF s \in DOMAIN _sims THEN 403 ELSE 404, 0))
        /\ UNCHANGED _sims
     \/ /\ MayDelete(r, s)
        /\ _sims' = [t \in DOMAIN _sims \ {s} |-> _sims[t]]
        /\ Answered(r, 200, 0)
  /\ UNCHANGED <<users, simCount, _tournaments, reboots>>

create_tournament(r) ==
  /\ At(r, "create_tournament", "sent")
  /\ \/ Denied(r) /\ UNCHANGED _tournaments
     \/ /\ \E u \in current_user(r) : _tournaments' = Append(_tournaments, u)
        /\ Answered(r, 201, 0)
  /\ UNCHANGED <<users, _sims, simCount, reboots>>

\* The process ends and starts again: the table stays, every request that
\* was not answered fails in its browser.
Reboot ==
  /\ reboots < MaxReboots /\ reboots' = reboots + 1
  /\ _sims' = << >> /\ _tournaments' = << >>
  /\ call' = [r \in Requests |->
       IF call[r] # Idle /\ call[r].stage # "answered"
         THEN [kind |-> call[r].kind, stage |-> "answered", status |-> 0, token |-> 0]
         ELSE call[r]]
  /\ UNCHANGED <<users, simCount>>

\* The middleware's limit answers 429 whatever is asked; a session of the
\* database that fails at a commit is a 500.
Refuse(r) ==
  /\ \/ call[r].stage = "sent" /\ Answered(r, 429, 0)
     \/ call[r].stage = "commit" /\ Answered(r, 500, 0)
  /\ UNCHANGED <<users, _sims, simCount, _tournaments, reboots>>

Handle(r) ==
  /\ call[r] # Idle
  /\ \/ SignupSelect(r) \/ SignupCommit(r) \/ Login(r) \/ Logout(r) \/ Me(r)
     \/ create_sim(r) \/ delete_sim(r) \/ create_tournament(r) \/ Refuse(r)

AccountsNext == Reboot \/ \E r \in Requests : Handle(r)

(***************************************************************************)
(* Properties.                                                             *)
(***************************************************************************)

\* No two accounts have one e-mail, however signups overlap.
EmailsUnique == \A u, v \in DOMAIN users : users[u] = users[v] => u = v
=============================================================================
