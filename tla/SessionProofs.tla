--------------------------- MODULE SessionProofs ---------------------------
(***************************************************************************)
(* Proofs about Accounts and Session, for any number of browsers, tabs and *)
(* e-mails: accounts are unique, what names an account names one of the    *)
(* table, and what a page shows is its browser's session or a former one.  *)
(***************************************************************************)
EXTENDS Session, TLAPS

Kinds == {"signup", "login", "create_sim", "create_tournament", "delete_sim", "me", "logout"}

AllAsks ==
  [kind : {"signup", "login"}, email : Emails]
    \union [kind : {"create_sim", "create_tournament", "me", "logout"}]
    \union [kind : {"delete_sim"}, sim : Nat]

(* The requests and answers there can be while the table has n rows.       *)
SentCalls(n) ==
  {c \in [kind : Kinds, ask : AllAsks, stage : {"sent", "commit"}, token : 0 .. n] :
     c.kind = c.ask.kind}
Answers(n) == [kind : Kinds, stage : {"answered"}, status : Nat, token : 0 .. n]
CallsOf(n) == SentCalls(n) \union Answers(n)

(* A request and its answer, whatever it is.                               *)
LEMMA CallFacts ==
  ASSUME NEW n \in Nat, NEW c \in CallsOf(n)
  PROVE  /\ c # Idle /\ c.kind \in Kinds /\ c.token \in 0 .. n
         /\ c \in SentCalls(n) <=> c.stage # "answered"
<1>1. CASE c \in SentCalls(n)
  <2>1. c.stage \in {"sent", "commit"} /\ c.token \in 0 .. n /\ c.kind \in Kinds
    BY <1>1 DEF SentCalls
  <2>2. c # Idle
    BY <1>1, <2>1 DEF SentCalls, Idle, Kinds
  <2>. QED  BY <1>1, <2>1, <2>2
<1>2. CASE c \in Answers(n)
  <2>1. c.stage = "answered" /\ c.token \in 0 .. n /\ c.kind \in Kinds
    BY <1>2 DEF Answers
  <2>2. c # Idle
    BY <1>2, <2>1 DEF Answers, Idle, Kinds
  <2>3. c \notin SentCalls(n)
    BY <2>1 DEF SentCalls
  <2>. QED  BY <2>1, <2>2, <2>3
<1>. QED  BY <1>1, <1>2 DEF CallsOf

LEMMA CallsGrow ==
  ASSUME NEW n \in Nat
  PROVE  CallsOf(n) \subseteq CallsOf(n + 1)
<1>1. 0 .. n \subseteq 0 .. n + 1
  OBVIOUS
<1>2. SentCalls(n) \subseteq SentCalls(n + 1)
  BY <1>1 DEF SentCalls
<1>3. Answers(n) \subseteq Answers(n + 1)
  BY <1>1 DEF Answers
<1>. QED  BY <1>2, <1>3 DEF CallsOf

LEMMA AnswerFacts ==
  ASSUME NEW n \in Nat, NEW k \in Kinds, NEW s \in Nat, NEW t \in 0 .. n
  PROVE  [kind |-> k, stage |-> "answered", status |-> s, token |-> t] \in CallsOf(n)
BY DEF CallsOf, Answers

(* What a page sends.                                                      *)
LEMMA AsksAreAsks == simCount \in Nat => Asks \subseteq AllAsks
BY DEF Asks, AllAsks

LEMMA SentFacts ==
  ASSUME NEW n \in Nat, NEW t \in 0 .. n, NEW ask \in AllAsks
  PROVE  /\ Sent(ask, t) \in CallsOf(n)
         /\ Sent(ask, t).kind = ask.kind /\ Sent(ask, t).token = t
         /\ Sent(ask, t).stage = "sent"
<1>1. ask.kind \in Kinds
  BY DEF AllAsks, Kinds
<1>. QED  BY <1>1 DEF Sent, CallsOf, SentCalls

(* A signup between its select and its commit.                             *)
LEMMA CommitFacts ==
  ASSUME NEW n \in Nat, NEW c \in SentCalls(n), c.kind = "signup"
  PROVE  /\ c.ask.email \in Emails
         /\ [c EXCEPT !.stage = "commit"] \in CallsOf(n)
         /\ [c EXCEPT !.stage = "commit"].kind = c.kind
         /\ [c EXCEPT !.stage = "commit"].stage = "commit"
<1>1. c \in [kind : Kinds, ask : AllAsks, stage : {"sent", "commit"}, token : 0 .. n]
  BY DEF SentCalls
<1>2. c.ask \in AllAsks /\ c.ask.kind = "signup"
  BY DEF SentCalls
<1>3. c.ask.email \in Emails
  BY <1>2 DEF AllAsks
<1>4. c = [kind |-> c.kind, ask |-> c.ask, stage |-> c.stage, token |-> c.token]
  BY <1>1
<1>5. [c EXCEPT !.stage = "commit"]
        = [kind |-> c.kind, ask |-> c.ask, stage |-> "commit", token |-> c.token]
  BY <1>1, <1>4
<1>. QED  BY <1>1, <1>2, <1>3, <1>5 DEF CallsOf, SentCalls

(***************************************************************************)
(* The invariant.                                                          *)
(***************************************************************************)
Types ==
  /\ users \in Seq(Emails) /\ simCount \in Nat
  /\ \A s \in DOMAIN _sims : _sims[s] \in DOMAIN users
  /\ _tournaments \in Seq(DOMAIN users)
  /\ call \in [Requests -> CallsOf(Len(users)) \union {Idle}]
  /\ cookie \in [Browsers -> 0 .. Len(users)]
  /\ store \in [Tabs -> 0 .. Len(users)]
  /\ lastAsked \in [Tabs -> Own]
  /\ DOMAIN page = Tabs /\ DOMAIN since = Tabs

(* /auth/me is under way with the token of the cookie, or answered it, or  *)
(* was refused.                                                            *)
Fresh(t, c) ==
  (c.stage = "answered" /\ c.status \notin {200, 401}) \/ c.token = Cookie(t)

(* What a page has asked and shows belongs to its browser's session since  *)
(* it was loaded.                                                          *)
Dated(t) ==
  page[t] = "open" =>
    /\ Cookie(t) \in since[t] /\ store[t] \in {0} \union since[t]
    /\ \A slot \in Asking(t) : call[<<t, slot>>].token \in {0} \union since[t]

(* Of a page that is not disturbed the last question is about the session  *)
(* there is; once it is answered the page shows it, and what is under way  *)
(* still will change nothing.                                              *)
Shows(t) ==
  page[t] = "open" /\ t \notin disturbed =>
    /\ lastAsked[t] \in Asking(t) => Fresh(t, call[<<t, lastAsked[t]>>])
    /\ lastAsked[t] \notin Asking(t) =>
         store[t] = Cookie(t) /\ \A slot \in Asking(t) : Fresh(t, call[<<t, slot>>])

(* A page asks for no logout, and nothing is left of one that was left.    *)
Asked(t) ==
  /\ \A slot \in Own : call[<<t, slot>>].kind # "logout"
  /\ page[t] # "open" =>
       (\A slot \in Own : Free(t, slot)) /\ lastAsked[t] = "load" /\ store[t] = 0

TabInv(t) == Asked(t) /\ Dated(t) /\ Shows(t)
PageInv == \A t \in Tabs : TabInv(t)

(***************************************************************************)
(* What the server does with a request.                                    *)
(***************************************************************************)
Served(r) ==
  /\ call[r] # Idle
  /\ users' = users \/ \E e \in Emails : RowsOf(e) = {} /\ users' = Append(users, e)
  /\ simCount' \in Nat
  /\ \A s \in DOMAIN _sims' : _sims'[s] \in DOMAIN users
  /\ _tournaments' \in Seq(DOMAIN users)
  /\ \E x \in CallsOf(Len(users')) :
       /\ call' = [call EXCEPT ![r] = x]
       /\ x.kind = call[r].kind
       /\ x.kind = "me" =>
            /\ call[r].stage # "answered" /\ x.stage = "answered"
            /\ x.token = call[r].token \/ (x.token = 0 /\ x.status \notin {200, 401})

Keeps == UNCHANGED <<users, _sims, simCount, _tournaments, reboots>>

LEMMA Answering ==
  ASSUME Types, NEW r \in Requests, call[r] # Idle, Len(users') \in Nat,
         NEW s \in Nat, NEW t \in 0 .. Len(users'), Answered(r, s, t)
  PROVE  \E x \in CallsOf(Len(users')) :
           /\ call' = [call EXCEPT ![r] = x] /\ x.kind = call[r].kind
           /\ x.stage = "answered" /\ x.status = s /\ x.token = t
<1>1. call[r] \in CallsOf(Len(users)) /\ Len(users) \in Nat
  BY DEF Types
<1>2. call[r].kind \in Kinds
  BY <1>1, CallFacts
<1>. DEFINE x == [kind |-> call[r].kind, stage |-> "answered", status |-> s, token |-> t]
<1>3. x \in CallsOf(Len(users'))
  BY <1>2, AnswerFacts
<1>4. call' = [call EXCEPT ![r] = x]
  BY DEF Answered
<1>. QED  BY <1>3, <1>4

(* Whatever keeps the tables and answers serves; /auth/me answers what the *)
(* token names.                                                            *)
LEMMA AnswerServes ==
  ASSUME Types, NEW r \in Requests, call[r] # Idle, Keeps,
         NEW s \in Nat, NEW t \in 0 .. Len(users), Answered(r, s, t),
         call[r].kind = "me" =>
           /\ call[r].stage # "answered"
           /\ t = call[r].token \/ (t = 0 /\ s \notin {200, 401})
  PROVE  Served(r)
<1>1. Len(users') \in Nat /\ t \in 0 .. Len(users')
  BY DEF Keeps, Types
<1>2. PICK x \in CallsOf(Len(users')) :
        /\ call' = [call EXCEPT ![r] = x] /\ x.kind = call[r].kind
        /\ x.stage = "answered" /\ x.status = s /\ x.token = t
  BY <1>1, Answering
<1>3. x.kind = "me" =>
        /\ call[r].stage # "answered" /\ x.stage = "answered"
        /\ x.token = call[r].token \/ (x.token = 0 /\ x.status \notin {200, 401})
  BY <1>2
<1>4. /\ users' = users /\ simCount' \in Nat /\ _tournaments' \in Seq(DOMAIN users)
      /\ \A s1 \in DOMAIN _sims' : _sims'[s1] \in DOMAIN users
  BY DEF Keeps, Types
<1>. QED  BY <1>2, <1>3, <1>4 DEF Served

LEMMA SignupServes ==
  ASSUME Types, NEW r \in Requests, call[r] # Idle, SignupSelect(r) \/ SignupCommit(r)
  PROVE  Served(r)
<1>1. Len(users) \in Nat /\ call[r] \in CallsOf(Len(users)) /\ call[r].kind = "signup"
  BY DEF Types, SignupSelect, SignupCommit, At
<1>2. call[r] \in SentCalls(Len(users))
  BY <1>1, CallFacts DEF SignupSelect, SignupCommit, At
<1>3. CASE Keeps /\ (Answered(r, 400, 0) \/ Answered(r, 500, 0))
  BY <1>1, <1>3, AnswerServes
<1>4. CASE Keeps /\ call' = [call EXCEPT ![r].stage = "commit"]
  <2>. DEFINE x == [call[r] EXCEPT !.stage = "commit"]
  <2>1. call' = [call EXCEPT ![r] = x]
    BY <1>4
  <2>2. x \in CallsOf(Len(users)) /\ x.kind = "signup"
    BY <1>1, <1>2, CommitFacts
  <2>. HIDE DEF x
  <2>3. /\ users' = users /\ simCount' \in Nat /\ _tournaments' \in Seq(DOMAIN users)
        /\ \A s1 \in DOMAIN _sims' : _sims'[s1] \in DOMAIN users
    BY <1>4 DEF Keeps, Types
  <2>4. x.kind # "me" /\ x.kind = call[r].kind /\ x \in CallsOf(Len(users'))
    BY <1>1, <2>2, <2>3
  <2>. QED  BY <2>1, <2>3, <2>4 DEF Served
<1>5. CASE /\ RowsOf(call[r].ask.email) = {} /\ users' = Append(users, call[r].ask.email)
           /\ Answered(r, 201, Len(users) + 1)
           /\ UNCHANGED <<_sims, simCount, _tournaments, reboots>>
  <2>1. call[r].ask.email \in Emails
    BY <1>1, <1>2, CommitFacts
  <2>2. Len(users') = Len(users) + 1
    BY <1>5, <2>1 DEF Types
  <2>3. PICK x \in CallsOf(Len(users')) :
          call' = [call EXCEPT ![r] = x] /\ x.kind = call[r].kind
    BY <1>1, <1>5, <2>2, Answering
  <2>. QED  BY <1>1, <1>5, <2>1, <2>3 DEF Served, Types
<1>. QED  BY <1>3, <1>4, <1>5 DEF SignupSelect, SignupCommit, Keeps

LEMMA LoginServes ==
  ASSUME Types, NEW r \in Requests, call[r] # Idle, Login(r) \/ Logout(r)
  PROVE  Served(r)
<1>1. Keeps /\ call[r].kind # "me"
  BY DEF Keeps, Login, Logout, At
<1>2. PICK s \in Nat, t \in 0 .. Len(users) : Answered(r, s, t)
  <2>1. \A u \in DOMAIN users : u \in 0 .. Len(users)
    BY DEF Types
  <2>2. 0 \in 0 .. Len(users)
    BY DEF Types
  <2>3. \/ \E u \in RowsOf(call[r].ask.email) : Answered(r, 200, u)
        \/ Answered(r, 401, 0) \/ Answered(r, 200, 0)
    BY DEF Login, Logout
  <2>4. 200 \in Nat /\ 401 \in Nat
    OBVIOUS
  <2>. QED  BY <2>1, <2>2, <2>3, <2>4 DEF RowsOf
<1>. QED  BY <1>1, <1>2, AnswerServes

(* The user of a token is the token, and there is none for 0 alone.        *)
LEMMA CurrentUser ==
  ASSUME Types, NEW r \in Requests, call[r] # Idle
  PROVE  /\ \A u \in current_user(r) : u = call[r].token /\ u \in DOMAIN users
         /\ current_user(r) = {} => call[r].token = 0
         /\ call[r].token \in 0 .. Len(users) /\ DOMAIN users \subseteq 0 .. Len(users)
         /\ 0 \in 0 .. Len(users)
<1>1. Len(users) \in Nat /\ DOMAIN users = 1 .. Len(users) /\ call[r] \in CallsOf(Len(users))
  BY DEF Types
<1>2. call[r].token \in 0 .. Len(users)
  BY <1>1, CallFacts
<1>. QED  BY <1>1, <1>2 DEF current_user

LEMMA MeServes ==
  ASSUME Types, NEW r \in Requests, call[r] # Idle, Me(r)
  PROVE  Served(r)
<1>1. Keeps /\ call[r].stage # "answered"
  BY DEF Keeps, Me, At
<1>2. PICK s \in Nat : Answered(r, s, call[r].token)
  BY CurrentUser DEF Me, Denied
<1>. QED  BY <1>1, <1>2, CurrentUser, AnswerServes

LEMMA CreateSimServes ==
  ASSUME Types, NEW r \in Requests, call[r] # Idle, create_sim(r)
  PROVE  Served(r)
<1>1. call[r].kind # "me" /\ Len(users) \in Nat
  BY DEF create_sim, At, Types
<1>2. CASE UNCHANGED <<_sims, simCount>> /\ \E s \in Nat : Answered(r, s, 0)
  BY <1>1, <1>2, CurrentUser, AnswerServes DEF create_sim, Keeps
<1>3. CASE \E u \in current_user(r) :
             /\ simCount' = simCount + 1
             /\ _sims' = [s \in DOMAIN _sims \union {simCount'} |->
                            IF s = simCount' THEN u ELSE _sims[s]]
             /\ Answered(r, 201, 0)
  <2>1. UNCHANGED <<users, _tournaments, reboots>>
    BY DEF create_sim
  <2>2. PICK x \in CallsOf(Len(users')) :
          call' = [call EXCEPT ![r] = x] /\ x.kind = call[r].kind
    BY <1>1, <1>3, <2>1, CurrentUser, Answering
  <2>3. \A s \in DOMAIN _sims' : _sims'[s] \in DOMAIN users
    BY <1>3, CurrentUser DEF Types
  <2>4. simCount' \in Nat
    BY <1>3 DEF Types
  <2>5. _tournaments' \in Seq(DOMAIN users)
    BY <2>1 DEF Types
  <2>. QED  BY <1>1, <2>1, <2>2, <2>3, <2>4, <2>5 DEF Served
<1>. QED  BY <1>2, <1>3 DEF create_sim, Denied

LEMMA DeleteSimServes ==
  ASSUME Types, NEW r \in Requests, call[r] # Idle, delete_sim(r)
  PROVE  Served(r)
<1>1. /\ call[r].kind # "me" /\ Len(users) \in Nat
      /\ UNCHANGED <<users, simCount, _tournaments, reboots>>
  BY DEF delete_sim, At, Types
<1>2. \E s \in Nat : Answered(r, s, 0)
  BY DEF delete_sim, Denied
<1>3. PICK x \in CallsOf(Len(users')) :
        call' = [call EXCEPT ![r] = x] /\ x.kind = call[r].kind
  BY <1>1, <1>2, CurrentUser, Answering
<1>4. \A s \in DOMAIN _sims' : _sims'[s] \in DOMAIN users
  BY DEF delete_sim, Types
<1>. QED  BY <1>1, <1>3, <1>4 DEF Served, Types

LEMMA TournamentServes ==
  ASSUME Types, NEW r \in Requests, call[r] # Idle, create_tournament(r)
  PROVE  Served(r)
<1>1. /\ call[r].kind # "me" /\ Len(users) \in Nat
      /\ UNCHANGED <<users, _sims, simCount, reboots>>
  BY DEF create_tournament, At, Types
<1>2. \E s \in Nat : Answered(r, s, 0)
  BY DEF create_tournament, Denied
<1>3. PICK x \in CallsOf(Len(users')) :
        call' = [call EXCEPT ![r] = x] /\ x.kind = call[r].kind
  BY <1>1, <1>2, CurrentUser, Answering
<1>4. _tournaments' \in Seq(DOMAIN users)
  <2>1. CASE UNCHANGED _tournaments
    BY <2>1 DEF Types
  <2>2. ASSUME NEW u \in current_user(r), _tournaments' = Append(_tournaments, u)
        PROVE  _tournaments' \in Seq(DOMAIN users)
    <3>1. u \in DOMAIN users /\ _tournaments \in Seq(DOMAIN users)
      BY CurrentUser DEF Types
    <3>. QED  BY <2>2, <3>1
  <2>. QED  BY <2>1, <2>2 DEF create_tournament
<1>. QED  BY <1>1, <1>3, <1>4 DEF Served, Types

LEMMA RefuseServes ==
  ASSUME Types, NEW r \in Requests, call[r] # Idle, Refuse(r)
  PROVE  Served(r)
<1>1. Keeps /\ call[r].stage # "answered" /\ 0 \in 0 .. Len(users)
  BY DEF Keeps, Refuse, Types
<1>2. PICK s \in {429, 500} : Answered(r, s, 0)
  BY DEF Refuse
<1>3. s \in Nat /\ s \notin {200, 401}
  BY <1>2
<1>. QED  BY <1>1, <1>2, <1>3, AnswerServes

LEMMA HandleServes ==
  ASSUME Types, NEW r \in Requests, Handle(r)
  PROVE  Served(r)
BY RefuseServes, SignupServes, LoginServes, MeServes, CreateSimServes, DeleteSimServes, TournamentServes
   DEF Handle

(***************************************************************************)
(* Every step keeps the invariant.                                         *)
(***************************************************************************)
LEMMA RowsStay ==
  ASSUME Types, NEW r, Served(r)
  PROVE  /\ users' \in Seq(Emails) /\ Len(users') \in Nat
         /\ 0 .. Len(users) \subseteq 0 .. Len(users')
         /\ DOMAIN users \subseteq DOMAIN users'
         /\ CallsOf(Len(users)) \subseteq CallsOf(Len(users'))
<1>1. CASE users' = users
  BY <1>1 DEF Types
<1>2. ASSUME NEW e \in Emails, users' = Append(users, e)
      PROVE  /\ users' \in Seq(Emails) /\ Len(users) \in Nat /\ Len(users') = Len(users) + 1
             /\ DOMAIN users' = 1 .. Len(users') /\ DOMAIN users = 1 .. Len(users)
  BY <1>2 DEF Types
<1>3. ASSUME NEW e \in Emails, users' = Append(users, e)
      PROVE  CallsOf(Len(users)) \subseteq CallsOf(Len(users'))
  BY <1>2, <1>3, CallsGrow
<1>. QED  BY <1>1, <1>2, <1>3 DEF Served

LEMMA SlotsAre ==
  /\ \A t \in Tabs, slot \in Slots : <<t, slot>> \in Requests
  /\ Own \subseteq Slots /\ Slots \ Own = {"old"} /\ "old" \notin Own
  /\ {"load", "editor", "form", "second"} = Own
BY DEF Requests, Slots, Own

LEMMA ServedTypes ==
  ASSUME Types, NEW r \in Requests, Served(r), UNCHANGED sessionVars
  PROVE  Types'
<1>1. PICK x \in CallsOf(Len(users')) : call' = [call EXCEPT ![r] = x]
  BY DEF Served
<1>2. call' \in [Requests -> CallsOf(Len(users')) \union {Idle}]
  BY <1>1, RowsStay DEF Types
<1>3. _tournaments' \in Seq(DOMAIN users')
  <2>1. _tournaments' \in Seq(DOMAIN users) /\ DOMAIN users \subseteq DOMAIN users'
    BY RowsStay DEF Served
  <2>. QED  BY <2>1
<1>4. /\ cookie' \in [Browsers -> 0 .. Len(users')]
      /\ store' \in [Tabs -> 0 .. Len(users')]
  BY RowsStay DEF Types, sessionVars
<1>5. \A s \in DOMAIN _sims' : _sims'[s] \in DOMAIN users'
  BY RowsStay DEF Served
<1>6. /\ lastAsked' \in [Tabs -> Own] /\ DOMAIN page' = Tabs /\ DOMAIN since' = Tabs
  BY DEF Types, sessionVars
<1>. QED  BY <1>2, <1>3, <1>4, <1>5, <1>6, RowsStay DEF Served, Types

(* What the server does shows in no page: a request keeps its kind, and    *)
(* the answer to /auth/me its token, unless it is a refusal.               *)
LEMMA ServerKeepsPages ==
  ASSUME Types, PageInv, UNCHANGED sessionVars,
         \A r \in Requests :
           \/ call'[r] = call[r]
           \/ /\ call[r] # Idle /\ call'[r].kind = call[r].kind
              /\ call[r].kind = "me" =>
                   \/ call'[r].token = call[r].token /\ call[r].stage # "answered"
                   \/ /\ call'[r].token = 0 /\ call'[r].stage = "answered"
                      /\ call'[r].status \notin {200, 401}
  PROVE  PageInv'
<1>1. UNCHANGED <<cookie, store, page, since, lastAsked, disturbed>>
  BY DEF sessionVars
<1>. SUFFICES ASSUME NEW t \in Tabs PROVE TabInv(t)'
  BY DEF PageInv
<1>2. TabInv(t) /\ Cookie(t)' = Cookie(t)
  BY <1>1 DEF PageInv, Cookie
<1>3. ASSUME NEW slot \in Own
      PROVE  /\ call'[<<t, slot>>].kind = call[<<t, slot>>].kind
             /\ Free(t, slot) => Free(t, slot)'
             /\ call[<<t, slot>>].kind = "me" =>
                  /\ call'[<<t, slot>>].token \in {call[<<t, slot>>].token, 0}
                  /\ Fresh(t, call[<<t, slot>>]) => Fresh(t, call[<<t, slot>>])'
  <2>1. <<t, slot>> \in Requests
    BY SlotsAre
  <2>. DEFINE c == call[<<t, slot>>]
              d == call'[<<t, slot>>]
  <2>2. \/ d = c
        \/ /\ c # Idle /\ d.kind = c.kind
           /\ c.kind = "me" =>
                \/ d.token = c.token /\ c.stage # "answered"
                \/ d.token = 0 /\ d.stage = "answered" /\ d.status \notin {200, 401}
    BY <2>1
  <2>3. Fresh(t, c)' <=> (d.stage = "answered" /\ d.status \notin {200, 401}) \/ d.token = Cookie(t)
    BY <1>2 DEF Fresh
  <2>4. Fresh(t, c) <=> (c.stage = "answered" /\ c.status \notin {200, 401}) \/ c.token = Cookie(t)
    BY DEF Fresh
  <2>5. (Free(t, slot) <=> c = Idle) /\ (Free(t, slot)' <=> d = Idle)
    BY DEF Free
  <2>. HIDE DEF c, d
  <2>6. /\ d.kind = c.kind /\ (c = Idle => d = Idle)
        /\ c.kind = "me" => d.token \in {c.token, 0} /\ (Fresh(t, c) => Fresh(t, c)')
    <3>1. CASE d = c
      BY <2>3, <2>4, <3>1
    <3>2. CASE d # c
      BY <2>2, <2>3, <2>4, <3>2
    <3>. QED  BY <3>1, <3>2
  <2>. QED  BY <2>5, <2>6 DEF c, d
<1>4. Asking(t)' = Asking(t)
  BY <1>3 DEF Asking
<1>5. Asked(t)'
  <2>1. \A slot \in Own : call'[<<t, slot>>].kind # "logout" /\ (Free(t, slot) => Free(t, slot)')
    BY <1>2, <1>3 DEF TabInv, Asked
  <2>2. page[t] # "open" => (\A slot \in Own : Free(t, slot)) /\ lastAsked[t] = "load" /\ store[t] = 0
    BY <1>2 DEF TabInv, Asked
  <2>3. page'[t] # "open" =>
          (\A slot \in Own : Free(t, slot)') /\ lastAsked'[t] = "load" /\ store'[t] = 0
    BY <1>1, <2>1, <2>2
  <2>. HIDE DEF Free
  <2>. QED  BY <2>1, <2>3 DEF Asked
<1>6. Dated(t)'
  BY <1>1, <1>2, <1>3, <1>4 DEF TabInv, Dated, Asking
<1>7. Shows(t)'
  <2>1. \A slot \in Asking(t) : Fresh(t, call[<<t, slot>>]) => Fresh(t, call[<<t, slot>>])'
    BY <1>3 DEF Asking
  <2>. QED  BY <1>1, <1>2, <1>4, <2>1 DEF TabInv, Shows, Fresh
<1>. QED  BY <1>5, <1>6, <1>7 DEF TabInv

LEMMA ServedPages ==
  ASSUME Types, PageInv, NEW r \in Requests, Served(r), UNCHANGED sessionVars
  PROVE  PageInv'
<1>1. PICK x \in CallsOf(Len(users')) :
        /\ call' = [call EXCEPT ![r] = x]
        /\ x.kind = call[r].kind
        /\ x.kind = "me" =>
             /\ call[r].stage # "answered" /\ x.stage = "answered"
             /\ x.token = call[r].token \/ (x.token = 0 /\ x.status \notin {200, 401})
  BY DEF Served
<1>2. call[r] # Idle
  BY DEF Served
<1>3. call'[r] = x /\ \A q \in Requests : q # r => call'[q] = call[q]
  BY <1>1 DEF Types
<1>. QED  BY <1>1, <1>2, <1>3, ServerKeepsPages

(* A restart answers every request that was on its way with a failure.     *)
LEMMA RebootKeeps ==
  ASSUME Types, PageInv, Reboot, UNCHANGED sessionVars
  PROVE  Types' /\ PageInv'
<1>1. /\ users' = users /\ simCount' = simCount /\ Len(users) \in Nat
      /\ UNCHANGED <<cookie, store, page, since, lastAsked, disturbed>>
  BY DEF Reboot, sessionVars, Types
<1>. DEFINE cut(c) == [kind |-> c.kind, stage |-> "answered", status |-> 0, token |-> 0]
<1>2. \A r \in Requests :
        call'[r] = IF call[r] # Idle /\ call[r].stage # "answered" THEN cut(call[r]) ELSE call[r]
  BY DEF Reboot
<1>3. ASSUME NEW r \in Requests, call[r] # Idle
      PROVE  cut(call[r]) \in CallsOf(Len(users))
  <2>1. call[r].kind \in Kinds
    BY <1>1, <1>3, CallFacts DEF Types
  <2>2. 0 \in 0 .. Len(users)
    BY <1>1
  <2>. QED  BY <1>1, <2>1, <2>2, AnswerFacts
<1>4. Types'
  <2>1. call' \in [Requests -> CallsOf(Len(users)) \union {Idle}]
    <3>1. DOMAIN call' = Requests /\ call' = [r \in Requests |-> call'[r]]
      BY DEF Reboot
    <3>2. \A r \in Requests : call'[r] \in CallsOf(Len(users)) \union {Idle}
      BY <1>2, <1>3 DEF Types
    <3>. QED  BY <3>1, <3>2
  <2>2. _sims' = << >> /\ _tournaments' = << >>
    BY DEF Reboot
  <2>. QED  BY <1>1, <2>1, <2>2 DEF Types
<1>5. PageInv'
  <2>1. \A c : /\ cut(c).kind = c.kind /\ cut(c).token = 0 /\ cut(c).stage = "answered"
               /\ cut(c).status \notin {200, 401}
    OBVIOUS
  <2>. HIDE DEF cut
  <2>. QED  BY <1>2, <2>1, ServerKeepsPages
<1>. QED  BY <1>4, <1>5

(***************************************************************************)
(* The tabs.                                                               *)
(***************************************************************************)

(* A step keeps the invariant of a tab whose document it does not touch,   *)
(* and the cookie of which it changes only where it disturbs it.           *)
LEMMA OtherTab ==
  ASSUME Types, PageInv, NEW a \in Tabs,
         \A slot \in Own : call'[<<a, slot>>] = call[<<a, slot>>],
         page'[a] = page[a], store'[a] = store[a], lastAsked'[a] = lastAsked[a],
         page[a] = "open" => since[a] \union {Cookie(a)'} \subseteq since'[a],
         page[a] = "open" /\ a \notin disturbed' => a \notin disturbed /\ Cookie(a)' = Cookie(a)
  PROVE  TabInv(a)'
<1>1. TabInv(a)
  BY DEF PageInv
<1>2. \A slot \in Own : call'[<<a, slot>>] = call[<<a, slot>>]
  OBVIOUS
<1>3. Asking(a)' = Asking(a) /\ Asking(a) \subseteq Own
  BY <1>2 DEF Asking
<1>4. Asked(a)'
  BY <1>1, <1>2 DEF TabInv, Asked, Free
<1>5. Dated(a)'
  <2>1. ASSUME page[a] = "open"
        PROVE  /\ Cookie(a)' \in since'[a] /\ store[a] \in {0} \union since[a]
               /\ \A slot \in Asking(a) : call[<<a, slot>>].token \in {0} \union since[a]
               /\ since[a] \subseteq since'[a]
    BY <1>1, <2>1 DEF TabInv, Dated
  <2>. QED  BY <1>2, <1>3, <2>1 DEF Dated
<1>6. Shows(a)'
  <2>1. Cookie(a)' = Cookie(a) =>
          \A slot \in Asking(a) : Fresh(a, call[<<a, slot>>]) => Fresh(a, call[<<a, slot>>])'
    BY <1>2, <1>3 DEF Fresh
  <2>. QED  BY <1>1, <1>2, <1>3, <2>1 DEF TabInv, Shows
<1>. QED  BY <1>4, <1>5, <1>6 DEF TabInv

(* A step that leaves every cookie, and the histories of other tabs.       *)
LEMMA QuietStep ==
  ASSUME Types, PageInv, NEW t \in Tabs, UNCHANGED cookie,
         \A a \in Tabs \ {t} :
           /\ \A slot \in Slots : call'[<<a, slot>>] = call[<<a, slot>>]
           /\ page'[a] = page[a] /\ store'[a] = store[a] /\ since'[a] = since[a]
           /\ lastAsked'[a] = lastAsked[a] /\ (a \in disturbed' <=> a \in disturbed),
         TabInv(t)'
  PROVE  PageInv'
<1>1. \A a \in Tabs : Cookie(a)' = Cookie(a)
  BY DEF Cookie
<1>2. ASSUME NEW a \in Tabs \ {t} PROVE TabInv(a)'
  <2>1. page[a] = "open" => since[a] \union {Cookie(a)'} \subseteq since'[a]
    BY <1>1 DEF PageInv, TabInv, Dated
  <2>. QED  BY <1>1, <2>1, OtherTab, SlotsAre
<1>. QED  BY <1>2 DEF PageInv

(* /auth/me as a page sends it.                                            *)
LEMMA MeIsSent ==
  ASSUME NEW n \in Nat, NEW v \in 0 .. n
  PROVE  /\ Sent([kind |-> "me"], v) \in CallsOf(n) /\ Sent([kind |-> "me"], v) # Idle
         /\ Sent([kind |-> "me"], v).kind = "me" /\ Sent([kind |-> "me"], v).token = v
         /\ Sent([kind |-> "me"], v).stage = "sent"
<1>1. [kind |-> "me"] \in AllAsks
  BY DEF AllAsks
<1>. QED  BY <1>1, SentFacts, CallFacts

LEMMA CookieIs ==
  ASSUME Types, NEW t \in Tabs
  PROVE  Cookie(t) \in 0 .. Len(users) /\ BrowserOf[t] \in Browsers /\ Len(users) \in Nat
BY SessionAssumption DEF Types, Cookie

(* A request that tab t puts in one of its slots.                          *)
LEMMA CallIs ==
  ASSUME Types, NEW t \in Tabs, NEW slot \in Slots,
         NEW c \in CallsOf(Len(users)) \union {Idle}, call' = [call EXCEPT ![<<t, slot>>] = c]
  PROVE  /\ call' \in [Requests -> CallsOf(Len(users)) \union {Idle}]
         /\ call'[<<t, slot>>] = c
         /\ \A s \in Slots : s # slot => call'[<<t, s>>] = call[<<t, s>>]
         /\ \A a \in Tabs \ {t}, s \in Slots : call'[<<a, s>>] = call[<<a, s>>]
BY SlotsAre DEF Types

(* A page that asks /auth/me with the cookie there is then: whatever it    *)
(* waits for, the last question is about the session.                      *)
LEMMA AskingAsks ==
  ASSUME Types, PageInv, NEW t \in Tabs, NEW slot \in Own,
         NEW v \in 0 .. Len(users), Cookie(t)' = v,
         call' = [call EXCEPT ![<<t, slot>>] = Sent([kind |-> "me"], v)],
         page'[t] = "open", lastAsked'[t] = slot, store'[t] = store[t],
         v \in since'[t], store[t] \in {0} \union since'[t],
         \A s \in Asking(t) : call[<<t, s>>].token \in {0} \union since'[t]
  PROVE  TabInv(t)'
<1>. DEFINE me == Sent([kind |-> "me"], v)
<1>1. me \in CallsOf(Len(users)) /\ me.kind = "me" /\ me.token = v /\ me.stage = "sent"
  BY CookieIs, MeIsSent
<1>2. call' = [call EXCEPT ![<<t, slot>>] = me] /\ Cookie(t)' = v
  OBVIOUS
<1>. HIDE DEF me
<1>3. /\ call'[<<t, slot>>] = me
      /\ \A s \in Own : s # slot => call'[<<t, s>>] = call[<<t, s>>]
  <2>1. slot \in Slots /\ Own \subseteq Slots /\ me \in CallsOf(Len(users)) \union {Idle}
    BY <1>1, SlotsAre
  <2>2. /\ call'[<<t, slot>>] = me
        /\ \A s \in Slots : s # slot => call'[<<t, s>>] = call[<<t, s>>]
    <3>1. <<t, slot>> \in Requests /\ DOMAIN call = Requests /\ \A s \in Slots : <<t, s>> \in Requests
      BY <2>1, SlotsAre DEF Types
    <3>2. \A s \in Slots : s # slot => <<t, s>> # <<t, slot>>
      OBVIOUS
    <3>. QED  BY <1>2, <3>1, <3>2
  <2>. QED  BY <2>1, <2>2
<1>4. slot \in Asking(t)' /\ \A s \in Asking(t)' : s = slot \/ s \in Asking(t)
  BY <1>1, <1>3 DEF Asking
<1>5. Asked(t)'
  <2>1. \A s \in Own : call[<<t, s>>].kind # "logout"
    BY DEF PageInv, TabInv, Asked
  <2>2. \A s \in Own : call'[<<t, s>>].kind # "logout"
    BY <1>1, <1>3, <2>1
  <2>. QED  BY <2>2 DEF Asked
<1>6. Dated(t)'
  <2>1. \A s \in Asking(t)' : call'[<<t, s>>].token \in {0} \union since'[t]
    <3>1. ASSUME NEW s \in Asking(t)', s # slot PROVE call'[<<t, s>>] = call[<<t, s>>] /\ s \in Asking(t)
      BY <1>3, <1>4, <3>1 DEF Asking
    <3>. QED  BY <1>1, <1>3, <3>1
  <2>. QED  BY <1>2, <2>1 DEF Dated
<1>7. Shows(t)'
  BY <1>1, <1>2, <1>3, <1>4 DEF Shows, Fresh
<1>. QED  BY <1>5, <1>6, <1>7 DEF TabInv

LEMMA OpenPageKeeps ==
  ASSUME Types, PageInv, NEW t \in Tabs, OpenPage(t)
  PROVE  Types' /\ PageInv'
<1>1. /\ UNCHANGED <<tables, cookie, store, lastAsked, disturbed>>
      /\ page' = [page EXCEPT ![t] = "open"] /\ since' = [since EXCEPT ![t] = {Cookie(t)}]
      /\ call' = [call EXCEPT ![<<t, "load">>] = Sent([kind |-> "me"], Cookie(t))]
      /\ page[t] # "open" /\ "load" \in Own
  BY SlotsAre DEF OpenPage, Send
<1>2. /\ page'[t] = "open" /\ since'[t] = {Cookie(t)}
      /\ \A a \in Tabs \ {t} : page'[a] = page[a] /\ since'[a] = since[a]
  BY <1>1 DEF Types
<1>3. (\A slot \in Own : Free(t, slot)) /\ lastAsked[t] = "load" /\ store[t] = 0
  BY <1>1 DEF PageInv, TabInv, Asked
<1>4. Asking(t) = {}
  BY <1>3 DEF Asking, Free, Idle
<1>5. /\ call' \in [Requests -> CallsOf(Len(users)) \union {Idle}]
      /\ \A a \in Tabs \ {t}, s \in Slots : call'[<<a, s>>] = call[<<a, s>>]
  BY <1>1, CookieIs, MeIsSent, CallIs, SlotsAre
<1>6. TabInv(t)'
  <2>1. Cookie(t)' = Cookie(t)
    BY <1>1 DEF Cookie
  <2>. QED  BY <1>1, <1>2, <1>3, <1>4, <2>1, CookieIs, AskingAsks
<1>7. PageInv'
  BY <1>1, <1>2, <1>5, <1>6, QuietStep
<1>8. Types'
  BY <1>1, <1>5 DEF Types, tables
<1>. QED  BY <1>7, <1>8

LEMMA OpenEditorKeeps ==
  ASSUME Types, PageInv, NEW t \in Tabs, OpenEditor(t)
  PROVE  Types' /\ PageInv'
<1>1. /\ UNCHANGED <<tables, cookie, store, page, since, disturbed>>
      /\ lastAsked' = [lastAsked EXCEPT ![t] = "editor"]
      /\ call' = [call EXCEPT ![<<t, "editor">>] = Sent([kind |-> "me"], Cookie(t))]
      /\ page[t] = "open" /\ "editor" \in Own
  BY SlotsAre DEF OpenEditor, Send
<1>2. /\ lastAsked' \in [Tabs -> Own] /\ lastAsked'[t] = "editor"
      /\ \A a \in Tabs \ {t} : lastAsked'[a] = lastAsked[a]
  BY <1>1 DEF Types
<1>3. /\ Cookie(t) \in since[t] /\ store[t] \in {0} \union since[t]
      /\ \A s \in Asking(t) : call[<<t, s>>].token \in {0} \union since[t]
  BY <1>1 DEF PageInv, TabInv, Dated
<1>4. /\ call' \in [Requests -> CallsOf(Len(users)) \union {Idle}]
      /\ \A a \in Tabs \ {t}, s \in Slots : call'[<<a, s>>] = call[<<a, s>>]
  BY <1>1, CookieIs, MeIsSent, CallIs, SlotsAre
<1>5. TabInv(t)'
  <2>1. Cookie(t)' = Cookie(t)
    BY <1>1 DEF Cookie
  <2>. QED  BY <1>1, <1>2, <1>3, <2>1, CookieIs, AskingAsks
<1>6. PageInv'
  BY <1>1, <1>2, <1>4, <1>5, QuietStep
<1>7. Types'
  BY <1>1, <1>2, <1>4 DEF Types, tables
<1>. QED  BY <1>6, <1>7

(* What a form asks for or is answered changes no question of its page.    *)
LEMMA FormStep ==
  ASSUME Types, PageInv, NEW t \in Tabs, NEW slot \in Own, NEW c,
         call[<<t, slot>>].kind # "me", c.kind \notin {"me", "logout"},
         call'[<<t, slot>>] = c,
         \A s \in Own : s # slot => call'[<<t, s>>] = call[<<t, s>>],
         page[t] = "open", page'[t] = page[t], store'[t] = store[t],
         lastAsked'[t] = lastAsked[t], Cookie(t)' = Cookie(t),
         since[t] \subseteq since'[t], t \notin disturbed' => t \notin disturbed
  PROVE  TabInv(t)'
<1>1. TabInv(t)
  BY DEF PageInv
<1>2. Asking(t)' = Asking(t) /\ slot \notin Asking(t) /\ Asking(t) \subseteq Own
  BY DEF Asking
<1>3. \A s \in Asking(t) : call'[<<t, s>>] = call[<<t, s>>]
  BY <1>2
<1>4. Asked(t)'
  BY <1>1 DEF TabInv, Asked
<1>5. Dated(t)'
  <2>1. /\ Cookie(t) \in since[t] /\ store[t] \in {0} \union since[t]
        /\ \A s \in Asking(t) : call[<<t, s>>].token \in {0} \union since[t]
    BY <1>1 DEF TabInv, Dated
  <2>. QED  BY <1>2, <1>3, <2>1 DEF Dated
<1>6. Shows(t)'
  BY <1>1, <1>2, <1>3 DEF TabInv, Shows, Fresh
<1>. QED  BY <1>4, <1>5, <1>6 DEF TabInv

(* A form's request asks for no user and changes no store.                 *)
LEMMA SubmitKeeps ==
  ASSUME Types, PageInv, NEW t \in Tabs, NEW slot \in Own, Submit(t, slot)
  PROVE  Types' /\ PageInv'
<1>1. PICK ask \in Asks : Send(t, slot, ask)
  BY DEF Submit
<1>. DEFINE c == Sent(ask, Cookie(t))
<1>2. ask \in AllAsks /\ ask.kind \notin {"me", "logout"}
  BY <1>1, AsksAreAsks DEF Types, Asks
<1>3. c \in CallsOf(Len(users)) /\ c.kind \notin {"me", "logout"}
  BY <1>2, CookieIs, SentFacts
<1>4. call' = [call EXCEPT ![<<t, slot>>] = c]
  BY <1>1 DEF Send
<1>. HIDE DEF c
<1>5. /\ call' \in [Requests -> CallsOf(Len(users)) \union {Idle}]
      /\ call'[<<t, slot>>] = c
      /\ \A s \in Own : s # slot => call'[<<t, s>>] = call[<<t, s>>]
      /\ \A a \in Tabs \ {t}, s \in Slots : call'[<<a, s>>] = call[<<a, s>>]
  BY <1>3, <1>4, CallIs, SlotsAre
<1>6. /\ UNCHANGED <<tables, cookie, store, page, since, lastAsked, disturbed>>
      /\ page[t] = "open" /\ call[<<t, slot>>].kind # "me"
  BY DEF Submit, Free, Idle
<1>7. TabInv(t)'
  <2>1. Cookie(t)' = Cookie(t)
    BY <1>6 DEF Cookie
  <2>. QED  BY <1>3, <1>5, <1>6, <2>1, FormStep
<1>8. PageInv'
  BY <1>5, <1>6, <1>7, QuietStep
<1>9. Types'
  BY <1>5, <1>6 DEF Types, tables
<1>. QED  BY <1>8, <1>9

(* Leaving a document, with or without a logout.                           *)
LEMMA UnloadKeeps ==
  ASSUME Types, PageInv, NEW t \in Tabs,
         NEW old \in CallsOf(Len(users)) \union {Idle}, Unload(t, old)
  PROVE  Types' /\ PageInv'
<1>1. /\ UNCHANGED <<tables, cookie>> /\ disturbed' = disturbed \ {t}
      /\ page' = [page EXCEPT ![t] = "leaving"] /\ store' = [store EXCEPT ![t] = 0]
      /\ since' = [since EXCEPT ![t] = {}] /\ lastAsked' = [lastAsked EXCEPT ![t] = "load"]
      /\ call' = [r \in Requests |->
                    IF r[1] # t THEN call[r] ELSE IF r[2] = "old" THEN old ELSE Idle]
  BY DEF Unload
<1>2. /\ page'[t] = "leaving" /\ store'[t] = 0 /\ lastAsked'[t] = "load" /\ t \notin disturbed'
      /\ store' \in [Tabs -> 0 .. Len(users)] /\ lastAsked' \in [Tabs -> Own]
      /\ DOMAIN page' = Tabs /\ DOMAIN since' = Tabs
      /\ \A a \in Tabs \ {t} :
           /\ page'[a] = page[a] /\ store'[a] = store[a] /\ since'[a] = since[a]
           /\ lastAsked'[a] = lastAsked[a] /\ (a \in disturbed' <=> a \in disturbed)
  BY <1>1, SlotsAre, CookieIs DEF Types
<1>3. call' \in [Requests -> CallsOf(Len(users)) \union {Idle}]
  BY <1>1 DEF Types
<1>4. /\ \A s \in Own : call'[<<t, s>>] = Idle
      /\ \A a \in Tabs \ {t}, s \in Slots : call'[<<a, s>>] = call[<<a, s>>]
  BY <1>1, SlotsAre
<1>5. TabInv(t)'
  <2>1. Idle.kind # "logout"
    BY DEF Idle
  <2>. QED  BY <1>2, <1>4, <2>1 DEF TabInv, Asked, Dated, Shows, Free
<1>6. PageInv'
  BY <1>1, <1>2, <1>4, <1>5, QuietStep
<1>7. Types'
  BY <1>1, <1>2, <1>3 DEF Types, tables
<1>. QED  BY <1>6, <1>7

LEMMA LeaveKeeps ==
  ASSUME Types, PageInv, NEW t \in Tabs, Leave(t) \/ ClickLogout(t)
  PROVE  Types' /\ PageInv'
<1>1. CASE Leave(t)
  <2>1. PICK slot \in {"form", "second"} : Unload(t, call[<<t, slot>>])
    BY <1>1 DEF Leave
  <2>2. call[<<t, slot>>] \in CallsOf(Len(users)) \union {Idle}
    BY SlotsAre DEF Types
  <2>. QED  BY <2>1, <2>2, UnloadKeeps
<1>2. CASE ClickLogout(t)
  <2>1. [kind |-> "logout"] \in AllAsks
    BY DEF AllAsks
  <2>2. Sent([kind |-> "logout"], Cookie(t)) \in CallsOf(Len(users))
    BY <2>1, CookieIs, SentFacts
  <2>. QED  BY <1>2, <2>2, UnloadKeeps DEF ClickLogout
<1>. QED  BY <1>1, <1>2

(* What an answer to a document of tab t does to the cookie.               *)
LEMMA CookieAfterIs ==
  ASSUME Types, NEW t \in Tabs, NEW c \in CallsOf(Len(users))
  PROVE  CookieAfter(t, c) \in 0 .. Len(users)
<1>1. c.token \in 0 .. Len(users) /\ Cookie(t) \in 0 .. Len(users) /\ 0 \in 0 .. Len(users)
  BY CookieIs, CallFacts
<1>. QED  BY <1>1 DEF CookieAfter

LEMMA CookieMoves ==
  ASSUME Types, PageInv, NEW t \in Tabs, NEW c \in CallsOf(Len(users)), SetCookie(t, c)
  PROVE  /\ cookie' \in [Browsers -> 0 .. Len(users)] /\ DOMAIN since' = Tabs
         /\ Cookie(t)' = CookieAfter(t, c)
         /\ \A a \in Tabs : page[a] = "open" =>
              /\ since[a] \union {Cookie(a)'} \subseteq since'[a]
              /\ a \notin Others(t, c) => Cookie(a)' = Cookie(a)
<1>. DEFINE v == CookieAfter(t, c)
<1>1. v \in 0 .. Len(users) /\ BrowserOf[t] \in Browsers
  BY CookieAfterIs, CookieIs
<1>2. /\ cookie' = [cookie EXCEPT ![BrowserOf[t]] = v]
      /\ since' = [a \in Tabs |->
           IF page[a] = "open" /\ BrowserOf[a] = BrowserOf[t] THEN since[a] \union {v} ELSE since[a]]
  BY DEF SetCookie
<1>3. Others(t, c) = {a \in Tabs : page[a] = "open" /\ BrowserOf[a] = BrowserOf[t] /\ v # Cookie(t)}
  BY DEF Others
<1>. HIDE DEF v
<1>4. cookie' \in [Browsers -> 0 .. Len(users)] /\ DOMAIN since' = Tabs
  BY <1>1, <1>2 DEF Types
<1>5. \A a \in Tabs : Cookie(a)' = IF BrowserOf[a] = BrowserOf[t] THEN v ELSE Cookie(a)
  BY <1>1, <1>2, CookieIs DEF Types, Cookie
<1>6. ASSUME NEW a \in Tabs, page[a] = "open"
      PROVE  /\ since[a] \union {Cookie(a)'} \subseteq since'[a]
             /\ a \notin Others(t, c) => Cookie(a)' = Cookie(a)
  <2>1. Cookie(a) \in since[a]
    BY <1>6 DEF PageInv, TabInv, Dated
  <2>2. BrowserOf[a] = BrowserOf[t] => Cookie(a) = Cookie(t)
    BY DEF Cookie
  <2>. QED  BY <1>2, <1>3, <1>5, <1>6, <2>1, <2>2
<1>. QED  BY <1>4, <1>5, <1>6 DEF v

(* The answers to a document that was left: they may set the cookie.       *)
LEMMA OldKeeps ==
  ASSUME Types, PageInv, NEW t \in Tabs, ReceiveOld(t) \/ DropOld(t)
  PROVE  Types' /\ PageInv'
<1>1. UNCHANGED <<tables, store, page, lastAsked>> /\ call' = [call EXCEPT ![<<t, "old">>] = Idle]
  BY DEF ReceiveOld, DropOld, sessionVars
<1>2. call' \in [Requests -> CallsOf(Len(users)) \union {Idle}]
  BY <1>1 DEF Types
<1>3. \A a \in Tabs, slot \in Own : call'[<<a, slot>>] = call[<<a, slot>>]
  BY <1>1, SlotsAre DEF Types
<1>4. CASE UNCHANGED <<cookie, since, disturbed>>
  <2>1. Types'
    BY <1>1, <1>2, <1>4 DEF Types, tables
  <2>2. ASSUME NEW a \in Tabs PROVE TabInv(a)'
    <3>1. Cookie(a)' = Cookie(a)
      BY <1>4 DEF Cookie
    <3>2. page[a] = "open" => since[a] \union {Cookie(a)'} \subseteq since'[a]
      BY <1>4, <3>1 DEF PageInv, TabInv, Dated
    <3>. QED  BY <1>1, <1>3, <1>4, <3>1, <3>2, OtherTab
  <2>. QED  BY <2>1, <2>2 DEF PageInv
<1>5. ASSUME NEW c \in CallsOf(Len(users)), SetCookie(t, c), disturbed' = disturbed \union Others(t, c)
      PROVE  Types' /\ PageInv'
  <2>1. Types'
    BY <1>1, <1>2, <1>5, CookieMoves DEF Types, tables
  <2>2. ASSUME NEW a \in Tabs PROVE TabInv(a)'
    <3>1. page[a] = "open" => since[a] \union {Cookie(a)'} \subseteq since'[a]
      BY <1>5, CookieMoves
    <3>2. page[a] = "open" /\ a \notin disturbed' => a \notin disturbed /\ Cookie(a)' = Cookie(a)
      BY <1>5, CookieMoves
    <3>. QED  BY <1>1, <1>3, <3>1, <3>2, OtherTab
  <2>. QED  BY <2>1, <2>2 DEF PageInv
<1>6. call[<<t, "old">>] # Idle => call[<<t, "old">>] \in CallsOf(Len(users))
  BY SlotsAre DEF Types
<1>. QED  BY <1>4, <1>5, <1>6 DEF ReceiveOld, DropOld, sessionVars

(* The answer to /auth/me: unless it misleads the page, it is about the    *)
(* session, or another question is still to be answered.                   *)
LEMMA MeShows ==
  ASSUME Types, PageInv, NEW t \in Tabs, NEW slot \in Own, Receive(t, slot),
         call[<<t, slot>>].kind = "me", page[t] = "open", Cookie(t)' = Cookie(t),
         call'[<<t, slot>>] = Idle, lastAsked'[t] = lastAsked[t],
         \A s \in Own : s # slot => call'[<<t, s>>] = call[<<t, s>>],
         since[t] \subseteq since'[t]
  PROVE  TabInv(t)'
<1>. DEFINE c == call[<<t, slot>>]
<1>1. /\ TabInv(t) /\ page'[t] = "open" /\ slot \in Asking(t) /\ c.stage = "answered"
      /\ store'[t] = IF c.status # 0 THEN c.token ELSE store[t]
  BY DEF PageInv, Receive, Asking, StoreAfter, Types
<1>2. t \notin disturbed' => t \notin disturbed /\ ~Misled(t, slot)
  BY DEF Receive
<1>3. /\ Asking(t)' = Asking(t) \ {slot} /\ Asking(t) \subseteq Own
      /\ \A s \in Asking(t)' : call'[<<t, s>>] = call[<<t, s>>]
  BY DEF Asking, Idle
<1>4. Asked(t)'
  BY <1>1 DEF TabInv, Asked, Idle
<1>5. Dated(t)'
  <2>1. /\ Cookie(t) \in since[t] /\ store[t] \in {0} \union since[t]
        /\ \A s \in Asking(t) : call[<<t, s>>].token \in {0} \union since[t]
    BY <1>1 DEF TabInv, Dated
  <2>. QED  BY <1>1, <1>3, <2>1 DEF Dated
<1>6. Shows(t)'
  <2>. SUFFICES ASSUME t \notin disturbed'
                PROVE  /\ lastAsked[t] \in Asking(t)' => Fresh(t, call[<<t, lastAsked[t]>>])'
                       /\ lastAsked[t] \notin Asking(t)' =>
                            /\ store'[t] = Cookie(t)
                            /\ \A s \in Asking(t)' : Fresh(t, call[<<t, s>>])'
    BY DEF Shows
  <2>1. /\ t \notin disturbed /\ c.status \in {200, 401}
        /\ slot = lastAsked[t] => \A s \in Asking(t) : call[<<t, s>>].token = c.token
    BY <1>2 DEF Misled
  <2>2. store'[t] = c.token /\ (Fresh(t, c) => c.token = Cookie(t))
    BY <1>1, <2>1 DEF Fresh
  <2>3. /\ lastAsked[t] \in Asking(t) => Fresh(t, call[<<t, lastAsked[t]>>])
        /\ lastAsked[t] \notin Asking(t) =>
             store[t] = Cookie(t) /\ \A s \in Asking(t) : Fresh(t, call[<<t, s>>])
    BY <1>1, <2>1 DEF TabInv, Shows
  <2>4. \A s \in Asking(t)' : Fresh(t, call[<<t, s>>]) => Fresh(t, call[<<t, s>>])'
    BY <1>3 DEF Fresh
  <2>5. CASE slot = lastAsked[t]
    <3>1. c.token = Cookie(t)
      BY <1>1, <2>2, <2>3, <2>5
    <3>2. \A s \in Asking(t) : Fresh(t, call[<<t, s>>])
      BY <2>1, <2>5, <3>1 DEF Fresh
    <3>. QED  BY <1>3, <2>2, <2>4, <2>5, <3>1, <3>2
  <2>6. CASE slot # lastAsked[t] /\ lastAsked[t] \in Asking(t)
    BY <1>3, <2>3, <2>4, <2>6
  <2>7. CASE lastAsked[t] \notin Asking(t)
    <3>1. c.token = Cookie(t)
      BY <1>1, <2>2, <2>3, <2>7
    <3>. QED  BY <1>3, <2>2, <2>3, <2>4, <2>7, <3>1
  <2>. QED  BY <2>5, <2>6, <2>7
<1>. QED  BY <1>4, <1>5, <1>6 DEF TabInv

(* An answer to the document that asked.                                   *)
LEMMA ReceiveKeeps ==
  ASSUME Types, PageInv, NEW t \in Tabs, NEW slot \in Own, Receive(t, slot)
  PROVE  Types' /\ PageInv'
<1>. DEFINE c == call[<<t, slot>>]
            v == CookieAfter(t, c)
            d == FollowUp(t, c)
<1>1. /\ c # Idle /\ c.stage = "answered" /\ SetCookie(t, c)
      /\ store' = [store EXCEPT ![t] = StoreAfter(t, c)]
      /\ call' = [call EXCEPT ![<<t, slot>>] = d]
      /\ lastAsked' = [lastAsked EXCEPT ![t] = IF d # Idle THEN slot ELSE @]
      /\ Others(t, c) \ {t} \subseteq disturbed' /\ disturbed \subseteq disturbed'
      /\ UNCHANGED <<tables, page>>
  BY DEF Receive
<1>2. c \in CallsOf(Len(users)) /\ slot \in Slots /\ c.kind # "logout"
  <2>1. slot \in Slots /\ <<t, slot>> \in Requests
    BY SlotsAre
  <2>2. c \in CallsOf(Len(users))
    BY <1>1, <2>1 DEF Types
  <2>3. c.kind # "logout"
    BY DEF PageInv, TabInv, Asked
  <2>. QED  BY <2>1, <2>2, <2>3
<1>3. v \in 0 .. Len(users) /\ Len(users) \in Nat /\ c.token \in 0 .. Len(users)
  BY <1>2, CookieAfterIs, CookieIs, CallFacts
<1>4. /\ d \in CallsOf(Len(users)) \union {Idle}
      /\ c.kind \in {"signup", "login"} /\ c.token # 0 =>
           d = Sent([kind |-> "me"], v) /\ d # Idle
      /\ ~(c.kind \in {"signup", "login"} /\ c.token # 0) => d = Idle /\ v = Cookie(t)
  <2>1. /\ Sent([kind |-> "me"], v) \in CallsOf(Len(users))
        /\ Sent([kind |-> "me"], v) # Idle
    BY <1>3, MeIsSent
  <2>. QED  BY <1>2, <2>1 DEF FollowUp, CookieAfter
<1>5. /\ cookie' \in [Browsers -> 0 .. Len(users)] /\ DOMAIN since' = Tabs
      /\ Cookie(t)' = v
      /\ \A a \in Tabs : page[a] = "open" =>
           /\ since[a] \union {Cookie(a)'} \subseteq since'[a]
           /\ a \notin Others(t, c) => Cookie(a)' = Cookie(a)
  BY <1>1, <1>2, CookieMoves
<1>6. StoreAfter(t, c) \in 0 .. Len(users) /\ (c.kind # "me" => StoreAfter(t, c) = store[t])
  BY <1>3 DEF StoreAfter, Types
<1>7. page[t] = "open"
  BY <1>1 DEF PageInv, TabInv, Asked, Free
<1>. HIDE DEF c, v, d
<1>8. /\ call' \in [Requests -> CallsOf(Len(users)) \union {Idle}]
      /\ call'[<<t, slot>>] = d
      /\ \A s \in Own : s # slot => call'[<<t, s>>] = call[<<t, s>>]
      /\ \A a \in Tabs \ {t}, s \in Own : call'[<<a, s>>] = call[<<a, s>>]
  <2>1. Own \subseteq Slots
    BY SlotsAre
  <2>2. slot \in Slots /\ d \in CallsOf(Len(users)) \union {Idle}
    BY <1>2, <1>4
  <2>3. call' = [call EXCEPT ![<<t, slot>>] = d]
    BY <1>1
  <2>4. /\ call' \in [Requests -> CallsOf(Len(users)) \union {Idle}]
        /\ call'[<<t, slot>>] = d
        /\ \A s \in Slots : s # slot => call'[<<t, s>>] = call[<<t, s>>]
        /\ \A a \in Tabs \ {t}, s \in Slots : call'[<<a, s>>] = call[<<a, s>>]
    BY <2>2, <2>3, CallIs
  <2>. QED  BY <2>1, <2>4
<1>9. /\ store' \in [Tabs -> 0 .. Len(users)] /\ store'[t] = StoreAfter(t, c)
      /\ lastAsked' \in [Tabs -> Own] /\ lastAsked'[t] = IF d # Idle THEN slot ELSE lastAsked[t]
      /\ \A a \in Tabs \ {t} : store'[a] = store[a] /\ lastAsked'[a] = lastAsked[a]
  BY <1>1, <1>6 DEF Types
<1>10. Types'
  BY <1>1, <1>5, <1>8, <1>9 DEF Types, tables
<1>11. TabInv(t)'
  <2>1. CASE c.kind = "me"
    <3>1. d = Idle /\ v = Cookie(t)
      BY <1>4, <2>1
    <3>. QED  BY <1>5, <1>7, <1>8, <1>9, <2>1, <3>1, MeShows DEF c
  <2>2. CASE c.kind \in {"signup", "login"} /\ c.token # 0
    <3>1. /\ d = Sent([kind |-> "me"], v) /\ d # Idle /\ store'[t] = store[t]
          /\ lastAsked'[t] = slot /\ page'[t] = "open"
      BY <1>1, <1>4, <1>6, <1>7, <1>9, <2>2
    <3>2. /\ store[t] \in {0} \union since[t]
          /\ \A s \in Asking(t) : call[<<t, s>>].token \in {0} \union since[t]
      BY <1>7 DEF PageInv, TabInv, Dated
    <3>3. v \in since'[t] /\ since[t] \subseteq since'[t]
      BY <1>5, <1>7
    <3>4. call' = [call EXCEPT ![<<t, slot>>] = Sent([kind |-> "me"], v)]
      BY <1>1, <3>1
    <3>. QED  BY <1>3, <1>5, <3>1, <3>2, <3>3, <3>4, AskingAsks
  <2>3. CASE c.kind # "me" /\ ~(c.kind \in {"signup", "login"} /\ c.token # 0)
    <3>1. d = Idle /\ v = Cookie(t) /\ d.kind \notin {"me", "logout"}
      BY <1>4, <2>3 DEF Idle
    <3>2. /\ store'[t] = store[t] /\ lastAsked'[t] = lastAsked[t] /\ page'[t] = page[t]
          /\ since[t] \subseteq since'[t] /\ (t \notin disturbed' => t \notin disturbed)
      BY <1>1, <1>5, <1>6, <1>7, <1>9, <2>3, <3>1
    <3>3. call[<<t, slot>>].kind # "me"
      BY <2>3 DEF c
    <3>4. Cookie(t)' = Cookie(t)
      BY <1>5, <3>1
    <3>5. call'[<<t, slot>>] = d /\ \A s \in Own : s # slot => call'[<<t, s>>] = call[<<t, s>>]
      BY <1>8
    <3>. QED  BY <1>7, <3>1, <3>2, <3>3, <3>4, <3>5, FormStep
  <2>. QED  BY <2>1, <2>2, <2>3
<1>12. ASSUME NEW a \in Tabs \ {t} PROVE TabInv(a)'
  <2>1. page[a] = "open" => since[a] \union {Cookie(a)'} \subseteq since'[a]
    BY <1>5
  <2>2. page[a] = "open" /\ a \notin disturbed' => a \notin disturbed /\ Cookie(a)' = Cookie(a)
    BY <1>1, <1>5
  <2>. QED  BY <1>1, <1>8, <1>9, <2>1, <2>2, OtherTab
<1>. QED  BY <1>10, <1>11, <1>12 DEF PageInv

SessionInv == Types /\ PageInv

LEMMA InitSession == SessionInit => SessionInv /\ EmailsUnique
<1>. SUFFICES ASSUME SessionInit PROVE SessionInv /\ EmailsUnique
  OBVIOUS
<1>1. PICK n \in 0 .. MaxRows :
        users \in {rows \in [1 .. n -> Emails] : \A u, v \in 1 .. n : rows[u] = rows[v] => u = v}
  BY DEF SessionInit, AccountsInit
<1>2. n \in Nat /\ users \in [1 .. n -> Emails]
  BY <1>1, AccountsAssumption
<1>3. users \in Seq(Emails) /\ Len(users) = n /\ DOMAIN users = 1 .. n
  BY <1>2
<1>4. Types
  <2>1. "load" \in Own /\ 0 \in 0 .. Len(users)
    BY <1>2, <1>3, SlotsAre
  <2>2. /\ _sims = << >> /\ simCount \in Nat /\ _tournaments \in Seq(DOMAIN users)
        /\ call \in [Requests -> CallsOf(Len(users)) \union {Idle}]
    BY DEF SessionInit, AccountsInit
  <2>3. /\ cookie \in [Browsers -> 0 .. Len(users)] /\ store \in [Tabs -> 0 .. Len(users)]
        /\ lastAsked \in [Tabs -> Own] /\ DOMAIN page = Tabs /\ DOMAIN since = Tabs
    BY <2>1 DEF SessionInit
  <2>. QED  BY <1>3, <2>2, <2>3 DEF Types
<1>5. PageInv
  <2>1. \A t \in Tabs : /\ page[t] = "leaving" /\ store[t] = 0 /\ lastAsked[t] = "load"
                        /\ \A slot \in Own : call[<<t, slot>>] = Idle
    BY SlotsAre DEF SessionInit, AccountsInit
  <2>2. Idle.kind # "logout"
    BY DEF Idle
  <2>. QED  BY <2>1, <2>2 DEF PageInv, TabInv, Asked, Dated, Shows, Free
<1>6. EmailsUnique
  BY <1>1, <1>3 DEF EmailsUnique
<1>. QED  BY <1>4, <1>5, <1>6 DEF SessionInv

LEMMA NextSession ==
  SessionInv /\ [SessionNext]_<<accountsVars, sessionVars>> => SessionInv'
<1>. SUFFICES ASSUME Types, PageInv, [SessionNext]_<<accountsVars, sessionVars>>
              PROVE  SessionInv'
  BY DEF SessionInv
<1>1. CASE Reboot /\ UNCHANGED sessionVars
  BY <1>1, RebootKeeps DEF SessionInv
<1>2. ASSUME NEW r \in Requests, Handle(r), UNCHANGED sessionVars PROVE SessionInv'
  BY <1>2, HandleServes, ServedTypes, ServedPages DEF SessionInv
<1>3. ASSUME NEW t \in Tabs, OpenPage(t) \/ OpenEditor(t) \/ Leave(t) \/ ClickLogout(t)
      PROVE  SessionInv'
  BY <1>3, OpenPageKeeps, OpenEditorKeeps, LeaveKeeps DEF SessionInv
<1>4. ASSUME NEW t \in Tabs, ReceiveOld(t) \/ DropOld(t) PROVE SessionInv'
  BY <1>4, OldKeeps DEF SessionInv
<1>5. ASSUME NEW t \in Tabs, NEW slot \in Own, Submit(t, slot) \/ Receive(t, slot)
      PROVE  SessionInv'
  BY <1>5, SubmitKeeps, ReceiveKeeps DEF SessionInv
<1>6. CASE UNCHANGED <<accountsVars, sessionVars>>
  <2>1. /\ UNCHANGED <<users, _sims, simCount, _tournaments, call>>
        /\ UNCHANGED <<cookie, store, page, since, lastAsked, disturbed>>
    BY <1>6 DEF accountsVars, sessionVars
  <2>2. Types'
    BY <2>1 DEF Types
  <2>3. UNCHANGED sessionVars
    BY <1>6
  <2>. QED  BY <2>1, <2>2, <2>3, ServerKeepsPages DEF SessionInv
<1>. QED
  BY <1>1, <1>2, <1>3, <1>4, <1>5, <1>6 DEF SessionNext, AccountsNext

LEMMA AlwaysSession == SessionSpec => []SessionInv
BY InitSession, NextSession, PTL DEF SessionSpec

(* Two signups with one e-mail both find it free, and one of them fails.   *)
THEOREM AccountsAreUnique == SessionSpec => []EmailsUnique
<1>1. /\ SessionInv /\ EmailsUnique /\ [SessionNext]_<<accountsVars, sessionVars>>
      => EmailsUnique'
  <2>. SUFFICES ASSUME Types, EmailsUnique, [SessionNext]_<<accountsVars, sessionVars>>
                PROVE  EmailsUnique'
    BY DEF SessionInv
  <2>1. CASE users' = users
    BY <2>1 DEF EmailsUnique
  <2>2. ASSUME NEW e \in Emails, RowsOf(e) = {}, users' = Append(users, e) PROVE EmailsUnique'
    <3>1. /\ Len(users) \in Nat /\ DOMAIN users = 1 .. Len(users)
          /\ DOMAIN users' = 1 .. Len(users) + 1 /\ users'[Len(users) + 1] = e
          /\ \A u \in DOMAIN users : users'[u] = users[u]
      BY <2>2 DEF Types
    <3>2. \A u \in DOMAIN users : users[u] # e
      BY <2>2 DEF RowsOf
    <3>. QED  BY <3>1, <3>2 DEF EmailsUnique
  <2>3. ASSUME NEW r \in Requests, Handle(r) PROVE EmailsUnique'
    BY <2>1, <2>2, <2>3, HandleServes DEF Served
  <2>4. ASSUME NEW t \in Tabs, NEW slot \in Own, Submit(t, slot) \/ Receive(t, slot)
        PROVE  users' = users
    BY <2>4 DEF Submit, Receive, tables
  <2>5. ASSUME NEW t \in Tabs,
               \/ OpenPage(t) \/ OpenEditor(t) \/ Leave(t) \/ ClickLogout(t)
               \/ ReceiveOld(t) \/ DropOld(t)
        PROVE  users' = users
    BY <2>5 DEF OpenPage, OpenEditor, Leave, ClickLogout, Unload, ReceiveOld, DropOld, tables
  <2>6. CASE Reboot \/ UNCHANGED <<accountsVars, sessionVars>>
    BY <2>1, <2>6 DEF Reboot, accountsVars
  <2>. QED  BY <2>1, <2>3, <2>4, <2>5, <2>6 DEF SessionNext, AccountsNext
<1>. QED  BY <1>1, InitSession, AlwaysSession, PTL DEF SessionSpec

(* Cookies, tokens, owners and creators are accounts of the table.         *)
THEOREM TokensAreAccounts == SessionSpec => []TokensNameAccounts
<1>1. SessionInv => TokensNameAccounts
  <2>. SUFFICES ASSUME Types PROVE TokensNameAccounts
    BY DEF SessionInv
  <2>1. \A n \in DOMAIN _tournaments : _tournaments[n] \in DOMAIN users
    BY DEF Types
  <2>2. ASSUME NEW r \in Requests, call[r] # Idle PROVE call[r].token \in 0 .. Len(users)
    <3>1. call[r] \in CallsOf(Len(users)) /\ Len(users) \in Nat
      BY <2>2 DEF Types
    <3>. QED  BY <3>1, CallFacts
  <2>3. \A t \in Tabs : {Cookie(t), store[t]} \subseteq 0 .. Len(users)
    BY CookieIs DEF Types
  <2>. QED  BY <2>1, <2>2, <2>3 DEF TokensNameAccounts, Types
<1>. QED  BY <1>1, AlwaysSession, PTL

(* A page shows nobody or an account of its browser since it was loaded,   *)
(* and the session there is unless a refused or lost answer, answers in    *)
(* another order than the questions, or another document misled it.        *)
THEOREM PagesShowTheSession == SessionSpec => []PageShowsTheSession
<1>1. SessionInv => PageShowsTheSession
  BY DEF SessionInv, PageInv, TabInv, Dated, Shows, PageShowsTheSession
<1>. QED  BY <1>1, AlwaysSession, PTL
=============================================================================
