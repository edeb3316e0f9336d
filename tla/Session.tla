------------------------------ MODULE Session ------------------------------
(***************************************************************************)
(* The browsers' side of accounts: the cookie with the token, which all     *)
(* tabs of a browser share, and the auth store of each tab that says who is *)
(* logged in.  A document is loaded with an empty store and asks /auth/me   *)
(* once; links are navigated within the document, which keeps the store and *)
(* what is under way, so they change nothing here but that the editor asks. *)
(* The answers of a document that was left still change the cookie, or are  *)
(* dropped.                                                                 *)
(***************************************************************************)
EXTENDS Accounts

CONSTANTS
  Browsers, BrowserOf,
  MaxForms   \* bound: what the users of all tabs do

ASSUME SessionAssumption == BrowserOf \in [Tabs -> Browsers] /\ MaxForms \in Nat

VARIABLES
  cookie,    \* per browser: the token of gol_token, 0 when it has none
  store,     \* per tab: the user it shows as logged in, 0 for nobody
  page,      \* per tab: "open", or "leaving" until the next document is loaded
  since,     \* history: the cookies of its browser since its document was loaded
  lastAsked, \* history: the slot of the document's last /auth/me
  disturbed, \* history: the tabs whose store was left behind, see Misled and Others
  forms

sessionVars == <<cookie, store, page, since, lastAsked, disturbed, forms>>
tables == <<users, _sims, simCount, _tournaments, reboots>>

\* A browser may have the cookie of an earlier login.
SessionInit ==
  /\ AccountsInit
  /\ cookie \in [Browsers -> 0 .. Len(users)] /\ store = [t \in Tabs |-> 0]
  /\ page = [t \in Tabs |-> "leaving"] /\ since = [t \in Tabs |-> {}]
  /\ lastAsked = [t \in Tabs |-> "load"] /\ disturbed = {} /\ forms = 0

Cookie(t) == cookie[BrowserOf[t]]
Free(t, slot) == call[<<t, slot>>] = Idle
Send(t, slot, request) ==
  call' = [call EXCEPT ![<<t, slot>>] = Sent(request, Cookie(t))]

\* Slots of the document that is open; its /auth/me under way.
Own == Slots \ {"old"}
Asking(t) == {slot \in Own : call[<<t, slot>>].kind = "me"}

\* The layout's onMount, once per document.
OpenPage(t) ==
  /\ page[t] = "leaving"
  /\ page' = [page EXCEPT ![t] = "open"]
  /\ since' = [since EXCEPT ![t] = {Cookie(t)}]
  /\ Send(t, "load", [kind |-> "me"])
  /\ UNCHANGED <<tables, cookie, store, lastAsked, disturbed, forms>>

UserActs == forms < MaxForms /\ forms' = forms + 1

\* The editor is opened, by a link or with the document.
OpenEditor(t) ==
  /\ page[t] = "open" /\ store[t] = 0 /\ Free(t, "editor")
  /\ UserActs
  /\ lastAsked' = [lastAsked EXCEPT ![t] = "editor"]
  /\ Send(t, "editor", [kind |-> "me"])
  /\ UNCHANGED <<tables, cookie, store, page, since, disturbed>>

Asks ==
  [kind : {"signup", "login"}, email : Emails]
    \union [kind : {"create_sim", "create_tournament"}]
    \union [kind : {"delete_sim"}, sim : 1 .. simCount]

\* A form; it is disabled until its request has ended.
Submit(t, slot) ==
  /\ page[t] = "open" /\ slot \in {"form", "second"} /\ Free(t, slot)
  /\ slot = "second" => ~Free(t, "form")
  /\ UserActs
  /\ \E ask \in Asks : Send(t, slot, ask)
  /\ UNCHANGED <<tables, cookie, store, page, since, lastAsked, disturbed>>

\* The document goes, with its store and what it was to receive; old: the
\* request that may have an effect still.
Unload(t, old) ==
  /\ page[t] = "open" /\ Free(t, "old")
  /\ UserActs
  /\ page' = [page EXCEPT ![t] = "leaving"]
  /\ store' = [store EXCEPT ![t] = 0]
  /\ since' = [since EXCEPT ![t] = {}]
  /\ lastAsked' = [lastAsked EXCEPT ![t] = "load"]
  /\ disturbed' = disturbed \ {t}
  /\ call' = [r \in Requests |->
                IF r[1] # t THEN call[r] ELSE IF r[2] = "old" THEN old ELSE Idle]
  /\ UNCHANGED <<tables, cookie>>

\* Another document is asked for, or this one again.  Bound: of two forms'
\* requests under way one is followed.
Leave(t) == \E slot \in {"form", "second"} : Unload(t, call[<<t, slot>>])

\* The layout's Logout button: the request is not awaited before the tab goes
\* to "/".  Bound: no form's request is left at the same time.
ClickLogout(t) ==
  /\ store[t] # 0 /\ Free(t, "form") /\ Free(t, "second")
  /\ Unload(t, Sent([kind |-> "logout"], Cookie(t)))

\* The cookie after an answer has arrived.
CookieAfter(t, c) ==
  IF c.kind \in {"signup", "login"} /\ c.token # 0 THEN c.token
  ELSE IF c.kind = "logout" /\ c.status = 200 THEN 0 ELSE Cookie(t)

\* The store after the answer to /auth/me: nobody when it is not ok, whatever
\* the cookie; a request that failed throws.
StoreAfter(t, c) ==
  IF c.kind = "me" /\ c.status # 0 THEN c.token ELSE store[t]

\* Mutant: the server is not asked who logged in.
NoFollowUp(t, c) == Idle

\* After a signup or login the store asks /auth/me.
FollowUp(t, c) ==
  IF c.kind \in {"signup", "login"} /\ c.token # 0
    THEN Sent([kind |-> "me"], CookieAfter(t, c)) ELSE Idle

SetCookie(t, c) ==
  /\ cookie' = [cookie EXCEPT ![BrowserOf[t]] = CookieAfter(t, c)]
  /\ since' = [u \in Tabs |->
       IF page[u] = "open" /\ BrowserOf[u] = BrowserOf[t]
         THEN since[u] \union {CookieAfter(t, c)} ELSE since[u]]

\* The open documents whose browser gets another cookie by an answer to t.
Others(t, c) ==
  {u \in Tabs : page[u] = "open" /\ BrowserOf[u] = BrowserOf[t] /\ CookieAfter(t, c) # Cookie(t)}

\* /auth/me was not answered with a user or 401; or its last answer came
\* before that of a request sent earlier with another cookie.
Misled(t, slot) ==
  LET c == call[<<t, slot>>] IN
  /\ c.kind = "me"
  /\ \/ c.status \notin {200, 401}
     \/ slot = lastAsked[t] /\ \E s \in Asking(t) : call[<<t, s>>].token # c.token

\* An answer arrives at the document that asked.
Receive(t, slot) ==
  LET c == call[<<t, slot>>] IN
  /\ slot \in Own /\ c # Idle /\ c.stage = "answered"
  /\ SetCookie(t, c)
  /\ store' = [store EXCEPT ![t] = StoreAfter(t, c)]
  /\ call' = [call EXCEPT ![<<t, slot>>] = FollowUp(t, c)]
  /\ lastAsked' = [lastAsked EXCEPT ![t] = IF FollowUp(t, c) # Idle THEN slot ELSE @]
  /\ disturbed' = disturbed \union (Others(t, c) \ {t})
                            \union (IF Misled(t, slot) THEN {t} ELSE {})
  /\ UNCHANGED <<tables, page, forms>>

\* An answer to a document that was left: the cookie is set, or the
\* navigation dropped the answer.
ReceiveOld(t) ==
  LET c == call[<<t, "old">>] IN
  /\ c # Idle /\ c.stage = "answered"
  /\ \/ SetCookie(t, c) /\ disturbed' = disturbed \union Others(t, c)
     \/ UNCHANGED <<cookie, since, disturbed>>
  /\ call' = [call EXCEPT ![<<t, "old">>] = Idle]
  /\ UNCHANGED <<tables, store, page, lastAsked, forms>>

\* The navigation drops a request before the server has it.
DropOld(t) ==
  /\ ~Free(t, "old") /\ call[<<t, "old">>].stage = "sent"
  /\ call' = [call EXCEPT ![<<t, "old">>] = Idle]
  /\ UNCHANGED <<tables, sessionVars>>

SessionNext ==
  \/ AccountsNext /\ UNCHANGED sessionVars
  \/ \E t \in Tabs :
       \/ OpenPage(t) \/ OpenEditor(t) \/ Leave(t) \/ ClickLogout(t)
       \/ ReceiveOld(t) \/ DropOld(t)
       \/ \E slot \in Own : Submit(t, slot) \/ Receive(t, slot)

SessionSpec == SessionInit /\ [][SessionNext]_<<accountsVars, sessionVars>>

(***************************************************************************)
(* Properties.                                                             *)
(***************************************************************************)

\* Whatever a signup's failed commit, a logout or a restart leaves behind, every
\* cookie, token under way, shown user, owner of a simulation and creator of a
\* tournament is an account of the table.
TokensNameAccounts ==
  /\ \A s \in DOMAIN _sims : _sims[s] \in DOMAIN users
  /\ \A n \in DOMAIN _tournaments : _tournaments[n] \in DOMAIN users
  /\ \A t \in Tabs : {Cookie(t), store[t]} \subseteq 0 .. Len(users)
  /\ \A r \in Requests : call[r] # Idle => call[r].token \in 0 .. Len(users)

\* However requests, tabs, logouts and refused answers cross, a page shows
\* nobody or an account its browser was logged in with since the document was
\* loaded.  It shows the session its browser has once its /auth/me are
\* answered, as long as none of them was refused or lost, none came after the
\* answer of a later one, and no other document changed the cookie.
PageShowsTheSession ==
  \A t \in Tabs : page[t] = "open" =>
    /\ store[t] \in {0} \union since[t]
    /\ t \notin disturbed /\ Asking(t) = {} => store[t] = Cookie(t)
=============================================================================
