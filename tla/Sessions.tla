------------------------------- MODULE Sessions -------------------------------
(***************************************************************************)
(* Accounts and sessions: the web client of a browser, whose tabs share    *)
(* one pair of tokens in localStorage, and the service that registers,     *)
(* signs in, rotates refresh tokens and changes passwords.                 *)
(*                                                                         *)
(* Every exchange with the server is a record of `call`: the requests of a *)
(* tab, and the refresh of the tab, which all its requests share.  A       *)
(* session stands for the refresh token and the access token issued with   *)
(* it; a session is known by its place in `tokens`.                        *)
(***************************************************************************)
EXTENDS Naturals, Sequences, FiniteSets

CONSTANTS
  Users, Passwords, Browsers, Tabs, Calls,
  BrowserOf,          \* [Tabs -> Browsers]
  TabOf,              \* [Calls -> Tabs]: the requests a tab can have at once
  Starts,             \* sequences of [user, browser]: who is signed in at first
  FirstPassword,      \* of the accounts there are at first
  AllowRegistration,  \* ALLOW_REGISTRATION
  MaxSessions, MaxMoves, MaxOpen,
                      \* bounds: sessions; requests, resets and faults; requests at once
  None

ASSUME SessionsAssumption ==
  /\ BrowserOf \in [Tabs -> Browsers] /\ TabOf \in [Calls -> Tabs]
  /\ Tabs \cap Calls = {} /\ None \notin Users \cup Passwords \cup Browsers \cup {"cli"}
  /\ "cli" \notin Browsers
  /\ FirstPassword \in Passwords /\ AllowRegistration \in BOOLEAN
  /\ MaxSessions \in Nat /\ MaxMoves \in Nat /\ MaxOpen \in Nat
  /\ \A start \in Starts :
       start \in Seq([user: Users, browser: Browsers]) /\ Len(start) <= MaxSessions

VARIABLES
  accounts,    \* users: [password, changes], or NoAccount
  workspaces,  \* the owners of each workspace (workspace_members)
  tokens,      \* refresh_tokens
  stored,      \* localStorage of each browser: a session, or 0
  call,        \* the exchanges
  signedIn,    \* history: who signed in to a browser, and has not signed out
  held,        \* history: the last session a browser stored
  disturbed,   \* history: browsers where exchanges overlapped, or one failed
  offered,     \* whether the pages that are open offer to register
  moves

tables  == <<accounts, workspaces, tokens>>
history == <<signedIn, held, disturbed, offered>>
vars    == <<tables, stored, call, history, moves>>

Exchanges == Calls \cup Tabs
NoAccount == [password |-> None, changes |-> 0]

\* changes is the number of changes of password the check behind the session had
\* seen; late: one more was made before the session was issued; endedBy: whose
\* change of password ended it.
Token == [user: Users, revoked: BOOLEAN, expired: BOOLEAN, changes: Nat,
          late: BOOLEAN, endedBy: Browsers \cup {None, "cli"}]

Ops == {"fetch", "load", "password", "login", "register", "logout", "refresh"}
Idle == [op |-> "fetch", at |-> "idle", session |-> 0, user |-> None, password |-> None,
         new |-> None, changes |-> 0, tries |-> 1, reply |-> "ok"]
Call == [op: Ops, session: 0..MaxSessions, user: Users \cup {None}, changes: Nat,
         password: Passwords \cup {None}, new: Passwords \cup {None}, tries: 1..2,
         at: {"idle", "sent", "found", "inserting", "inserted", "change", "issue",
              "answered", "joined"},
         reply: {"ok", "denied", "error", "lost"}]

TypeOK ==
  /\ accounts \in [Users -> [password: Passwords, changes: Nat] \cup {NoAccount}]
  /\ workspaces \in Seq(SUBSET Users)
  /\ tokens \in Seq(Token) /\ Len(tokens) \in 0..MaxSessions
  /\ stored \in [Browsers -> {0} \cup DOMAIN tokens]
  /\ call \in [Exchanges -> Call]
  /\ \A t \in Tabs : call[t].op = "refresh" \/ call[t] = Idle
  /\ signedIn \in [Browsers -> Users \cup {None}]
  /\ held \in [Browsers -> {0} \cup DOMAIN tokens]
  /\ disturbed \in SUBSET Browsers /\ offered \in BOOLEAN
  /\ moves \in 0..MaxMoves

Registered == {u \in Users : accounts[u] # NoAccount}
Active(s)  == ~tokens[s].revoked /\ ~tokens[s].expired

Fresh(u, changes, late) ==
  [user |-> u, revoked |-> FALSE, expired |-> FALSE, changes |-> changes,
   late |-> late, endedBy |-> None]

\* The first account can always be made.
RegistrationOpen == AllowRegistration \/ Registered = {}

\* A page asks once, when it is loaded.
useRegistration == RegistrationOpen

Init == \E start \in Starts :
  LET Last(b) == {i \in DOMAIN start : start[i].browser = b}
      First == [b \in Browsers |-> IF Last(b) = {} THEN 0 ELSE CHOOSE i \in Last(b) : TRUE]
      Known == {start[i].user : i \in DOMAIN start}
  IN
  /\ accounts = [u \in Users |-> IF u \in Known
                                 THEN [password |-> FirstPassword, changes |-> 0]
                                 ELSE NoAccount]
  /\ \E own \in [1..Cardinality(Known) -> Known] :
       /\ {own[i] : i \in DOMAIN own} = Known
       /\ workspaces = [i \in DOMAIN own |-> {own[i]}]
  /\ tokens = [i \in DOMAIN start |-> Fresh(start[i].user, 0, FALSE)]
  /\ stored = First /\ held = First
  /\ signedIn = [b \in Browsers |-> IF First[b] = 0 THEN None ELSE start[First[b]].user]
  /\ call = [x \in Exchanges |-> Idle]
  /\ offered = useRegistration
  /\ disturbed = {} /\ moves = 0

-----------------------------------------------------------------------------
(* Who shares what.                                                        *)

Browser(x) == IF x \in Tabs THEN BrowserOf[x] ELSE BrowserOf[TabOf[x]]
Quiet(b)   == \A x \in Exchanges : Browser(x) = b => call[x].at = "idle"

\* Two exchanges of a browser that may both write its localStorage, none of them
\* waiting for the other.
Writing == {x \in Exchanges : call[x].at \notin {"idle", "joined"} /\ call[x].op # "fetch"}
Crowded == {Browser(x) : x \in {y \in Writing : \E z \in Writing \ {y} : Browser(z) = Browser(y)}}

\* What the bound counts: requests, faults and resets.
Move == moves < MaxMoves /\ moves' = moves + 1

Watch(now) == /\ disturbed' = disturbed \cup now \cup Crowded'
              /\ UNCHANGED offered

-----------------------------------------------------------------------------
(* The client: lib/api.ts and lib/auth.tsx.                                *)

\* A request is sent with the access token that localStorage holds at that time.
Send(c, op, u, p, q) ==
  /\ call[c].at = "idle"
  /\ Cardinality({d \in Calls : call[d].at # "idle"}) < MaxOpen
  /\ call' = [call EXCEPT ![c] = [Idle EXCEPT !.op = op, !.at = "sent", !.user = u,
                !.session = stored[Browser(c)], !.password = p, !.new = q]]
  /\ Watch({})
  /\ UNCHANGED <<tables, stored, signedIn, held>>

\* Who is signed out is shown the forms, and so is a tab that was signed out when it
\* loaded: another tab of the browser has signed in since.
SignedOutPage(c) == stored[Browser(c)] = 0 \/ \E t \in Tabs \ {TabOf[c]} : BrowserOf[t] = Browser(c)

LoginPage(c) ==
  SignedOutPage(c) /\ \E u \in Users, p \in Passwords : Send(c, "login", u, p, None)

RegisterPage(c) ==
  /\ SignedOutPage(c) /\ offered
  /\ \E u \in Users, p \in Passwords : Send(c, "register", u, p, None)

\* The new password is typed twice; nothing is sent when the two differ.
ChangePasswordCard(c) ==
  /\ stored[Browser(c)] # 0
  /\ \E p, q, confirm \in Passwords : q = confirm /\ p # q /\ Send(c, "password", None, p, q)

\* requireAuth: the other pages are shown to who is signed in.  What they fetch and send
\* is one operation, apart from the first request of a page that loads.
Pages(c) ==
  /\ stored[Browser(c)] # 0
  /\ \E op \in {"fetch", "load", "logout"} : Send(c, op, None, None, None)

\* An exchange ends: what it leaves in localStorage.
Store(b, s) ==
  /\ stored' = [stored EXCEPT ![b] = s]
  /\ held' = [held EXCEPT ![b] = IF s = 0 THEN @ ELSE s]

\* A first 401 makes the client refresh: the tab's refresh in flight is joined, or
\* begun with the refresh token that localStorage holds now.
Refreshes(c) ==
  /\ call[c].reply = "denied" /\ call[c].tries = 1
  /\ call[c].op \notin {"login", "register"}
  /\ stored[Browser(c)] # 0

Join(c) ==
  LET t == TabOf[c] IN
  /\ call[c].at = "answered" /\ Refreshes(c)
  /\ call' = [call EXCEPT ![c].at = "joined",
                ![t] = IF @.at # "idle" THEN @
                       ELSE [Idle EXCEPT !.op = "refresh", !.at = "sent",
                                         !.session = stored[Browser(c)]]]
  /\ Watch({})
  /\ UNCHANGED <<tables, stored, signedIn, held, moves>>

\* The answer to login, register or a change of password is stored; signing out
\* clears localStorage whatever the answer, and so does loading the page when it
\* fails.
End(c) ==
  LET b == Browser(c)  op == call[c].op  ok == call[c].reply = "ok" IN
  /\ call[c].at = "answered" /\ ~Refreshes(c)
  /\ call' = [call EXCEPT ![c] = Idle]
  /\ CASE ok /\ op \in {"login", "register", "password"} -> Store(b, call[c].session)
       [] op = "logout" \/ (op = "load" /\ ~ok) -> Store(b, 0)
       [] OTHER -> UNCHANGED <<stored, held>>
  /\ signedIn' = [signedIn EXCEPT ![b] =
       CASE ok /\ op \in {"login", "register"} -> call[c].user
         [] op = "logout" -> None
         [] OTHER -> @]
  /\ Watch({})
  /\ UNCHANGED <<tables, moves>>

Waiting(t) == {c \in Calls : TabOf[c] = t /\ call[c].at = "joined"}

\* The refresh of a tab ends, and the requests that wait for it are sent again with
\* the new token, or fail.  An answer that is not a success clears localStorage; no
\* answer at all leaves it as it is, unless the page was loading.
EndRefresh(t) ==
  LET b == BrowserOf[t]  reply == call[t].reply
      Fails == \E c \in Waiting(t) : call[c].op = "load"
  IN
  /\ call[t].at = "answered"
  /\ call' = [x \in Exchanges |->
       CASE x = t -> Idle
         [] x \in Waiting(t) /\ reply = "ok" ->
              [call[x] EXCEPT !.at = "sent", !.tries = 2, !.session = call[t].session]
         [] x \in Waiting(t) /\ reply # "ok" -> Idle
         [] OTHER -> call[x]]
  /\ CASE reply = "ok" -> Store(b, call[t].session)
       [] reply \in {"denied", "error"} \/ (reply = "lost" /\ Fails) -> Store(b, 0)
       [] OTHER -> UNCHANGED <<stored, held>>
  /\ Watch({})
  /\ UNCHANGED <<tables, signedIn, moves>>

-----------------------------------------------------------------------------
(* The server: one statement, or one transaction, at a time.               *)

Goes(x, to)     == call' = [call EXCEPT ![x] = to]
Answer(x, r)    == [call[x] EXCEPT !.at = "answered", !.reply = r]
Server          == Watch({}) /\ UNCHANGED <<stored, signedIn, held, moves>>
Sent(x, op)     == call[x].at = "sent" /\ call[x].op = op

\* What the server makes of the access token, which may have expired since it was
\* issued.  The token that a refresh has just brought lives for minutes, longer than
\* the request that is sent again with it.
Authenticated(c) == IF call[c].tries = 2 THEN {TRUE} ELSE BOOLEAN

\* GET /auth/me, and the reads behind every page.
Fetch(c) ==
  /\ Sent(c, "fetch") \/ Sent(c, "load")
  /\ \E ok \in Authenticated(c) : Goes(c, Answer(c, IF ok THEN "ok" ELSE "denied"))
  /\ Server /\ UNCHANGED tables

\* create and addMember: a workspace belongs to one user.
WithWorkspace(u) == Append(workspaces, {u})

\* createWorkspace: the workspace and its owner in one transaction, for who is let in.
CreateWorkspace(c) ==
  /\ Sent(c, "fetch")
  /\ Goes(c, Answer(c, "ok"))
  /\ workspaces' = WithWorkspace(tokens[call[c].session].user)
  /\ Server /\ UNCHANGED <<accounts, tokens>>

Login(c) ==
  LET account == accounts[call[c].user] IN
  /\ Sent(c, "login")
  /\ Goes(c, IF account # NoAccount /\ account.password = call[c].password
             THEN [call[c] EXCEPT !.at = "issue", !.password = None, !.changes = account.changes]
             ELSE Answer(c, "denied"))
  /\ Server /\ UNCHANGED tables

\* register checks before its transaction: hasAny, then existsByEmail.
CheckRegistration(c) ==
  /\ Sent(c, "register")
  /\ Goes(c, IF ~RegistrationOpen \/ call[c].user \in Registered
             THEN Answer(c, "error") ELSE [call[c] EXCEPT !.at = "inserting"])
  /\ Server /\ UNCHANGED tables

\* Mutation: the account is inserted outside of the transaction.
InsertOutside(c) ==
  LET u == call[c].user IN
  /\ call[c].at = "inserting" /\ u \notin Registered
  /\ accounts' = [accounts EXCEPT ![u] = [password |-> call[c].password, changes |-> 0]]
  /\ Goes(c, [call[c] EXCEPT !.at = "inserted"])
  /\ Server /\ UNCHANGED <<workspaces, tokens>>

\* The INSERT of the account waits for one of the same email that is not committed,
\* and fails on one that is.  Nobody sees the row before the COMMIT.
InsertAccount(c) ==
  /\ call[c].at = "inserting"
  /\ \A d \in Calls : call[d].at = "inserted" => call[d].user # call[c].user
  /\ Goes(c, IF call[c].user \in Registered THEN Answer(c, "error")
             ELSE [call[c] EXCEPT !.at = "inserted"])
  /\ Server /\ UNCHANGED tables

\* The rest of the transaction: the workspace, its owner, COMMIT.
CommitAccount(c) ==
  LET u == call[c].user IN
  /\ call[c].at = "inserted"
  /\ accounts' = [accounts EXCEPT ![u] = [password |-> call[c].password, changes |-> 0]]
  /\ workspaces' = WithWorkspace(u)
  /\ Goes(c, [call[c] EXCEPT !.at = "issue"])
  /\ Server /\ UNCHANGED <<tokens>>

\* changePassword verifies the current password before its transaction.
VerifyPassword(c) ==
  LET u == tokens[call[c].session].user IN
  /\ Sent(c, "password")
  /\ \E ok \in Authenticated(c) :
       Goes(c, IF ok /\ accounts[u].password = call[c].password
               THEN [call[c] EXCEPT !.at = "change", !.user = u] ELSE Answer(c, "denied"))
  /\ Server /\ UNCHANGED tables

\* Mutation: only the session of the caller is revoked.
RevokedCaller(u, b) ==
  IF b \in Browsers /\ held[b] # 0 THEN [tokens EXCEPT ![held[b]].revoked = TRUE] ELSE tokens

\* revokeAllForUser
RevokedFor(u, b) ==
  [s \in DOMAIN tokens |-> IF tokens[s].user = u /\ ~tokens[s].revoked
                           THEN [tokens[s] EXCEPT !.revoked = TRUE, !.endedBy = b]
                           ELSE tokens[s]]

\* The transaction of a change of password, by a browser or by reset-password.
ChangedPassword(u, p, b) ==
  /\ accounts' = [accounts EXCEPT ![u] = [password |-> p, changes |-> @.changes + 1]]
  /\ tokens' = RevokedFor(u, b)

ChangePassword(c) ==
  LET u == call[c].user IN
  /\ call[c].at = "change"
  /\ ChangedPassword(u, call[c].new, Browser(c))
  /\ Goes(c, [call[c] EXCEPT !.at = "issue", !.changes = accounts[u].changes + 1])
  /\ Server /\ UNCHANGED <<workspaces>>

\* revokeByHash
Revoked(s) == [tokens EXCEPT ![s].revoked = TRUE]

\* refresh: findActiveByHash, revokeByHash and the new session are three statements.
\* A session may have expired by the time it is looked for.
FindActive(t) ==
  LET s == call[t].session IN
  /\ Sent(t, "refresh")
  /\ \E expired \in {tokens[s].expired, TRUE} :
       /\ tokens' = [tokens EXCEPT ![s].expired = expired]
       /\ Goes(t, IF tokens[s].revoked \/ expired THEN Answer(t, "denied")
                  ELSE [call[t] EXCEPT !.at = "found", !.changes = tokens[s].changes])
  /\ Server /\ UNCHANGED <<accounts, workspaces>>

Rotate(t) ==
  /\ call[t].at = "found"
  /\ tokens' = Revoked(call[t].session)
  /\ Goes(t, [call[t] EXCEPT !.at = "issue", !.user = tokens[call[t].session].user])
  /\ Server /\ UNCHANGED <<accounts, workspaces>>

Logout(c) ==
  /\ Sent(c, "logout")
  /\ tokens' = Revoked(call[c].session)
  /\ Goes(c, Answer(c, "ok"))
  /\ Server /\ UNCHANGED <<accounts, workspaces>>

\* Mutation: the answer carries the refresh token that was presented.
GivenBack(x, s) == Answer(x, "ok")

\* Mutation: the answer carries a refresh token that was never stored.
GivenAnother(x, s) == [Answer(x, "ok") EXCEPT !.session = s + 1]

Given(x, s) == [Answer(x, "ok") EXCEPT !.session = s, !.password = None, !.new = None]

\* issueSession signs an access token and stores the refresh token.
IssueSession(x) ==
  LET s == Len(tokens) + 1  u == call[x].user IN
  /\ call[x].at = "issue" /\ s <= MaxSessions
  /\ tokens' = Append(tokens, Fresh(u, call[x].changes, call[x].changes < accounts[u].changes))
  /\ Goes(x, Given(x, s))
  /\ Server /\ UNCHANGED <<accounts, workspaces>>

-----------------------------------------------------------------------------
(* What else happens.                                                      *)

\* A statement fails, or the answer never arrives: a transaction is rolled back,
\* the statements before it stay.  Only a refresh makes a difference between the two.
Fault(x) ==
  /\ call[x].at \notin {"idle", "joined"}
  /\ \/ x \in Tabs /\ call[x].at # "answered" /\ Goes(x, Answer(x, "error"))
     \/ Goes(x, Answer(x, "lost"))
  /\ Watch(IF call[x].op = "fetch" THEN {} ELSE {Browser(x)})
  /\ UNCHANGED <<tables, stored, signedIn, held>>

\* reset-password: a password is set from the command line.
ResetPassword(u, p) ==
  /\ u \in Registered /\ ChangedPassword(u, p, "cli")
  /\ UNCHANGED <<workspaces, stored, call, history>>

ServerStep(x) ==
  \/ x \in Calls /\ (\/ Fetch(x) \/ CreateWorkspace(x) \/ Login(x) \/ CheckRegistration(x)
                     \/ InsertAccount(x) \/ CommitAccount(x) \/ VerifyPassword(x)
                     \/ ChangePassword(x) \/ Logout(x))
  \/ x \in Tabs /\ (FindActive(x) \/ Rotate(x))
  \/ IssueSession(x)

ClientStep(x) ==
  \/ x \in Calls /\ (Join(x) \/ End(x))
  \/ x \in Tabs /\ EndRefresh(x)

Next ==
  \/ /\ Move
     /\ \/ \E c \in Calls : LoginPage(c) \/ RegisterPage(c) \/ ChangePasswordCard(c) \/ Pages(c)
        \/ \E x \in Exchanges : Fault(x)
        \/ \E u \in Users, p \in Passwords : ResetPassword(u, p)
  \/ \E x \in Exchanges : ServerStep(x) \/ ClientStep(x)

Spec == Init /\ [][Next]_vars

-----------------------------------------------------------------------------
(* Properties.                                                             *)

\* As long as its exchanges did not overlap and none failed, a browser keeps exactly
\* the session of the user who signed in to it: it is signed out only by its user,
\* by expiry, or by a change of password elsewhere; and once signed out it stays so.
\* Two tabs that refresh at once break this: one 401 clears what the other stored.
SoloSessionsHold ==
  \A b \in Browsers : Quiet(b) /\ b \notin disturbed =>
    IF signedIn[b] = None THEN stored[b] = 0
    ELSE LET s == held[b] IN
         /\ s \in DOMAIN tokens
         /\ tokens[s].user = signedIn[b]
         /\ \/ stored[b] = s /\ Active(s)
            \/ tokens[s].expired \/ tokens[s].endedBy \notin {None, b}

\* A session survives a change of password only when it was issued, or descends from
\* one that was issued, to a request that had passed its check before the change.
ChangeEndsOthers ==
  \A s \in DOMAIN tokens :
    Active(s) /\ tokens[s].changes < accounts[tokens[s].user].changes => tokens[s].late

\* Every account has a workspace of its own, and every workspace one owner: a
\* registration that fails, or loses the race for its email, leaves nothing behind.
AccountsComplete ==
  /\ \A u \in Registered : {u} \in {workspaces[w] : w \in DOMAIN workspaces}
  /\ \A w \in DOMAIN workspaces : \E u \in Registered : workspaces[w] = {u}
=============================================================================
