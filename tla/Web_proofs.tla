------------------------------ MODULE Web_proofs ------------------------------
(***************************************************************************)
(* The web client, of any number of users, browsers and tabs.  Accounts    *)
(* and their sessions: a change of password leaves no older session alive, *)
(* no account is without its workspace, and a browser that nothing         *)
(* disturbed keeps the session of its user.  The data of a tab: its lists  *)
(* show what it wrote, and saving a form keeps what its user did not touch. *)
(***************************************************************************)
EXTENDS Sessions, Dashboard, FiniteSetTheorems, WellFoundedInduction, TLAPS

\* What an exchange x with the record r refers to is among the n sessions there are and
\* the accounts R: the session of a request that needs one, the account of one that is
\* let in.
SoundIn(x, r, n, R) ==
  /\ r.session \in 0..n
  /\ x \in Tabs => r.op = "refresh" \/ r = Idle
  /\ x \in Tabs /\ r.at # "idle" => r.session # 0
  /\ x \in Tabs => r.at \notin {"joined", "change", "inserting", "inserted"}
  /\ x \in Calls => r.op # "refresh"
  /\ x \in Calls /\ r.op \notin {"login", "register"} /\ r.at = "sent" => r.session # 0
  /\ x \in Calls /\ r.op \in {"login", "register"} => r.user \in Users
  /\ x \in Calls /\ r.op = "register" => r.password \in Passwords \/ r.at \in {"idle", "answered", "issue"}
  /\ r.at \in {"inserting", "inserted"} => r.op = "register" /\ r.password \in Passwords
  /\ r.at = "change" => r.user \in R /\ r.new \in Passwords
  /\ r.op = "password" /\ r.at \in {"sent", "joined"} => r.new \in Passwords
  /\ r.op = "password" /\ r.at = "answered" /\ r.reply = "denied" => r.new \in Passwords
  /\ r.at = "issue" => r.user \in R

Sound(x, r) == SoundIn(x, r, Len(tokens), Registered)

\* The tables of the server.
TablesOK ==
  /\ accounts \in [Users -> [password: Passwords, changes: Nat] \cup {NoAccount}]
  /\ workspaces \in Seq(SUBSET Users)
  /\ tokens \in Seq(Token) /\ Len(tokens) \in 0..MaxSessions
  /\ \A s \in DOMAIN tokens : tokens[s].user \in Registered
  /\ AccountsComplete /\ ChangeEndsOthers

CallsOK == call \in [Exchanges -> Call] /\ \A x \in Exchanges : Sound(x, call[x])

\* The browsers.
BrowsersOK ==
  /\ stored \in [Browsers -> {0} \cup DOMAIN tokens]
  /\ signedIn \in [Browsers -> Users \cup {None}]
  /\ held \in [Browsers -> {0} \cup DOMAIN tokens]
  /\ disturbed \in SUBSET Browsers /\ offered \in BOOLEAN
  /\ moves \in 0..MaxMoves

\* The inductive invariant.
SessionInv == TablesOK /\ CallsOK /\ BrowsersOK

-----------------------------------------------------------------------------
(* What the steps have in common.                                          *)

LEMMA Parts ==
  /\ SessionInv => TypeOK
  /\ SessionInv => ChangeEndsOthers
  /\ SessionInv => AccountsComplete
<1>1. SessionInv => \A t \in Tabs : call[t].op = "refresh" \/ call[t] = Idle
  BY DEF SessionInv, CallsOK, Sound, SoundIn, Exchanges
<1> QED  BY <1>1 DEF SessionInv, TypeOK, TablesOK, CallsOK, BrowsersOK

LEMMA Kinds ==
  /\ Idle \in Call /\ Idle.at = "idle" /\ Idle.op = "fetch" /\ Idle.session = 0 /\ Idle.user = None
  /\ \A x \in Exchanges : Browser(x) \in Browsers
  /\ Calls \subseteq Exchanges /\ Tabs \subseteq Exchanges
  /\ \A x \in Calls : x \notin Tabs
  /\ \A u \in Users : None # u
  /\ \A p \in Passwords : None # p
<1> USE SessionsAssumption
<1>1. Idle \in Call /\ Idle.at = "idle" /\ Idle.op = "fetch" /\ Idle.session = 0 /\ Idle.user = None
  BY DEF Idle, Call, Ops
<1>2. \A x \in Exchanges : Browser(x) \in Browsers
  BY DEF Exchanges, Browser
<1>3. \A x \in Calls : x \notin Tabs
  OBVIOUS
<1> QED  BY <1>1, <1>2, <1>3 DEF Exchanges

\* Sessions that are revoked, or expire, do not come alive.
LEMMA TokensEnd ==
  ASSUME SessionInv, UNCHANGED <<accounts, workspaces>>,
         tokens' \in Seq(Token), Len(tokens') = Len(tokens),
         \A s \in DOMAIN tokens : /\ tokens'[s].user = tokens[s].user
                                  /\ tokens'[s].changes = tokens[s].changes
                                  /\ tokens'[s].late = tokens[s].late
                                  /\ tokens[s].revoked => tokens'[s].revoked
                                  /\ tokens[s].expired => tokens'[s].expired
  PROVE  TablesOK'
<1>1. DOMAIN tokens' = DOMAIN tokens
  BY DEF SessionInv, TablesOK
<1>2. Registered' = Registered
  BY DEF Registered
<1>3. AccountsComplete'
  BY <1>2 DEF SessionInv, TablesOK, AccountsComplete
<1>4. ChangeEndsOthers'
  BY <1>1 DEF SessionInv, TablesOK, ChangeEndsOthers, Active
<1> QED  BY <1>1, <1>2, <1>3, <1>4 DEF SessionInv, TablesOK

LEMMA TablesKept ==
  ASSUME SessionInv, UNCHANGED tables
  PROVE  TablesOK'
BY TokensEnd DEF SessionInv, TablesOK, tables

LEMMA SoundGrows ==
  ASSUME NEW x, NEW r, NEW n \in Nat, NEW m \in Nat, NEW R, NEW S,
         SoundIn(x, r, n, R), n <= m, R \subseteq S
  PROVE  SoundIn(x, r, m, S)
<1>1. r.session \in 0..m
  BY DEF SoundIn
<1> QED  BY <1>1 DEF SoundIn

\* One exchange changes, no session or account is lost.
LEMMA OneMoves ==
  ASSUME SessionInv, NEW x \in Exchanges, NEW r \in Call,
         call' = [call EXCEPT ![x] = r], SoundIn(x, r, Len(tokens'), Registered'),
         Len(tokens') \in {Len(tokens), Len(tokens) + 1}, Registered \subseteq Registered'
  PROVE  CallsOK'
<1>1. call' \in [Exchanges -> Call]
  BY DEF SessionInv, CallsOK
<1>2. ASSUME NEW y \in Exchanges, y # x
      PROVE  Sound(y, call[y])'
  <2>1. call'[y] = call[y] /\ SoundIn(y, call[y], Len(tokens), Registered)
    BY <1>2 DEF SessionInv, CallsOK, Sound
  <2>2. /\ Len(tokens) \in Nat /\ Len(tokens') \in Nat
        /\ Len(tokens) <= Len(tokens')
    BY DEF SessionInv, TablesOK
  <2>3. SoundIn(y, call[y], Len(tokens'), Registered')
    BY <2>1, <2>2, SoundGrows
  <2> QED  BY <2>1, <2>3 DEF Sound
<1>3. call'[x] = r
  BY DEF SessionInv, CallsOK
<1> QED  BY <1>1, <1>2, <1>3 DEF CallsOK, Sound

LEMMA Watching ==
  ASSUME SessionInv, NEW now \in SUBSET Browsers, Watch(now)
  PROVE  disturbed' \in SUBSET Browsers /\ offered' \in BOOLEAN
<1>1. Writing' \subseteq Exchanges
  BY DEF Writing
<1>2. Crowded' \subseteq Browsers
  BY <1>1, Kinds DEF Crowded
<1> QED  BY <1>2 DEF Watch, SessionInv, BrowsersOK

\* The server leaves the browsers alone.
LEMMA ServerSide ==
  ASSUME SessionInv, Server, DOMAIN tokens \subseteq DOMAIN tokens'
  PROVE  BrowsersOK'
<1>1. disturbed' \in SUBSET Browsers /\ offered' \in BOOLEAN
  BY Watching DEF Server
<1> QED  BY <1>1 DEF Server, SessionInv, BrowsersOK

\* A step of the server that leaves the tables alone.
LEMMA OnlyAnswers ==
  ASSUME SessionInv, Server, UNCHANGED tables, NEW x \in Exchanges, NEW r \in Call,
         Goes(x, r), Sound(x, r)
  PROVE  SessionInv'
<1>1. Registered' = Registered /\ tokens' = tokens
  BY DEF Registered, tables
<1>2. SoundIn(x, r, Len(tokens'), Registered')
  BY <1>1 DEF Sound, SoundIn
<1> QED  BY <1>1, <1>2, TablesKept, OneMoves, ServerSide DEF Goes, SessionInv


-----------------------------------------------------------------------------
(* The steps of the server.                                                *)

LEMMA Answering ==
  ASSUME SessionInv, NEW x \in Exchanges, NEW v \in {"ok", "denied", "error", "lost"},
         call[x].at # "idle", v = "denied" => call[x].at = "sent"
  PROVE  Answer(x, v) \in Call /\ Sound(x, Answer(x, v))
<1>1. Sound(x, call[x]) /\ call[x] \in Call
  BY DEF SessionInv, CallsOK
<1> DEFINE r == call[x]  a == Answer(x, v)
<1>2. a \in Call
  BY <1>1 DEF Answer, Call
<1>3. /\ a.at = "answered" /\ a.reply = v /\ a.session = r.session /\ a.op = r.op
      /\ a.user = r.user /\ a.new = r.new
  BY <1>1 DEF Answer, Call
<1> HIDE DEF a
<1>4. Sound(x, a)
  BY <1>1, <1>3, Kinds DEF Sound, SoundIn
<1> QED  BY <1>2, <1>4 DEF a

LEMMA Fetching == ASSUME SessionInv, NEW c \in Calls, Fetch(c) PROVE SessionInv'
BY Kinds, Answering, OnlyAnswers DEF Fetch, Sent, Authenticated

LEMMA LoggingIn == ASSUME SessionInv, NEW c \in Calls, Login(c) PROVE SessionInv'
<1> USE Kinds
<1>1. c \in Exchanges /\ Sound(c, call[c]) /\ call[c] \in Call
  BY DEF SessionInv, CallsOK
<1> DEFINE u == call[c].user
           r == [call[c] EXCEPT !.at = "issue", !.password = None, !.changes = accounts[u].changes]
<1>2. call[c].at = "sent" /\ call[c].op = "login" /\ u \in Users
  BY <1>1 DEF Login, Sent, Sound, SoundIn
<1>3. accounts[u] # NoAccount => r \in Call /\ Sound(c, r)
  <2> HAVE accounts[u] # NoAccount
  <2>1. accounts[u].changes \in Nat /\ u \in Registered
    BY <1>2 DEF SessionInv, TablesOK, Registered
  <2>2. r \in Call
    BY <1>1, <1>2, <2>1, ZenonT(30) DEF Call
  <2> QED  BY <1>1, <1>2, <2>1, <2>2 DEF Sound, SoundIn, Call
<1>4. Answer(c, "denied") \in Call /\ Sound(c, Answer(c, "denied"))
  BY <1>2, Answering
<1> QED  BY <1>1, <1>2, <1>3, <1>4, OnlyAnswers DEF Login

LEMMA Checking == ASSUME SessionInv, NEW c \in Calls, CheckRegistration(c) PROVE SessionInv'
<1> USE Kinds
<1>1. c \in Exchanges /\ Sound(c, call[c]) /\ call[c] \in Call
  BY DEF SessionInv, CallsOK
<1> DEFINE r == [call[c] EXCEPT !.at = "inserting"]
<1>2. call[c].at = "sent" /\ call[c].op = "register"
  BY DEF CheckRegistration, Sent
<1>3. r \in Call /\ Sound(c, r)
  <2>1. r \in Call
    BY <1>1 DEF Call
  <2> QED  BY <1>1, <1>2, <2>1 DEF Sound, SoundIn, Call
<1>4. Answer(c, "error") \in Call /\ Sound(c, Answer(c, "error"))
  BY <1>2, Answering
<1> QED  BY <1>1, <1>3, <1>4, OnlyAnswers DEF CheckRegistration

LEMMA Inserting == ASSUME SessionInv, NEW c \in Calls, InsertAccount(c) PROVE SessionInv'
<1> USE Kinds
<1>1. c \in Exchanges /\ Sound(c, call[c]) /\ call[c] \in Call
  BY DEF SessionInv, CallsOK
<1> DEFINE r == [call[c] EXCEPT !.at = "inserted"]
<1>2. call[c].at = "inserting"
  BY DEF InsertAccount
<1>3. r \in Call /\ Sound(c, r)
  <2>1. r \in Call
    BY <1>1 DEF Call
  <2> QED  BY <1>1, <1>2, <2>1 DEF Sound, SoundIn, Call
<1>4. Answer(c, "error") \in Call /\ Sound(c, Answer(c, "error"))
  BY <1>2, Answering
<1> QED  BY <1>1, <1>3, <1>4, OnlyAnswers DEF InsertAccount

LEMMA Verifying == ASSUME SessionInv, NEW c \in Calls, VerifyPassword(c) PROVE SessionInv'
<1> USE Kinds
<1>1. c \in Exchanges /\ Sound(c, call[c]) /\ call[c] \in Call
  BY DEF SessionInv, CallsOK
<1> DEFINE u == tokens[call[c].session].user
           r == [call[c] EXCEPT !.at = "change", !.user = u]
<1>2. call[c].at = "sent" /\ call[c].op = "password"
  BY DEF VerifyPassword, Sent
<1>3. u \in Registered /\ u \in Users
  BY <1>1, <1>2 DEF Sound, SoundIn, SessionInv, TablesOK, Registered
<1>4. r \in Call /\ Sound(c, r)
  <2>1. r \in Call
    BY <1>1, <1>3 DEF Call
  <2> QED  BY <1>1, <1>2, <1>3, <2>1 DEF Sound, SoundIn, Call
<1>5. Answer(c, "denied") \in Call /\ Sound(c, Answer(c, "denied"))
  BY <1>2, Answering
<1> QED  BY <1>1, <1>4, <1>5, OnlyAnswers DEF VerifyPassword


\* A workspace is added, of a user who has an account by then.
LEMMA WorkspaceAdded ==
  ASSUME SessionInv, NEW u \in Users, workspaces' = WithWorkspace(u)
  PROVE  /\ workspaces' \in Seq(SUBSET Users)
         /\ Registered' = Registered \cup {u} => AccountsComplete'
<1>1. /\ workspaces \in Seq(SUBSET Users) /\ {u} \in SUBSET Users
      /\ AccountsComplete
  BY DEF SessionInv, TablesOK
<1>2. workspaces' \in Seq(SUBSET Users)
  BY <1>1 DEF WithWorkspace
<1>3. /\ Len(workspaces') = Len(workspaces) + 1
      /\ workspaces'[Len(workspaces) + 1] = {u}
      /\ \A w \in DOMAIN workspaces : workspaces'[w] = workspaces[w]
  BY <1>1 DEF WithWorkspace
<1>4. DOMAIN workspaces' = DOMAIN workspaces \cup {Len(workspaces) + 1}
  BY <1>1, <1>2, <1>3
<1>5. ASSUME Registered' = Registered \cup {u}
      PROVE  AccountsComplete'
  <2>1. ASSUME NEW v \in Registered'
        PROVE  \E w \in DOMAIN workspaces' : workspaces'[w] = {v}
    <3>1. CASE v = u
      BY <3>1, <1>3, <1>4
    <3>2. CASE v \in Registered
      BY <3>2, <1>1, <1>3, <1>4 DEF AccountsComplete
    <3> QED  BY <3>1, <3>2, <1>5
  <2>2. ASSUME NEW w \in DOMAIN workspaces'
        PROVE  \E v \in Registered' : workspaces'[w] = {v}
    BY <1>1, <1>3, <1>4, <1>5 DEF AccountsComplete
  <2> QED  BY <2>1, <2>2 DEF AccountsComplete
<1> QED  BY <1>2, <1>5

LEMMA Creating == ASSUME SessionInv, NEW c \in Calls, CreateWorkspace(c) PROVE SessionInv'
<1> USE Kinds
<1>1. c \in Exchanges /\ Sound(c, call[c]) /\ call[c] \in Call
  BY DEF SessionInv, CallsOK
<1> DEFINE u == tokens[call[c].session].user
<1>2. call[c].at = "sent" /\ call[c].op = "fetch"
  BY DEF CreateWorkspace, Sent
<1>3. u \in Registered /\ u \in Users
  BY <1>1, <1>2 DEF Sound, SoundIn, SessionInv, TablesOK, Registered
<1>4. Registered' = Registered
  BY DEF CreateWorkspace, Registered
<1>5. workspaces' \in Seq(SUBSET Users) /\ AccountsComplete'
  BY <1>3, <1>4, WorkspaceAdded DEF CreateWorkspace
<1>6. TablesOK'
  BY <1>4, <1>5 DEF CreateWorkspace, SessionInv, TablesOK, ChangeEndsOthers, Active
<1>7. Answer(c, "ok") \in Call /\ Sound(c, Answer(c, "ok"))
  BY <1>2, Answering
<1>8. SoundIn(c, Answer(c, "ok"), Len(tokens'), Registered')
  BY <1>4, <1>7 DEF CreateWorkspace, Sound, SoundIn, Answer
<1>9. CallsOK'
  BY <1>1, <1>4, <1>7, <1>8, OneMoves DEF CreateWorkspace, Goes
<1>10. BrowsersOK'
  BY ServerSide DEF CreateWorkspace
<1> QED  BY <1>6, <1>9, <1>10 DEF SessionInv

LEMMA Committing == ASSUME SessionInv, NEW c \in Calls, CommitAccount(c) PROVE SessionInv'
<1> USE Kinds
<1>1. c \in Exchanges /\ Sound(c, call[c]) /\ call[c] \in Call
  BY DEF SessionInv, CallsOK
<1> DEFINE u == call[c].user
           r == [call[c] EXCEPT !.at = "issue"]
           new == [password |-> call[c].password, changes |-> 0]
<1>2. /\ call[c].at = "inserted" /\ call[c].op = "register" /\ u \in Users
      /\ call[c].password \in Passwords
  BY <1>1 DEF CommitAccount, Sound, SoundIn
<1>3. accounts' = [accounts EXCEPT ![u] = new] /\ tokens' = tokens
  BY DEF CommitAccount
<1>4. new \in [password: Passwords, changes: Nat] /\ new # NoAccount
  BY <1>2 DEF NoAccount
<1>5. accounts' \in [Users -> [password: Passwords, changes: Nat] \cup {NoAccount}]
  BY <1>3, <1>4 DEF SessionInv, TablesOK
<1>6. \A v \in Users : accounts'[v] = IF v = u THEN new ELSE accounts[v]
  BY <1>2, <1>3 DEF SessionInv, TablesOK
<1>7. Registered' = Registered \cup {u}
  BY <1>2, <1>4, <1>6 DEF Registered
<1>8. workspaces' \in Seq(SUBSET Users) /\ AccountsComplete'
  BY <1>2, <1>7, WorkspaceAdded DEF CommitAccount
<1>9. ChangeEndsOthers'
  <2> SUFFICES ASSUME NEW s \in DOMAIN tokens, Active(s),
                      tokens[s].changes < accounts'[tokens[s].user].changes
               PROVE  tokens[s].late
    BY <1>3 DEF ChangeEndsOthers, Active
  <2>1. tokens[s] \in Token
    BY DEF SessionInv, TablesOK
  <2>2. tokens[s].user # u
    BY <1>6, <2>1 DEF Token
  <2> QED  BY <1>6, <2>1, <2>2 DEF SessionInv, TablesOK, ChangeEndsOthers, Token
<1>10. TablesOK'
  BY <1>3, <1>5, <1>7, <1>8, <1>9 DEF SessionInv, TablesOK
<1>11. r \in Call
  BY <1>1 DEF Call
<1>12. SoundIn(c, r, Len(tokens'), Registered')
  BY <1>1, <1>2, <1>3, <1>7, <1>11 DEF Sound, SoundIn, Call
<1>13. CallsOK'
  BY <1>1, <1>3, <1>7, <1>11, <1>12, OneMoves DEF CommitAccount, Goes
<1>14. BrowsersOK'
  BY <1>3, ServerSide DEF CommitAccount
<1> QED  BY <1>10, <1>13, <1>14 DEF SessionInv


\* The transaction of a change of password ends every session the user had.
LEMMA PasswordChanged ==
  ASSUME SessionInv, NEW u \in Registered, NEW p \in Passwords,
         NEW b \in Browsers \cup {None, "cli"}, ChangedPassword(u, p, b),
         UNCHANGED workspaces
  PROVE  TablesOK' /\ Len(tokens') = Len(tokens) /\ Registered' = Registered
<1> USE Kinds
<1> DEFINE new == [password |-> p, changes |-> accounts[u].changes + 1]
<1>1. u \in Users /\ accounts[u] \in [password: Passwords, changes: Nat]
  BY DEF SessionInv, TablesOK, Registered
<1>2. accounts' = [accounts EXCEPT ![u] = new] /\ tokens' = RevokedFor(u, b)
  BY DEF ChangedPassword
<1>3. new \in [password: Passwords, changes: Nat] /\ new # NoAccount
  BY <1>1 DEF NoAccount
<1>4. accounts' \in [Users -> [password: Passwords, changes: Nat] \cup {NoAccount}]
  BY <1>2, <1>3 DEF SessionInv, TablesOK
<1>5. \A v \in Users : accounts'[v] = IF v = u THEN new ELSE accounts[v]
  BY <1>1, <1>2 DEF SessionInv, TablesOK
<1>6. Registered' = Registered
  BY <1>3, <1>5 DEF Registered
<1>7. tokens \in Seq(Token) /\ DOMAIN tokens = 1..Len(tokens) /\ Len(tokens) \in Nat
  BY DEF SessionInv, TablesOK
<1>8. \A s \in DOMAIN tokens :
        /\ tokens'[s] \in Token
        /\ tokens'[s].user = tokens[s].user /\ tokens'[s].changes = tokens[s].changes
        /\ tokens'[s].late = tokens[s].late /\ tokens'[s].expired = tokens[s].expired
        /\ tokens[s].revoked => tokens'[s].revoked
        /\ tokens[s].user = u => tokens'[s].revoked
  <2> TAKE s \in DOMAIN tokens
  <2>1. tokens[s] \in Token
    BY <1>7
  <2>2. tokens'[s] = IF tokens[s].user = u /\ ~tokens[s].revoked
                     THEN [tokens[s] EXCEPT !.revoked = TRUE, !.endedBy = b] ELSE tokens[s]
    BY <1>2 DEF RevokedFor
  <2> QED  BY <2>1, <2>2, ZenonT(30) DEF Token
<1>9. DOMAIN tokens' = 1..Len(tokens)
  BY <1>2, <1>7 DEF RevokedFor
<1>10. tokens' \in Seq(Token) /\ Len(tokens') = Len(tokens)
  <2>1. tokens' = [s \in 1..Len(tokens) |-> tokens'[s]]
    BY <1>2, <1>7, <1>9 DEF RevokedFor
  <2> QED  BY <2>1, <1>7, <1>8, <1>9
<1>11. AccountsComplete'
  <2>1. AccountsComplete /\ workspaces' = workspaces
    BY DEF SessionInv, TablesOK
  <2> QED  BY <1>6, <2>1 DEF AccountsComplete
<1>12. ChangeEndsOthers'
  <2> SUFFICES ASSUME NEW s \in DOMAIN tokens, ~tokens'[s].revoked, ~tokens'[s].expired,
                      tokens'[s].changes < accounts'[tokens'[s].user].changes
               PROVE  tokens'[s].late
    BY <1>7, <1>9 DEF ChangeEndsOthers, Active
  <2>1. tokens[s].user \in Users /\ tokens[s].user # u /\ Active(s)
    BY <1>7, <1>8 DEF Active, Token
  <2> QED  BY <1>5, <1>8, <2>1 DEF SessionInv, TablesOK, ChangeEndsOthers
<1>13. \A s \in DOMAIN tokens' : tokens'[s].user \in Registered'
  BY <1>6, <1>7, <1>8, <1>9 DEF SessionInv, TablesOK
<1> QED  BY <1>4, <1>6, <1>10, <1>11, <1>12, <1>13 DEF SessionInv, TablesOK

LEMMA Changing == ASSUME SessionInv, NEW c \in Calls, ChangePassword(c) PROVE SessionInv'
<1> USE Kinds
<1>1. c \in Exchanges /\ Sound(c, call[c]) /\ call[c] \in Call
  BY DEF SessionInv, CallsOK
<1> DEFINE u == call[c].user
           r == [call[c] EXCEPT !.at = "issue", !.changes = accounts[u].changes + 1]
<1>2. call[c].at = "change" /\ u \in Registered /\ call[c].new \in Passwords
  BY <1>1 DEF ChangePassword, Sound, SoundIn
<1>3. TablesOK' /\ Len(tokens') = Len(tokens) /\ Registered' = Registered
  BY <1>1, <1>2, PasswordChanged DEF ChangePassword
<1>4. r \in Call
  <2>1. accounts[u].changes + 1 \in Nat
    BY <1>2 DEF SessionInv, TablesOK, Registered
  <2> HIDE DEF u
  <2> QED  BY <1>1, <2>1, ZenonT(30) DEF Call
<1>5. SoundIn(c, r, Len(tokens'), Registered')
  BY <1>1, <1>2, <1>3, <1>4 DEF Sound, SoundIn, Call
<1>6. DOMAIN tokens \subseteq DOMAIN tokens'
  BY <1>3 DEF SessionInv, TablesOK
<1>7. CallsOK'
  BY <1>1, <1>3, <1>4, <1>5, <1>6, OneMoves DEF ChangePassword, Goes
<1>8. BrowsersOK'
  BY <1>6, ServerSide DEF ChangePassword
<1> QED  BY <1>3, <1>7, <1>8 DEF SessionInv

\* A session that is used ends.
LEMMA SessionEnds ==
  ASSUME SessionInv, NEW s \in DOMAIN tokens, NEW rev \in BOOLEAN, NEW exp \in BOOLEAN,
         tokens[s].revoked => rev, tokens[s].expired => exp,
         tokens' = [tokens EXCEPT ![s].revoked = rev, ![s].expired = exp],
         UNCHANGED <<accounts, workspaces>>
  PROVE  TablesOK' /\ Len(tokens') = Len(tokens) /\ Registered' = Registered
<1>1. tokens \in Seq(Token) /\ DOMAIN tokens = 1..Len(tokens)
  BY DEF SessionInv, TablesOK
<1>2. tokens[s] \in Token
  BY <1>1
<1> DEFINE new == [tokens[s] EXCEPT !.revoked = rev, !.expired = exp]
<1>3. new \in Token
  BY <1>2 DEF Token
<1>4. tokens' = [tokens EXCEPT ![s] = new]
  BY <1>1, <1>2 DEF Token
<1> HIDE DEF new
<1>5. \A i \in DOMAIN tokens : tokens'[i] = IF i = s THEN new ELSE tokens[i]
  BY <1>1, <1>4
<1>6. tokens' \in Seq(Token) /\ Len(tokens') = Len(tokens)
  <2>1. tokens' = [i \in 1..Len(tokens) |-> tokens'[i]]
    BY <1>1, <1>4
  <2>2. \A i \in 1..Len(tokens) : tokens'[i] \in Token
    BY <1>1, <1>3, <1>5
  <2> QED  BY <1>1, <2>1, <2>2
<1>7. Registered' = Registered
  BY DEF Registered
<1> QED  BY <1>2, <1>5, <1>6, <1>7, TokensEnd DEF Token, new

LEMMA Finding == ASSUME SessionInv, NEW t \in Tabs, FindActive(t) PROVE SessionInv'
<1> USE Kinds
<1>1. t \in Exchanges /\ Sound(t, call[t]) /\ call[t] \in Call
  BY DEF SessionInv, CallsOK
<1> DEFINE s == call[t].session
           r == [call[t] EXCEPT !.at = "found", !.changes = tokens[s].changes]
<1>2. call[t].at = "sent" /\ call[t].op = "refresh" /\ s \in DOMAIN tokens
  BY <1>1 DEF FindActive, Sent, Sound, SoundIn, SessionInv, TablesOK
<1>3. tokens[s] \in Token
  BY <1>2 DEF SessionInv, TablesOK
<1>4. PICK e \in {tokens[s].expired, TRUE} :
        /\ tokens' = [tokens EXCEPT ![s].expired = e]
        /\ Goes(t, IF tokens[s].revoked \/ e THEN Answer(t, "denied") ELSE r)
  BY DEF FindActive
<1>5. tokens' = [tokens EXCEPT ![s].revoked = tokens[s].revoked, ![s].expired = e]
  BY <1>2, <1>3, <1>4 DEF Token, SessionInv, TablesOK
<1>6. TablesOK' /\ Len(tokens') = Len(tokens) /\ Registered' = Registered
  BY <1>2, <1>3, <1>5, SessionEnds DEF FindActive, Token
<1>7. r \in Call /\ SoundIn(t, r, Len(tokens'), Registered')
  <2>1. r \in Call
    BY <1>1, <1>3 DEF Call, Token
  <2> QED  BY <1>1, <1>2, <1>6, <2>1 DEF Sound, SoundIn, Call
<1>8. Answer(t, "denied") \in Call /\ SoundIn(t, Answer(t, "denied"), Len(tokens'), Registered')
  BY <1>1, <1>2, <1>6, Answering DEF Sound
<1>9. DOMAIN tokens \subseteq DOMAIN tokens'
  BY <1>6 DEF SessionInv, TablesOK
<1>10. CallsOK'
  BY <1>1, <1>4, <1>6, <1>7, <1>8, <1>9, OneMoves DEF Goes
<1>11. BrowsersOK'
  BY <1>9, ServerSide DEF FindActive
<1> QED  BY <1>6, <1>10, <1>11 DEF SessionInv


LEMMA Rotating == ASSUME SessionInv, NEW t \in Tabs, Rotate(t) PROVE SessionInv'
<1> USE Kinds
<1>1. t \in Exchanges /\ Sound(t, call[t]) /\ call[t] \in Call
  BY DEF SessionInv, CallsOK
<1> DEFINE s == call[t].session
           r == [call[t] EXCEPT !.at = "issue", !.user = tokens[s].user]
<1>2. /\ call[t].at = "found" /\ s \in DOMAIN tokens
      /\ call[t].op = "refresh"
  BY <1>1 DEF Rotate, Sound, SoundIn, SessionInv, TablesOK
<1>3. tokens[s] \in Token /\ tokens[s].user \in Registered
  BY <1>2 DEF SessionInv, TablesOK
<1>4. tokens' = [tokens EXCEPT ![s].revoked = TRUE, ![s].expired = tokens[s].expired]
  BY <1>2, <1>3 DEF Rotate, Revoked, Token, SessionInv, TablesOK
<1>5. TablesOK' /\ Len(tokens') = Len(tokens) /\ Registered' = Registered
  BY <1>2, <1>3, <1>4, SessionEnds DEF Rotate, Token
<1>6. r \in Call
  BY <1>1, <1>3 DEF Call, Token
<1>7. SoundIn(t, r, Len(tokens'), Registered')
  BY <1>1, <1>2, <1>3, <1>5, <1>6 DEF Sound, SoundIn, Call
<1>8. DOMAIN tokens \subseteq DOMAIN tokens'
  BY <1>5 DEF SessionInv, TablesOK
<1>9. CallsOK'
  BY <1>1, <1>5, <1>6, <1>7, <1>8, OneMoves DEF Rotate, Goes
<1>10. BrowsersOK'
  BY <1>8, ServerSide DEF Rotate
<1> QED  BY <1>5, <1>9, <1>10 DEF SessionInv

LEMMA LoggingOut == ASSUME SessionInv, NEW c \in Calls, Logout(c) PROVE SessionInv'
<1> USE Kinds
<1>1. c \in Exchanges /\ Sound(c, call[c]) /\ call[c] \in Call
  BY DEF SessionInv, CallsOK
<1> DEFINE s == call[c].session
<1>2. call[c].at = "sent" /\ s \in DOMAIN tokens
  BY <1>1 DEF Logout, Sent, Sound, SoundIn, SessionInv, TablesOK
<1>3. tokens[s] \in Token
  BY <1>2 DEF SessionInv, TablesOK
<1>4. tokens' = [tokens EXCEPT ![s].revoked = TRUE, ![s].expired = tokens[s].expired]
  BY <1>2, <1>3 DEF Logout, Revoked, Token, SessionInv, TablesOK
<1>5. TablesOK' /\ Len(tokens') = Len(tokens) /\ Registered' = Registered
  BY <1>2, <1>3, <1>4, SessionEnds DEF Logout, Token
<1>6. Answer(c, "ok") \in Call /\ SoundIn(c, Answer(c, "ok"), Len(tokens'), Registered')
  BY <1>1, <1>2, <1>5, Answering DEF Sound
<1>7. DOMAIN tokens \subseteq DOMAIN tokens'
  BY <1>5 DEF SessionInv, TablesOK
<1>8. CallsOK'
  BY <1>1, <1>5, <1>6, <1>7, OneMoves DEF Logout, Goes
<1>9. BrowsersOK'
  BY <1>7, ServerSide DEF Logout
<1> QED  BY <1>5, <1>8, <1>9 DEF SessionInv

\* A new session is late exactly when a change of password has passed it by.
LEMMA Issuing == ASSUME SessionInv, NEW x \in Exchanges, IssueSession(x) PROVE SessionInv'
<1> USE Kinds
<1>1. Sound(x, call[x]) /\ call[x] \in Call
  BY DEF SessionInv, CallsOK
<1> DEFINE n == Len(tokens) + 1
           u == call[x].user
           new == Fresh(u, call[x].changes, call[x].changes < accounts[u].changes)
<1>2. /\ call[x].at = "issue" /\ n \in 1..MaxSessions /\ u \in Registered /\ u \in Users
      /\ tokens' = Append(tokens, new)
  BY <1>1, SessionsAssumption
     DEF IssueSession, Sound, SoundIn, SessionInv, TablesOK, Registered
<1>3. /\ new \in Token /\ new.user = u
      /\ new.changes = call[x].changes /\ new.late = (call[x].changes < accounts[u].changes)
  <2>1. call[x].changes \in Nat
    BY <1>1 DEF Call
  <2> QED  BY <1>2, <2>1 DEF Token, Fresh
<1> HIDE DEF new
<1>4. tokens \in Seq(Token) /\ Len(tokens) \in Nat /\ DOMAIN tokens = 1..Len(tokens)
  BY DEF SessionInv, TablesOK
<1>5. /\ tokens' \in Seq(Token) /\ Len(tokens') = n
      /\ \A s \in 1..n : tokens'[s] = IF s = n THEN new ELSE tokens[s]
  BY <1>2, <1>3, <1>4
<1>6. Registered' = Registered /\ accounts' = accounts /\ workspaces' = workspaces
  BY DEF IssueSession, Registered
<1>7. \A s \in DOMAIN tokens' : tokens'[s].user \in Registered'
  BY <1>2, <1>3, <1>4, <1>5, <1>6 DEF SessionInv, TablesOK
<1>8. ChangeEndsOthers'
  <2> SUFFICES ASSUME NEW s \in 1..n, ~tokens'[s].revoked, ~tokens'[s].expired,
                      tokens'[s].changes < accounts[tokens'[s].user].changes
               PROVE  tokens'[s].late
    BY <1>5, <1>6 DEF ChangeEndsOthers, Active
  <2>1. CASE s = n
    BY <2>1, <1>3, <1>5
  <2>2. CASE s # n
    BY <2>2, <1>4, <1>5 DEF SessionInv, TablesOK, ChangeEndsOthers, Active
  <2> QED  BY <2>1, <2>2
<1>9. AccountsComplete'
  <2>1. AccountsComplete
    BY DEF SessionInv, TablesOK
  <2> QED  BY <1>6, <2>1, ZenonT(40) DEF AccountsComplete
<1>10. TablesOK'
  BY <1>2, <1>5, <1>6, <1>7, <1>8, <1>9 DEF SessionInv, TablesOK
<1>11. Given(x, n) \in Call
  <2>1. Answer(x, "ok") \in Call /\ n \in 0..MaxSessions
    BY <1>2, Answering
  <2> HIDE DEF n
  <2> QED  BY <2>1, ZenonT(40) DEF Given, Call
<1>12. SoundIn(x, Given(x, n), Len(tokens'), Registered')
  BY <1>1, <1>2, <1>4, <1>5, <1>6 DEF Given, Answer, Call, Sound, SoundIn
<1>13. DOMAIN tokens \subseteq DOMAIN tokens'
  BY <1>4, <1>5
<1>14. CallsOK'
  BY <1>5, <1>6, <1>11, <1>12, OneMoves DEF IssueSession, Goes
<1>15. BrowsersOK'
  BY <1>13, ServerSide DEF IssueSession
<1> QED  BY <1>10, <1>14, <1>15 DEF SessionInv


-----------------------------------------------------------------------------
(* The steps of the client, and faults.                                    *)

LEMMA Stores ==
  ASSUME SessionInv, NEW b \in Browsers
  PROVE  stored[b] \in 0..Len(tokens) /\ stored[b] \in 0..MaxSessions
<1>1. /\ DOMAIN tokens = 1..Len(tokens) /\ Len(tokens) \in 0..MaxSessions
      /\ stored[b] \in {0} \cup DOMAIN tokens
  BY DEF SessionInv, TablesOK, BrowsersOK
<1> QED  BY <1>1, SessionsAssumption

LEMMA Sending ==
  ASSUME SessionInv, Move, NEW c \in Calls, NEW op \in Ops \ {"refresh"},
         NEW u \in Users \cup {None}, NEW p \in Passwords \cup {None},
         NEW q \in Passwords \cup {None}, Send(c, op, u, p, q),
         op \in {"login", "register"} => u \in Users /\ p \in Passwords,
         op = "password" => p \in Passwords /\ q \in Passwords,
         op \notin {"login", "register"} => stored[Browser(c)] # 0
  PROVE  SessionInv'
<1> USE Kinds
<1>1. c \in Exchanges /\ Browser(c) \in Browsers
  OBVIOUS
<1> DEFINE n == stored[Browser(c)]
           r == [Idle EXCEPT !.op = op, !.at = "sent", !.user = u,
                   !.session = n, !.password = p, !.new = q]
<1>2. n \in 0..Len(tokens) /\ n \in 0..MaxSessions
  BY <1>1, Stores
<1>3. /\ call' = [call EXCEPT ![c] = r] /\ Watch({})
      /\ UNCHANGED <<tables, stored, signedIn, held>>
  BY DEF Send
<1> HIDE DEF n
<1>4. /\ r.op = op /\ r.at = "sent" /\ r.user = u /\ r.session = n
      /\ r.password = p /\ r.new = q
  BY DEF Call, r
<1>5. r \in Call
  BY <1>2 DEF Call, r
<1>6. Registered' = Registered /\ tokens' = tokens
  BY <1>3 DEF Registered, tables
<1>7. SoundIn(c, r, Len(tokens'), Registered')
  BY <1>2, <1>4, <1>6 DEF SoundIn, n
<1>8. CallsOK'
  BY <1>1, <1>3, <1>5, <1>6, <1>7, OneMoves
<1>9. TablesOK'
  BY <1>3, TablesKept
<1>10. BrowsersOK'
  <2>1. disturbed' \in SUBSET Browsers /\ offered' \in BOOLEAN
    BY <1>3, Watching
  <2>2. moves' \in 0..MaxMoves
    BY SessionsAssumption DEF Move, SessionInv, BrowsersOK
  <2> QED  BY <1>3, <1>6, <2>1, <2>2 DEF SessionInv, BrowsersOK
<1> QED  BY <1>8, <1>9, <1>10 DEF SessionInv

LEMMA PageSteps ==
  ASSUME SessionInv, Move, NEW c \in Calls,
         LoginPage(c) \/ RegisterPage(c) \/ ChangePasswordCard(c) \/ Pages(c)
  PROVE  SessionInv'
<1>1. CASE LoginPage(c)
  BY <1>1, Sending DEF LoginPage, Ops
<1>2. CASE RegisterPage(c)
  BY <1>2, Sending DEF RegisterPage, Ops
<1>3. CASE ChangePasswordCard(c)
  BY <1>3, Sending DEF ChangePasswordCard, Ops
<1>4. CASE Pages(c)
  BY <1>4, Sending DEF Pages, Ops
<1> QED  BY <1>1, <1>2, <1>3, <1>4

\* What a browser stores is a session there is, or nothing.
LEMMA Storing ==
  ASSUME SessionInv, NEW b \in Browsers, NEW s \in 0..Len(tokens),
         Store(b, s) \/ UNCHANGED <<stored, held>>, UNCHANGED tokens
  PROVE  /\ stored' \in [Browsers -> {0} \cup DOMAIN tokens']
         /\ held' \in [Browsers -> {0} \cup DOMAIN tokens']
BY SMTT(30) DEF Store, SessionInv, TablesOK, BrowsersOK

LEMMA Joining == ASSUME SessionInv, NEW c \in Calls, Join(c) PROVE SessionInv'
<1> USE Kinds
<1> DEFINE t == TabOf[c]
           n == stored[Browser(c)]
           r == [call[c] EXCEPT !.at = "joined"]
           fresh == [Idle EXCEPT !.op = "refresh", !.at = "sent", !.session = n]
<1>1. /\ c \in Exchanges /\ t \in Exchanges /\ t \in Tabs /\ t # c /\ Browser(c) \in Browsers
      /\ \A x \in Exchanges : Sound(x, call[x]) /\ call[x] \in Call
  BY SessionsAssumption DEF SessionInv, CallsOK
<1>2. n \in 0..Len(tokens) /\ n \in 0..MaxSessions /\ n # 0
  BY <1>1, Stores DEF Join, Refreshes
<1>3. /\ Watch({}) /\ UNCHANGED <<tables, stored, signedIn, held, moves>>
      /\ call[c].at = "answered" /\ call[c].op \notin {"login", "register"}
  BY DEF Join, Refreshes
<1>4. call' = [x \in Exchanges |-> IF x = c THEN r
                                      ELSE IF x = t /\ call[t].at = "idle" THEN fresh
                                      ELSE call[x]]
  BY <1>1 DEF Join, SessionInv, CallsOK
<1>5. r \in Call
  BY <1>1 DEF Call
<1>6. Sound(c, r)
  <2>1. call[c] \in Call /\ Sound(c, call[c]) /\ call[c].reply = "denied"
    BY <1>1 DEF Join, Refreshes
  <2>2. /\ r.at = "joined" /\ r.session = call[c].session /\ r.op = call[c].op
        /\ r.user = call[c].user /\ r.new = call[c].new
    BY <2>1 DEF Call
  <2> HIDE DEF r
  <2> QED  BY <1>3, <2>1, <2>2 DEF Sound, SoundIn
<1>7. fresh = [Idle EXCEPT !.op = "refresh", !.at = "sent", !.session = n]
  OBVIOUS
<1> HIDE DEF fresh, n
<1>8. fresh = [op |-> "refresh", at |-> "sent", session |-> n, user |-> None,
               password |-> None, new |-> None, changes |-> 0, tries |-> 1, reply |-> "ok"]
  BY <1>7 DEF Idle
<1>9. fresh \in Call /\ Sound(t, fresh)
  BY <1>1, <1>2, <1>8 DEF Sound, SoundIn, Call, Ops
<1>10. Registered' = Registered /\ tokens' = tokens
  BY <1>3 DEF Registered, tables
<1>11. CallsOK'
  BY <1>1, <1>4, <1>5, <1>6, <1>9, <1>10 DEF CallsOK, Sound
<1>12. TablesOK'
  BY <1>3, TablesKept
<1>13. BrowsersOK'
  BY <1>3, <1>10, Watching DEF SessionInv, BrowsersOK
<1> QED  BY <1>11, <1>12, <1>13 DEF SessionInv


LEMMA Ending == ASSUME SessionInv, NEW c \in Calls, End(c) PROVE SessionInv'
<1> USE Kinds
<1> DEFINE b == Browser(c)
<1>1. c \in Exchanges /\ b \in Browsers /\ Sound(c, call[c]) /\ call[c] \in Call
  BY DEF SessionInv, CallsOK
<1>2. /\ Watch({}) /\ UNCHANGED <<tables, moves>> /\ call' = [call EXCEPT ![c] = Idle]
      /\ call[c].at = "answered"
  BY DEF End
<1>3. Registered' = Registered /\ tokens' = tokens
  BY <1>2 DEF Registered, tables
<1>4. Len(tokens) \in Nat
  BY DEF SessionInv, TablesOK
<1>5. CallsOK'
  <2>1. SoundIn(c, Idle, Len(tokens'), Registered')
    BY <1>1, <1>3, <1>4 DEF SoundIn
  <2> QED  BY <1>1, <1>2, <1>3, <2>1, OneMoves
<1>6. /\ stored' \in [Browsers -> {0} \cup DOMAIN tokens']
      /\ held' \in [Browsers -> {0} \cup DOMAIN tokens']
  <2>1. call[c].session \in 0..Len(tokens) /\ 0 \in 0..Len(tokens)
    BY <1>1, <1>4 DEF Sound, SoundIn
  <2>2. \/ Store(b, call[c].session) \/ Store(b, 0) \/ UNCHANGED <<stored, held>>
    BY DEF End
  <2> QED  BY <1>1, <1>3, <2>1, <2>2, Storing
<1>7. signedIn' \in [Browsers -> Users \cup {None}]
  <2>1. call[c].user \in Users \cup {None}
    BY <1>1 DEF Call
  <2> QED  BY <1>1, <2>1 DEF End, SessionInv, BrowsersOK
<1>8. TablesOK'
  BY <1>2, TablesKept
<1>9. BrowsersOK'
  BY <1>2, <1>6, <1>7, Watching DEF SessionInv, BrowsersOK
<1> QED  BY <1>5, <1>8, <1>9 DEF SessionInv

LEMMA SentAgain ==
  ASSUME NEW x \in Calls, NEW r \in Call, NEW n \in Nat, NEW R,
         NEW s \in 0..n, s \in 0..MaxSessions, s # 0, r.at = "joined", SoundIn(x, r, n, R)
  PROVE  /\ [r EXCEPT !.at = "sent", !.tries = 2, !.session = s] \in Call
         /\ SoundIn(x, [r EXCEPT !.at = "sent", !.tries = 2, !.session = s], n, R)
<1> DEFINE a == [r EXCEPT !.at = "sent", !.tries = 2, !.session = s]
<1>1. a \in Call
  <2>1. [r EXCEPT !.session = s] \in Call
    BY DEF Call
  <2>2. \A q \in Call : [q EXCEPT !.tries = 2] \in Call
    BY DEF Call
  <2>3. \A q \in Call : [q EXCEPT !.at = "sent"] \in Call
    BY DEF Call
  <2>4. a = [[[r EXCEPT !.session = s] EXCEPT !.tries = 2] EXCEPT !.at = "sent"]
    BY DEF Call
  <2> QED  BY <2>1, <2>2, <2>3, <2>4
<1>2. /\ a.at = "sent" /\ a.session = s /\ a.op = r.op /\ a.user = r.user
      /\ a.password = r.password /\ a.new = r.new
  BY DEF Call
<1> HIDE DEF a
<1>3. SoundIn(x, a, n, R)
  BY <1>2, Kinds DEF SoundIn
<1> QED  BY <1>1, <1>3 DEF a

LEMMA EndingRefresh == ASSUME SessionInv, NEW t \in Tabs, EndRefresh(t) PROVE SessionInv'
<1> USE Kinds
<1> DEFINE b == BrowserOf[t]
           again(x) == [call[x] EXCEPT !.at = "sent", !.tries = 2, !.session = call[t].session]
<1>1. /\ t \in Exchanges /\ b \in Browsers
      /\ \A x \in Exchanges : Sound(x, call[x]) /\ call[x] \in Call
  BY SessionsAssumption DEF SessionInv, CallsOK
<1>2. /\ Watch({}) /\ UNCHANGED <<tables, signedIn, moves>> /\ call[t].at = "answered"
      /\ call' = [x \in Exchanges |->
           CASE x = t -> Idle
             [] x \in Waiting(t) /\ call[t].reply = "ok" -> again(x)
             [] x \in Waiting(t) /\ call[t].reply # "ok" -> Idle
             [] OTHER -> call[x]]
  BY DEF EndRefresh
<1>3. Registered' = Registered /\ tokens' = tokens
  BY <1>2 DEF Registered, tables
<1>4. Len(tokens) \in 0..MaxSessions /\ Len(tokens) \in Nat
  BY SessionsAssumption DEF SessionInv, TablesOK
<1>5. call[t].session \in 0..Len(tokens) /\ call[t].session \in 0..MaxSessions /\ call[t].session # 0
  <2>1. /\ call[t].session \in 0..Len(tokens) /\ call[t].session # 0
        /\ call[t] \in Call
    BY <1>1, <1>2 DEF Sound, SoundIn
  <2> QED  BY <2>1 DEF Call
<1>6. ASSUME NEW x \in Exchanges
      PROVE  call'[x] \in Call /\ Sound(x, call'[x])
  <2>1. Idle \in Call /\ Sound(x, Idle)
    BY <1>4 DEF Sound, SoundIn
  <2>2. ASSUME x \in Waiting(t)
        PROVE  again(x) \in Call /\ Sound(x, again(x))
    <3>1. call[x].at = "joined" /\ x \in Calls /\ Sound(x, call[x]) /\ call[x] \in Call
      BY <1>1, <2>2 DEF Waiting
    <3>2. SoundIn(x, call[x], Len(tokens), Registered)
      BY <3>1 DEF Sound
    <3>3. again(x) \in Call /\ SoundIn(x, again(x), Len(tokens), Registered)
      BY <1>4, <1>5, <3>1, <3>2, SentAgain
    <3> QED  BY <3>3 DEF Sound
  <2> HIDE DEF again
  <2>3. CASE x = t
    <3>1. t \notin Waiting(t)
      BY DEF Waiting
    <3> QED  BY <1>2, <2>1, <2>3, <3>1
  <2>4. CASE x # t /\ x \in Waiting(t) /\ call[t].reply = "ok"
    BY <1>2, <2>2, <2>4
  <2>5. CASE x # t /\ x \in Waiting(t) /\ call[t].reply # "ok"
    BY <1>2, <2>1, <2>5
  <2>6. CASE x # t /\ x \notin Waiting(t)
    <3>1. call'[x] = call[x]
      BY <1>2, <2>6
    <3> QED  BY <1>1, <3>1
  <2> QED  BY <2>3, <2>4, <2>5, <2>6
<1>7. CallsOK'
  <2>1. call' \in [Exchanges -> Call]
    BY <1>2, <1>6
  <2> QED  BY <1>3, <1>6, <2>1, SMTT(30) DEF CallsOK, Sound
<1>8. /\ stored' \in [Browsers -> {0} \cup DOMAIN tokens']
      /\ held' \in [Browsers -> {0} \cup DOMAIN tokens']
  <2>1. 0 \in 0..Len(tokens)
    BY <1>4
  <2>2. \/ Store(b, call[t].session) \/ Store(b, 0) \/ UNCHANGED <<stored, held>>
    BY DEF EndRefresh
  <2> QED  BY <1>1, <1>3, <1>5, <2>1, <2>2, Storing
<1>9. TablesOK'
  BY <1>2, TablesKept
<1>10. BrowsersOK'
  BY <1>2, <1>8, Watching DEF SessionInv, BrowsersOK
<1> QED  BY <1>7, <1>9, <1>10 DEF SessionInv

LEMMA Faults == ASSUME SessionInv, Move, NEW x \in Exchanges, Fault(x) PROVE SessionInv'
<1> USE Kinds
<1>1. /\ call[x].at # "idle" /\ UNCHANGED <<tables, stored, signedIn, held>>
      /\ Watch({}) \/ Watch({Browser(x)})
      /\ Goes(x, Answer(x, "error")) \/ Goes(x, Answer(x, "lost"))
  BY DEF Fault
<1>2. Registered' = Registered /\ tokens' = tokens
  BY <1>1 DEF Registered, tables
<1>3. \A v \in {"error", "lost"} :
        Answer(x, v) \in Call /\ SoundIn(x, Answer(x, v), Len(tokens'), Registered')
  BY <1>1, <1>2, Answering DEF Sound
<1>4. CallsOK'
  BY <1>1, <1>2, <1>3, OneMoves DEF Goes
<1>5. BrowsersOK'
  <2>1. disturbed' \in SUBSET Browsers /\ offered' \in BOOLEAN
    BY <1>1, Watching
  <2>2. moves' \in 0..MaxMoves
    BY SessionsAssumption DEF Move, SessionInv, BrowsersOK
  <2> QED  BY <1>1, <1>2, <2>1, <2>2 DEF SessionInv, BrowsersOK
<1> QED  BY <1>1, <1>4, <1>5, TablesKept DEF SessionInv

LEMMA Resetting ==
  ASSUME SessionInv, Move, NEW u \in Users, NEW p \in Passwords, ResetPassword(u, p)
  PROVE  SessionInv'
<1>1. /\ u \in Registered /\ ChangedPassword(u, p, "cli")
      /\ UNCHANGED workspaces /\ UNCHANGED <<stored, call, history>>
  BY DEF ResetPassword
<1>2. TablesOK' /\ Len(tokens') = Len(tokens) /\ Registered' = Registered
  BY <1>1, PasswordChanged
<1>3. DOMAIN tokens' = DOMAIN tokens
  BY <1>2 DEF SessionInv, TablesOK
<1>4. CallsOK'
  BY <1>1, <1>2 DEF SessionInv, CallsOK, Sound
<1>5. moves' \in 0..MaxMoves
  BY SessionsAssumption DEF Move, SessionInv, BrowsersOK
<1>6. BrowsersOK'
  BY <1>1, <1>3, <1>5 DEF SessionInv, BrowsersOK, history
<1> QED  BY <1>2, <1>4, <1>6 DEF SessionInv


-----------------------------------------------------------------------------
(* The initial states, and the theorems.                                   *)

LEMMA Elements ==
  ASSUME NEW S, NEW s \in Seq(S)
  PROVE  Len(s) \in Nat /\ DOMAIN s = 1..Len(s) /\ \A i \in DOMAIN s : s[i] \in S
OBVIOUS

LEMMA Initially == Init => SessionInv
<1> SUFFICES ASSUME Init PROVE SessionInv
  OBVIOUS
<1> USE Kinds
<1>1. PICK start \in Starts :
        LET Last(b) == {i \in DOMAIN start : start[i].browser = b}
            First == [b \in Browsers |-> IF Last(b) = {} THEN 0 ELSE CHOOSE i \in Last(b) : TRUE]
            Known == {start[i].user : i \in DOMAIN start}
        IN
        /\ accounts = [u \in Users |-> IF u \in Known
                                       THEN [password |-> FirstPassword, changes |-> 0]
                                       ELSE NoAccount]
        /\ \E own \in [1..Cardinality(Known) -> Known] :
             /\ {own[i] : i \in DOMAIN own} = Known
             /\ workspaces = [i \in DOMAIN own |-> {own[i]}]
        /\ tokens = [i \in DOMAIN start |-> Fresh(start[i].user, 0, FALSE)]
        /\ stored = First /\ held = First
        /\ signedIn = [b \in Browsers |-> IF First[b] = 0 THEN None ELSE start[First[b]].user]
        /\ call = [x \in Exchanges |-> Idle]
        /\ offered = useRegistration
        /\ disturbed = {} /\ moves = 0
  BY DEF Init
<1> DEFINE Last(b) == {i \in DOMAIN start : start[i].browser = b}
           First   == [b \in Browsers |-> IF Last(b) = {} THEN 0 ELSE CHOOSE i \in Last(b) : TRUE]
           Known   == {start[i].user : i \in DOMAIN start}
<1>2. /\ start \in Seq([user: Users, browser: Browsers]) /\ Len(start) <= MaxSessions
      /\ Len(start) \in Nat /\ DOMAIN start = 1..Len(start) /\ MaxSessions \in Nat
      /\ \A i \in DOMAIN start : start[i].user \in Users
  <2>1. /\ start \in Seq([user: Users, browser: Browsers]) /\ Len(start) <= MaxSessions
        /\ MaxSessions \in Nat
    BY SessionsAssumption
  <2>2. /\ Len(start) \in Nat /\ DOMAIN start = 1..Len(start)
        /\ \A i \in DOMAIN start : start[i] \in [user: Users, browser: Browsers]
    BY <2>1, Elements
  <2> QED  BY <2>1, <2>2
<1>3. Known \subseteq Users /\ Cardinality(Known) \in Nat
  <2>1. IsFiniteSet(DOMAIN start)
    <3>1. 1 \in Int /\ Len(start) \in Int /\ DOMAIN start = 1..Len(start)
      BY <1>2
    <3>2. IsFiniteSet(1..Len(start))
      BY <3>1, FS_Interval, Zenon
    <3> QED  BY <3>1, <3>2, Zenon
  <2> DEFINE named == [i \in DOMAIN start |-> start[i].user]
  <2>2. IsFiniteSet(Known)
    <3>1. named \in [DOMAIN start -> {named[i] : i \in DOMAIN start}]
      OBVIOUS
    <3>2. named \in Surjection(DOMAIN start, {named[i] : i \in DOMAIN start})
      BY <3>1 DEF Surjection
    <3>3. IsFiniteSet({named[i] : i \in DOMAIN start})
      BY <2>1, <3>2, FS_Surjection
    <3>4. {named[i] : i \in DOMAIN start} = Known
      OBVIOUS
    <3> QED  BY <3>3, <3>4
  <2> QED  BY <1>2, <2>2, FS_CardinalityType
<1>4. First \in [Browsers -> {0} \cup DOMAIN start]
  <2> SUFFICES ASSUME NEW b \in Browsers, Last(b) # {}
               PROVE  (CHOOSE i \in Last(b) : TRUE) \in DOMAIN start
    OBVIOUS
  <2> QED  OBVIOUS
<1>5. Registered = Known
  <2>1. FirstPassword # None
    BY SessionsAssumption
  <2> QED  BY <1>1, <1>3, <2>1 DEF Registered, NoAccount
<1>6. /\ tokens \in Seq(Token) /\ Len(tokens) = Len(start) /\ DOMAIN tokens = DOMAIN start
      /\ \A s \in DOMAIN tokens : tokens[s].changes = 0 /\ tokens[s].user \in Known
  <2>1. \A i \in DOMAIN start : Fresh(start[i].user, 0, FALSE) \in Token
    BY <1>2 DEF Fresh, Token
  <2>2. tokens = [i \in 1..Len(start) |-> Fresh(start[i].user, 0, FALSE)]
    BY <1>1, <1>2
  <2> DEFINE issued(i) == Fresh(start[i].user, 0, FALSE)  n == Len(start)
  <2>3. n \in Nat /\ tokens = [i \in 1..n |-> issued(i)] /\ \A i \in 1..n : issued(i) \in Token
    BY <1>2, <2>1, <2>2
  <2> HIDE DEF issued, n
  <2>4. tokens \in Seq(Token) /\ Len(tokens) = n
    BY <2>3
  <2> QED  BY <1>2, <2>2, <2>4 DEF Fresh, n
<1>7. accounts \in [Users -> [password: Passwords, changes: Nat] \cup {NoAccount}]
  BY <1>1, SessionsAssumption
<1>8. workspaces \in Seq(SUBSET Users) /\ AccountsComplete
  <2>1. PICK own \in [1..Cardinality(Known) -> Known] :
          /\ {own[i] : i \in DOMAIN own} = Known
          /\ workspaces = [i \in DOMAIN own |-> {own[i]}]
    BY <1>1
  <2> DEFINE n == Cardinality(Known)
  <2>2. n \in Nat /\ workspaces = [i \in 1..n |-> {own[i]}]
    BY <1>3, <2>1
  <2>3. \A i \in 1..n : own[i] \in Known
    OBVIOUS
  <2>4. \A u \in Known : \E i \in 1..n : own[i] = u
    BY <2>1
  <2> HIDE DEF n, Known
  <2>5. workspaces \in Seq(SUBSET Users)
    BY <1>3, <2>2, <2>3
  <2>6. AccountsComplete
    BY <1>5, <2>2, <2>3, <2>4 DEF AccountsComplete
  <2> QED  BY <2>5, <2>6
<1>9. ChangeEndsOthers
  <2>1. \A u \in Users : accounts[u].changes = 0
    BY <1>1 DEF NoAccount
  <2> QED  BY <1>3, <1>6, <2>1 DEF ChangeEndsOthers
<1>10. TablesOK
  BY <1>2, <1>5, <1>6, <1>7, <1>8, <1>9 DEF TablesOK
<1>11. CallsOK
  <2>1. \A x \in Exchanges : Sound(x, Idle)
    BY <1>2, <1>6 DEF Sound, SoundIn
  <2> QED  BY <1>1, <2>1 DEF CallsOK
<1>12. signedIn \in [Browsers -> Users \cup {None}]
  <2>1. signedIn = [b \in Browsers |-> IF First[b] = 0 THEN None ELSE start[First[b]].user]
    BY <1>1
  <2> HIDE DEF First
  <2> QED  BY <1>2, <1>4, <2>1
<1>13. BrowsersOK
  <2>1. /\ stored = First /\ held = First /\ disturbed = {} /\ moves = 0
        /\ offered = useRegistration
    BY <1>1
  <2>2. offered \in BOOLEAN
    BY <2>1, SessionsAssumption DEF useRegistration, RegistrationOpen
  <2>3. 0 \in 0..MaxMoves
    BY SessionsAssumption
  <2> QED  BY <1>4, <1>6, <1>12, <2>1, <2>2, <2>3 DEF BrowsersOK
<1> QED  BY <1>10, <1>11, <1>13 DEF SessionInv

LEMMA Inductive == SessionInv /\ [Next]_vars => SessionInv'
<1> SUFFICES ASSUME SessionInv, [Next]_vars PROVE SessionInv'
  OBVIOUS
<1>1. CASE UNCHANGED vars
  <2>1. /\ UNCHANGED tables /\ UNCHANGED <<stored, call, moves, signedIn, held, disturbed, offered>>
        /\ Registered' = Registered /\ tokens' = tokens
    BY <1>1 DEF vars, tables, history, Registered
  <2>2. CallsOK' /\ BrowsersOK'
    BY <2>1 DEF SessionInv, CallsOK, BrowsersOK, Sound
  <2> QED  BY <2>1, <2>2, TablesKept DEF SessionInv
<1>2. CASE Move /\ \E c \in Calls :
             LoginPage(c) \/ RegisterPage(c) \/ ChangePasswordCard(c) \/ Pages(c)
  BY <1>2, PageSteps
<1>3. CASE Move /\ \E x \in Exchanges : Fault(x)
  BY <1>3, Faults
<1>4. CASE Move /\ \E u \in Users, p \in Passwords : ResetPassword(u, p)
  BY <1>4, Resetting
<1>5. ASSUME NEW x \in Exchanges, ServerStep(x)
      PROVE  SessionInv'
  BY <1>5, Fetching, Creating, LoggingIn, Checking, Inserting, Committing, Verifying,
     Changing, LoggingOut, Finding, Rotating, Issuing DEF ServerStep
<1>6. ASSUME NEW x \in Exchanges, ClientStep(x)
      PROVE  SessionInv'
  BY <1>6, Joining, Ending, EndingRefresh DEF ClientStep
<1> QED  BY <1>1, <1>2, <1>3, <1>4, <1>5, <1>6 DEF Next

LEMMA Invariance == Spec => []SessionInv
BY Initially, Inductive, PTL DEF Spec

\* Accounts, tokens, exchanges and browsers have their types throughout: no answer of the
\* service carries, and no browser stores, a session that was never issued.
THEOREM TypeCorrect == Spec => []TypeOK
BY Invariance, Parts, PTL

\* Whatever the tabs, retries, faults and resets: after a change of password every older
\* session that is still good had passed its check before the change (auth-service.ts).
THEOREM PasswordChangeEndsSessions == Spec => []ChangeEndsOthers
BY Invariance, Parts, PTL

\* Registrations that race for an email, fail or are cut off never leave an account
\* without its workspace, or a workspace without its one owner (auth-service.ts).
THEOREM AccountsStayComplete == Spec => []AccountsComplete
BY Invariance, Parts, PTL

-----------------------------------------------------------------------------
(* A browser that nothing disturbed keeps its session.                     *)

\* The sessions that a browser, or an exchange of it, knows.
Knows(b) == {stored[b], held[b]} \cup {call[x].session : x \in {y \in Exchanges : Browser(y) = b}}

\* No session is known to two browsers.
Apart == \A b, d \in Browsers : b # d => Knows(b) \cap Knows(d) \subseteq {0}

\* s is a session of u, and nothing that b did has ended it.
Good(b, s, u) ==
  /\ s \in DOMAIN tokens /\ tokens[s].user = u
  /\ Active(s) \/ tokens[s].expired \/ tokens[s].endedBy \notin {None, b}

Passed(x) == call[x].at = "answered" /\ call[x].reply = "ok"

\* x has ended the session of its browser on purpose: another comes, or its user leaves.
Spends(x) ==
  \/ call[x].op \in {"refresh", "password"} /\ (call[x].at = "issue" \/ Passed(x))
  \/ call[x].op = "logout" /\ Passed(x)

Holds(b) ==
  IF signedIn[b] = None THEN stored[b] = 0
  ELSE \/ stored[b] = held[b] /\ Active(held[b])
       \/ tokens[held[b]].expired \/ tokens[held[b]].endedBy \notin {None, b}

\* What an exchange x of b that may write its localStorage goes by: the session that b
\* holds; and what it will leave there.
Uses(b, x) ==
  LET r == call[x] IN
  /\ r.op \in {"refresh", "password", "logout"} =>
       signedIn[b] # None /\ (r.at \in {"sent", "found", "change"} => r.session = held[b])
  /\ r.op \in {"refresh", "password"} /\ r.at \in {"change", "issue"} => r.user = signedIn[b]
  /\ r.op \in {"refresh", "password"} /\ Passed(x) => Good(b, r.session, signedIn[b])
  /\ r.op \in {"login", "register"} /\ Passed(x) => Good(b, r.session, r.user)
  /\ r.at = "answered" =>
       /\ r.reply = "ok" \/ r.reply = "denied" \/ r.op = "register"
       /\ r.op = "logout" => r.reply = "ok"
       /\ r.op = "load" /\ r.reply = "denied" => r.tries = 1
       /\ r.op = "refresh" /\ r.reply = "denied" => ~Active(held[b])

Clear(b) ==
  /\ stored[b] \in {0, held[b]}
  /\ IF signedIn[b] = None THEN stored[b] = 0
     ELSE held[b] \in DOMAIN tokens /\ tokens[held[b]].user = signedIn[b]
  /\ Holds(b) \/ \E x \in Exchanges : Browser(x) = b /\ Spends(x)
  /\ \A x \in Writing : Browser(x) = b => Uses(b, x)

\* Which exchanges go through which phase.
Phase(r) ==
  /\ r.at = "joined" => r.op \notin {"login", "register", "refresh"}
  /\ r.at = "found" => r.op = "refresh"
  /\ r.at = "change" => r.op = "password"
  /\ r.at = "issue" => r.op \in {"refresh", "password", "login", "register"}

SoloInv ==
  /\ Crowded \subseteq disturbed
  /\ Apart
  /\ \A x \in Exchanges : Phase(call[x])
  /\ \A b \in Browsers \ disturbed : Clear(b)

\* A step ends no session that b knows, unless somebody else's change of password does.
Harmless(b) ==
  /\ DOMAIN tokens \subseteq DOMAIN tokens'
  /\ \A s \in Knows(b) \cap DOMAIN tokens :
       /\ tokens'[s].user = tokens[s].user
       /\ tokens[s].revoked => tokens'[s].revoked
       /\ tokens[s].expired => tokens'[s].expired
       /\ tokens'[s].revoked /\ ~tokens[s].revoked => tokens'[s].endedBy \notin {None, b}
       /\ tokens[s].endedBy \notin {None, b} => tokens'[s].endedBy \notin {None, b}

LEMMA SoloHolds == SessionInv /\ SoloInv => SoloSessionsHold
<1> SUFFICES ASSUME SessionInv, SoloInv, NEW b \in Browsers, Quiet(b), b \notin disturbed
             PROVE  IF signedIn[b] = None THEN stored[b] = 0
                    ELSE LET s == held[b] IN
                         /\ s \in DOMAIN tokens
                         /\ tokens[s].user = signedIn[b]
                         /\ \/ stored[b] = s /\ Active(s)
                            \/ tokens[s].expired \/ tokens[s].endedBy \notin {None, b}
  BY DEF SoloSessionsHold
<1>1. Clear(b)
  BY DEF SoloInv
<1>2. ASSUME NEW x \in Exchanges, Browser(x) = b
      PROVE  ~Spends(x)
  BY <1>2 DEF Quiet, Spends, Passed
<1> QED  BY <1>1, <1>2 DEF Clear, Holds

LEMMA Known ==
  ASSUME SessionInv, NEW b \in Browsers
  PROVE  /\ Knows(b) \subseteq 0..Len(tokens)
         /\ stored[b] \in Knows(b) /\ held[b] \in Knows(b)
         /\ \A x \in Exchanges : Browser(x) = b => call[x].session \in Knows(b)
<1>1. stored[b] \in 0..Len(tokens)
  BY Stores
<1>2. held[b] \in 0..Len(tokens)
  BY DEF SessionInv, TablesOK, BrowsersOK
<1>3. \A x \in Exchanges : call[x].session \in 0..Len(tokens)
  BY DEF SessionInv, CallsOK, Sound, SoundIn
<1> QED  BY <1>1, <1>2, <1>3 DEF Knows

LEMMA OneWriter ==
  ASSUME SoloInv, NEW x \in Writing, NEW y \in Writing, Browser(x) = Browser(y),
         Browser(x) \notin disturbed
  PROVE  x = y
BY DEF SoloInv, Crowded

LEMMA Watched ==
  ASSUME NEW now, Watch(now)
  PROVE  Crowded' \subseteq disturbed' /\ disturbed \subseteq disturbed' /\ now \subseteq disturbed'
BY DEF Watch

LEMMA StillApart ==
  ASSUME SessionInv, Apart, NEW d \in Browsers,
         \A b \in Browsers :
           Knows(b)' \subseteq Knows(b) \cup {0} \cup IF b = d THEN {Len(tokens) + 1} ELSE {}
  PROVE  Apart'
<1> SUFFICES ASSUME NEW b \in Browsers, NEW e \in Browsers, b # e,
                    NEW s \in Knows(b)' \cap Knows(e)'
             PROVE  s = 0
  BY DEF Apart
<1>1. \A f \in Browsers : Knows(f) \subseteq 0..Len(tokens)
  BY Known
<1>2. Len(tokens) \in Nat
  BY DEF SessionInv, TablesOK
<1>3. s \in Knows(b) /\ s \in Knows(e) => s = 0
  BY DEF Apart
<1> QED  BY <1>1, <1>2, <1>3

\* What b holds stays good in a step that is harmless to it.
LEMMA StaysGood ==
  ASSUME SessionInv, NEW b \in Browsers, Harmless(b)
  PROVE  \A s \in Knows(b), u \in Users \cup {None} : Good(b, s, u) => Good(b, s, u)'
BY DEF Harmless, Good, Active

\* b is clear as long as its own exchanges go by what it holds.
LEMMA StaysClear ==
  ASSUME SessionInv, NEW b \in Browsers, Clear(b), Harmless(b),
         stored'[b] = stored[b], held'[b] = held[b], signedIn'[b] = signedIn[b],
         \A y \in Exchanges : Browser(y) = b =>
           \/ call'[y] = call[y]
           \/ ~Spends(y) /\ (y \in Writing' => Uses(b, y)')
  PROVE  Clear(b)'
<1>1. /\ stored[b] \in Knows(b) /\ held[b] \in Knows(b)
      /\ \A y \in Exchanges : Browser(y) = b => call[y].session \in Knows(b)
  BY Known
<1>2. held[b] \in DOMAIN tokens => held[b] \in DOMAIN tokens' /\ tokens'[held[b]].user = tokens[held[b]].user
  BY <1>1 DEF Harmless
<1>3. /\ stored'[b] \in {0, held'[b]}
      /\ IF signedIn'[b] = None THEN stored'[b] = 0
         ELSE held'[b] \in DOMAIN tokens' /\ tokens'[held'[b]].user = signedIn'[b]
  BY <1>2 DEF Clear
<1>4. Holds(b) => Holds(b)'
  BY <1>1 DEF Clear, Harmless, Holds, Active
<1>5. ASSUME NEW x \in Exchanges, Browser(x) = b, Spends(x)
      PROVE  Spends(x)'
  BY <1>5 DEF Spends, Passed
<1>6. Holds(b)' \/ \E x \in Exchanges : Browser(x) = b /\ Spends(x)'
  BY <1>4, <1>5 DEF Clear
<1>7. ASSUME NEW x \in Writing', Browser(x) = b, call'[x] = call[x]
      PROVE  Uses(b, x)'
  <2>1. x \in Writing /\ x \in Exchanges
    BY <1>7 DEF Writing
  <2>2. Uses(b, x)
    BY <1>7, <2>1 DEF Clear
  <2>3. call[x].session \in Knows(b) /\ call[x] \in Call
    BY <1>1, <1>7, <2>1 DEF SessionInv, CallsOK
  <2>4. /\ Good(b, call[x].session, signedIn[b]) => Good(b, call[x].session, signedIn[b])'
        /\ Good(b, call[x].session, call[x].user) => Good(b, call[x].session, call[x].user)'
    BY <1>7, <2>3 DEF Harmless, Good, Active
  <2>5. call[x].op = "refresh" /\ ~Active(held[b]) => ~Active(held[b])'
    <3>1. call[x].op = "refresh" => held[b] \in Knows(b) \cap DOMAIN tokens
      BY <1>1, <2>2 DEF Uses, Clear
    <3>2. \A s \in Knows(b) \cap DOMAIN tokens : ~Active(s) => ~Active(s)'
      BY DEF Harmless, Active
    <3> QED  BY <3>1, <3>2 DEF Active
  <2>6. Passed(x)' = Passed(x)
    BY <1>7 DEF Passed
  <2>7. call'[x] = call[x] /\ signedIn'[b] = signedIn[b] /\ held'[b] = held[b]
    BY <1>7
  <2> QED  BY <2>2, <2>4, <2>5, <2>6, <2>7 DEF Uses
<1>8. \A x \in Writing' : Browser(x) = b => Uses(b, x)'
  <2>1. Writing' \subseteq Exchanges
    BY DEF Writing
  <2> QED  BY <1>7, <2>1
<1> QED  BY <1>3, <1>6, <1>8 DEF Clear, Browser

\* The exchange that ends the session of its browser is the only one that may write there.
LEMMA SpendsAlone ==
  ASSUME SessionInv, SoloInv, NEW x \in Writing, Browser(x) \notin disturbed,
         \A y \in Exchanges \ {x} : call'[y] = call[y], UNCHANGED <<stored, held, signedIn>>,
         Spends(x)', Uses(Browser(x), x)', DOMAIN tokens \subseteq DOMAIN tokens',
         held[Browser(x)] \in DOMAIN tokens =>
           tokens'[held[Browser(x)]].user = tokens[held[Browser(x)]].user
  PROVE  Clear(Browser(x))'
<1> DEFINE b == Browser(x)
<1>1. x \in Exchanges /\ b \in Browsers
  BY Kinds DEF Writing
<1>2. Clear(b)
  BY <1>1 DEF SoloInv
<1>3. /\ stored'[b] \in {0, held'[b]}
      /\ IF signedIn'[b] = None THEN stored'[b] = 0
         ELSE held'[b] \in DOMAIN tokens' /\ tokens'[held'[b]].user = signedIn'[b]
  BY <1>2 DEF Clear
<1>4. ASSUME NEW y \in Writing', Browser(y) = b
      PROVE  Uses(b, y)'
  <2>1. CASE y = x
    BY <2>1
  <2>2. CASE y # x
    <3>1. y \in Writing
      BY <1>4, <2>2 DEF Writing
    <3> QED  BY <1>4, <2>2, <3>1, OneWriter
  <2> QED  BY <2>1, <2>2
<1> QED  BY <1>1, <1>3, <1>4 DEF Clear, Browser

\* A step of the server for x.
LEMMA ServerSolo ==
  ASSUME SessionInv, SoloInv, NEW x \in Exchanges, NEW r \in Call, Goes(x, r), Server, Phase(r),
         r.session \in {call[x].session, Len(tokens) + 1},
         \A b \in Browsers \ {Browser(x)} : Harmless(b),
         Browser(x) \notin disturbed => Clear(Browser(x))'
  PROVE  SoloInv'
<1> DEFINE d == Browser(x)
<1>1. d \in Browsers
  BY Kinds
<1>2. /\ call' = [call EXCEPT ![x] = r] /\ UNCHANGED <<stored, held, signedIn>>
      /\ Watch({})
  BY DEF Goes, Server
<1>3. call \in [Exchanges -> Call]
  BY DEF SessionInv, CallsOK
<1>4. Crowded' \subseteq disturbed' /\ disturbed \subseteq disturbed'
  BY <1>2, Watched
<1>5. Apart'
  <2>1. ASSUME NEW b \in Browsers
        PROVE  Knows(b)' \subseteq Knows(b) \cup {0} \cup IF b = d THEN {Len(tokens) + 1} ELSE {}
    <3> SUFFICES ASSUME NEW y \in Exchanges, Browser(y) = b
                 PROVE  call'[y].session \in Knows(b) \cup IF b = d THEN {Len(tokens) + 1} ELSE {}
      BY <1>2 DEF Knows, Browser
    <3>1. CASE y = x
      BY <1>2, <1>3, <3>1 DEF Knows
    <3>2. CASE y # x
      BY <1>2, <1>3, <3>2 DEF Knows
    <3> QED  BY <3>1, <3>2
  <2> QED  BY <1>1, <2>1, StillApart DEF SoloInv
<1>6. \A y \in Exchanges : Phase(call'[y])
  BY <1>2, <1>3 DEF SoloInv
<1>7. ASSUME NEW b \in Browsers \ disturbed'
      PROVE  Clear(b)'
  <2>1. b \notin disturbed
    BY <1>4, <1>7
  <2>2. CASE b = d
    BY <2>1, <2>2
  <2>3. CASE b # d
    <3>1. \A y \in Exchanges : Browser(y) = b => call'[y] = call[y]
      BY <1>2, <1>3, <2>3
    <3> QED  BY <1>2, <2>1, <2>3, <3>1, StaysClear DEF SoloInv
  <2> QED  BY <2>2, <2>3
<1> QED  BY <1>4, <1>5, <1>6, <1>7 DEF SoloInv

\* The exchange x goes on and its browser keeps what it holds.
LEMMA GoesOn ==
  ASSUME SessionInv, SoloInv, NEW x \in Exchanges, NEW r \in Call, Goes(x, r), Server, Phase(r),
         r.session \in {call[x].session, Len(tokens) + 1},
         \A b \in Browsers : Harmless(b),
         Browser(x) \notin disturbed => ~Spends(x) /\ (x \in Writing' => Uses(Browser(x), x)')
  PROVE  SoloInv'
<1>1. Browser(x) \in Browsers
  BY Kinds
<1>2. /\ call' = [call EXCEPT ![x] = r] /\ UNCHANGED <<stored, held, signedIn>>
      /\ call \in [Exchanges -> Call]
  BY DEF Goes, Server, SessionInv, CallsOK
<1>3. Browser(x) \notin disturbed => Clear(Browser(x))'
  <2> HAVE Browser(x) \notin disturbed
  <2>1. \A y \in Exchanges :
          \/ call'[y] = call[y]
          \/ ~Spends(y) /\ (y \in Writing' => Uses(Browser(x), y)')
    BY <1>2
  <2> QED  BY <1>1, <1>2, <2>1, StaysClear DEF SoloInv
<1> QED  BY <1>1, <1>3, ServerSolo

LEMMA Untouched ==
  ASSUME UNCHANGED tokens
  PROVE  \A b : Harmless(b)
BY DEF Harmless

\* An exchange that has not yet done anything to the session of its browser.
LEMMA InUse ==
  ASSUME SessionInv, SoloInv, NEW x \in Writing, Browser(x) \notin disturbed
  PROVE  Uses(Browser(x), x) /\ Clear(Browser(x)) /\ x \in Exchanges /\ Browser(x) \in Browsers
BY Kinds DEF SoloInv, Clear, Writing

LEMMA Answers ==
  ASSUME SessionInv, NEW x \in Exchanges, NEW v \in {"ok", "denied", "error", "lost"},
         call[x].at # "idle", v = "denied" => call[x].at = "sent"
  PROVE  LET a == Answer(x, v) IN
         /\ a \in Call /\ a.at = "answered" /\ a.reply = v /\ a.op = call[x].op
         /\ a.session = call[x].session /\ a.user = call[x].user /\ a.tries = call[x].tries
         /\ Phase(a)
<1>1. call[x] \in Call
  BY DEF SessionInv, CallsOK
<1>2. Answer(x, v) \in Call
  BY Answering
<1> QED  BY <1>1, <1>2 DEF Answer, Call, Phase

LEMMA SoloFetch == ASSUME SessionInv, SoloInv, NEW c \in Calls, Fetch(c) PROVE SoloInv'
<1> USE Kinds
<1>1. PICK ok \in Authenticated(c) : Goes(c, Answer(c, IF ok THEN "ok" ELSE "denied"))
  BY DEF Fetch
<1> DEFINE v == IF ok THEN "ok" ELSE "denied"
           a == Answer(c, v)
<1>2. /\ call[c].at = "sent" /\ call[c].op \in {"fetch", "load"} /\ Server /\ UNCHANGED tables
      /\ call[c] \in Call /\ call \in [Exchanges -> Call]
  BY DEF Fetch, Sent, SessionInv, CallsOK
<1>3. v \in {"ok", "denied"} /\ (v = "denied" => call[c].tries = 1)
  <2>1. call[c].tries \in 1..2
    BY <1>2 DEF Call
  <2>2. call[c].tries # 2 => call[c].tries = 1
    BY <2>1
  <2>3. call[c].tries = 2 => v = "ok"
    BY Zenon DEF Authenticated
  <2>4. v \in {"ok", "denied"} /\ "ok" # "denied"
    OBVIOUS
  <2> HIDE DEF v
  <2> QED  BY <2>2, <2>3, <2>4
<1> HIDE DEF v
<1>4. /\ a \in Call /\ a.at = "answered" /\ a.reply = v /\ a.op = call[c].op
      /\ a.session = call[c].session /\ a.tries = call[c].tries /\ Phase(a)
  BY <1>2, <1>3, Answers
<1>5. call'[c] = a /\ Goes(c, a)
  BY <1>1, <1>2 DEF Goes, v
<1> HIDE DEF a
<1>6. ~Spends(c)
  BY <1>2 DEF Spends
<1>7. c \in Writing' => Uses(Browser(c), c)'
  BY <1>2, <1>3, <1>4, <1>5 DEF Writing, Uses, Passed
<1>8. \A b \in Browsers : Harmless(b)
  BY <1>2, Untouched DEF tables
<1> QED  BY <1>2, <1>4, <1>5, <1>6, <1>7, <1>8, GoesOn

LEMMA SoloCreate == ASSUME SessionInv, SoloInv, NEW c \in Calls, CreateWorkspace(c) PROVE SoloInv'
<1> USE Kinds
<1> DEFINE a == Answer(c, "ok")
<1>1. /\ call[c].at = "sent" /\ call[c].op = "fetch" /\ Server /\ UNCHANGED tokens /\ Goes(c, a)
      /\ call \in [Exchanges -> Call]
  BY DEF CreateWorkspace, Sent, SessionInv, CallsOK
<1>2. a \in Call /\ a.op = "fetch" /\ a.session = call[c].session /\ Phase(a)
  BY <1>1, Answers
<1> HIDE DEF a
<1>3. ~Spends(c) /\ c \notin Writing'
  BY <1>1, <1>2 DEF Spends, Writing, Goes
<1> QED  BY <1>1, <1>2, <1>3, Untouched, GoesOn

\* Before a registration or a login has its session, it has nothing to do with another.
LEMMA SoloEnter ==
  ASSUME SessionInv, SoloInv, NEW c \in Calls, NEW r \in Call, Goes(c, r), Server,
         UNCHANGED tokens, call[c].op \in {"login", "register"}, r.op = call[c].op,
         r.session = call[c].session, r.at \notin {"joined", "found", "change"},
         r.at = "answered" => r.reply = "denied" \/ (r.op = "register" /\ r.reply = "error")
  PROVE  SoloInv'
<1> USE Kinds
<1>1. call \in [Exchanges -> Call] /\ call'[c] = r
  BY DEF Goes, SessionInv, CallsOK
<1>2. ~Spends(c) /\ Uses(Browser(c), c)'
  BY <1>1 DEF Spends, Uses, Passed
<1>3. Phase(r)
  BY DEF Phase
<1> QED  BY <1>2, <1>3, Untouched, GoesOn

LEMMA SoloLogin == ASSUME SessionInv, SoloInv, NEW c \in Calls, Login(c) PROVE SoloInv'
<1> USE Kinds
<1> DEFINE r == [call[c] EXCEPT !.at = "issue", !.password = None, !.changes = accounts[call[c].user].changes]
           a == Answer(c, "denied")
<1>1. /\ call[c].at = "sent" /\ call[c].op = "login" /\ Server /\ UNCHANGED tokens
      /\ \/ accounts[call[c].user] # NoAccount /\ Goes(c, r)
         \/ Goes(c, a)
      /\ call[c] \in Call /\ Sound(c, call[c])
  BY DEF Login, Sent, tables, SessionInv, CallsOK
<1>2. a \in Call /\ a.op = "login" /\ a.session = call[c].session /\ a.at = "answered" /\ a.reply = "denied"
  BY <1>1, Answers
<1>3. ASSUME accounts[call[c].user] # NoAccount
      PROVE  r \in Call /\ r.op = "login" /\ r.session = call[c].session /\ r.at = "issue"
  <2>1. accounts[call[c].user].changes \in Nat
    BY <1>1, <1>3 DEF Sound, SoundIn, SessionInv, TablesOK
  <2>2. r \in Call
    BY <1>1, <2>1, ZenonT(30) DEF Call
  <2> QED  BY <1>1, <2>2 DEF Call
<1> HIDE DEF a, r
<1> QED  BY <1>1, <1>2, <1>3, SoloEnter

LEMMA SoloRegister ==
  ASSUME SessionInv, SoloInv, NEW c \in Calls,
         CheckRegistration(c) \/ InsertAccount(c) \/ CommitAccount(c)
  PROVE  SoloInv'
<1> USE Kinds
<1> DEFINE r(at) == [call[c] EXCEPT !.at = at]
           a == Answer(c, "error")
<1>1. /\ call[c] \in Call /\ Sound(c, call[c])
      /\ call[c].at \in {"sent", "inserting", "inserted"} /\ call[c].op = "register"
      /\ Server /\ UNCHANGED tokens
      /\ \/ \E at \in {"inserting", "inserted", "issue"} : Goes(c, r(at))
         \/ Goes(c, a)
  <2>1. call[c] \in Call /\ Sound(c, call[c])
    BY DEF SessionInv, CallsOK
  <2>2. CASE CheckRegistration(c)
    BY <2>1, <2>2 DEF CheckRegistration, Sent, tables
  <2>3. CASE InsertAccount(c)
    BY <2>1, <2>3 DEF InsertAccount, tables, Sound, SoundIn
  <2>4. CASE CommitAccount(c)
    BY <2>1, <2>4 DEF CommitAccount, Sound, SoundIn
  <2> QED  BY <2>1, <2>2, <2>3, <2>4
<1>2. a \in Call /\ a.op = "register" /\ a.session = call[c].session /\ a.at = "answered" /\ a.reply = "error"
  BY <1>1, Answers
<1>3. ASSUME NEW at \in {"inserting", "inserted", "issue"}
      PROVE  r(at) \in Call /\ r(at).op = "register" /\ r(at).session = call[c].session /\ r(at).at = at
  BY <1>1 DEF Call
<1> HIDE DEF a, r
<1> QED  BY <1>1, <1>2, <1>3, SoloEnter

LEMMA SoloVerify == ASSUME SessionInv, SoloInv, NEW c \in Calls, VerifyPassword(c) PROVE SoloInv'
<1> USE Kinds
<1> DEFINE u == tokens[call[c].session].user
           r == [call[c] EXCEPT !.at = "change", !.user = u]
           a == Answer(c, "denied")
<1>1. /\ call[c].at = "sent" /\ call[c].op = "password" /\ Server /\ UNCHANGED tokens
      /\ Goes(c, r) \/ Goes(c, a)
      /\ call[c] \in Call /\ call \in [Exchanges -> Call] /\ Sound(c, call[c])
  BY DEF VerifyPassword, Sent, tables, SessionInv, CallsOK
<1>2. c \in Writing
  BY <1>1 DEF Writing
<1>3. u \in Users
  BY <1>1 DEF Sound, SoundIn, SessionInv, TablesOK, Registered
<1>4. a \in Call /\ a.op = "password" /\ a.session = call[c].session /\ a.at = "answered" /\ a.reply = "denied"
  BY <1>1, Answers
<1>5. r \in Call /\ r.op = "password" /\ r.session = call[c].session /\ r.at = "change" /\ r.user = u
  BY <1>1, <1>3 DEF Call
<1>6. Browser(c) \notin disturbed => u = signedIn[Browser(c)] /\ signedIn[Browser(c)] # None /\ call[c].session = held[Browser(c)]
  BY <1>1, <1>2, InUse DEF Uses, Clear
<1> HIDE DEF r, a, u
<1>7. ~Spends(c)
  BY <1>1 DEF Spends, Passed
<1>8. ASSUME NEW s \in {r, a}, Goes(c, s), Browser(c) \notin disturbed
      PROVE  Uses(Browser(c), c)'
  <2>1. call'[c] = s /\ UNCHANGED <<signedIn, held>>
    BY <1>1, <1>8 DEF Goes, Server
  <2> QED  BY <1>4, <1>5, <1>6, <1>8, <2>1 DEF Uses, Passed
<1>9. Phase(r) /\ Phase(a)
  BY <1>4, <1>5 DEF Phase
<1> QED  BY <1>1, <1>4, <1>5, <1>7, <1>8, <1>9, Untouched, GoesOn

\* A change of password is harmless to the other browsers: they lose their sessions to it.
LEMMA EndedByAnother ==
  ASSUME SessionInv, NEW u, NEW p, NEW d \in Browsers \cup {"cli"}, ChangedPassword(u, p, d)
  PROVE  /\ DOMAIN tokens' = DOMAIN tokens
         /\ \A s \in DOMAIN tokens : tokens'[s].user = tokens[s].user
         /\ \A b \in Browsers \ {d} : Harmless(b)
<1>1. d # None /\ tokens' = RevokedFor(u, d)
  BY SessionsAssumption DEF ChangedPassword
<1>2. DOMAIN tokens' = DOMAIN tokens
  BY <1>1 DEF RevokedFor
<1>3. ASSUME NEW s \in DOMAIN tokens
      PROVE  /\ tokens'[s].user = tokens[s].user /\ tokens'[s].expired = tokens[s].expired
             /\ tokens[s].revoked => tokens'[s].revoked
             /\ tokens'[s].revoked /\ ~tokens[s].revoked => tokens'[s].endedBy = d
             /\ tokens'[s].endedBy \in {d, tokens[s].endedBy}
  <2>1. tokens[s] \in Token
    BY DEF SessionInv, TablesOK
  <2>2. tokens'[s] = IF tokens[s].user = u /\ ~tokens[s].revoked
                     THEN [tokens[s] EXCEPT !.revoked = TRUE, !.endedBy = d] ELSE tokens[s]
    BY <1>1 DEF RevokedFor
  <2>3. CASE tokens[s].user = u /\ ~tokens[s].revoked
    <3>1. tokens'[s] = [tokens[s] EXCEPT !.revoked = TRUE, !.endedBy = d]
      BY <2>2, <2>3
    <3> QED  BY <2>1, <2>3, <3>1 DEF Token
  <2>4. CASE ~(tokens[s].user = u /\ ~tokens[s].revoked)
    BY <2>2, <2>4
  <2> QED  BY <2>3, <2>4
<1> QED  BY <1>1, <1>2, <1>3 DEF Harmless

LEMMA SoloChange == ASSUME SessionInv, SoloInv, NEW c \in Calls, ChangePassword(c) PROVE SoloInv'
<1> USE Kinds
<1> DEFINE b == Browser(c)
           r == [call[c] EXCEPT !.at = "issue", !.changes = accounts[call[c].user].changes + 1]
<1>1. /\ call[c].at = "change" /\ Server /\ Goes(c, r)
      /\ ChangedPassword(call[c].user, call[c].new, b)
      /\ call[c] \in Call /\ call \in [Exchanges -> Call] /\ Sound(c, call[c])
  BY DEF ChangePassword, SessionInv, CallsOK
<1>2. call[c].op = "password"
  BY <1>1 DEF SoloInv, Phase
<1>3. /\ DOMAIN tokens' = DOMAIN tokens
      /\ \A s \in DOMAIN tokens : tokens'[s].user = tokens[s].user
      /\ \A d \in Browsers \ {b} : Harmless(d)
  BY <1>1, EndedByAnother
<1>4. r \in Call
  <2>1. accounts[call[c].user].changes + 1 \in Nat
    BY <1>1 DEF Sound, SoundIn, SessionInv, TablesOK, Registered
  <2> QED  BY <1>1, <2>1, ZenonT(30) DEF Call
<1>5. r.op = "password" /\ r.session = call[c].session /\ r.at = "issue" /\ r.user = call[c].user
  BY <1>1, <1>2 DEF Call
<1> HIDE DEF r
<1>6. /\ call'[c] = r /\ UNCHANGED <<stored, held, signedIn>>
      /\ \A y \in Exchanges \ {c} : call'[y] = call[y]
  BY <1>1 DEF Goes, Server
<1>7. b \notin disturbed => Clear(b)'
  <2> HAVE b \notin disturbed
  <2>1. c \in Writing
    BY <1>1, <1>2 DEF Writing
  <2>2. call[c].user = signedIn[b] /\ signedIn[b] # None
    BY <1>1, <1>2, <2>1, InUse DEF Uses
  <2>3. Spends(c)' /\ Uses(b, c)'
    BY <1>5, <1>6, <2>2 DEF Spends, Uses, Passed
  <2> QED  BY <1>3, <1>6, <2>1, <2>3, SpendsAlone
<1>8. Phase(r)
  BY <1>5 DEF Phase
<1> QED  BY <1>1, <1>3, <1>4, <1>5, <1>7, <1>8, ServerSolo

\* Expiry is no harm.
LEMMA ExpiryHarmless ==
  ASSUME SessionInv, NEW s \in DOMAIN tokens, NEW e \in {tokens[s].expired, TRUE},
         tokens' = [tokens EXCEPT ![s].expired = e]
  PROVE  /\ \A b : Harmless(b)
         /\ tokens'[s].expired = e /\ tokens'[s].revoked = tokens[s].revoked
<1>1. tokens \in Seq(Token) /\ \A i \in DOMAIN tokens : tokens[i] \in Token
  BY DEF SessionInv, TablesOK
<1>2. /\ DOMAIN tokens' = DOMAIN tokens
      /\ \A i \in DOMAIN tokens : i # s => tokens'[i] = tokens[i]
      /\ tokens'[s] = [tokens[s] EXCEPT !.expired = e]
  BY <1>1
<1>3. /\ tokens'[s].user = tokens[s].user /\ tokens'[s].endedBy = tokens[s].endedBy
      /\ tokens'[s].revoked = tokens[s].revoked /\ tokens'[s].expired = e
  BY <1>1, <1>2 DEF Token
<1> QED  BY <1>2, <1>3 DEF Harmless

\* A session that its own browser revokes is no other's.
LEMMA RevokedHarmless ==
  ASSUME SessionInv, SoloInv, NEW x \in Exchanges, call[x].session \in DOMAIN tokens,
         tokens' = Revoked(call[x].session)
  PROVE  /\ DOMAIN tokens' = DOMAIN tokens
         /\ \A s \in DOMAIN tokens : tokens'[s].user = tokens[s].user
         /\ \A b \in Browsers \ {Browser(x)} : Harmless(b)
<1> DEFINE s == call[x].session
<1>1. tokens \in Seq(Token) /\ \A i \in DOMAIN tokens : tokens[i] \in Token
  BY DEF SessionInv, TablesOK
<1>2. /\ DOMAIN tokens' = DOMAIN tokens
      /\ \A i \in DOMAIN tokens : i # s => tokens'[i] = tokens[i]
      /\ tokens'[s] = [tokens[s] EXCEPT !.revoked = TRUE]
  BY <1>1 DEF Revoked
<1>3. tokens'[s].user = tokens[s].user
  BY <1>1, <1>2 DEF Token
<1>4. ASSUME NEW b \in Browsers \ {Browser(x)}
      PROVE  s \notin Knows(b)
  <2>1. s \in Knows(Browser(x)) /\ Browser(x) \in Browsers /\ s # 0
    BY <1>1, Kinds, Known
  <2> QED  BY <2>1 DEF SoloInv, Apart
<1> QED  BY <1>2, <1>3, <1>4 DEF Harmless

LEMMA SoloFind == ASSUME SessionInv, SoloInv, NEW t \in Tabs, FindActive(t) PROVE SoloInv'
<1> USE Kinds
<1> DEFINE s == call[t].session
           b == Browser(t)
           r == [call[t] EXCEPT !.at = "found", !.changes = tokens[s].changes]
           a == Answer(t, "denied")
<1>1. /\ call[t].at = "sent" /\ call[t].op = "refresh" /\ Server
      /\ call[t] \in Call /\ call \in [Exchanges -> Call] /\ s \in DOMAIN tokens
      /\ tokens[s] \in Token
  BY DEF FindActive, Sent, SessionInv, CallsOK, Sound, SoundIn, TablesOK
<1>2. PICK e \in {tokens[s].expired, TRUE} :
        /\ tokens' = [tokens EXCEPT ![s].expired = e]
        /\ Goes(t, IF tokens[s].revoked \/ e THEN a ELSE r)
  BY DEF FindActive
<1>3. /\ \A d : Harmless(d)
      /\ tokens'[s].expired = e /\ tokens'[s].revoked = tokens[s].revoked
  BY <1>1, <1>2, ExpiryHarmless
<1>4. a \in Call /\ a.op = "refresh" /\ a.session = s /\ a.at = "answered" /\ a.reply = "denied"
  BY <1>1, Answers
<1>5. r \in Call /\ r.op = "refresh" /\ r.session = s /\ r.at = "found"
  <2>1. tokens[s].changes \in Nat
    BY <1>1 DEF Token
  <2> QED  BY <1>1, <2>1 DEF Call
<1>6. b \notin disturbed => signedIn[b] # None /\ s = held[b]
  <2>1. t \in Writing
    BY <1>1 DEF Writing
  <2> QED  BY <1>1, <2>1, InUse DEF Uses
<1> DEFINE denied == tokens[s].revoked \/ e
<1>7. CASE denied
  <2>1. Goes(t, a)
    BY <1>2, <1>7
  <2>2. b \notin disturbed => ~Spends(t) /\ Uses(b, t)'
    <3> HAVE b \notin disturbed
    <3> HIDE DEF a, r
    <3>1. call'[t] = a /\ held' = held /\ signedIn' = signedIn
      BY <1>1, <2>1 DEF Goes, Server
    <3>2. ~Active(held[b])'
      BY <1>3, <1>6, <1>7, <3>1 DEF Active
    <3>3. ~Spends(t)
      BY <1>1 DEF Spends, Passed
    <3> QED  BY <1>4, <1>6, <3>1, <3>2, <3>3 DEF Uses, Passed
  <2>3. Phase(a)
    BY <1>4 DEF Phase
  <2> HIDE DEF a
  <2> QED  BY <1>1, <1>3, <1>4, <2>1, <2>2, <2>3, GoesOn
<1>8. CASE ~denied
  <2>1. Goes(t, r)
    BY <1>2, <1>8
  <2>2. b \notin disturbed => ~Spends(t) /\ Uses(b, t)'
    <3> HAVE b \notin disturbed
    <3> HIDE DEF a, r
    <3>1. call'[t] = r /\ held' = held /\ signedIn' = signedIn
      BY <1>1, <2>1 DEF Goes, Server
    <3>3. ~Spends(t)
      BY <1>1 DEF Spends, Passed
    <3> QED  BY <1>5, <1>6, <3>1, <3>3 DEF Uses, Passed
  <2>3. Phase(r)
    BY <1>5 DEF Phase
  <2> HIDE DEF r
  <2> QED  BY <1>1, <1>3, <1>5, <2>1, <2>2, <2>3, GoesOn
<1> QED  BY <1>7, <1>8

LEMMA SoloRotate == ASSUME SessionInv, SoloInv, NEW t \in Tabs, Rotate(t) PROVE SoloInv'
<1> USE Kinds
<1> DEFINE s == call[t].session
           b == Browser(t)
           r == [call[t] EXCEPT !.at = "issue", !.user = tokens[s].user]
<1>1. /\ call[t].at = "found" /\ call[t].op = "refresh" /\ Server /\ Goes(t, r)
      /\ call[t] \in Call /\ call \in [Exchanges -> Call] /\ s \in DOMAIN tokens
      /\ tokens[s] \in Token /\ tokens' = Revoked(s)
  BY DEF Rotate, SoloInv, Phase, SessionInv, CallsOK, Sound, SoundIn, TablesOK
<1>2. /\ DOMAIN tokens' = DOMAIN tokens
      /\ \A i \in DOMAIN tokens : tokens'[i].user = tokens[i].user
      /\ \A d \in Browsers \ {b} : Harmless(d)
  BY <1>1, RevokedHarmless
<1>3. r \in Call /\ r.op = "refresh" /\ r.session = s /\ r.at = "issue" /\ r.user = tokens[s].user
  <2>1. tokens[s].user \in Users
    BY <1>1 DEF Token
  <2> QED  BY <1>1, <2>1 DEF Call
<1> HIDE DEF r
<1>4. /\ call'[t] = r /\ UNCHANGED <<stored, held, signedIn>>
      /\ \A y \in Exchanges \ {t} : call'[y] = call[y]
  BY <1>1 DEF Goes, Server
<1>5. b \notin disturbed => Clear(b)'
  <2> HAVE b \notin disturbed
  <2>1. t \in Writing
    BY <1>1 DEF Writing
  <2>2. signedIn[b] # None /\ s = held[b] /\ tokens[s].user = signedIn[b]
    BY <1>1, <2>1, InUse DEF Uses, Clear
  <2>3. Spends(t)' /\ Uses(b, t)'
    BY <1>3, <1>4, <2>2 DEF Spends, Uses, Passed
  <2> QED  BY <1>2, <1>4, <2>1, <2>3, SpendsAlone
<1>6. Phase(r)
  BY <1>3 DEF Phase
<1> QED  BY <1>1, <1>2, <1>3, <1>5, <1>6, ServerSolo

LEMMA SoloLogout == ASSUME SessionInv, SoloInv, NEW c \in Calls, Logout(c) PROVE SoloInv'
<1> USE Kinds
<1> DEFINE s == call[c].session
           b == Browser(c)
           a == Answer(c, "ok")
<1>1. /\ call[c].at = "sent" /\ call[c].op = "logout" /\ Server /\ Goes(c, a)
      /\ call[c] \in Call /\ call \in [Exchanges -> Call] /\ s \in DOMAIN tokens
      /\ tokens' = Revoked(s)
  BY DEF Logout, Sent, SessionInv, CallsOK, Sound, SoundIn, TablesOK
<1>2. /\ DOMAIN tokens' = DOMAIN tokens
      /\ \A i \in DOMAIN tokens : tokens'[i].user = tokens[i].user
      /\ \A d \in Browsers \ {b} : Harmless(d)
  BY <1>1, RevokedHarmless
<1>3. /\ a \in Call /\ a.op = "logout" /\ a.session = s /\ a.at = "answered" /\ a.reply = "ok"
      /\ Phase(a)
  BY <1>1, Answers
<1> HIDE DEF a
<1>4. /\ call'[c] = a /\ UNCHANGED <<stored, held, signedIn>>
      /\ \A y \in Exchanges \ {c} : call'[y] = call[y]
  BY <1>1 DEF Goes, Server
<1>5. b \notin disturbed => Clear(b)'
  <2> HAVE b \notin disturbed
  <2>1. c \in Writing
    BY <1>1 DEF Writing
  <2>2. signedIn[b] # None
    BY <1>1, <2>1, InUse DEF Uses
  <2>3. Spends(c)' /\ Uses(b, c)'
    BY <1>3, <1>4, <2>2 DEF Spends, Uses, Passed
  <2> QED  BY <1>2, <1>4, <2>1, <2>3, SpendsAlone
<1> QED  BY <1>1, <1>2, <1>3, <1>5, ServerSolo

LEMMA SoloIssue == ASSUME SessionInv, SoloInv, NEW x \in Exchanges, IssueSession(x) PROVE SoloInv'
<1> USE Kinds
<1> DEFINE b == Browser(x)
           n == Len(tokens) + 1
           u == call[x].user
           new == Fresh(u, call[x].changes, call[x].changes < accounts[u].changes)
           r == Given(x, n)
<1>1. /\ call[x].at = "issue" /\ Server /\ Goes(x, r) /\ n \in 1..MaxSessions
      /\ call[x] \in Call /\ call \in [Exchanges -> Call]
      /\ tokens' = Append(tokens, new)
      /\ tokens \in Seq(Token) /\ Len(tokens) \in Nat /\ DOMAIN tokens = 1..Len(tokens)
  BY SessionsAssumption DEF IssueSession, SessionInv, CallsOK, TablesOK
<1>2. /\ DOMAIN tokens' = 1..n /\ \A i \in DOMAIN tokens : tokens'[i] = tokens[i]
      /\ tokens'[n] = new
  BY <1>1
<1>3. new.user = u /\ ~new.revoked /\ ~new.expired
  BY DEF Fresh
<1>4. \A d \in Browsers : Harmless(d)
  BY <1>1, <1>2 DEF Harmless
<1>5. r \in Call
  <2>1. Answer(x, "ok") \in Call /\ n \in 0..MaxSessions
    BY <1>1, Answers
  <2> HIDE DEF n
  <2> QED  BY <2>1, ZenonT(40) DEF Given, Call
<1>6. r.op = call[x].op /\ r.session = n /\ r.at = "answered" /\ r.reply = "ok" /\ r.user = u
  BY <1>1 DEF Given, Answer, Call
<1>7. call[x].op \in {"refresh", "password", "login", "register"}
  BY <1>1 DEF SoloInv, Phase
<1>8. Phase(r)
  BY <1>6 DEF Phase
<1> HIDE DEF r, new
<1>9. /\ call'[x] = r /\ UNCHANGED <<stored, held, signedIn>>
      /\ \A y \in Exchanges \ {x} : call'[y] = call[y]
  BY <1>1 DEF Goes, Server
<1>10. Good(b, call[x].session, call[x].user)'
  <2>1. n \in DOMAIN tokens' /\ tokens'[n].user = u /\ ~tokens'[n].revoked /\ ~tokens'[n].expired
    BY <1>1, <1>2, <1>3
  <2>2. call'[x].session = n /\ call'[x].user = u
    BY <1>6, <1>9
  <2> QED  BY <2>1, <2>2 DEF Good, Active
<1>11. CASE call[x].op \in {"login", "register"}
  <2>1. ~Spends(x) /\ Uses(b, x)'
    BY <1>6, <1>9, <1>10, <1>11 DEF Spends, Uses, Passed
  <2> QED  BY <1>1, <1>4, <1>5, <1>6, <1>8, <2>1, GoesOn
<1>12. CASE call[x].op \in {"refresh", "password"}
  <2>1. b \notin disturbed => Clear(b)'
    <3> HAVE b \notin disturbed
    <3>1. x \in Writing
      BY <1>1, <1>12 DEF Writing
    <3>2. signedIn[b] # None /\ u = signedIn[b]
      BY <1>1, <1>12, <3>1, InUse DEF Uses
    <3>3. Spends(x)' /\ Uses(b, x)'
      BY <1>6, <1>9, <1>10, <1>12, <3>2 DEF Spends, Uses, Passed
    <3> QED  BY <1>2, <1>4, <1>9, <3>1, <3>3, SpendsAlone, Kinds DEF Harmless
  <2> QED  BY <1>1, <1>4, <1>5, <1>6, <1>8, <2>1, ServerSolo
<1> QED  BY <1>7, <1>11, <1>12

-----------------------------------------------------------------------------
(* The client, faults and resets.                                          *)

\* Nothing is stored and no session changes.
LEMMA ClientSolo ==
  ASSUME SessionInv, SoloInv, NEW now, Watch(now), UNCHANGED <<tokens, stored, held, signedIn>>,
         \A y \in Exchanges : Phase(call'[y]) /\ call'[y].session \in Knows(Browser(y)) \cup {0},
         \A y \in Exchanges : Browser(y) \notin disturbed' =>
           call'[y] = call[y] \/ (~Spends(y) /\ (y \in Writing' => Uses(Browser(y), y)'))
  PROVE  SoloInv'
<1>1. Crowded' \subseteq disturbed' /\ disturbed \subseteq disturbed'
  BY Watched
<1>2. Apart'
  <2>1. \A b \in Browsers : Knows(b)' \subseteq Knows(b) \cup {0}
    BY DEF Knows, Browser
  <2>2. CASE Browsers = {}
    BY <2>2 DEF Apart
  <2>3. CASE Browsers # {}
    BY <2>1, <2>3, StillApart DEF SoloInv
  <2> QED  BY <2>2, <2>3
<1>3. ASSUME NEW b \in Browsers \ disturbed'
      PROVE  Clear(b)'
  <2>1. Harmless(b)
    BY Untouched
  <2>2. Clear(b)
    BY <1>1, <1>3 DEF SoloInv
  <2> QED  BY <1>3, <2>1, <2>2, StaysClear
<1> QED  BY <1>1, <1>2, <1>3 DEF SoloInv

LEMMA SoloSend ==
  ASSUME SessionInv, SoloInv, NEW c \in Calls, NEW op \in Ops \ {"refresh"},
         NEW u, NEW p, NEW q, Send(c, op, u, p, q),
         op \notin {"login", "register"} => stored[Browser(c)] # 0
  PROVE  SoloInv'
<1> USE Kinds
<1> DEFINE b == Browser(c)
           n == stored[b]
           r == [Idle EXCEPT !.op = op, !.at = "sent", !.user = u,
                   !.session = n, !.password = p, !.new = q]
<1>1. /\ call' = [call EXCEPT ![c] = r] /\ Watch({}) /\ call[c].at = "idle"
      /\ UNCHANGED <<tokens, stored, signedIn, held>> /\ call \in [Exchanges -> Call]
  BY DEF Send, tables, SessionInv, CallsOK
<1> HIDE DEF n
<1>2. r.op = op /\ r.at = "sent" /\ r.session = n
  BY DEF Idle
<1>3. Phase(r)
  BY <1>2 DEF Phase
<1>4. n \in Knows(b)
  BY DEF Knows, n
<1> HIDE DEF r
<1>5. call'[c] = r /\ \A y \in Exchanges \ {c} : call'[y] = call[y]
  BY <1>1
<1>6. \A y \in Exchanges : Phase(call'[y]) /\ call'[y].session \in Knows(Browser(y)) \cup {0}
  BY <1>2, <1>3, <1>4, <1>5, Known DEF SoloInv
<1>7. b \notin disturbed' => ~Spends(c) /\ Uses(b, c)'
  <2> HAVE b \notin disturbed'
  <2>1. Clear(b)
    BY <1>1, Watched DEF SoloInv
  <2>2. op \in {"password", "logout"} => signedIn[b] # None /\ n = held[b]
    BY <2>1 DEF Clear, n
  <2> QED  BY <1>1, <1>2, <1>5, <2>2 DEF Spends, Uses, Passed
<1> QED  BY <1>1, <1>5, <1>6, <1>7, ClientSolo

LEMMA SoloPages ==
  ASSUME SessionInv, SoloInv, NEW c \in Calls,
         LoginPage(c) \/ RegisterPage(c) \/ ChangePasswordCard(c) \/ Pages(c)
  PROVE  SoloInv'
<1>1. CASE LoginPage(c)
  BY <1>1, SoloSend DEF LoginPage, Ops
<1>2. CASE RegisterPage(c)
  BY <1>2, SoloSend DEF RegisterPage, Ops
<1>3. CASE ChangePasswordCard(c)
  BY <1>3, SoloSend DEF ChangePasswordCard, Ops
<1>4. CASE Pages(c)
  BY <1>4, SoloSend DEF Pages, Ops
<1> QED  BY <1>1, <1>2, <1>3, <1>4

LEMMA SoloFault == ASSUME SessionInv, SoloInv, NEW x \in Exchanges, Fault(x) PROVE SoloInv'
<1> USE Kinds
<1>1. PICK v \in {"error", "lost"} : Goes(x, Answer(x, v))
  BY DEF Fault
<1> DEFINE a == Answer(x, v)
           now == IF call[x].op = "fetch" THEN {} ELSE {Browser(x)}
<1>2. /\ call[x].at \notin {"idle", "joined"} /\ Watch(now)
      /\ UNCHANGED <<tokens, stored, signedIn, held>> /\ call \in [Exchanges -> Call]
  BY DEF Fault, tables, SessionInv, CallsOK
<1>3. a.op = call[x].op /\ a.session = call[x].session /\ Phase(a)
  BY <1>2, Answers
<1>4. call'[x] = a /\ \A y \in Exchanges \ {x} : call'[y] = call[y]
  BY <1>1, <1>2 DEF Goes
<1> HIDE DEF a, now
<1>5. \A y \in Exchanges : Phase(call'[y]) /\ call'[y].session \in Knows(Browser(y)) \cup {0}
  BY <1>3, <1>4, Known DEF SoloInv
<1>6. Browser(x) \notin disturbed' => ~Spends(x) /\ x \notin Writing'
  <2> HAVE Browser(x) \notin disturbed'
  <2>1. call[x].op = "fetch"
    BY <1>2, Watched DEF now
  <2> QED  BY <1>3, <1>4, <2>1 DEF Spends, Writing
<1> QED  BY <1>2, <1>4, <1>5, <1>6, ClientSolo

LEMMA SoloReset ==
  ASSUME SessionInv, SoloInv, NEW u \in Users, NEW p \in Passwords, ResetPassword(u, p)
  PROVE  SoloInv'
<1>1. /\ ChangedPassword(u, p, "cli")
      /\ UNCHANGED <<stored, call, signedIn, held, disturbed>>
  BY DEF ResetPassword, history
<1>2. \A b \in Browsers : Harmless(b)
  BY <1>1, EndedByAnother, SessionsAssumption
<1>3. Crowded' \subseteq disturbed'
  BY <1>1 DEF SoloInv, Crowded, Writing, Browser
<1>4. Apart'
  BY <1>1 DEF SoloInv, Apart, Knows, Browser
<1>5. \A b \in Browsers \ disturbed' : Clear(b)'
  BY <1>1, <1>2, StaysClear DEF SoloInv
<1> QED  BY <1>1, <1>3, <1>4, <1>5 DEF SoloInv

LEMMA SoloJoin == ASSUME SessionInv, SoloInv, NEW c \in Calls, Join(c) PROVE SoloInv'
<1> USE Kinds
<1> DEFINE t == TabOf[c]
           b == Browser(c)
           n == stored[b]
           r == [call[c] EXCEPT !.at = "joined"]
           fresh == [Idle EXCEPT !.op = "refresh", !.at = "sent", !.session = n]
<1>1. /\ t \in Tabs /\ t # c /\ t \in Exchanges /\ Browser(t) = b
      /\ Watch({}) /\ UNCHANGED <<tokens, stored, signedIn, held>>
      /\ call[c].at = "answered" /\ call[c].reply = "denied" /\ n # 0
      /\ call[c].op \notin {"login", "register"} /\ call[c] \in Call
  BY SessionsAssumption DEF Join, Refreshes, tables, SessionInv, CallsOK, Browser
<1>2. /\ call'[c] = r
      /\ call[t].at = "idle" => call'[t] = fresh
      /\ \A y \in Exchanges \ {c, t} : call'[y] = call[y]
      /\ call[t].at # "idle" => call'[t] = call[t]
  BY <1>1 DEF Join, SessionInv, CallsOK
<1>3. r.op = call[c].op /\ r.at = "joined" /\ r.session = call[c].session
  BY <1>1 DEF Call
<1> HIDE DEF n
<1>4. fresh.op = "refresh" /\ fresh.at = "sent" /\ fresh.session = n
  BY DEF Idle
<1> HIDE DEF r, fresh
<1>5. n \in Knows(b)
  BY DEF Knows, n
<1>6. ~Spends(c) /\ c \notin Writing'
  <2>1. call[c].op = "logout" => ~Passed(c)
    BY <1>1 DEF Passed
  <2> QED  BY <1>1, <1>2, <1>3 DEF Spends, Passed, Writing
<1>7. ASSUME b \notin disturbed', call[t].at = "idle"
      PROVE  ~Spends(t) /\ Uses(b, t)'
  <2>1. Clear(b)
    BY <1>1, <1>7, Watched DEF SoloInv
  <2>2. signedIn[b] # None /\ n = held[b]
    BY <1>1, <2>1 DEF Clear, n
  <2> QED  BY <1>1, <1>2, <1>4, <1>7, <2>2 DEF Spends, Uses, Passed
<1>8. call[c].op # "refresh"
  BY DEF SessionInv, CallsOK, Sound, SoundIn
<1>9. ASSUME NEW y \in Exchanges
      PROVE  Phase(call'[y]) /\ call'[y].session \in Knows(Browser(y)) \cup {0}
  <2>1. CASE y = c
    BY <1>1, <1>2, <1>3, <1>8, <2>1, Known DEF Phase
  <2>2. CASE y = t /\ call[t].at = "idle"
    BY <1>1, <1>2, <1>4, <1>5, <2>2 DEF Phase
  <2>3. CASE y # c /\ (y = t => call[t].at # "idle")
    BY <1>2, <2>3, Known DEF SoloInv
  <2> QED  BY <2>1, <2>2, <2>3
<1> QED  BY <1>1, <1>2, <1>6, <1>7, <1>9, ClientSolo

\* What a clear browser has left when an exchange of it ends: there is no other that writes.
LEMMA LeftClear ==
  ASSUME SessionInv, SoloInv, NEW x \in Writing, NEW b \in Browsers \ disturbed, Browser(x) = b,
         UNCHANGED tokens, x \notin Writing',
         \A y \in Exchanges : y \notin Writing /\ Browser(y) = b /\ y \in Writing' => Uses(b, y)',
         stored'[b] \in {0, held'[b]},
         IF signedIn'[b] = None THEN stored'[b] = 0
         ELSE held'[b] \in DOMAIN tokens /\ tokens[held'[b]].user = signedIn'[b],
         Holds(b)'
  PROVE  Clear(b)'
<1>1. ASSUME NEW y \in Writing', Browser(y) = b
      PROVE  Uses(b, y)'
  <2>1. y \in Exchanges /\ y # x
    BY <1>1 DEF Writing
  <2>2. y \notin Writing
    BY <1>1, <2>1, OneWriter
  <2> QED  BY <1>1, <2>1, <2>2
<1> QED  BY <1>1 DEF Clear, Browser

LEMMA SoloEnd == ASSUME SessionInv, SoloInv, NEW c \in Calls, End(c) PROVE SoloInv'
<1> USE Kinds
<1> DEFINE b == Browser(c)
           op == call[c].op
           ok == call[c].reply = "ok"
           s == call[c].session
<1>1. /\ Watch({}) /\ UNCHANGED tokens /\ call' = [call EXCEPT ![c] = Idle]
      /\ call[c].at = "answered" /\ ~Refreshes(c) /\ call \in [Exchanges -> Call]
      /\ stored \in [Browsers -> {0} \cup DOMAIN tokens] /\ held \in [Browsers -> {0} \cup DOMAIN tokens]
      /\ signedIn \in [Browsers -> Users \cup {None}]
      /\ call[c] \in Call /\ Sound(c, call[c]) /\ op # "refresh"
  BY DEF End, tables, SessionInv, CallsOK, BrowsersOK, Sound, SoundIn
<1>2. call'[c] = Idle /\ \A y \in Exchanges \ {c} : call'[y] = call[y]
  BY <1>1
<1>3. c \notin Writing'
  BY <1>2 DEF Writing
<1>4. /\ \A d \in Browsers \ {b} : /\ stored'[d] = stored[d] /\ held'[d] = held[d]
                                   /\ signedIn'[d] = signedIn[d]
      /\ stored'[b] \in {stored[b], s, 0} /\ held'[b] \in {held[b], s}
  BY <1>1 DEF End, Store
<1>5. Crowded' \subseteq disturbed' /\ disturbed \subseteq disturbed'
  BY <1>1, Watched
<1>6. Apart'
  <2>1. ASSUME NEW d \in Browsers
        PROVE  Knows(d)' \subseteq Knows(d) \cup {0}
    <3>1. \A y \in Exchanges : Browser(y) = d => call'[y].session \in Knows(d) \cup {0}
      BY <1>2, Known
    <3>2. stored'[d] \in Knows(d) \cup {0} /\ held'[d] \in Knows(d) \cup {0}
      BY <1>4, Known
    <3> QED  BY <3>1, <3>2 DEF Knows, Browser
  <2> QED  BY <2>1, StillApart DEF SoloInv
<1>7. \A y \in Exchanges : Phase(call'[y])
  BY <1>2 DEF SoloInv, Phase
<1>8. ASSUME b \notin disturbed, op # "fetch"
      PROVE  Clear(b)'
  <2>1. c \in Writing
    BY <1>1, <1>8 DEF Writing
  <2>2. Clear(b) /\ Uses(b, c)
    BY <1>8, <2>1, InUse
  <2>3. \A y \in Exchanges : y \notin Writing => y \notin Writing'
    BY <1>2, <1>3 DEF Writing
  <2>4. ~Spends(c) => Holds(b)
    <3>1. ASSUME NEW y \in Exchanges, Browser(y) = b, Spends(y)
          PROVE  y = c
      <4>1. y \in Writing
        BY <3>1 DEF Writing, Spends, Passed
      <4> QED  BY <1>8, <2>1, <3>1, <4>1, OneWriter
    <3> QED  BY <2>2, <3>1 DEF Clear
  <2> DEFINE left == /\ stored'[b] \in {0, held'[b]}
                     /\ IF signedIn'[b] = None THEN stored'[b] = 0
                        ELSE held'[b] \in DOMAIN tokens /\ tokens[held'[b]].user = signedIn'[b]
                     /\ Holds(b)'
  <2>5. CASE op \in {"login", "register"} /\ ok
    <3>1. Good(b, s, call[c].user) /\ call[c].user \in Users
      BY <1>1, <2>2, <2>5 DEF Uses, Passed, Sound, SoundIn
    <3>2. s # 0
      BY <3>1 DEF Good, SessionInv, TablesOK
    <3>3. stored'[b] = s /\ held'[b] = s /\ signedIn'[b] = call[c].user
      BY <1>1, <2>5, <3>2 DEF End, Store
    <3>4. left
      BY <1>1, <3>1, <3>3 DEF Good, Holds, Active
    <3> QED  BY <1>1, <1>3, <1>8, <2>1, <2>3, <3>4, LeftClear
  <2>6. CASE op = "password" /\ ok
    <3>1. Good(b, s, signedIn[b]) /\ signedIn[b] # None
      BY <1>1, <2>2, <2>6 DEF Uses, Passed
    <3>2. s # 0
      BY <3>1 DEF Good, SessionInv, TablesOK
    <3>3. stored'[b] = s /\ held'[b] = s /\ signedIn'[b] = signedIn[b]
      BY <1>1, <2>6, <3>2 DEF End, Store
    <3>4. left
      BY <1>1, <3>1, <3>3 DEF Good, Holds, Active
    <3> QED  BY <1>1, <1>3, <1>8, <2>1, <2>3, <3>4, LeftClear
  <2>7. CASE op = "logout"
    <3>1. stored'[b] = 0 /\ signedIn'[b] = None
      BY <1>1, <2>7 DEF End, Store
    <3>2. left
      BY <3>1 DEF Holds
    <3> QED  BY <1>1, <1>3, <1>8, <2>1, <2>3, <3>2, LeftClear
  <2>8. CASE op # "logout" /\ ~(op \in {"login", "register", "password"} /\ ok)
    <3>1. Holds(b)
      BY <1>1, <2>4, <2>8 DEF Spends, Passed
    <3>2. op = "load" /\ ~ok => stored[b] = 0
      <4> HAVE op = "load" /\ ~ok
      <4>1. call[c].reply = "denied" /\ call[c].tries = 1
        BY <1>1, <2>2 DEF Uses
      <4> QED  BY <1>1, <4>1 DEF Refreshes
    <3>3. stored'[b] = stored[b] /\ held'[b] = held[b] /\ signedIn'[b] = signedIn[b]
      BY <1>1, <2>8, <3>2 DEF End, Store
    <3>4. left
      BY <1>1, <2>2, <3>1, <3>3 DEF Clear, Holds, Active
    <3> QED  BY <1>1, <1>3, <1>8, <2>1, <2>3, <3>4, LeftClear
  <2> QED  BY <2>5, <2>6, <2>7, <2>8
<1>9. ASSUME b \notin disturbed, op = "fetch"
      PROVE  Clear(b)'
  <2>1. stored'[b] = stored[b] /\ held'[b] = held[b] /\ signedIn'[b] = signedIn[b]
    BY <1>1, <1>9 DEF End, Store
  <2>2. ~Spends(c)
    BY <1>9 DEF Spends
  <2> QED  BY <1>1, <1>2, <1>3, <1>9, <2>1, <2>2, Untouched, StaysClear DEF SoloInv
<1>10. ASSUME NEW d \in Browsers \ disturbed, d # b
       PROVE  Clear(d)'
  <2>1. \A y \in Exchanges : Browser(y) = d => call'[y] = call[y]
    BY <1>2, <1>10
  <2> QED  BY <1>1, <1>4, <1>10, <2>1, Untouched, StaysClear DEF SoloInv
<1> QED  BY <1>5, <1>6, <1>7, <1>8, <1>9, <1>10 DEF SoloInv

LEMMA SoloEndRefresh == ASSUME SessionInv, SoloInv, NEW t \in Tabs, EndRefresh(t) PROVE SoloInv'
<1> USE Kinds
<1> DEFINE b == BrowserOf[t]
           s == call[t].session
           again(x) == [call[x] EXCEPT !.at = "sent", !.tries = 2, !.session = s]
           fails == \E c \in Waiting(t) : call[c].op = "load"
<1>1. /\ t \in Exchanges /\ b \in Browsers /\ Browser(t) = b
      /\ Watch({}) /\ UNCHANGED <<tokens, signedIn>> /\ call[t].at = "answered"
      /\ call' = [x \in Exchanges |->
           CASE x = t -> Idle
             [] x \in Waiting(t) /\ call[t].reply = "ok" -> again(x)
             [] x \in Waiting(t) /\ call[t].reply # "ok" -> Idle
             [] OTHER -> call[x]]
      /\ stored \in [Browsers -> {0} \cup DOMAIN tokens] /\ held \in [Browsers -> {0} \cup DOMAIN tokens]
      /\ call[t] \in Call /\ call[t].op = "refresh" /\ s \in DOMAIN tokens
  <2>1. /\ t \in Exchanges /\ b \in Browsers /\ Browser(t) = b
    BY SessionsAssumption DEF Browser
  <2>2. /\ stored \in [Browsers -> {0} \cup DOMAIN tokens]
        /\ held \in [Browsers -> {0} \cup DOMAIN tokens] /\ call[t] \in Call /\ Sound(t, call[t])
    BY <2>1 DEF SessionInv, CallsOK, BrowsersOK
  <2>3. /\ Watch({}) /\ UNCHANGED <<tokens, signedIn>> /\ call[t].at = "answered"
    BY DEF EndRefresh, tables
  <2>4. call[t].op = "refresh" /\ s \in DOMAIN tokens
    BY <2>2, <2>3 DEF Sound, SoundIn, SessionInv, TablesOK
  <2>5. call' = [x \in Exchanges |->
           CASE x = t -> Idle
             [] x \in Waiting(t) /\ call[t].reply = "ok" -> again(x)
             [] x \in Waiting(t) /\ call[t].reply # "ok" -> Idle
             [] OTHER -> call[x]]
    BY DEF EndRefresh
  <2> QED  BY <2>1, <2>2, <2>3, <2>4, <2>5
<1>2. ASSUME NEW x \in Waiting(t)
      PROVE  /\ x \in Exchanges /\ x # t /\ Browser(x) = b /\ x \notin Writing
             /\ call[x] \in Call /\ call[x].op \notin {"login", "register", "refresh"}
  BY <1>1, SessionsAssumption DEF Waiting, Browser, Writing, SessionInv, CallsOK, SoloInv, Phase
<1>3. ASSUME NEW x \in Waiting(t)
      PROVE  again(x).at = "sent" /\ again(x).session = s /\ again(x).op = call[x].op
  BY <1>2 DEF Call
<1>4. /\ call'[t] = Idle
      /\ \A x \in Waiting(t) : call'[x] = IF call[t].reply = "ok" THEN again(x) ELSE Idle
      /\ \A x \in Exchanges : x # t /\ x \notin Waiting(t) => call'[x] = call[x]
  <2> HIDE DEF again
  <2> QED  BY <1>1, <1>2
<1> HIDE DEF again
<1>5. t \notin Writing' /\ t \in Writing
  BY <1>1, <1>4 DEF Writing
<1>6. /\ \A d \in Browsers \ {b} : stored'[d] = stored[d] /\ held'[d] = held[d]
      /\ stored'[b] \in {stored[b], s, 0} /\ held'[b] \in {held[b], s}
  BY <1>1 DEF EndRefresh, Store
<1>7. Crowded' \subseteq disturbed' /\ disturbed \subseteq disturbed'
  BY <1>1, Watched
<1>8. ASSUME NEW x \in Exchanges
      PROVE  Phase(call'[x]) /\ call'[x].session \in Knows(Browser(x)) \cup {0}
  <2>1. CASE x \in Waiting(t)
    BY <1>1, <1>2, <1>3, <1>4, <2>1, Known DEF Phase
  <2>2. CASE x = t
    BY <1>4, <2>2 DEF Phase
  <2>3. CASE x # t /\ x \notin Waiting(t)
    BY <1>4, <2>3, Known DEF SoloInv
  <2> QED  BY <2>1, <2>2, <2>3
<1>9. Apart'
  <2>1. ASSUME NEW d \in Browsers
        PROVE  Knows(d)' \subseteq Knows(d) \cup {0}
    <3>1. s \in Knows(b)
      BY <1>1, Known
    <3>2. stored'[d] \in Knows(d) \cup {0} /\ held'[d] \in Knows(d) \cup {0}
      BY <1>6, <3>1, Known
    <3> QED  BY <1>8, <3>2 DEF Knows, Browser
  <2> QED  BY <1>1, <2>1, StillApart DEF SoloInv
<1>10. ASSUME b \notin disturbed
       PROVE  Clear(b)'
  <2>1. Clear(b) /\ Uses(b, t) /\ signedIn[b] # None
    BY <1>1, <1>5, <1>10, InUse DEF Uses
  <2>2. held[b] \in DOMAIN tokens /\ tokens[held[b]].user = signedIn[b]
    BY <2>1 DEF Clear
  <2> DEFINE left == /\ stored'[b] \in {0, held'[b]}
                     /\ IF signedIn'[b] = None THEN stored'[b] = 0
                        ELSE held'[b] \in DOMAIN tokens /\ tokens[held'[b]].user = signedIn'[b]
                     /\ Holds(b)'
  <2>3. CASE call[t].reply = "ok"
    <3>1. Good(b, s, signedIn[b]) /\ s # 0
      BY <1>1, <2>1, <2>3 DEF Uses, Passed, Good, SessionInv, TablesOK
    <3>2. stored'[b] = s /\ held'[b] = s
      <4>1. Store(b, s)
        BY <2>3 DEF EndRefresh
      <4> QED  BY <1>1, <3>1, <4>1 DEF Store
    <3>3. left
      BY <1>1, <2>1, <3>1, <3>2 DEF Good, Holds, Active
    <3>4. ASSUME NEW y \in Exchanges, y \notin Writing, Browser(y) = b, y \in Writing'
          PROVE  Uses(b, y)'
      <4>1. y \in Waiting(t)
        BY <1>4, <1>5, <3>4 DEF Writing
      <4> QED  BY <1>1, <1>2, <1>3, <1>4, <2>1, <2>3, <3>2, <4>1 DEF Uses, Passed
    <3> QED  BY <1>1, <1>5, <1>10, <3>3, <3>4, LeftClear
  <2>4. CASE call[t].reply # "ok"
    <3>1. call[t].reply = "denied" /\ ~Active(held[b]) /\ ~Spends(t)
      BY <1>1, <2>1, <2>4 DEF Uses, Spends, Passed
    <3>2. stored'[b] = 0 /\ held'[b] = held[b]
      BY <1>1, <3>1 DEF EndRefresh, Store
    <3>3. Holds(b)
      <4>1. ASSUME NEW y \in Exchanges, Browser(y) = b, Spends(y)
            PROVE  y = t
        <5>1. y \in Writing
          BY <4>1 DEF Writing, Spends, Passed
        <5> QED  BY <1>1, <1>5, <1>10, <4>1, <5>1, OneWriter
      <4> QED  BY <2>1, <3>1, <4>1 DEF Clear
    <3>4. left
      BY <1>1, <2>1, <2>2, <3>1, <3>2, <3>3 DEF Holds
    <3>5. \A y \in Exchanges : y \notin Writing => y \notin Writing'
      BY <1>4, <1>5, <2>4 DEF Writing
    <3> QED  BY <1>1, <1>5, <1>10, <3>4, <3>5, LeftClear
  <2> QED  BY <2>3, <2>4
<1>11. ASSUME NEW d \in Browsers \ disturbed, d # b
       PROVE  Clear(d)'
  <2>1. \A y \in Exchanges : Browser(y) = d => call'[y] = call[y]
    BY <1>1, <1>2, <1>4, <1>11
  <2> QED  BY <1>1, <1>6, <1>11, <2>1, Untouched, StaysClear DEF SoloInv
<1> QED  BY <1>7, <1>8, <1>9, <1>10, <1>11 DEF SoloInv

LEMMA SoloInit == Init => SoloInv
<1> SUFFICES ASSUME Init PROVE SoloInv
  OBVIOUS
<1> USE Kinds
<1>1. PICK start \in Starts :
        LET Last(b) == {i \in DOMAIN start : start[i].browser = b}
            First == [b \in Browsers |-> IF Last(b) = {} THEN 0 ELSE CHOOSE i \in Last(b) : TRUE]
        IN
        /\ tokens = [i \in DOMAIN start |-> Fresh(start[i].user, 0, FALSE)]
        /\ stored = First /\ held = First
        /\ signedIn = [b \in Browsers |-> IF First[b] = 0 THEN None ELSE start[First[b]].user]
        /\ call = [x \in Exchanges |-> Idle]
  BY DEF Init
<1> DEFINE Last(b) == {i \in DOMAIN start : start[i].browser = b}
           First   == [b \in Browsers |-> IF Last(b) = {} THEN 0 ELSE CHOOSE i \in Last(b) : TRUE]
<1>2. /\ DOMAIN start = 1..Len(start)
      /\ \A i \in DOMAIN start : start[i].user \in Users
  <2>1. start \in Seq([user: Users, browser: Browsers])
    BY SessionsAssumption
  <2>2. /\ DOMAIN start = 1..Len(start)
        /\ \A i \in DOMAIN start : start[i] \in [user: Users, browser: Browsers]
    BY <2>1, Elements
  <2> QED  BY <2>2
<1>3. ASSUME NEW b \in Browsers
      PROVE  \/ First[b] = 0
             \/ First[b] \in DOMAIN start /\ start[First[b]].browser = b
  OBVIOUS
<1>4. /\ stored = First /\ held = First /\ call = [x \in Exchanges |-> Idle]
      /\ signedIn = [b \in Browsers |-> IF First[b] = 0 THEN None ELSE start[First[b]].user]
      /\ tokens = [i \in DOMAIN start |-> Fresh(start[i].user, 0, FALSE)]
  BY <1>1
<1> HIDE DEF First
<1>5. \A x \in Exchanges : call[x] = Idle /\ x \notin Writing
  BY <1>4 DEF Writing
<1>6. Crowded \subseteq disturbed
  BY <1>5 DEF Crowded, Writing
<1>7. \A b \in Browsers : Knows(b) \subseteq {0, First[b]}
  BY <1>4, <1>5 DEF Knows
<1>8. Apart
  BY <1>3, <1>7 DEF Apart
<1>9. ASSUME NEW b \in Browsers
      PROVE  Clear(b)
  <2>1. stored[b] = First[b] /\ held[b] = First[b]
    BY <1>4
  <2>2. CASE First[b] = 0
    <3>1. signedIn[b] = None
      BY <1>4, <2>2
    <3> QED  BY <1>5, <2>1, <2>2, <3>1 DEF Clear, Holds, Writing
  <2>3. CASE First[b] # 0
    <3>1. First[b] \in DOMAIN start
      BY <1>3, <2>3
    <3>2. /\ signedIn[b] = start[First[b]].user /\ signedIn[b] # None
          /\ First[b] \in DOMAIN tokens /\ tokens[First[b]] = Fresh(start[First[b]].user, 0, FALSE)
      BY <1>2, <1>4, <2>3, <3>1
    <3>3. tokens[First[b]].user = signedIn[b] /\ Active(First[b])
      BY <3>2 DEF Fresh, Active
    <3> QED  BY <1>5, <2>1, <3>2, <3>3 DEF Clear, Holds, Writing
  <2> QED  BY <2>2, <2>3
<1> QED  BY <1>5, <1>6, <1>8, <1>9 DEF SoloInv, Phase

LEMMA SoloInductive == SessionInv /\ SoloInv /\ [Next]_vars => SoloInv'
<1> SUFFICES ASSUME SessionInv, SoloInv, [Next]_vars PROVE SoloInv'
  OBVIOUS
<1>1. CASE UNCHANGED vars
  <2>1. UNCHANGED <<tokens, stored, call, signedIn, held, disturbed>>
    BY <1>1 DEF vars, tables, history
  <2>2. Crowded' \subseteq disturbed' /\ Apart'
    BY <2>1 DEF SoloInv, Crowded, Writing, Browser, Apart, Knows
  <2>3. \A b \in Browsers \ disturbed' : Clear(b)'
    BY <2>1, Untouched, StaysClear DEF SoloInv
  <2> QED  BY <2>1, <2>2, <2>3 DEF SoloInv
<1>2. CASE \E c \in Calls :
             LoginPage(c) \/ RegisterPage(c) \/ ChangePasswordCard(c) \/ Pages(c)
  BY <1>2, SoloPages
<1>3. CASE \E x \in Exchanges : Fault(x)
  BY <1>3, SoloFault
<1>4. CASE \E u \in Users, p \in Passwords : ResetPassword(u, p)
  BY <1>4, SoloReset
<1>5. ASSUME NEW x \in Exchanges, ServerStep(x)
      PROVE  SoloInv'
  BY <1>5, SoloFetch, SoloCreate, SoloLogin, SoloRegister, SoloVerify, SoloChange,
     SoloLogout, SoloFind, SoloRotate, SoloIssue DEF ServerStep
<1>6. ASSUME NEW x \in Exchanges, ClientStep(x)
      PROVE  SoloInv'
  BY <1>6, SoloJoin, SoloEnd, SoloEndRefresh DEF ClientStep
<1> QED  BY <1>1, <1>2, <1>3, <1>4, <1>5, <1>6 DEF Next

\* A browser whose exchanges neither overlapped nor failed keeps the session of its user,
\* whatever the other browsers and the command line do: it is signed out only by its user,
\* by expiry, or by a change of password elsewhere (lib/api.ts, lib/auth.tsx).
THEOREM SoloSessionsStay == Spec => []SoloSessionsHold
<1>1. Init => SoloInv
  BY SoloInit
<1>2. SessionInv /\ SoloInv /\ [Next]_vars => SoloInv'
  BY SoloInductive
<1>3. SessionInv /\ SoloInv => SoloSessionsHold
  BY SoloHolds
<1> QED  BY <1>1, <1>2, <1>3, Invariance, PTL DEF Spec

-----------------------------------------------------------------------------
(* A tab of the interface: its query cache and what its writes owe it.     *)

\* The entries, rows, forms and mutations there can be up to version n.
EntriesTo(n) ==
  [v: 0..n, stale: BOOLEAN, failed: BOOLEAN, since: 0..n, tried: BOOLEAN, late: BOOLEAN]

\* An entry whose fetch under way was sent after the answer it shows.
EntryOK(e, n) == e \in EntriesTo(n) /\ (e.since # Nothing => e.since >= e.v)

\* The entry shows version n or a later one, or will once its fetch has ended, or
\* once somebody looks at it; or its fetch was late; or its last one failed.
Honours(e, shown, n) ==
  \/ e.late
  \/ e.since # Nothing /\ e.since >= n
  \/ e.since = Nothing /\ (e.v >= n \/ e.failed \/ (e.stale /\ ~shown))

Rows == [name: Nat, regions: Nat, hidden: Nat, paused: BOOLEAN, alive: BOOLEAN]

FormsTo(n) == [open: BOOLEAN, base: 0..n, touched: SUBSET Fields, emptied: BOOLEAN]

Phases == {"idle", "sent", "done", "failed", "settling"}

MutationsTo(n) ==
  [op: DOMAIN Operations \cup {"none"}, phase: Phases, v: 0..n, form: FormsTo(n), prop: 0..n,
   paused: BOOLEAN, rest: Seq(Queries), wait: SUBSET Queries]

TabOK ==
  /\ area \in Areas /\ page \in DOMAIN Routes
  /\ log \in Seq(Rows) /\ Version >= 1
  /\ cache \in [Followed -> EntriesTo(Version)]
  /\ form \in FormsTo(Version)
  /\ owed \in [Followed -> 0..Version]
  /\ faults \in Nat

\* The mutation under way: the area offers it; nothing is known of its version until it
\* is carried out; a save sends a configuration at least as fresh as its form.
MutationOK ==
  /\ mut \in MutationsTo(Version)
  /\ mut.phase = "idle" <=> mut.op = "none"
  /\ mut.op # "none" => mut.op \in Area[area].ops
  /\ mut.phase = "sent" => mut.v = Nothing
  /\ area = "monitor" /\ mut.op = "save" /\ mut.phase = "sent" => mut.prop >= mut.form.base

\* Every query keeps what the tab is owed; while a mutation settles, the lists of its
\* write that are not up to date are still to be invalidated.
CacheOK ==
  /\ \A q \in Followed : EntryOK(cache[q], Version) /\ Honours(cache[q], Shown(q), owed[q])
  /\ mut.phase = "settling" =>
       \A q \in Lists(mut.op) \cap Followed :
         Honours(cache[q], Shown(q), mut.v) \/ \E i \in DOMAIN mut.rest : mut.rest[i] = q

FormOK == area = "monitor" /\ form.open => cache["monitor"].v >= form.base

TabInv == TabOK /\ MutationOK /\ CacheOK /\ FormOK

(***************************************************************************)
(* The pages, areas and operations.                                        *)
(***************************************************************************)

LEMMA RouteNames ==
  DOMAIN Routes = {"list", "detail", "edit", "new", "alerts", "channelForm", "statusPages", "developers", "away"}
BY DEF Routes

LEMMA OperationNames ==
  DOMAIN Operations = {"create", "save", "pause", "remove", "groupChange", "newGroup",
                       "addChannel", "channelChange", "pageChange", "createKey", "revokeKey"}
BY DEF Operations

LEMMA AreaNames ==
  DOMAIN Area = {"monitors", "monitor", "history", "groups", "channels", "pages", "keys"}
BY DEF Area

LEMMA AreaOfAreas == ASSUME area \in Areas PROVE area \in DOMAIN Area
BY DashboardAssumption, AreaNames

LEMMA MonitorArea == ASSUME area = "monitor" PROVE Followed = {"monitor"}
BY DEF Followed, Area

LEMMA AreaParts ==
  ASSUME area \in DOMAIN Area
  PROVE  /\ Area[area].pages \subseteq DOMAIN Routes
         /\ Area[area].ops \subseteq DOMAIN Operations
         /\ Followed \subseteq Queries
<1>1. Area[area].pages \subseteq DOMAIN Routes
  BY AreaNames, RouteNames DEF Area
<1>2. Area[area].ops \subseteq DOMAIN Operations
  BY AreaNames, OperationNames DEF Area
<1>3. Followed \subseteq Queries
  BY DEF Followed, Queries
<1> QED  BY <1>1, <1>2, <1>3

LEMMA PairOfQueries ==
  /\ \A a, b \in Queries : <<a, b>> \in Seq(Queries)
  /\ \A a \in Queries : <<a>> \in Seq(Queries)
OBVIOUS

LEMMA OperationParts ==
  ASSUME NEW op \in DOMAIN Operations
  PROVE  /\ Operations[op].to \in DOMAIN Routes \cup {"stay"}
         /\ Invalidated(op) \in Seq(Queries)
<1>1. Operations[op].to \in DOMAIN Routes \cup {"stay"}
  BY OperationNames, RouteNames
     DEF Operations, SaveMonitor, TogglePause, RemoveMonitor, ChangeGroup, NewGroup, AddChannel,
         ChangeChannel, ChangePage, CreateKey, RevokeKey
<1>2. {"monitors", "overview", "groups", "channels", "status-pages", "api-keys"} \subseteq Queries
  BY AreaNames DEF Queries, Area
<1>3. Invalidated(op) \in {<<"monitors", "overview">>, <<"groups", "monitors">>, <<"groups">>,
                           <<"channels">>, <<"status-pages">>, <<"api-keys">>}
  BY OperationNames
     DEF Invalidated, Operations, SaveMonitor, TogglePause, RemoveMonitor, ChangeGroup, NewGroup, AddChannel,
         ChangeChannel, ChangePage, CreateKey, RevokeKey
<1>4. Invalidated(op) \in Seq(Queries)
  BY <1>2, <1>3, PairOfQueries
<1> QED  BY <1>1, <1>4

\* The writes of an area invalidate every list they appear in.
LEMMA ListsAreInvalidated ==
  ASSUME area \in DOMAIN Area, NEW op \in Area[area].ops, NEW q \in Lists(op) \cap Followed
  PROVE  \E i \in DOMAIN Invalidated(op) : Invalidated(op)[i] = q
<1>1. CASE area = "monitors"
  BY <1>1 DEF Area, Followed, Lists, OfOneMonitor, Invalidated, Operations, SaveMonitor, TogglePause, RemoveMonitor
<1>2. CASE area = "monitor"
  BY <1>2 DEF Area, Followed, Lists, OfOneMonitor
<1>3. CASE area = "history"
  BY <1>3 DEF Area
<1>4. CASE area = "groups"
  BY <1>4 DEF Area, Followed, Lists, OfOneMonitor, Invalidated, Operations, ChangeGroup, NewGroup
<1>5. CASE area = "channels"
  BY <1>5 DEF Area, Followed, Lists, OfOneMonitor, Invalidated, Operations, AddChannel, ChangeChannel
<1>6. CASE area = "pages"
  BY <1>6 DEF Area, Followed, Lists, OfOneMonitor, Invalidated, Operations, ChangePage
<1>7. CASE area = "keys"
  BY <1>7 DEF Area, Followed, Lists, OfOneMonitor, Invalidated, Operations, CreateKey, RevokeKey
<1> QED  BY <1>1, <1>2, <1>3, <1>4, <1>5, <1>6, <1>7, AreaNames

(***************************************************************************)
(* The entries of the cache.                                               *)
(***************************************************************************)

\* What a step may do to an entry e that is shown if s: its answer is never replaced by
\* an older one, and it honours what it honoured.
Keeps(e, s, f, t) ==
  /\ EntryOK(f, Version) /\ f.v >= e.v
  /\ \A n \in 0..Version : Honours(e, s, n) => Honours(f, t, n)

LEMMA LoadingKeeps ==
  ASSUME Version \in Nat \ {0}, NEW e, EntryOK(e, Version), NEW t \in BOOLEAN
  PROVE  /\ EntryOK(Loading(e), Version) /\ Loading(e).v = e.v
         /\ \A n \in 0..Version : Honours(Loading(e), t, n)
<1>1. e \in EntriesTo(Version) /\ Version \in 0..Version /\ FALSE \in BOOLEAN
  BY DEF EntryOK
<1>2. Loading(e) \in EntriesTo(Version)
  BY <1>1, Zenon DEF EntriesTo, Loading
<1>3. Loading(e).since = Version /\ Loading(e).v = e.v
  BY <1>1 DEF EntriesTo, Loading
<1> QED  BY <1>1, <1>2, <1>3 DEF EntryOK, EntriesTo, Honours, Nothing

LEMMA EmptyIs ==
  /\ Empty.v = 0 /\ Empty.since = 0 /\ ~Empty.failed /\ ~Empty.late /\ Empty.stale
  /\ \A n \in Nat : Empty \in EntriesTo(n)
BY DEF Empty, Nothing, EntriesTo

LEMMA EmptyLoads ==
  ASSUME Version \in Nat \ {0}, NEW t \in BOOLEAN
  PROVE  /\ EntryOK(Empty, Version) /\ Honours(Empty, t, 0)
         /\ EntryOK(Loading(Empty), Version) /\ Honours(Loading(Empty), t, 0)
<1>1. EntryOK(Empty, Version) /\ Honours(Empty, t, 0)
  BY EmptyIs DEF EntryOK, Honours, Nothing
<1> QED  BY <1>1, LoadingKeeps

LEMMA StaysKeeps ==
  ASSUME NEW e, EntryOK(e, Version), NEW s \in BOOLEAN
  PROVE  Keeps(e, s, e, s)
BY DEF Keeps, EntryOK, EntriesTo

LEMMA HiddenKeeps ==
  ASSUME NEW e, EntryOK(e, Version), NEW s \in BOOLEAN, NEW t, ~t
  PROVE  Keeps(e, s, e, t)
BY DEF Keeps, EntryOK, EntriesTo, Honours

LEMMA MountedKeeps ==
  ASSUME Version \in Nat \ {0}, NEW e, EntryOK(e, Version), NEW s \in BOOLEAN
  PROVE  Keeps(e, s, Mounted(e), TRUE) /\ Mounted(e).v = e.v
<1>1. CASE e.since = Nothing /\ e.stale
  <2>1. Mounted(e) = Loading(e)
    BY <1>1 DEF Mounted
  <2>2. /\ EntryOK(Loading(e), Version) /\ Loading(e).v = e.v
        /\ \A n \in 0..Version : Honours(Loading(e), TRUE, n)
    BY LoadingKeeps
  <2>3. e.v \in 0..Version
    BY DEF EntryOK, EntriesTo
  <2>4. Loading(e).v >= e.v
    BY <2>2, <2>3
  <2>5. Keeps(e, s, Loading(e), TRUE)
    BY <2>2, <2>4, Zenon DEF Keeps
  <2> QED  BY <2>1, <2>2, <2>5
<1>2. CASE ~(e.since = Nothing /\ e.stale)
  <2>1. Mounted(e) = e
    BY <1>2 DEF Mounted
  <2> QED  BY <1>2, <2>1 DEF Keeps, EntryOK, EntriesTo, Honours
<1> QED  BY <1>1, <1>2

LEMMA AgeKeeps ==
  ASSUME NEW e, EntryOK(e, Version), NEW s \in BOOLEAN
  PROVE  Keeps(e, s, [e EXCEPT !.stale = TRUE], s)
<1> DEFINE f == [e EXCEPT !.stale = TRUE]
<1>1. e \in EntriesTo(Version)
  BY DEF EntryOK
<1>2. f \in EntriesTo(Version)
  BY <1>1 DEF EntriesTo
<1>3. f.v = e.v /\ f.since = e.since
  BY <1>1 DEF EntriesTo
<1>4. f.failed = e.failed /\ f.late = e.late /\ f.stale
  BY <1>1 DEF EntriesTo
<1> HIDE DEF f
<1>5. Keeps(e, s, f, s)
  BY <1>1, <1>2, <1>3, <1>4 DEF Keeps, EntryOK, EntriesTo, Honours
<1> QED  BY <1>5 DEF f

LEMMA AnswerKeeps ==
  ASSUME Version \in Nat \ {0}, NEW e, EntryOK(e, Version), NEW s \in BOOLEAN,
         e.since # Nothing, NEW v \in e.since .. Version
  PROVE  Keeps(e, s, [Empty EXCEPT !.v = v, !.stale = FALSE, !.late = e.late], s)
<1> DEFINE f == [Empty EXCEPT !.v = v, !.stale = FALSE, !.late = e.late]
<1>1. e \in EntriesTo(Version)
  BY DEF EntryOK
<1>2. v \in 0..Version /\ Empty \in EntriesTo(Version) /\ e.late \in BOOLEAN /\ FALSE \in BOOLEAN
  BY <1>1, EmptyIs DEF EntriesTo
<1>3. f \in EntriesTo(Version)
  BY <1>2, Zenon DEF EntriesTo
<1>4. f.v = v /\ f.since = 0
  BY <1>2, EmptyIs DEF EntriesTo
<1>5. f.late = e.late
  BY <1>2, Zenon DEF EntriesTo
<1> HIDE DEF f
<1>6. Keeps(e, s, f, s)
  BY <1>1, <1>2, <1>3, <1>4, <1>5 DEF Keeps, EntryOK, EntriesTo, Honours, Nothing
<1> QED  BY <1>6 DEF f

LEMMA MissedKeeps ==
  ASSUME Version \in Nat \ {0}, NEW q, NEW e, EntryOK(e, Version), NEW s \in BOOLEAN, e.since # Nothing
  PROVE  Keeps(e, s, Missed(q, e), s) /\ Missed(q, e).v = e.v
<1>1. e \in EntriesTo(Version) /\ 0 \in 0..Version /\ Version \in 0..Version /\ FALSE \in BOOLEAN /\ TRUE \in BOOLEAN
  BY DEF EntryOK
<1>2. CASE ~e.tried /\ Shown(q)
  <2> DEFINE f == [e EXCEPT !.since = Version, !.tried = TRUE]
  <2>1. f \in EntriesTo(Version)
    BY <1>1, Zenon DEF EntriesTo
  <2>2. f.v = e.v /\ f.since = Version
    BY <1>1 DEF EntriesTo
  <2>3. Missed(q, e) = f
    BY <1>2 DEF Missed
  <2> HIDE DEF f
  <2>4. Keeps(e, s, f, s)
    BY <1>1, <2>1, <2>2 DEF Keeps, EntryOK, EntriesTo, Honours, Nothing
  <2> QED  BY <2>2, <2>3, <2>4
<1>3. CASE ~(~e.tried /\ Shown(q))
  <2> DEFINE f == [e EXCEPT !.since = Nothing, !.tried = FALSE, !.failed = TRUE]
  <2>1. f \in EntriesTo(Version)
    BY <1>1, Zenon DEF EntriesTo, Nothing
  <2>2. f.v = e.v /\ f.since = 0
    BY <1>1 DEF EntriesTo, Nothing
  <2>3. f.failed
    BY <1>1 DEF EntriesTo
  <2>4. Missed(q, e) = f
    BY <1>3 DEF Missed
  <2> HIDE DEF f
  <2>5. Keeps(e, s, f, s)
    BY <1>1, <2>1, <2>2, <2>3 DEF Keeps, EntryOK, EntriesTo, Honours, Nothing
  <2> QED  BY <2>2, <2>4, <2>5
<1> QED  BY <1>2, <1>3

\* An invalidated query honours every version there is.
LEMMA RefreshedKeeps ==
  ASSUME Version \in Nat \ {0}, NEW q, NEW e, EntryOK(e, Version)
  PROVE  /\ EntryOK(Refreshed(q, e), Version) /\ Refreshed(q, e).v = e.v
         /\ \A n \in 0..Version : Honours(Refreshed(q, e), Shown(q), n)
<1> DEFINE old == [e EXCEPT !.stale = TRUE, !.late = @ \/ e.since # Nothing]
<1>1. e \in EntriesTo(Version) /\ TRUE \in BOOLEAN
  BY DEF EntryOK
<1>2. old \in EntriesTo(Version)
  <2>1. (e.late \/ e.since # Nothing) \in BOOLEAN
    OBVIOUS
  <2> QED  BY <1>1, <2>1, Zenon DEF EntriesTo
<1>3. old.v = e.v /\ old.since = e.since
  BY <1>1 DEF EntriesTo
<1>4. old.stale /\ (e.since # Nothing => old.late)
  BY <1>1 DEF EntriesTo
<1>5. Refreshed(q, e) = IF Shown(q) /\ (e.since = Nothing \/ e.v # Nothing) THEN Loading(old) ELSE old
  BY DEF Refreshed
<1> HIDE DEF old
<1>6. EntryOK(old, Version)
  BY <1>2, <1>3 DEF EntryOK
<1>7. CASE Shown(q) /\ (e.since = Nothing \/ e.v # Nothing)
  <2>1. Shown(q) \in BOOLEAN
    BY DEF Shown
  <2> QED  BY <1>3, <1>5, <1>6, <1>7, <2>1, LoadingKeeps
<1>8. CASE ~(Shown(q) /\ (e.since = Nothing \/ e.v # Nothing))
  <2>1. \A n \in 0..Version : Honours(old, Shown(q), n)
    BY <1>3, <1>4, <1>8 DEF Honours
  <2> QED  BY <1>3, <1>5, <1>6, <1>8, <2>1
<1> QED  BY <1>7, <1>8

(***************************************************************************)
(* The steps.                                                              *)
(***************************************************************************)

LEMMA FormsOpened ==
  ASSUME NEW n \in Nat, NEW v \in 0..n
  PROVE  Opened(v) \in FormsTo(n) /\ Opened(v).base = v /\ NoForm \in FormsTo(n) /\ ~NoForm.open
<1>1. NoForm \in FormsTo(n) /\ ~NoForm.open
  BY DEF NoForm, FormsTo, Nothing
<1>2. Opened(v) \in FormsTo(n)
  BY <1>1, Zenon DEF Opened, FormsTo
<1>3. Opened(v).base = v
  BY <1>1 DEF Opened, FormsTo
<1> QED  BY <1>1, <1>2, <1>3

LEMMA TypesGrow ==
  ASSUME NEW n \in Nat, NEW m \in Nat, n <= m
  PROVE  /\ EntriesTo(n) \subseteq EntriesTo(m) /\ FormsTo(n) \subseteq FormsTo(m)
         /\ MutationsTo(n) \subseteq MutationsTo(m)
<1>1. 0..n \subseteq 0..m
  OBVIOUS
<1>2. EntriesTo(n) \subseteq EntriesTo(m)
  BY <1>1, Zenon DEF EntriesTo
<1>3. FormsTo(n) \subseteq FormsTo(m)
  BY <1>1, Zenon DEF FormsTo
<1>4. MutationsTo(n) \subseteq MutationsTo(m)
  BY <1>1, <1>3, Zenon DEF MutationsTo
<1> QED  BY <1>2, <1>3, <1>4

LEMMA SameLog ==
  ASSUME area' = area, log' = log
  PROVE  Followed' = Followed /\ Version' = Version /\ \A op : Lists(op)' = Lists(op)
BY DEF Followed, Version, Lists, Area, OfOneMonitor

\* A step that keeps every entry keeps the cache in order.
LEMMA EntriesKept ==
  ASSUME TabInv, area' = area, log' = log, DOMAIN cache' = Followed, cache' = [q \in DOMAIN cache' |-> cache'[q]],
         \A q \in Followed : Keeps(cache[q], Shown(q), cache'[q], Shown(q)')
  PROVE  /\ cache' \in [Followed -> EntriesTo(Version)]
         /\ \A q \in Followed : EntryOK(cache'[q], Version)
         /\ \A q \in Followed : \A n \in 0..Version :
              Honours(cache[q], Shown(q), n) => Honours(cache'[q], Shown(q)', n)
<1>1. \A q \in Followed : EntryOK(cache'[q], Version)
  BY DEF Keeps
<1>2. \A q \in Followed : cache'[q] \in EntriesTo(Version)
  BY <1>1 DEF EntryOK
<1>3. \A q \in Followed : \A n \in 0..Version :
        Honours(cache[q], Shown(q), n) => Honours(cache'[q], Shown(q)', n)
  BY DEF Keeps
<1> QED  BY <1>1, <1>2, <1>3

\* If moreover neither the mutation nor what is owed changes, the cache is as it should be.
LEMMA CacheKept ==
  ASSUME TabInv, area' = area, log' = log, DOMAIN cache' = Followed, cache' = [q \in DOMAIN cache' |-> cache'[q]],
         \A q \in Followed : Keeps(cache[q], Shown(q), cache'[q], Shown(q)'),
         mut' = mut, owed' = owed
  PROVE  CacheOK'
<1>1. /\ \A q \in Followed : EntryOK(cache'[q], Version)
      /\ \A q \in Followed : \A n \in 0..Version :
           Honours(cache[q], Shown(q), n) => Honours(cache'[q], Shown(q)', n)
  BY EntriesKept
<1>2. Followed' = Followed /\ Version' = Version /\ Lists(mut.op)' = Lists(mut.op)
  BY SameLog
<1>3. \A q \in Followed : owed[q] \in 0..Version
  BY DEF TabInv, TabOK
<1>4. mut.v \in 0..Version
  BY DEF TabInv, MutationOK, MutationsTo
<1>5. \A q \in Followed : EntryOK(cache'[q], Version') /\ Honours(cache'[q], Shown(q)', owed'[q])
  BY <1>1, <1>2, <1>3 DEF TabInv, CacheOK
<1>6. ASSUME mut.phase = "settling", NEW q \in Lists(mut.op) \cap Followed
      PROVE  Honours(cache'[q], Shown(q)', mut.v) \/ \E i \in DOMAIN mut.rest : mut.rest[i] = q
  BY <1>1, <1>4, <1>6 DEF TabInv, CacheOK
<1> QED  BY <1>2, <1>5, <1>6 DEF CacheOK

LEMMA MutationKept ==
  ASSUME TabInv, area' = area, log' = log, mut' = mut
  PROVE  MutationOK'
<1>1. Version' = Version /\ Area' = Area
  BY SameLog DEF Area
<1>2. MutationsTo(Version') = MutationsTo(Version)
  BY <1>1
<1> QED  BY <1>1, <1>2 DEF TabInv, MutationOK

\* One entry changes, and with it the form may open on its answer.
LEMMA OneEntry ==
  ASSUME TabInv, NEW q \in Followed, NEW f, Keeps(cache[q], Shown(q), f, Shown(q)),
         cache' = [cache EXCEPT ![q] = f],
         UNCHANGED <<area, page, log, mut, owed>>, faults' \in Nat,
         form' = form \/ (form' = Opened(f.v) /\ q = "monitor")
  PROVE  TabInv'
<1>1. Followed' = Followed /\ Version' = Version
  BY SameLog
<1>2. cache \in [Followed -> EntriesTo(Version)] /\ Version \in Nat
  BY DEF TabInv, TabOK, Version
<1>3. \A r \in Followed : Shown(r)' = Shown(r) /\ Shown(r) \in BOOLEAN
  BY DEF Shown, Routes
<1>4. \A r \in Followed : cache'[r] = IF r = q THEN f ELSE cache[r]
  BY <1>2
<1>5. \A r \in Followed : Keeps(cache[r], Shown(r), cache'[r], Shown(r)')
  <2> SUFFICES ASSUME NEW r \in Followed PROVE Keeps(cache[r], Shown(r), cache'[r], Shown(r)')
    OBVIOUS
  <2>1. CASE r = q
    BY <2>1, <1>3, <1>4
  <2>2. CASE r # q
    <3>1. EntryOK(cache[r], Version)
      BY DEF TabInv, CacheOK
    <3>2. Keeps(cache[r], Shown(r), cache[r], Shown(r))
      BY <3>1, <1>3, StaysKeeps
    <3>3. cache'[r] = cache[r]
      BY <2>2, <1>4
    <3> QED  BY <1>3, <3>2, <3>3
  <2> QED  BY <2>1, <2>2
<1>6. DOMAIN cache' = Followed /\ cache' = [r \in DOMAIN cache' |-> cache'[r]]
  BY <1>2
<1>7. CacheOK'
  BY <1>5, <1>6, CacheKept
<1>8. MutationOK'
  BY MutationKept
<1>9. cache' \in [Followed -> EntriesTo(Version)]
  BY <1>5, <1>6, EntriesKept
<1>10. f.v \in 0..Version /\ cache[q].v \in 0..Version /\ f.v >= cache[q].v
  BY <1>2 DEF Keeps, EntryOK, EntriesTo
<1>11. form' \in FormsTo(Version)
  BY <1>2, <1>10, FormsOpened DEF TabInv, TabOK
<1>12. TabOK'
  BY <1>1, <1>9, <1>11 DEF TabInv, TabOK, Routes
<1>13. ASSUME area = "monitor", form'.open
       PROVE  cache'["monitor"].v >= form'.base
  <2>1. q = "monitor"
    BY <1>13, MonitorArea
  <2>2. CASE form' = form
    <3>1. cache[q].v >= form.base /\ form.base \in 0..Version
      BY <1>13, <2>1, <2>2 DEF TabInv, FormOK, TabOK, FormsTo
    <3> QED  BY <1>4, <1>10, <2>1, <2>2, <3>1
  <2>3. CASE form' = Opened(f.v)
    BY <1>2, <1>4, <1>10, <2>1, <2>3, FormsOpened
  <2> QED  BY <2>2, <2>3
<1>14. FormOK'
  BY <1>13 DEF FormOK
<1> QED  BY <1>7, <1>8, <1>12, <1>14 DEF TabInv

\* The steps of one query.
LEMMA QuerySteps ==
  ASSUME TabInv, NEW q \in Queries, Arrive(q) \/ NotFound(q) \/ LoseFetch(q) \/ Tick(q) \/ Age(q)
  PROVE  TabInv'
<1>1. Version \in Nat \ {0} /\ Shown(q) \in BOOLEAN /\ faults \in Nat /\ form \in FormsTo(Version)
  BY DEF TabInv, TabOK, Version, Shown
<1>2. q \in Followed
  BY DEF Arrive, NotFound, LoseFetch, Tick, Age
<1>3. EntryOK(cache[q], Version) /\ cache \in [Followed -> EntriesTo(Version)]
  BY <1>2 DEF TabInv, CacheOK, TabOK
<1>4. CASE Arrive(q)
  <2>1. PICK v \in cache[q].since .. Version :
          LET e == [Empty EXCEPT !.v = v, !.stale = FALSE, !.late = cache[q].late]
          IN cache' = [cache EXCEPT ![q] = e] /\ form' = FormAfter(q, e)
    BY <1>4 DEF Arrive
  <2> DEFINE e == [Empty EXCEPT !.v = v, !.stale = FALSE, !.late = cache[q].late]
  <2>2. cache' = [cache EXCEPT ![q] = e] /\ form' = FormAfter(q, e)
    BY <2>1
  <2>3. cache[q].since # Nothing
    BY <1>4 DEF Arrive, NoFetch
  <2>4. Keeps(cache[q], Shown(q), e, Shown(q))
    BY <1>1, <1>3, <2>3, AnswerKeeps
  <2> HIDE DEF e
  <2>5. form' = form \/ (form' = Opened(e.v) /\ q = "monitor")
    BY <2>2 DEF FormAfter
  <2>6. UNCHANGED <<area, page, log, mut, owed>> /\ faults' = faults
    BY <1>4 DEF Arrive
  <2> QED  BY <1>1, <1>2, <2>2, <2>4, <2>5, <2>6, OneEntry
<1>5. CASE NotFound(q) \/ LoseFetch(q)
  <2> DEFINE e == Missed(q, cache[q])
  <2>1. cache' = [cache EXCEPT ![q] = e] /\ form' = FormAfter(q, e) /\ cache[q].since # Nothing
    BY <1>5 DEF NotFound, LoseFetch, Miss, NoFetch
  <2>2. Keeps(cache[q], Shown(q), e, Shown(q))
    BY <1>1, <1>3, <2>1, MissedKeeps
  <2> HIDE DEF e
  <2>3. form' = form \/ (form' = Opened(e.v) /\ q = "monitor")
    BY <2>1 DEF FormAfter
  <2>4. UNCHANGED <<area, page, log, mut, owed>> /\ faults' \in Nat
    BY <1>1, <1>5 DEF NotFound, LoseFetch
  <2> QED  BY <1>2, <2>1, <2>2, <2>3, <2>4, OneEntry
<1>6. CASE Tick(q)
  <2> DEFINE e == Loading(cache[q])
  <2>1. cache' = [cache EXCEPT ![q] = e]
    BY <1>6, <1>3 DEF Tick
  <2>2. /\ EntryOK(e, Version) /\ e.v = cache[q].v
        /\ \A n \in 0..Version : Honours(e, Shown(q), n)
    BY <1>1, <1>3, LoadingKeeps
  <2>3. cache[q].v \in 0..Version
    BY <1>3 DEF EntryOK, EntriesTo
  <2> HIDE DEF e
  <2>4. Keeps(cache[q], Shown(q), e, Shown(q))
    BY <2>2, <2>3 DEF Keeps
  <2>5. UNCHANGED <<area, page, log, form, mut, owed, faults>>
    BY <1>6 DEF Tick
  <2> QED  BY <1>1, <1>2, <2>1, <2>4, <2>5, OneEntry
<1>7. CASE Age(q)
  <2> DEFINE e == [cache[q] EXCEPT !.stale = TRUE]
  <2>1. cache' = [cache EXCEPT ![q] = e]
    BY <1>7, <1>3 DEF Age
  <2>2. Keeps(cache[q], Shown(q), e, Shown(q))
    BY <1>1, <1>3, AgeKeeps
  <2> HIDE DEF e
  <2>3. UNCHANGED <<area, page, log, form, mut, owed, faults>>
    BY <1>7 DEF Age
  <2> QED  BY <1>1, <1>2, <2>1, <2>2, <2>3, OneEntry
<1> QED  BY <1>4, <1>5, <1>6, <1>7

\* Navigation keeps every entry, and the form it opens holds the present data.
LEMMA GoToKeeps ==
  ASSUME TabInv, NEW p \in DOMAIN Routes, GoTo(p), area' = area, log' = log
  PROVE  /\ page' \in DOMAIN Routes
         /\ DOMAIN cache' = Followed /\ cache' = [q \in DOMAIN cache' |-> cache'[q]]
         /\ \A q \in Followed : Keeps(cache[q], Shown(q), cache'[q], Shown(q)')
         /\ form' \in FormsTo(Version) /\ FormOK'
<1>1. /\ page' = p
      /\ cache' = [q \in Followed |-> IF p # page /\ q \in Routes[p].mounts THEN Mounted(cache[q]) ELSE cache[q]]
  BY DEF GoTo
<1>2. Version \in Nat \ {0} /\ cache \in [Followed -> EntriesTo(Version)]
  BY DEF TabInv, TabOK, Version
<1>3. \A q : Shown(q) \in BOOLEAN /\ Shown(q)' = (q \in Routes[p].mounts)
  BY <1>1 DEF Shown, Routes
<1>4. ASSUME NEW q \in Followed
      PROVE  Keeps(cache[q], Shown(q), cache'[q], Shown(q)') /\ cache'[q].v = cache[q].v
  <2>1. EntryOK(cache[q], Version)
    BY DEF TabInv, CacheOK
  <2>2. CASE p # page /\ q \in Routes[p].mounts
    <3>1. cache'[q] = Mounted(cache[q])
      BY <1>1, <2>2
    <3>2. Keeps(cache[q], Shown(q), Mounted(cache[q]), TRUE) /\ Mounted(cache[q]).v = cache[q].v
      BY <1>2, <1>3, <2>1, MountedKeeps
    <3>3. Shown(q)' = TRUE
      BY <1>3, <2>2
    <3> QED  BY <3>1, <3>2, <3>3
  <2>3. CASE ~(p # page /\ q \in Routes[p].mounts)
    <3>1. cache'[q] = cache[q]
      BY <1>1, <2>3
    <3>2. CASE p = page
      <4>1. Shown(q)' = Shown(q)
        BY <3>2, <1>3 DEF Shown
      <4> QED  BY <1>3, <2>1, <3>1, <4>1, StaysKeeps
    <3>3. CASE q \notin Routes[p].mounts
      <4>1. ~Shown(q)'
        BY <3>3, <1>3
      <4>2. Keeps(cache[q], Shown(q), cache[q], Shown(q)')
        BY <1>3, <2>1, <4>1, HiddenKeeps
      <4> QED  BY <3>1, <4>2
    <3> QED  BY <2>3, <3>2, <3>3
  <2> QED  BY <2>2, <2>3
<1>5. form' = form \/ form' = NoForm \/ (area = "monitor" /\ form' = Opened(cache["monitor"].v))
  BY DEF GoTo
<1>6. area = "monitor" => /\ cache'["monitor"].v = cache["monitor"].v /\ "monitor" \in Followed
                          /\ cache["monitor"].v \in 0..Version
  <2>1. area = "monitor" => "monitor" \in Followed
    BY MonitorArea
  <2> QED  BY <1>2, <1>4, <2>1 DEF EntriesTo
<1>7. form' \in FormsTo(Version)
  BY <1>2, <1>5, <1>6, FormsOpened DEF TabInv, TabOK
<1>8. FormOK'
  <2> SUFFICES ASSUME area = "monitor", form'.open
               PROVE  cache'["monitor"].v >= form'.base
    BY DEF FormOK
  <2>1. CASE form' = form
    BY <1>6, <2>1 DEF TabInv, FormOK
  <2>2. CASE form' = NoForm
    BY <1>2, <2>2, FormsOpened
  <2>3. CASE form' = Opened(cache["monitor"].v)
    BY <1>2, <1>6, <2>3, FormsOpened
  <2> QED  BY <1>5, <2>1, <2>2, <2>3
<1> QED  BY <1>1, <1>4, <1>7, <1>8

\* The entries hold while the tab neither moves nor fetches.
LEMMA SameCache ==
  ASSUME TabInv, UNCHANGED <<area, page, log, cache, owed>>
  PROVE  /\ cache' \in [Followed -> EntriesTo(Version)]
         /\ \A q \in Followed : Shown(q)' = Shown(q)
         /\ \A q \in Followed : EntryOK(cache'[q], Version) /\ Honours(cache'[q], Shown(q)', owed'[q])
BY DEF TabInv, TabOK, CacheOK, Shown, Routes

LEMMA GoStep ==
  ASSUME TabInv, NEW p \in DOMAIN Routes, Go(p)
  PROVE  TabInv'
<1>1. GoTo(p) /\ UNCHANGED <<area, log, mut, owed, faults>>
  BY DEF Go
<1>2. /\ page' \in DOMAIN Routes
      /\ DOMAIN cache' = Followed /\ cache' = [q \in DOMAIN cache' |-> cache'[q]]
      /\ \A q \in Followed : Keeps(cache[q], Shown(q), cache'[q], Shown(q)')
      /\ form' \in FormsTo(Version) /\ FormOK'
  BY <1>1, GoToKeeps
<1>3. cache' \in [Followed -> EntriesTo(Version)]
  BY <1>1, <1>2, EntriesKept
<1>4. CacheOK'
  BY <1>1, <1>2, CacheKept
<1>5. MutationOK'
  BY <1>1, MutationKept
<1>6. Followed' = Followed /\ Version' = Version
  BY <1>1, SameLog
<1>7. TabOK'
  BY <1>1, <1>2, <1>3, <1>6 DEF TabInv, TabOK, Routes
<1> QED  BY <1>2, <1>4, <1>5, <1>7 DEF TabInv

LEMMA ReloadStep ==
  ASSUME TabInv, Reload
  PROVE  TabInv'
<1>1. /\ area = "monitor" /\ mut.op = "none" /\ form' = NoForm
      /\ cache' = [q \in Followed |-> IF Shown(q) THEN Loading(Empty) ELSE Empty]
      /\ owed' = [q \in Followed |-> Nothing]
      /\ UNCHANGED <<area, page, log, mut, faults>>
  BY DEF Reload
<1>2. Followed' = Followed /\ Version' = Version /\ Version \in Nat \ {0}
  BY <1>1, SameLog DEF TabInv, TabOK, Version
<1>3. MutationOK'
  BY <1>1, MutationKept
<1>4. \A q \in Followed : Shown(q)' = Shown(q) /\ Shown(q) \in BOOLEAN
  BY <1>1 DEF Shown, Routes
<1>5. ASSUME NEW q \in Followed
      PROVE  EntryOK(cache'[q], Version) /\ Honours(cache'[q], Shown(q)', owed'[q])
  <2>1. owed'[q] = 0 /\ cache'[q] \in {Loading(Empty), Empty}
    BY <1>1 DEF Nothing
  <2> QED  BY <1>2, <1>4, <2>1, EmptyLoads
<1>6. cache' \in [Followed -> EntriesTo(Version)]
  BY <1>1, <1>5 DEF EntryOK
<1>7. mut.phase = "idle"
  BY <1>1 DEF TabInv, MutationOK
<1>8. CacheOK'
  BY <1>1, <1>2, <1>5, <1>7 DEF CacheOK
<1>9. NoForm \in FormsTo(Version) /\ ~NoForm.open
  BY <1>2, FormsOpened
<1>10. TabOK'
  BY <1>1, <1>2, <1>6, <1>9 DEF TabInv, TabOK, Nothing, Routes
<1>11. FormOK'
  BY <1>1, <1>9 DEF FormOK
<1> QED  BY <1>3, <1>8, <1>10, <1>11 DEF TabInv

LEMMA EditStep ==
  ASSUME TabInv, NEW f \in {"name", "regions"}, Edit(f)
  PROVE  TabInv'
<1>1. /\ form.open /\ UNCHANGED <<area, page, log, cache, mut, owed, faults>>
      /\ \E none \in BOOLEAN : form' = [form EXCEPT !.touched = @ \cup {f}, !.emptied = IF f = "regions" THEN none ELSE @]
  BY DEF Edit
<1>2. Followed' = Followed /\ Version' = Version /\ form \in FormsTo(Version)
  BY <1>1, SameLog DEF TabInv, TabOK
<1>3. PICK none \in BOOLEAN : form' = [form EXCEPT !.touched = @ \cup {f}, !.emptied = IF f = "regions" THEN none ELSE @]
  BY <1>1
<1>4. form' \in FormsTo(Version)
  <2>1. form.touched \cup {f} \in SUBSET Fields
    BY <1>2 DEF FormsTo, Fields
  <2>2. (IF f = "regions" THEN none ELSE form.emptied) \in BOOLEAN
    BY <1>2 DEF FormsTo
  <2> QED  BY <1>2, <1>3, <2>1, <2>2, Zenon DEF FormsTo
<1>5. form'.base = form.base /\ form'.open = form.open
  BY <1>2, <1>3 DEF FormsTo
<1>6. TabOK'
  BY <1>1, <1>2, <1>4 DEF TabInv, TabOK, Routes
<1>7. MutationOK'
  BY <1>1, MutationKept
<1>8. CacheOK'
  BY <1>1, <1>2, SameCache, SameLog DEF TabInv, CacheOK
<1>9. FormOK'
  BY <1>1, <1>5 DEF TabInv, FormOK
<1> QED  BY <1>6, <1>7, <1>8, <1>9 DEF TabInv

\* While only the mutation changes, the rest of the invariant is about its phase.
LEMMA MutationStep ==
  ASSUME TabInv, UNCHANGED <<area, page, log, cache, form, owed>>, faults' \in Nat,
         mut' \in MutationsTo(Version), mut'.phase = "idle" <=> mut'.op = "none",
         mut'.op # "none" => mut'.op \in Area[area].ops,
         mut'.phase = "sent" => mut'.v = Nothing,
         area = "monitor" /\ mut'.op = "save" /\ mut'.phase = "sent" => mut'.prop >= mut'.form.base,
         mut'.phase = "settling" =>
           \A q \in Lists(mut'.op) \cap Followed : \E i \in DOMAIN mut'.rest : mut'.rest[i] = q
  PROVE  TabInv'
<1>1. Followed' = Followed /\ Version' = Version
  BY SameLog
<1>2. Lists(mut.op)' = Lists(mut'.op) /\ Area' = Area
  BY <1>1 DEF Lists, Area, OfOneMonitor
<1>3. TabOK' /\ FormOK'
  BY <1>1 DEF TabInv, TabOK, FormOK, Routes
<1>4. MutationOK'
  BY <1>1, <1>2 DEF MutationOK, MutationsTo, FormsTo, Phases, Queries, Fields, Operations
<1>5. CacheOK'
  BY <1>1, <1>2, SameCache DEF CacheOK
<1> QED  BY <1>3, <1>4, <1>5 DEF TabInv

LEMMA NoMutation ==
  ASSUME NEW n \in Nat
  PROVE  /\ NoMut \in MutationsTo(n) /\ NoMut.op = "none" /\ NoMut.phase = "idle" /\ NoMut.v = 0
<1>1. NoForm \in FormsTo(n) /\ 0 \in 0..n
  BY FormsOpened
<1>2. <<>> \in Seq(Queries) /\ "idle" \in Phases /\ FALSE \in BOOLEAN /\ {} \in SUBSET Queries
  BY DEF Phases
<1>3. NoMut \in MutationsTo(n)
  BY <1>1, <1>2, Zenon DEF NoMut, MutationsTo, Nothing
<1> QED  BY <1>3 DEF NoMut, Nothing

LEMMA SubmitStep ==
  ASSUME TabInv, NEW op \in DOMAIN Operations, Submit(op)
  PROVE  TabInv'
<1>1. /\ op \in Area[area].ops /\ mut.op = "none"
      /\ UNCHANGED <<area, page, log, cache, form, owed, faults>>
  BY DEF Submit
<1>2. Version \in Nat \ {0} /\ form \in FormsTo(Version) /\ faults \in Nat
  BY DEF TabInv, TabOK, Version
<1>3. /\ NoMut \in MutationsTo(Version) /\ NoMut.op = "none" /\ NoMut.phase = "idle" /\ NoMut.v = 0
  BY <1>2, NoMutation
<1>4. op # "none" /\ op \in DOMAIN Operations \cup {"none"} /\ "sent" \in Phases
  BY OperationNames DEF Phases
<1>5. CASE area # "monitor"
  <2> DEFINE m == [NoMut EXCEPT !.op = op, !.phase = "sent"]
  <2>1. mut' = m
    BY <1>5 DEF Submit
  <2>2. m \in MutationsTo(Version)
    BY <1>3, <1>4, Zenon DEF MutationsTo
  <2>3. m.op = op /\ m.phase = "sent" /\ m.v = 0
    BY <1>3 DEF MutationsTo
  <2> HIDE DEF m
  <2> QED  BY <1>1, <1>2, <1>4, <1>5, <2>1, <2>2, <2>3, MutationStep DEF Nothing
<1>6. CASE area = "monitor"
  <2> DEFINE shows == cache["monitor"].v
             m == [NoMut EXCEPT !.op = op, !.phase = "sent", !.form = form, !.prop = shows,
                                !.paused = op = "pause" /\ ~Row(shows).paused]
  <2>1. mut' = m /\ (op = "save" => form.open)
    BY <1>6 DEF Submit
  <2>2. shows \in 0..Version
    BY <1>6, MonitorArea DEF TabInv, TabOK, EntriesTo
  <2>3. (op = "pause" /\ ~Row(shows).paused) \in BOOLEAN
    OBVIOUS
  <2>4. m \in MutationsTo(Version)
    BY <1>2, <1>3, <1>4, <2>2, <2>3, Zenon DEF MutationsTo
  <2>5. m.op = op /\ m.phase = "sent" /\ m.v = 0
    BY <1>3, Zenon DEF MutationsTo
  <2>6. m.prop = shows /\ m.form = form
    BY <1>3, Zenon DEF MutationsTo
  <2>7. op = "save" => shows >= form.base
    BY <1>6, <2>1 DEF TabInv, FormOK
  <2> HIDE DEF m, shows
  <2> QED  BY <1>1, <1>2, <1>4, <1>6, <2>1, <2>4, <2>5, <2>6, <2>7, MutationStep DEF Nothing
<1> QED  BY <1>5, <1>6

LEMMA AnsweredIs ==
  ASSUME TabInv, NEW phase \in Phases
  PROVE  /\ Answered(phase) \in MutationsTo(Version)
         /\ Answered(phase).phase = phase /\ Answered(phase).op = mut.op /\ Answered(phase).v = mut.v
<1>1. mut \in MutationsTo(Version) /\ Version \in Nat /\ FALSE \in BOOLEAN
  BY DEF TabInv, MutationOK, TabOK, Version
<1>2. NoForm \in FormsTo(Version) /\ 0 \in 0..Version
  BY <1>1, FormsOpened
<1>3. Answered(phase) \in MutationsTo(Version)
  BY <1>1, <1>2, Zenon DEF MutationsTo, Answered, Nothing
<1> QED  BY <1>1, <1>3, Zenon DEF MutationsTo, Answered

LEMMA RefuseStep ==
  ASSUME TabInv, Refuse
  PROVE  TabInv'
<1>1. /\ mut.phase = "sent" /\ mut' = Answered("failed") /\ faults' \in Nat
      /\ UNCHANGED <<area, page, log, cache, form, owed>>
  BY DEF Refuse, TabInv, TabOK
<1>2. "failed" \in Phases
  BY DEF Phases
<1>3. mut' \in MutationsTo(Version) /\ mut'.phase = "failed" /\ mut'.op = mut.op
  BY <1>1, <1>2, AnsweredIs
<1>4. mut.op # "none" /\ mut.op \in Area[area].ops
  BY <1>1 DEF TabInv, MutationOK
<1> QED  BY <1>1, <1>3, <1>4, MutationStep

LEMMA SettleStep ==
  ASSUME TabInv, Settle
  PROVE  TabInv'
<1>1. /\ mut.phase \in {"done", "failed"}
      /\ mut' = IF Settles THEN [mut EXCEPT !.phase = "settling", !.rest = Invalidated(mut.op)] ELSE NoMut
      /\ UNCHANGED <<area, page, log, cache, form, owed, faults>>
  BY DEF Settle
<1>2. mut \in MutationsTo(Version) /\ Version \in Nat /\ faults \in Nat
  BY DEF TabInv, MutationOK, TabOK, Version
<1>3. mut.op # "none" /\ mut.op \in Area[area].ops /\ area \in DOMAIN Area
  BY <1>1, AreaOfAreas DEF TabInv, MutationOK, TabOK
<1>4. CASE Settles
  <2> DEFINE m == [mut EXCEPT !.phase = "settling", !.rest = Invalidated(mut.op)]
  <2>1. mut' = m
    BY <1>1, <1>4
  <2>2. mut.op \in DOMAIN Operations
    BY <1>3, AreaParts
  <2>3. Invalidated(mut.op) \in Seq(Queries) /\ "settling" \in Phases
    BY <2>2, OperationParts DEF Phases
  <2>4. m \in MutationsTo(Version)
    BY <1>2, <2>3, Zenon DEF MutationsTo
  <2>5. m.phase = "settling" /\ m.op = mut.op /\ m.rest = Invalidated(mut.op)
    BY <1>2 DEF MutationsTo
  <2> HIDE DEF m
  <2>6. \A q \in Lists(mut'.op) \cap Followed : \E i \in DOMAIN mut'.rest : mut'.rest[i] = q
    BY <1>3, <2>1, <2>5, ListsAreInvalidated
  <2> QED  BY <1>1, <1>2, <1>3, <2>1, <2>4, <2>5, <2>6, MutationStep
<1>5. CASE ~Settles
  <2>1. mut' = NoMut
    BY <1>1, <1>5
  <2> QED  BY <1>1, <1>2, <2>1, NoMutation, MutationStep
<1> QED  BY <1>4, <1>5

\* The log grows by a row; every version there was stays in range.
LEMMA LogGrows ==
  ASSUME TabInv, NEW r \in Rows, log' = Append(log, r), UNCHANGED <<area, page, cache, form, owed>>,
         faults' \in Nat
  PROVE  /\ Version' = Version + 1 /\ Followed' = Followed
         /\ TabOK' /\ FormOK'
         /\ \A q \in Followed : EntryOK(cache'[q], Version') /\ Honours(cache'[q], Shown(q)', owed'[q])
<1>1. Version' = Version + 1 /\ Version \in Nat /\ Followed' = Followed /\ log' \in Seq(Rows)
  BY DEF TabInv, TabOK, Version, Followed, Area
<1>2. /\ EntriesTo(Version) \subseteq EntriesTo(Version') /\ FormsTo(Version) \subseteq FormsTo(Version')
  BY <1>1, TypesGrow
<1>3. cache' \in [Followed -> EntriesTo(Version')] /\ form' \in FormsTo(Version')
  BY <1>2 DEF TabInv, TabOK
<1>4. owed' \in [Followed -> 0..Version'] /\ Version' >= 1
  BY <1>1 DEF TabInv, TabOK
<1>5. TabOK'
  BY <1>1, <1>3, <1>4 DEF TabInv, TabOK, Routes, Rows
<1>6. FormOK'
  BY DEF TabInv, FormOK
<1>7. ASSUME NEW q \in Followed
      PROVE  EntryOK(cache'[q], Version') /\ Honours(cache'[q], Shown(q)', owed'[q])
  <2>1. EntryOK(cache[q], Version) /\ Honours(cache[q], Shown(q), owed[q])
    BY DEF TabInv, CacheOK
  <2>2. Shown(q)' = Shown(q)
    BY DEF Shown, Routes
  <2>3. EntryOK(cache[q], Version')
    BY <1>2, <2>1 DEF EntryOK
  <2> QED  BY <2>1, <2>2, <2>3
<1> QED  BY <1>1, <1>5, <1>6, <1>7

LEMMA WrittenIsRow ==
  ASSUME TabInv, mut.phase = "sent"
  PROVE  Written \in Rows
<1>1. Current \in Rows /\ Version \in Nat \ {0} /\ Len(log) = Version
  BY DEF TabInv, TabOK, Version, Current
<1>2. mut.paused \in BOOLEAN /\ FALSE \in BOOLEAN /\ mut.form \in FormsTo(Version) /\ mut.prop \in 0..Version
  BY DEF TabInv, MutationOK, MutationsTo
<1>3. mut.op # "none" /\ mut.op \in Area[area].ops
  BY DEF TabInv, MutationOK
<1>4. CASE area # "monitor"
  BY <1>1, <1>4 DEF Written
<1>5. CASE area = "monitor"
  <2>1. mut.op \in {"save", "pause", "remove"}
    BY <1>3, <1>5 DEF Area
  <2>2. CASE mut.op = "pause"
    <3>1. [Current EXCEPT !.paused = mut.paused] \in Rows
      BY <1>1, <1>2, Zenon DEF Rows
    <3> QED  BY <1>5, <2>2, <3>1 DEF Written
  <2>3. CASE mut.op = "remove"
    <3>1. [Current EXCEPT !.alive = FALSE] \in Rows
      BY <1>1, <1>2, Zenon DEF Rows
    <3> QED  BY <1>5, <2>3, <3>1 DEF Written
  <2>4. CASE mut.op = "save"
    <3>1. Written = Saved
      BY <1>5, <2>4 DEF Written
    <3>2. CASE mut.form.base = Nothing
      BY <1>1, <3>1, <3>2, Zenon DEF Saved
    <3>3. CASE mut.form.base # Nothing
      <4> DEFINE sent(f) == IF f \in mut.form.touched THEN Version + 1 ELSE Row(mut.form.base)[f]
      <4>1. mut.form.base \in 1..Version /\ mut.prop \in 1..Version
        BY <1>2, <1>5, <2>4, <3>3 DEF TabInv, MutationOK, FormsTo, Nothing
      <4>2. Row(mut.form.base) \in Rows /\ Row(mut.prop) \in Rows
        BY <1>1, <4>1 DEF Row, TabInv, TabOK
      <4>3. sent("name") \in Nat /\ sent("regions") \in Nat /\ ConfigSent \in Nat
        BY <1>1, <4>2 DEF Rows, ConfigSent
      <4>4. (IF mut.form.emptied THEN Current.regions ELSE sent("regions")) \in Nat
        BY <1>1, <4>3 DEF Rows
      <4>5. Saved = [Current EXCEPT !.name = sent("name"),
                                    !.regions = IF mut.form.emptied THEN @ ELSE sent("regions"),
                                    !.hidden = ConfigSent]
        BY <3>3 DEF Saved
      <4> HIDE DEF sent
      <4>6. Saved \in Rows
        BY <1>1, <4>3, <4>4, <4>5, Zenon DEF Rows
      <4> QED  BY <3>1, <4>6
    <3> QED  BY <3>2, <3>3
  <2> QED  BY <2>1, <2>2, <2>3, <2>4
<1> QED  BY <1>4, <1>5

LEMMA ExecuteStep ==
  ASSUME TabInv, Execute
  PROVE  TabInv'
<1>1. /\ mut.phase = "sent" /\ log' = Append(log, Written)
      /\ UNCHANGED <<area, page, cache, form, owed>> /\ faults' \in Nat
  BY DEF Execute, TabInv, TabOK
<1>2. PICK phase \in {"done", "failed"} : mut' = [Answered(phase) EXCEPT !.v = Version + 1]
  BY DEF Execute
<1>3. /\ Version' = Version + 1 /\ Followed' = Followed
      /\ TabOK' /\ FormOK'
      /\ \A q \in Followed : EntryOK(cache'[q], Version') /\ Honours(cache'[q], Shown(q)', owed'[q])
  BY <1>1, WrittenIsRow, LogGrows
<1>4. /\ Answered(phase) \in MutationsTo(Version)
      /\ Answered(phase).phase = phase /\ Answered(phase).op = mut.op
  BY AnsweredIs DEF Phases
<1>5. Answered(phase) \in MutationsTo(Version') /\ Version + 1 \in 0..Version'
  BY <1>3, <1>4, TypesGrow DEF TabInv, TabOK, Version
<1>6. mut' \in MutationsTo(Version')
  BY <1>2, <1>5, Zenon DEF MutationsTo
<1>7. mut'.phase = phase /\ mut'.op = mut.op
  BY <1>2, <1>4 DEF MutationsTo
<1>8. mut.op # "none" /\ mut.op \in Area[area].ops /\ Area' = Area
  BY <1>1 DEF TabInv, MutationOK, Area
<1>9. MutationOK'
  BY <1>1, <1>6, <1>7, <1>8 DEF MutationOK, MutationsTo, FormsTo, Phases, Queries, Fields, Operations
<1>10. CacheOK'
  BY <1>3, <1>7 DEF CacheOK
<1> QED  BY <1>3, <1>9, <1>10 DEF TabInv

LEMMA ElsewhereStep ==
  ASSUME TabInv, Elsewhere
  PROVE  TabInv'
<1>1. UNCHANGED <<area, page, cache, form, mut, owed>> /\ faults' \in Nat
  BY DEF Elsewhere, TabInv, TabOK
<1>2. Current \in Rows /\ Version + 1 \in Nat /\ FALSE \in BOOLEAN
  BY DEF TabInv, TabOK, Version, Current
<1>3. PICK r \in Rows : log' = Append(log, r)
  <2>1. \A f \in OthersWrite : [Current EXCEPT ![f] = Version + 1] \in Rows
    <3> SUFFICES ASSUME NEW f \in OthersWrite PROVE [Current EXCEPT ![f] = Version + 1] \in Rows
      OBVIOUS
    <3>1. f \in {"name", "regions", "hidden"}
      BY DashboardAssumption
    <3>2. /\ [Current EXCEPT !["name"] = Version + 1] \in Rows
          /\ [Current EXCEPT !["regions"] = Version + 1] \in Rows
          /\ [Current EXCEPT !["hidden"] = Version + 1] \in Rows
      BY <1>2, Zenon DEF Rows
    <3> QED  BY <3>1, <3>2
  <2>2. [Current EXCEPT !.alive = FALSE] \in Rows
    BY <1>2, Zenon DEF Rows
  <2> QED  BY <1>2, <2>1, <2>2 DEF Elsewhere
<1>4. /\ Version' = Version + 1 /\ Followed' = Followed
      /\ TabOK' /\ FormOK'
      /\ \A q \in Followed : EntryOK(cache'[q], Version') /\ Honours(cache'[q], Shown(q)', owed'[q])
  BY <1>1, <1>3, LogGrows
<1>5. mut \in MutationsTo(Version')
  BY <1>4, TypesGrow DEF TabInv, MutationOK, TabOK, Version
<1>6. Area' = Area /\ Lists(mut.op)' = Lists(mut.op)
  BY <1>1, <1>4 DEF Area, Lists, OfOneMonitor
<1>7. MutationOK'
  BY <1>1, <1>5, <1>6 DEF TabInv, MutationOK, MutationsTo, FormsTo, Phases, Queries, Fields, Operations
<1>8. \A q : Shown(q)' = Shown(q)
  BY <1>1 DEF Shown, Routes
<1>9. CacheOK'
  BY <1>1, <1>4, <1>6, <1>8 DEF TabInv, CacheOK
<1> QED  BY <1>4, <1>7, <1>9 DEF TabInv

LEMMA InvalidateStep ==
  ASSUME TabInv, Invalidate
  PROVE  TabInv'
<1> DEFINE q == Head(mut.rest)
           m == [mut EXCEPT !.rest = Tail(@), !.wait = {q} \cap Followed]
<1>1. /\ mut.phase = "settling" /\ mut.rest # <<>>
      /\ cache' = IF q \in Followed THEN [cache EXCEPT ![q] = Refreshed(q, @)] ELSE cache
      /\ mut' = m
      /\ UNCHANGED <<area, page, log, form, owed, faults>>
  BY DEF Invalidate
<1>2. /\ mut \in MutationsTo(Version) /\ Version \in Nat \ {0} /\ cache \in [Followed -> EntriesTo(Version)]
      /\ mut.rest \in Seq(Queries) /\ mut.v \in 0..Version
  BY DEF TabInv, MutationOK, TabOK, Version, MutationsTo
<1>3. Followed' = Followed /\ Version' = Version /\ Lists(mut.op)' = Lists(mut'.op) /\ Area' = Area
  BY <1>1, SameLog DEF Lists, Area, OfOneMonitor
<1>4. q \in Queries /\ Tail(mut.rest) \in Seq(Queries)
  BY <1>1, <1>2
<1>5. m \in MutationsTo(Version)
  <2>1. {q} \cap Followed \in SUBSET Queries
    BY <1>4
  <2> QED  BY <1>2, <1>4, <2>1, Zenon DEF MutationsTo
<1>6. m.op = mut.op /\ m.phase = mut.phase /\ m.v = mut.v
  BY <1>2, Zenon DEF MutationsTo
<1>7. m.rest = Tail(mut.rest)
  BY <1>2, Zenon DEF MutationsTo
<1> HIDE DEF m
<1>8. ASSUME NEW r \in Followed
      PROVE  /\ EntryOK(cache'[r], Version) /\ cache'[r].v = cache[r].v
             /\ \A n \in 0..Version : Honours(cache[r], Shown(r), n) \/ r = q => Honours(cache'[r], Shown(r)', n)
  <2>1. EntryOK(cache[r], Version)
    BY DEF TabInv, CacheOK
  <2>2. Shown(r)' = Shown(r)
    BY <1>1 DEF Shown, Routes
  <2>3. CASE r = q
    <3>1. cache'[r] = Refreshed(q, cache[q])
      BY <1>1, <1>2, <2>3
    <3>2. /\ EntryOK(Refreshed(q, cache[q]), Version) /\ Refreshed(q, cache[q]).v = cache[q].v
          /\ \A n \in 0..Version : Honours(Refreshed(q, cache[q]), Shown(q), n)
      BY <1>2, <2>1, <2>3, RefreshedKeeps
    <3> QED  BY <2>2, <2>3, <3>1, <3>2
  <2>4. CASE r # q
    <3>1. cache'[r] = cache[r]
      BY <1>1, <1>2, <2>4
    <3> QED  BY <2>1, <2>2, <2>4, <3>1
  <2> QED  BY <2>3, <2>4
<1>9. cache' \in [Followed -> EntriesTo(Version)]
  <2>1. DOMAIN cache' = Followed /\ cache' = [r \in DOMAIN cache' |-> cache'[r]]
    BY <1>1, <1>2
  <2>2. \A r \in Followed : cache'[r] \in EntriesTo(Version)
    BY <1>8 DEF EntryOK
  <2> QED  BY <2>1, <2>2
<1>10. TabOK'
  BY <1>1, <1>3, <1>9 DEF TabInv, TabOK, Routes
<1>11. FormOK'
  <2> SUFFICES ASSUME area = "monitor", form.open PROVE cache'["monitor"].v >= form.base
    BY <1>1 DEF FormOK
  <2>1. cache["monitor"].v >= form.base /\ "monitor" \in Followed
    BY MonitorArea DEF TabInv, FormOK
  <2> QED  BY <1>8, <2>1
<1>12. MutationOK'
  <2>1. mut'.op # "none" /\ mut'.op \in Area[area].ops /\ mut'.phase = "settling"
    BY <1>1, <1>6 DEF TabInv, MutationOK
  <2> QED  BY <1>1, <1>3, <1>5, <2>1 DEF MutationOK, MutationsTo, FormsTo, Phases, Queries, Fields, Operations
<1>13. \A r \in Followed : Honours(cache'[r], Shown(r)', owed[r])
  <2>1. \A r \in Followed : owed[r] \in 0..Version /\ Honours(cache[r], Shown(r), owed[r])
    BY DEF TabInv, TabOK, CacheOK
  <2> QED  BY <1>8, <2>1
<1>14. ASSUME NEW r \in Lists(mut'.op) \cap Followed
       PROVE  Honours(cache'[r], Shown(r)', mut'.v) \/ \E i \in DOMAIN mut'.rest : mut'.rest[i] = r
  <2>1. Honours(cache[r], Shown(r), mut.v) \/ \E i \in DOMAIN mut.rest : mut.rest[i] = r
    BY <1>1, <1>6 DEF TabInv, CacheOK
  <2>2. CASE Honours(cache[r], Shown(r), mut.v) \/ r = q
    BY <1>1, <1>2, <1>6, <1>8, <2>2
  <2>3. ASSUME NEW i \in DOMAIN mut.rest, mut.rest[i] = r, r # q
        PROVE  \E j \in DOMAIN mut'.rest : mut'.rest[j] = r
    <3>1. i \in 2..Len(mut.rest)
      BY <1>2, <2>3
    <3>2. i - 1 \in DOMAIN Tail(mut.rest) /\ Tail(mut.rest)[i - 1] = mut.rest[i]
      BY <1>1, <1>2, <3>1
    <3> QED  BY <1>1, <1>7, <2>3, <3>2
  <2> QED  BY <2>1, <2>2, <2>3
<1>15. CacheOK'
  BY <1>1, <1>3, <1>8, <1>13, <1>14 DEF CacheOK
<1> QED  BY <1>10, <1>11, <1>12, <1>15 DEF TabInv

LEMMA LandStep ==
  ASSUME TabInv, Land
  PROVE  TabInv'
<1> DEFINE to == Operations[mut.op].to
<1>1. /\ mut.phase = "settling" /\ mut.rest = <<>> /\ mut' = NoMut
      /\ owed' = [q \in Followed |-> IF q \in Lists(mut.op) /\ mut.v # Nothing THEN mut.v ELSE owed[q]]
      /\ IF to = "stay" THEN UNCHANGED <<page, cache, form>> ELSE GoTo(to)
      /\ UNCHANGED <<area, log, faults>>
  BY DEF Land
<1>2. mut.op \in DOMAIN Operations /\ mut.v \in 0..Version /\ Version \in Nat
  BY <1>1, AreaOfAreas, AreaParts DEF TabInv, TabOK, MutationOK, MutationsTo, Version
<1>3. to \in DOMAIN Routes \cup {"stay"}
  BY <1>2, OperationParts
<1> HIDE DEF to
<1>4. Followed' = Followed /\ Version' = Version
  BY <1>1, SameLog
<1>5. /\ page' \in DOMAIN Routes
      /\ DOMAIN cache' = Followed /\ cache' = [q \in DOMAIN cache' |-> cache'[q]]
      /\ \A q \in Followed : Keeps(cache[q], Shown(q), cache'[q], Shown(q)')
      /\ form' \in FormsTo(Version) /\ FormOK'
  <2>1. CASE to = "stay"
    <3>1. UNCHANGED <<area, page, log, cache, form>>
      BY <1>1, <2>1
    <3>2. FormOK' /\ page' \in DOMAIN Routes /\ form' \in FormsTo(Version)
      BY <3>1 DEF TabInv, TabOK, FormOK
    <3>3. DOMAIN cache' = Followed /\ cache' = [q \in DOMAIN cache' |-> cache'[q]]
      BY <3>1 DEF TabInv, TabOK
    <3>4. ASSUME NEW q \in Followed
          PROVE  Keeps(cache[q], Shown(q), cache'[q], Shown(q)')
      <4>1. Shown(q)' = Shown(q) /\ Shown(q) \in BOOLEAN
        BY <3>1 DEF Shown, Routes
      <4>2. EntryOK(cache[q], Version)
        BY DEF TabInv, CacheOK
      <4>3. Keeps(cache[q], Shown(q), cache[q], Shown(q))
        BY <4>1, <4>2, StaysKeeps
      <4> QED  BY <3>1, <4>1, <4>3
    <3> QED  BY <3>2, <3>3, <3>4
  <2>2. CASE to # "stay"
    <3>1. GoTo(to) /\ to \in DOMAIN Routes
      BY <1>1, <1>3, <2>2
    <3> QED  BY <1>1, <3>1, GoToKeeps
  <2> QED  BY <2>1, <2>2
<1>6. /\ cache' \in [Followed -> EntriesTo(Version)]
      /\ \A q \in Followed : EntryOK(cache'[q], Version)
      /\ \A q \in Followed : \A n \in 0..Version :
           Honours(cache[q], Shown(q), n) => Honours(cache'[q], Shown(q)', n)
  BY <1>1, <1>5, EntriesKept
<1>7. owed' \in [Followed -> 0..Version]
  BY <1>1, <1>2 DEF TabInv, TabOK
<1>8. TabOK'
  BY <1>1, <1>4, <1>5, <1>6, <1>7 DEF TabInv, TabOK, Routes
<1>9. /\ NoMut \in MutationsTo(Version) /\ NoMut.op = "none" /\ NoMut.phase = "idle"
  BY <1>2, NoMutation
<1>10. MutationOK'
  BY <1>1, <1>4, <1>9 DEF MutationOK, MutationsTo, FormsTo, Phases, Queries, Fields, Operations
<1>11. ASSUME NEW q \in Followed
       PROVE  Honours(cache'[q], Shown(q)', owed'[q])
  <2>1. CASE q \in Lists(mut.op) /\ mut.v # Nothing
    <3>1. owed'[q] = mut.v
      BY <1>1, <2>1
    <3>2. Honours(cache[q], Shown(q), mut.v) \/ \E i \in DOMAIN mut.rest : mut.rest[i] = q
      BY <1>1, <2>1 DEF TabInv, CacheOK
    <3>3. DOMAIN mut.rest = {}
      BY <1>1
    <3> QED  BY <1>2, <1>6, <3>1, <3>2, <3>3
  <2>2. CASE ~(q \in Lists(mut.op) /\ mut.v # Nothing)
    <3>1. owed'[q] = owed[q]
      BY <1>1, <2>2
    <3>2. Honours(cache[q], Shown(q), owed[q]) /\ owed[q] \in 0..Version
      BY DEF TabInv, TabOK, CacheOK
    <3> QED  BY <1>6, <3>1, <3>2
  <2> QED  BY <2>1, <2>2
<1>12. CacheOK'
  BY <1>1, <1>4, <1>6, <1>9, <1>11 DEF CacheOK
<1> QED  BY <1>5, <1>8, <1>10, <1>12 DEF TabInv

LEMMA TabStarts == TabInit => TabInv
<1> SUFFICES ASSUME TabInit PROVE TabInv
  OBVIOUS
<1>1. /\ area \in Areas /\ page \in {"list", "alerts", "away"} \cap Area[area].pages
      /\ log = <<[name |-> 1, regions |-> 1, hidden |-> 1, paused |-> FALSE, alive |-> TRUE]>>
      /\ cache = [q \in Followed |-> IF Shown(q) THEN Loading(Empty) ELSE Empty]
      /\ form = NoForm /\ mut = NoMut /\ owed = [q \in Followed |-> Nothing] /\ faults = 0
  BY DEF TabInit
<1>2. page \in DOMAIN Routes
  BY <1>1, RouteNames
<1>3. log \in Seq(Rows) /\ Version = 1
  <2>1. [name |-> 1, regions |-> 1, hidden |-> 1, paused |-> FALSE, alive |-> TRUE] \in Rows
    BY DEF Rows
  <2> QED  BY <1>1, <2>1 DEF Version
<1>4. ASSUME NEW q \in Followed
      PROVE  EntryOK(cache[q], Version) /\ Honours(cache[q], Shown(q), owed[q])
  <2>1. cache[q] \in {Loading(Empty), Empty} /\ owed[q] = 0 /\ Shown(q) \in BOOLEAN
    BY <1>1 DEF Nothing, Shown
  <2> QED  BY <1>3, <2>1, EmptyLoads
<1>5. cache \in [Followed -> EntriesTo(Version)]
  BY <1>1, <1>4 DEF EntryOK
<1>6. NoForm \in FormsTo(Version) /\ ~NoForm.open
  BY <1>3, FormsOpened
<1>7. /\ NoMut \in MutationsTo(Version) /\ NoMut.op = "none" /\ NoMut.phase = "idle"
  BY <1>3, NoMutation
<1>8. TabOK
  BY <1>1, <1>2, <1>3, <1>5, <1>6 DEF TabOK, Nothing
<1>9. MutationOK /\ CacheOK /\ FormOK
  BY <1>1, <1>4, <1>6, <1>7 DEF MutationOK, CacheOK, FormOK
<1> QED  BY <1>8, <1>9 DEF TabInv

LEMMA TabSteps == TabInv /\ [TabNext]_tabVars => TabInv'
<1> SUFFICES ASSUME TabInv, [TabNext]_tabVars PROVE TabInv'
  OBVIOUS
<1>1. CASE UNCHANGED tabVars
  BY <1>1 DEF tabVars, TabInv, TabOK, MutationOK, CacheOK, FormOK, Followed, Shown, Version, Lists
<1>2. CASE TabNext
  BY <1>2, QuerySteps, GoStep, ReloadStep, EditStep, SubmitStep, ExecuteStep, RefuseStep, SettleStep,
     InvalidateStep, LandStep, ElsewhereStep DEF TabNext, Fields
<1> QED  BY <1>1, <1>2

LEMMA TabInvariant == TabSpec => []TabInv
BY TabStarts, TabSteps, PTL DEF TabSpec

\* A list that is shown, loaded and not loading again holds every write of the tab that
\* has settled, unless its last load failed or was under way when the write settled and
\* could not be restarted: the invalidations of every mutation reach its lists.
THEOREM WritesAreShown == TabSpec => []OwnWritesShown
<1>1. TabInv => OwnWritesShown
  BY DEF TabInv, TabOK, CacheOK, Honours, OwnWritesShown, EntryOK, EntriesTo, NoFetch
<1> QED  BY <1>1, TabInvariant, PTL

(***************************************************************************)
(* What a save leaves alone.                                               *)
(***************************************************************************)

\* A field that did not change after version v still has the value it had then.
LEMMA UnchangedSince ==
  ASSUME Version \in Nat, NEW v \in 1..Version, NEW f, ~ChangedAfter(v, f)
  PROVE  Row(v)[f] = Current[f]
<1> DEFINE T == {n \in Nat : n \in v..Version /\ Row(n)[f] # Row(v)[f]}
<1>1. CASE T = {}
  <2>1. Version \in v..Version
    OBVIOUS
  <2> QED  BY <1>1, <2>1 DEF Row, Current, Version
<1>2. CASE T # {}
  <2>1. PICK n \in T : \A m \in T : ~(<<m, n>> \in OpToRel(<, Nat))
    <3>1. T \subseteq Nat
      OBVIOUS
    <3> HIDE DEF T
    <3> QED  BY <1>2, <3>1, NatLessThanWellFounded, WFMin
  <2>2. n \in v..Version /\ Row(n)[f] # Row(v)[f]
    BY <2>1
  <2>3. n # v
    BY <2>2
  <2>4. n \in (v + 1)..Version /\ n - 1 \in v..Version /\ n - 1 \in Nat /\ n - 1 < n
    BY <2>2, <2>3
  <2>5. n - 1 \notin T
    <3>1. <<n - 1, n>> \in OpToRel(<, Nat)
      BY <2>2, <2>4 DEF OpToRel
    <3> QED  BY <2>1, <3>1
  <2>6. Row(n - 1)[f] = Row(v)[f]
    BY <2>4, <2>5
  <2> QED  BY <2>2, <2>4, <2>6 DEF ChangedAfter
<1> QED  BY <1>1, <1>2

\* The step that carries a save out writes the row of the form, from copies there are.
LEMMA SaveKeeps ==
  ASSUME TabInv, [TabNext]_tabVars, area = "monitor", mut.op = "save", mut.phase = "sent",
         mut'.v # Nothing, mut.form.base # Nothing
  PROVE  /\ log' = Append(log, Saved)
         /\ mut.form.base \in 1..Version /\ mut.prop \in 1..Version /\ mut.prop >= mut.form.base
<1>1. mut.v = Nothing /\ mut \in MutationsTo(Version)
  BY DEF TabInv, MutationOK
<1>2. Execute
  <2>1. ~UNCHANGED mut
    BY <1>1
  <2>2. ~Refuse
    <3>1. Answered("failed").v = mut.v
      BY AnsweredIs DEF Phases
    <3> QED  BY <1>1, <3>1 DEF Refuse
  <2>3. ~Settle /\ ~Invalidate /\ ~Land /\ \A op \in DOMAIN Operations : ~Submit(op)
    BY DEF Settle, Invalidate, Land, Submit
  <2>4. ~Elsewhere /\ ~Reload /\ (\A p \in DOMAIN Routes : ~Go(p)) /\ \A f \in Fields : ~Edit(f)
    BY <2>1 DEF Elsewhere, Reload, Go, Edit
  <2>5. \A q \in Queries : ~Arrive(q) /\ ~NotFound(q) /\ ~LoseFetch(q) /\ ~Tick(q) /\ ~Age(q)
    BY <2>1 DEF Arrive, NotFound, LoseFetch, Tick, Age
  <2> QED  BY <2>1, <2>2, <2>3, <2>4, <2>5 DEF TabNext, tabVars
<1>3. Written = Saved /\ log' = Append(log, Written)
  BY <1>2 DEF Written, Execute
<1>4. mut.form.base \in 0..Version /\ mut.prop \in 0..Version /\ mut.prop >= mut.form.base
  BY <1>1 DEF TabInv, MutationOK, MutationsTo, FormsTo
<1> QED  BY <1>3, <1>4 DEF Nothing

\* A save changes a field its user did not touch only if somebody changed it after the
\* copy the form was sending was read, and never whether the monitor runs.
THEOREM SavesKeep == TabSpec => SavesKeepTheRest
<1> DEFINE now == log'[Len(log')]
           aSave == /\ area = "monitor" /\ mut.op = "save" /\ mut.phase = "sent"
                    /\ mut'.v # Nothing /\ mut.form.base # Nothing
<1>1. TabInv /\ [TabNext]_tabVars => (aSave => KeptBySave(now))
  <2> SUFFICES ASSUME TabInv, [TabNext]_tabVars, aSave PROVE KeptBySave(now)
    OBVIOUS
  <2>1. /\ log' = Append(log, Saved)
        /\ mut.form.base \in 1..Version /\ mut.prop \in 1..Version /\ mut.prop >= mut.form.base
    BY SaveKeeps
  <2>2. log \in Seq(Rows) /\ Current \in Rows /\ Version \in Nat
    BY DEF TabInv, TabOK, Version, Current
  <2>3. now = Saved
    BY <2>1, <2>2
  <2> DEFINE sent(f) == IF f \in mut.form.touched THEN Version + 1 ELSE Row(mut.form.base)[f]
             regions == IF mut.form.emptied THEN Current.regions ELSE sent("regions")
  <2>4. Saved = [Current EXCEPT !.name = sent("name"),
                                !.regions = IF mut.form.emptied THEN @ ELSE sent("regions"),
                                !.hidden = ConfigSent]
    BY DEF Saved
  <2> HIDE DEF sent
  <2>5. now.name = sent("name") /\ now.hidden = ConfigSent
    BY <2>2, <2>3, <2>4, Zenon DEF Rows
  <2>6. now.regions = regions
    BY <2>2, <2>3, <2>4, Zenon DEF Rows
  <2>7. now.paused = Current.paused /\ now.alive = Current.alive
    BY <2>2, <2>3, <2>4, Zenon DEF Rows
  <2> HIDE DEF now, regions
  <2>8. ASSUME NEW f \in Fields \ mut.form.touched
        PROVE  now[f] = Current[f] \/ ChangedAfter(mut.form.base, f)
    <3>1. Row(mut.form.base)[f] = Current[f] \/ ChangedAfter(mut.form.base, f)
      BY <2>1, <2>2, UnchangedSince
    <3>2. now[f] = Row(mut.form.base)[f] \/ now[f] = Current[f]
      BY <2>5, <2>6 DEF Fields, sent, regions
    <3> QED  BY <3>1, <3>2
  <2>9. now.hidden = Current.hidden \/ ChangedAfter(mut.prop, "hidden")
    <3>1. Row(mut.prop)["hidden"] = Current["hidden"] \/ ChangedAfter(mut.prop, "hidden")
      BY <2>1, <2>2, UnchangedSince
    <3> QED  BY <2>5, <3>1 DEF ConfigSent
  <2> QED  BY <2>1, <2>7, <2>8, <2>9 DEF KeptBySave
<1> QED  BY <1>1, TabInvariant, PTL DEF TabSpec, SavesKeepTheRest
=============================================================================
