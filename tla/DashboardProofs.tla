---------------------------- MODULE DashboardProofs ----------------------------
(* Theorems of Dashboard and of the session beneath it.                    *)
EXTENDS Dashboard, TLAPS

-------------------------------------------------------------------------------
(* The session *)

Admin == \E e \in Email : users[e] = "admin"

(* Nobody but an admin makes users, and the first start makes an admin.    *)
UsersHaveAdmin == NoUsers \/ Admin

(* What /api/me will say is said of the token that is stored.              *)
MeIsStored == me # NoToken /\ stored # NoToken /\ ~crossed => me = stored

SessionInv == /\ SessionTypeOK
              /\ UsersHaveAdmin /\ AdminExists
              /\ MeIsStored /\ ShownUserIsTokens

LEMMA TokenFacts ==
    ASSUME SessionTypeOK
    PROVE  /\ DOMAIN tokens = 1..Len(tokens) /\ Len(tokens) \in Nat
           /\ DOMAIN tokens \subseteq Token /\ NoToken \notin DOMAIN tokens
           /\ \A t \in DOMAIN tokens : tokens[t] \in Claims /\ tokens[t].user \in Email
<1>1. DOMAIN tokens = 1..Len(tokens) /\ Len(tokens) \in Nat
  BY DEF SessionTypeOK
<1>2. DOMAIN tokens \subseteq Token /\ NoToken \notin DOMAIN tokens
  <2>1. Len(tokens) <= MaxToken
    BY DEF SessionTypeOK
  <2> DEFINE last == Len(tokens)
  <2> HIDE DEF last
  <2>2. 1..last \subseteq 1..MaxToken /\ 0 \notin 1..last
    BY <1>1, <2>1, SessionAssumption DEF last
  <2> QED
    BY <1>1, <2>2 DEF last, Token, NoToken
<1>3. \A t \in DOMAIN tokens : tokens[t] \in Claims
  BY <1>1 DEF SessionTypeOK
<1> QED
  BY <1>1, <1>2, <1>3 DEF Claims

LEMMA SessionInitial == SessionInit => SessionInv
<1> SUFFICES ASSUME SessionInit PROVE SessionInv
  OBVIOUS
<1>1. tokens \in Seq(Claims) /\ Len(tokens) <= MaxToken
  BY SessionAssumption DEF SessionInit
<1>2. users \in [Email -> {"none", "admin", "other"}]
  BY DEF SessionInit
<1>3. SessionTypeOK
  BY <1>1, <1>2 DEF SessionInit, SessionTypeOK
<1> QED
  BY <1>3
  DEF SessionInit, SessionInv, UsersHaveAdmin, AdminExists, NoUsers, MeIsStored,
      ShownUserIsTokens

(* A start finds an admin or makes one, whatever statement of it failed.   *)
LEMMA BootSession ==
    ASSUME SessionInv, NEW email \in AdminEmail, NEW s \in Secret, Boot(email, s)
    PROVE  SessionInv'
<1> USE DEF SessionInv
<1>1. email \in Email /\ UNCHANGED <<tokens, browser>>
  BY SessionAssumption DEF Boot
<1>2. SessionTypeOK'
  BY <1>1 DEF Boot, BootstrapAdmin, SessionTypeOK, browser
<1>3. Admin'
  <2>1. CASE UNCHANGED users /\ ~NoUsers
    BY <2>1 DEF UsersHaveAdmin, Admin
  <2>2. CASE users' = [users EXCEPT ![email] = "admin"]
    BY <1>1, <2>2 DEF SessionTypeOK, Admin
  <2> QED
    BY <2>1, <2>2 DEF Boot, BootstrapAdmin
<1> QED
  BY <1>1, <1>2, <1>3
  DEF UsersHaveAdmin, AdminExists, Admin, MeIsStored, ShownUserIsTokens, browser

LEMMA ExpireSession ==
    ASSUME SessionInv, NEW t, Expire(t)
    PROVE  SessionInv'
<1> USE DEF SessionInv
<1>1. /\ t \in DOMAIN tokens /\ tokens' = [tokens EXCEPT ![t].expired = TRUE]
      /\ UNCHANGED <<up, secret, users, browser>>
  BY DEF Expire
<1>2. DOMAIN tokens' = DOMAIN tokens /\ Len(tokens') = Len(tokens)
      /\ tokens' \in Seq(Claims)
  <2>1. tokens \in [1..Len(tokens) -> Claims] /\ Len(tokens) \in Nat
    BY DEF SessionTypeOK
  <2>2. [tokens[t] EXCEPT !.expired = TRUE] \in Claims
    BY <1>1, <2>1 DEF Claims
  <2>3. tokens' \in [1..Len(tokens) -> Claims]
    BY <1>1, <2>1, <2>2
  <2> QED
    BY <2>1, <2>3
<1>3. \A u \in DOMAIN tokens : tokens'[u].user = tokens[u].user
  BY <1>1, TokenFacts DEF Claims
<1>4. SessionTypeOK'
  BY <1>1, <1>2 DEF SessionTypeOK, browser
<1>5. ShownUserIsTokens'
  BY <1>1, <1>3 DEF ShownUserIsTokens, SessionTypeOK, browser
<1> QED
  BY <1>1, <1>4, <1>5
  DEF UsersHaveAdmin, NoUsers, AdminExists, Admin, MeIsStored, browser

LEMMA ServerSession == SessionInv /\ ServerStep => SessionInv'
<1> SUFFICES ASSUME SessionInv, ServerStep PROVE SessionInv'
  OBVIOUS
<1>1. CASE \E email \in AdminEmail, s \in Secret : Boot(email, s)
  BY <1>1, BootSession
<1>2. CASE Crash
  BY <1>2
  DEF Crash, SessionInv, SessionTypeOK, UsersHaveAdmin, NoUsers, AdminExists, Admin,
      MeIsStored, ShownUserIsTokens, browser
<1>3. CASE \E t \in Token : Expire(t)
  BY <1>3, ExpireSession
<1>4. ASSUME NEW t \in Token, NEW e \in Email, NEW role \in {"admin", "other"},
             CreateUser(t, e, role)
      PROVE  SessionInv'
  <2>1. /\ up /\ users[e] = "none" /\ users' = [users EXCEPT ![e] = role]
        /\ UNCHANGED <<up, secret, tokens, browser>>
    BY <1>4 DEF CreateUser, Allowed
  <2>2. PICK a \in Email : users[a] = "admin"
    BY <2>1 DEF SessionInv, AdminExists
  <2>3. users'[a] = "admin"
    BY <2>1, <2>2 DEF SessionInv, SessionTypeOK
  <2>4. SessionTypeOK'
    BY <2>1 DEF SessionInv, SessionTypeOK, browser
  <2> QED
    BY <2>1, <2>3, <2>4
    DEF SessionInv, UsersHaveAdmin, AdminExists, Admin, MeIsStored,
        ShownUserIsTokens, browser
<1> QED
  BY <1>1, <1>2, <1>3, <1>4 DEF ServerStep

LEMMA LoginSession == SessionInv /\ LoginSucceeds => SessionInv'
<1> SUFFICES ASSUME SessionInv, LoginSucceeds PROVE SessionInv'
  OBVIOUS
<1> USE DEF SessionInv
<1> DEFINE claims == [user |-> login, role |-> users[login],
                      secret |-> secret, expired |-> FALSE]
<1>1. /\ login \in Email /\ Len(tokens) < MaxToken
      /\ tokens' = Append(tokens, claims) /\ stored' = Len(tokens')
      /\ user' = login /\ path' = "/" /\ login' = Nobody
      /\ crossed' = (crossed \/ me # NoToken \/ path # "/login")
      /\ UNCHANGED <<up, secret, users, loading, leaving, me>>
  BY DEF LoginSucceeds, IssueToken, SessionTypeOK
<1>2. claims \in Claims /\ claims.user = login
  BY <1>1 DEF LoginSucceeds, SessionTypeOK, Claims
<1> HIDE DEF claims
<1>3. /\ tokens' \in Seq(Claims) /\ Len(tokens') = Len(tokens) + 1
      /\ Len(tokens') \in Nat /\ Len(tokens') <= MaxToken
      /\ tokens'[Len(tokens')] = claims
      /\ DOMAIN tokens \subseteq DOMAIN tokens' /\ Len(tokens') \in DOMAIN tokens'
  BY <1>1, <1>2, SessionAssumption DEF SessionTypeOK
<1>4. SessionTypeOK'
  BY <1>1, <1>3, SessionAssumption DEF SessionTypeOK
<1>5. MeIsStored' /\ ShownUserIsTokens'
  BY <1>1, <1>2, <1>3 DEF MeIsStored, ShownUserIsTokens
<1> QED
  BY <1>1, <1>4, <1>5 DEF UsersHaveAdmin, NoUsers, AdminExists, Admin

(* Any other step of the browser.                                          *)
LEMMA BrowserSession ==
    ASSUME SessionInv,
           \/ PageStep
           \/ \E p \in {"/login", "/"} : LoadPage(p)
           \/ Intercept401 /\ UNCHANGED <<server, user, loading, path, me, login, crossed>>
           \/ UNCHANGED <<server, browser>>
    PROVE  SessionInv'
<1> USE DEF SessionInv
<1>1. CASE MeAnswered
  <2>1. /\ me \in DOMAIN tokens /\ user' = tokens[me].user /\ loading' = FALSE
        /\ me' = NoToken
        /\ UNCHANGED <<server, stored, path, leaving, login, crossed>>
    BY <1>1 DEF MeAnswered, SessionTypeOK
  <2>2. user' \in Email /\ user' # Nobody
    BY <2>1, TokenFacts, SessionAssumption
  <2>3. SessionTypeOK'
    BY <2>1, <2>2 DEF SessionTypeOK, server
  <2>4. stored # NoToken /\ ~crossed => stored = me
    BY <1>1 DEF MeAnswered, MeIsStored
  <2> QED
    BY <2>1, <2>3, <2>4
    DEF UsersHaveAdmin, NoUsers, AdminExists, Admin, MeIsStored,
        ShownUserIsTokens, server
<1>2. CASE MeFails
  BY <1>2
  DEF MeFails, Route, SessionTypeOK, UsersHaveAdmin, NoUsers, AdminExists, Admin,
      MeIsStored, ShownUserIsTokens, server
<1>3. CASE \E e \in Email : SubmitLogin(e)
  BY <1>3
  DEF SubmitLogin, SessionTypeOK, UsersHaveAdmin, NoUsers, AdminExists, Admin,
      MeIsStored, ShownUserIsTokens, server
<1>4. CASE LoginSucceeds
  BY <1>4, LoginSession
<1>5. CASE LoginRefused
  BY <1>5
  DEF LoginRefused, Intercept401, SessionTypeOK, UsersHaveAdmin, NoUsers,
      AdminExists, Admin, MeIsStored, ShownUserIsTokens, server
<1>6. CASE LoginFails
  BY <1>6
  DEF LoginFails, SessionTypeOK, UsersHaveAdmin, NoUsers, AdminExists, Admin,
      MeIsStored, ShownUserIsTokens, server
<1>7. CASE Logout
  BY <1>7
  DEF Logout, Route, SessionTypeOK, UsersHaveAdmin, NoUsers, AdminExists, Admin,
      MeIsStored, ShownUserIsTokens, server
<1>8. CASE \E p \in {"/login", "/"} : Visit(p)
  BY <1>8
  DEF Visit, Route, SessionTypeOK, UsersHaveAdmin, NoUsers, AdminExists, Admin,
      MeIsStored, ShownUserIsTokens, server
<1>9. CASE \E p \in {"/login", "/"} : LoadPage(p)
  <2>1. /\ user' = Nobody /\ login' = Nobody /\ me' = stored
        /\ loading' = (stored # NoToken) /\ leaving' = FALSE /\ crossed' = FALSE
        /\ UNCHANGED <<up, secret, users, tokens, stored>>
    BY <1>9 DEF LoadPage, server
  <2>2. path' \in {"/login", "/"} /\ (path' = "/" => loading')
    BY <1>9 DEF LoadPage, Route
  <2>3. SessionTypeOK'
    BY <2>1, <2>2 DEF SessionTypeOK
  <2> QED
    BY <2>1, <2>3
    DEF UsersHaveAdmin, NoUsers, AdminExists, Admin, MeIsStored, ShownUserIsTokens
<1>10. CASE Intercept401 /\ UNCHANGED <<server, user, loading, path, me, login, crossed>>
  BY <1>10
  DEF Intercept401, SessionTypeOK, UsersHaveAdmin, NoUsers, AdminExists, Admin,
      MeIsStored, ShownUserIsTokens, server
<1>11. CASE UNCHANGED <<server, browser>>
  BY <1>11
  DEF SessionTypeOK, UsersHaveAdmin, NoUsers, AdminExists, Admin,
      MeIsStored, ShownUserIsTokens, server, browser
<1> QED
  BY <1>1, <1>2, <1>3, <1>4, <1>5, <1>6, <1>7, <1>8, <1>9, <1>10, <1>11 DEF PageStep

(* Every step of the dashboard is one of these, or leaves the session.     *)
LEMMA StepSession == SessionInv /\ [Next]_vars => SessionInv'
<1> SUFFICES ASSUME SessionInv, [Next]_vars PROVE SessionInv'
  OBVIOUS
<1>1. CASE ServerStep
  BY <1>1, ServerSession
<1>2. CASE PageStep
  BY <1>2, BrowserSession
<1>3. CASE \E p \in {"/login", "/"} : Load(p)
  BY <1>3, BrowserSession DEF Load
<1>4. CASE \E i \in 1..MaxAsked : RequestUnauthorized(i)
  BY <1>4, BrowserSession DEF RequestUnauthorized, Unauthorized, server
<1>5. CASE UNCHANGED <<server, browser>>
  BY <1>5, BrowserSession
<1> QED
  BY <1>1, <1>2, <1>3, <1>4, <1>5
  DEF Next, vars, SetPreset, Select, TreeAnswered, ChartAnswered, RequestDropped

LEMMA SessionInvariance == Spec => []SessionInv
<1>1. Init => SessionInv
  BY SessionInitial DEF Init
<1> QED
  BY <1>1, StepSession, PTL DEF Spec

(* Whenever the server runs there is a user who can log in as an admin.    *)
THEOREM ThereIsAnAdmin == Spec => []AdminExists
<1>1. SessionInv => AdminExists
  BY DEF SessionInv
<1> QED
  BY <1>1, SessionInvariance, PTL

(* The user on the screen is the one in whose name requests are sent,      *)
(* however the answers of /api/me and of a login come.                     *)
THEOREM ShownUserActs == Spec => []ShownUserIsTokens
<1>1. SessionInv => ShownUserIsTokens
  BY DEF SessionInv
<1> QED
  BY <1>1, SessionInvariance, PTL
-------------------------------------------------------------------------------
(* Requests in flight *)

Request == TreeRequest \cup ChartRequest \cup GoneRequest

(* Where the j-th of the requests was before the i-th was answered.        *)
Former(i, j) == IF j < i THEN j ELSE j + 1

LEMMA SeqFacts ==
    ASSUME NEW S, NEW s \in Seq(S)
    PROVE  /\ Len(s) \in Nat /\ DOMAIN s = 1..Len(s)
           /\ \A i \in 1..Len(s) : s[i] \in S
OBVIOUS

LEMMA AppendFacts ==
    ASSUME NEW S, NEW s \in Seq(S), NEW e \in S
    PROVE  /\ Append(s, e) \in Seq(S) /\ Len(Append(s, e)) = Len(s) + 1
           /\ DOMAIN Append(s, e) = 1..(Len(s) + 1)
           /\ Append(s, e)[Len(s) + 1] = e
           /\ \A i \in 1..Len(s) : Append(s, e)[i] = s[i]
OBVIOUS

LEMMA RemoveAtFacts ==
    ASSUME NEW S, NEW s \in Seq(S), NEW i \in 1..Len(s)
    PROVE  /\ RemoveAt(s, i) \in Seq(S)
           /\ Len(RemoveAt(s, i)) = Len(s) - 1
           /\ DOMAIN RemoveAt(s, i) = 1..(Len(s) - 1)
           /\ \A j \in 1..(Len(s) - 1) :
                /\ RemoveAt(s, i)[j] = s[Former(i, j)]
                /\ Former(i, j) \in 1..Len(s) /\ Former(i, j) # i
<1>1. Len(s) \in Nat /\ i \in Nat /\ 1 <= i /\ i <= Len(s)
  OBVIOUS
<1> DEFINE front == SubSeq(s, 1, i - 1)
           back  == SubSeq(s, i + 1, Len(s))
<1>2. front \in Seq(S) /\ Len(front) = i - 1
      /\ \A j \in 1..(i - 1) : front[j] = s[j]
  BY <1>1
<1>3. back \in Seq(S) /\ Len(back) = Len(s) - i
      /\ \A j \in 1..(Len(s) - i) : back[j] = s[i + j]
  BY <1>1
<1> HIDE DEF front, back
<1>4. RemoveAt(s, i) = front \o back
  BY DEF RemoveAt, front, back
<1>5. RemoveAt(s, i) \in Seq(S) /\ Len(RemoveAt(s, i)) = Len(s) - 1
  BY <1>1, <1>2, <1>3, <1>4
<1>6. ASSUME NEW j \in 1..(Len(s) - 1)
      PROVE  /\ RemoveAt(s, i)[j] = s[Former(i, j)]
             /\ Former(i, j) \in 1..Len(s) /\ Former(i, j) # i
  <2>1. CASE j < i
    BY <1>1, <1>2, <1>3, <1>4, <2>1 DEF Former
  <2>2. CASE ~(j < i)
    <3>1. RemoveAt(s, i)[j] = back[j - (i - 1)]
      BY <1>1, <1>2, <1>3, <1>4, <2>2
    <3>2. j - (i - 1) \in 1..(Len(s) - i)
      BY <1>1, <2>2
    <3>3. back[j - (i - 1)] = s[i + (j - (i - 1))]
      BY <1>3, <3>2
    <3>4. i + (j - (i - 1)) = j + 1
      BY <1>1
    <3> QED
      BY <1>1, <2>2, <3>1, <3>3, <3>4 DEF Former
  <2> QED
    BY <2>1, <2>2
<1> QED
  BY <1>1, <1>5, <1>6

(* What is said of the requests in flight, of any sequence of them.        *)
AllGone(as) == \A i \in DOMAIN as : as[i].kind = "gone"
SentWith(as, t) == \A i \in DOMAIN as : as[i].kind # "gone" => as[i].token = t

(* They were all sent when no node was selected.                           *)
Unchosen(as) ==
    \A i \in DOMAIN as : \/ as[i].kind = "gone"
                         \/ as[i].kind = "tree" /\ ~as[i].had

LastChart(as, i) == /\ i \in DOMAIN as /\ as[i].kind = "chart"
                    /\ \A j \in DOMAIN as : as[j].kind = "chart" => j <= i
LastChartIs(as, n, p) ==
    \A i \in DOMAIN as : LastChart(as, i) => as[i].node = n /\ as[i].preset = p

(* A tree that was asked for before a node was selected.                   *)
Early(as, i) == i \in DOMAIN as /\ as[i].kind = "tree" /\ ~as[i].had
NoEarly(as)  == \A i \in DOMAIN as : ~Early(as, i)
OneEarly(as) == \A i, j \in DOMAIN as : Early(as, i) /\ Early(as, j) => i = j

LEMMA RemoveKeeps ==
    ASSUME NEW as \in Seq(Request), NEW i \in DOMAIN as
    PROVE  /\ RemoveAt(as, i) \in Seq(Request) /\ Len(RemoveAt(as, i)) = Len(as) - 1
           /\ AllGone(as) => AllGone(RemoveAt(as, i))
           /\ Unchosen(as) => Unchosen(RemoveAt(as, i))
           /\ \A t : SentWith(as, t) => SentWith(RemoveAt(as, i), t)
           /\ \A n, p : LastChartIs(as, n, p) /\ ~LastChart(as, i)
                          => LastChartIs(RemoveAt(as, i), n, p)
           /\ NoEarly(as) => NoEarly(RemoveAt(as, i))
           /\ OneEarly(as) => OneEarly(RemoveAt(as, i))
           /\ OneEarly(as) /\ Early(as, i) => NoEarly(RemoveAt(as, i))
<1> DEFINE rest == RemoveAt(as, i)
           length == Len(as)
<1>1. length \in Nat /\ DOMAIN as = 1..length /\ i \in 1..length
  BY SeqFacts
<1>2. /\ rest \in Seq(Request) /\ Len(rest) = length - 1 /\ DOMAIN rest = 1..(length - 1)
      /\ \A j \in 1..(length - 1) :
           rest[j] = as[Former(i, j)] /\ Former(i, j) \in 1..length /\ Former(i, j) # i
  BY <1>1, RemoveAtFacts
<1> HIDE DEF rest, length
<1>3. AllGone(as) => AllGone(rest)
  BY <1>1, <1>2 DEF AllGone
<1>4. Unchosen(as) => Unchosen(rest)
  BY <1>1, <1>2 DEF Unchosen
<1>5. ASSUME NEW t, SentWith(as, t) PROVE SentWith(rest, t)
  BY <1>1, <1>2, <1>5 DEF SentWith
<1>6. ASSUME NEW n, NEW p, LastChartIs(as, n, p), ~LastChart(as, i)
      PROVE  LastChartIs(rest, n, p)
  <2> SUFFICES ASSUME NEW j \in DOMAIN rest, LastChart(rest, j)
               PROVE  rest[j].node = n /\ rest[j].preset = p
    BY DEF LastChartIs
  <2>1. /\ j \in 1..(length - 1) /\ Former(i, j) \in 1..length
        /\ as[Former(i, j)].kind = "chart" /\ rest[j] = as[Former(i, j)]
    BY <1>2 DEF LastChart
  <2>2. ASSUME NEW m \in DOMAIN as, as[m].kind = "chart", m # i
        PROVE  m <= Former(i, j)
    <3> DEFINE now == IF m < i THEN m ELSE m - 1
    <3>1. now \in 1..(length - 1) /\ Former(i, now) = m
      BY <1>1, <2>2 DEF Former
    <3>2. now <= j
      BY <1>2, <2>2, <3>1 DEF LastChart
    <3> QED
      BY <1>1, <2>1, <2>2, <3>2 DEF Former
  <2>3. i <= Former(i, j) \/ as[i].kind # "chart"
    <3> SUFFICES ASSUME as[i].kind = "chart", ~(i <= Former(i, j)) PROVE FALSE
      OBVIOUS
    <3>1. ASSUME NEW m \in DOMAIN as, as[m].kind = "chart" PROVE m <= i
      <4>1. m # i => m <= Former(i, j)
        BY <2>2, <3>1
      <4> QED
        BY <1>1, <2>1, <4>1
    <3> QED
      BY <1>1, <1>6, <3>1 DEF LastChart
  <2>4. LastChart(as, Former(i, j))
    BY <1>1, <2>1, <2>2, <2>3 DEF LastChart
  <2> QED
    BY <1>1, <1>6, <2>1, <2>4 DEF LastChartIs
<1>7. NoEarly(as) => NoEarly(rest)
  BY <1>1, <1>2 DEF NoEarly, Early
<1>8. \A j, m \in DOMAIN rest : Former(i, j) = Former(i, m) => j = m
  BY <1>1, <1>2 DEF Former
<1>9. OneEarly(as) => OneEarly(rest)
  BY <1>1, <1>2, <1>8 DEF OneEarly, Early
<1>10. OneEarly(as) /\ Early(as, i) => NoEarly(rest)
  BY <1>1, <1>2 DEF OneEarly, NoEarly, Early
<1> QED
  BY <1>2, <1>3, <1>4, <1>5, <1>6, <1>7, <1>9, <1>10 DEF rest, length

LEMMA AppendKeeps ==
    ASSUME NEW as \in Seq(Request), NEW request \in Request
    PROVE  /\ Append(as, request) \in Seq(Request)
           /\ Len(Append(as, request)) = Len(as) + 1
           /\ Unchosen(as) /\ request.kind = "tree" /\ ~request.had
                         => Unchosen(Append(as, request))
           /\ \A t : SentWith(as, t) /\ request.token = t
                       => SentWith(Append(as, request), t)
           /\ \A n, p : LastChartIs(as, n, p) /\ request.kind # "chart"
                         => LastChartIs(Append(as, request), n, p)
           /\ \A n, p : request.kind = "chart" /\ request.node = n /\ request.preset = p
                         => LastChartIs(Append(as, request), n, p)
           /\ NoEarly(as) /\ (request.kind = "tree" => request.had)
                         => NoEarly(Append(as, request))
           /\ NoEarly(as) => OneEarly(Append(as, request))
           /\ OneEarly(as) /\ (request.kind = "tree" => request.had)
                         => OneEarly(Append(as, request))
<1> DEFINE more == Append(as, request)
           length == Len(as)
<1>1. length \in Nat /\ DOMAIN as = 1..length
  BY SeqFacts
<1>2. /\ more \in Seq(Request) /\ Len(more) = length + 1 /\ DOMAIN more = 1..(length + 1)
      /\ more[length + 1] = request
      /\ \A j \in 1..length : more[j] = as[j]
  <2>1. more \in Seq(Request) /\ Len(more) = length + 1
    BY AppendFacts
  <2>2. DOMAIN more = 1..(length + 1)
    BY AppendFacts
  <2>3. more[length + 1] = request
    BY AppendFacts
  <2>4. \A j \in 1..length : more[j] = as[j]
    BY AppendFacts
  <2> QED
    BY <2>1, <2>2, <2>3, <2>4
<1> HIDE DEF more, length
<1>3. \A j \in DOMAIN more : j \in DOMAIN as \/ j = length + 1
  BY <1>1, <1>2
<1>4. \A j \in DOMAIN as : j \in DOMAIN more /\ more[j] = as[j] /\ j # length + 1
  <2> SUFFICES ASSUME NEW j \in 1..length
               PROVE  j \in 1..(length + 1) /\ j # length + 1
    BY <1>1, <1>2
  <2> QED
    BY <1>1
<1>5. Unchosen(as) /\ request.kind = "tree" /\ ~request.had => Unchosen(more)
  BY <1>2, <1>3, <1>4 DEF Unchosen
<1>6. ASSUME NEW t, SentWith(as, t), request.token = t PROVE SentWith(more, t)
  BY <1>2, <1>3, <1>4, <1>6 DEF SentWith
<1>7. ASSUME NEW n, NEW p, LastChartIs(as, n, p), request.kind # "chart"
      PROVE  LastChartIs(more, n, p)
  <2>1. ASSUME NEW j \in DOMAIN more, LastChart(more, j)
        PROVE  j \in DOMAIN as /\ more[j] = as[j] /\ LastChart(as, j)
    BY <1>2, <1>3, <1>4, <1>7, <2>1 DEF LastChart
  <2> QED
    BY <1>7, <2>1 DEF LastChartIs
<1>8. ASSUME NEW n, NEW p, request.kind = "chart", request.node = n, request.preset = p
      PROVE  LastChartIs(more, n, p)
  <2>1. ASSUME NEW j \in DOMAIN more, LastChart(more, j)
        PROVE  j = length + 1
    BY <1>1, <1>2, <1>8, <2>1 DEF LastChart
  <2> QED
    BY <1>2, <1>8, <2>1 DEF LastChartIs
<1>9. NoEarly(as) /\ (request.kind = "tree" => request.had) => NoEarly(more)
  BY <1>2, <1>3, <1>4 DEF NoEarly, Early
<1>10. NoEarly(as) => OneEarly(more)
  BY <1>2, <1>3, <1>4 DEF NoEarly, OneEarly, Early
<1>11. OneEarly(as) /\ (request.kind = "tree" => request.had) => OneEarly(more)
  BY <1>2, <1>3, <1>4 DEF OneEarly, Early
<1> QED
  BY <1>2, <1>5, <1>6, <1>7, <1>8, <1>9, <1>10, <1>11 DEF more, length

LEMMA SendFacts ==
    ASSUME NEW S, NEW s \in Seq(S), NEW x \in S, NEW y \in S
    PROVE  /\ s \o <<>> = s
           /\ s \o <<x>> = Append(s, x)
           /\ s \o <<x, y>> = Append(Append(s, x), y)
OBVIOUS

-------------------------------------------------------------------------------
(* The dashboard *)

(* Only a dashboard on the screen has requests.                            *)
OwnRequests == ~Inside => AllGone(asked)

(* Before there is a selection there is no tree and no chart, and no chart *)
(* is asked for.                                                           *)
Unselected ==
    selected = None => newest = "none" /\ ~listed /\ Unchosen(asked)

(* The last request for the chart is about what is selected and set.       *)
LastFits == newest = "asked" => LastChartIs(asked, selected, preset)

SentByOwner == stored # NoToken /\ ~crossed => SentWith(asked, stored)

(* Only one tree can still select a node, and none after it has.           *)
EarlyTrees ==
    ~hasty => OneEarly(asked) /\ (selected # None => NoEarly(asked))

PageInv == /\ OwnRequests /\ Unselected
           /\ LastFits /\ SettledChartFits
           /\ SentByOwner /\ ChartOfOwner
           /\ EarlyTrees

DashInv == SessionInv /\ TypeOK /\ PageInv

LEMMA AskedType == TypeOK => asked \in Seq(Request) /\ Len(asked) <= MaxAsked
BY DEF TypeOK, Request

LEMMA TypeOfAsked ==
    ASSUME TypeOK, SessionInv', asked' \in Seq(Request), Len(asked') <= MaxAsked,
           preset' \in Preset, listed' \in BOOLEAN, hasty' \in BOOLEAN,
           selected' \in Node \cup {None},
           chart' \in [node: Node, preset: Preset, token: Token] \cup {None},
           newest' \in {"none", "asked", "shown", "failed", "overwritten"},
           ~Inside' => selected' = None /\ chart' = None
    PROVE  TypeOK'
BY DEF TypeOK, Request, SessionInv

LEMMA RequestTypes ==
    ASSUME SessionInv'
    PROVE  /\ \A had \in BOOLEAN : Tree(had) \in Request
           /\ \A n \in Node, p \in Preset : Chart(n, p) \in Request
           /\ stored' \in {NoToken} \cup Token
<1>1. stored' \in {NoToken} \cup Token
  <2>1. stored' \in {NoToken} \cup DOMAIN tokens' /\ tokens' \in Seq(Claims)
        /\ Len(tokens') <= MaxToken
    BY DEF SessionInv, SessionTypeOK
  <2> DEFINE last == Len(tokens')
  <2>2. last \in Nat /\ DOMAIN tokens' = 1..last
    BY <2>1
  <2> HIDE DEF last
  <2>3. 1..last \subseteq 1..MaxToken
    BY <2>1, <2>2, SessionAssumption DEF last
  <2> QED
    BY <2>1, <2>2, <2>3 DEF Token
<1> QED
  BY <1>1 DEF Request, TreeRequest, ChartRequest, Tree, Chart

(* What a step of the page can do to the token.                            *)
LEMMA PageStored ==
    ASSUME PageStep
    PROVE  /\ stored' \in {stored, NoToken} \/ ~Inside \/ crossed'
           /\ crossed => crossed'
<1>1. CASE LoginSucceeds
  BY <1>1 DEF LoginSucceeds, Inside
<1>2. CASE MeAnswered
  BY <1>2 DEF MeAnswered
<1>3. CASE MeFails
  BY <1>3 DEF MeFails
<1>4. CASE \E e \in Email : SubmitLogin(e)
  BY <1>4 DEF SubmitLogin
<1>5. CASE LoginRefused
  BY <1>5 DEF LoginRefused, Intercept401
<1>6. CASE LoginFails
  BY <1>6 DEF LoginFails
<1>7. CASE Logout
  BY <1>7 DEF Logout
<1>8. CASE \E p \in {"/login", "/"} : Visit(p)
  BY <1>8 DEF Visit
<1> QED
  BY <1>1, <1>2, <1>3, <1>4, <1>5, <1>6, <1>7, <1>8 DEF PageStep

(* A dashboard that has no state, and no requests but those of others.     *)
LEMMA FreshPage ==
    ASSUME TypeOK, SessionInv', Reset, asked' \in Seq(Request),
           Len(asked') <= MaxAsked, Unchosen(asked'), OneEarly(asked'),
           ~Inside' => AllGone(asked'), SentWith(asked', stored')
    PROVE  TypeOK' /\ PageInv'
<1>1. TypeOK'
  BY TypeOfAsked, DashboardAssumption DEF Reset
<1>2. PageInv'
  BY DEF Reset, PageInv, OwnRequests, Unselected, LastFits, SettledChartFits,
     SentByOwner, ChartOfOwner, EarlyTrees
<1> QED
  BY <1>1, <1>2

LEMMA GoneFacts ==
    ASSUME NEW as, AllGone(as)
    PROVE  /\ Unchosen(as) /\ NoEarly(as) /\ OneEarly(as)
           /\ \A t : SentWith(as, t)
BY DEF AllGone, Unchosen, NoEarly, OneEarly, Early, SentWith

LEMMA RerenderPage ==
    ASSUME DashInv, SessionInv', PageStep, Rerender
    PROVE  TypeOK' /\ PageInv'
<1>1. CASE Mount
  <2> DEFINE request == Tree(FALSE)
  <2>1. /\ AllGone(asked) /\ asked \in Seq(Request) /\ Inside'
        /\ Reset /\ asked' = asked \o <<request>> /\ Len(asked') <= MaxAsked
    BY <1>1, AskedType DEF Mount, Send, DashInv, PageInv, OwnRequests
  <2>2. /\ request \in Request /\ request.kind = "tree" /\ request.token = stored'
        /\ ~request.had
    BY RequestTypes DEF Tree
  <2> HIDE DEF request
  <2>3. asked' = Append(asked, request)
    BY <2>1, <2>2, SendFacts
  <2>4. /\ asked' \in Seq(Request) /\ Unchosen(asked') /\ OneEarly(asked')
        /\ SentWith(asked', stored')
    BY <2>1, <2>2, <2>3, AppendKeeps, GoneFacts
  <2> QED
    BY <2>1, <2>4, FreshPage DEF DashInv
<1>2. CASE Unmount
  <2>1. asked \in Seq(Request) /\ Len(asked) <= MaxAsked /\ Reset
        /\ asked' = [i \in DOMAIN asked |-> Gone(asked[i])]
    BY <1>2, AskedType DEF Unmount, DashInv
  <2>2. Len(asked) \in Nat /\ DOMAIN asked = 1..Len(asked)
        /\ \A i \in 1..Len(asked) : asked[i] \in Request
    BY <2>1, SeqFacts
  <2>3. \A i \in DOMAIN asked : Gone(asked[i]) \in Request
    BY <2>2 DEF Gone, Request, TreeRequest, ChartRequest, GoneRequest
  <2>4. asked' \in [1..Len(asked) -> Request]
    BY <2>1, <2>2, <2>3
  <2>5. asked' \in Seq(Request) /\ Len(asked') = Len(asked)
    BY <2>2, <2>4
  <2>6. AllGone(asked')
    BY <2>1 DEF AllGone, Gone
  <2> QED
    BY <2>1, <2>5, <2>6, FreshPage, GoneFacts DEF DashInv
<1>3. CASE Inside' = Inside /\ UNCHANGED <<page, asked>>
  <2>1. TypeOK'
    BY <1>3 DEF DashInv, TypeOK, SessionInv, page
  <2>2. SentByOwner' /\ ChartOfOwner'
    BY <1>3, PageStored, GoneFacts
    DEF DashInv, TypeOK, PageInv, OwnRequests, SentByOwner, ChartOfOwner, page
  <2> QED
    BY <1>3, <2>1, <2>2
    DEF DashInv, PageInv, OwnRequests, Unselected, LastFits, SettledChartFits,
        EarlyTrees, page
<1> QED
  BY <1>1, <1>2, <1>3 DEF Rerender

LEMMA LoadDashboard ==
    ASSUME DashInv, SessionInv', NEW p, Load(p)
    PROVE  TypeOK' /\ PageInv'
<1>1. asked' = <<>> /\ Reset
  BY DEF Load
<1>2. asked' \in Seq(Request) /\ Len(asked') <= MaxAsked
  BY <1>1, DashboardAssumption
<1>3. AllGone(asked')
  BY <1>1 DEF AllGone
<1> QED
  BY <1>1, <1>2, <1>3, FreshPage, GoneFacts DEF DashInv

(* Steps that send requests and answer none.                               *)
LEMMA SelectPage ==
    ASSUME DashInv, SessionInv', NEW n \in Node, Select(n)
    PROVE  TypeOK' /\ PageInv'
<1> DEFINE request == Chart(n, preset)
<1>1. /\ selected' = n /\ newest' = "asked" /\ Inside
      /\ UNCHANGED <<server, browser, preset, listed, chart, hasty>>
      /\ asked' = asked \o <<request>> /\ Len(asked') <= MaxAsked
  BY DEF Select, Send
<1>2. UNCHANGED Inside /\ UNCHANGED <<stored, crossed>>
  BY <1>1 DEF Inside, browser
<1>3. asked \in Seq(Request)
  BY AskedType DEF DashInv
<1>4. /\ request \in Request /\ request.kind = "chart" /\ request.token = stored
      /\ request.node = n /\ request.preset = preset
  BY <1>2, RequestTypes DEF Chart, DashInv, TypeOK
<1> HIDE DEF request
<1>5. asked' = Append(asked, request)
  BY <1>1, <1>3, <1>4, SendFacts
<1>6. /\ asked' \in Seq(Request)
      /\ SentWith(asked, stored) => SentWith(asked', stored)
      /\ LastChartIs(asked', n, preset)
      /\ NoEarly(asked) => NoEarly(asked')
      /\ OneEarly(asked) => OneEarly(asked')
  BY <1>3, <1>4, <1>5, AppendKeeps
<1>7. TypeOK'
  BY <1>1, <1>2, <1>6, TypeOfAsked DEF DashInv, TypeOK
<1>8. EarlyTrees'
  <2>1. selected # None
    BY DEF Select, DashInv, PageInv, Unselected
  <2> QED
    BY <1>1, <1>6, <2>1 DEF DashInv, PageInv, EarlyTrees
<1> QED
  BY <1>1, <1>2, <1>6, <1>7, <1>8, DashboardAssumption
  DEF DashInv, PageInv, OwnRequests, Unselected, LastFits, SettledChartFits,
      SentByOwner, ChartOfOwner

LEMMA SetPresetPage ==
    ASSUME DashInv, SessionInv', NEW p \in Preset, SetPreset(p)
    PROVE  TypeOK' /\ PageInv'
<1>1. /\ preset' = p /\ Inside
      /\ hasty' = (hasty \/ \E i \in DOMAIN asked : Is(i, "tree") /\ ~asked[i].had)
      /\ UNCHANGED <<server, browser, listed, selected, chart>>
  BY DEF SetPreset
<1>2. UNCHANGED Inside /\ UNCHANGED <<stored, crossed>>
  BY <1>1 DEF Inside, browser
<1>3. asked \in Seq(Request)
  BY AskedType DEF DashInv
<1>4. ~hasty' => ~hasty /\ NoEarly(asked)
  BY <1>1 DEF NoEarly, Early, Is
<1>5. CASE selected = None
  <2> DEFINE request == Tree(FALSE)
  <2>1. asked' = asked \o <<request>> /\ Len(asked') <= MaxAsked /\ newest' = newest
    BY <1>5 DEF SetPreset, Send
  <2>2. /\ request \in Request /\ request.kind = "tree" /\ ~request.had
        /\ request.token = stored
    BY <1>2, RequestTypes DEF Tree
  <2> HIDE DEF request
  <2>3. asked' = Append(asked, request)
    BY <1>3, <2>1, <2>2, SendFacts
  <2>4. /\ asked' \in Seq(Request)
        /\ Unchosen(asked) => Unchosen(asked')
        /\ SentWith(asked, stored) => SentWith(asked', stored)
        /\ NoEarly(asked) => OneEarly(asked')
    BY <1>3, <2>2, <2>3, AppendKeeps
  <2>5. TypeOK'
    BY <1>1, <1>2, <2>1, <2>4, TypeOfAsked DEF DashInv, TypeOK
  <2>6. newest' = "none" /\ ~listed /\ Unchosen(asked')
    BY <1>5, <2>1, <2>4 DEF DashInv, PageInv, Unselected
  <2> QED
    BY <1>1, <1>2, <1>4, <1>5, <2>4, <2>5, <2>6
    DEF DashInv, PageInv, OwnRequests, Unselected, LastFits, SettledChartFits,
        SentByOwner, ChartOfOwner, EarlyTrees
<1>6. CASE selected # None
  <2> DEFINE request == Tree(TRUE)
             another == Chart(selected, p)
  <2>1. /\ asked' = asked \o <<request, another>> /\ Len(asked') <= MaxAsked
        /\ newest' = "asked"
    BY <1>6 DEF SetPreset, Send
  <2>2. /\ request \in Request /\ request.kind = "tree" /\ request.had
        /\ request.token = stored
    BY <1>2, RequestTypes DEF Tree
  <2>3. /\ another \in Request /\ another.kind = "chart" /\ another.token = stored
        /\ another.node = selected /\ another.preset = p
    BY <1>2, <1>6, RequestTypes DEF Chart, DashInv, TypeOK
  <2> HIDE DEF request, another
  <2> DEFINE first == Append(asked, request)
  <2>4. asked' = Append(first, another)
    BY <1>3, <2>1, <2>2, <2>3, SendFacts
  <2>5. /\ first \in Seq(Request)
        /\ SentWith(asked, stored) => SentWith(first, stored)
        /\ NoEarly(asked) => NoEarly(first)
    BY <1>3, <2>2, AppendKeeps
  <2> HIDE DEF first
  <2>6. /\ asked' \in Seq(Request)
        /\ SentWith(asked, stored) => SentWith(asked', stored)
        /\ LastChartIs(asked', selected, p)
        /\ NoEarly(asked) => NoEarly(asked') /\ OneEarly(asked')
    BY <2>3, <2>4, <2>5, AppendKeeps
  <2>7. TypeOK'
    BY <1>1, <1>2, <2>1, <2>6, TypeOfAsked DEF DashInv, TypeOK
  <2> QED
    BY <1>1, <1>2, <1>4, <1>6, <2>1, <2>6, <2>7
    DEF DashInv, PageInv, OwnRequests, Unselected, LastFits, SettledChartFits,
        SentByOwner, ChartOfOwner, EarlyTrees
<1> QED
  BY <1>5, <1>6

(* A request is answered or dropped.                                       *)
LEMMA AnswerFacts ==
    ASSUME DashInv, NEW i \in DOMAIN asked
    PROVE  /\ asked \in Seq(Request) /\ asked[i] \in Request
           /\ Len(RemoveAt(asked, i)) <= MaxAsked
           /\ asked[i].kind # "gone" => Inside
           /\ asked[i].kind = "chart" =>
                  asked[i].node \in Node /\ asked[i].preset \in Preset
           /\ Allowed(asked[i].token, {"admin", "other"}) => asked[i].token \in Token
           /\ Early(asked, i) => hasty \/ selected = None
<1>1. asked \in Seq(Request) /\ Len(asked) <= MaxAsked /\ SessionTypeOK
  BY AskedType DEF DashInv, TypeOK
<1>2. Len(asked) \in Nat /\ asked[i] \in Request
  BY <1>1, SeqFacts
<1>3. Len(RemoveAt(asked, i)) = Len(asked) - 1
  BY <1>1, RemoveKeeps
<1>4. Len(RemoveAt(asked, i)) <= MaxAsked
  BY <1>1, <1>2, <1>3, DashboardAssumption
<1>5. asked[i].kind # "gone" => Inside
  BY DEF DashInv, PageInv, OwnRequests, AllGone
<1>6. asked[i].kind = "chart" => asked[i].node \in Node /\ asked[i].preset \in Preset
  BY <1>2 DEF Request, TreeRequest, ChartRequest, GoneRequest
<1>7. Allowed(asked[i].token, {"admin", "other"}) => asked[i].token \in Token
  BY <1>1, TokenFacts DEF Allowed, Valid
<1>8. Early(asked, i) => hasty \/ selected = None
  BY DEF DashInv, PageInv, EarlyTrees, NoEarly
<1> QED
  BY <1>1, <1>2, <1>4, <1>5, <1>6, <1>7, <1>8

LEMMA TreePage ==
    ASSUME DashInv, SessionInv', NEW i, TreeAnswered(i)
    PROVE  TypeOK' /\ PageInv'
<1> DEFINE rest == RemoveAt(asked, i)
<1>1. /\ i \in DOMAIN asked /\ asked[i].kind = "tree"
      /\ UNCHANGED <<server, browser, preset, chart, hasty>>
  BY DEF TreeAnswered, Is
<1>2. UNCHANGED Inside /\ UNCHANGED <<stored, crossed>> /\ Inside
  BY <1>1, AnswerFacts DEF Inside, browser
<1>3. ~LastChart(asked, i)
  BY <1>1 DEF LastChart
<1>4. /\ asked \in Seq(Request) /\ rest \in Seq(Request) /\ Len(rest) <= MaxAsked
      /\ Unchosen(asked) => Unchosen(rest)
      /\ SentWith(asked, stored) => SentWith(rest, stored)
      /\ LastChartIs(asked, selected, preset) => LastChartIs(rest, selected, preset)
      /\ NoEarly(asked) => NoEarly(rest)
      /\ OneEarly(asked) => OneEarly(rest)
      /\ OneEarly(asked) /\ Early(asked, i) => NoEarly(rest)
  BY <1>1, <1>3, AnswerFacts, RemoveKeeps
<1> HIDE DEF rest
<1>5. ASSUME NEW org \in Org, ~asked[i].had, selected' = org, newest' = "asked",
             Send(rest, <<Chart(org, preset)>>), listed' \in BOOLEAN
      PROVE  TypeOK' /\ PageInv'
  <2> DEFINE request == Chart(org, preset)
  <2>1. asked' = rest \o <<request>> /\ Len(asked') <= MaxAsked /\ org \in Node
    BY <1>5, DashboardAssumption DEF Send
  <2>2. /\ request \in Request /\ request.kind = "chart" /\ request.token = stored
        /\ request.node = org /\ request.preset = preset
    BY <1>2, <2>1, RequestTypes DEF Chart, DashInv, TypeOK
  <2> HIDE DEF request
  <2>3. asked' = Append(rest, request)
    BY <1>4, <2>1, <2>2, SendFacts
  <2>4. /\ asked' \in Seq(Request)
        /\ SentWith(rest, stored) => SentWith(asked', stored)
        /\ LastChartIs(asked', org, preset)
        /\ NoEarly(rest) => NoEarly(asked') /\ OneEarly(asked')
    BY <1>4, <2>2, <2>3, AppendKeeps
  <2>5. TypeOK'
    BY <1>1, <1>2, <1>5, <2>1, <2>4, TypeOfAsked DEF DashInv, TypeOK
  <2>6. EarlyTrees'
    <3>1. Early(asked, i)
      BY <1>1, <1>5 DEF Early
    <3> QED
      BY <1>1, <1>4, <2>4, <3>1 DEF DashInv, PageInv, EarlyTrees
  <2> QED
    BY <1>1, <1>2, <1>4, <1>5, <2>1, <2>4, <2>5, <2>6, DashboardAssumption
    DEF DashInv, PageInv, OwnRequests, Unselected, LastFits, SettledChartFits,
        SentByOwner, ChartOfOwner
<1>6. ASSUME UNCHANGED <<selected, newest>>, Send(rest, <<>>),
             listed' = FALSE \/ (asked[i].had /\ listed' = TRUE)
      PROVE  TypeOK' /\ PageInv'
  <2>1. asked' = rest
    BY <1>4, <1>6, SeqFacts DEF Send
  <2>2. TypeOK'
    BY <1>1, <1>2, <1>4, <1>6, <2>1, TypeOfAsked DEF DashInv, TypeOK
  <2>3. selected = None => ~listed'
    BY <1>1, <1>6 DEF DashInv, PageInv, Unselected, Unchosen
  <2> QED
    BY <1>1, <1>2, <1>4, <1>6, <2>1, <2>2, <2>3
    DEF DashInv, PageInv, OwnRequests, Unselected, LastFits, SettledChartFits,
        SentByOwner, ChartOfOwner, EarlyTrees
<1>7. \/ \E org \in Org : /\ ~asked[i].had /\ listed' \in BOOLEAN
                           /\ selected' = org /\ newest' = "asked"
                           /\ Send(rest, <<Chart(org, preset)>>)
      \/ /\ UNCHANGED <<selected, newest>> /\ Send(rest, <<>>)
         /\ listed' = FALSE \/ (asked[i].had /\ listed' = TRUE)
  BY DEF TreeAnswered, rest
<1> QED
  BY <1>5, <1>6, <1>7

LEMMA ChartPage ==
    ASSUME DashInv, SessionInv', NEW i, ChartAnswered(i)
    PROVE  TypeOK' /\ PageInv'
<1> DEFINE rest == RemoveAt(asked, i)
<1>1. /\ i \in DOMAIN asked /\ asked[i].kind = "chart"
      /\ chart' = [node |-> asked[i].node, preset |-> asked[i].preset,
                   token |-> asked[i].token]
      /\ newest' = IF newest = "asked"
                   THEN IF IsNewest(i) THEN "shown" ELSE "asked"
                   ELSE "overwritten"
      /\ asked' = rest
      /\ UNCHANGED <<server, browser, preset, listed, selected, hasty>>
      /\ Allowed(asked[i].token, {"admin", "other"})
  BY DEF ChartAnswered, Is, Answered
<1>2. UNCHANGED Inside /\ UNCHANGED <<stored, crossed>> /\ Inside
  BY <1>1, AnswerFacts DEF Inside, browser
<1>3. newest = "asked" => (IsNewest(i) <=> LastChart(asked, i))
  BY <1>1 DEF IsNewest, Is, LastChart
<1>4. /\ asked \in Seq(Request) /\ rest \in Seq(Request) /\ Len(rest) <= MaxAsked
      /\ SentWith(asked, stored) => SentWith(rest, stored)
      /\ LastChartIs(asked, selected, preset) /\ ~LastChart(asked, i)
            => LastChartIs(rest, selected, preset)
      /\ NoEarly(asked) => NoEarly(rest)
      /\ OneEarly(asked) => OneEarly(rest)
  BY <1>1, AnswerFacts, RemoveKeeps
<1> HIDE DEF rest
<1>5. chart' \in [node: Node, preset: Preset, token: Token]
      /\ chart'.node = asked[i].node /\ chart'.preset = asked[i].preset
      /\ chart'.token = asked[i].token
  BY <1>1, AnswerFacts
<1>6. selected # None
  BY <1>1 DEF DashInv, PageInv, Unselected, Unchosen
<1>7. TypeOK'
  BY <1>1, <1>2, <1>4, <1>5, TypeOfAsked DEF DashInv, TypeOK
<1>8. LastFits' /\ SettledChartFits'
  BY <1>1, <1>3, <1>4, <1>5
  DEF DashInv, PageInv, LastFits, SettledChartFits, LastChartIs
<1>9. SentByOwner' /\ ChartOfOwner'
  BY <1>1, <1>2, <1>4, <1>5 DEF DashInv, PageInv, SentByOwner, ChartOfOwner, SentWith
<1> QED
  BY <1>1, <1>2, <1>4, <1>6, <1>7, <1>8, <1>9
  DEF DashInv, PageInv, OwnRequests, Unselected, EarlyTrees

LEMMA DropPage ==
    ASSUME DashInv, SessionInv', NEW i,
           \/ RequestDropped(i)
           \/ RequestUnauthorized(i)
    PROVE  TypeOK' /\ PageInv'
<1> DEFINE rest == RemoveAt(asked, i)
<1>1. /\ i \in DOMAIN asked
      /\ newest' = IF Is(i, "chart") /\ IsNewest(i) THEN "failed" ELSE newest
      /\ asked' = rest
      /\ UNCHANGED <<user, loading, path, crossed, preset, listed, selected, chart, hasty>>
      /\ stored' \in {stored, NoToken}
  BY DEF RequestDropped, RequestUnauthorized, Intercept401, browser
<1>2. UNCHANGED Inside
  BY <1>1 DEF Inside
<1>3. newest' = newest /\ newest = "asked" => ~LastChart(asked, i)
  BY <1>1 DEF IsNewest, Is, LastChart
<1>4. /\ asked \in Seq(Request) /\ rest \in Seq(Request) /\ Len(rest) <= MaxAsked
      /\ AllGone(asked) => AllGone(rest)
      /\ Unchosen(asked) => Unchosen(rest)
      /\ SentWith(asked, stored) => SentWith(rest, stored)
      /\ LastChartIs(asked, selected, preset) /\ ~LastChart(asked, i)
            => LastChartIs(rest, selected, preset)
      /\ NoEarly(asked) => NoEarly(rest)
      /\ OneEarly(asked) => OneEarly(rest)
  BY <1>1, AnswerFacts, RemoveKeeps
<1> HIDE DEF rest
<1>5. TypeOK'
  BY <1>1, <1>2, <1>4, TypeOfAsked DEF DashInv, TypeOK
<1>6. Unselected'
  BY <1>1, <1>4 DEF DashInv, PageInv, Unselected, IsNewest
<1>7. LastFits' /\ SettledChartFits'
  BY <1>1, <1>3, <1>4 DEF DashInv, PageInv, LastFits, SettledChartFits
<1>8. SentByOwner' /\ ChartOfOwner'
  BY <1>1, <1>4 DEF DashInv, PageInv, SentByOwner, ChartOfOwner
<1> QED
  BY <1>1, <1>2, <1>4, <1>5, <1>6, <1>7, <1>8
  DEF DashInv, PageInv, OwnRequests, EarlyTrees

LEMMA StepDashboard == DashInv /\ [Next]_vars => DashInv'
<1> SUFFICES ASSUME DashInv, [Next]_vars PROVE DashInv'
  OBVIOUS
<1>1. SessionInv'
  BY StepSession DEF DashInv
<1>2. TypeOK' /\ PageInv'
  <2>1. CASE UNCHANGED browser /\ UNCHANGED <<page, asked>>
    <3>1. UNCHANGED Inside /\ UNCHANGED <<stored, crossed>>
      BY <2>1 DEF Inside, browser
    <3> QED
      BY <1>1, <2>1, <3>1
      DEF DashInv, SessionInv, TypeOK, PageInv, OwnRequests, Unselected, LastFits,
          SettledChartFits, SentByOwner, ChartOfOwner, EarlyTrees, page
  <2>2. CASE PageStep /\ Rerender
    BY <1>1, <2>2, RerenderPage
  <2>3. CASE \E p \in {"/login", "/"} : Load(p)
    BY <1>1, <2>3, LoadDashboard
  <2>4. CASE \E p \in Preset : SetPreset(p)
    BY <1>1, <2>4, SetPresetPage
  <2>5. CASE \E n \in Node : Select(n)
    BY <1>1, <2>5, SelectPage
  <2>6. CASE \E i \in 1..MaxAsked : TreeAnswered(i) \/ ChartAnswered(i)
                \/ RequestDropped(i) \/ RequestUnauthorized(i)
    BY <1>1, <2>6, TreePage, ChartPage, DropPage
  <2>7. CASE ServerStep /\ UNCHANGED <<page, asked>>
    <3>1. UNCHANGED browser
      BY <2>7 DEF ServerStep, Boot, Crash, Expire, CreateUser
    <3> QED
      BY <2>1, <2>7, <3>1
  <2>8. CASE UNCHANGED vars
    BY <2>1, <2>8 DEF vars
  <2> QED
    BY <2>2, <2>3, <2>4, <2>5, <2>6, <2>7, <2>8 DEF Next
<1> QED
  BY <1>1, <1>2 DEF DashInv

LEMMA DashboardInvariance == Spec => []DashInv
<1>1. Init => DashInv
  <2> SUFFICES ASSUME Init PROVE DashInv
    OBVIOUS
  <2>1. SessionInv
    BY SessionInitial DEF Init
  <2>2. AllGone(asked)
    BY DEF Init, AllGone
  <2>3. TypeOK
    <3>1. asked \in Seq(Request) /\ Len(asked) <= MaxAsked
      BY DashboardAssumption DEF Init
    <3> QED
      BY <2>1, <3>1, DashboardAssumption DEF Init, TypeOK, SessionInv, Request
  <2> QED
    BY <2>1, <2>2, <2>3, GoneFacts
    DEF Init, DashInv, PageInv, OwnRequests, Unselected, LastFits, SettledChartFits,
        SentByOwner, ChartOfOwner, EarlyTrees
<1> QED
  BY <1>1, StepDashboard, PTL DEF Spec

(* A dashboard that is not on the screen has no state, whatever answers    *)
(* come for it.                                                            *)
THEOREM TypeCorrect == Spec => []TypeOK
<1>1. DashInv => TypeOK
  BY DEF DashInv
<1> QED
  BY <1>1, DashboardInvariance, PTL

(* When the last request for the chart has been answered last, the chart   *)
(* is that of the node and range that are set.                             *)
THEOREM SettledCharts == Spec => []SettledChartFits
<1>1. DashInv => SettledChartFits
  BY DEF DashInv, PageInv
<1> QED
  BY <1>1, DashboardInvariance, PTL

(* Nobody is left looking at the costs another user asked for.             *)
THEOREM ChartsStayWithTheirOwner == Spec => []ChartOfOwner
<1>1. DashInv => ChartOfOwner
  BY DEF DashInv, PageInv
<1> QED
  BY <1>1, DashboardInvariance, PTL

(* No tree that comes late takes a selection away.                         *)
THEOREM NobodyElseSelects == Spec => ChoiceStands
<1>1. ASSUME DashInv, [Next]_vars
      PROVE  [selected # None /\ selected' # selected /\ Inside /\ Inside' =>
                 hasty \/ \E n \in Node : Select(n)]_vars
  <2> SUFFICES ASSUME selected # None, selected' # selected, Inside, Inside', ~hasty,
                      ~\E n \in Node : Select(n)
               PROVE  FALSE
    OBVIOUS
  <2>1. CASE PageStep /\ Rerender
    BY <2>1 DEF Rerender, Mount, Unmount, page
  <2>2. CASE \E p \in {"/login", "/"} : Load(p)
    BY <2>2 DEF Load, LoadPage, Inside
  <2>3. ASSUME NEW i \in 1..MaxAsked, TreeAnswered(i) PROVE FALSE
    <3>1. i \in DOMAIN asked /\ asked[i].kind = "tree" /\ ~asked[i].had
      BY <2>3 DEF TreeAnswered, Is
    <3>2. Early(asked, i)
      BY <3>1 DEF Early
    <3> QED
      BY <1>1, <3>1, <3>2, AnswerFacts
  <2> QED
    BY <1>1, <2>1, <2>2, <2>3
    DEF Next, vars, page, SetPreset, ChartAnswered, RequestDropped,
        RequestUnauthorized
<1> QED
  BY <1>1, DashboardInvariance, PTL DEF Spec, ChoiceStands
===============================================================================
