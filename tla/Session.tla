-------------------------------- MODULE Session --------------------------------
(***************************************************************************)
(* Users, tokens, and what a browser believes about them.                  *)
(*                                                                         *)
(* The server keeps users and signs tokens; it remembers no token.  One is *)
(* good as long as it has not expired and the server runs with the secret  *)
(* it was signed with.  The browser keeps a token in its local storage and *)
(* the user it belongs to in the state of the page, and learns of each     *)
(* from answers that come whenever they come: of /api/me, sent once when a *)
(* page is loaded, and of a login.                                         *)
(*                                                                         *)
(* An answer is judged by the server in the step it reaches the browser.   *)
(* What the pages ask beyond that is up to the module that extends this    *)
(* one (Dashboard), as is the step relation.                               *)
(***************************************************************************)
EXTENDS Integers, Sequences

CONSTANTS
    Email,      \* users are known by their unique email
    AdminEmail, \* the values ADMIN_EMAIL may have
    Secret,     \* secrets the server may be started with
    MaxToken,   \* bound: tokens given out
    DbErrors,   \* may a statement fail?
    Nobody      \* no user

Token == 1..MaxToken
NoToken == 0

ASSUME SessionAssumption ==
    /\ AdminEmail \subseteq Email
    /\ Nobody \notin Email
    /\ MaxToken \in Nat
    /\ DbErrors \in BOOLEAN

VARIABLES
    up,      \* is the server running?
    secret,  \* the one it runs with
    users,   \* table users: email -> role, "none" without a row
    tokens,  \* the tokens given out, in their order
    stored,  \* the token in local storage
    user,    \* AuthContext: the user of this page
    loading, \* AuthContext: nothing is known of the user yet
    path,    \* the page: "/login", or "/" with all that need a user
    leaving, \* the browser has been told to load /login anew
    me,      \* the token of the /api/me that has not been answered
    login,   \* the user of the login that has not been answered
    crossed  \* history: a login was answered on a page that was not ready

server  == <<up, secret, users, tokens>>
browser == <<stored, user, loading, path, leaving, me, login, crossed>>

Claims == [user: Email, role: {"admin", "other"}, secret: Secret,
           expired: BOOLEAN]

SessionInit ==
    /\ up = FALSE
    /\ secret \in Secret
    /\ users = [e \in Email |-> "none"]
    /\ tokens = <<>>
    /\ stored = NoToken
    /\ user = Nobody
    /\ loading = FALSE
    /\ path = "/login"
    /\ leaving = FALSE
    /\ me = NoToken
    /\ login = Nobody
    /\ crossed = FALSE

-------------------------------------------------------------------------------
(* Server *)

NoUsers == \A e \in Email : users[e] = "none"

\* variant: the error of the create is not looked at
BootstrapUnchecked(email) ==
    \/ ~NoUsers /\ UNCHANGED users
    \/ /\ NoUsers \/ DbErrors
       /\ \/ users' = [users EXCEPT ![email] = "admin"]
          \/ DbErrors /\ UNCHANGED users

(* bootstrapAdmin: with users in the table nothing is to do.  The error of *)
(* the count is not looked at and counts as no user; an error of the       *)
(* create, also for an email that is taken, ends the process.              *)
BootstrapAdmin(email) ==
    \/ ~NoUsers /\ UNCHANGED users
    \/ /\ NoUsers \/ DbErrors
       /\ users[email] = "none"
       /\ users' = [users EXCEPT ![email] = "admin"]

Boot(email, s) ==
    /\ ~up
    /\ up' = TRUE
    /\ secret' = s
    /\ BootstrapAdmin(email)
    /\ UNCHANGED <<tokens, browser>>

Crash ==
    /\ up
    /\ up' = FALSE
    /\ UNCHANGED <<secret, users, tokens, browser>>

Expire(t) ==
    /\ t \in DOMAIN tokens
    /\ tokens' = [tokens EXCEPT ![t].expired = TRUE]
    /\ UNCHANGED <<up, secret, users, browser>>

(* ParseToken.                                                             *)
Valid(t) ==
    /\ t \in DOMAIN tokens
    /\ tokens[t].secret = secret
    /\ ~tokens[t].expired

(* RequireAuth and RequireRole: the role is the one in the token.          *)
Allowed(t, roles) == up /\ Valid(t) /\ tokens[t].role \in roles

(* handleCreateUser, by anybody who has an admin's token; 409 for an email *)
(* that is taken.                                                          *)
CreateUser(t, e, role) ==
    /\ Allowed(t, {"admin"})
    /\ users[e] = "none"
    /\ users' = [users EXCEPT ![e] = role]
    /\ UNCHANGED <<up, secret, tokens, browser>>

(* RequireAuth answers 401.                                                *)
Unauthorized(t) == up /\ ~Valid(t)

-------------------------------------------------------------------------------
(* The page *)

\* variant: a page without a user is shown
AnyoneMayEnter(p, l, u) == p

(* RequireAuth of the client: without a user, go to /login.                *)
Route(p, l, u) == IF p = "/" /\ ~l /\ u = Nobody THEN "/login" ELSE p

(* A page with the user's data is on the screen.                           *)
Inside == path = "/" /\ ~loading /\ user # Nobody

(* The interceptor of the responses: any 401 takes the token away that is  *)
(* stored now, and off the login page starts to load /login.               *)
Intercept401 ==
    /\ stored' = NoToken
    /\ leaving' = (leaving \/ path # "/login")

(* The page is loaded: by the user, at either address, or by the           *)
(* interceptor.  What was in flight is not waited for any more; AuthProvider *)
(* asks who the stored token belongs to.                                   *)
LoadPage(p) ==
    /\ leaving => p = "/login"
    /\ user' = Nobody
    /\ loading' = (stored # NoToken)
    /\ path' = Route(p, loading', Nobody)
    /\ leaving' = FALSE
    /\ me' = stored
    /\ login' = Nobody
    /\ crossed' = FALSE
    /\ UNCHANGED <<server, stored>>

MeAnswered ==
    /\ me # NoToken
    /\ Allowed(me, {"admin", "other"})
    /\ user' = tokens[me].user
    /\ loading' = FALSE
    /\ me' = NoToken
    /\ UNCHANGED <<server, stored, path, leaving, login, crossed>>

(* Refused, or failed for whatever reason: the stored token is given up.   *)
MeFails ==
    /\ me # NoToken
    /\ stored' = NoToken
    /\ loading' = FALSE
    /\ me' = NoToken
    /\ leaving' = (leaving \/ (Unauthorized(me) /\ path # "/login"))
    /\ path' = Route(path, FALSE, user)
    /\ UNCHANGED <<server, user, login, crossed>>

(* One login at a time: the button waits for the answer.                   *)
SubmitLogin(e) ==
    /\ path = "/login"
    /\ login = Nobody
    /\ login' = e
    /\ UNCHANGED <<server, stored, user, loading, path, leaving, me, crossed>>

IssueToken ==
    tokens' = Append(tokens, [user |-> login, role |-> users[login],
                              secret |-> secret, expired |-> FALSE])

\* variant: login keeps the user of the page
LoginKeepingUser ==
    /\ login # Nobody
    /\ up
    /\ users[login] # "none"
    /\ Len(tokens) < MaxToken
    /\ IssueToken
    /\ stored' = Len(tokens')
    /\ user' = IF user = Nobody THEN login ELSE user
    /\ path' = "/"
    /\ login' = Nobody
    /\ crossed' = (crossed \/ me # NoToken \/ path # "/login")
    /\ UNCHANGED <<up, secret, users, loading, leaving, me>>

(* The password is right: handleLogin answers a token and its user.  Both  *)
(* are taken over, and the page goes to /, wherever it is by then.         *)
LoginSucceeds ==
    /\ login # Nobody
    /\ up
    /\ users[login] # "none"
    /\ Len(tokens) < MaxToken
    /\ IssueToken
    /\ stored' = Len(tokens')
    /\ user' = login
    /\ path' = "/"
    /\ login' = Nobody
    /\ crossed' = (crossed \/ me # NoToken \/ path # "/login")
    /\ UNCHANGED <<up, secret, users, loading, leaving, me>>

(* A wrong password or an unknown email is a 401 like any other.           *)
LoginRefused ==
    /\ login # Nobody
    /\ up
    /\ Intercept401
    /\ login' = Nobody
    /\ UNCHANGED <<server, user, loading, path, me, crossed>>

LoginFails ==
    /\ login # Nobody
    /\ login' = Nobody
    /\ UNCHANGED <<server, stored, user, loading, path, leaving, me, crossed>>

Logout ==
    /\ Inside
    /\ stored' = NoToken
    /\ user' = Nobody
    /\ path' = Route(path, loading, Nobody)
    /\ UNCHANGED <<server, loading, leaving, me, login, crossed>>

(* Back and forward in the history of the browser, without loading a page. *)
Visit(p) ==
    /\ p # path
    /\ path' = Route(p, loading, user)
    /\ UNCHANGED <<server, stored, user, loading, leaving, me, login, crossed>>

ServerStep ==
    \/ \E email \in AdminEmail, s \in Secret : Boot(email, s)
    \/ Crash
    \/ \E t \in Token : Expire(t)
    \/ \E t \in Token, e \in Email, role \in {"admin", "other"} :
          CreateUser(t, e, role)

(* A step of the page that does not load it anew.                          *)
PageStep ==
    \/ MeAnswered \/ MeFails
    \/ \E e \in Email : SubmitLogin(e)
    \/ LoginSucceeds \/ LoginRefused \/ LoginFails
    \/ Logout
    \/ \E p \in {"/login", "/"} : Visit(p)

-------------------------------------------------------------------------------
(* Properties *)

(* The page at / is only there for a user, or while it is not known        *)
(* whether there is one (RequireAuth).                                     *)
SessionTypeOK ==
    /\ up \in BOOLEAN
    /\ secret \in Secret
    /\ users \in [Email -> {"none", "admin", "other"}]
    /\ tokens \in Seq(Claims) /\ Len(tokens) <= MaxToken
    /\ {stored, me} \subseteq {NoToken} \cup DOMAIN tokens
    /\ {user, login} \subseteq Email \cup {Nobody}
    /\ loading \in BOOLEAN
    /\ path \in {"/login", "/"}
    /\ path = "/" => loading \/ user # Nobody
    /\ leaving \in BOOLEAN
    /\ crossed \in BOOLEAN

(* "So there's always a way to log in on first run" (the comment of        *)
(* bootstrapAdmin): whenever the server runs there is an admin, although   *)
(* any statement of any start may have failed.                             *)
AdminExists == up => \E e \in Email : users[e] = "admin"

(* The user on the screen is the one whose token is sent with the requests *)
(* - unless a login was answered while /api/me was still under way, whose  *)
(* answer then replaces the user, or on another page than the login page.  *)
ShownUserIsTokens ==
    user # Nobody /\ stored # NoToken /\ ~crossed => tokens[stored].user = user
===============================================================================
