------------------------------ MODULE AuthGate ------------------------------
(* The way into the web application: the routes of App.tsx behind            *)
(* RequireAuth, the login page, and the query of the current user that both  *)
(* read. The session itself is a cookie that the API checks.                 *)
EXTENDS Naturals

VARIABLES
    signedIn,          \* the API accepts the cookie of the browser
    route,             \* root, login or app, which stands for every other page
    me,                \* the query of the current user
    loginRequest,      \* POST /auth/login
    admitted           \* what became of the last login that was answered

authVars == <<signedIn, route, me, loginRequest, admitted>>

Answers == {"anonymous", "user"}
FirstFetch == [data |-> "none", fetch |-> "asked", stale |-> TRUE, failed |-> FALSE]

MeLoading(q) == q.data = "none" /\ q.fetch # "none"
Authenticated(q) == q.data = "user"

(* A page that mounts asks again if there is no answer or an old one.        *)
MountMe(q) ==
    IF q.fetch = "none" /\ (q.data = "none" \/ q.stale) THEN [q EXCEPT !.fetch = "asked"] ELSE q

(* Where RequireAuth, RootRedirect and the effect of the login page lead,    *)
(* and the query after the page there has mounted.                           *)
Led(r, q) ==
    CASE r = "root" /\ ~MeLoading(q)                       ->
             IF Authenticated(q) THEN "app" ELSE "login"
      [] r = "app" /\ ~MeLoading(q) /\ ~Authenticated(q)   -> "login"
      [] r = "login" /\ Authenticated(q)                   -> "app"
      [] OTHER                                             -> r

Lead(r, q) ==
    /\ route' = Led(r, q)
    /\ me' = IF Led(r, q) = r THEN q ELSE MountMe(q)

AuthInit ==
    /\ signedIn \in BOOLEAN
    /\ route \in {"root", "login", "app"}
    /\ me = FirstFetch
    /\ loginRequest = "none" /\ admitted = "no"

-----------------------------------------------------------------------------

(* The session ends: it expires, or another tab logs out.                    *)
SessionEnds ==
    /\ signedIn
    /\ signedIn' = FALSE /\ admitted' = "no"
    /\ UNCHANGED <<route, me, loginRequest>>

(* The address bar: the application starts afresh. A login that was sent may *)
(* still reach the API.                                                      *)
LoadRoute(r) ==
    /\ route' = r /\ me' = FirstFetch
    /\ loginRequest' = "none" /\ admitted' = "no"
    /\ signedIn' \in {signedIn, signedIn \/ loginRequest = "sent"}

(* A link to another page behind the gate; its sidebar mounts the query.     *)
FollowLink ==
    /\ route = "app"
    /\ Lead("app", MountMe(me))
    /\ UNCHANGED <<signedIn, loginRequest, admitted>>

(* staleTime: an answer is good for thirty seconds.                          *)
AnswerAges ==
    /\ me.data # "none" /\ ~me.stale
    /\ me' = [me EXCEPT !.stale = TRUE]
    /\ UNCHANGED <<signedIn, route, loginRequest, admitted>>

(* GET /auth/me answers for every browser, with or without a session.        *)
GetCurrentUser ==
    /\ me.fetch = "asked"
    /\ me' = [me EXCEPT !.fetch = IF signedIn THEN "user" ELSE "anonymous"]
    /\ UNCHANGED <<signedIn, route, loginRequest, admitted>>

CurrentUserArrives ==
    /\ me.fetch \in Answers
    /\ Lead(route, [data |-> me.fetch, fetch |-> "none", stale |-> FALSE, failed |-> FALSE])
    /\ UNCHANGED <<signedIn, loginRequest, admitted>>

(* retry: false. An answer that was there is kept.                           *)
CurrentUserFails ==
    /\ me.fetch # "none"
    /\ Lead(route, [me EXCEPT !.fetch = "none", !.failed = TRUE])
    /\ UNCHANGED <<signedIn, loginRequest, admitted>>

-----------------------------------------------------------------------------

HandleLoginSubmit ==
    /\ route = "login" /\ loginRequest = "none"
    /\ loginRequest' = "sent"
    /\ UNCHANGED <<signedIn, route, me, admitted>>

LoginCommits ==
    /\ loginRequest = "sent"
    /\ signedIn' = TRUE /\ loginRequest' = "accepted"
    /\ UNCHANGED <<route, me, admitted>>

(* Mutant: the refetch is content with a request that is on its way.         *)
InvalidatedMeIfIdle ==
    [me EXCEPT !.stale = TRUE, !.fetch = IF @ = "none" THEN "asked" ELSE @]

(* onSuccess invalidates the query; a first fetch is left to end.            *)
InvalidatedMe ==
    [me EXCEPT !.stale = TRUE,
               !.fetch = IF me.data # "none" \/ @ = "none" THEN "asked" ELSE @]

(* The refetch is not awaited: the page goes on with the old answer.         *)
LoginSucceeds ==
    /\ loginRequest = "accepted"
    /\ loginRequest' = "none"
    /\ admitted' = IF ~signedIn THEN "no" ELSE IF MeLoading(me) THEN "overlapped" ELSE "yes"
    /\ Lead("app", InvalidatedMe)
    /\ UNCHANGED signedIn

(* Refused, or lost on either way.                                           *)
LoginFails ==
    /\ loginRequest # "none"
    /\ loginRequest' = "none"
    /\ UNCHANGED <<signedIn, route, me, admitted>>

AuthNext ==
    \/ SessionEnds \/ FollowLink \/ AnswerAges
    \/ \E r \in {"root", "login", "app"} : LoadRoute(r)
    \/ GetCurrentUser \/ CurrentUserArrives \/ CurrentUserFails
    \/ HandleLoginSubmit \/ LoginCommits \/ LoginSucceeds \/ LoginFails

AuthSpec == AuthInit /\ [][AuthNext]_authVars

-----------------------------------------------------------------------------

AuthTypeOK ==
    /\ signedIn \in BOOLEAN
    /\ route \in {"root", "login", "app"}
    /\ me \in [data : Answers \cup {"none"}, fetch : Answers \cup {"none", "asked"},
               stale : BOOLEAN, failed : BOOLEAN]
    /\ loginRequest \in {"none", "sent", "accepted"}
    /\ admitted \in {"no", "overlapped", "yes"}

(* Who has logged in is taken into the application and not sent back to the  *)
(* login form, although the page navigates before the refetch of the user    *)
(* has answered and an older answer may still be on its way. The exceptions  *)
(* are a refetch that fails and a first check of the user that was still     *)
(* running when the login was answered.                                      *)
LoginIsNotStranded ==
    admitted = "yes" /\ me.fetch = "none" /\ ~me.failed => Authenticated(me) /\ route = "app"
=============================================================================
