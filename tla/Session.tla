------------------------------ MODULE Session ------------------------------
(***************************************************************************)
(* Sign-in state of a tab of the browser: the refresh cookie and the        *)
(* persistence flag that it shares with the other tabs, its redux slice for *)
(* authentication, and the asynchronous flows of the page that read and     *)
(* write them: the sign-in form, the logout button, the check of            *)
(* PersistLogin and any other query.  The other tabs show only in what they *)
(* share.  Every request passes through baseQueryWithReAuth: a 403 is       *)
(* answered by a refresh and the request is sent once more.                 *)
(* A request is two steps, its start and its end: the server's verdict is   *)
(* taken at the first, and may be lost until the second.  Renderings,       *)
(* toasts, the websocket and what the flows store about the user            *)
(* (UserPages) are left out.                                                *)
(***************************************************************************)
EXTENDS Naturals, FiniteSets

CONSTANTS
  Users,
  Queries,            \* the queries of the tab that can be under way
  Checks,             \* the checks of PersistLogin that can be under way
  None,
  MaxEvents,          \* bound on sign-ins, expiries, reloads and acts of other tabs
  MaxCalls            \* bound on the flows under way at once

ASSUME SessionAssumption ==
  /\ None \notin Users \cup [user : Users, fresh : BOOLEAN]
  /\ (Queries \cup Checks) \cap {"form", "header"} = {} /\ Queries \cap Checks = {}
  /\ {MaxEvents, MaxCalls} \subseteq Nat

VARIABLES
  cookie,     \* the refreshToken cookie: None or its user and whether it is fresh
  stored,     \* persistSession in localStorage
  auth,       \* username, access token and persist flag of authSlice
  page,       \* the route
  guard,      \* PersistLogin's effect is pending, waiting (isLoading), refused or done;
              \* refused is waiting, and a check has failed since
  call,       \* per flow: the request under way
  events      \* how many of the bounded events have happened

vars == <<cookie, stored, auth, page, guard, call, events>>

Callers == {"form", "header"} \cup Checks \cup Queries
Steps == {"login", "info", "organization", "logout", "refresh", "read"}
Pages == {"auth", "private"}
Idle == [step |-> "none"]
Fresh(u) == [user |-> u, fresh |-> TRUE]
Ok(u) == [status |-> "ok", user |-> u]
Denied == [status |-> "denied", user |-> None]
Failed == [status |-> "error", user |-> None]

SignedOut(persist) == [username |-> None, token |-> None, persist |-> persist]

Init ==
  /\ cookie = None
  /\ stored = FALSE
  /\ auth = SignedOut(FALSE)
  /\ page = "auth"
  /\ guard = "done"
  /\ call = [c \in Callers |-> Idle]
  /\ events = 0

-----------------------------------------------------------------------------
(* What the server answers: a token that expired is 403, one that is missing *)
(* is 401.                                                                   *)

ByToken(credential, u) ==
  IF credential = None THEN Failed ELSE IF credential.fresh THEN Ok(u) ELSE Denied

RefreshAnswer(k) == ByToken(k, IF k = None THEN None ELSE k.user)

Answer(step, who, token, k) ==
  CASE step = "login" -> Ok(who)
    [] step = "refresh" -> RefreshAnswer(k)
    [] step = "logout" -> Ok(None)
    [] step \in {"info", "organization", "read"} -> ByToken(token, who)

(* The request of a step, with the answer it gets if nothing goes wrong; who *)
(* is the user that signs in.                                                *)
Request(step, stage, who, token, k) ==
  [step |-> step, stage |-> stage, answer |-> Answer(step, who, token, k), who |-> who]

-----------------------------------------------------------------------------
(* Mutant: PersistLogin does not watch the token.                            *)
SetAuthUnwatched(a) == auth' = a /\ UNCHANGED guard

(* The reducers of authSlice.  The effect of PersistLogin depends on the     *)
(* token, so a new token makes a waiting PersistLogin run it again.          *)

SetAuth(a) ==
  /\ auth' = a
  /\ guard' = IF a.token # auth.token /\ guard \in {"waiting", "refused"}
              THEN "pending" ELSE guard

SetCredentials(username, u) ==
  /\ SetAuth([auth EXCEPT !.username = username, !.token = Fresh(u)])
  /\ UNCHANGED stored

(* Mutant: logOut keeps the name.                                            *)
LogOutKeepsName ==
  /\ SetAuth([SignedOut(FALSE) EXCEPT !.username = auth.username])
  /\ stored' = FALSE

LogOut ==
  /\ SetAuth(SignedOut(FALSE))
  /\ stored' = FALSE

TogglePersist ==
  /\ page = "auth"
  /\ call["form"].step \notin {"login", "info"}     \* the form is covered meanwhile
  /\ stored' = ~auth.persist
  /\ auth' = [auth EXCEPT !.persist = ~@]
  /\ UNCHANGED <<cookie, page, guard, call, events>>

(* A flow starts while fewer than MaxCalls are under way. *)
Busy(c) == call[c].step \in Steps
Room == Cardinality({c \in Callers : Busy(c)}) < MaxCalls
Event == events < MaxEvents /\ events' = events + 1

Become(c, r) == call' = [call EXCEPT ![c] = r]

-----------------------------------------------------------------------------
(* baseQueryWithReAuth, on the answer of call c. *)

Refresh(c) ==
  /\ call[c].stage = "first"
  /\ call[c].answer = Denied
  /\ Become(c, [call[c] EXCEPT !.stage = "reauth", !.answer = RefreshAnswer(cookie)])
  /\ UNCHANGED <<cookie, stored, auth, page, guard, events>>

Resend(c) ==
  LET r == call[c]
      u == r.answer.user
      known == auth.username
  IN  /\ r.stage = "reauth"
      /\ r.answer.status = "ok"
      /\ SetCredentials(IF known # None THEN known ELSE u, u)
      /\ Become(c, Request(r.step, "again", r.who, Fresh(u), cookie))
      /\ UNCHANGED <<cookie, page, events>>

(* Mutant: after a refresh that failed there is another one.                 *)
GiveUpNever(c) ==
  /\ call[c].stage = "reauth"
  /\ LogOut
  /\ Become(c, [call[c] EXCEPT !.stage = "first", !.answer = Denied])
  /\ UNCHANGED <<cookie, page, events>>

(* The refresh failed, here or in the server: the tab is logged out and the  *)
(* caller gets the 403.                                                      *)
GiveUp(c) ==
  /\ call[c].stage = "reauth"
  /\ LogOut
  /\ Become(c, [call[c] EXCEPT !.stage = "refused", !.answer = Denied])
  /\ UNCHANGED <<cookie, page, events>>

Succeeded(c, step) ==
  /\ call[c].step = step
  /\ call[c].stage \in {"first", "again"}
  /\ call[c].answer.status = "ok"

(* The caller gets an error: the server's, or one of the way there and back, *)
(* which may come with a body that is not JSON.                              *)
Lost(c) == Busy(c) /\ call[c].stage \in {"first", "again"}
Erred(c) == Lost(c) \/ (Busy(c) /\ call[c].stage = "refused")

-----------------------------------------------------------------------------
(* AuthForm.  The form is covered while it waits for its answers. *)

Submit ==
  /\ page = "auth"
  /\ call["form"] = Idle
  /\ Room
  /\ Event
  /\ \E u \in Users : Become("form", Request("login", "first", u, None, None))
  /\ UNCHANGED <<cookie, stored, auth, page, guard>>

(* Mutant: a sign-in keeps the name it finds.                                *)
LoginDoneKeepsName ==
  LET u == call["form"].who
  IN  /\ Succeeded("form", "login")
      /\ cookie' = Fresh(u)
      /\ SetCredentials(IF auth.username # None THEN auth.username ELSE u, u)
      /\ Become("form", Request("info", "first", None, Fresh(u), None))
      /\ UNCHANGED <<page, events>>

LoginDone ==
  LET u == call["form"].who
  IN  /\ Succeeded("form", "login")
      /\ cookie' = Fresh(u)
      /\ SetCredentials(u, u)
      /\ Become("form", Request("info", "first", None, Fresh(u), None))
      /\ UNCHANGED <<page, events>>

InfoDone(c) ==
  /\ Succeeded(c, "info")
  /\ Become(c, Request("organization", "first", None, auth.token, None))
  /\ UNCHANGED <<cookie, stored, auth, page, guard, events>>

Visit(p) ==
  /\ page' = p
  /\ guard' = IF page = "auth" /\ p # "auth" THEN "pending"
              ELSE IF p = "auth" THEN "done" ELSE guard

SignedIn ==
  /\ Succeeded("form", "organization")
  /\ Visit("private")
  /\ Become("form", Idle)
  /\ UNCHANGED <<cookie, stored, auth, events>>

(* An error of any request of the form is shown; what was set before stays.  *)
SignInFails ==
  /\ Erred("form")
  /\ Become("form", Idle)
  /\ UNCHANGED <<cookie, stored, auth, page, guard, events>>

-----------------------------------------------------------------------------
(* The header's logout, and that of a check whose catch runs.  Whatever the  *)
(* answer, the tab goes to the form.                                         *)

Logout ==
  /\ auth.token # None
  /\ call["header"] = Idle
  /\ Room
  /\ Become("header", Request("logout", "first", None, None, None))
  /\ UNCHANGED <<cookie, stored, auth, page, guard, events>>

LogoutDone(c) ==
  /\ Succeeded(c, "logout")
  /\ cookie' = None
  /\ stored' = FALSE
  /\ auth' = SignedOut(FALSE)
  /\ Visit("auth")
  /\ Become(c, Idle)
  /\ UNCHANGED <<events>>

LogoutFails(c) ==
  /\ Erred(c)
  /\ call[c].step = "logout"
  /\ Visit("auth")
  /\ Become(c, Idle)
  /\ UNCHANGED <<cookie, stored, auth, events>>

-----------------------------------------------------------------------------
(* PersistLogin around the private pages, and PrivateRoutes inside it.  A    *)
(* check goes on when its page is left, so that a return starts another.     *)

Free == {k \in Checks : ~Busy(k)}

GuardEffect ==
  /\ guard = "pending"
  /\ IF auth.token = None /\ auth.persist
     THEN /\ Room
          /\ Free # {}
          /\ guard' = "waiting"
          /\ Become(CHOOSE k \in Free : TRUE, Request("refresh", "first", None, None, cookie))
     ELSE /\ guard' = "done"
          /\ UNCHANGED call
  /\ UNCHANGED <<cookie, stored, auth, page, events>>

RefreshDone(k) ==
  LET u == call[k].answer.user
  IN  /\ Succeeded(k, "refresh")
      /\ SetCredentials(u, u)
      /\ Become(k, Request("info", "first", None, Fresh(u), None))
      /\ UNCHANGED <<cookie, page, events>>

RestoreDone(k) ==
  /\ Succeeded(k, "organization")
  /\ Become(k, Idle)
  /\ UNCHANGED <<cookie, stored, auth, page, guard, events>>

(* useRefreshToken and useRefreshUserInfo turn an error in JSON into FALSE,  *)
(* so the flow just ends; isMounted is FALSE by then and isLoading stays.    *)
RestoreFails(k) ==
  /\ Erred(k)
  /\ call[k].step # "logout"
  /\ Become(k, Idle)
  /\ guard' = IF guard = "waiting" THEN "refused" ELSE guard
  /\ UNCHANGED <<cookie, stored, auth, page, events>>

(* normalizeApiError throws on another body, and so do the hooks: the catch  *)
(* of PersistLogin logs out.                                                 *)
RestoreThrows(k) ==
  /\ Lost(k)
  /\ call[k].step # "logout"
  /\ Become(k, Request("logout", "first", None, None, None))
  /\ UNCHANGED <<cookie, stored, auth, page, guard, events>>

(* The spinner covers the private pages. *)
Loading == page # "auth" /\ auth.persist /\ guard # "done"

Redirect ==
  /\ page # "auth"
  /\ ~Loading
  /\ auth.token = None
  /\ Visit("auth")
  /\ UNCHANGED <<cookie, stored, auth, call, events>>

(* A link, the header's menu or the browser's history. *)
Navigate(p) ==
  /\ p # page
  /\ Visit(p)
  /\ UNCHANGED <<cookie, stored, auth, call, events>>

-----------------------------------------------------------------------------
(* A query of a private page, and its end. *)

Query(q) ==
  /\ page # "auth"
  /\ ~Loading
  /\ call[q] = Idle
  /\ Room
  /\ Become(q, Request("read", "first", None, auth.token, None))
  /\ UNCHANGED <<cookie, stored, auth, page, guard, events>>

QueryDone(q) ==
  /\ Erred(q) \/ Succeeded(q, "read")
  /\ Become(q, Idle)
  /\ UNCHANGED <<cookie, stored, auth, page, guard, events>>

(* Time, and what the browser does: a reload starts the tab's store anew,    *)
(* closing the browser ends the session cookie but keeps localStorage.       *)

TokenExpires ==
  /\ auth.token # None
  /\ auth.token.fresh
  /\ Event
  /\ auth' = [auth EXCEPT !.token.fresh = FALSE]
  /\ UNCHANGED <<cookie, stored, page, guard, call>>

CookieExpires ==
  /\ cookie # None
  /\ cookie.fresh
  /\ Event
  /\ cookie' = [cookie EXCEPT !.fresh = FALSE]
  /\ UNCHANGED <<stored, auth, page, guard, call>>

Restarted ==
  /\ Event
  /\ auth' = SignedOut(stored)
  /\ guard' = IF page # "auth" THEN "pending" ELSE guard
  /\ call' = [c \in Callers |-> Idle]
  /\ UNCHANGED <<stored, page>>

(* Another tab signs in, logs out or is logged out, or toggles its checkbox. *)
OtherTab ==
  /\ Event
  /\ \/ \E u \in Users : cookie' = Fresh(u) /\ UNCHANGED stored
     \/ cookie' = None /\ stored' = FALSE
     \/ UNCHANGED cookie /\ stored' = FALSE
     \/ UNCHANGED cookie /\ stored' = ~stored
  /\ UNCHANGED <<auth, page, guard, call>>

Reload == Restarted /\ UNCHANGED cookie
BrowserRestart == Restarted /\ cookie' = None

-----------------------------------------------------------------------------
(* What becomes of the request of flow c once its answer is there. *)
CallStep(c) ==
  /\ Busy(c)
  /\ \/ Refresh(c) \/ Resend(c) \/ GiveUp(c)
     \/ c = "form" /\ (LoginDone \/ InfoDone(c) \/ SignedIn \/ SignInFails)
     \/ c \in Checks /\ (RefreshDone(c) \/ InfoDone(c) \/ RestoreDone(c))
     \/ c \in Checks /\ (RestoreFails(c) \/ RestoreThrows(c))
     \/ c \in {"header"} \cup Checks /\ (LogoutDone(c) \/ LogoutFails(c))
     \/ c \in Queries /\ QueryDone(c)

Next ==
  \/ Submit \/ TogglePersist \/ Logout
  \/ GuardEffect \/ Redirect
  \/ \E p \in Pages : Navigate(p)
  \/ \E q \in Queries : Query(q)
  \/ \E c \in Callers : CallStep(c)
  \/ TokenExpires \/ CookieExpires
  \/ Reload \/ BrowserRestart \/ OtherTab

Spec == Init /\ [][Next]_vars

(* Every answer arrives (a lost one is an error in the end), React runs its  *)
(* effects and redirects.  Nobody has to act.                                *)
FairSpec ==
  /\ Spec
  /\ WF_vars(GuardEffect) /\ WF_vars(Redirect)
  /\ \A c \in Callers : WF_vars(CallStep(c))

-----------------------------------------------------------------------------
(* A tab has a name and a token together or neither: none of the flows that  *)
(* overlap in it (sign-in, logout, retries after a 403, PersistLogin) leaves *)
(* half of the credentials behind.                                           *)
CredentialsWhole == (auth.username = None) <=> (auth.token = None)

(* The name shown and the user of the token are those of one sign-in, unless *)
(* a request was refreshed with a cookie that another tab's sign-in has set  *)
(* since: baseQueryWithReAuth keeps the name it finds.                       *)
MixedOnlyByRetry ==
  [][
       (/\ auth'.token \notin {None, auth.token}
        /\ auth'.token.user # auth'.username)
       => \/ /\ auth.token # None
             /\ auth'.token.user = auth.token.user
          \/ /\ auth'.username = auth.username
             /\ \E c \in Callers : Busy(c) /\ call[c].stage = "reauth"]_vars

(* A request is retried at most once after a 403 and ends, however often     *)
(* tokens and cookies expire and whatever the other flows do meanwhile.      *)
RequestsSettle ==
  \A c \in Callers : Busy(c) ~> ~Busy(c)

(* PersistLogin's spinner ends unless a check was refused and none is left   *)
(* that asks for a token or logs out: a token, an error that cannot be read  *)
(* and a departure from the page all take it away.                           *)
SpinnerEndsUnlessRefused ==
  Loading ~> \/ ~Loading
             \/ /\ guard = "refused"
                /\ auth.token = None
                /\ \A k \in Checks : call[k].step \notin {"refresh", "logout"}

(* When the check of a persisted session fails the tab is signed out: the    *)
(* comment of PersistLogin's catch says that the state is back to null.      *)
FailedRestoreSignsOut ==
  Loading ~> ~Loading

=============================================================================
