--------------------------- MODULE SessionProofs ---------------------------
(***************************************************************************)
(* Proofs about Session: whatever the number of users, of queries and of    *)
(* flows under way at once, a tab never holds half of its credentials, and  *)
(* its name and its token part only where a request is sent once more.      *)
(***************************************************************************)
EXTENDS Session, TLAPS

(* What the slice, the cookie and a request can hold. *)
Tokens == [user : Users, fresh : BOOLEAN]
Auths == [username : Users \cup {None}, token : Tokens \cup {None}, persist : BOOLEAN]
AnswerSet == [status : {"ok", "denied", "error"}, user : Users \cup {None}]
CallRecords ==
  [step : Steps, stage : {"first", "reauth", "again", "refused"},
   answer : AnswerSet, who : Users \cup {None}]

(* A flow under way has a request; the answer to a refresh names the user of *)
(* the cookie, and a sign-in knows whose it is.                              *)
RefreshNamed(r) ==
  r.answer.status = "ok" /\ (r.stage = "reauth" \/ r.step = "refresh") => r.answer.user \in Users

LoginNamed(r) == r.step = "login" => r.who \in Users

CallOK(r) ==
  r.step \in Steps => r \in CallRecords /\ RefreshNamed(r) /\ LoginNamed(r)

TypeInv ==
  /\ cookie \in Tokens \cup {None}
  /\ auth \in Auths
  /\ call = [c \in Callers |-> call[c]]
  /\ \A c \in Callers : CallOK(call[c])

SessionInv == TypeInv /\ CredentialsWhole

-----------------------------------------------------------------------------
(* A new token of a user is a token, and not the absence of one. *)
LEMMA FreshToken == ASSUME NEW u \in Users PROVE Fresh(u) \in Tokens /\ Fresh(u) # None
<1>1. Fresh(u) \in Tokens
  BY DEF Fresh, Tokens
<1>2. None \notin Tokens
  BY SessionAssumption DEF Tokens, SessionAssumption
<1> QED BY <1>1, <1>2

(* What ByToken answers: the user asked for, and only with a good token. *)
LEMMA ByTokenType ==
  ASSUME NEW t \in Tokens \cup {None}, NEW u \in Users \cup {None}
  PROVE  /\ ByToken(t, u) \in AnswerSet
         /\ ByToken(t, u).status = "ok" => ByToken(t, u).user = u /\ t # None
BY DEF ByToken, Ok, Failed, Denied, AnswerSet

(* The refresh with a cookie that is accepted names the cookie's user. *)
LEMMA RefreshType ==
  ASSUME NEW k \in Tokens \cup {None}
  PROVE  /\ RefreshAnswer(k) \in AnswerSet
         /\ RefreshAnswer(k).status = "ok" => RefreshAnswer(k).user \in Users
<1> DEFINE u == IF k = None THEN None ELSE k.user
<1>1. u \in Users \cup {None} /\ (k # None => u \in Users)
  BY DEF Tokens
<1>2. RefreshAnswer(k) = ByToken(k, u)
  BY DEF RefreshAnswer
<1> QED BY <1>1, <1>2, ByTokenType

(* Every request that the tab sends is one that CallOK allows. *)
LEMMA RequestOK ==
  ASSUME NEW step \in Steps, NEW stage \in {"first", "again"},
         NEW who \in Users \cup {None}, step = "login" => who \in Users,
         NEW t \in Tokens \cup {None}, NEW k \in Tokens \cup {None}
  PROVE  CallOK(Request(step, stage, who, t, k))
<1> DEFINE a == Answer(step, who, t, k)
<1>1. a \in AnswerSet /\ (step = "refresh" /\ a.status = "ok" => a.user \in Users)
  <2>1. CASE step = "login" BY <2>1 DEF Answer, Ok, AnswerSet
  <2>2. CASE step = "refresh" BY <2>2, RefreshType DEF Answer
  <2>3. CASE step = "logout" BY <2>3 DEF Answer, Ok, AnswerSet
  <2>4. CASE step \in {"info", "organization", "read"} BY <2>4, ByTokenType DEF Answer
  <2> QED BY <2>1, <2>2, <2>3, <2>4 DEF Steps
<1> QED BY <1>1 DEF Request, CallOK, CallRecords, RefreshNamed, LoginNamed

(* A flow that takes up a proper request, or ends, keeps the calls proper. *)
LEMMA BecomeOK ==
  ASSUME NEW c \in Callers, NEW r, CallOK(r), TypeInv, Become(c, r)
  PROVE  (call = [b \in Callers |-> call[b]])' /\ (\A b \in Callers : CallOK(call[b]))'
<1>1. call' = [call EXCEPT ![c] = r] /\ DOMAIN call = Callers
  BY DEF Become, TypeInv
<1>2. \A b \in Callers : call'[b] = IF b = c THEN r ELSE call[b]
  BY <1>1
<1>3. \A b \in Callers : CallOK(call'[b])
  BY <1>2 DEF TypeInv
<1>4. call' = [b \in Callers |-> call'[b]]
  BY <1>1
<1> QED BY <1>3, <1>4

(* A flow at rest asks for nothing. *)
LEMMA RestOK == CallOK(Idle)
BY DEF CallOK, Idle, Steps

-----------------------------------------------------------------------------
(* Setting the credentials of a user leaves a whole pair of that user. *)
LEMMA CredentialsSet ==
  ASSUME SessionInv, NEW n \in Users, NEW u \in Users, SetCredentials(n, u)
  PROVE  /\ auth' \in Auths
         /\ auth'.username = n
         /\ auth'.token = Fresh(u)
         /\ CredentialsWhole'
<1>1. auth' = [auth EXCEPT !.username = n, !.token = Fresh(u)]
  BY DEF SetCredentials, SetAuth
<1>2. Fresh(u) \in Tokens /\ Fresh(u) # None
  BY FreshToken
<1>3. auth' \in Auths /\ auth'.username = n /\ auth'.token = Fresh(u)
  BY <1>1, <1>2 DEF SessionInv, TypeInv, Auths
<1>4. n # None
  BY SessionAssumption DEF SessionAssumption
<1> QED BY <1>2, <1>3, <1>4 DEF CredentialsWhole

(* A signed-out slice is whole. *)
LEMMA SignedOutOK ==
  ASSUME NEW p \in BOOLEAN, auth' = SignedOut(p)
  PROVE  auth' \in Auths /\ auth'.token = None /\ CredentialsWhole'
BY DEF SignedOut, Auths, CredentialsWhole

(* A flow at work has a typed request. *)
LEMMA BusyRecord ==
  ASSUME SessionInv, NEW c \in Callers, Busy(c)
  PROVE  call[c] \in CallRecords /\ RefreshNamed(call[c]) /\ LoginNamed(call[c])
BY DEF SessionInv, TypeInv, Busy, CallOK

(* What must be shown of a step: the slice and the cookie stay typed, the    *)
(* pair whole, one flow takes up a proper request or none changes.           *)
LEMMA StepOK ==
  ASSUME SessionInv,
         cookie' \in Tokens \cup {None}, auth' \in Auths, CredentialsWhole',
         \/ UNCHANGED call
         \/ call' = [c \in Callers |-> Idle]
         \/ \E c \in Callers : \E r : CallOK(r) /\ Become(c, r)
  PROVE  SessionInv'
<1>1. CASE UNCHANGED call
  BY <1>1 DEF SessionInv, TypeInv
<1>2. CASE call' = [c \in Callers |-> Idle]
  BY <1>2, RestOK DEF SessionInv, TypeInv
<1>3. CASE \E c \in Callers : \E r : CallOK(r) /\ Become(c, r)
  BY <1>3, BecomeOK DEF SessionInv, TypeInv
<1> QED BY <1>1, <1>2, <1>3

-----------------------------------------------------------------------------
(* The action of MixedOnlyByRetry: a step that sets a token sets one of the  *)
(* user shown, or renews the old one's, or retries a request.                *)
NamedAlike ==
  (/\ auth'.token \notin {None, auth.token}
   /\ auth'.token.user # auth'.username)
   => \/ /\ auth.token # None
         /\ auth'.token.user = auth.token.user
      \/ /\ auth'.username = auth.username
         /\ \E c \in Callers : Busy(c) /\ call[c].stage = "reauth"

(* A step that does not touch the slice. *)
LEMMA AuthKept ==
  ASSUME SessionInv, auth' = auth
  PROVE  auth' \in Auths /\ CredentialsWhole' /\ NamedAlike
BY DEF SessionInv, TypeInv, CredentialsWhole, NamedAlike

(* A step that signs the tab out. *)
LEMMA AuthCleared ==
  ASSUME NEW p \in BOOLEAN, auth' = SignedOut(p)
  PROVE  auth' \in Auths /\ CredentialsWhole' /\ NamedAlike
BY SignedOutOK DEF NamedAlike

(* A step that signs a user in under that user's name. *)
LEMMA AuthRenewed ==
  ASSUME SessionInv, NEW u \in Users, SetCredentials(u, u)
  PROVE  auth' \in Auths /\ CredentialsWhole' /\ NamedAlike
<1>1. auth' \in Auths /\ CredentialsWhole' /\ auth'.username = u /\ auth'.token = Fresh(u)
  BY CredentialsSet
<1>2. auth'.token.user = auth'.username
  BY <1>1 DEF Fresh
<1> QED BY <1>1, <1>2 DEF NamedAlike

(* LogOut clears the slice. *)
LEMMA LogOutClears == ASSUME LogOut PROVE auth' = SignedOut(FALSE)
BY DEF LogOut, SetAuth

(* What every step keeps. *)
StepFine == SessionInv' /\ NamedAlike

(* A 403 is followed by a request for a new token, of the user of the cookie. *)
LEMMA RefreshStep ==
  ASSUME SessionInv, NEW c \in Callers, Busy(c), Refresh(c)
  PROVE  StepFine
<1> DEFINE a == RefreshAnswer(cookie)
           r == [call[c] EXCEPT !.stage = "reauth", !.answer = a]
<1>1. Become(c, r)
  BY DEF Refresh
<1>2. a \in AnswerSet /\ (a.status = "ok" => a.user \in Users)
  BY RefreshType DEF SessionInv, TypeInv
<1>3. CallOK(r)
  BY <1>2, BusyRecord DEF CallOK, CallRecords, RefreshNamed, LoginNamed
<1>4. UNCHANGED <<cookie, auth>>
  BY DEF Refresh
<1> QED BY <1>1, <1>3, <1>4, AuthKept, StepOK DEF StepFine, SessionInv, TypeInv

(* A retry keeps a name that is there, and sends the request once more. *)
LEMMA ResendStep ==
  ASSUME SessionInv, NEW c \in Callers, Busy(c), Resend(c)
  PROVE  StepFine
<1> DEFINE u == call[c].answer.user
           n == IF auth.username # None THEN auth.username ELSE u
           r == Request(call[c].step, "again", call[c].who, Fresh(u), cookie)
<1>1. /\ call[c].stage = "reauth"
      /\ call[c].answer.status = "ok"
      /\ SetCredentials(n, u)
      /\ Become(c, r)
      /\ cookie' = cookie
  BY DEF Resend
<1>2. call[c] \in CallRecords /\ RefreshNamed(call[c]) /\ LoginNamed(call[c])
  BY BusyRecord
<1>3. u \in Users
  BY <1>1, <1>2 DEF RefreshNamed
<1>4. n \in Users
  BY <1>3 DEF SessionInv, TypeInv, Auths
<1>5. /\ auth' \in Auths /\ CredentialsWhole'
      /\ auth'.username = n /\ auth'.token = Fresh(u)
  BY <1>1, <1>3, <1>4, CredentialsSet
<1>6. NamedAlike
  BY <1>1, <1>5 DEF NamedAlike, Fresh
<1>7. CallOK(r)
  BY <1>2, <1>3, FreshToken, RequestOK
       DEF CallRecords, LoginNamed, SessionInv, TypeInv
<1> QED BY <1>1, <1>5, <1>6, <1>7, StepOK DEF StepFine, SessionInv, TypeInv

(* A refused refresh signs the tab out.                                     *)
LEMMA GiveUpStep ==
  ASSUME SessionInv, NEW c \in Callers, Busy(c), GiveUp(c)
  PROVE  StepFine
<1> DEFINE r == [call[c] EXCEPT !.stage = "refused", !.answer = Denied]
<1>1. LogOut /\ Become(c, r) /\ cookie' = cookie
  BY DEF GiveUp
<1>2. CallOK(r)
  BY BusyRecord DEF CallOK, CallRecords, RefreshNamed, LoginNamed, Denied, AnswerSet
<1> QED BY <1>1, <1>2, LogOutClears, AuthCleared, StepOK DEF StepFine, SessionInv, TypeInv

-----------------------------------------------------------------------------
(* The form: a sign-in, what it loads afterwards, and its end. *)
LEMMA SubmitStep == ASSUME SessionInv, Submit PROVE StepFine
<1>1. PICK u \in Users : Become("form", Request("login", "first", u, None, None))
  BY DEF Submit
<1>2. CallOK(Request("login", "first", u, None, None))
  BY RequestOK DEF Steps
<1>3. UNCHANGED <<cookie, auth>> /\ "form" \in Callers
  BY DEF Submit, Callers
<1> QED BY <1>1, <1>2, <1>3, AuthKept, StepOK DEF StepFine, SessionInv, TypeInv

(* The right password sets name and token at once, and asks for the user.   *)
LEMMA LoginDoneStep == ASSUME SessionInv, LoginDone PROVE StepFine
<1> DEFINE u == call["form"].who
           r == Request("info", "first", None, Fresh(u), None)
<1>1. /\ Busy("form") /\ call["form"].step = "login"
      /\ cookie' = Fresh(u)
      /\ SetCredentials(u, u)
      /\ Become("form", r)
  BY DEF LoginDone, Succeeded, Busy, Steps
<1>2. "form" \in Callers
  BY DEF Callers
<1>3. u \in Users
  BY <1>1, <1>2, BusyRecord DEF LoginNamed
<1>4. Fresh(u) \in Tokens
  BY <1>3, FreshToken
<1>5. CallOK(r)
  BY <1>4, RequestOK DEF Steps
<1> QED BY <1>1, <1>2, <1>3, <1>4, <1>5, AuthRenewed, StepOK DEF StepFine

(* The answer about the user is followed by a request for the organization. *)
LEMMA InfoDoneStep ==
  ASSUME SessionInv, NEW c \in Callers, Busy(c), InfoDone(c)
  PROVE  StepFine
<1> DEFINE r == Request("organization", "first", None, auth.token, None)
<1>1. Become(c, r)
  BY DEF InfoDone
<1>2. auth.token \in Tokens \cup {None}
  BY DEF SessionInv, TypeInv, Auths
<1>3. CallOK(r)
  BY <1>2, RequestOK DEF Steps
<1>4. UNCHANGED <<cookie, auth>>
  BY DEF InfoDone
<1> QED BY <1>1, <1>3, <1>4, AuthKept, StepOK DEF StepFine, SessionInv, TypeInv

(* A check of a persisted session signs in the user of the cookie. *)
LEMMA RefreshDoneStep ==
  ASSUME SessionInv, NEW k \in Callers, RefreshDone(k)
  PROVE  StepFine
<1> DEFINE u == call[k].answer.user
           r == Request("info", "first", None, Fresh(u), None)
<1>1. /\ Busy(k) /\ call[k].step = "refresh" /\ call[k].answer.status = "ok"
      /\ SetCredentials(u, u)
      /\ Become(k, r)
      /\ cookie' = cookie
  BY DEF RefreshDone, Succeeded, Busy, Steps
<1>2. u \in Users
  BY <1>1, BusyRecord DEF RefreshNamed
<1>3. Fresh(u) \in Tokens
  BY <1>2, FreshToken
<1>4. CallOK(r)
  BY <1>3, RequestOK DEF Steps
<1> QED BY <1>1, <1>2, <1>4, AuthRenewed, StepOK DEF StepFine, SessionInv, TypeInv

(* The other requests that start: a logout, a check and a query. *)
LEMMA StartStep ==
  ASSUME SessionInv, NEW step \in Steps \ {"login"}, NEW c \in Callers,
         NEW t \in {None, auth.token}, NEW k \in {None, cookie},
         Become(c, Request(step, "first", None, t, k)),
         UNCHANGED <<cookie, auth>>
  PROVE  StepFine
<1>1. t \in Tokens \cup {None} /\ k \in Tokens \cup {None}
  BY DEF SessionInv, TypeInv, Auths
<1>2. CallOK(Request(step, "first", None, t, k))
  BY <1>1, RequestOK
<1> QED BY <1>2, AuthKept, StepOK DEF StepFine, SessionInv, TypeInv

(* A flow that ends leaves the credentials as they are or clears them. *)
LEMMA EndStep ==
  ASSUME SessionInv, NEW c \in Callers, Become(c, Idle),
         cookie' \in {None, cookie}, auth' \in {auth, SignedOut(FALSE)}
  PROVE  StepFine
<1>1. auth' \in Auths /\ CredentialsWhole' /\ NamedAlike
  BY AuthKept, AuthCleared
<1> QED BY <1>1, RestOK, StepOK DEF StepFine, SessionInv, TypeInv

(* What becomes of any request keeps the invariant. *)
LEMMA CallStepFine ==
  ASSUME SessionInv, NEW c \in Callers, CallStep(c)
  PROVE  StepFine
<1>1. Busy(c)
  BY DEF CallStep
<1>2. CASE Refresh(c) BY <1>1, <1>2, RefreshStep
<1>3. CASE Resend(c) BY <1>1, <1>3, ResendStep
<1>4. CASE GiveUp(c) BY <1>1, <1>4, GiveUpStep
<1>5. CASE InfoDone(c) BY <1>1, <1>5, InfoDoneStep
<1>6. CASE LoginDone BY <1>6, LoginDoneStep
<1>7. CASE RefreshDone(c) BY <1>7, RefreshDoneStep
<1>8. CASE c = "form" /\ (SignedIn \/ SignInFails)
  BY <1>8, EndStep DEF SignedIn, SignInFails
<1>9. CASE LogoutDone(c) \/ LogoutFails(c)
  BY <1>9, EndStep DEF LogoutDone, LogoutFails
<1>10. CASE RestoreDone(c) \/ RestoreFails(c)
  BY <1>10, EndStep DEF RestoreDone, RestoreFails
<1>11. CASE RestoreThrows(c)
  BY <1>11, StartStep DEF RestoreThrows, Steps
<1>12. CASE QueryDone(c) BY <1>12, EndStep DEF QueryDone
<1> QED BY <1>2, <1>3, <1>4, <1>5, <1>6, <1>7, <1>8, <1>9, <1>10, <1>11, <1>12
     DEF CallStep

(* Steps that leave the requests alone, or drop them all in a reload. *)
LEMMA QuietStep ==
  ASSUME SessionInv, call' \in {call, [c \in Callers |-> Idle]},
         cookie' \in Tokens \cup {None},
         auth' \in Auths, CredentialsWhole', NamedAlike
  PROVE  StepFine
BY StepOK DEF StepFine

(* A token that expires stays the token of the same user.                   *)
LEMMA ExpiryStep == ASSUME SessionInv, TokenExpires PROVE StepFine
<1>1. /\ auth.token \in Tokens
      /\ auth' = [auth EXCEPT !.token = [auth.token EXCEPT !.fresh = FALSE]]
      /\ UNCHANGED <<cookie, call>>
  BY DEF TokenExpires, SessionInv, TypeInv, Auths
<1> DEFINE t == [auth.token EXCEPT !.fresh = FALSE]
<1>2. t \in Tokens /\ t.user = auth.token.user /\ None \notin Tokens
  BY <1>1, SessionAssumption DEF Tokens, SessionAssumption
<1> HIDE DEF t
<1>3. auth' \in Auths /\ auth'.username = auth.username /\ auth'.token = t
  BY <1>1, <1>2 DEF t, SessionInv, TypeInv, Auths
<1>4. CredentialsWhole' /\ NamedAlike
  BY <1>1, <1>2, <1>3 DEF SessionInv, CredentialsWhole, NamedAlike
<1> QED BY <1>1, <1>3, <1>4, QuietStep DEF SessionInv, TypeInv

(* A reload drops the slice and every request; only the cookie stays.       *)
LEMMA ReloadStep == ASSUME SessionInv, stored \in BOOLEAN, Reload \/ BrowserRestart PROVE StepFine
<1>1. /\ auth' = SignedOut(stored) /\ call' = [c \in Callers |-> Idle]
      /\ cookie' \in {None, cookie}
  BY DEF Reload, BrowserRestart, Restarted
<1> QED BY <1>1, AuthCleared, QuietStep DEF SessionInv, TypeInv

(* Another tab changes the cookie that both share.                          *)
LEMMA OtherTabStep == ASSUME SessionInv, OtherTab PROVE StepFine
<1>1. cookie' \in Tokens \cup {None} /\ UNCHANGED <<auth, call>>
  BY FreshToken DEF OtherTab, SessionInv, TypeInv
<1> QED BY <1>1, AuthKept, QuietStep

(* The switch of the sign-in form changes neither name nor token.           *)
LEMMA ToggleStep == ASSUME SessionInv, TogglePersist PROVE StepFine
<1>1. auth' = [auth EXCEPT !.persist = ~auth.persist] /\ UNCHANGED <<cookie, call>>
  BY DEF TogglePersist
<1>2. /\ auth' \in Auths
      /\ auth'.username = auth.username /\ auth'.token = auth.token
  BY <1>1 DEF SessionInv, TypeInv, Auths
<1>3. CredentialsWhole' /\ NamedAlike
  BY <1>2 DEF SessionInv, CredentialsWhole, NamedAlike
<1> QED BY <1>1, <1>2, <1>3, QuietStep DEF SessionInv, TypeInv

-----------------------------------------------------------------------------
(* The persist flags are truth values, which a reload relies on. *)
Inv == SessionInv /\ stored \in BOOLEAN

(* A tab begins signed out.                                                 *)
LEMMA InvInit == Init => Inv
<1> SUFFICES ASSUME Init PROVE Inv
  OBVIOUS
<1>1. auth \in Auths /\ CredentialsWhole
  BY DEF Init, SignedOut, Auths, CredentialsWhole
<1>2. call = [c \in Callers |-> call[c]] /\ \A c \in Callers : CallOK(call[c])
  BY RestOK DEF Init
<1> QED BY <1>1, <1>2 DEF Inv, SessionInv, TypeInv, Init

(* Only truth values are written to localStorage.                           *)
LEMMA StoredStep ==
  ASSUME SessionInv, stored \in BOOLEAN, [Next]_vars
  PROVE  stored' \in BOOLEAN
<1>1. auth.persist \in BOOLEAN
  BY DEF SessionInv, TypeInv, Auths
<1>2. ASSUME NEW c \in Callers, CallStep(c) PROVE stored' \in BOOLEAN
  BY <1>2 DEF CallStep, Refresh, Resend, GiveUp, InfoDone, LoginDone, SignedIn, SignInFails,
       LogoutDone, LogoutFails, RefreshDone, RestoreDone, RestoreFails, RestoreThrows,
       QueryDone, SetCredentials, LogOut
<1> QED BY <1>1, <1>2 DEF Next, vars, Submit, TogglePersist, Logout, GuardEffect, Redirect,
     Navigate, Query, TokenExpires, CookieExpires, Reload, BrowserRestart, Restarted, OtherTab

(* Every step keeps the invariant, and changes the token as NamedAlike allows. *)
LEMMA InvStep == Inv /\ [Next]_vars => Inv' /\ (NamedAlike \/ UNCHANGED vars)
<1> SUFFICES ASSUME Inv, [Next]_vars PROVE StepFine
  BY StoredStep DEF Inv, StepFine
<1> USE DEF Inv
<1>1. CASE Submit BY <1>1, SubmitStep
<1>2. CASE TogglePersist BY <1>2, ToggleStep
<1>3. CASE Logout
  BY <1>3, StartStep DEF Logout, Steps, Callers
<1>4. CASE GuardEffect
  <2>1. CASE auth.token = None /\ auth.persist
    <3> DEFINE k == CHOOSE k \in Free : TRUE
    <3>1. /\ Free # {}
          /\ Become(k, Request("refresh", "first", None, None, cookie))
          /\ UNCHANGED <<cookie, auth>>
      BY <1>4, <2>1 DEF GuardEffect
    <3>2. k \in Callers
      BY <3>1 DEF Free, Callers
    <3> QED BY <3>1, <3>2, StartStep DEF Steps
  <2>2. CASE ~(auth.token = None /\ auth.persist)
    BY <1>4, <2>2, AuthKept, QuietStep DEF GuardEffect, SessionInv, TypeInv
  <2> QED BY <2>1, <2>2
<1>5. CASE Redirect
  BY <1>5, AuthKept, QuietStep DEF Redirect, SessionInv, TypeInv
<1>6. ASSUME NEW p \in Pages, Navigate(p) PROVE StepFine
  BY <1>6, AuthKept, QuietStep DEF Navigate, SessionInv, TypeInv
<1>7. ASSUME NEW q \in Queries, Query(q) PROVE StepFine
  BY <1>7, StartStep DEF Query, Steps, Callers
<1>8. ASSUME NEW c \in Callers, CallStep(c) PROVE StepFine
  BY <1>8, CallStepFine
<1>9. CASE TokenExpires BY <1>9, ExpiryStep
<1>10. CASE CookieExpires
  <2>1. cookie' \in Tokens /\ UNCHANGED <<auth, call>>
    BY <1>10 DEF CookieExpires, SessionInv, TypeInv, Tokens
  <2> QED BY <2>1, AuthKept, QuietStep
<1>11. CASE Reload \/ BrowserRestart BY <1>11, ReloadStep
<1>12. CASE OtherTab BY <1>12, OtherTabStep
<1>13. CASE UNCHANGED vars
  BY <1>13, AuthKept, QuietStep DEF vars, SessionInv, TypeInv
<1> QED BY <1>1, <1>2, <1>3, <1>4, <1>5, <1>6, <1>7, <1>8, <1>9, <1>10, <1>11, <1>12, <1>13
     DEF Next

(* The invariant holds in every behaviour. *)
THEOREM SessionInvariant == Spec => []Inv
BY InvInit, InvStep, PTL DEF Spec

(* A tab has a name and a token together or neither, whatever flows overlap  *)
(* in it: sign-in, logout, retries after a 403, the check of PersistLogin.   *)
THEOREM CredentialsStayWhole == Spec => []CredentialsWhole
<1>1. Inv => CredentialsWhole
  BY DEF Inv, SessionInv
<1> QED BY <1>1, SessionInvariant, PTL

(* A new token is of the user shown, except where baseQueryWithReAuth keeps  *)
(* the name that it finds while it retries a request.                        *)
THEOREM MixedOnlyByARetry == Spec => MixedOnlyByRetry
<1>1. Inv /\ [Next]_vars => [NamedAlike]_vars
  BY InvStep
<1>2. Spec => [][NamedAlike]_vars
  BY <1>1, SessionInvariant, PTL DEF Spec
<1> QED BY <1>2 DEF NamedAlike, MixedOnlyByRetry

=============================================================================
