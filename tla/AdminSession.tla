---------------------------- MODULE AdminSession ----------------------------
(***************************************************************************)
(* Signing in to the admin pages: browser tabs of one user (App.tsx,       *)
(* lib/auth.ts, lib/api.ts, AdminLogin, AdminProfile and the requests of   *)
(* AdminLayout) and the authentication handlers they call.                 *)
(*                                                                         *)
(* The tabs share localStorage and the cookie; everything else is a tab's  *)
(* own and is lost when the page is loaded anew.  A request carries the    *)
(* credential it was sent with; the server serves requests in any order,   *)
(* one database call at a time where a handler makes several, and answers  *)
(* arrive in any order.                                                    *)
(***************************************************************************)
EXTENDS Naturals, FiniteSets

CONSTANTS
  Tabs,        \* open browser tabs
  Roles,       \* roles the user may have, among "admin" and "operator"
  Codes,       \* recovery codes of one enrollment
  MaxSecrets,  \* bound on the enrollments begun
  Budget,      \* bound on what the user does
  MaxWaiting,  \* bound on the requests in flight when the user acts
  None         \* no token, no profile, no tab, no page to go to

ASSUME SessionAssumption ==
  /\ Roles \subseteq {"admin", "operator"}
  /\ MaxSecrets \in Nat /\ Budget \in Nat /\ MaxWaiting \in Nat
  /\ None \notin Tabs \cup {"partial", "full", "restricted", "verified"}
  /\ None \notin {"login", "profile", "incidents"}
  /\ "app" \notin Codes

VARIABLES
  role,    \* role of the user
  user,    \* the user's document: MFA enabled, secret, recovery codes
  issued,  \* enrollments begun so far
  app,     \* secret in the user's authenticator app
  store,   \* localStorage: user_token and user_profile
  cookie,  \* statora_auth
  tab,     \* what each tab shows
  calls,   \* requests in flight
  budget,  \* what the user may still do
  granted  \* whether the server ever issued a token with both factors (history)

vars == <<role, user, issued, app, store, cookie, tab, calls, budget, granted>>

\* A token says whether the second factor was verified.
Tokens == {"partial", "full"}
Secrets == Nat \ {0}

Protected == {"index", "profile", "incidents", "settings"}
AdminPaths == Protected \cup {"login"}
\* "signin" is /login, which shows the same page as /admin/login.
Paths == AdminPaths \cup {"signin", "public"}

\* A recovery code, or what the app shows for a secret (0 when mistyped).
CodesOf(s) == [secret : {s}, key : Codes]
Totp(s) == [secret |-> s, key |-> "app"]

Users == [enabled : BOOLEAN, secret : Nat, codes : SUBSET [secret : Secrets, key : Codes]]
Stores == [token : Tokens \cup {None}, profile : {"restricted", "verified", None}]
NoStore == [token |-> None, profile |-> None]

-----------------------------------------------------------------------------
(* Routes and guards *)

\* The state of ProtectedRoute: the token its effect last ran for, and what
\* its three state variables hold.
Guards == [token : Tokens \cup {None}, checked : BOOLEAN, authorized : BOOLEAN,
           verified : BOOLEAN]
NoGuard == [token |-> None, checked |-> FALSE, authorized |-> FALSE, verified |-> FALSE]

IsMfaVerified(s) == s.profile = "verified"
RequiresMfa(s) == s.profile = "restricted"

\* Faulty variant: the profile is left to the effect.
GuardWithoutProfile(s) == [NoGuard EXCEPT !.token = s.token,
  !.checked = s.token # None, !.authorized = s.token # None]

FreshGuard(s) ==
  [token |-> s.token, checked |-> s.token # None, authorized |-> s.token # None,
   verified |-> IsMfaVerified(s)]

\* The effect runs when the token has changed.  Without a token it only
\* starts the bootstrap and leaves the state as it is.
GuardEffect(g, s) ==
  IF s.token = g.token THEN g
  ELSE IF s.token = None THEN [g EXCEPT !.token = None]
  ELSE [token |-> s.token, checked |-> TRUE, authorized |-> TRUE,
        verified |-> IsMfaVerified(s)]

\* What a path renders: whether the layout is mounted, and where a Navigate
\* element sends the tab.  Loading is neither.
Views == [layout : BOOLEAN, to : {"login", "profile", "incidents", None}]
View(layout, to) == [layout |-> layout, to |-> to]

AdminIndexRedirect(s) ==
  IF ~IsMfaVerified(s) THEN "profile" ELSE IF role = "operator" THEN "incidents" ELSE None

\* A profile that is not stored has no role.
RoleRoute(s) == IF s.profile = None \/ role # "admin" THEN "incidents" ELSE None

ViewOf(p, g, s) ==
  IF p \notin Protected THEN View(FALSE, None)
  ELSE IF ~g.checked THEN View(FALSE, None)
  ELSE IF ~g.authorized THEN View(FALSE, "login")
  ELSE IF ~g.verified /\ p # "profile" THEN View(FALSE, "profile")
  ELSE View(TRUE, CASE p = "index" -> AdminIndexRedirect(s)
                    [] p = "settings" -> RoleRoute(s)
                    [] OTHER -> None)

\* AdminProfile: whether it has loaded and knows the profile, what /auth/me
\* said, and the step of the MFA panel.
Steps == {"idle", "setup-pending", "show", "verify-pending", "enabled", "disable-pending"}
Pages == [loaded : BOOLEAN, enabled : BOOLEAN, verified : BOOLEAN, step : Steps]
FreshPage == [loaded |-> FALSE, enabled |-> FALSE, verified |-> FALSE, step |-> "idle"]

\* AdminLogin: the password form, or the dialog that asks for the code.
Forms == {"password", "signing-in", "code", "verifying"}

TabStates == [path : Paths, guard : Guards,
              view : Views, form : Forms, page : Pages]

-----------------------------------------------------------------------------
(* Requests *)

Kinds == {"login", "logout", "me", "update", "setup", "verify", "recovery", "disable", "page"}

\* The request interceptor puts the stored token over any other; without one
\* the browser sends the cookie.
Credential(s, own) ==
  IF s.token # None THEN s.token ELSE IF own # None THEN own ELSE cookie

\* What an answer carries: a token, a new secret, or what /auth/me says.
NoData == [token |-> None, secret |-> 0, enabled |-> FALSE, verified |-> FALSE]

Data == [token : Tokens \cup {None}, secret : Nat, enabled : BOOLEAN, verified : BOOLEAN]

Requests ==
  [tab : Tabs \cup {None}, kind : Kinds,
   from : {"login", "guard", "layout", "profile", "index", "incidents", "settings"},
   cred : Tokens \cup {None}, arg : {"any", "admin", "index", None}, right : BOOLEAN,
   code : [secret : Nat, key : Codes \cup {"app"}] \cup {None},
   phase : {"sent", "challenge", "enrollment", "recovery", "disable"},
   snap : Users \cup {None}, status : {"none", "lost", "200", "400", "401", "403"},
   data : Data, live : BOOLEAN]

\* A request of tab t for the component `from`, about `arg`, with a password
\* that may be right and a code; `live` says whether that component is still
\* there to take the answer.
Submission(t, kind, from, cred, arg, right, code) ==
  [tab |-> t, kind |-> kind, from |-> from, cred |-> cred, arg |-> arg,
   right |-> right, code |-> code, phase |-> "sent", snap |-> None,
   status |-> "none", data |-> NoData, live |-> TRUE]
Call(t, kind, from, cred, arg) == Submission(t, kind, from, cred, arg, FALSE, None)

\* A tab after a navigation within the page to p, whose guard is g0: the effect
\* of a Navigate element runs first, then the guard's, and the result is shown.
Landed(p, g0, s) ==
  LET v0 == ViewOf(p, g0, s)
      p1 == IF v0.to = None THEN p ELSE v0.to
      g1 == IF p1 \in Protected THEN GuardEffect(g0, s) ELSE NoGuard
  IN [path |-> p1, guard |-> g1, view |-> ViewOf(p1, g1, s), form |-> "password",
      page |-> FreshPage]

Shows(v) == v.layout /\ v.to = None

\* What mounting sends: the guard asks whose the cookie is, the layout reads
\* the settings, AdminProfile the profile, and every other page its data.
Mounted(t, new, s, guardAsks, layoutMounts) ==
  LET Sent(kind, from, arg) == {Call(t, kind, from, Credential(s, None), arg)}
  IN (IF guardAsks THEN Sent("me", "guard", None) ELSE {})
     \cup (IF layoutMounts THEN Sent("page", "layout", "admin") ELSE {})
     \cup (IF ~Shows(new.view) THEN {}
           ELSE IF new.path = "profile" THEN Sent("me", "profile", None)
           ELSE Sent("page", new.path, IF new.path = "incidents" THEN "any" ELSE "admin"))

\* The components `gone` of tab t no longer take answers.
Detached(t, cs, gone) ==
  {IF c.tab = t /\ c.from \in gone THEN [c EXCEPT !.live = FALSE] ELSE c : c \in cs}

\* A load aborts the tab's requests.  A write that reached the server may still
\* be carried out, unseen.
Aborted(t, cs) ==
  {c \in cs : c.tab # t}
  \cup {[c EXCEPT !.tab = None, !.live = FALSE] :
          c \in {d \in cs : /\ d.tab = t /\ d.status = "none"
                            /\ d.kind \in {"setup", "verify", "recovery", "disable"}}}

\* Tab t, holding s, renders p; cs are the requests left in flight.
Navigates(t, p, s, cs) ==
  LET entering == tab[t].path \notin Protected
      g0 == IF p \notin Protected THEN NoGuard
            ELSE IF entering THEN FreshGuard(s) ELSE tab[t].guard
      new == Landed(p, g0, s)
      asks == new.path \in Protected /\ s.token = None
              /\ (entering \/ tab[t].guard.token # None)
      stays == tab[t].view.layout /\ ViewOf(p, g0, s).layout
      gone == {"login", "profile"}
              \cup (IF new.path \notin Protected \/ new.guard.token # tab[t].guard.token
                    THEN {"guard"} ELSE {})
  IN /\ tab' = [tab EXCEPT ![t] = new]
     /\ calls' = Detached(t, cs, gone) \cup Mounted(t, new, s, asks, new.view.layout /\ ~stays)
     /\ store' = s

Loads(t, p, s, cs) ==
  LET g == IF p \in Protected THEN FreshGuard(s) ELSE NoGuard
      new == [path |-> p, guard |-> g, view |-> ViewOf(p, g, s), form |-> "password",
              page |-> FreshPage]
  IN /\ tab' = [tab EXCEPT ![t] = new]
     /\ calls' = Aborted(t, cs)
                 \cup Mounted(t, new, s, p \in Protected /\ s.token = None, new.view.layout)
     /\ store' = s

\* The browser starts signed out, with the session of an earlier visit, or with
\* the cookie of a sign-in that never gave its code.
SetAuthSession == [token |-> "full", profile |-> "verified"]
Init ==
  /\ role \in Roles
  /\ user \in {[enabled |-> FALSE, secret |-> 0, codes |-> {}],
               [enabled |-> TRUE, secret |-> 1, codes |-> CodesOf(1)]}
  /\ issued = user.secret /\ app = user.secret
  /\ \/ store = NoStore /\ cookie = None /\ granted = FALSE
     \/ store = SetAuthSession /\ cookie = "full" /\ granted = TRUE
     \/ store = NoStore /\ cookie = "partial" /\ granted = FALSE /\ user.enabled
  /\ tab = [t \in Tabs |->
              [path |-> "public", guard |-> NoGuard, view |-> View(FALSE, None),
               form |-> "password", page |-> FreshPage]]
  /\ calls = {} /\ budget = Budget

-----------------------------------------------------------------------------
(* What the user does *)

Arrived(c, kind) == c \in calls /\ c.phase = "sent" /\ c.status = "none" /\ c.kind = kind

Acts ==
  /\ budget > 0 /\ budget' = budget - 1
  /\ Cardinality(calls) <= MaxWaiting
  /\ UNCHANGED <<role, user, issued, app, cookie, granted>>

\* A URL is typed or a page reloaded.
Open(t, p) == Acts /\ Loads(t, p, store, calls)

\* A link of the sidebar.
OperatorLinks == {"incidents", "profile"}
Links == IF store.profile # None /\ role = "operator" THEN OperatorLinks ELSE Protected
Click(t, p) ==
  /\ tab[t].view.layout /\ p \in Links \ {tab[t].path}
  /\ Acts /\ Navigates(t, p, store, calls)

Sends(t, kind, from, own, right, code) ==
  /\ calls' = calls \cup {Submission(t, kind, from, Credential(store, own), None, right, code)}
  /\ UNCHANGED store

\* AdminLogin: the form, or the dialog over it.
PasswordForm(t) == tab[t].path \in {"login", "signin"} /\ tab[t].form = "password"
CodeDialog(t) == tab[t].form = "code"

HandleSubmit(t, right) ==
  /\ PasswordForm(t)
  /\ Acts /\ tab' = [tab EXCEPT ![t].form = "signing-in"]
  /\ Sends(t, "login", "login", None, right, None)

LoginMfaVerify(t, code) ==
  /\ CodeDialog(t)
  /\ Acts /\ tab' = [tab EXCEPT ![t].form = "verifying"]
  /\ Sends(t, "verify", "login", "partial", FALSE, code)

HandleMfaCancel(t) ==
  /\ CodeDialog(t)
  /\ Acts /\ tab' = [tab EXCEPT ![t].form = "password"]
  /\ store' = NoStore /\ UNCHANGED calls

\* AdminProfile; nothing can be clicked while it loads.
OnProfile(t) == tab[t].path = "profile" /\ Shows(tab[t].view) /\ tab[t].page.loaded

\* The account form and the panels below it, of which at most one is enabled
\* and shown: to set MFA up, to confirm the secret shown, to verify a
\* restricted session, to disable MFA.
AccountForm(t) == OnProfile(t) /\ \A c \in calls : ~(c.tab = t /\ c.kind = "update" /\ c.live)
SetupPanel(t) == OnProfile(t) /\ ~tab[t].page.enabled /\ tab[t].page.step = "idle"
SecretPanel(t) == OnProfile(t) /\ tab[t].page.step = "show"
Restricted(pg) == pg.enabled /\ ~pg.verified
RestrictedPanel(t) ==
  OnProfile(t) /\ Restricted(tab[t].page) /\ tab[t].page.step # "verify-pending"
DisablePanel(t) ==
  /\ OnProfile(t) /\ tab[t].page.enabled /\ tab[t].page.verified
  /\ tab[t].page.step # "disable-pending"

ProfileSends(t, step, kind, right, code) ==
  /\ Acts /\ tab' = [tab EXCEPT ![t].page.step = step]
  /\ Sends(t, kind, "profile", None, right, code)

HandleProfileUpdate(t, right) ==
  /\ AccountForm(t)
  /\ ProfileSends(t, tab[t].page.step, "update", right, None)

HandleMfaSetup(t) ==
  /\ SetupPanel(t)
  /\ issued + Cardinality({c \in calls : Arrived(c, "setup")}) < MaxSecrets
  /\ ProfileSends(t, "setup-pending", "setup", FALSE, None)

CancelSetup(t) ==
  /\ SecretPanel(t)
  /\ Acts /\ tab' = [tab EXCEPT ![t].page.step = "idle"] /\ UNCHANGED <<store, calls>>

HandleMfaVerify(t, code) ==
  /\ SecretPanel(t) \/ RestrictedPanel(t)
  /\ ProfileSends(t, "verify-pending", "verify", FALSE, code)

HandleRecovery(t, code) ==
  /\ RestrictedPanel(t)
  /\ ProfileSends(t, "verify-pending", "recovery", FALSE, code)

HandleMfaDisable(t, right, code) ==
  /\ DisablePanel(t)
  /\ ProfileSends(t, "disable-pending", "disable", right, code)

HandleLogout(t) ==
  /\ tab[t].view.layout
  /\ Acts /\ UNCHANGED tab
  /\ Sends(t, "logout", "layout", None, FALSE, None)

-----------------------------------------------------------------------------
(* What the server does *)

\* The server moves request c on to d, or answers it.
Serves(c, d) ==
  /\ calls' = (calls \ {c}) \cup (IF d.status # "none" /\ d.tab = None THEN {} ELSE {d})
  /\ granted' = (granted \/ d.data.token = "full")
  /\ UNCHANGED <<role, app, store, cookie, tab, budget>>
Answer(c, status, data) == [c EXCEPT !.status = status, !.data = data, !.snap = None]
Fails(c, status) == Serves(c, Answer(c, status, NoData)) /\ UNCHANGED <<user, issued>>
Gives(c, data) == Serves(c, Answer(c, "200", data)) /\ UNCHANGED <<user, issued>>
TokenData(token) == [NoData EXCEPT !.token = token]

NeedsToken(c) == c.kind \notin {"login", "logout"}

\* AuthMiddleware.
Unauthenticated(c) ==
  /\ Arrived(c, c.kind) /\ NeedsToken(c) /\ c.cred = None
  /\ Fails(c, "401")

Login(c) ==
  /\ Arrived(c, "login")
  /\ IF c.right THEN Gives(c, TokenData(IF user.enabled THEN "partial" ELSE "full"))
     ELSE Fails(c, "401")

Logout(c) == Arrived(c, "logout") /\ Gives(c, NoData)

GetMe(c) ==
  /\ Arrived(c, "me") /\ c.cred # None
  /\ Gives(c, [NoData EXCEPT !.enabled = user.enabled, !.verified = (c.cred = "full")])

\* A new password needs the old one.
UpdateProfile(c) ==
  /\ Arrived(c, "update") /\ c.cred # None
  /\ IF c.right THEN Gives(c, NoData) ELSE Fails(c, "401")

\* RequireMFAVerified, then RequireRoles.
ReadPage(c) ==
  /\ Arrived(c, "page") /\ c.cred # None
  /\ IF c.cred # "full" \/ (c.arg = "admin" /\ role # "admin") THEN Fails(c, "403")
     ELSE Gives(c, NoData)

\* BeginMFAEnrollment replaces the secret and the codes.
BeginMFAEnrollment(new) == [enabled |-> FALSE, secret |-> new, codes |-> CodesOf(new)]

StartEnrollment(c) ==
  /\ Arrived(c, "setup") /\ c.cred # None
  /\ issued' = issued + 1
  /\ user' = BeginMFAEnrollment(issued + 1)
  /\ Serves(c, Answer(c, "200", [NoData EXCEPT !.secret = issued + 1]))

\* The handler looks whether MFA is enabled before it chooses the service call.
ChooseVerification(c) ==
  /\ Arrived(c, "verify") /\ c.cred # None
  /\ Serves(c, [c EXCEPT !.phase = IF user.enabled THEN "challenge" ELSE "enrollment"])
  /\ UNCHANGED <<user, issued>>

\* FindByID of the service call.
ReadUser(c) ==
  /\ c \in calls /\ c.status = "none" /\ c.snap = None /\ c.cred # None
  /\ \/ c.phase \in {"challenge", "enrollment"}
     \/ c.kind \in {"recovery", "disable"}
  /\ Serves(c, [c EXCEPT !.snap = user,
                         !.phase = IF c.phase = "sent" THEN c.kind ELSE c.phase])
  /\ UNCHANGED <<user, issued>>

TotpOK(u, code) == u.secret # 0 /\ code = Totp(u.secret)

\* EnableMFA writes the flag alone.
EnableMFA(u) == [u EXCEPT !.enabled = TRUE]
VerifyEnrollment(c) ==
  /\ c \in calls /\ c.phase = "enrollment" /\ c.snap # None /\ c.status = "none"
  /\ IF TotpOK(c.snap, c.code)
     THEN user' = EnableMFA(user) /\ issued' = issued /\ Serves(c, Answer(c, "200", TokenData("full")))
     ELSE Fails(c, "400")

\* ReplaceRecoveryCodes writes what was read, less the code.
ReplaceRecoveryCodes(u, read, code) == [u EXCEPT !.codes = read \ {code}]
VerifyChallenge(c) ==
  /\ c \in calls /\ c.phase \in {"challenge", "recovery"} /\ c.snap # None /\ c.status = "none"
  /\ IF ~c.snap.enabled THEN Fails(c, "403")
     ELSE IF TotpOK(c.snap, c.code) THEN Gives(c, TokenData("full"))
     ELSE IF c.code \in c.snap.codes
     THEN /\ user' = ReplaceRecoveryCodes(user, c.snap.codes, c.code) /\ issued' = issued
          /\ Serves(c, Answer(c, "200", TokenData("full")))
     ELSE Fails(c, "400")

DisabledMFA == [enabled |-> FALSE, secret |-> 0, codes |-> {}]
DisableMFA(c) ==
  /\ c \in calls /\ c.kind = "disable" /\ c.snap # None /\ c.status = "none"
  /\ IF ~c.right THEN Fails(c, "401")
     ELSE IF ~c.snap.enabled THEN Fails(c, "403")
     ELSE IF ~TotpOK(c.snap, c.code) THEN Fails(c, "400")
     ELSE user' = DisabledMFA /\ issued' = issued /\ Serves(c, Answer(c, "200", NoData))

\* The network loses a request or its answer.
Lose(c) ==
  /\ c \in calls /\ c.tab # None /\ c.status # "lost"
  /\ c.status # "none" \/ (c.phase = "sent" /\ c.snap = None)
  /\ budget > 0 /\ budget' = budget - 1
  /\ calls' = (calls \ {c}) \cup {Answer(c, "lost", NoData)}
  /\ UNCHANGED <<role, user, issued, app, store, cookie, tab, granted>>

-----------------------------------------------------------------------------
(* What the browser does with an answer *)

Rest(c) == calls \ {c}
Quiet == UNCHANGED <<role, user, issued, budget, granted>>
OK(c) == c.status = "200"

\* The response interceptor.
SendsToLogin(c) == c.status = "401" /\ tab[c.tab].path \in AdminPaths
\* Faulty variant: whatever the stored profile says.
SendsAnyToProfile(c) == c.status = "403" /\ tab[c.tab].path \in AdminPaths
SendsToProfile(c) == c.status = "403" /\ tab[c.tab].path \in AdminPaths /\ RequiresMfa(store)

Intercept(c) ==
  /\ c \in calls /\ c.tab # None
  /\ \/ SendsToLogin(c) /\ Loads(c.tab, "login", NoStore, Rest(c))
     \/ SendsToProfile(c) /\ Loads(c.tab, "profile", store, Rest(c))
  /\ Quiet /\ UNCHANGED <<app, cookie>>

\* The answer reaches the component that asked.
Takes(c, kind) ==
  /\ c \in calls /\ c.tab # None /\ c.kind = kind /\ c.status # "none"
  /\ ~SendsToLogin(c) /\ ~SendsToProfile(c) /\ Quiet

\* AdminLogin: a sign-in stores the session and calls navigate('/admin'), whether
\* the login page is still there or not; anything else is for its form alone.
FormTakes(c, form) ==
  /\ tab' = IF c.live THEN [tab EXCEPT ![c.tab].form = form] ELSE tab
  /\ calls' = Rest(c) /\ UNCHANGED store

LoginAnswered(c) ==
  /\ Takes(c, "login") /\ UNCHANGED app
  /\ cookie' = IF OK(c) THEN c.data.token ELSE cookie
  /\ IF c.data.token = "full" THEN Navigates(c.tab, "index", SetAuthSession, Rest(c))
     ELSE FormTakes(c, IF OK(c) THEN "code" ELSE "password")

LoginCodeAnswered(c) ==
  /\ Takes(c, "verify") /\ c.from = "login" /\ UNCHANGED app
  /\ cookie' = IF OK(c) THEN c.data.token ELSE cookie
  /\ IF OK(c) THEN Navigates(c.tab, "index", SetAuthSession, Rest(c)) ELSE FormTakes(c, "code")

\* bootstrapAuth.  A cancelled one changes nothing.
\* Faulty variant: takes mfaEnabled for mfaVerified.
StoreMfaEnabled(me) ==
  [store EXCEPT !.profile = IF me.enabled THEN "verified" ELSE "restricted"]
StoreProfileFromAuthMe(me) ==
  [store EXCEPT !.profile = IF me.verified THEN "verified" ELSE "restricted"]
BootstrapAnswered(c) ==
  /\ Takes(c, "me") /\ c.from = "guard" /\ UNCHANGED <<app, cookie>>
  /\ IF ~c.live THEN calls' = Rest(c) /\ UNCHANGED <<store, tab>>
     ELSE LET t == c.tab
              s == IF OK(c) THEN StoreProfileFromAuthMe(c.data) ELSE store
              g == [tab[t].guard EXCEPT
                      !.checked = TRUE, !.authorized = OK(c),
                      !.verified = IF OK(c) THEN IsMfaVerified(s) ELSE @]
              new == Landed(tab[t].path, g, s)
              stays == tab[t].view.layout /\ new.view.layout /\ new.path = tab[t].path
          IN /\ store' = s
             /\ tab' = [tab EXCEPT ![t] =
                          IF stays THEN [tab[t] EXCEPT !.guard = new.guard] ELSE new]
             /\ calls' = Detached(t, Rest(c), IF stays THEN {} ELSE {"profile"})
                         \cup (IF stays THEN {}
                               ELSE Mounted(t, new, s, FALSE, new.view.layout))

\* fetchProfile, and what awaits it: after a verification, navigate('/admin'),
\* whether the page is still there or not.
ProfileAnswered(c) ==
  /\ Takes(c, "me") /\ c.from = "profile" /\ UNCHANGED <<app, cookie>>
  /\ IF c.arg = "index" THEN Navigates(c.tab, "index", store, Rest(c))
     ELSE /\ calls' = Rest(c) /\ UNCHANGED store
          /\ tab' = IF ~c.live THEN tab
                    ELSE IF OK(c)
                    THEN [tab EXCEPT ![c.tab].page =
                            [loaded |-> TRUE, enabled |-> c.data.enabled,
                             verified |-> c.data.verified,
                             step |-> IF c.data.enabled THEN "enabled" ELSE "idle"]]
                    ELSE [tab EXCEPT ![c.tab].page.loaded = TRUE]

\* The page goes to a step and reads the profile again, if `again`.
ProfileTakes(c, step, s, again, then) ==
  /\ store' = s
  /\ tab' = IF ~c.live THEN tab
            ELSE [tab EXCEPT ![c.tab].page.step = step, ![c.tab].page.loaded = ~again]
  /\ calls' = Rest(c) \cup
              (IF again THEN {[Call(c.tab, "me", "profile", Credential(s, None), then)
                               EXCEPT !.live = c.live]} ELSE {})

UpdateAnswered(c) ==
  /\ Takes(c, "update") /\ UNCHANGED <<app, cookie>>
  /\ ProfileTakes(c, tab[c.tab].page.step, store, OK(c), None)

\* The user scans the secret that is shown.
SetupAnswered(c) ==
  /\ Takes(c, "setup") /\ UNCHANGED cookie
  /\ app' = IF OK(c) /\ c.live THEN c.data.secret ELSE app
  /\ ProfileTakes(c, IF OK(c) THEN "show" ELSE "idle", store, FALSE, None)

VerifyAnswered(c) ==
  /\ c.from = "profile" /\ (Takes(c, "verify") \/ Takes(c, "recovery")) /\ UNCHANGED app
  /\ cookie' = IF OK(c) THEN c.data.token ELSE cookie
  /\ IF OK(c) THEN ProfileTakes(c, "enabled", SetAuthSession, TRUE, "index")
     ELSE ProfileTakes(c, IF tab[c.tab].page.enabled THEN "enabled" ELSE "show",
                       store, FALSE, None)

DisableAnswered(c) ==
  /\ Takes(c, "disable") /\ UNCHANGED <<app, cookie>>
  /\ IF OK(c)
     THEN ProfileTakes(c, "idle", [store EXCEPT !.profile = IF @ = None THEN None
                                                            ELSE "restricted"], TRUE, None)
     ELSE ProfileTakes(c, "enabled", store, FALSE, None)

\* Local state is cleared and the tab leaves whether the request succeeded or not.
LogoutAnswered(c) ==
  /\ Takes(c, "logout") /\ UNCHANGED app
  /\ cookie' = IF OK(c) THEN None ELSE cookie
  /\ Navigates(c.tab, "login", NoStore, Rest(c))

PageAnswered(c) ==
  /\ Takes(c, "page") /\ calls' = Rest(c) /\ UNCHANGED <<app, store, cookie, tab>>

\* A Navigate element that the last render left.
Redirect(t) ==
  /\ tab[t].view.to # None
  /\ Navigates(t, tab[t].view.to, store, calls)
  /\ Quiet /\ UNCHANGED <<app, cookie>>

-----------------------------------------------------------------------------
UserActs(t) ==
  \/ \E p \in Paths : Open(t, p) \/ Click(t, p)
  \/ \E right \in BOOLEAN : HandleSubmit(t, right) \/ HandleProfileUpdate(t, right)
  \/ \E code \in {Totp(0), Totp(app)} :
       \/ LoginMfaVerify(t, code) \/ HandleMfaVerify(t, code)
       \/ \E right \in BOOLEAN : HandleMfaDisable(t, right, code)
  \/ \E code \in CodesOf(app) : HandleRecovery(t, code)
  \/ HandleMfaCancel(t) \/ HandleMfaSetup(t) \/ CancelSetup(t) \/ HandleLogout(t)

ServerActs(c) ==
  \/ Unauthenticated(c) \/ Login(c) \/ Logout(c) \/ GetMe(c) \/ UpdateProfile(c)
  \/ ReadPage(c) \/ StartEnrollment(c) \/ ChooseVerification(c) \/ ReadUser(c)
  \/ VerifyEnrollment(c) \/ VerifyChallenge(c) \/ DisableMFA(c)

BrowserActs(c) ==
  \/ Intercept(c) \/ LoginAnswered(c) \/ LoginCodeAnswered(c) \/ BootstrapAnswered(c)
  \/ ProfileAnswered(c) \/ UpdateAnswered(c) \/ SetupAnswered(c) \/ VerifyAnswered(c)
  \/ DisableAnswered(c) \/ LogoutAnswered(c) \/ PageAnswered(c)

Next ==
  \/ \E t \in Tabs : UserActs(t) \/ Redirect(t)
  \/ \E c \in calls : ServerActs(c) \/ BrowserActs(c) \/ Lose(c)

Spec == Init /\ [][Next]_vars

\* The server and the browser do what they have to; the user and the network
\* owe nothing.
FairSpec ==
  /\ Spec
  /\ WF_vars(\E c \in calls : ServerActs(c))
  /\ WF_vars(\E c \in calls : BrowserActs(c))
  /\ \A t \in Tabs : WF_vars(Redirect(t))

-----------------------------------------------------------------------------
(* Correctness *)

\* The types of the tabs, of what they share, and of the requests in flight.
TypeOK ==
  /\ role \in {"admin", "operator"} /\ user \in Users /\ issued \in Nat /\ app \in Nat
  /\ store \in Stores /\ cookie \in Tokens \cup {None}
  /\ tab \in [Tabs -> TabStates] /\ calls \subseteq Requests
  /\ budget \in Nat /\ granted \in BOOLEAN

\* Admin pages other than the profile are shown only in a browser that was
\* once given a token with both factors ("completed MFA verification before
\* most admin routes can render"), whatever tabs, cookies, stored profiles and
\* late answers are about (App.tsx ProtectedRoute).
AdminPagesNeedBothFactors ==
  \A t \in Tabs : Shows(tab[t].view) /\ tab[t].path \in Protected \ {"profile"} => granted

\* A sign-in completed on the login page ends inside the admin pages: the
\* guard that mounts there reads the session just stored, and does not send
\* the tab to the profile or back to the login (AdminLogin, setAuthSession).
\* The page is still the one that asked: once a late navigate('/admin') of the
\* profile page has left it, a guard is there already, and one that was given
\* the same token, unverified, stays so (the effect runs when the token changes).
SignsIn(c) ==
  /\ c.tab # None /\ c.live /\ c.from = "login" /\ c.data.token = "full"
  /\ LoginAnswered(c) \/ LoginCodeAnswered(c)
SignInArrives ==
  [][\A c \in calls :
       SignsIn(c) => Shows(tab'[c.tab].view) /\ tab'[c.tab].path \in Protected \ {"profile"}]_vars

\* Nobody's business left: no request in flight, no redirect to follow.
Settled(t) == tab[t].view.to = None /\ \A c \in calls : c.tab # t

\* Redirects and reloads come to an end once the user stops, unless the stored
\* profile is one that still needs its second factor (lib/api.ts interceptors
\* against ProtectedRoute and the layout's own request).
SettlesUnlessRestricted ==
  <>[](\A t \in Tabs : Settled(t)) \/ []<>RequiresMfa(store)

\* docs/architecture.md: "MFA-related authorization failures redirect to the
\* profile page".  The page should then open, for the user to verify there.
ProfilePageOpens ==
  \A t \in Tabs :
    (tab[t].path = "profile" /\ RequiresMfa(store))
      ~> (tab[t].page.loaded /\ Settled(t)) \/ tab[t].path # "profile" \/ ~RequiresMfa(store)
=============================================================================
