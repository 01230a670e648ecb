------------------------ MODULE AdminSession_proofs ------------------------
(***************************************************************************)
(* Proofs about AdminSession, for every number of tabs, requests,          *)
(* enrollments and acts of the user.                                       *)
(***************************************************************************)
EXTENDS AdminSession, TLAPS

(***************************************************************************)
(* AdminPagesNeedBothFactors is not inductive: what a tab shows comes from *)
(* its guard, the guard's from the stored profile, that from an answer,    *)
(* the answer from the credential its request was sent with, and the       *)
(* credential from the store or the cookie.  Each of these sets holds what *)
(* that place may hold, g telling whether both factors were ever given.    *)
(***************************************************************************)
SafeTokens(g) == {k \in Tokens \cup {None} : k = "full" => g}
SafeStores(g) == {s \in Stores : s.token = "full" \/ s.profile = "verified" => g}
SafeGuards(g) == {x \in Guards : x.verified => g}
ShowsAdmin(x) == Shows(x.view) /\ x.path \in Protected \ {"profile"}
SafeTabs(g) == {x \in TabStates : x.guard.verified \/ ShowsAdmin(x) => g}
SafeData(g) == {d \in Data : d.token = "full" \/ d.verified => g}
VerifiedBy(c) == c.kind \in {"verify", "recovery"} /\ c.status = "200"
SafeRequests(g) ==
  {c \in Requests : c.cred = "full" \/ c.data \notin SafeData(FALSE) \/ VerifiedBy(c) => g}

SessionInv ==
  /\ TypeOK
  /\ store \in SafeStores(granted) /\ cookie \in SafeTokens(granted)
  /\ tab \in [Tabs -> SafeTabs(granted)] /\ calls \subseteq SafeRequests(granted)

\* A server act may only widen what is safe.
LEMMA SafeGrows ==
  ASSUME NEW g \in BOOLEAN, NEW h \in BOOLEAN, g => h
  PROVE  /\ SafeStores(g) \subseteq SafeStores(h) /\ SafeTokens(g) \subseteq SafeTokens(h)
         /\ SafeTabs(g) \subseteq SafeTabs(h) /\ SafeRequests(g) \subseteq SafeRequests(h)
BY DEF SafeStores, SafeTokens, SafeTabs, SafeRequests

(***************************************************************************)
(* What the operators a step is built from return.                         *)
(***************************************************************************)
LEMMA EmptyStore == \A g \in BOOLEAN : NoStore \in SafeStores(g)
BY SessionAssumption DEF NoStore, SafeStores, Stores, Tokens

LEMMA SessionStored == SetAuthSession \in SafeStores(TRUE)
BY DEF SetAuthSession, SafeStores, Stores, Tokens

LEMMA GuardsSafe ==
  ASSUME NEW g \in BOOLEAN, NEW s \in SafeStores(g), NEW x \in SafeGuards(g)
  PROVE  /\ NoGuard \in SafeGuards(g) /\ FreshGuard(s) \in SafeGuards(g)
         /\ GuardEffect(x, s) \in SafeGuards(g)
<1>1. NoGuard \in SafeGuards(g)
  BY DEF NoGuard, SafeGuards, Guards
<1>2. FreshGuard(s) \in SafeGuards(g)
  BY DEF FreshGuard, IsMfaVerified, SafeStores, Stores, SafeGuards, Guards
<1>3. GuardEffect(x, s) \in SafeGuards(g)
  BY DEF GuardEffect, IsMfaVerified, SafeStores, Stores, SafeGuards, Guards
<1>4. QED
  BY <1>1, <1>2, <1>3

LEMMA ViewSafe ==
  ASSUME NEW g \in BOOLEAN, NEW s, NEW x \in SafeGuards(g), NEW p \in Paths
  PROVE  /\ ViewOf(p, x, s) \in Views
         /\ p \in Protected \ {"profile"} /\ ViewOf(p, x, s).layout => g
         /\ ViewOf(p, x, s).layout => p \in Protected
<1>1. \A l \in BOOLEAN : \A to \in {"login", "profile", "incidents", None} :
        View(l, to) \in Views /\ View(l, to).layout = l
  BY DEF View, Views
<1>2. /\ AdminIndexRedirect(s) \in {"login", "profile", "incidents", None}
      /\ RoleRoute(s) \in {"login", "profile", "incidents", None}
  BY DEF AdminIndexRedirect, RoleRoute
<1>3. p \in Protected => p \in {"index", "profile", "incidents", "settings"}
  BY DEF Protected
<1>4. QED
  BY <1>1, <1>2, <1>3 DEF ViewOf, SafeGuards

\* Where a navigation ends.
LEMMA LandedSafe ==
  ASSUME NEW g \in BOOLEAN, NEW s \in SafeStores(g), NEW x \in SafeGuards(g), NEW p \in Paths
  PROVE  /\ Landed(p, x, s) \in SafeTabs(g)
         /\ Landed(p, x, s).view.layout => Landed(p, x, s).path \in Protected
<1> DEFINE v0 == ViewOf(p, x, s)
           p1 == IF v0.to = None THEN p ELSE v0.to
           g1 == IF p1 \in Protected THEN GuardEffect(x, s) ELSE NoGuard
           v1 == ViewOf(p1, g1, s)
<1>1. v0 \in Views
  BY ViewSafe
<1>2. p1 \in Paths
  BY <1>1 DEF Views, Paths, AdminPaths, Protected
<1>3. g1 \in SafeGuards(g)
  BY GuardsSafe
<1>4. /\ v1 \in Views /\ (p1 \in Protected \ {"profile"} /\ v1.layout => g)
      /\ v1.layout => p1 \in Protected
  BY <1>2, <1>3, ViewSafe
<1>5. Landed(p, x, s) = [path |-> p1, guard |-> g1, view |-> v1, form |-> "password",
                         page |-> FreshPage]
  BY DEF Landed
<1>6. FreshPage \in Pages
  BY DEF FreshPage, Pages, Steps
<1> HIDE DEF p1, g1, v1
<1>7. QED
  BY <1>2, <1>3, <1>4, <1>5, <1>6 DEF SafeTabs, TabStates, SafeGuards, ShowsAdmin, Shows, Forms

\* A load of the page.
LEMMA LoadedSafe ==
  ASSUME NEW g \in BOOLEAN, NEW s \in SafeStores(g), NEW p \in Paths, NEW x,
         x = LET y == IF p \in Protected THEN FreshGuard(s) ELSE NoGuard
             IN [path |-> p, guard |-> y, view |-> ViewOf(p, y, s), form |-> "password",
                 page |-> FreshPage]
  PROVE  x \in SafeTabs(g) /\ (x.view.layout => x.path \in Protected)
<1> DEFINE y == IF p \in Protected THEN FreshGuard(s) ELSE NoGuard
           v == ViewOf(p, y, s)
<1>1. y \in SafeGuards(g)
  <2>1. NoGuard \in SafeGuards(g)
    BY DEF NoGuard, SafeGuards, Guards
  <2>2. QED
    BY <2>1, GuardsSafe
<1>2. /\ v \in Views /\ (p \in Protected \ {"profile"} /\ v.layout => g)
      /\ v.layout => p \in Protected
  BY <1>1, ViewSafe
<1>3. FreshPage \in Pages
  BY DEF FreshPage, Pages, Steps
<1>4. x = [path |-> p, guard |-> y, view |-> v, form |-> "password", page |-> FreshPage]
  OBVIOUS
<1> HIDE DEF y, v
<1>5. QED
  BY <1>1, <1>2, <1>3, <1>4 DEF SafeTabs, TabStates, SafeGuards, ShowsAdmin, Shows, Forms

LEMMA CredentialSafe ==
  ASSUME NEW g \in BOOLEAN, NEW s \in SafeStores(g), cookie \in SafeTokens(g),
         NEW own \in {"partial", None}
  PROVE  Credential(s, own) \in SafeTokens(g)
BY SessionAssumption DEF Credential, SafeStores, Stores, SafeTokens, Tokens

Senders == {"login", "guard", "layout", "profile", "index", "incidents", "settings"}
Written == [secret : Nat, key : Codes \cup {"app"}] \cup {None}

LEMMA SubmissionSafe ==
  ASSUME NEW g \in BOOLEAN, NEW t \in Tabs, NEW kind \in Kinds, NEW from \in Senders,
         NEW cred \in SafeTokens(g), NEW arg \in {"any", "admin", "index", None},
         NEW right \in BOOLEAN, NEW code \in Written
  PROVE  Submission(t, kind, from, cred, arg, right, code) \in SafeRequests(g)
<1>1. NoData \in SafeData(FALSE)
  BY SessionAssumption DEF NoData, SafeData, Data, Tokens
<1>2. Submission(t, kind, from, cred, arg, right, code) \in Requests
  BY <1>1 DEF Submission, Requests, SafeData, SafeTokens, Senders, Written
<1>3. QED
  BY <1>1, <1>2 DEF Submission, SafeRequests, SafeTokens, VerifiedBy

LEMMA CallSafe ==
  ASSUME NEW g \in BOOLEAN, NEW t \in Tabs, NEW kind \in Kinds, NEW from \in Senders,
         NEW cred \in SafeTokens(g), NEW arg \in {"any", "admin", "index", None}
  PROVE  Call(t, kind, from, cred, arg) \in SafeRequests(g)
BY SubmissionSafe DEF Call, Written

LEMMA MountedSafe ==
  ASSUME NEW g \in BOOLEAN, NEW t \in Tabs, NEW x \in SafeTabs(g), NEW s \in SafeStores(g),
         cookie \in SafeTokens(g), x.view.layout => x.path \in Protected,
         NEW asks, NEW mounts
  PROVE  Mounted(t, x, s, asks, mounts) \subseteq SafeRequests(g)
<1>1. Credential(s, None) \in SafeTokens(g)
  BY CredentialSafe
<1>2. {"me", "page"} \subseteq Kinds
  BY DEF Kinds
<1>3. /\ Call(t, "me", "guard", Credential(s, None), None) \in SafeRequests(g)
      /\ Call(t, "page", "layout", Credential(s, None), "admin") \in SafeRequests(g)
      /\ Call(t, "me", "profile", Credential(s, None), None) \in SafeRequests(g)
  BY <1>1, <1>2, CallSafe DEF Senders
<1>4. ASSUME x.view.layout, x.path # "profile"
      PROVE  Call(t, "page", x.path, Credential(s, None),
                  IF x.path = "incidents" THEN "any" ELSE "admin") \in SafeRequests(g)
  <2>1. x.path \in Senders
    BY <1>4 DEF Protected, Senders
  <2>2. QED
    BY <1>1, <1>2, <2>1, CallSafe
<1>5. QED
  BY <1>3, <1>4 DEF Mounted, Shows

\* A request that changes in neither credential nor answer stays safe.
LEMMA MovedSafe ==
  ASSUME NEW g \in BOOLEAN, NEW c \in SafeRequests(g), NEW d \in Requests,
         d.cred = c.cred, d.data = c.data, d.kind = c.kind, d.status = c.status
  PROVE  d \in SafeRequests(g)
BY DEF SafeRequests, VerifiedBy

LEMMA Dropped ==
  ASSUME NEW g \in BOOLEAN, NEW c \in SafeRequests(g)
  PROVE  /\ [c EXCEPT !.live = FALSE] \in SafeRequests(g)
         /\ [c EXCEPT !.tab = None, !.live = FALSE] \in SafeRequests(g)
<1> DEFINE d == [c EXCEPT !.live = FALSE]
           e == [c EXCEPT !.tab = None, !.live = FALSE]
<1>1. c \in Requests
  BY DEF SafeRequests
<1>2. /\ d \in Requests /\ d.cred = c.cred /\ d.data = c.data /\ d.kind = c.kind
      /\ d.status = c.status
  BY <1>1 DEF Requests
<1>3. /\ e \in Requests /\ e.cred = c.cred /\ e.data = c.data /\ e.kind = c.kind
      /\ e.status = c.status
  BY <1>1 DEF Requests
<1> HIDE DEF d, e
<1>4. d \in SafeRequests(g) /\ e \in SafeRequests(g)
  BY <1>2, <1>3, MovedSafe
<1>5. QED
  BY <1>4 DEF d, e

LEMMA DetachedSafe ==
  ASSUME NEW g \in BOOLEAN, NEW t, NEW cs \in SUBSET SafeRequests(g), NEW gone
  PROVE  Detached(t, cs, gone) \subseteq SafeRequests(g)
BY Dropped DEF Detached

LEMMA AbortedSafe ==
  ASSUME NEW g \in BOOLEAN, NEW t, NEW cs \in SUBSET SafeRequests(g)
  PROVE  Aborted(t, cs) \subseteq SafeRequests(g)
BY Dropped DEF Aborted

(***************************************************************************)
(* What a step of the browser leaves safe, and how that gives the          *)
(* invariant.                                                              *)
(***************************************************************************)
Kept ==
  /\ store' \in SafeStores(granted) /\ tab' \in [Tabs -> SafeTabs(granted)]
  /\ calls' \subseteq SafeRequests(granted)
Rested == role' = role /\ user' \in Users /\ issued' \in Nat /\ app' \in Nat /\ budget' \in Nat

LEMMA KeptInv ==
  ASSUME SessionInv, Kept, Rested, granted' = granted, cookie' \in SafeTokens(granted)
  PROVE  SessionInv'
<1>1. TypeOK'
  <2>1. store' \in Stores /\ cookie' \in Tokens \cup {None} /\ calls' \subseteq Requests
    BY DEF Kept, SafeStores, SafeTokens, SafeRequests
  <2>2. tab' \in [Tabs -> TabStates]
    BY DEF Kept, SafeTabs
  <2>3. role' \in {"admin", "operator"} /\ granted' \in BOOLEAN
    BY Zenon DEF SessionInv, TypeOK, Rested
  <2>4. QED
    BY <2>1, <2>2, <2>3 DEF TypeOK, Rested
<1>2. QED
  BY <1>1 DEF SessionInv, Kept

LEMMA NavigatesKept ==
  ASSUME SessionInv, NEW t \in Tabs, NEW p \in Paths, NEW s \in SafeStores(granted),
         NEW cs \in SUBSET SafeRequests(granted), Navigates(t, p, s, cs)
  PROVE  Kept
<1> DEFINE entering == tab[t].path \notin Protected
           g0 == IF p \notin Protected THEN NoGuard
                 ELSE IF entering THEN FreshGuard(s) ELSE tab[t].guard
           new == Landed(p, g0, s)
           asks == new.path \in Protected /\ s.token = None
                   /\ (entering \/ tab[t].guard.token # None)
           stays == tab[t].view.layout /\ ViewOf(p, g0, s).layout
           gone == {"login", "profile"}
                   \cup (IF new.path \notin Protected \/ new.guard.token # tab[t].guard.token
                         THEN {"guard"} ELSE {})
<1>0. granted \in BOOLEAN /\ cookie \in SafeTokens(granted) /\ tab \in [Tabs -> SafeTabs(granted)]
  BY Zenon DEF SessionInv, TypeOK
<1>1. tab[t].guard \in SafeGuards(granted)
  BY <1>0 DEF SafeTabs, TabStates, SafeGuards
<1>2. g0 \in SafeGuards(granted)
  BY <1>0, <1>1, GuardsSafe
<1>3. /\ tab' = [tab EXCEPT ![t] = new]
      /\ calls' = Detached(t, cs, gone) \cup Mounted(t, new, s, asks, new.view.layout /\ ~stays)
      /\ store' = s
  BY DEF Navigates
<1> HIDE DEF g0
<1>4. new \in SafeTabs(granted) /\ (new.view.layout => new.path \in Protected)
  BY <1>0, <1>2, LandedSafe
<1> HIDE DEF new, asks, stays, gone
<1>5. Mounted(t, new, s, asks, new.view.layout /\ ~stays) \subseteq SafeRequests(granted)
  BY <1>0, <1>4, MountedSafe
<1>6. Detached(t, cs, gone) \subseteq SafeRequests(granted)
  BY <1>0, DetachedSafe
<1>7. QED
  BY <1>0, <1>3, <1>4, <1>5, <1>6 DEF Kept

LEMMA LoadsKept ==
  ASSUME SessionInv, NEW t \in Tabs, NEW p \in Paths, NEW s \in SafeStores(granted),
         NEW cs \in SUBSET SafeRequests(granted), Loads(t, p, s, cs)
  PROVE  Kept
<1> DEFINE g == IF p \in Protected THEN FreshGuard(s) ELSE NoGuard
           new == [path |-> p, guard |-> g, view |-> ViewOf(p, g, s), form |-> "password",
                   page |-> FreshPage]
           asks == p \in Protected /\ s.token = None
<1>0. granted \in BOOLEAN /\ cookie \in SafeTokens(granted) /\ tab \in [Tabs -> SafeTabs(granted)]
  BY Zenon DEF SessionInv, TypeOK
<1>1. /\ tab' = [tab EXCEPT ![t] = new]
      /\ calls' = Aborted(t, cs) \cup Mounted(t, new, s, asks, new.view.layout)
      /\ store' = s
  BY DEF Loads
<1>2. new \in SafeTabs(granted) /\ (new.view.layout => new.path \in Protected)
  BY <1>0, LoadedSafe
<1> HIDE DEF new, asks
<1>3. Mounted(t, new, s, asks, new.view.layout) \subseteq SafeRequests(granted)
  BY <1>0, <1>2, MountedSafe
<1>4. Aborted(t, cs) \subseteq SafeRequests(granted)
  BY <1>0, AbortedSafe
<1>5. QED
  BY <1>0, <1>1, <1>2, <1>3, <1>4 DEF Kept

\* A tab whose form or page alone changes.
LEMMA FormSafe ==
  ASSUME SessionInv, NEW t \in Tabs, NEW f \in Forms
  PROVE  [tab EXCEPT ![t].form = f] \in [Tabs -> SafeTabs(granted)]
<1>1. \A x \in SafeTabs(granted) : [x EXCEPT !.form = f] \in SafeTabs(granted)
  <2> SUFFICES ASSUME NEW x \in SafeTabs(granted) PROVE [x EXCEPT !.form = f] \in SafeTabs(granted)
    OBVIOUS
  <2>1. [x EXCEPT !.form = f] \in TabStates
    BY DEF SafeTabs, TabStates
  <2>2. QED
    BY <2>1 DEF SafeTabs, TabStates, ShowsAdmin
<1>2. tab \in [Tabs -> SafeTabs(granted)]
  BY DEF SessionInv
<1>3. QED
  BY <1>1, <1>2

LEMMA PageSafe ==
  ASSUME SessionInv, NEW t \in Tabs, NEW y \in Pages
  PROVE  [tab EXCEPT ![t].page = y] \in [Tabs -> SafeTabs(granted)]
<1>1. \A x \in SafeTabs(granted) : [x EXCEPT !.page = y] \in SafeTabs(granted)
  <2> SUFFICES ASSUME NEW x \in SafeTabs(granted) PROVE [x EXCEPT !.page = y] \in SafeTabs(granted)
    OBVIOUS
  <2>1. [x EXCEPT !.page = y] \in TabStates
    BY DEF SafeTabs, TabStates
  <2>2. QED
    BY <2>1 DEF SafeTabs, TabStates, ShowsAdmin
<1>2. tab \in [Tabs -> SafeTabs(granted)]
  BY DEF SessionInv
<1>3. QED
  BY <1>1, <1>2

(***************************************************************************)
(* What the user does.                                                     *)
(***************************************************************************)
LEMMA ActsInv ==
  ASSUME SessionInv, Kept, Acts
  PROVE  SessionInv'
<1>1. budget \in Nat /\ budget > 0 /\ budget' = budget - 1
  BY DEF SessionInv, TypeOK, Acts
<1>2. budget' \in Nat
  BY <1>1
<1>3. Rested /\ granted' = granted /\ cookie' \in SafeTokens(granted)
  BY <1>2, Zenon DEF Rested, Acts, SessionInv, TypeOK
<1>4. QED
  BY <1>3, KeptInv

LEMMA SendsKept ==
  ASSUME SessionInv, NEW t \in Tabs, NEW kind \in Kinds, NEW from \in Senders,
         NEW own \in {"partial", None}, NEW right \in BOOLEAN, NEW code \in Written,
         Sends(t, kind, from, own, right, code), tab' \in [Tabs -> SafeTabs(granted)]
  PROVE  Kept
<1>0. granted \in BOOLEAN /\ cookie \in SafeTokens(granted) /\ store \in SafeStores(granted)
  BY Zenon DEF SessionInv, TypeOK
<1>1. Credential(store, own) \in SafeTokens(granted)
  BY <1>0, CredentialSafe
<1>2. Submission(t, kind, from, Credential(store, own), None, right, code) \in SafeRequests(granted)
  BY <1>0, <1>1, SubmissionSafe
<1>3. QED
  BY <1>0, <1>2 DEF Sends, Kept, SessionInv

LEMMA ProfileSendsInv ==
  ASSUME SessionInv, NEW t \in Tabs, NEW step \in Steps, NEW kind \in Kinds,
         NEW right \in BOOLEAN, NEW code \in Written, ProfileSends(t, step, kind, right, code)
  PROVE  SessionInv'
<1> DEFINE y == [tab[t].page EXCEPT !.step = step]
<1>1. tab[t] \in TabStates
  BY DEF SessionInv, TypeOK
<1>2. y \in Pages
  BY <1>1 DEF TabStates, Pages
<1>3. tab' = [tab EXCEPT ![t].page = y]
  BY DEF ProfileSends
<1> HIDE DEF y
<1>4. tab' \in [Tabs -> SafeTabs(granted)]
  BY <1>2, <1>3, PageSafe
<1>5. "profile" \in Senders /\ Acts /\ Sends(t, kind, "profile", None, right, code)
  BY DEF ProfileSends, Senders
<1>6. Kept
  BY <1>4, <1>5, SendsKept
<1>7. QED
  BY <1>5, <1>6, ActsInv

LEMMA UserActsInv ==
  ASSUME SessionInv, NEW t \in Tabs, UserActs(t)
  PROVE  SessionInv'
<1>0. /\ granted \in BOOLEAN /\ app \in Nat /\ tab[t] \in TabStates
      /\ store \in SafeStores(granted) /\ calls \in SUBSET SafeRequests(granted)
      /\ tab \in [Tabs -> SafeTabs(granted)]
  BY Zenon DEF SessionInv, TypeOK
<1>a. Totp(0) \in Written /\ Totp(app) \in Written /\ CodesOf(app) \subseteq Written /\ None \in Written
  BY <1>0 DEF Totp, CodesOf, Written
<1>b. tab[t].page.step \in Steps
  BY <1>0 DEF TabStates, Pages
<1>c. Kinds = {"login", "logout", "me", "update", "setup", "verify", "recovery", "disable", "page"}
  BY DEF Kinds
<1>d. {"setup-pending", "verify-pending", "disable-pending", "idle"} \subseteq Steps
  BY DEF Steps
<1>1. ASSUME NEW p \in Paths, Open(t, p) PROVE SessionInv'
  BY <1>0, <1>1, LoadsKept, ActsInv DEF Open
<1>2. ASSUME NEW p \in Paths, Click(t, p) PROVE SessionInv'
  BY <1>0, <1>2, NavigatesKept, ActsInv DEF Click
<1>3. ASSUME NEW right \in BOOLEAN, HandleSubmit(t, right) PROVE SessionInv'
  <2>1. tab' \in [Tabs -> SafeTabs(granted)]
    BY <1>3, FormSafe DEF HandleSubmit, Forms
  <2>2. Kept
    BY <1>3, <1>a, <1>c, <2>1, SendsKept DEF HandleSubmit, Senders
  <2>3. QED
    BY <1>3, <2>2, ActsInv DEF HandleSubmit
<1>4. ASSUME NEW code \in Written, LoginMfaVerify(t, code) PROVE SessionInv'
  <2>1. tab' \in [Tabs -> SafeTabs(granted)]
    BY <1>4, FormSafe DEF LoginMfaVerify, Forms
  <2>2. Kept
    BY <1>4, <1>c, <2>1, SendsKept DEF LoginMfaVerify, Senders
  <2>3. QED
    BY <1>4, <2>2, ActsInv DEF LoginMfaVerify
<1>5. CASE HandleMfaCancel(t)
  <2>1. tab' \in [Tabs -> SafeTabs(granted)]
    BY <1>5, FormSafe DEF HandleMfaCancel, Forms
  <2>2. Kept
    BY <1>0, <1>5, <2>1, EmptyStore DEF HandleMfaCancel, Kept
  <2>3. QED
    BY <1>5, <2>2, ActsInv DEF HandleMfaCancel
<1>6. ASSUME NEW right \in BOOLEAN, HandleProfileUpdate(t, right) PROVE SessionInv'
  BY <1>6, <1>a, <1>b, <1>c, ProfileSendsInv DEF HandleProfileUpdate
<1>7. CASE HandleMfaSetup(t)
  BY <1>7, <1>a, <1>c, <1>d, ProfileSendsInv DEF HandleMfaSetup
<1>8. CASE CancelSetup(t)
  <2> DEFINE y == [tab[t].page EXCEPT !.step = "idle"]
  <2>1. y \in Pages
    BY <1>0, <1>d DEF TabStates, Pages
  <2>2. tab' = [tab EXCEPT ![t].page = y]
    BY <1>8 DEF CancelSetup
  <2> HIDE DEF y
  <2>3. Kept
    BY <1>0, <1>8, <2>1, <2>2, PageSafe DEF CancelSetup, Kept
  <2>4. QED
    BY <1>8, <2>3, ActsInv DEF CancelSetup
<1>9. ASSUME NEW code \in Written, HandleMfaVerify(t, code) \/ HandleRecovery(t, code) PROVE SessionInv'
  BY <1>9, <1>c, <1>d, ProfileSendsInv DEF HandleMfaVerify, HandleRecovery
<1>10. ASSUME NEW right \in BOOLEAN, NEW code \in Written, HandleMfaDisable(t, right, code) PROVE SessionInv'
  BY <1>10, <1>c, <1>d, ProfileSendsInv DEF HandleMfaDisable
<1>11. CASE HandleLogout(t)
  <2>1. Kept
    BY <1>0, <1>11, <1>a, <1>c, SendsKept DEF HandleLogout, Senders
  <2>2. QED
    BY <1>11, <2>1, ActsInv DEF HandleLogout
<1>12. QED
  BY <1>a, <1>1, <1>2, <1>3, <1>4, <1>5, <1>6, <1>7, <1>8, <1>9, <1>10, <1>11 DEF UserActs

(***************************************************************************)
(* What the server does.                                                   *)
(***************************************************************************)
\* Request c becomes d, which may carry the first token with both factors.
LEMMA ServesInv ==
  ASSUME SessionInv, NEW c \in calls, NEW d \in Requests,
         d \in SafeRequests(granted \/ d.data.token = "full"),
         Serves(c, d), user' \in Users, issued' \in Nat
  PROVE  SessionInv'
<1> DEFINE h == granted \/ d.data.token = "full"
<1>0. /\ granted \in BOOLEAN /\ h \in BOOLEAN /\ (granted => h) /\ granted' = h
      /\ store' = store /\ cookie' = cookie /\ tab' = tab /\ role' = role /\ app' = app
      /\ budget' = budget /\ calls' \subseteq (calls \ {c}) \cup {d}
  <2>1. granted \in BOOLEAN
    BY Zenon DEF SessionInv, TypeOK
  <2>2. calls' \subseteq (calls \ {c}) \cup {d}
    BY DEF Serves
  <2>3. QED
    BY <2>1, <2>2, Zenon DEF Serves
<1>1. /\ store' \in SafeStores(h) /\ cookie' \in SafeTokens(h)
      /\ tab' \in [Tabs -> SafeTabs(h)] /\ calls' \subseteq SafeRequests(h)
  <2> HIDE DEF h
  <2>1. d \in SafeRequests(h)
    BY DEF h
  <2>2. /\ SafeStores(granted) \subseteq SafeStores(h) /\ SafeTokens(granted) \subseteq SafeTokens(h)
        /\ SafeTabs(granted) \subseteq SafeTabs(h) /\ SafeRequests(granted) \subseteq SafeRequests(h)
    BY <1>0, SafeGrows
  <2>3. QED
    BY <1>0, <2>1, <2>2 DEF SessionInv
<1>2. TypeOK'
  <2>1. store' \in Stores /\ cookie' \in Tokens \cup {None} /\ calls' \subseteq Requests
    BY <1>1 DEF SafeStores, SafeTokens, SafeRequests
  <2>2. tab' \in [Tabs -> TabStates]
    BY <1>0 DEF SessionInv, TypeOK
  <2>3. /\ role' \in {"admin", "operator"} /\ granted' \in BOOLEAN /\ app' \in Nat
        /\ budget' \in Nat
    BY <1>0, Zenon DEF SessionInv, TypeOK
  <2>4. QED
    BY <2>1, <2>2, <2>3 DEF TypeOK
<1>3. QED
  BY <1>0, <1>1, <1>2 DEF SessionInv

Statuses == {"none", "lost", "200", "400", "401", "403"}

LEMMA AnswerInv ==
  ASSUME SessionInv, NEW c \in calls, NEW status \in Statuses, NEW data \in Data,
         data.verified => granted,
         c.kind \in {"verify", "recovery"} /\ status = "200" => data.token = "full",
         Serves(c, Answer(c, status, data)), user' \in Users, issued' \in Nat
  PROVE  SessionInv'
<1> DEFINE d == Answer(c, status, data)
           h == granted \/ d.data.token = "full"
<1>0. granted \in BOOLEAN /\ c \in Requests /\ c \in SafeRequests(granted)
  BY Zenon DEF SessionInv, TypeOK
<1>1. /\ d \in Requests /\ d.cred = c.cred /\ d.kind = c.kind
      /\ d.status = status /\ d.data = data
  BY <1>0 DEF Answer, Requests, Statuses
<1> HIDE DEF d
<1>2. d \in SafeRequests(h)
  BY <1>0, <1>1 DEF SafeRequests, SafeData, VerifiedBy
<1>3. QED
  BY <1>1, <1>2, ServesInv DEF d

LEMMA DataTyped ==
  /\ NoData \in Data /\ NoData.token = None /\ ~NoData.verified
  /\ \A k \in Tokens : TokenData(k) \in Data /\ TokenData(k).token = k /\ ~TokenData(k).verified
BY DEF NoData, TokenData, Data

\* A refusal, and an answer that changes nothing else.
LEMMA FailsInv ==
  ASSUME SessionInv, NEW c \in calls, NEW status \in Statuses \ {"200"}, Fails(c, status)
  PROVE  SessionInv'
<1>1. user' \in Users /\ issued' \in Nat
  BY DEF SessionInv, TypeOK, Fails
<1>2. QED
  BY <1>1, DataTyped, AnswerInv DEF Fails

LEMMA GivesInv ==
  ASSUME SessionInv, NEW c \in calls, NEW data \in Data, Gives(c, data),
         data.verified => granted,
         c.kind \in {"verify", "recovery"} => data.token = "full"
  PROVE  SessionInv'
<1>1. user' \in Users /\ issued' \in Nat
  BY DEF SessionInv, TypeOK, Gives
<1>2. QED
  BY <1>1, AnswerInv DEF Gives, Statuses

\* A request that goes on to the next step of its handler.
LEMMA MovesInv ==
  ASSUME SessionInv, NEW c \in calls, NEW d \in Requests,
         d.cred = c.cred, d.data = c.data, d.kind = c.kind, d.status = c.status,
         Serves(c, d), UNCHANGED <<user, issued>>
  PROVE  SessionInv'
<1>1. granted \in BOOLEAN /\ c \in SafeRequests(granted)
  BY Zenon DEF SessionInv, TypeOK
<1>2. user' \in Users /\ issued' \in Nat
  BY DEF SessionInv, TypeOK
<1>3. c.data.token = "full" => granted
  BY <1>1 DEF SafeRequests, SafeData
<1>4. d \in SafeRequests(granted)
  BY <1>1, MovedSafe
<1>5. (granted \/ d.data.token = "full") = granted
  BY <1>1, <1>3
<1>6. QED
  BY <1>2, <1>4, <1>5, ServesInv

LEMMA DocumentsTyped ==
  ASSUME NEW u \in Users, NEW r \in Users, NEW new \in Nat \ {0}, NEW code
  PROVE  /\ BeginMFAEnrollment(new) \in Users /\ EnableMFA(u) \in Users
         /\ ReplaceRecoveryCodes(u, r.codes, code) \in Users /\ DisabledMFA \in Users
BY DEF BeginMFAEnrollment, EnableMFA, ReplaceRecoveryCodes, DisabledMFA, Users, CodesOf, Secrets

LEMMA ServerActsInv ==
  ASSUME SessionInv, NEW c \in calls, ServerActs(c)
  PROVE  SessionInv'
<1>0. /\ c \in Requests /\ c \in SafeRequests(granted) /\ user \in Users /\ issued \in Nat
      /\ granted \in BOOLEAN
  BY Zenon DEF SessionInv, TypeOK
<1>a. {"401", "400", "403"} \subseteq Statuses \ {"200"} /\ "200" \in Statuses
  BY DEF Statuses
<1>b. c.snap # None => c.snap \in Users
  BY <1>0 DEF Requests
<1>c. c.cred = "full" => granted
  BY <1>0 DEF SafeRequests
<1>d. "full" \in Tokens /\ "partial" \in Tokens
  BY DEF Tokens
<1>1. CASE Unauthenticated(c)
  BY <1>1, <1>a, FailsInv DEF Unauthenticated
<1>2. CASE Login(c)
  <2>1. CASE c.right
    <3>1. PICK k \in Tokens : Gives(c, TokenData(k))
      BY <1>2, <1>d, <2>1 DEF Login
    <3>2. c.kind = "login"
      BY <1>2 DEF Login, Arrived
    <3>3. QED
      BY <3>1, <3>2, DataTyped, GivesInv
  <2>2. CASE ~c.right
    BY <1>2, <1>a, <2>2, FailsInv DEF Login
  <2>3. QED
    BY <2>1, <2>2
<1>3. CASE Logout(c)
  BY <1>3, DataTyped, GivesInv DEF Logout, Arrived
<1>4. CASE GetMe(c)
  <2> DEFINE data == [NoData EXCEPT !.enabled = user.enabled, !.verified = (c.cred = "full")]
  <2>1. data \in Data /\ data.verified = (c.cred = "full")
    BY <1>0, DataTyped DEF Data, Users
  <2>2. Gives(c, data) /\ c.kind = "me"
    BY <1>4 DEF GetMe, Arrived
  <2> HIDE DEF data
  <2>3. QED
    BY <1>c, <2>1, <2>2, GivesInv
<1>5. CASE UpdateProfile(c)
  BY <1>5, <1>a, DataTyped, FailsInv, GivesInv DEF UpdateProfile, Arrived
<1>6. CASE ReadPage(c)
  BY <1>6, <1>a, DataTyped, FailsInv, GivesInv DEF ReadPage, Arrived
<1>7. CASE StartEnrollment(c)
  <2> DEFINE data == [NoData EXCEPT !.secret = issued + 1]
  <2>1. data \in Data /\ ~data.verified
    BY <1>0, DataTyped DEF Data
  <2>2. Serves(c, Answer(c, "200", data)) /\ c.kind = "setup"
    BY <1>7 DEF StartEnrollment, Arrived
  <2>3. user' \in Users /\ issued' \in Nat
    BY <1>0, <1>7, DocumentsTyped DEF StartEnrollment
  <2> HIDE DEF data
  <2>4. QED
    BY <1>a, <2>1, <2>2, <2>3, AnswerInv
<1>8. CASE ChooseVerification(c)
  <2> DEFINE d == [c EXCEPT !.phase = IF user.enabled THEN "challenge" ELSE "enrollment"]
  <2>1. /\ d \in Requests /\ d.cred = c.cred /\ d.data = c.data /\ d.kind = c.kind
        /\ d.status = c.status
    BY <1>0 DEF Requests
  <2>2. Serves(c, d) /\ UNCHANGED <<user, issued>>
    BY <1>8 DEF ChooseVerification
  <2> HIDE DEF d
  <2>3. QED
    BY <2>1, <2>2, MovesInv
<1>9. CASE ReadUser(c)
  <2> DEFINE ph == IF c.phase = "sent" THEN c.kind ELSE c.phase
             d == [c EXCEPT !.snap = user, !.phase = ph]
  <2>1. ph \in {"challenge", "enrollment", "recovery", "disable"}
    BY <1>0, <1>9 DEF ReadUser, Requests
  <2> HIDE DEF ph
  <2>2. /\ d \in Requests /\ d.cred = c.cred /\ d.data = c.data /\ d.kind = c.kind
        /\ d.status = c.status
    BY <1>0, <2>1 DEF Requests
  <2>3. Serves(c, d) /\ UNCHANGED <<user, issued>>
    BY <1>9 DEF ReadUser, ph
  <2> HIDE DEF d
  <2>4. QED
    BY <2>2, <2>3, MovesInv
<1>10. CASE VerifyEnrollment(c)
  <2>1. CASE TotpOK(c.snap, c.code)
    <3>1. user' \in Users /\ issued' \in Nat /\ Serves(c, Answer(c, "200", TokenData("full")))
      BY <1>0, <1>10, <2>1, DocumentsTyped DEF VerifyEnrollment
    <3>2. QED
      BY <1>a, <1>d, <3>1, DataTyped, AnswerInv
  <2>2. CASE ~TotpOK(c.snap, c.code)
    BY <1>10, <1>a, <2>2, FailsInv DEF VerifyEnrollment
  <2>3. QED
    BY <2>1, <2>2
<1>11. CASE VerifyChallenge(c)
  <2>1. CASE Fails(c, "403") \/ Fails(c, "400")
    BY <1>a, <2>1, FailsInv
  <2>2. CASE Gives(c, TokenData("full"))
    BY <1>d, <2>2, DataTyped, GivesInv
  <2>3. CASE /\ user' = ReplaceRecoveryCodes(user, c.snap.codes, c.code) /\ issued' = issued
             /\ Serves(c, Answer(c, "200", TokenData("full")))
    <3>1. c.snap \in Users
      BY <1>11, <1>b DEF VerifyChallenge
    <3>2. user' \in Users
      BY <1>0, <2>3, <3>1, 1 \in Nat \ {0}, DocumentsTyped
    <3>3. issued' \in Nat
      BY <1>0, <2>3
    <3>4. QED
      BY <1>a, <1>d, <2>3, <3>2, <3>3, DataTyped, AnswerInv
  <2>4. QED
    BY <1>11, <2>1, <2>2, <2>3 DEF VerifyChallenge
<1>12. CASE DisableMFA(c)
  <2>1. CASE Fails(c, "401") \/ Fails(c, "403") \/ Fails(c, "400")
    BY <1>a, <2>1, FailsInv
  <2>2. CASE user' = DisabledMFA /\ issued' = issued /\ Serves(c, Answer(c, "200", NoData))
    <3>1. user' \in Users /\ issued' \in Nat
      BY <1>0, <2>2, DocumentsTyped
    <3>2. c.kind \notin {"verify", "recovery"}
      BY <1>12 DEF DisableMFA
    <3>3. QED
      BY <1>a, <2>2, <3>1, <3>2, DataTyped, AnswerInv
  <2>3. QED
    BY <1>12, <2>1, <2>2 DEF DisableMFA
<1>13. QED
  BY <1>1, <1>2, <1>3, <1>4, <1>5, <1>6, <1>7, <1>8, <1>9, <1>10, <1>11, <1>12 DEF ServerActs

(***************************************************************************)
(* What the browser does.                                                  *)
(***************************************************************************)
LEMMA QuietInv ==
  ASSUME SessionInv, Kept, Quiet, app' \in Nat, cookie' \in SafeTokens(granted)
  PROVE  SessionInv'
<1>1. role' = role /\ granted' = granted /\ user' \in Users /\ issued' \in Nat /\ budget' \in Nat
  BY Zenon DEF SessionInv, TypeOK, Quiet
<1>2. QED
  BY <1>1, KeptInv DEF Rested

LEMMA ProfileTakesKept ==
  ASSUME SessionInv, NEW c \in calls, c.tab \in Tabs, NEW step \in Steps, NEW again \in BOOLEAN,
         NEW s \in SafeStores(granted), NEW then \in {"index", None},
         ProfileTakes(c, step, s, again, then)
  PROVE  Kept
<1> DEFINE y == [tab[c.tab].page EXCEPT !.step = step, !.loaded = ~again]
           call == Call(c.tab, "me", "profile", Credential(s, None), then)
           d == [call EXCEPT !.live = c.live]
<1>0. /\ granted \in BOOLEAN /\ cookie \in SafeTokens(granted) /\ c \in Requests
      /\ tab \in [Tabs -> SafeTabs(granted)] /\ calls \subseteq SafeRequests(granted)
      /\ tab[c.tab] \in TabStates
  BY Zenon DEF SessionInv, TypeOK
<1>1. y \in Pages
  BY <1>0 DEF TabStates, Pages
<1>2. tab' = IF ~c.live THEN tab ELSE [tab EXCEPT ![c.tab].page = y]
  BY DEF ProfileTakes
<1>3. tab' \in [Tabs -> SafeTabs(granted)]
  <2> HIDE DEF y
  <2>1. QED
    BY <1>0, <1>1, <1>2, PageSafe
<1>4. call \in SafeRequests(granted)
  BY <1>0, CredentialSafe, CallSafe DEF Kinds, Senders
<1>5. /\ d \in Requests /\ d.cred = call.cred /\ d.data = call.data /\ d.kind = call.kind
      /\ d.status = call.status
  <2> HIDE DEF call
  <2>1. QED
    BY <1>0, <1>4 DEF SafeRequests, Requests
<1>6. calls' = Rest(c) \cup (IF again THEN {d} ELSE {}) /\ store' = s
  BY DEF ProfileTakes
<1> HIDE DEF d, call
<1>7. d \in SafeRequests(granted)
  BY <1>0, <1>4, <1>5, MovedSafe
<1>8. QED
  BY <1>0, <1>3, <1>6, <1>7 DEF Kept, Rest

LEMMA BootstrapInv ==
  ASSUME SessionInv, NEW c \in calls, c.tab \in Tabs, BootstrapAnswered(c)
  PROVE  SessionInv'
<1> DEFINE t == c.tab
           s == IF OK(c) THEN StoreProfileFromAuthMe(c.data) ELSE store
           x == [tab[t].guard EXCEPT !.checked = TRUE, !.authorized = OK(c),
                   !.verified = IF OK(c) THEN IsMfaVerified(s) ELSE @]
           new == Landed(tab[t].path, x, s)
           stays == tab[t].view.layout /\ new.view.layout /\ new.path = tab[t].path
           gone == IF stays THEN {} ELSE {"profile"}
<1>0. /\ granted \in BOOLEAN /\ cookie \in SafeTokens(granted) /\ c \in Requests
      /\ tab \in [Tabs -> SafeTabs(granted)] /\ calls \subseteq SafeRequests(granted)
      /\ tab[t] \in TabStates /\ store \in SafeStores(granted) /\ app \in Nat
  BY Zenon DEF SessionInv, TypeOK
<1>1. Quiet /\ app' \in Nat /\ cookie' \in SafeTokens(granted)
  BY <1>0 DEF BootstrapAnswered, Takes
<1>2. CASE ~c.live
  <2>1. Kept
    BY <1>0, <1>2 DEF BootstrapAnswered, Kept, Rest
  <2>2. QED
    BY <1>1, <2>1, QuietInv
<1>3. CASE c.live
  <2>1. c.data \in Data /\ (c.data.verified => granted)
    BY <1>0 DEF SafeRequests, SafeData, Requests
  <2>2. s \in SafeStores(granted)
    BY <1>0, <2>1 DEF StoreProfileFromAuthMe, SafeStores, Stores, Data
  <2>3. OK(c) \in BOOLEAN /\ IsMfaVerified(s) \in BOOLEAN
    BY DEF OK, IsMfaVerified
  <2>4. IsMfaVerified(s) => granted
    BY <2>2 DEF IsMfaVerified, SafeStores
  <2>5. tab[t].guard \in SafeGuards(granted)
    BY <1>0 DEF SafeTabs, TabStates, SafeGuards
  <2>6. x \in SafeGuards(granted)
    <3> HIDE DEF s
    <3>1. QED
      BY <2>3, <2>4, <2>5 DEF SafeGuards, Guards
  <2>7. tab[t].path \in Paths
    BY <1>0 DEF TabStates
  <2>8. /\ store' = s
        /\ tab' = [tab EXCEPT ![t] = IF stays THEN [tab[t] EXCEPT !.guard = new.guard] ELSE new]
        /\ calls' = Detached(t, Rest(c), gone)
                    \cup (IF stays THEN {} ELSE Mounted(t, new, s, FALSE, new.view.layout))
    BY <1>3 DEF BootstrapAnswered
  <2> HIDE DEF s, x
  <2>9. new \in SafeTabs(granted) /\ (new.view.layout => new.path \in Protected)
    BY <1>0, <2>2, <2>6, <2>7, LandedSafe
  <2>10. Mounted(t, new, s, FALSE, new.view.layout) \subseteq SafeRequests(granted)
    BY <1>0, <2>2, <2>9, MountedSafe
  <2>11. Detached(t, Rest(c), gone) \subseteq SafeRequests(granted)
    BY <1>0, DetachedSafe DEF Rest
  <2> HIDE DEF new, stays, gone
  <2>12. [tab[t] EXCEPT !.guard = new.guard] \in SafeTabs(granted)
    <3>1. tab[t] \in SafeTabs(granted)
      BY <1>0
    <3>2. new.guard \in Guards /\ (new.guard.verified => granted)
      BY <2>9 DEF SafeTabs, TabStates
    <3>3. QED
      BY <3>1, <3>2 DEF SafeTabs, TabStates, ShowsAdmin
  <2>13. Kept
    BY <1>0, <2>2, <2>8, <2>9, <2>10, <2>11, <2>12 DEF Kept
  <2>14. QED
    BY <1>1, <2>13, QuietInv
<1>4. QED
  BY <1>2, <1>3

LEMMA BrowserActsInv ==
  ASSUME SessionInv, NEW c \in calls, c.tab # None, BrowserActs(c)
  PROVE  SessionInv'
<1>0. /\ granted \in BOOLEAN /\ cookie \in SafeTokens(granted) /\ app \in Nat
      /\ tab \in [Tabs -> SafeTabs(granted)] /\ calls \subseteq SafeRequests(granted)
      /\ store \in SafeStores(granted) /\ c \in Requests /\ tab \in [Tabs -> TabStates]
  BY Zenon DEF SessionInv, TypeOK
<1>a. c.tab \in Tabs /\ c.data \in Data
  BY <1>0 DEF Requests
<1>b. c.data.token \in SafeTokens(granted) /\ (VerifiedBy(c) => granted)
  BY <1>0, <1>a DEF SafeRequests, SafeData, SafeTokens, Data
<1>c. Rest(c) \in SUBSET SafeRequests(granted) /\ NoStore \in SafeStores(granted)
  BY <1>0, EmptyStore DEF Rest
<1>d. granted => SetAuthSession \in SafeStores(granted)
  BY <1>0, SessionStored
<1>e. /\ {"login", "profile", "index"} \subseteq Paths /\ {"password", "code"} \subseteq Forms
      /\ {"show", "idle", "enabled"} \subseteq Steps
  BY DEF Paths, AdminPaths, Protected, Forms, Steps
<1>f. tab[c.tab].page \in Pages
  BY <1>0, <1>a DEF TabStates
<1>1. CASE Intercept(c)
  <2>1. Kept
    BY <1>0, <1>1, <1>a, <1>c, <1>e, LoadsKept DEF Intercept
  <2>2. QED
    BY <1>0, <1>1, <2>1, QuietInv DEF Intercept
<1>2. CASE LoginAnswered(c)
  <2>1. Kept
    <3>1. CASE c.data.token = "full"
      <4>1. granted
        BY <1>b, <3>1 DEF SafeTokens
      <4>2. QED
        BY <1>2, <1>a, <1>c, <1>d, <1>e, <3>1, <4>1, NavigatesKept DEF LoginAnswered
    <3>2. CASE c.data.token # "full"
      BY <1>0, <1>2, <1>a, <1>c, <1>e, <3>2, FormSafe DEF LoginAnswered, FormTakes, Kept
    <3>3. QED
      BY <3>1, <3>2
  <2>2. QED
    BY <1>0, <1>2, <1>b, <2>1, QuietInv DEF LoginAnswered, Takes
<1>3. CASE LoginCodeAnswered(c)
  <2>1. Kept
    <3>1. CASE OK(c)
      <4>1. granted
        BY <1>3, <1>b, <3>1 DEF LoginCodeAnswered, Takes, OK, VerifiedBy
      <4>2. QED
        BY <1>3, <1>a, <1>c, <1>d, <1>e, <3>1, <4>1, NavigatesKept DEF LoginCodeAnswered
    <3>2. CASE ~OK(c)
      BY <1>0, <1>3, <1>a, <1>c, <1>e, <3>2, FormSafe DEF LoginCodeAnswered, FormTakes, Kept
    <3>3. QED
      BY <3>1, <3>2
  <2>2. QED
    BY <1>0, <1>3, <1>b, <2>1, QuietInv DEF LoginCodeAnswered, Takes
<1>4. CASE BootstrapAnswered(c)
  BY <1>4, <1>a, BootstrapInv
<1>5. CASE ProfileAnswered(c)
  <2>1. Kept
    <3>1. CASE c.arg = "index"
      BY <1>0, <1>5, <1>a, <1>c, <1>e, <3>1, NavigatesKept DEF ProfileAnswered
    <3>2. CASE c.arg # "index"
      <4> DEFINE y == IF OK(c) THEN [loaded |-> TRUE, enabled |-> c.data.enabled,
                                     verified |-> c.data.verified,
                                     step |-> IF c.data.enabled THEN "enabled" ELSE "idle"]
                      ELSE [tab[c.tab].page EXCEPT !.loaded = TRUE]
      <4>1. y \in Pages
        BY <1>a, <1>e, <1>f DEF Pages, Data
      <4>2. tab' = IF ~c.live THEN tab ELSE [tab EXCEPT ![c.tab].page = y]
        BY <1>5, <3>2 DEF ProfileAnswered
      <4> HIDE DEF y
      <4>3. tab' \in [Tabs -> SafeTabs(granted)]
        BY <1>0, <1>a, <4>1, <4>2, PageSafe
      <4>4. QED
        BY <1>0, <1>5, <1>c, <3>2, <4>3 DEF ProfileAnswered, Kept
    <3>3. QED
      BY <3>1, <3>2
  <2>2. QED
    BY <1>0, <1>5, <2>1, QuietInv DEF ProfileAnswered, Takes
<1>6. CASE UpdateAnswered(c)
  <2>1. tab[c.tab].page.step \in Steps /\ OK(c) \in BOOLEAN
    BY <1>f DEF Pages, OK
  <2>2. Kept
    BY <1>0, <1>6, <1>a, <2>1, ProfileTakesKept DEF UpdateAnswered
  <2>3. QED
    BY <1>0, <1>6, <2>2, QuietInv DEF UpdateAnswered, Takes
<1>7. CASE SetupAnswered(c)
  <2>1. app' \in Nat
    BY <1>0, <1>7, <1>a DEF SetupAnswered, Data
  <2>2. Kept
    BY <1>0, <1>7, <1>a, <1>e, ProfileTakesKept DEF SetupAnswered
  <2>3. QED
    BY <1>0, <1>7, <2>1, <2>2, QuietInv DEF SetupAnswered, Takes
<1>8. CASE VerifyAnswered(c)
  <2>1. Kept
    <3>1. CASE OK(c)
      <4>1. granted
        BY <1>8, <1>b, <3>1 DEF VerifyAnswered, Takes, OK, VerifiedBy
      <4>2. QED
        BY <1>8, <1>a, <1>d, <1>e, <3>1, <4>1, ProfileTakesKept DEF VerifyAnswered
    <3>2. CASE ~OK(c)
      BY <1>0, <1>8, <1>a, <1>e, <3>2, ProfileTakesKept DEF VerifyAnswered
    <3>3. QED
      BY <3>1, <3>2
  <2>2. QED
    BY <1>0, <1>8, <1>b, <2>1, QuietInv DEF VerifyAnswered, Takes
<1>9. CASE DisableAnswered(c)
  <2>1. [store EXCEPT !.profile = IF @ = None THEN None ELSE "restricted"] \in SafeStores(granted)
    BY <1>0, SessionAssumption DEF SafeStores, Stores
  <2>2. Kept
    BY <1>0, <1>9, <1>a, <1>e, <2>1, ProfileTakesKept DEF DisableAnswered
  <2>3. QED
    BY <1>0, <1>9, <2>2, QuietInv DEF DisableAnswered, Takes
<1>10. CASE LogoutAnswered(c)
  <2>1. Kept
    BY <1>0, <1>10, <1>a, <1>c, <1>e, NavigatesKept DEF LogoutAnswered
  <2>2. None \in SafeTokens(granted)
    BY SessionAssumption DEF SafeTokens
  <2>3. QED
    BY <1>0, <1>10, <2>1, <2>2, QuietInv DEF LogoutAnswered, Takes
<1>11. CASE PageAnswered(c)
  <2>1. Kept
    BY <1>0, <1>11, <1>c DEF PageAnswered, Kept
  <2>2. QED
    BY <1>0, <1>11, <2>1, QuietInv DEF PageAnswered, Takes
<1>12. QED
  BY <1>1, <1>2, <1>3, <1>4, <1>5, <1>6, <1>7, <1>8, <1>9, <1>10, <1>11 DEF BrowserActs

LEMMA LoseInv ==
  ASSUME SessionInv, NEW c \in calls, Lose(c)
  PROVE  SessionInv'
<1> DEFINE d == Answer(c, "lost", NoData)
<1>0. /\ granted \in BOOLEAN /\ cookie \in SafeTokens(granted) /\ c \in Requests
      /\ c \in SafeRequests(granted) /\ calls \subseteq SafeRequests(granted)
  BY Zenon DEF SessionInv, TypeOK
<1>1. /\ d \in Requests /\ d.cred = c.cred /\ d.kind = c.kind /\ d.status = "lost"
      /\ d.data = NoData
  BY <1>0, DataTyped DEF Answer, Requests
<1>2. NoData \in SafeData(FALSE)
  BY SessionAssumption, DataTyped DEF SafeData
<1>3. calls' = (calls \ {c}) \cup {d}
  BY DEF Lose
<1> HIDE DEF d
<1>4. d \in SafeRequests(granted)
  BY <1>0, <1>1, <1>2 DEF SafeRequests, VerifiedBy
<1>5. Kept
  BY <1>0, <1>3, <1>4 DEF Lose, Kept, SessionInv
<1>6. budget \in Nat /\ budget > 0 /\ budget' = budget - 1
  BY DEF SessionInv, TypeOK, Lose
<1>7. budget' \in Nat
  BY <1>6
<1>8. Rested /\ granted' = granted /\ cookie' \in SafeTokens(granted)
  BY <1>7, Zenon DEF Rested, Lose, SessionInv, TypeOK
<1>9. QED
  BY <1>5, <1>8, KeptInv

LEMMA RedirectInv ==
  ASSUME SessionInv, NEW t \in Tabs, Redirect(t)
  PROVE  SessionInv'
<1>0. /\ granted \in BOOLEAN /\ cookie \in SafeTokens(granted) /\ app \in Nat
      /\ calls \in SUBSET SafeRequests(granted) /\ store \in SafeStores(granted)
      /\ tab[t] \in TabStates
  BY Zenon DEF SessionInv, TypeOK
<1>1. tab[t].view.to \in Paths
  BY <1>0 DEF Redirect, TabStates, Views, Paths, AdminPaths, Protected
<1>2. Kept
  BY <1>0, <1>1, NavigatesKept DEF Redirect
<1>3. QED
  BY <1>0, <1>2, QuietInv DEF Redirect

LEMMA SessionInit == Init => SessionInv
<1> SUFFICES ASSUME Init PROVE SessionInv
  OBVIOUS
<1>1. role \in {"admin", "operator"} /\ budget \in Nat
  BY SessionAssumption DEF Init
<1>2. user \in Users /\ issued \in Nat /\ app \in Nat
  <2>1. CodesOf(1) \subseteq [secret : Secrets, key : Codes]
    BY DEF CodesOf, Secrets
  <2>2. [enabled |-> TRUE, secret |-> 1, codes |-> CodesOf(1)] \in Users
    BY <2>1 DEF Users
  <2>3. [enabled |-> FALSE, secret |-> 0, codes |-> {}] \in Users
    BY DEF Users
  <2>4. user \in Users
    BY <2>2, <2>3 DEF Init
  <2>5. QED
    BY <2>4 DEF Init, Users
<1>3. granted \in BOOLEAN /\ store \in SafeStores(granted) /\ cookie \in SafeTokens(granted)
  <2>1. None \in SafeTokens(FALSE) /\ "full" \in SafeTokens(TRUE) /\ "partial" \in SafeTokens(FALSE)
    BY SessionAssumption DEF SafeTokens, Tokens
  <2>2. QED
    BY <2>1, EmptyStore, SessionStored DEF Init
<1>4. tab \in [Tabs -> SafeTabs(granted)]
  <2> DEFINE x == [path |-> "public", guard |-> NoGuard, view |-> View(FALSE, None),
                   form |-> "password", page |-> FreshPage]
  <2>1. NoGuard \in Guards /\ ~NoGuard.verified
    BY DEF NoGuard, Guards
  <2>2. View(FALSE, None) \in Views /\ FreshPage \in Pages
    BY DEF View, Views, FreshPage, Pages, Steps
  <2>3. x \in TabStates
    BY <2>1, <2>2 DEF TabStates, Paths, AdminPaths, Forms
  <2>4. x \in SafeTabs(granted)
    BY <1>3, <2>1, <2>3 DEF SafeTabs, ShowsAdmin, Protected
  <2>5. tab = [t \in Tabs |-> x]
    BY DEF Init
  <2> HIDE DEF x
  <2>6. QED
    BY <2>4, <2>5
<1>5. TypeOK
  <2>1. store \in Stores /\ cookie \in Tokens \cup {None}
    BY <1>3 DEF SafeStores, SafeTokens
  <2>2. tab \in [Tabs -> TabStates] /\ calls \subseteq Requests
    BY <1>4 DEF SafeTabs, Init
  <2>3. QED
    BY <1>1, <1>2, <1>3, <2>1, <2>2 DEF TypeOK
<1>6. QED
  BY <1>3, <1>4, <1>5 DEF SessionInv, Init

LEMMA SessionStep == SessionInv /\ [Next]_vars => SessionInv'
<1> SUFFICES ASSUME SessionInv, [Next]_vars PROVE SessionInv'
  OBVIOUS
<1>1. ASSUME NEW t \in Tabs, UserActs(t) PROVE SessionInv'
  BY <1>1, UserActsInv
<1>2. ASSUME NEW t \in Tabs, Redirect(t) PROVE SessionInv'
  BY <1>2, RedirectInv
<1>3. ASSUME NEW c \in calls, ServerActs(c) PROVE SessionInv'
  BY <1>3, ServerActsInv
<1>4. ASSUME NEW c \in calls, BrowserActs(c) PROVE SessionInv'
  <2>1. c.tab # None
    BY <1>4 DEF BrowserActs, Intercept, LoginAnswered, LoginCodeAnswered, BootstrapAnswered,
      ProfileAnswered, UpdateAnswered, SetupAnswered, VerifyAnswered, DisableAnswered,
      LogoutAnswered, PageAnswered, Takes
  <2>2. QED
    BY <1>4, <2>1, BrowserActsInv
<1>5. ASSUME NEW c \in calls, Lose(c) PROVE SessionInv'
  BY <1>5, LoseInv
<1>6. CASE UNCHANGED vars
  BY <1>6 DEF vars, SessionInv, TypeOK
<1>7. QED
  BY <1>1, <1>2, <1>3, <1>4, <1>5, <1>6 DEF Next

\* The user's document, the browser's storage, the tabs and the requests keep
\* their types (App.tsx, lib/auth.ts, auth_service.go, mfa_service.go).
THEOREM TypeCorrect == Spec => []TypeOK
<1>1. SessionInv => TypeOK
  BY DEF SessionInv
<1>2. QED
  BY SessionInit, SessionStep, <1>1, PTL DEF Spec

\* However many tabs are open, and in whatever order answers, reloads and
\* redirects come, an admin page other than the profile is shown only in a
\* browser the server has given a token with both factors (ProtectedRoute).
THEOREM BothFactorsNeeded == Spec => []AdminPagesNeedBothFactors
<1>1. SessionInv => AdminPagesNeedBothFactors
  BY DEF SessionInv, TypeOK, SafeTabs, ShowsAdmin, AdminPagesNeedBothFactors
<1>2. QED
  BY SessionInit, SessionStep, <1>1, PTL DEF Spec

(***************************************************************************)
(* SignInArrives needs to know that the login page, while it is still      *)
(* there to take an answer, is not yet behind a guard: the guard is then   *)
(* mounted by the navigation and reads the session just stored.            *)
(***************************************************************************)
Told(c) == (c.data.token = "full" => c.status = "200") /\ (c.kind = "login" => c.from = "login")
AtLogin(c) == c.tab # None /\ c.live /\ c.from = "login"

ArrivalInv ==
  /\ \A t \in Tabs : tab[t].form # "password" => tab[t].path \notin Protected
  /\ \A c \in calls : Told(c) /\ (AtLogin(c) => tab[c.tab].path \notin Protected)

\* What mounting sends is not about the login page.
LEMMA MountedElsewhere ==
  ASSUME NEW t, NEW new, NEW s, NEW asks, NEW mounts, new.view.layout => new.path \in Protected,
         NEW c \in Mounted(t, new, s, asks, mounts)
  PROVE  Told(c) /\ c.from # "login"
<1>1. None # "full"
  BY SessionAssumption
<1>2. ASSUME NEW kind \in {"me", "page"}, NEW from, NEW arg,
             c = Call(t, kind, from, Credential(s, None), arg)
      PROVE  c.from = from /\ Told(c)
  BY <1>1, <1>2 DEF Call, Submission, NoData, Told
<1>3. Shows(new.view) => new.path \in Protected /\ new.path # "login"
  BY DEF Shows, Protected
<1>4. QED
  BY <1>2, <1>3 DEF Mounted

\* A request that was in flight before the tab left its page.
LEMMA DetachedArrival ==
  ASSUME SessionInv, ArrivalInv, NEW t \in Tabs, NEW cs \in SUBSET calls, NEW gone,
         NEW c \in Detached(t, cs, gone)
  PROVE  /\ Told(c) /\ (AtLogin(c) => c.tab \in Tabs /\ tab[c.tab].path \notin Protected)
         /\ "login" \in gone /\ AtLogin(c) => c.tab # t
<1>1. PICK e \in cs : c = IF e.tab = t /\ e.from \in gone THEN [e EXCEPT !.live = FALSE] ELSE e
  BY DEF Detached
<1>2. e \in Requests /\ e \in calls
  BY DEF SessionInv, TypeOK
<1>3. /\ c.data = e.data /\ c.status = e.status /\ c.kind = e.kind /\ c.from = e.from
      /\ c.live => c = e
  BY <1>1, <1>2 DEF Requests
<1>4. e.tab \in Tabs \cup {None}
  BY <1>2 DEF Requests
<1>5. Told(c)
  BY <1>2, <1>3 DEF ArrivalInv, Told
<1>6. ASSUME AtLogin(c) PROVE c = e
  BY <1>3, <1>6 DEF AtLogin
<1>7. QED
  BY <1>1, <1>2, <1>4, <1>5, <1>6 DEF ArrivalInv, AtLogin

LEMMA AbortedArrival ==
  ASSUME SessionInv, ArrivalInv, NEW t \in Tabs, NEW cs \in SUBSET calls, NEW c \in Aborted(t, cs)
  PROVE  /\ Told(c) /\ (AtLogin(c) => c.tab \in Tabs /\ tab[c.tab].path \notin Protected)
         /\ AtLogin(c) => c.tab # t
<1>1. CASE c \in cs /\ c.tab # t
  <2>1. c \in Requests
    BY <1>1 DEF SessionInv, TypeOK
  <2>2. QED
    BY <1>1, <2>1 DEF ArrivalInv, AtLogin, Requests
<1>2. CASE \E e \in cs : c = [e EXCEPT !.tab = None, !.live = FALSE]
  <2>1. PICK e \in cs : c = [e EXCEPT !.tab = None, !.live = FALSE]
    BY <1>2
  <2>2. e \in Requests /\ e \in calls
    BY DEF SessionInv, TypeOK
  <2>3. c.data = e.data /\ c.status = e.status /\ c.kind = e.kind /\ c.from = e.from /\ ~c.live
    BY <2>1, <2>2 DEF Requests
  <2>4. QED
    BY <2>2, <2>3 DEF ArrivalInv, AtLogin, Told
<1>3. QED
  BY <1>1, <1>2 DEF Aborted

\* The invariant after a step that moves at most the tab t, and none of whose
\* requests is about the login page of t.
LEMMA MovedArrival ==
  ASSUME SessionInv, ArrivalInv, NEW t \in Tabs, NEW new, tab' = [tab EXCEPT ![t] = new],
         new.form # "password" => new.path \notin Protected,
         \A c \in calls' : /\ Told(c)
                           /\ AtLogin(c) => /\ c.tab \in Tabs /\ tab[c.tab].path \notin Protected
                                            /\ c.tab = t => new.path \notin Protected
  PROVE  ArrivalInv'
<1>1. tab \in [Tabs -> TabStates]
  BY DEF SessionInv, TypeOK
<1>2. \A u \in Tabs : tab'[u] = IF u = t THEN new ELSE tab[u]
  BY <1>1
<1>3. \A u \in Tabs : tab'[u].form # "password" => tab'[u].path \notin Protected
  BY <1>2 DEF ArrivalInv
<1>4. \A c \in calls' : Told(c) /\ (AtLogin(c) => tab'[c.tab].path \notin Protected)
  BY <1>2
<1>5. QED
  BY <1>3, <1>4 DEF ArrivalInv, Told, AtLogin

LEMMA NavigatesArrival ==
  ASSUME SessionInv, ArrivalInv, NEW t \in Tabs, NEW p \in Paths, NEW s \in Stores,
         NEW cs \in SUBSET calls, Navigates(t, p, s, cs)
  PROVE  ArrivalInv'
<1> DEFINE entering == tab[t].path \notin Protected
           g0 == IF p \notin Protected THEN NoGuard
                 ELSE IF entering THEN FreshGuard(s) ELSE tab[t].guard
           new == Landed(p, g0, s)
           asks == new.path \in Protected /\ s.token = None
                   /\ (entering \/ tab[t].guard.token # None)
           stays == tab[t].view.layout /\ ViewOf(p, g0, s).layout
           gone == {"login", "profile"}
                   \cup (IF new.path \notin Protected \/ new.guard.token # tab[t].guard.token
                         THEN {"guard"} ELSE {})
<1>1. s \in SafeStores(TRUE) /\ tab[t].guard \in SafeGuards(TRUE)
  BY DEF SafeStores, SafeGuards, SessionInv, TypeOK, TabStates
<1>2. g0 \in SafeGuards(TRUE)
  BY <1>1, GuardsSafe
<1>3. /\ tab' = [tab EXCEPT ![t] = new]
      /\ calls' = Detached(t, cs, gone) \cup Mounted(t, new, s, asks, new.view.layout /\ ~stays)
  BY DEF Navigates
<1>4. new.form = "password" /\ "login" \in gone
  BY DEF Landed
<1> HIDE DEF g0
<1>5. new.view.layout => new.path \in Protected
  BY <1>1, <1>2, LandedSafe
<1> HIDE DEF new, asks, stays, gone
<1>6. \A c \in calls' : /\ Told(c)
                        /\ AtLogin(c) => /\ c.tab \in Tabs /\ tab[c.tab].path \notin Protected
                                         /\ c.tab # t
  BY <1>3, <1>4, <1>5, DetachedArrival, MountedElsewhere DEF AtLogin
<1>7. QED
  BY <1>3, <1>4, <1>6, MovedArrival

LEMMA LoadsArrival ==
  ASSUME SessionInv, ArrivalInv, NEW t \in Tabs, NEW p \in Paths, NEW s \in Stores,
         NEW cs \in SUBSET calls, Loads(t, p, s, cs)
  PROVE  ArrivalInv'
<1> DEFINE g == IF p \in Protected THEN FreshGuard(s) ELSE NoGuard
           new == [path |-> p, guard |-> g, view |-> ViewOf(p, g, s), form |-> "password",
                   page |-> FreshPage]
           asks == p \in Protected /\ s.token = None
<1>1. s \in SafeStores(TRUE)
  BY DEF SafeStores
<1>2. /\ tab' = [tab EXCEPT ![t] = new]
      /\ calls' = Aborted(t, cs) \cup Mounted(t, new, s, asks, new.view.layout)
  BY DEF Loads
<1>3. new.form = "password" /\ (new.view.layout => new.path \in Protected)
  <2>1. new.form = "password"
    OBVIOUS
  <2>2. \E x : x = new /\ x = LET y == IF p \in Protected THEN FreshGuard(s) ELSE NoGuard
                               IN [path |-> p, guard |-> y, view |-> ViewOf(p, y, s),
                                   form |-> "password", page |-> FreshPage]
    OBVIOUS
  <2>3. new.view.layout => new.path \in Protected
    BY <1>1, <2>2, LoadedSafe
  <2>4. QED
    BY <2>1, <2>3
<1> HIDE DEF new, asks
<1>4. \A c \in calls' : /\ Told(c)
                        /\ AtLogin(c) => /\ c.tab \in Tabs /\ tab[c.tab].path \notin Protected
                                         /\ c.tab # t
  BY <1>2, <1>3, AbortedArrival, MountedElsewhere DEF AtLogin
<1>5. QED
  BY <1>2, <1>3, <1>4, MovedArrival

\* A step that changes of the tabs only what is on the page of t.
LEMMA PageArrival ==
  ASSUME SessionInv, ArrivalInv, NEW t \in Tabs, NEW y, tab' = [tab EXCEPT ![t].page = y],
         \A c \in calls' : Told(c) /\ (AtLogin(c) => c \in calls)
  PROVE  ArrivalInv'
<1> DEFINE new == [tab[t] EXCEPT !.page = y]
<1>1. tab[t] \in TabStates /\ calls \subseteq Requests
  BY DEF SessionInv, TypeOK
<1>2. /\ new.path = tab[t].path /\ new.form = tab[t].form /\ tab' = [tab EXCEPT ![t] = new]
  BY <1>1 DEF TabStates
<1> HIDE DEF new
<1>3. \A c \in calls : AtLogin(c) => c.tab \in Tabs /\ tab[c.tab].path \notin Protected
  BY <1>1 DEF ArrivalInv, AtLogin, Requests
<1>4. QED
  BY <1>2, <1>3, MovedArrival DEF ArrivalInv

\* A step that leaves the tabs as they are.
LEMMA StillArrival ==
  ASSUME SessionInv, ArrivalInv, tab' = tab,
         \A c \in calls' : Told(c) /\ (AtLogin(c) => c.tab \in Tabs /\ tab[c.tab].path \notin Protected)
  PROVE  ArrivalInv'
BY DEF ArrivalInv, Told, AtLogin

LEMMA SendsArrival ==
  ASSUME ArrivalInv, NEW t, NEW kind, NEW from, NEW own, NEW right, NEW code,
         kind = "login" => from = "login", Sends(t, kind, from, own, right, code)
  PROVE  /\ \A c \in calls' : Told(c) /\ (AtLogin(c) => c \in calls \/ c.tab = t)
         /\ from # "login" => \A c \in calls' : AtLogin(c) => c \in calls
<1> DEFINE d == Submission(t, kind, from, Credential(store, own), None, right, code)
<1>1. calls' = calls \cup {d}
  BY DEF Sends
<1>2. d.tab = t /\ d.from = from /\ Told(d)
  BY SessionAssumption DEF Submission, NoData, Told
<1> HIDE DEF d
<1>3. QED
  BY <1>1, <1>2 DEF ArrivalInv, AtLogin

LEMMA UserActsArrival ==
  ASSUME SessionInv, ArrivalInv, NEW t \in Tabs, UserActs(t)
  PROVE  ArrivalInv'
<1>0. /\ store \in Stores /\ tab[t] \in TabStates /\ calls \subseteq Requests
      /\ calls \in SUBSET calls
  BY DEF SessionInv, TypeOK
<1>a. \A c \in calls : /\ Told(c)
                       /\ AtLogin(c) => c.tab \in Tabs /\ tab[c.tab].path \notin Protected
  BY <1>0 DEF ArrivalInv, AtLogin, Requests
<1>b. ASSUME NEW step, NEW kind, kind # "login", NEW right, NEW code,
             ProfileSends(t, step, kind, right, code)
      PROVE  ArrivalInv'
  <2> DEFINE y == [tab[t].page EXCEPT !.step = step]
  <2>1. tab' = [tab EXCEPT ![t].page = y]
    BY <1>b DEF ProfileSends
  <2>2. \A c \in calls' : Told(c) /\ (AtLogin(c) => c \in calls)
    BY <1>b, SendsArrival DEF ProfileSends
  <2> HIDE DEF y
  <2>3. QED
    BY <2>1, <2>2, PageArrival
<1>c. ASSUME NEW form, tab' = [tab EXCEPT ![t].form = form], tab[t].path \notin Protected,
             \A c \in calls' : Told(c) /\ (AtLogin(c) => c \in calls \/ c.tab = t)
      PROVE  ArrivalInv'
  <2> DEFINE new == [tab[t] EXCEPT !.form = form]
  <2>1. tab' = [tab EXCEPT ![t] = new] /\ new.path = tab[t].path
    BY <1>0, <1>c DEF TabStates
  <2> HIDE DEF new
  <2>2. \A c \in calls' : /\ Told(c)
                          /\ AtLogin(c) => c.tab \in Tabs /\ tab[c.tab].path \notin Protected
    BY <1>a, <1>c
  <2>3. QED
    BY <1>c, <2>1, <2>2, MovedArrival
<1>1. ASSUME NEW p \in Paths, Open(t, p) PROVE ArrivalInv'
  BY <1>0, <1>1, LoadsArrival DEF Open
<1>2. ASSUME NEW p \in Paths, Click(t, p) PROVE ArrivalInv'
  BY <1>0, <1>2, NavigatesArrival DEF Click
<1>3. ASSUME NEW right \in BOOLEAN, HandleSubmit(t, right) PROVE ArrivalInv'
  <2>1. tab[t].path \notin Protected /\ tab' = [tab EXCEPT ![t].form = "signing-in"]
    BY <1>3 DEF HandleSubmit, PasswordForm, Protected
  <2>2. \A c \in calls' : Told(c) /\ (AtLogin(c) => c \in calls \/ c.tab = t)
    BY <1>3, SendsArrival DEF HandleSubmit
  <2>3. QED
    BY <1>c, <2>1, <2>2
<1>4. ASSUME NEW code, LoginMfaVerify(t, code) PROVE ArrivalInv'
  <2>1. tab[t].path \notin Protected /\ tab' = [tab EXCEPT ![t].form = "verifying"]
    BY <1>4 DEF LoginMfaVerify, CodeDialog, ArrivalInv
  <2>2. \A c \in calls' : Told(c) /\ (AtLogin(c) => c \in calls \/ c.tab = t)
    BY <1>4, SendsArrival DEF LoginMfaVerify
  <2>3. QED
    BY <1>c, <2>1, <2>2
<1>5. CASE HandleMfaCancel(t)
  <2>1. /\ tab[t].path \notin Protected /\ tab' = [tab EXCEPT ![t].form = "password"]
        /\ calls' = calls
    BY <1>5 DEF HandleMfaCancel, CodeDialog, ArrivalInv
  <2>2. QED
    BY <1>a, <1>c, <2>1
<1>6. CASE CancelSetup(t)
  <2> DEFINE y == [tab[t].page EXCEPT !.step = "idle"]
  <2>1. tab' = [tab EXCEPT ![t].page = y] /\ calls' = calls
    BY <1>6 DEF CancelSetup
  <2> HIDE DEF y
  <2>2. QED
    BY <1>a, <2>1, PageArrival
<1>7. CASE HandleLogout(t)
  <2>1. Sends(t, "logout", "layout", None, FALSE, None) /\ tab' = tab
    BY <1>7 DEF HandleLogout
  <2>2. ("logout" = "login" => "layout" = "login") /\ "layout" # "login"
    OBVIOUS
  <2>3. \A c \in calls' : Told(c) /\ (AtLogin(c) => c \in calls)
    BY <2>1, <2>2, SendsArrival, Zenon
  <2>4. QED
    BY <1>a, <2>1, <2>3, StillArrival
<1>8. QED
  BY <1>b, <1>1, <1>2, <1>3, <1>4, <1>5, <1>6, <1>7
  DEF UserActs, HandleProfileUpdate, HandleMfaVerify, HandleMfaDisable, HandleRecovery, HandleMfaSetup

\* What the server does to a request changes neither its page nor its tab.
LEMMA ServerActsArrival ==
  ASSUME SessionInv, ArrivalInv, NEW c \in calls, ServerActs(c)
  PROVE  ArrivalInv'
<1>0. /\ c \in Requests /\ calls \subseteq Requests
  BY DEF SessionInv, TypeOK
<1>a. \A e \in calls : /\ Told(e)
                       /\ AtLogin(e) => e.tab \in Tabs /\ tab[e.tab].path \notin Protected
  BY <1>0 DEF ArrivalInv, AtLogin, Requests
<1>b. ASSUME NEW d, Serves(c, d), Told(d), AtLogin(d) => AtLogin(c) /\ d.tab = c.tab
      PROVE  ArrivalInv'
  <2>1. tab' = tab /\ calls' \subseteq calls \cup {d}
    BY <1>b DEF Serves
  <2>2. \A e \in calls' : /\ Told(e)
                          /\ AtLogin(e) => e.tab \in Tabs /\ tab[e.tab].path \notin Protected
    BY <1>a, <1>b, <2>1
  <2>3. QED
    BY <2>1, <2>2, StillArrival
<1>c. ASSUME NEW status, NEW data, Serves(c, Answer(c, status, data)),
             data.token = "full" => status = "200"
      PROVE  ArrivalInv'
  <2> DEFINE d == Answer(c, status, data)
  <2>1. /\ d.tab = c.tab /\ d.live = c.live /\ d.from = c.from /\ d.kind = c.kind
        /\ d.status = status /\ d.data = data
    BY <1>0 DEF Answer, Requests
  <2> HIDE DEF d
  <2>2. Told(d) /\ (AtLogin(d) => AtLogin(c) /\ d.tab = c.tab)
    BY <1>a, <1>c, <2>1 DEF Told, AtLogin
  <2>3. QED
    BY <1>b, <1>c, <2>2 DEF d
<1>d. NoData.token # "full"
  BY SessionAssumption DEF NoData
<1>e. ASSUME NEW status, Fails(c, status) PROVE ArrivalInv'
  BY <1>c, <1>d, <1>e DEF Fails
<1>f. ASSUME NEW data, Gives(c, data) PROVE ArrivalInv'
  BY <1>c, <1>f DEF Gives
<1>1. CASE Unauthenticated(c) \/ Login(c) \/ Logout(c) \/ GetMe(c) \/ UpdateProfile(c) \/ ReadPage(c)
  BY <1>1, <1>e, <1>f DEF Unauthenticated, Login, Logout, GetMe, UpdateProfile, ReadPage
<1>2. CASE StartEnrollment(c)
  BY <1>2, <1>c DEF StartEnrollment
<1>3. CASE ChooseVerification(c)
  <2>1. \A phase : LET d == [c EXCEPT !.phase = phase]
                   IN Told(d) /\ (AtLogin(d) => AtLogin(c) /\ d.tab = c.tab)
    BY <1>0, <1>a DEF Requests, Told, AtLogin
  <2>2. QED
    BY <1>3, <1>b, <2>1 DEF ChooseVerification
<1>4. CASE ReadUser(c)
  <2>1. \A phase : LET d == [c EXCEPT !.snap = user, !.phase = phase]
                   IN Told(d) /\ (AtLogin(d) => AtLogin(c) /\ d.tab = c.tab)
    BY <1>0, <1>a DEF Requests, Told, AtLogin
  <2>2. QED
    BY <1>4, <1>b, <2>1 DEF ReadUser
<1>5. CASE VerifyEnrollment(c)
  BY <1>5, <1>c, <1>e DEF VerifyEnrollment
<1>6. CASE VerifyChallenge(c)
  BY <1>6, <1>c, <1>e, <1>f DEF VerifyChallenge
<1>7. CASE DisableMFA(c)
  BY <1>7, <1>c, <1>e DEF DisableMFA
<1>8. QED
  BY <1>1, <1>2, <1>3, <1>4, <1>5, <1>6, <1>7 DEF ServerActs

LEMMA LoseArrival ==
  ASSUME SessionInv, ArrivalInv, NEW c \in calls, Lose(c)
  PROVE  ArrivalInv'
<1> DEFINE d == Answer(c, "lost", NoData)
<1>0. /\ c \in Requests /\ calls \subseteq Requests
  BY DEF SessionInv, TypeOK
<1>a. \A e \in calls : /\ Told(e)
                       /\ AtLogin(e) => e.tab \in Tabs /\ tab[e.tab].path \notin Protected
  BY <1>0 DEF ArrivalInv, AtLogin, Requests
<1>1. /\ d.tab = c.tab /\ d.live = c.live /\ d.from = c.from /\ d.kind = c.kind
      /\ d.data = NoData
  BY <1>0 DEF Answer, Requests
<1>2. NoData.token # "full"
  BY SessionAssumption DEF NoData
<1>3. tab' = tab /\ calls' = (calls \ {c}) \cup {d}
  BY DEF Lose
<1> HIDE DEF d
<1>4. \A e \in calls' : /\ Told(e)
                        /\ AtLogin(e) => e.tab \in Tabs /\ tab[e.tab].path \notin Protected
  BY <1>a, <1>1, <1>2, <1>3 DEF Told, AtLogin
<1>5. QED
  BY <1>3, <1>4, StillArrival

LEMMA ProfileTakesArrival ==
  ASSUME SessionInv, ArrivalInv, NEW c \in calls, c.tab \in Tabs, NEW step, NEW s,
         NEW again \in BOOLEAN, NEW then, ProfileTakes(c, step, s, again, then)
  PROVE  ArrivalInv'
<1> DEFINE y == [tab[c.tab].page EXCEPT !.step = step, !.loaded = ~again]
           call == Call(c.tab, "me", "profile", Credential(s, None), then)
           d == [call EXCEPT !.live = c.live]
<1>0. calls \subseteq Requests /\ tab[c.tab] \in TabStates
  BY DEF SessionInv, TypeOK
<1>1. d.from = "profile" /\ d.kind = "me" /\ d.data = NoData
  BY DEF Call, Submission
<1>2. Told(d) /\ ~AtLogin(d)
  <2> HIDE DEF d
  <2>1. QED
    BY <1>1, SessionAssumption DEF Told, AtLogin, NoData
<1>3. calls' \subseteq calls \cup {d}
  BY DEF ProfileTakes, Rest
<1>4. tab' = IF ~c.live THEN tab ELSE [tab EXCEPT ![c.tab].page = y]
  BY DEF ProfileTakes
<1> HIDE DEF d, y
<1>5. \A e \in calls' : /\ Told(e) /\ (AtLogin(e) => e \in calls)
                        /\ AtLogin(e) => e.tab \in Tabs /\ tab[e.tab].path \notin Protected
  BY <1>0, <1>2, <1>3 DEF ArrivalInv, AtLogin, Requests
<1>6. CASE c.live
  BY <1>4, <1>5, <1>6, PageArrival
<1>7. CASE ~c.live
  BY <1>4, <1>5, <1>7, StillArrival
<1>8. QED
  BY <1>6, <1>7

\* An answer that the login page's form shows, if it is still there.
LEMMA FormTakesArrival ==
  ASSUME SessionInv, ArrivalInv, NEW c \in calls, c.tab \in Tabs, c.tab # None, c.from = "login",
         NEW form, FormTakes(c, form)
  PROVE  ArrivalInv'
<1> DEFINE new == [tab[c.tab] EXCEPT !.form = form]
<1>0. calls \subseteq Requests /\ tab[c.tab] \in TabStates
  BY DEF SessionInv, TypeOK
<1>1. \A e \in calls' : /\ Told(e)
                        /\ AtLogin(e) => e.tab \in Tabs /\ tab[e.tab].path \notin Protected
  BY <1>0 DEF ArrivalInv, AtLogin, Requests, FormTakes, Rest
<1>2. CASE c.live
  <2>1. new.path = tab[c.tab].path /\ tab' = [tab EXCEPT ![c.tab] = new]
    BY <1>0, <1>2 DEF FormTakes, TabStates
  <2>2. tab[c.tab].path \notin Protected
    BY <1>2 DEF ArrivalInv, AtLogin
  <2> HIDE DEF new
  <2>3. QED
    BY <1>1, <2>1, <2>2, MovedArrival
<1>3. CASE ~c.live
  BY <1>1, <1>3, StillArrival DEF FormTakes
<1>4. QED
  BY <1>2, <1>3

\* The guard's own request moves a tab only within the protected pages.
LEMMA BootstrapArrival ==
  ASSUME SessionInv, ArrivalInv, NEW c \in calls, c.tab \in Tabs, BootstrapAnswered(c)
  PROVE  ArrivalInv'
<1> DEFINE t == c.tab
           s == IF OK(c) THEN StoreProfileFromAuthMe(c.data) ELSE store
           x == [tab[t].guard EXCEPT !.checked = TRUE, !.authorized = OK(c),
                   !.verified = IF OK(c) THEN IsMfaVerified(s) ELSE @]
           new == Landed(tab[t].path, x, s)
           stays == tab[t].view.layout /\ new.view.layout /\ new.path = tab[t].path
           kept == [tab[t] EXCEPT !.guard = new.guard]
           shown == IF stays THEN kept ELSE new
           gone == IF stays THEN {} ELSE {"profile"}
<1>0. /\ c \in Requests /\ tab[t] \in TabStates /\ calls \subseteq Requests /\ store \in Stores
  BY DEF SessionInv, TypeOK
<1>1. CASE ~c.live
  BY <1>0, <1>1, StillArrival DEF BootstrapAnswered, Rest, ArrivalInv, AtLogin, Requests
<1>2. CASE c.live
  <2>1. /\ tab' = [tab EXCEPT ![t] = shown]
        /\ calls' = Detached(t, Rest(c), gone)
                    \cup (IF stays THEN {} ELSE Mounted(t, new, s, FALSE, new.view.layout))
    BY <1>2 DEF BootstrapAnswered
  <2>2. s \in SafeStores(TRUE)
    BY <1>0 DEF StoreProfileFromAuthMe, SafeStores, Stores
  <2>3. x \in SafeGuards(TRUE)
    BY <1>0 DEF SafeGuards, Guards, TabStates, OK, IsMfaVerified
  <2>4. tab[t].path \notin Protected => new.path = tab[t].path
    BY DEF Landed, ViewOf, View
  <2>5. new.form = "password"
    BY DEF Landed
  <2>6. kept.path = tab[t].path /\ kept.form = tab[t].form
    BY <1>0 DEF TabStates
  <2> HIDE DEF s, x
  <2>7. new.view.layout => new.path \in Protected
    BY <1>0, <2>2, <2>3, LandedSafe DEF TabStates
  <2> HIDE DEF new, kept, gone
  <2>8. /\ shown.form # "password" => shown.path \notin Protected
        /\ tab[t].path \notin Protected => shown.path \notin Protected
    BY <2>4, <2>5, <2>6 DEF ArrivalInv
  <2> HIDE DEF stays, shown
  <2>9. Rest(c) \in SUBSET calls
    BY DEF Rest
  <2>10. \A e \in calls' : /\ Told(e)
                           /\ AtLogin(e) => e.tab \in Tabs /\ tab[e.tab].path \notin Protected
    BY <2>1, <2>7, <2>9, DetachedArrival, MountedElsewhere DEF AtLogin
  <2>11. QED
    BY <2>1, <2>8, <2>10, MovedArrival
<1>3. QED
  BY <1>1, <1>2

LEMMA BrowserActsArrival ==
  ASSUME SessionInv, ArrivalInv, NEW c \in calls, c.tab # None, BrowserActs(c)
  PROVE  ArrivalInv'
<1>0. /\ c \in Requests /\ calls \subseteq Requests /\ store \in Stores /\ c.data \in Data
      /\ tab[c.tab] \in TabStates /\ c.tab \in Tabs
  BY DEF SessionInv, TypeOK, Requests
<1>a. Rest(c) \in SUBSET calls /\ NoStore \in Stores /\ SetAuthSession \in Stores
  BY SessionAssumption DEF Rest, NoStore, SetAuthSession, Stores, Tokens
<1>b. {"login", "profile", "index"} \subseteq Paths
  BY DEF Paths, AdminPaths, Protected
<1>c. \A e \in calls : /\ Told(e)
                       /\ AtLogin(e) => e.tab \in Tabs /\ tab[e.tab].path \notin Protected
  BY <1>0 DEF ArrivalInv, AtLogin, Requests
<1>d. OK(c) \in BOOLEAN
  BY DEF OK
<1>1. CASE Intercept(c)
  BY <1>0, <1>1, <1>a, <1>b, LoadsArrival DEF Intercept
<1>2. CASE LoginAnswered(c)
  <2>1. c.from = "login"
    BY <1>2 DEF LoginAnswered, Takes, ArrivalInv, Told
  <2>2. \/ Navigates(c.tab, "index", SetAuthSession, Rest(c))
        \/ FormTakes(c, IF OK(c) THEN "code" ELSE "password")
    BY <1>2 DEF LoginAnswered
  <2>3. QED
    BY <1>0, <1>a, <1>b, <2>1, <2>2, NavigatesArrival, FormTakesArrival
<1>3. CASE LoginCodeAnswered(c)
  <2>1. \/ Navigates(c.tab, "index", SetAuthSession, Rest(c))
        \/ FormTakes(c, "code")
    BY <1>3 DEF LoginCodeAnswered
  <2>2. QED
    BY <1>0, <1>3, <1>a, <1>b, <2>1, NavigatesArrival, FormTakesArrival DEF LoginCodeAnswered
<1>4. CASE BootstrapAnswered(c)
  BY <1>0, <1>4, BootstrapArrival
<1>5. CASE ProfileAnswered(c)
  <2>1. CASE c.arg = "index"
    BY <1>0, <1>5, <1>a, <1>b, <2>1, NavigatesArrival DEF ProfileAnswered
  <2>2. CASE c.arg # "index"
    <3> DEFINE y == IF OK(c) THEN [loaded |-> TRUE, enabled |-> c.data.enabled,
                                   verified |-> c.data.verified,
                                   step |-> IF c.data.enabled THEN "enabled" ELSE "idle"]
                    ELSE [tab[c.tab].page EXCEPT !.loaded = TRUE]
    <3>1. /\ tab' = IF ~c.live THEN tab ELSE [tab EXCEPT ![c.tab].page = y]
          /\ calls' = Rest(c)
      BY <1>5, <2>2 DEF ProfileAnswered
    <3> HIDE DEF y
    <3>2. CASE c.live
      BY <1>0, <1>a, <1>c, <3>1, <3>2, PageArrival
    <3>3. CASE ~c.live
      BY <1>a, <1>c, <3>1, <3>3, StillArrival
    <3>4. QED
      BY <3>2, <3>3
  <2>3. QED
    BY <2>1, <2>2
<1>6. CASE UpdateAnswered(c)
  BY <1>0, <1>6, <1>d, ProfileTakesArrival DEF UpdateAnswered
<1>7. CASE SetupAnswered(c)
  BY <1>0, <1>7, ProfileTakesArrival DEF SetupAnswered
<1>8. CASE VerifyAnswered(c)
  BY <1>0, <1>8, ProfileTakesArrival DEF VerifyAnswered
<1>9. CASE DisableAnswered(c)
  BY <1>0, <1>9, ProfileTakesArrival DEF DisableAnswered
<1>10. CASE LogoutAnswered(c)
  BY <1>0, <1>10, <1>a, <1>b, NavigatesArrival DEF LogoutAnswered
<1>11. CASE PageAnswered(c)
  BY <1>11, <1>a, <1>c, StillArrival DEF PageAnswered
<1>12. QED
  BY <1>1, <1>2, <1>3, <1>4, <1>5, <1>6, <1>7, <1>8, <1>9, <1>10, <1>11 DEF BrowserActs

LEMMA ArrivalStep == SessionInv /\ ArrivalInv /\ [Next]_vars => ArrivalInv'
<1> SUFFICES ASSUME SessionInv, ArrivalInv, [Next]_vars PROVE ArrivalInv'
  OBVIOUS
<1>1. ASSUME NEW t \in Tabs, UserActs(t) PROVE ArrivalInv'
  BY <1>1, UserActsArrival
<1>2. ASSUME NEW t \in Tabs, Redirect(t) PROVE ArrivalInv'
  <2>1. tab[t].view.to \in Paths
    BY <1>2 DEF SessionInv, TypeOK, Redirect, TabStates, Views, Paths, AdminPaths, Protected
  <2>2. store \in Stores /\ calls \in SUBSET calls
    BY DEF SessionInv, TypeOK
  <2>3. QED
    BY <1>2, <2>1, <2>2, NavigatesArrival DEF Redirect
<1>3. ASSUME NEW c \in calls, ServerActs(c) PROVE ArrivalInv'
  BY <1>3, ServerActsArrival
<1>4. ASSUME NEW c \in calls, BrowserActs(c) PROVE ArrivalInv'
  <2>1. c.tab # None
    BY <1>4 DEF BrowserActs, Intercept, LoginAnswered, LoginCodeAnswered, BootstrapAnswered,
      ProfileAnswered, UpdateAnswered, SetupAnswered, VerifyAnswered, DisableAnswered,
      LogoutAnswered, PageAnswered, Takes
  <2>2. QED
    BY <1>4, <2>1, BrowserActsArrival
<1>5. ASSUME NEW c \in calls, Lose(c) PROVE ArrivalInv'
  BY <1>5, LoseArrival
<1>6. CASE UNCHANGED vars
  BY <1>6 DEF vars, ArrivalInv, Told, AtLogin
<1>7. QED
  BY <1>1, <1>2, <1>3, <1>4, <1>5, <1>6 DEF Next

\* A guard that mounts on the session just stored lets the tab in.
LEMMA LandedIndex ==
  LET new == Landed("index", FreshGuard(SetAuthSession), SetAuthSession)
  IN Shows(new.view) /\ new.path \in Protected \ {"profile"}
<1> DEFINE s == SetAuthSession
           g == FreshGuard(s)
           v0 == ViewOf("index", g, s)
           p1 == IF v0.to = None THEN "index" ELSE v0.to
           g1 == IF p1 \in Protected THEN GuardEffect(g, s) ELSE NoGuard
           new == Landed("index", g, s)
<1>1. s.token = "full" /\ s.profile = "verified" /\ IsMfaVerified(s) /\ None # "full"
  BY SessionAssumption DEF SetAuthSession, IsMfaVerified
<1> HIDE DEF s
<1>2. g.token = s.token /\ g.checked /\ g.authorized /\ g.verified
  BY <1>1 DEF FreshGuard
<1> HIDE DEF g
<1>3. v0 = View(TRUE, IF role = "operator" THEN "incidents" ELSE None)
  BY <1>1, <1>2 DEF ViewOf, AdminIndexRedirect, Protected
<1>4. p1 \in {"index", "incidents"} /\ (p1 = "index" => role # "operator")
  <2> HIDE DEF v0
  <2>1. QED
    BY <1>3, SessionAssumption DEF View
<1> HIDE DEF p1
<1>5. g1 = g
  BY <1>2, <1>4 DEF GuardEffect, Protected
<1>6. ViewOf(p1, g, s) = View(TRUE, None)
  BY <1>1, <1>2, <1>4 DEF ViewOf, AdminIndexRedirect, Protected
<1>7. new.view = ViewOf(p1, g1, s) /\ new.path = p1
  BY DEF Landed, p1
<1> HIDE DEF new, g1
<1>8. Shows(new.view) /\ new.path \in Protected \ {"profile"}
  BY <1>4, <1>5, <1>6, <1>7 DEF Shows, View, Protected
<1>9. QED
  BY <1>8 DEF new, g, s

LEMMA SigningIn ==
  ASSUME SessionInv, ArrivalInv, NEW c \in calls, SignsIn(c)
  PROVE  Shows(tab'[c.tab].view) /\ tab'[c.tab].path \in Protected \ {"profile"}
<1> DEFINE new == Landed("index", FreshGuard(SetAuthSession), SetAuthSession)
<1>1. c.tab \in Tabs /\ tab \in [Tabs -> TabStates]
  BY DEF SessionInv, TypeOK, Requests, SignsIn
<1>2. tab[c.tab].path \notin Protected
  BY DEF SignsIn, AtLogin, ArrivalInv
<1>3. Navigates(c.tab, "index", SetAuthSession, Rest(c))
  BY DEF SignsIn, LoginAnswered, LoginCodeAnswered, ArrivalInv, Told, OK
<1>4. tab' = [tab EXCEPT ![c.tab] = new]
  BY <1>2, <1>3 DEF Navigates, Protected
<1> HIDE DEF new
<1>5. tab'[c.tab] = new
  BY <1>1, <1>4
<1>6. QED
  BY <1>5, LandedIndex DEF new

\* Whatever other tabs, lost answers and late navigations are about, a password
\* or a code accepted on the login page opens an admin page at once: neither
\* the profile nor the login page again (AdminLogin.tsx, ProtectedRoute).
THEOREM SignInLands == Spec => SignInArrives
<1>1. Init => ArrivalInv
  BY DEF Init, ArrivalInv
<1>2. SessionInv /\ ArrivalInv /\ [Next]_vars =>
        [\A c \in calls :
           SignsIn(c) => Shows(tab'[c.tab].view) /\ tab'[c.tab].path \in Protected \ {"profile"}]_vars
  BY SigningIn
<1>3. QED
  BY SessionInit, SessionStep, ArrivalStep, <1>1, <1>2, PTL DEF Spec, SignInArrives
=============================================================================
