------------------------------- MODULE Navigation -------------------------------
(***************************************************************************)
(* A page load through createAuthProxy, in the browser whose jar the tabs   *)
(* share.  The proxy shows the page, sends the browser elsewhere, or sends  *)
(* it through the silent-refresh handler and back; two guards keep that     *)
(* from going on for ever: the counter _r on the destination and            *)
(* reason=expired on the login page.                                        *)
(***************************************************************************)
EXTENDS Browser

VARIABLES nav,
          navsMade   \* page loads begun

navVars == <<nav, navsMade>>

(* app is the default dashboard; admin admits another role than the user's; *)
(* login is public and redirects the signed in.                             *)
Paths == {"app", "admin", "login"}

Nav == [pc : {"idle", "edge", "silent", "relayed"},
        kind : {"page", "cross", "background"},
        path : Paths,
        count : 0..MaxAttempts,
        reason : BOOLEAN,                      \* reason=expired
        cred : Numbers \cup {Nothing},
        answer : Answer]

Unvisited == [pc |-> "idle", kind |-> "page", path |-> "app", count |-> 0, reason |-> FALSE,
              cred |-> Nothing, answer |-> Says("ok")]

NavTypeOK ==
  /\ nav \in Nav
  /\ navsMade \in Nat

-----------------------------------------------------------------------------
(* The navigation sends the cookie: Strict keeps it from one that another   *)
(* site began.                                                              *)
Carries(k) ==
  /\ jar[k] # Nothing
  /\ nav.kind = "cross" => SameSiteOf(mix.dep, k) # "strict"

(* readTokenState: the signature and the expiry, not the revocations. *)
Authenticated == Carries("access") /\ jar["access"] \in srv.fresh /\ ~mix.dep.skewed

HasSession == Carries("signal")

(* A page is shown, or a background request answered with a bare status. *)
Shown == Unvisited

Visit(path, count, reason) ==
  [nav EXCEPT !.pc = "edge", !.path = path, !.count = count, !.reason = reason,
              !.cred = Nothing, !.answer = Says("ok")]

ToLogin(reason) == Visit("login", 0, reason)

ThroughSilent ==
  [nav EXCEPT !.pc = "silent", !.cred = Presented("next")["refresh"], !.count = @ + 1, !.reason = FALSE]

(* Both anti-loop guards.  Mutants: each alone. *)
CounterOnly == nav.count >= MaxAttempts

ReasonOnly == nav.reason

LoopBroken == nav.count >= MaxAttempts \/ nav.reason

(* handleProtectedRoute and its unauthenticated branch. *)
OnProtected ==
  IF Authenticated THEN
    IF nav.path = "app" \/ nav.kind = "background" THEN Shown ELSE Visit("app", 0, FALSE)
  ELSE IF ~HasSession /\ ~Carries("access") THEN ToLogin(FALSE)
  ELSE IF LoopBroken THEN ToLogin(TRUE)
  ELSE IF HasSession THEN ThroughSilent
  ELSE ToLogin(FALSE)

(* handlePublicRoute and its authenticated branch. *)
OnPublic ==
  IF Authenticated THEN IF nav.reason THEN Shown ELSE Visit("app", 0, FALSE)
  ELSE IF LoopBroken \/ ~HasSession THEN Shown
  ELSE ThroughSilent

StartNav ==
  /\ nav.pc = "idle" /\ navsMade < mix.navs
  /\ \E path \in Paths, kind \in {"page", "cross", "background"} :
       nav' = [Unvisited EXCEPT !.pc = "edge", !.kind = kind, !.path = path]
  /\ navsMade' = navsMade + 1
  /\ UNCHANGED sharedVars

(* runProxy.  A background request that is not signed in gets a bare 401. *)
Proxy ==
  /\ nav.pc = "edge"
  /\ nav' = IF nav.kind = "background" /\ ~Authenticated THEN Shown
            ELSE IF nav.path = "login" THEN OnPublic ELSE OnProtected
  /\ UNCHANGED <<sharedVars, navsMade>>

(* silentRefreshHandler: refuses a cross-site caller before it refreshes.   *)
SilentRefused ==
  /\ nav.pc = "silent" /\ nav.kind = "cross"
  /\ nav' = ToLogin(TRUE)
  /\ UNCHANGED <<sharedVars, navsMade>>

SilentServed ==
  /\ nav.pc = "silent" /\ nav.kind # "cross"
  /\ \E o \in Served(IF Room THEN Refreshed(nav.cred) ELSE {Untouched("down")}) :
       /\ srv' = o.srv
       /\ nav' = [nav EXCEPT !.pc = "relayed", !.answer = o.answer]
  /\ UNCHANGED <<mix, jar, due, navsMade>>

(* buildSuccessRedirect, or buildLogoutRedirect for any failure.            *)
(* Mutant: the failure redirect does not name its reason. *)
SignedOutPageUnmarked == ToLogin(FALSE)

SignedOutPage == ToLogin(TRUE)

SilentAnswered ==
  /\ nav.pc = "relayed"
  /\ IF nav.answer.kind = "ok"
       THEN /\ nav' = Visit(nav.path, nav.count, FALSE)
            /\ jar' = Planting(nav.answer.number)
       ELSE /\ nav' = SignedOutPage
            /\ jar' = Clearing("next")
  /\ UNCHANGED <<mix, srv, due, navsMade>>

NavInit == nav = Unvisited /\ navsMade = 0

NavStep == Proxy \/ SilentRefused \/ SilentServed \/ SilentAnswered
=============================================================================
