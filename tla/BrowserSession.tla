----------------------------- MODULE BrowserSession -----------------------------
(***************************************************************************)
(* Tabs, page loads and one jar between them, beside the server and what    *)
(* happens to the account elsewhere.                                        *)
(***************************************************************************)
EXTENDS AuthClient, Navigation

vars == <<sharedVars, clientVars, navVars>>

TypeOK == SharedTypeOK /\ ClientTypeOK /\ NavTypeOK

Init == SharedInit /\ ClientInit /\ NavInit

ClientStep ==
  /\ \E c \in Calls : \/ Begin(c)
                      \/ Send(c)
                      \/ Serve(c)
                      \/ Receive(c)
                      \/ Intercept(c)
                      \/ ServeRefresh(c)
                      \/ RefreshSettles(c)
  /\ UNCHANGED navVars

NavigationStep == (StartNav \/ NavStep) /\ UNCHANGED clientVars

ServerStep ==
  /\ Expire \/ GraceLapses \/ RevokedElsewhere \/ Blocked
  /\ UNCHANGED <<clientVars, navVars>>

Next == ClientStep \/ NavigationStep \/ ServerStep

Spec == Init /\ [][Next]_vars

(* The browser follows redirects and the server answers; no one has to make *)
(* a call or load a page, and no event has to happen.                       *)
FairSpec == Spec /\ WF_vars(NavStep /\ UNCHANGED clientVars)

-----------------------------------------------------------------------------
(* What a tab shows was never asked for before the last sign-in, second-    *)
(* factor gate or sign-out its user completed: an answer that was on its    *)
(* way then neither brings the earlier user back nor ends the new session   *)
(* (the generation in AuthProvider).                                        *)
NotOverwritten == \A t \in Tabs : view[t].asOf = view[t].turns

(* A tab that works alone: no second tab, page load or lost answer shares   *)
(* or duplicates its refresh token.                                         *)
Alone == mix.tabs = 1 /\ mix.navs = 0 /\ mix.faults \subseteq {"throttled"}

(* A tab is told its session is over only when it is: the number it         *)
(* presented yields no session any more, and it was not the tab's own       *)
(* concurrent refreshes that the server took for reuse.  (performRefresh's  *)
(* three reasons, the shared slot, and the provider's final answers.)  The  *)
(* Next.js refresh route turns every failure of its upstream into a         *)
(* refusal, so behind it only fault-free workloads have this.               *)
EndedForReal ==
  \A told \in ended :
    /\ told.by = "logout" \/ mix.dep.via = "api" \/ mix.faults = {} => ~Honoured(srv, told.cred)
    /\ Alone => srv.reused = {}

(* A completed sign-in leaves its three cookies in the jar, whatever        *)
(* options the module accepted (a browser silently drops a cookie that      *)
(* breaks its name's prefix), and a completed sign-out through Next.js      *)
(* handlers that were told the API's path and domain leaves none.           *)
Completes(c, op) ==
  At(c, "answered") /\ calls[c].op = op /\ calls[c].answer.kind = "ok" /\ calls'[c].pc = "done"

CookiesFollow ==
  [][\A c \in Calls :
       /\ Completes(c, "login") => jar' = [k \in Cookies |-> calls[c].answer.number]
       /\ Completes(c, "logout") /\ mix.dep.via = "next" /\ HandlersAgree(mix.dep)
            => jar' = Empty]_vars

(* Every page load ends on a page: neither cookies that cannot be cleared,  *)
(* nor tokens the proxy does not accept, nor a session that ends on the way *)
(* keep the browser going in circles (the two guards of proxyHandlers).     *)
NavigationEnds == nav.pc # "idle" ~> nav.pc = "idle"
=============================================================================
