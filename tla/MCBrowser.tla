------------------------------- MODULE MCBrowser -------------------------------
(* The workloads of the browser run, one question each. *)
EXTENDS BrowserSession

NoEvents == [e \in Events |-> 0]

(* The defaults, the fetch client at the API. *)
MCDeployment == [sameSite |-> "lax", secureCookies |-> "unset", environment |-> "production",
                 prefix |-> "", resolveDomains |-> FALSE, routePrefix |-> "auth",
                 refreshCookiePath |-> "unset", trustedOrigins |-> FALSE, via |-> "api",
                 cookieDomain |-> FALSE, nextRefreshPath |-> "unset", skewed |-> FALSE]

(* As the handlers of Next.js expect it. *)
Relaying == [MCDeployment EXCEPT !.refreshCookiePath = "/api/auth", !.via = "next"]

Deployments ==
  {[MCDeployment EXCEPT !.sameSite = s, !.environment = e, !.prefix = p, !.resolveDomains = d,
                        !.refreshCookiePath = r, !.trustedOrigins = o, !.via = v,
                        !.cookieDomain = cd, !.nextRefreshPath = n] :
     s \in {"strict", "lax", "none"}, e \in {"production", "development"},
     p \in {"", "__Secure-", "__Host-"}, d \in BOOLEAN, r \in {"unset", "/", "/api/auth"},
     o \in BOOLEAN, v \in {"api", "next"}, cd \in BOOLEAN, n \in {"unset", "/"}}

Base == [tabs |-> 1, calls |-> 0, navs |-> 0, ops |-> {"me"}, faults |-> {}, events |-> NoEvents,
         dep |-> MCDeployment]

MCMixes == {
  \* one tab, every operation, throttled at times
  [Base EXCEPT !.calls = 3, !.ops = {"me", "login", "logout"}, !.faults = {"throttled"},
               !.events["expire"] = 1, !.events["block"] = 1],
  \* one tab, several validations over one expired access token, grace at its shortest
  [Base EXCEPT !.calls = 3, !.faults = {"throttled"},
               !.events["expire"] = 1, !.events["grace"] = 1],
  \* one tab, any answer failing or lost
  [Base EXCEPT !.calls = 2, !.ops = {"me", "logout"}, !.faults = Faults,
               !.events["expire"] = 1, !.events["revoke"] = 1],
  \* two tabs of one jar
  [Base EXCEPT !.tabs = 2, !.calls = 3, !.ops = {"me", "logout"},
               !.events["expire"] = 1, !.events["grace"] = 1],
  \* a tab beside a page load, the refresh relayed by the Next.js route
  [Base EXCEPT !.calls = 2, !.navs = 1, !.dep = Relaying, !.ops = {"me", "logout"},
               !.events["expire"] = 1, !.events["grace"] = 1],
  \* page loads while the server fails, the account is revoked and tokens expire
  [Base EXCEPT !.navs = 2, !.dep = [Relaying EXCEPT !.sameSite = "strict"], !.faults = Faults,
               !.events["expire"] = 2, !.events["revoke"] = 1, !.events["block"] = 1],
  \* cookies the handlers cannot delete; tokens the proxy does not accept
  [Base EXCEPT !.navs = 2, !.dep = [Relaying EXCEPT !.resolveDomains = TRUE], !.faults = Faults,
               !.events["expire"] = 2, !.events["revoke"] = 1],
  [Base EXCEPT !.navs = 2, !.dep = [Relaying EXCEPT !.skewed = TRUE],
               !.events["expire"] = 1, !.events["revoke"] = 1]}
  \* a sign-out, and a sign-in, of every deployment
  \cup {[Base EXCEPT !.calls = 1, !.ops = {"login", "logout"}, !.dep = d] : d \in Deployments}
=============================================================================
