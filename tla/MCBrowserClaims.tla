---------------------------- MODULE MCBrowserClaims ----------------------------
(* Two accepted deployments whose cookies need Secure. *)
EXTENDS BrowserClaims

CrossSite == [sameSite |-> "none", secureCookies |-> "unset", environment |-> "production",
              prefix |-> "", resolveDomains |-> FALSE, routePrefix |-> "auth",
              refreshCookiePath |-> "unset", trustedOrigins |-> TRUE, via |-> "api",
              cookieDomain |-> FALSE, nextRefreshPath |-> "unset", skewed |-> FALSE]

Prefixed == [CrossSite EXCEPT !.sameSite = "lax", !.prefix = "__Host-", !.refreshCookiePath = "/"]

MCMixes == {[tabs |-> 1, calls |-> 1, navs |-> 0, ops |-> {"logout"}, faults |-> {},
             events |-> [e \in Events |-> 0], dep |-> d] : d \in {CrossSite, Prefixed}}
=============================================================================
