------------------------------- MODULE Deployment -------------------------------
(***************************************************************************)
(* What a deployment configures of the cookies, as resolveOptions accepts   *)
(* it, what Set-Cookie attributes follow from it at the API and at the      *)
(* Next.js handlers, and what a browser does with them.                     *)
(*                                                                          *)
(* A sign-in plants three cookies and a sign-out clears them.  A browser    *)
(* drops a Set-Cookie whose attributes break the rules, a deletion too, and *)
(* a deletion removes only the cookie of its own domain and path.           *)
(***************************************************************************)

(* The raw options of the module, then those of the Next.js handlers (the   *)
(* last four fields); "unset" leaves an option to its default.              *)
Deployment == [sameSite : {"strict", "lax", "none"},
               secureCookies : {"unset", "on", "off"},
               environment : {"production", "development"},
               prefix : {"", "__Secure-", "__Host-"},       \* of the cookies' names
               resolveDomains : BOOLEAN,                    \* cookies carry a Domain
               routePrefix : {"auth", "session"},
               refreshCookiePath : {"unset", "/", "/auth", "/session", "/api/auth"},
               trustedOrigins : BOOLEAN,
               via : {"api", "next"},                       \* where the fetch client's calls go
               cookieDomain : BOOLEAN,
               nextRefreshPath : {"unset", "/", "/auth", "/session"},
               skewed : BOOLEAN]                            \* the proxy holds another secret

Cookies == {"access", "refresh", "signal"}

(* secureCookies defaults to what the environment says. *)
Secure(d) ==
  \/ d.secureCookies = "on"
  \/ d.secureCookies = "unset" /\ d.environment = "production"

OrDefault(path, default) == IF path = "unset" THEN default ELSE path

RefreshPath(d) == OrDefault(d.refreshCookiePath, "/auth")

PathOf(d, k) == IF k = "refresh" THEN RefreshPath(d) ELSE "/"

-----------------------------------------------------------------------------
(* resolveOptions *)

(* validateCookiePrefixes.  Mutant: the path of a __Host- cookie is not     *)
(* looked at. *)
PrefixesKeptAnyPath(d) ==
  /\ d.prefix # "" => Secure(d)
  /\ d.prefix = "__Host-" => ~d.resolveDomains

PrefixesKept(d) ==
  /\ d.prefix # "" => Secure(d)
  /\ d.prefix = "__Host-" => ~d.resolveDomains /\ \A k \in Cookies : PathOf(d, k) = "/"

SameSiteKept(d) == d.sameSite = "none" => Secure(d) /\ d.trustedOrigins

(* No session cookie without Secure in production; a route prefix of one's  *)
(* own comes with a path for the refresh cookie.                            *)
Validated(d) ==
  /\ PrefixesKept(d)
  /\ SameSiteKept(d)
  /\ ~(d.secureCookies = "off" /\ d.environment = "production")
  /\ d.routePrefix # "auth" => d.refreshCookiePath # "unset"

-----------------------------------------------------------------------------
(* The Set-Cookie lines. *)

SameSiteOf(d, k) ==
  IF k = "refresh" /\ d.sameSite # "none" THEN "strict" ELSE d.sameSite

Planted(d, k) ==
  [domain |-> d.resolveDomains, path |-> PathOf(d, k), secure |-> Secure(d),
   sameSite |-> SameSiteOf(d, k)]

(* clearAuthSession: the base options carry no Secure. *)
ClearedByApi(d, k) == [Planted(d, k) EXCEPT !.secure = FALSE]

(* serializeClearCookie, of the names, paths and domain the handlers are    *)
(* told.  Mutant: the domain is left out.                                   *)
ClearedByNextHostOnly(d, k) ==
  [domain |-> FALSE,
   path |-> IF k = "refresh" THEN OrDefault(d.nextRefreshPath, "/api/auth") ELSE "/",
   secure |-> TRUE, sameSite |-> "strict"]

ClearedByNext(d, k) ==
  [domain |-> d.cookieDomain,
   path |-> IF k = "refresh" THEN OrDefault(d.nextRefreshPath, "/api/auth") ELSE "/",
   secure |-> TRUE, sameSite |-> "strict"]

-----------------------------------------------------------------------------
(* The browser, of an application whose Secure cookies are served over      *)
(* HTTPS and whose others are not.                                          *)

Https(d) == Secure(d)

(* It takes a Set-Cookie. *)
Taken(d, cookie) ==
  /\ cookie.secure => Https(d)
  /\ cookie.sameSite = "none" => cookie.secure
  /\ d.prefix # "" => cookie.secure
  /\ d.prefix = "__Host-" => ~cookie.domain /\ cookie.path = "/"

(* The line deletes cookie k. *)
Deletes(d, k, line) ==
  /\ Taken(d, line)
  /\ line.domain = d.resolveDomains
  /\ line.path = PathOf(d, k)

(* It sends cookie k to the refresh and logout routes of the API or of the  *)
(* Next.js handlers.                                                        *)
RouteOf(d, via) ==
  IF via = "next" THEN "/api/auth" ELSE IF d.routePrefix = "auth" THEN "/auth" ELSE "/session"

SentTo(d, k, via) == PathOf(d, k) \in {"/", RouteOf(d, via)}

(* Which cookies a sign-out at the API, or a handler of Next.js, deletes.   *)
DeletedBy(d, via) ==
  {k \in Cookies : Deletes(d, k, IF via = "next" THEN ClearedByNext(d, k) ELSE ClearedByApi(d, k))}

(* The handlers were told the path and domain the API plants with, over     *)
(* HTTPS.                                                                   *)
HandlersAgree(d) ==
  /\ d.cookieDomain = d.resolveDomains
  /\ OrDefault(d.nextRefreshPath, "/api/auth") = RefreshPath(d)
  /\ Https(d)
=============================================================================
