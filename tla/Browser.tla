-------------------------------- MODULE Browser --------------------------------
(***************************************************************************)
(* What the browser side of the library shares: one cookie jar for every    *)
(* tab and navigation of an application, and the server its requests reach, *)
(* as those requests see it.  AuthClient and Navigation add the actors.     *)
(*                                                                          *)
(* A sign-in or a refresh issues the next NUMBER: an access token, a        *)
(* refresh token and the has_session marker, planted together; the jar has  *)
(* for each of the three cookies the number it was planted with.  The       *)
(* numbers that descend from one sign-in are a LINE; line 1 is the session  *)
(* the browser starts with.                                                 *)
(*                                                                          *)
(* The server's own interleavings are the subject of TokenRotation and      *)
(* Logout: here a request is served in one step.                            *)
(***************************************************************************)
EXTENDS Deployment, Integers, FiniteSets

CONSTANTS MaxNumber,     \* bound: sessions ever issued
          MaxCalls,      \* bound: calls ever made
          MaxTabs,       \* bound: tabs
          MaxAttempts,   \* maxRefreshAttempts of createAuthProxy
          Mixes          \* the workloads explored, see Mix below

Numbers == 1..MaxNumber
Calls == 1..MaxCalls
Tabs == 1..MaxTabs
Nothing == 0
Events == {"expire", "grace", "revoke", "block"}
Faults == {"throttled", "down", "lost"}

(* A workload: its bounds, and the deployment it runs in. *)
Mix == [tabs : Tabs, calls : 0..MaxCalls, navs : Nat,
        ops : SUBSET {"me", "login", "logout"},
        faults : SUBSET Faults,
        events : [Events -> Nat],
        dep : Deployment]

ASSUME BrowserAssumption ==
  /\ MaxNumber \in Nat \ {0}
  /\ MaxCalls \in Nat
  /\ MaxTabs \in Nat \ {0}
  /\ MaxAttempts \in Nat
  /\ Mixes \subseteq Mix

VARIABLES mix,     \* the workload, fixed
          srv,     \* the server
          jar,     \* the number each cookie the browser holds was planted with
          due      \* events of the workload still to come

sharedVars == <<mix, srv, jar, due>>

Server == [state : [Numbers -> {"unborn", "live", "grace", "spent", "dead"}],
           line : [Numbers -> Numbers \cup {Nothing}],
           to : [Numbers -> Numbers \cup {Nothing}],   \* the successor a grace pointer names
           fresh : SUBSET Numbers,                     \* access tokens not yet expired
           good : SUBSET Numbers,                      \* access tokens not revoked
           reused : SUBSET Numbers,                    \* history: lines ended as reuse
           blocked : BOOLEAN]                          \* the account's status

Answer == [kind : {"ok", "refused", "denied", "blocked", "mfa"} \cup Faults,
           number : Numbers \cup {Nothing},            \* what its cookies are, if it sets any
           line : Numbers \cup {Nothing}]              \* whom its body names

Jar == [Cookies -> Numbers \cup {Nothing}]

Empty == [k \in Cookies |-> Nothing]

Says(kind) == [kind |-> kind, number |-> Nothing, line |-> Nothing]

SharedTypeOK ==
  /\ mix \in Mix
  /\ srv \in Server
  /\ jar \in Jar
  /\ due \in [Events -> Nat]

-----------------------------------------------------------------------------
(* The server.  Each operator is the set of outcomes [srv, answer]. *)

Unborn == {n \in Numbers : srv.state[n] = "unborn"}

Next1 == CHOOSE n \in Unborn : \A m \in Unborn : n <= m

Accepted(n) == n \in srv.fresh \cap srv.good

(* A presented refresh token would still yield a session. *)
Honoured(s, n) ==
  /\ n # Nothing
  /\ \/ s.state[n] = "live"
     \/ s.state[n] = "grace" /\ s.state[s.to[n]] = "live"

KillIn(s, dying) ==
  [s EXCEPT !.state = [n \in Numbers |-> IF n \in dying /\ @[n] # "unborn" THEN "dead" ELSE @[n]]]

KillAll(s) == [KillIn(s, Numbers) EXCEPT !.good = {}]

LineOf(s, l) == {n \in Numbers : s.line[n] = l}

(* n, issued in line l. *)
Granted(s, n, l) ==
  [s EXCEPT !.state[n] = "live", !.line[n] = l, !.fresh = @ \cup {n}, !.good = @ \cup {n}]

Carrying(n, l) == [kind |-> "ok", number |-> n, line |-> l]

(* AuthService.refresh: rotation, one recovery by a token still in grace,   *)
(* the end of the line for one presented again after that, and every        *)
(* session's end for a blocked account.                                     *)
Refreshed(n) ==
  IF n = Nothing \/ srv.state[n] = "dead"
    THEN {[srv |-> srv, answer |-> Says("refused")]}
  ELSE LET l == srv.line[n] IN
    IF ~Honoured(srv, n)
      THEN {[srv |-> [KillIn(srv, LineOf(srv, l)) EXCEPT !.reused = @ \cup {l}],
             answer |-> Says("refused")]}
    ELSE IF srv.blocked
      THEN {[srv |-> KillAll(srv), answer |-> Says("blocked")]}
    ELSE {[srv |-> Granted([srv EXCEPT !.state[n] = IF @ = "live" THEN "grace" ELSE "spent",
                                       !.to[n] = m], m, l),
           answer |-> Carrying(m, l)] : m \in {Next1}}

SignedIn ==
  {[srv |-> srv, answer |-> Says(k)] : k \in {"denied", "mfa"}}
    \cup (IF srv.blocked THEN {[srv |-> srv, answer |-> Says("blocked")]}
          ELSE {[srv |-> Granted(srv, m, m), answer |-> Carrying(m, m)] : m \in {Next1}})

(* AuthService.logout of the presented pair; idempotent, so always final. *)
SignedOut(cred) ==
  {[srv |-> [KillIn(srv, {cred["refresh"]}) EXCEPT !.good = @ \ {cred["access"]}],
    answer |-> Says("ok")]}

(* GET /me, behind JwtAuthGuard alone: every refusal is TOKEN_INVALID. *)
Named(n) ==
  {[srv |-> srv, answer |-> IF n # Nothing /\ Accepted(n)
                              THEN [Says("ok") EXCEPT !.line = srv.line[n]]
                              ELSE Says("refused")]}

Untouched(kind) == [srv |-> srv, answer |-> Says(kind)]

Disturbed(kind, outcomes) ==
  IF kind \in mix.faults
    THEN {Untouched(kind)} \cup {[o EXCEPT !.answer = Says(kind)] : o \in outcomes}
    ELSE {}

(* A request that is served; throttled before it is; answered with a 5xx or *)
(* not at all, served or not.                                               *)
Served(outcomes) ==
  outcomes \cup (IF "throttled" \in mix.faults THEN {Untouched("throttled")} ELSE {})
           \cup Disturbed("down", outcomes) \cup Disturbed("lost", outcomes)

(* Bound: a request that would issue a number beyond the last is not served. *)
Room == Unborn # {}

-----------------------------------------------------------------------------
(* The jar. *)

(* What it sends to the refresh and logout routes of the API, or of Next.js. *)
Presented(via) == [k \in Cookies |-> IF SentTo(mix.dep, k, via) THEN jar[k] ELSE Nothing]

(* It meets the cookies of number n, or the deletions of a sign-out. *)
Planting(n) == [k \in Cookies |-> IF Taken(mix.dep, Planted(mix.dep, k)) THEN n ELSE jar[k]]

Clearing(via) == [k \in Cookies |-> IF k \in DeletedBy(mix.dep, via) THEN Nothing ELSE jar[k]]

-----------------------------------------------------------------------------
(* What happens on the server beside this browser. *)

Happens(e) == due[e] > 0 /\ due' = [due EXCEPT ![e] = @ - 1]

Expire ==
  /\ Happens("expire")
  /\ \E n \in srv.fresh : srv' = [srv EXCEPT !.fresh = {m \in @ : m > n}]
  /\ UNCHANGED <<mix, jar>>

GraceLapses ==
  /\ Happens("grace")
  /\ \E n \in Numbers :
       /\ srv.state[n] = "grace"
       /\ srv' = [srv EXCEPT !.state[n] = "spent"]
  /\ UNCHANGED <<mix, jar>>

RevokedElsewhere ==
  /\ Happens("revoke")
  /\ srv' = KillAll(srv)
  /\ UNCHANGED <<mix, jar>>

Blocked ==
  /\ Happens("block")
  /\ srv' = [srv EXCEPT !.blocked = TRUE]
  /\ UNCHANGED <<mix, jar>>

SharedInit ==
  /\ mix \in Mixes
  /\ due = mix.events
  /\ Validated(mix.dep)
  /\ jar = [k \in Cookies |-> 1]
  /\ srv = [state |-> [n \in Numbers |-> IF n = 1 THEN "live" ELSE "unborn"],
            line |-> [n \in Numbers |-> IF n = 1 THEN 1 ELSE Nothing],
            to |-> [n \in Numbers |-> Nothing],
            fresh |-> {1}, good |-> {1}, reused |-> {}, blocked |-> FALSE]
=============================================================================
