-------------------------------- MODULE Logout --------------------------------
(***************************************************************************)
(* AuthService.logout and PlatformAuthService.logout over the keyspace of   *)
(* RefreshStore.  A logout is a LIST of writes, each one command the store  *)
(* may refuse; every write is attempted whatever the earlier ones did, and  *)
(* a failed attempt leaves a marker naming the owner for the retry that     *)
(* finishes it.  Attempts of one logout run one after another or beside     *)
(* each other, and beside the refreshes of the same token.                  *)
(*                                                                          *)
(*   GET rt:h, else GET lp:h -> the writes, in order -> (failed: SET lp:h,  *)
(*   answer an error) or (DEL lp:h, announce, answer success)               *)
(*                                                                          *)
(*   marker[h]    lp:h / plp:h   the owner of a logout an attempt failed    *)
(*   blacklist    rv:jti         access tokens, by the session hash they    *)
(*                               were issued with                           *)
(***************************************************************************)
EXTENDS RefreshStore, Sequences

CONSTANTS Attempts,     \* logout handler instances, numbered
          SessionsOn,   \* options.sessions.enabled
          Refusable,    \* the commands the store may refuse
          Losable,      \* the commands it may carry out without its answer arriving
          Mixes         \* the workloads explored, see Mix below

(* Bounds on one workload. *)
Mix == [handlers : Nat,       \* attempts that may overlap
        begun : Nat,          \* attempts in all
        failures : Nat,       \* failing commands
        refreshes : BOOLEAN]  \* do refreshes run beside the attempts

Commands == {"readSession", "readMarker", "blacklist", "live", "member", "detail",
             "pointer", "pointerMember", "metadata", "remember", "settle", "confirm"}

ASSUME LogoutAssumption ==
  /\ SessionsOn \in BOOLEAN
  /\ Refusable \subseteq Commands
  /\ Losable \subseteq Commands
  /\ Attempts \subseteq Nat
  /\ Mixes \subseteq Mix
  /\ None \notin Users

VARIABLES mix,          \* the workload, fixed
          plane,        \* "dashboard" or "platform": whose keyspace this is
          marker,       \* lp:h
          blacklist,    \* rv:, as a set of hashes
          lapsed,       \* hashes whose access token has expired
          req,          \* the state each attempt holds between two commands
          failures,     \* failing commands so far
          announced,    \* history: how often the hook named the logout of h
          named,        \* history: hashes an attempt found a session for
          succeeded,    \* history: [hash, token] of the attempts answered with success
          begun,        \* attempts begun
          overlapped,   \* history: two attempts ran beside each other
          unkept        \* history: the store lost what the next retry needed

logoutVars == <<mix, plane, marker, blacklist, lapsed, req, failures, announced, named,
                succeeded, begun, overlapped, unkept>>

fixedVars == <<mix, plane, begun, overlapped>>

vars == <<storeVars, logoutVars>>

-----------------------------------------------------------------------------
(* Type definitions *)

Request == [pc : {"idle", "readMarker", "writing", "metadata", "remember", "settle",
                  "confirm", "again"},
            hash : Hashes \cup {None},
            token : BOOLEAN,                    \* came with a verifiable access token
            owner : Users \cup {NoUser},
            fromSession : BOOLEAN,
            writes : Seq(Commands),             \* writes still to attempt
            failed : SUBSET Commands]           \* writes that raised

Idle == [pc |-> "idle", hash |-> None, token |-> FALSE, owner |-> NoUser,
         fromSession |-> FALSE, writes |-> <<>>, failed |-> {}]

(* Markers, attempts and the store are well-typed: in particular no marker  *)
(* names nobody, and no attempt is left with a write of no known kind.      *)
TypeOK ==
  /\ StoreTypeOK
  /\ mix \in Mixes
  /\ plane \in {"dashboard", "platform"}
  /\ marker \in [Hashes -> Users \cup {None}]
  /\ blacklist \subseteq Hashes
  /\ lapsed \subseteq Hashes
  /\ req \in [Attempts -> Request]
  /\ failures \in Nat
  /\ announced \in [Hashes -> Nat]
  /\ named \subseteq Hashes
  /\ succeeded \subseteq [hash : Hashes, token : BOOLEAN]
  /\ begun \in Nat
  /\ overlapped \in BOOLEAN
  /\ unkept \in BOOLEAN

-----------------------------------------------------------------------------
(* Helper formulae *)

At(r, pc) == req[r].pc = pc

Goto(r, state) == req' = [req EXCEPT ![r] = state]

Finish(r) == Goto(r, Idle)

(* What may become of a command: carried out; refused; carried out with its *)
(* answer lost.  The caller sees an error in the last two.                  *)
Outcomes(c) ==
  {"done"} \cup (IF failures < mix.failures /\ c \in Refusable THEN {"refused"} ELSE {})
           \cup (IF failures < mix.failures /\ c \in Losable THEN {"lost"} ELSE {})

Spend(o) == failures' = IF o = "done" THEN failures ELSE failures + 1

Carried(o) == o # "refused"

Raised(o) == o # "done"

(* blacklistWrites and the rest of the list handed to settleWrites.         *)
(* Mutant: the pointer is deleted before the session. *)
WritesPointerFirst(token) ==
  IF plane = "dashboard"
    THEN (IF token THEN <<"blacklist">> ELSE <<>>) \o <<"pointer", "live">>
    ELSE (IF token THEN <<"blacklist">> ELSE <<>>)
           \o <<"pointer", "pointerMember", "live", "member", "detail">>

Writes(token) ==
  IF plane = "dashboard"
    THEN (IF token THEN <<"blacklist">> ELSE <<>>) \o <<"live", "pointer">>
    ELSE (IF token THEN <<"blacklist">> ELSE <<>>)
           \o <<"live", "member", "detail", "pointer", "pointerMember">>

(* settleAfter: a write that only follows another is skipped when the other *)
(* raised.  Mutant: every write is attempted. *)
SkippedNever(r, w) == FALSE

Skipped(r, w) ==
  \/ w \in {"member", "detail"} /\ "live" \in req[r].failed
  \/ w = "pointerMember" /\ "pointer" \in req[r].failed

-----------------------------------------------------------------------------
Init ==
  /\ StoreInit([h \in Hashes |-> None])
  /\ mix \in Mixes
  /\ plane \in {"dashboard", "platform"}
  /\ marker = [h \in Hashes |-> None]
  /\ blacklist = {}
  /\ lapsed = {}
  /\ req = [r \in Attempts |-> Idle]
  /\ failures = 0
  /\ announced = [h \in Hashes |-> 0]
  /\ named = {}
  /\ succeeded = {}
  /\ begun = 0
  /\ overlapped = FALSE
  /\ unkept = FALSE

-----------------------------------------------------------------------------
(* logout *)

(* readSessionOwner(rt:h).  A read that fails is the whole answer.  Bound:  *)
(* every attempt signs out of the token the sign-in returned.  Handlers are *)
(* alike: the first idle one serves.                                        *)
LogoutReadSession(r, h, token) ==
  /\ r <= mix.handlers
  /\ At(r, "idle") /\ \A s \in Attempts : s < r => ~At(s, "idle")
  /\ begun < mix.begun
  /\ ~Fresh(h)
  /\ minted[h].by = "login"
  /\ begun' = begun + 1
  /\ overlapped' = (overlapped \/ \E s \in Attempts : ~At(s, "idle"))
  /\ \E o \in Outcomes("readSession") :
       /\ Spend(o)
       /\ CASE Raised(o) -> Finish(r) /\ UNCHANGED named
            [] ~Raised(o) /\ IsLive(h) ->
                 /\ Goto(r, [Idle EXCEPT !.pc = "writing", !.hash = h, !.token = token,
                               !.owner = live[h].user, !.fromSession = TRUE,
                               !.writes = Writes(token /\ h \notin lapsed)])
                 /\ named' = named \cup {h}
            [] ~Raised(o) /\ ~IsLive(h) ->
                 /\ Goto(r, [Idle EXCEPT !.pc = "readMarker", !.hash = h, !.token = token])
                 /\ UNCHANGED named
  /\ UNCHANGED <<storeVars, mix, plane, marker, blacklist, lapsed, announced, succeeded,
                 unkept>>

(* Mutant: a logout of a session that is gone has nobody to name. *)
MarkedOwnerIgnored(h) == NoUser

(* Mutant: a missing marker is not read as nobody. *)
MarkedOwnerRaw(h) == marker[h]

MarkedOwner(h) == IF marker[h] = None THEN NoUser ELSE marker[h]

LogoutReadMarker(r) ==
  /\ At(r, "readMarker")
  /\ \E o \in Outcomes("readMarker") :
       /\ Spend(o)
       /\ IF Raised(o)
            THEN Finish(r)
            ELSE Goto(r, [req[r] EXCEPT !.pc = "writing", !.owner = MarkedOwner(req[r].hash),
                            !.writes = Writes(req[r].token /\ req[r].hash \notin lapsed)])
  /\ UNCHANGED <<storeVars, marker, blacklist, lapsed, announced, named, succeeded, fixedVars, unkept>>

(* What a write does to the store.  An index member is removed only from an *)
(* index the attempt can name.                                              *)
Effect(w, h, owner) ==
  /\ blacklist' = IF w = "blacklist" THEN blacklist \cup {h} ELSE blacklist
  /\ live' = IF w = "live" THEN [live EXCEPT ![h] = None] ELSE live
  /\ grace' = IF w = "pointer" THEN [grace EXCEPT ![h] = None] ELSE grace
  /\ index' = [u \in Users |->
                 IF u # owner THEN index[u]
                 ELSE index[u] \ ((IF w = "member" THEN {Rt(h)} ELSE {})
                                    \cup (IF w = "pointerMember" THEN {Rp(h)} ELSE {}))]
  /\ UNCHANGED <<consumed, family, epoch, minted>>

LogoutWrite(r) ==
  /\ At(r, "writing")
  /\ req[r].writes # <<>>
  /\ LET w == Head(req[r].writes)
         rest == [req[r] EXCEPT !.writes = Tail(@)]
     IN  IF Skipped(r, w)
           THEN /\ Goto(r, rest)
                /\ UNCHANGED <<storeVars, blacklist, failures>>
           ELSE \E o \in Outcomes(w) :
                  /\ Spend(o)
                  /\ IF Carried(o)
                       THEN Effect(w, req[r].hash, req[r].owner)
                       ELSE UNCHANGED <<storeVars, blacklist>>
                  /\ Goto(r, IF Raised(o) THEN [rest EXCEPT !.failed = @ \cup {w}] ELSE rest)
  /\ UNCHANGED <<marker, lapsed, announced, named, succeeded, fixedVars, unkept>>

(* Every write attempted: the failures decide where the attempt goes.       *)
Answer(r) ==
  succeeded' = succeeded \cup {[hash |-> req[r].hash, token |-> req[r].token]}

(* Mutant: the owner is kept only while the session is still to be deleted. *)
RemembersIfLive(r) == "live" \in req[r].failed /\ req[r].fromSession

Remembers(r) == req[r].failed # {} /\ req[r].fromSession

Decide(r) ==
  CASE Remembers(r) ->
         Goto(r, [req[r] EXCEPT !.pc = "remember"]) /\ UNCHANGED succeeded
    [] ~Remembers(r) /\ req[r].failed # {} -> Finish(r) /\ UNCHANGED succeeded
    [] req[r].failed = {} /\ req[r].owner = NoUser -> Finish(r) /\ Answer(r)
    [] req[r].failed = {} /\ req[r].owner # NoUser ->
         Goto(r, [req[r] EXCEPT !.pc = "settle"]) /\ UNCHANGED succeeded

HasMetadata(r) == plane = "dashboard" /\ SessionsOn /\ req[r].owner # NoUser

LogoutWritesDone(r) ==
  /\ At(r, "writing")
  /\ req[r].writes = <<>>
  /\ IF HasMetadata(r)
       THEN Goto(r, [req[r] EXCEPT !.pc = "metadata"]) /\ UNCHANGED succeeded
       ELSE Decide(r)
  /\ UNCHANGED <<storeVars, marker, blacklist, lapsed, failures, announced, named, fixedVars, unkept>>

(* revokeSessionMetadata: REVOKE_SESSION_LUA; a failure is only logged. *)
LogoutMetadata(r) ==
  /\ At(r, "metadata")
  /\ \E o \in Outcomes("metadata") :
       /\ Spend(o)
       /\ IF Carried(o) /\ Rt(req[r].hash) \in index[req[r].owner]
            THEN RevokeSession(req[r].owner, req[r].hash)
            ELSE UNCHANGED storeVars
  /\ Decide(r)
  /\ UNCHANGED <<marker, blacklist, lapsed, announced, named, fixedVars, unkept>>

(* rememberPendingLogout: best effort, then the first failure is raised.    *)
Remember(r, o) ==
  marker' = IF Carried(o) THEN [marker EXCEPT ![req[r].hash] = req[r].owner] ELSE marker

LogoutRemember(r) ==
  /\ At(r, "remember") \/ At(r, "again")
  /\ \E o \in Outcomes("remember") :
       /\ Spend(o)
       /\ Remember(r, o)
       /\ unkept' = (unkept \/ ~Carried(o))
  /\ Finish(r)
  /\ UNCHANGED <<storeVars, blacklist, lapsed, announced, named, succeeded, fixedVars>>

(* settlePendingLogout: DEL lp:h.  An owner that came from the marker is    *)
(* announced only by the attempt that removed it.                           *)
Announce(r) == announced' = [announced EXCEPT ![req[r].hash] = @ + 1]

Announces(r) == req[r].fromSession \/ marker[req[r].hash] # None

SettleMarker(r, o) ==
  marker' = IF Carried(o) THEN [marker EXCEPT ![req[r].hash] = None] ELSE marker

LogoutSettle(r) ==
  /\ At(r, "settle")
  /\ \E o \in Outcomes("settle") :
       /\ Spend(o)
       /\ SettleMarker(r, o)
       /\ unkept' = (unkept \/ o = "lost")
       /\ CASE ~Raised(o) /\ Announces(r) -> Announce(r) /\ Answer(r) /\ Finish(r)
            [] ~Raised(o) /\ ~Announces(r) -> Answer(r) /\ Finish(r) /\ UNCHANGED announced
            [] Raised(o) /\ ~req[r].fromSession -> Finish(r) /\ UNCHANGED <<announced, succeeded>>
            [] Raised(o) /\ req[r].fromSession ->
                 /\ Goto(r, [req[r] EXCEPT !.pc = "confirm"])
                 /\ UNCHANGED <<announced, succeeded>>
  /\ UNCHANGED <<storeVars, blacklist, lapsed, named, fixedVars>>

(* confirmNoStaleMarker: GET lp:h.  Mutant: a marker that could not be read *)
(* is taken to be absent. *)
NoStaleMarkerAssumed(r, o) == Raised(o) \/ marker[req[r].hash] = None

NoStaleMarker(r, o) == ~Raised(o) /\ marker[req[r].hash] = None

LogoutConfirm(r) ==
  /\ At(r, "confirm")
  /\ \E o \in Outcomes("confirm") :
       /\ Spend(o)
       /\ CASE NoStaleMarker(r, o) -> Announce(r) /\ Answer(r) /\ Finish(r)
            [] ~NoStaleMarker(r, o) /\ Raised(o) ->
                 /\ Goto(r, [req[r] EXCEPT !.pc = "again"])
                 /\ UNCHANGED <<announced, succeeded>>
            [] ~NoStaleMarker(r, o) /\ ~Raised(o) ->
                 Finish(r) /\ UNCHANGED <<announced, succeeded>>
  /\ UNCHANGED <<storeVars, marker, blacklist, lapsed, named, fixedVars, unkept>>

-----------------------------------------------------------------------------
(* The environment: a sign-in, refreshes of the token being signed out, and *)
(* the access token's expiry.                                               *)

SignIn(u, f, h) ==
  /\ Fresh(h)
  /\ \A g \in Hashes : Fresh(g)
  /\ CreateSession(h, [user |-> u, family |-> f, mfa |-> FALSE])
  /\ UNCHANGED logoutVars

RefreshRotate(h, g) ==
  /\ mix.refreshes
  /\ Fresh(g)
  /\ IsLive(h)
  /\ RotateLive(h, g, live[h])
  /\ UNCHANGED logoutVars

(* The recovery that follows writes keys of another token only. *)
RefreshGrace(h) ==
  /\ mix.refreshes
  /\ RotateGrace(h)
  /\ UNCHANGED logoutVars

AccessLapse(h) ==
  /\ ~Fresh(h)
  /\ h \notin lapsed
  /\ lapsed' = lapsed \cup {h}
  /\ UNCHANGED <<storeVars, marker, blacklist, req, failures, announced, named,
                 succeeded, fixedVars, unkept>>

-----------------------------------------------------------------------------
(* What a handler does once it has begun. *)
Step(r) == \/ LogoutReadMarker(r)
           \/ LogoutWrite(r)
           \/ LogoutWritesDone(r)
           \/ LogoutMetadata(r)
           \/ LogoutRemember(r)
           \/ LogoutSettle(r)
           \/ LogoutConfirm(r)

Next == \/ \E r \in Attempts : \/ \E h \in Hashes, token \in BOOLEAN : LogoutReadSession(r, h, token)
                               \/ Step(r)
        \/ \E u \in Users, f \in Families, h \in Hashes : SignIn(u, f, h)
        \/ \E h, g \in Hashes : RefreshRotate(h, g)
        \/ \E h \in Hashes : RefreshGrace(h) \/ AccessLapse(h)

Spec == Init /\ [][Next]_vars

(* A handler that has begun goes on, and a client that was answered with an *)
(* error tries again.                                                       *)
Retry(r) == \E h \in Hashes : /\ h \in named
                              /\ \A s \in succeeded : s.hash # h
                              /\ LogoutReadSession(r, h, TRUE)

FairSpec == Spec /\ \A r \in Attempts : WF_vars(Step(r)) /\ WF_vars(Retry(r))
-----------------------------------------------------------------------------
(* Safety *)

(* No failing attempt hides a session that is still alive from the index    *)
(* "log out everywhere" walks, and no refresh beside it does.               *)
LiveIndexed == \A h \in Hashes : live[h] # None => Rt(h) \in index[live[h].user]

(* An attempt answered with success leaves the presented token no way back: *)
(* no session, no grace pointer, and the access token it came with refused. *)
(* A refresh of the same token beside it does not leave a pointer behind.   *)
SignedOutForGood ==
  \A s \in succeeded : /\ live[s.hash] = None
                       /\ grace[s.hash] = None
                       /\ s.token => s.hash \in blacklist \cup lapsed

(* A logout some attempt began is never forgotten, however attempts         *)
(* overlap: it has been announced, or the next attempt can still learn      *)
(* whose it is, unless the store lost the marker.                           *)
NotForgotten ==
  (\A r \in Attempts : At(r, "idle")) /\ ~unkept
    => \A h \in named : announced[h] > 0 \/ marker[h] # None \/ live[h] # None

(* A logout that is tried again after each answer is announced once at      *)
(* most, whichever commands failed in between, the marker's own included,   *)
(* and is not forgotten before.                                             *)
AnnouncedOnce ==
  /\ ~overlapped => \A h \in Hashes : announced[h] <= 1
  /\ NotForgotten

-----------------------------------------------------------------------------
(* Liveness *)

(* If the client keeps retrying, one attempt after another, and the store   *)
(* stops failing before the bound on attempts is met, the logout is         *)
(* completed and the hook hears of it.                                      *)
EventuallyAnnounced ==
  \A h \in Hashes : h \in named /\ mix.failures < mix.begun
                      ~> announced[h] > 0 \/ unkept \/ overlapped
=============================================================================
