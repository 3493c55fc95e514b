-------------------------- MODULE SessionManagement --------------------------
(***************************************************************************)
(* SessionService over the keyspace of RefreshStore: the detail records     *)
(* (sd:h), the per-account session limit, "sign out my other devices", and  *)
(* the detached detail rotation that follows a refresh.  Every one of them  *)
(* acts, command by command, on a listing it read before; refreshes,        *)
(* sign-ins and revocations of the same account run in between.             *)
(*                                                                          *)
(*   sign-in         CREATE -> SET sd -> prune -> SMEMBERS -> GET sd ...    *)
(*                   -> (DEL rt, SREM, DEL sd) for each evicted             *)
(*   refresh         ROTATE -> GET sd:old -> DEL sd:old, SET sd:new         *)
(*                   or ROTATE (grace) -> RECOVER -> the same detail steps  *)
(*   revoke others   SMEMBERS -> GET rp -> REVOKE ... -> (DEL rp, SREM) ... *)
(*                   -> INCR epoch                                          *)
(*                                                                          *)
(* Abstracted: a detail record is its createdAt, and the clock ticks when a *)
(* record is dated; the seed read of a refresh and the lifetime cap, which  *)
(* TokenRotation cuts apart, are one step with the ROTATE here, since the   *)
(* record of a hash never changes while the hash is live.                   *)
(***************************************************************************)
EXTENDS RefreshStore, FiniteSets

CONSTANTS Requests,     \* handler instances
          Limit,        \* the session limit resolved for the account
          Explored,     \* bound: which handlers and failures this instance runs
          MaxEpoch      \* bound: no revocation begins once the epoch is here

(* A token hash is one of finitely many SHA-256 digests, and an absent key  *)
(* is no date.                                                              *)
ASSUME SessionAssumption ==
  /\ IsFiniteSet(Hashes)
  /\ None \notin Nat
  /\ Limit \in Nat \ {0}
  /\ Explored \subseteq {"signin", "refresh", "revoke", "lapse", "fail"}
  /\ MaxEpoch \in Nat

VARIABLES detail,       \* sd:h -- createdAt of the session, or None
          now,          \* the clock
          req,          \* the state each handler holds between two commands
          given,        \* the hashes whose token was sent to a client
          device,       \* history: the sign-in a hash descends from by rotation
          ended,        \* history: [hash, by] of every session revoke-others ended
          settled,      \* history: sessions a finished revoke-others should have ended
          spent,        \* history: pointers it should have cleared
          loose         \* history: something no limit check answers for happened

sessionVars == <<detail, now, req, given, device, ended, settled, spent,
                 loose>>

historyVars == <<device, ended, settled, spent, loose>>

vars == <<storeVars, sessionVars>>

-----------------------------------------------------------------------------
(* Type definitions *)

PCs == {"idle", "created", "detailed", "pruned", "ranking", "evicting", "unindexing",
        "forgetting", "graced", "rotated", "dated", "resolving", "revoking",
        "unpointing", "unlisting", "bumping"}

(* Between two commands a handler holds, besides where it is:               *)
Request == [pc : PCs,
            user : Users \cup {NoUser},
            hash : Hashes \cup {None},            \* the session it is about
            other : Hashes \cup {None},           \* the one replaced, kept or worked on
            rec : Session \cup {None},            \* the record a pointer held
            todo : SUBSET Hashes,                 \* members left of its listing
            pointers : SUBSET Hashes,             \* pointers left of its listing
            ages : [Hashes -> Nat \cup {None}],   \* createdAt, as read
            count : Nat,                          \* evictions left
            date : Nat,                           \* createdAt to write
            others : SUBSET Hashes,               \* history: live at the listing
            armed : SUBSET Hashes]                \* history: recoverable at the listing

Idle == [pc |-> "idle", user |-> NoUser, hash |-> None, other |-> None, rec |-> None,
         todo |-> {}, pointers |-> {}, ages |-> [h \in Hashes |-> None], count |-> 0,
         date |-> 0, others |-> {}, armed |-> {}]

(* Details, handlers and store are well-typed: no handler ranks a session   *)
(* by anything but a date, nor works on a hash that was never minted.       *)
TypeOK ==
  /\ StoreTypeOK
  /\ detail \in [Hashes -> Nat \cup {None}]
  /\ now \in Nat
  /\ req \in [Requests -> Request]
  /\ given \subseteq Hashes
  /\ device \in [Hashes -> Hashes \cup {None}]
  /\ ended \subseteq [hash : Hashes, by : Hashes]
  /\ settled \subseteq Hashes
  /\ spent \subseteq Hashes
  /\ loose \in BOOLEAN

-----------------------------------------------------------------------------
(* Helper formulae *)

At(r, pc) == req[r].pc = pc

Goto(r, state) == req' = [req EXCEPT ![r] = state]

Finish(r) == Goto(r, Idle)

(* It acts on a listing it holds, to enforce the limit. *)
Listing(r) == req[r].pc \in {"ranking", "evicting", "unindexing", "forgetting"}

(* The rt: and the rp: members of an SMEMBERS answer. *)
Listed(u) == {h \in Hashes : Rt(h) \in index[u]}

ListedPointers(u) == {h \in Hashes : Rp(h) \in index[u]}

ArmedOf(u) == {h \in Hashes : grace[h] # None /\ grace[h].session.user = u}

Unindex(u, member) ==
  /\ index' = [index EXCEPT ![u] = @ \ {member}]
  /\ UNCHANGED <<live, grace, consumed, family, epoch, minted>>

Given(h) == given' = given \cup {h}

Forget(h) == detail' = [detail EXCEPT ![h] = None]

-----------------------------------------------------------------------------
Init ==
  /\ StoreInit([h \in Hashes |-> None])
  /\ detail = [h \in Hashes |-> None]
  /\ now = 1
  /\ req = [r \in Requests |-> Idle]
  /\ given = {}
  /\ device = [h \in Hashes |-> None]
  /\ ended = {}
  /\ settled = {}
  /\ spent = {}
  /\ loose = FALSE

-----------------------------------------------------------------------------
(* A sign-in: issueTokens, then createSession *)

SignIn(r, u, h) ==
  /\ At(r, "idle")
  /\ Fresh(h)
  /\ \E f \in Families :
       /\ FreshFamily(f)
       /\ CreateSession(h, [user |-> u, family |-> f, mfa |-> FALSE])
  /\ device' = [device EXCEPT ![h] = h]
  /\ Goto(r, [Idle EXCEPT !.pc = "created", !.user = u, !.hash = h])
  /\ UNCHANGED <<detail, now, given, ended, settled, spent, loose>>

SignInDetail(r) ==
  /\ At(r, "created")
  /\ detail' = [detail EXCEPT ![req[r].hash] = now]
  /\ now' = now + 1
  /\ Goto(r, [req[r] EXCEPT !.pc = "detailed"])
  /\ UNCHANGED <<storeVars, given, device, ended, settled, spent, loose>>

(* enforceSessionLimit: the prune is awaited, then the index is listed. *)
SignInPrune(r) ==
  /\ At(r, "detailed")
  /\ index' = [index EXCEPT ![req[r].user] = @ \ {Rp(h) : h \in {g \in Hashes : grace[g] = None}}]
  /\ Goto(r, [req[r] EXCEPT !.pc = "pruned"])
  /\ UNCHANGED <<live, grace, consumed, family, epoch, minted, detail, now, given, historyVars>>

(* Mutant: the early return for a listing within the limit is missing. *)
ExcessUnchecked(members) == Cardinality(members) - Limit

(* Mutant: one session too many may stay. *)
ExcessLoose(members) == IF Cardinality(members) <= Limit + 1 THEN 0
                        ELSE Cardinality(members) - Limit

Excess(members) == IF Cardinality(members) <= Limit THEN 0 ELSE Cardinality(members) - Limit

SignInList(r) ==
  /\ At(r, "pruned")
  /\ LET members == Listed(req[r].user)
     IN  IF Excess(members) = 0
           THEN Finish(r) /\ Given(req[r].hash)
           ELSE /\ Goto(r, [req[r] EXCEPT !.pc = "ranking", !.todo = members,
                              !.count = Excess(members)])
                /\ UNCHANGED given
  /\ UNCHANGED <<storeVars, detail, now, historyVars>>

(* readCreatedAt, for all members at once: their reads end in any order.    *)
(* A missing detail is the oldest age there is.                             *)
AgeOf(h) == IF detail[h] = None THEN 0 ELSE detail[h]

SignInReadAge(r, h) ==
  /\ At(r, "ranking")
  /\ h \in req[r].todo
  /\ LET left == req[r].todo \ {h}
         ages == [req[r].ages EXCEPT ![h] = AgeOf(h)]
     IN  IF left # {}
           THEN Goto(r, [req[r] EXCEPT !.todo = left, !.ages = ages])
           ELSE Goto(r, [req[r] EXCEPT !.pc = "evicting", !.ages = ages,
                           !.todo = {g \in Hashes : ages[g] # None} \ {req[r].hash}])
  /\ UNCHANGED <<storeVars, detail, now, given, historyVars>>

Oldest(r) == {h \in req[r].todo : \A g \in req[r].todo : req[r].ages[h] <= req[r].ages[g]}

NextEviction(r) ==
  IF req[r].count = 1 \/ req[r].todo \ {req[r].other} = {}
    THEN Finish(r) /\ Given(req[r].hash)
    ELSE /\ Goto(r, [req[r] EXCEPT !.pc = "evicting", !.count = @ - 1, !.other = None])
         /\ UNCHANGED given

(* Mutant: the index member goes first, the record after it. *)
SignInEvictMemberFirst(r, h) ==
  /\ At(r, "evicting")
  /\ h \in Oldest(r)
  /\ Unindex(req[r].user, Rt(h))
  /\ Goto(r, [req[r] EXCEPT !.pc = "unindexing", !.other = h, !.todo = @ \ {h}])
  /\ UNCHANGED <<detail, now, given, historyVars>>

(* DEL rt *)
SignInEvict(r, h) ==
  /\ At(r, "evicting")
  /\ h \in Oldest(r)
  /\ live' = [live EXCEPT ![h] = None]
  /\ Goto(r, [req[r] EXCEPT !.pc = "unindexing", !.other = h, !.todo = @ \ {h}])
  /\ UNCHANGED <<grace, consumed, family, index, epoch, minted, detail, now, given, historyVars>>

(* SREM *)
SignInUnindex(r) ==
  /\ At(r, "unindexing")
  /\ Unindex(req[r].user, Rt(req[r].other))
  /\ Goto(r, [req[r] EXCEPT !.pc = "forgetting"])
  /\ UNCHANGED <<detail, now, given, historyVars>>

(* DEL sd *)
SignInForget(r) ==
  /\ At(r, "forgetting")
  /\ Forget(req[r].other)
  /\ NextEviction(r)
  /\ UNCHANGED <<storeVars, now, historyVars>>

(* One age could not be read: nothing is evicted this time. *)
SignInReadFails(r) ==
  /\ At(r, "ranking")
  /\ Finish(r)
  /\ Given(req[r].hash)
  /\ loose' = TRUE
  /\ UNCHANGED <<storeVars, detail, now, device, ended, settled, spent>>

(* A command of one eviction fails: the loop goes on with the next. *)
SignInEvictFails(r) ==
  /\ At(r, "unindexing") \/ At(r, "forgetting")
  /\ NextEviction(r)
  /\ loose' = TRUE
  /\ UNCHANGED <<storeVars, detail, now, device, ended, settled, spent>>

-----------------------------------------------------------------------------
(* A refresh, and the detail rotation it leaves running: the answer with    *)
(* the new token does not wait for it.                                      *)

RefreshRotate(r, h, g) ==
  /\ At(r, "idle")
  /\ h \in given
  /\ IsLive(h)
  /\ Fresh(g)
  /\ RotateLive(h, g, live[h])
  /\ device' = [device EXCEPT ![g] = device[h]]
  /\ Given(g)
  /\ Goto(r, [Idle EXCEPT !.pc = "rotated", !.hash = g, !.other = h])
  /\ loose' = (loose \/ \E s \in Requests : Listing(s))
  /\ UNCHANGED <<detail, now, ended, settled, spent>>

RefreshGrace(r, h) ==
  /\ At(r, "idle")
  /\ h \in given
  /\ RotateGrace(h)
  /\ Goto(r, [Idle EXCEPT !.pc = "graced", !.other = h, !.rec = grace[h].session])
  /\ UNCHANGED <<detail, now, given, historyVars>>

RefreshRecover(r, g) ==
  /\ At(r, "graced")
  /\ Fresh(g)
  /\ RecoverGrace(g, req[r].rec, req[r].other)
  /\ device' = [device EXCEPT ![g] = g]
  /\ Given(g)
  /\ Goto(r, [req[r] EXCEPT !.pc = "rotated", !.hash = g, !.rec = None])
  /\ loose' = TRUE
  /\ UNCHANGED <<detail, now, ended, settled, spent>>

RefreshRefused(r) ==
  /\ At(r, "graced")
  /\ ~MayRecover(req[r].rec)
  /\ Finish(r)
  /\ UNCHANGED <<storeVars, detail, now, given, historyVars>>

(* rotateSession: GET sd:old; a missing record, or a failing read, dates    *)
(* the new one now.                                                         *)
RotateReadDetail(r) ==
  /\ At(r, "rotated")
  /\ \E date \in {IF detail[req[r].other] = None THEN now ELSE detail[req[r].other]}
                   \cup (IF "fail" \in Explored THEN {now} ELSE {}) :
       /\ Goto(r, [req[r] EXCEPT !.pc = "dated", !.date = date])
       /\ now' = IF date = now THEN now + 1 ELSE now
  /\ UNCHANGED <<storeVars, detail, given, historyVars>>

(* ROTATE_SESSION_DETAIL_LUA *)
RotateWriteDetail(r) ==
  /\ At(r, "dated")
  /\ detail' = [detail EXCEPT ![req[r].other] = None, ![req[r].hash] = req[r].date]
  /\ Finish(r)
  /\ UNCHANGED <<storeVars, now, given, historyVars>>

-----------------------------------------------------------------------------
(* revokeOtherSession, and revokeAllExceptCurrent *)

RevokeOne(r, u, h) ==
  /\ At(r, "idle")
  /\ epoch[u] < MaxEpoch
  /\ RevokeSession(u, h)
  /\ Forget(h)
  /\ Goto(r, [Idle EXCEPT !.pc = "bumping", !.user = u])
  /\ UNCHANGED <<now, given, historyVars>>

(* SMEMBERS, for the holder of any token ever sent. *)
RevokeOthersList(r, u, h) ==
  /\ At(r, "idle")
  /\ epoch[u] < MaxEpoch
  /\ h \in given
  /\ minted[h].session.user = u
  /\ Goto(r, [Idle EXCEPT !.pc = "resolving", !.user = u, !.hash = h, !.todo = Listed(u),
                !.pointers = ListedPointers(u), !.others = LiveOf(u), !.armed = ArmedOf(u)])
  /\ UNCHANGED <<storeVars, detail, now, given, historyVars>>

Keep(r, kept) ==
  Goto(r, [req[r] EXCEPT !.pc = "revoking", !.other = kept,
             !.todo = @ \ {kept}, !.others = @ \ {kept}])

(* Mutant: the hash of the presented token, whatever has become of it. *)
RevokeOthersResolveLiteral(r) ==
  /\ At(r, "resolving")
  /\ Keep(r, req[r].hash)
  /\ UNCHANGED <<storeVars, detail, now, given, historyVars>>

(* resolveLiveMember: the presented hash if the listing has it, else the    *)
(* successor its grace pointer names if the listing has that, else 404.     *)
RevokeOthersResolve(r) ==
  /\ At(r, "resolving")
  /\ LET h == req[r].hash
     IN  CASE h \in req[r].todo -> Keep(r, h)
           [] h \notin req[r].todo /\ grace[h] # None /\ grace[h].to \in req[r].todo ->
                Keep(r, grace[h].to)
           [] OTHER -> Finish(r)
  /\ UNCHANGED <<storeVars, detail, now, given, historyVars>>

RevokeOthersNext(r, h) ==
  /\ At(r, "revoking")
  /\ h \in req[r].todo
  /\ RevokeSession(req[r].user, h)
  /\ Forget(h)
  /\ ended' = IF IsLive(h) THEN ended \cup {[hash |-> h, by |-> req[r].hash]} ELSE ended
  /\ Goto(r, [req[r] EXCEPT !.todo = @ \ {h}])
  /\ UNCHANGED <<now, given, device, settled, spent, loose>>

(* Mutant: a session that is gone ends the loop. *)
RevokeOthersMissingStops(r, h) ==
  /\ At(r, "revoking")
  /\ h \in req[r].todo
  /\ Rt(h) \notin index[req[r].user]
  /\ Goto(r, [req[r] EXCEPT !.todo = {}])
  /\ UNCHANGED <<storeVars, detail, now, given, historyVars>>

(* SESSION_NOT_FOUND: someone removed it since the listing. *)
RevokeOthersMissing(r, h) ==
  /\ At(r, "revoking")
  /\ h \in req[r].todo
  /\ Rt(h) \notin index[req[r].user]
  /\ Goto(r, [req[r] EXCEPT !.todo = @ \ {h}])
  /\ UNCHANGED <<storeVars, detail, now, given, historyVars>>

(* Every pointer of the listing: DEL rp, then SREM.  None left: on to the   *)
(* bump.  Mutant: the pointers are left to their window. *)
RevokeOthersPointerKept(r, h) ==
  /\ At(r, "revoking")
  /\ req[r].todo = {}
  /\ h \in req[r].pointers
  /\ Goto(r, [req[r] EXCEPT !.pc = "unlisting", !.pointers = @ \ {h}, !.other = h])
  /\ UNCHANGED <<storeVars, detail, now, given, historyVars>>

RevokeOthersPointer(r, h) ==
  /\ At(r, "revoking")
  /\ req[r].todo = {}
  /\ h \in req[r].pointers
  /\ SpendPointer(h)
  /\ Goto(r, [req[r] EXCEPT !.pc = "unlisting", !.pointers = @ \ {h}, !.other = h])
  /\ UNCHANGED <<live, consumed, family, index, epoch, minted, detail, now, given, historyVars>>

RevokeOthersUnlist(r) ==
  /\ At(r, "unlisting")
  /\ Unindex(req[r].user, Rp(req[r].other))
  /\ Goto(r, [req[r] EXCEPT !.pc = "revoking", !.other = None])
  /\ UNCHANGED <<detail, now, given, historyVars>>

RevokeOthersBump(r) ==
  /\ At(r, "revoking")
  /\ req[r].todo = {}
  /\ req[r].pointers = {}
  /\ BumpEpoch(req[r].user)
  /\ settled' = settled \cup req[r].others
  /\ spent' = spent \cup req[r].armed
  /\ Finish(r)
  /\ UNCHANGED <<detail, now, given, device, ended, loose>>

RevokeOneBump(r) ==
  /\ At(r, "bumping")
  /\ BumpEpoch(req[r].user)
  /\ Finish(r)
  /\ UNCHANGED <<detail, now, given, historyVars>>

-----------------------------------------------------------------------------
(* The environment *)

(* A session and its detail have one time to live, the detail a little      *)
(* later.  Nothing here makes a handler go on: one whose process dies, or   *)
(* that a failing command ends, is one that takes no further step.          *)
Lapse ==
  /\ \E h \in Hashes : \/ ExpireGrace(h) /\ UNCHANGED detail
                       \/ ExpireLive(h) /\ (UNCHANGED detail \/ Forget(h))
  /\ UNCHANGED <<now, req, given, historyVars>>

-----------------------------------------------------------------------------
SigningIn(r) == \/ \E u \in Users, h \in Hashes : SignIn(r, u, h)
                \/ SignInDetail(r)
                \/ SignInPrune(r)
                \/ SignInList(r)
                \/ \E h \in Hashes : SignInReadAge(r, h) \/ SignInEvict(r, h)
                \/ SignInUnindex(r)
                \/ SignInForget(r)

Refreshing(r) == \/ \E h, g \in Hashes : RefreshRotate(r, h, g)
                 \/ \E h \in Hashes : RefreshGrace(r, h) \/ RefreshRecover(r, h)
                 \/ RefreshRefused(r)
                 \/ RotateReadDetail(r)
                 \/ RotateWriteDetail(r)

Revoking(r) == \/ \E u \in Users, h \in Hashes : RevokeOne(r, u, h) \/ RevokeOthersList(r, u, h)
               \/ RevokeOthersResolve(r)
               \/ \E h \in Hashes : \/ RevokeOthersNext(r, h)
                                    \/ RevokeOthersMissing(r, h)
                                    \/ RevokeOthersPointer(r, h)
               \/ RevokeOthersUnlist(r)
               \/ RevokeOthersBump(r)
               \/ RevokeOneBump(r)

Next == \/ \E r \in Requests : \/ "signin" \in Explored /\ SigningIn(r)
                               \/ "refresh" \in Explored /\ Refreshing(r)
                               \/ "revoke" \in Explored /\ Revoking(r)
                               \/ "fail" \in Explored /\ (SignInReadFails(r) \/ SignInEvictFails(r))
        \/ "lapse" \in Explored /\ Lapse

Spec == Init /\ [][Next]_vars
-----------------------------------------------------------------------------
(* Safety *)

(* No live session hides from the listings that revoke and evict, not even  *)
(* between the three commands of an eviction that is cut short.             *)
LiveIndexed == \A h \in Hashes : live[h] # None => Rt(h) \in index[live[h].user]

(* "Sign out my other devices" never ends the caller's own device, also     *)
(* when the token it presents was rotated a moment ago, or is being rotated *)
(* while the loop runs.                                                     *)
OwnSessionKept == \A e \in ended : device[e.hash] # device[e.by]

(* When it returns, no session that was live at its listing still is, the   *)
(* kept one apart, although other handlers rotated, evicted or revoked      *)
(* sessions of that listing under its loop.  Nor is any grace pointer of    *)
(* that moment left: the kept session cannot be recovered by an earlier     *)
(* holder of its lineage.                                                   *)
ListedSessionsEnded ==
  /\ \A h \in settled : live[h] = None
  /\ \A h \in spent : grace[h] = None

(* Sign-ins that overlap anyhow never leave more sessions than the limit    *)
(* once they are done: whoever listed last listed every session.  Grace     *)
(* recoveries, failures and rotations of a session that is being ranked are *)
(* not answered for.                                                        *)
LimitHolds ==
  (\A r \in Requests : At(r, "idle")) /\ ~loose
    => \A u \in Users : Cardinality(LiveOf(u)) <= Limit
=============================================================================
