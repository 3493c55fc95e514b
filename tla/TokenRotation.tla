---------------------------- MODULE TokenRotation ----------------------------
(***************************************************************************)
(* TokenManagerService over the keyspace of RefreshStore: login, refresh    *)
(* and the two revocations that follow a store write with an epoch bump,    *)
(* each cut at every await.  A request is a handler instance; any number of *)
(* them interleave, for the same account or the same token, and any of them *)
(* may die half-way.                                                        *)
(*                                                                          *)
(*   login    GET epoch -> CREATE                                           *)
(*   refresh  GET rt:old -> ROTATE -> rotated:  GET epoch, sign             *)
(*                                 -> grace:    EXISTS fam, cap -> RECOVER  *)
(*                                              -> GET epoch, sign          *)
(*                                 -> reused:   SMEMBERS fam -> GET owner   *)
(*                                              -> REVOKE_FAMILY            *)
(*   revoke-all    SWEEP  -> INCR epoch                                     *)
(*   revoke-other  REVOKE -> INCR epoch                                     *)
(*                                                                          *)
(* The access token issued with refresh hash h is its epoch stamp.          *)
(***************************************************************************)
EXTENDS RefreshStore

CONSTANTS Requests,     \* handler instances
          Plane,        \* "dashboard" or "platform"
          CapOn,        \* absoluteSessionLifetimeDays > 0
          Verified,     \* may a login complete an MFA challenge, may it not
          Lapses,       \* bound: the housekeeping this instance explores
          MaxEpoch      \* bound: revocations per account

ASSUME RotationAssumption ==
  /\ Plane \in {"dashboard", "platform"}
  /\ CapOn \in BOOLEAN
  /\ Verified \subseteq BOOLEAN
  /\ MaxEpoch \in Nat

VARIABLES req,          \* the state each handler holds between two awaits
          stamp,        \* stamp[h]: epoch on the access token issued with h
          aged,         \* lineages past absoluteSessionLifetimeDays
          revoked,      \* history: families a reuse detection revoked
          signedOut,    \* history: users swept and not signed in since
          killed,       \* history: hashes a finished revocation had listed
          overdue       \* history: hashes minted by a request begun too late

vars == <<storeVars, req, stamp, aged, revoked, signedOut, killed, overdue>>

rotationVars == <<req, stamp, aged, revoked, signedOut, killed, overdue>>

-----------------------------------------------------------------------------
(* Type definitions *)

PCs == {"idle", "creating", "seeded", "graced", "recovering", "pruning",
        "signing", "reusing", "owning", "bumping"}

Request == [pc : PCs,
            hash : Hashes \cup {None},            \* the hash being worked on
            rec : Record,                         \* the record in hand
            members : SUBSET Hashes,              \* a snapshot in hand
            owner : Users \cup {NoUser},
            epoch : Nat,
            late : BOOLEAN]                       \* began after the cap

Idle == [pc |-> "idle", hash |-> None, rec |-> Placeholder, members |-> {},
         owner |-> NoUser, epoch |-> 0, late |-> FALSE]

(* The handlers are well-typed: no request ever holds a record of a lineage *)
(* or user that does not exist, nor a stamp that is not an epoch.           *)
TypeOK ==
  /\ StoreTypeOK
  /\ req \in [Requests -> Request]
  /\ stamp \in [Hashes -> Nat \cup {None}]
  /\ aged \in SUBSET Families
  /\ revoked \in SUBSET Families
  /\ signedOut \in SUBSET Users
  /\ killed \in SUBSET Hashes
  /\ overdue \in SUBSET Hashes

-----------------------------------------------------------------------------
(* Helper formulae *)

At(r, pc) == req[r].pc = pc

Goto(r, state) == req' = [req EXCEPT ![r] = state]

Finish(r) == Goto(r, Idle)

(* buildSession: a new record inherits owner, lineage and second factor.    *)
(* Mutant: rotation drops the second-factor claim. *)
InheritUnverified(s) == [s EXCEPT !.mfa = FALSE]

Inherit(s) == s

(* assertWithinAbsoluteLifetime: a record that names no birth is not capped. *)
WithinLifetime(s) == s.family \notin aged

-----------------------------------------------------------------------------
Init ==
  /\ \E legacy \in [Hashes -> {None} \cup
                      {[user |-> u, family |-> NoFamily, mfa |-> FALSE] : u \in Users}] :
       /\ \A g, h \in Hashes : legacy[g] # None /\ legacy[h] # None => g = h
       /\ StoreInit(legacy)
       /\ stamp = [h \in Hashes |-> IF legacy[h] = None THEN None ELSE 0]
  /\ req = [r \in Requests |-> Idle]
  /\ aged = {}
  /\ revoked = {}
  /\ signedOut = {}
  /\ killed = {}
  /\ overdue = {}

-----------------------------------------------------------------------------
(* issueTokens / issuePlatformTokens *)

LoginReadEpoch(r, u, verified) ==
  /\ At(r, "idle")
  /\ \E f \in Families :
       /\ FreshFamily(f)
       /\ Goto(r, [Idle EXCEPT !.pc = "creating", !.epoch = epoch[u],
                     !.rec = [user |-> u, family |-> f, mfa |-> verified]])
  /\ UNCHANGED <<storeVars, stamp, aged, revoked, signedOut, killed, overdue>>

LoginCreate(r, h) ==
  /\ At(r, "creating")
  /\ Fresh(h)
  /\ FreshFamily(req[r].rec.family)
  /\ CreateSession(h, req[r].rec)
  /\ stamp' = [stamp EXCEPT ![h] = req[r].epoch]
  /\ signedOut' = signedOut \ {req[r].rec.user}
  /\ Finish(r)
  /\ UNCHANGED <<aged, revoked, killed, overdue>>

-----------------------------------------------------------------------------
(* reissueTokens / reissuePlatformTokens *)

(* The answer that carries token h was signed, and so may have been sent. *)
HandedOut(h) == stamp[h] # None

(* readSeedSession, then the lifetime and tenant checks, in one turn.  The  *)
(* client may present any token it was ever given.                          *)
(* Mutant: a read that finds the key is treated like one that does not. *)
SeedOfMissing(h) == Placeholder

SeedOf(h) == IF IsLive(h) THEN live[h] ELSE Placeholder

RefreshSeed(r, h) ==
  /\ At(r, "idle")
  /\ ~Fresh(h)
  /\ HandedOut(h)
  /\ WithinLifetime(SeedOf(h))
  /\ Goto(r, [Idle EXCEPT !.pc = "seeded", !.hash = h, !.rec = SeedOf(h),
                !.late = minted[h].session.family \in aged])
  /\ UNCHANGED <<storeVars, stamp, aged, revoked, signedOut, killed, overdue>>

(* ROTATE answered with the consumed record: sign next. *)
RefreshRotated(r, h) ==
  /\ At(r, "seeded")
  /\ Fresh(h)
  /\ RotateLive(req[r].hash, h, Inherit(req[r].rec))
  /\ Goto(r, [Idle EXCEPT !.pc = "signing", !.hash = h, !.rec = req[r].rec])
  /\ overdue' = IF req[r].late THEN overdue \cup {h} ELSE overdue
  /\ UNCHANGED <<stamp, aged, revoked, signedOut, killed>>

(* ROTATE answered 'GRACE:' with the pointer's record. *)
RefreshGraced(r) ==
  /\ At(r, "seeded")
  /\ RotateGrace(req[r].hash)
  /\ Goto(r, [req[r] EXCEPT !.pc = "graced", !.rec = grace[req[r].hash].session])
  /\ UNCHANGED <<stamp, aged, revoked, signedOut, killed, overdue>>

(* ROTATE answered 'REUSED:' with the marker's family. *)
RefreshReused(r) ==
  /\ At(r, "seeded")
  /\ RotateReused(req[r].hash)
  /\ Goto(r, [Idle EXCEPT !.pc = "reusing",
                !.rec = [Placeholder EXCEPT !.family = consumed[req[r].hash]]])
  /\ UNCHANGED <<stamp, aged, revoked, signedOut, killed, overdue>>

RefreshInvalid(r) ==
  /\ At(r, "seeded")
  /\ RotateInvalid(req[r].hash)
  /\ Finish(r)
  /\ UNCHANGED <<stamp, aged, revoked, signedOut, killed, overdue>>

(* familyIsAlive, then the cap re-checked on the recovered record. *)
(* Mutant: the cap is checked against the presented record only. *)
RecoverAllowedUncapped(s) == FamilyExists(s.family)

RecoverAllowed(s) == FamilyExists(s.family) /\ WithinLifetime(s)

RefreshCheckFamily(r) ==
  /\ At(r, "graced")
  /\ IF RecoverAllowed(req[r].rec)
       THEN Goto(r, [req[r] EXCEPT !.pc = "recovering"])
       ELSE Finish(r)
  /\ UNCHANGED <<storeVars, stamp, aged, revoked, signedOut, killed, overdue>>

(* writeRecoveredSession.  The platform plane drops the spent pointer's     *)
(* index member before it signs.                                            *)
RefreshRecover(r, h) ==
  /\ At(r, "recovering")
  /\ Fresh(h)
  /\ RecoverGrace(h, Inherit(req[r].rec), req[r].hash)
  /\ Goto(r, [Idle EXCEPT !.hash = h, !.rec = req[r].rec,
                !.pc = IF Plane = "platform" THEN "pruning" ELSE "signing",
                !.members = IF Plane = "platform" THEN {req[r].hash} ELSE {}])
  /\ overdue' = IF req[r].late THEN overdue \cup {h} ELSE overdue
  /\ UNCHANGED <<stamp, aged, revoked, signedOut, killed>>

RefreshRecoverRefused(r) ==
  /\ At(r, "recovering")
  /\ ~MayRecover(req[r].rec)
  /\ Finish(r)
  /\ UNCHANGED <<storeVars, stamp, aged, revoked, signedOut, killed, overdue>>

PlatformPruneSpent(r) ==
  /\ At(r, "pruning")
  /\ index' = [index EXCEPT ![req[r].rec.user] = @ \ {Rp(h) : h \in req[r].members}]
  /\ Goto(r, [req[r] EXCEPT !.pc = "signing", !.members = {}])
  /\ UNCHANGED <<live, grace, consumed, family, epoch, minted,
                 stamp, aged, revoked, signedOut, killed, overdue>>

(* buildRotatedResult: the CURRENT epoch, read after the session is written. *)
RefreshSign(r) ==
  /\ At(r, "signing")
  /\ stamp' = [stamp EXCEPT ![req[r].hash] = epoch[req[r].rec.user]]
  /\ Finish(r)
  /\ UNCHANGED <<storeVars, aged, revoked, signedOut, killed, overdue>>

(* revokeFamily: membership snapshot, owner off the first readable record,  *)
(* then the script.                                                         *)
ReuseReadFamily(r) ==
  /\ At(r, "reusing")
  /\ Goto(r, [req[r] EXCEPT !.pc = "owning", !.members = family[req[r].rec.family]])
  /\ UNCHANGED <<storeVars, stamp, aged, revoked, signedOut, killed, overdue>>

OwnersOf(members) == {live[h].user : h \in {g \in members : IsLive(g)}}

ReuseResolveOwner(r) ==
  /\ At(r, "owning")
  /\ req[r].members # {}
  /\ \/ /\ OwnersOf(req[r].members) = {}
        /\ Goto(r, [req[r] EXCEPT !.members = {}])
     \/ \E u \in OwnersOf(req[r].members) :
          Goto(r, [req[r] EXCEPT !.members = {}, !.owner = u])
  /\ UNCHANGED <<storeVars, stamp, aged, revoked, signedOut, killed, overdue>>

ReuseRevoke(r) ==
  /\ At(r, "owning")
  /\ req[r].members = {}
  /\ RevokeFamily(req[r].rec.family, req[r].owner)
  /\ revoked' = revoked \cup {req[r].rec.family}
  /\ Finish(r)
  /\ UNCHANGED <<stamp, aged, signedOut, killed, overdue>>

-----------------------------------------------------------------------------
(* revokeAllSessions / revokeAllPlatformSessions: sweep, then bump.  The    *)
(* snapshot is history: the swept hashes whose access token was out.        *)

Issued(H) == {h \in H : stamp[h] # None}

RevokeAllSweep(r, u) ==
  /\ At(r, "idle")
  /\ SweepIndex(u)
  /\ signedOut' = signedOut \cup {u}
  /\ Goto(r, [Idle EXCEPT !.pc = "bumping", !.owner = u, !.members = Issued(LiveOf(u))])
  /\ UNCHANGED <<stamp, aged, revoked, killed, overdue>>

(* revokeOtherSession: one session of the user's list, then bump. *)
RevokeOther(r, u, h) ==
  /\ At(r, "idle")
  /\ Plane = "dashboard"
  /\ RevokeSession(u, h)
  /\ Goto(r, [Idle EXCEPT !.pc = "bumping", !.owner = u, !.members = Issued({h})])
  /\ UNCHANGED <<stamp, aged, revoked, signedOut, killed, overdue>>

(* Mutant: a revocation that reports success without the bump. *)
RevokeBumpSkipped(r) ==
  /\ At(r, "bumping")
  /\ epoch[req[r].owner] < MaxEpoch
  /\ killed' = killed \cup req[r].members
  /\ Finish(r)
  /\ UNCHANGED <<storeVars, stamp, aged, revoked, signedOut, overdue>>

RevokeBump(r) ==
  /\ At(r, "bumping")
  /\ epoch[req[r].owner] < MaxEpoch
  /\ BumpEpoch(req[r].owner)
  /\ killed' = killed \cup req[r].members
  /\ Finish(r)
  /\ UNCHANGED <<stamp, aged, revoked, signedOut, overdue>>

-----------------------------------------------------------------------------
(* The environment *)

(* The process dies, or the store refuses the next command. *)
Abandon(r) ==
  /\ ~At(r, "idle")
  /\ Finish(r)
  /\ UNCHANGED <<storeVars, stamp, aged, revoked, signedOut, killed, overdue>>

(* absoluteSessionLifetimeDays elapses for a lineage. *)
Age(f) ==
  /\ CapOn
  /\ f \notin aged
  /\ ~FreshFamily(f)
  /\ aged' = aged \cup {f}
  /\ UNCHANGED <<storeVars, req, stamp, revoked, signedOut, killed, overdue>>

Housekeeping ==
  /\ \/ "live" \in Lapses /\ \E h \in Hashes : ExpireLive(h)
     \/ "grace" \in Lapses /\ \E h \in Hashes : ExpireGrace(h)
     \/ "consumed" \in Lapses /\ \E h \in Hashes : ExpireConsumed(h)
     \/ "family" \in Lapses /\ \E f \in Families : ExpireFamily(f)
     \/ "index" \in Lapses /\ \E u \in Users : ExpireIndex(u)
     \/ "prune" \in Lapses /\ \E u \in Users :
          \/ PruneExpiredGraceMembers(u)
          \/ \E stale \in SUBSET Hashes : PruneDeadMembers(u, stale)
  /\ UNCHANGED rotationVars

-----------------------------------------------------------------------------
Login(r) == \/ \E u \in Users, verified \in Verified : LoginReadEpoch(r, u, verified)
            \/ \E h \in Hashes : LoginCreate(r, h)

Refresh(r) == \/ \E h \in Hashes : \/ RefreshSeed(r, h)
                                   \/ RefreshRotated(r, h)
                                   \/ RefreshRecover(r, h)
              \/ RefreshGraced(r)
              \/ RefreshReused(r)
              \/ RefreshInvalid(r)
              \/ RefreshCheckFamily(r)
              \/ RefreshRecoverRefused(r)
              \/ PlatformPruneSpent(r)
              \/ RefreshSign(r)
              \/ ReuseReadFamily(r)
              \/ ReuseResolveOwner(r)
              \/ ReuseRevoke(r)

Revocation(r) == \/ \E u \in Users : \/ RevokeAllSweep(r, u)
                                     \/ \E h \in Hashes : RevokeOther(r, u, h)
                 \/ RevokeBump(r)

Next == \/ \E r \in Requests : Login(r) \/ Refresh(r) \/ Revocation(r) \/ Abandon(r)
        \/ \E f \in Families : Age(f)
        \/ Housekeeping

Spec == Init /\ [][Next]_vars
-----------------------------------------------------------------------------
(* Safety *)

(* No live session hides from "log out everywhere": the index of its owner  *)
(* names it at every instant, whatever rotation, recovery, prune or expiry  *)
(* is half-way.                                                             *)
LiveIndexed == \A h \in Hashes : live[h] # None => Rt(h) \in index[live[h].user]

(* Nor does a grace pointer, which can still be turned into a session.      *)
GraceIndexed ==
  \A h \in Hashes : grace[h] # None => Rp(h) \in index[grace[h].session.user]

(* Every live session of a lineage is in the set a reuse detection walks.   *)
LiveInFamily ==
  \A h \in Hashes : live[h] # None /\ live[h].family # NoFamily
                      => h \in family[live[h].family]

(* Once a replayed token got its lineage revoked, no session of the lineage *)
(* is ever live again: neither a rotation nor a recovery already in flight  *)
(* brings one back.                                                         *)
RevokedFamilyStaysDead ==
  \A h \in Hashes : live[h] # None => live[h].family \notin revoked

(* From a revoke-all until the account next signs in, the account has no    *)
(* live session, whatever refreshes were in flight when it ran.             *)
SweptUserStaysOut == \A u \in signedOut : LiveOf(u) = {}

(* However often and however concurrently one token is presented, it is     *)
(* exchanged once and recovered at most once.                               *)
ExchangedOnce ==
  \A h \in Hashes : \A g \in Hashes :
    minted[g] # None /\ minted[h] # None
      /\ minted[g].from # None /\ minted[g].from = minted[h].from
      /\ minted[g].by = minted[h].by
    => g = h

(* A refresh begun after the lineage outlived the absolute cap mints no     *)
(* session, not even along the grace path, whose first check sees only the  *)
(* placeholder record.                                                      *)
NoSessionPastCap == overdue = {}

(* When a revocation has returned, no access token issued with a session it *)
(* listed verifies: the stamp is below the stored epoch.                    *)
KilledTokensRefused ==
  \A h \in killed : stamp[h] # None /\ stamp[h] < epoch[minted[h].session.user]

(* A rotated or recovered session belongs to the user and lineage of the    *)
(* token exchanged for it and never gains a second factor it had not.       *)
LineageInherited ==
  \A h \in Hashes : minted[h] # None /\ minted[h].from # None
                      => minted[h].session = minted[minted[h].from].session
=============================================================================
