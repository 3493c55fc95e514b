------------------------ MODULE TokenRotation_proofs ------------------------
(***************************************************************************)
(* The safety of TokenRotation for every set of users, lineages, tokens and *)
(* handlers, on either plane, with the grace window and the absolute cap on *)
(* or off, whatever housekeeping runs and however many revocations.         *)
(*                                                                          *)
(* The properties are not inductive: each depends on what a request holds   *)
(* while it sleeps at an await.  IInv adds that: how the keys of one hash   *)
(* agree with how it was minted, and what each pc knows of the store.       *)
(***************************************************************************)
EXTENDS TokenLedger, TLAPS

-----------------------------------------------------------------------------
(* The inductive invariant *)

(* Every key of a hash was written from the record it was minted with.  A   *)
(* hash that has a grace pointer is spent.                                  *)
KeyLinks(h) ==
  /\ live[h] # None => minted[h] # None /\ live[h] = minted[h].session
  /\ grace[h] # None => /\ minted[h] # None /\ live[h] = None
                        /\ grace[h].session = minted[h].session
  /\ consumed[h] # None => minted[h] # None /\ minted[h].session.family = consumed[h]
  /\ stamp[h] # None => minted[h] # None /\ stamp[h] <= epoch[minted[h].session.user]

(* A hash another was exchanged for is spent, and its record lives on.      *)
MintLinks(h) ==
  minted[h] # None /\ minted[h].from # None =>
    /\ minted[minted[h].from] # None
    /\ live[minted[h].from] = None
    /\ minted[h].session = minted[minted[h].from].session
    /\ minted[h].by \in {"rotate", "recover"}
    /\ minted[h].by = "recover" => grace[minted[h].from] = None

(* The index of a user names only hashes minted for that user.              *)
IndexLinks(u) ==
  \A h \in Hashes : Rt(h) \in index[u] => minted[h] # None /\ minted[h].session.user = u

(* A revoked lineage has no family set and its id is not drawn again.       *)
RevokedLinks(f) == f \in revoked => family[f] = {} /\ ~FreshFamily(f)

SweptLinks(u) == u \in signedOut => index[u] = {}

(* What a request knows of the store at each await. *)
CreatingLinks(q) ==
  q.pc = "creating" => /\ q.rec \in Session /\ q.rec.family \in Families
                       /\ q.epoch <= epoch[q.rec.user]

SeededLinks(q) ==
  q.pc = "seeded" => /\ q.hash \in Hashes /\ minted[q.hash] # None
                     /\ live[q.hash] # None => q.rec = live[q.hash]
                     /\ q.late => /\ live[q.hash] = None
                                  /\ minted[q.hash].session.family \in aged

RecoveringLinks(q) ==
  q.pc \in {"graced", "recovering"} =>
    /\ q.hash \in Hashes /\ minted[q.hash] # None
    /\ q.rec = minted[q.hash].session
    /\ live[q.hash] = None /\ grace[q.hash] = None
    /\ \A h \in Hashes : minted[h] # None /\ minted[h].from = q.hash
                           => minted[h].by # "recover"
    /\ q.late => q.pc = "graced" /\ q.rec.family \in aged

SigningLinks(q) ==
  q.pc \in {"pruning", "signing"} =>
    /\ q.hash \in Hashes /\ minted[q.hash] # None /\ stamp[q.hash] = None
    /\ q.rec = minted[q.hash].session
    /\ \A h \in q.members : minted[h] # None /\ live[h] = None /\ grace[h] = None

ReuseLinks(q) ==
  q.pc \in {"reusing", "owning"} => q.rec.family \in Families /\ ~FreshFamily(q.rec.family)

BumpingLinks(q) ==
  q.pc = "bumping" =>
    /\ q.owner \in Users
    /\ \A h \in q.members : stamp[h] # None /\ minted[h].session.user = q.owner

RequestLinks(r) ==
  /\ CreatingLinks(req[r])
  /\ SeededLinks(req[r])
  /\ RecoveringLinks(req[r])
  /\ SigningLinks(req[r])
  /\ ReuseLinks(req[r])
  /\ BumpingLinks(req[r])

(* A spent pointer, or a hash just minted, is in the hands of one request.  *)
OneHolder(q, r) ==
  /\ req[q].hash = req[r].hash
  /\ \/ req[q].pc \in {"graced", "recovering"} /\ req[r].pc \in {"graced", "recovering"}
     \/ req[q].pc \in {"pruning", "signing"} /\ req[r].pc \in {"pruning", "signing"}
  => q = r

Links ==
  /\ \A h \in Hashes : KeyLinks(h) /\ MintLinks(h)
  /\ \A u \in Users : IndexLinks(u) /\ SweptLinks(u)
  /\ \A f \in Families : RevokedLinks(f)
  /\ \A r \in Requests : RequestLinks(r)
  /\ \A q, r \in Requests : OneHolder(q, r)

Indexed == LiveIndexed /\ GraceIndexed /\ LiveInFamily

Answers == ExchangedOnce /\ NoSessionPastCap /\ KilledTokensRefused

IInv == TypeOK /\ Links /\ Indexed /\ Answers

-----------------------------------------------------------------------------
(* Type correctness.  A step that builds a record or a message shows that   *)
(* what it builds has the type its variable needs.                          *)

(* Every record a handler can park in its request is a Request.             *)
LEMMA RequestTypes ==
  ASSUME TypeOK, NEW r \in Requests
  PROVE  /\ Idle \in Request
         /\ req[r] \in Request
         /\ \A pc \in PCs, h \in Hashes \cup {None}, s \in Record, H \in SUBSET Hashes,
               u \in Users \cup {NoUser}, e \in Nat, l \in BOOLEAN :
              [pc |-> pc, hash |-> h, rec |-> s, members |-> H, owner |-> u,
               epoch |-> e, late |-> l] \in Request
  BY DEF TypeOK, Idle, Request, PCs, Placeholder, Record

(* readSeedSession's result is a record, of nobody when the key is gone.    *)
LEMMA SeedType ==
  ASSUME TypeOK, NEW h \in Hashes
  PROVE  /\ SeedOf(h) \in Record
         /\ \A s \in Session : s \in Record
         /\ Placeholder \in Record
  BY DEF TypeOK, StoreTypeOK, SeedOf, IsLive, Placeholder, Record, Session

LEMMA LoginType ==
  ASSUME IInv, NEW r \in Requests, Login(r)
  PROVE  TypeOK'
<1>1. ASSUME NEW u \in Users, NEW verified \in Verified, LoginReadEpoch(r, u, verified)
      PROVE  TypeOK'
  <2>1. PICK f \in Families :
          req' = [req EXCEPT ![r] = [Idle EXCEPT !.pc = "creating", !.epoch = epoch[u],
                    !.rec = [user |-> u, family |-> f, mfa |-> verified]]]
    BY <1>1 DEF LoginReadEpoch, Goto
  <2>2. [user |-> u, family |-> f, mfa |-> verified] \in Record /\ epoch[u] \in Nat
    BY RotationAssumption DEF Record, IInv, TypeOK, StoreTypeOK
  <2>3. req' \in [Requests -> Request]
    BY <2>1, <2>2 DEF IInv, TypeOK, Idle, Request, PCs
  <2>. QED
    BY <1>1, <2>3 DEF IInv, TypeOK, StoreTypeOK, LoginReadEpoch, storeVars
<1>2. ASSUME NEW h \in Hashes, LoginCreate(r, h)
      PROVE  TypeOK'
  <2>. DEFINE s == req[r].rec
  <2>1. s \in Session /\ req[r].epoch \in Nat
    BY <1>2 DEF IInv, Links, RequestLinks, CreatingLinks, TypeOK, Request, LoginCreate, At
  <2>2. [session |-> s, from |-> None, by |-> "login"] \in Mint
    BY <2>1 DEF Mint
  <2>3. StoreTypeOK'
    BY <1>2, <2>1, <2>2 DEF IInv, TypeOK, StoreTypeOK, LoginCreate, CreateSession, JoinFamily,
       Minting, Rt, Members, Session
  <2>4. req' \in [Requests -> Request] /\ stamp' \in [Hashes -> Nat \cup {None}]
    BY <1>2, <2>1, RequestTypes DEF IInv, TypeOK, LoginCreate, Finish, Goto
  <2>. QED
    BY <1>2, <2>3, <2>4 DEF IInv, TypeOK, LoginCreate
<1>. QED
  BY <1>1, <1>2 DEF Login

LEMMA RefreshType ==
  ASSUME IInv, NEW r \in Requests, Refresh(r)
  PROVE  TypeOK'
<1>. TypeOK /\ StoreTypeOK /\ req[r] \in Request
  BY DEF IInv, TypeOK
<1>1. ASSUME NEW h \in Hashes, RefreshSeed(r, h)  PROVE TypeOK'
  <2>. DEFINE late == minted[h].session.family \in aged
  <2>1. late \in BOOLEAN
    OBVIOUS
  <2>. HIDE DEF late
  <2>2. req' \in [Requests -> Request]
    BY <1>1, <2>1, SeedType DEF TypeOK, RefreshSeed, Goto, Idle, Request, PCs, late
  <2>. QED
    BY <1>1, <2>2 DEF TypeOK, StoreTypeOK, RefreshSeed, storeVars
<1>2. ASSUME NEW g \in Hashes, RefreshRotated(r, g)  PROVE TypeOK'
  <2>. DEFINE old == req[r].hash
  <2>. DEFINE s == req[r].rec
  <2>1. old \in Hashes /\ s = live[old] /\ s \in Session
    BY <1>2 DEF IInv, Links, RequestLinks, SeededLinks, StoreTypeOK, RefreshRotated,
           RotateLive, IsLive, At
  <2>2. [session |-> s, from |-> old, by |-> "rotate"] \in Mint
    BY <2>1 DEF Mint
  <2>3. [to |-> g, session |-> s] \in Pointer
    BY <2>1 DEF Pointer
  <2>4. live' \in [Hashes -> Session \cup {None}] /\ grace' \in [Hashes -> Pointer \cup {None}]
    BY <1>2, <2>1, <2>3 DEF StoreTypeOK, RefreshRotated, RotateLive, Inherit
  <2>5. consumed' \in [Hashes -> Families \cup {None}] /\ family' \in [Families -> SUBSET Hashes]
    BY <1>2, <2>1 DEF StoreTypeOK, RefreshRotated, RotateLive, Inherit, Session, MoveFamilyMember
  <2>6. index' \in [Users -> SUBSET Members]
    <3>1. Rt(g) \in Members /\ Rp(old) \in Members
      BY <2>1 DEF Rt, Rp, Members
    <3>. QED
      BY <1>2, <2>1, <3>1 DEF StoreTypeOK, RefreshRotated, RotateLive, Inherit, Session,
         MoveIndexMember
  <2>7. epoch' \in [Users -> Nat] /\ minted' \in [Hashes -> Mint \cup {None}]
    BY <1>2, <2>1, <2>2 DEF StoreTypeOK, RefreshRotated, RotateLive, Inherit, Minting
  <2>8. req' \in [Requests -> Request]
    BY <1>2, <2>1 DEF TypeOK, RefreshRotated, Goto, Idle, Request, PCs, Placeholder, Record, Session
  <2>. QED
    BY <1>2, <2>4, <2>5, <2>6, <2>7, <2>8 DEF TypeOK, StoreTypeOK, RefreshRotated
<1>3. CASE RefreshGraced(r)
  <2>1. req[r].hash \in Hashes /\ grace[req[r].hash].session \in Record
    BY <1>3 DEF IInv, Links, RequestLinks, SeededLinks, StoreTypeOK, Pointer, RefreshGraced,
       RotateGrace, PointerRecovers, At, Record, Session
  <2>. QED
    BY <1>3, <2>1 DEF TypeOK, StoreTypeOK, RefreshGraced, RotateGrace, SpendPointer, Goto, Request, PCs
<1>4. CASE RefreshReused(r)
  <2>1. req[r].hash \in Hashes /\ consumed[req[r].hash] \in Families
    BY <1>4 DEF IInv, Links, RequestLinks, SeededLinks, StoreTypeOK, RefreshReused,
       RotateReused, At
  <2>. QED
    BY <1>4, <2>1 DEF TypeOK, StoreTypeOK, RefreshReused, RotateReused, SpendPointer, Goto, Idle, Request, PCs,
       Placeholder, Record
<1>5. CASE RefreshInvalid(r)
  BY <1>5, RequestTypes DEF TypeOK, StoreTypeOK, RefreshInvalid, RotateInvalid, SpendPointer, Finish, Goto
<1>6. CASE RefreshCheckFamily(r)
  <2>1. [req[r] EXCEPT !.pc = "recovering"] \in Request
    BY DEF Request, PCs
  <2>2. req' \in [Requests -> Request]
    BY <1>6, <2>1, RequestTypes DEF TypeOK, RefreshCheckFamily, Finish, Goto
  <2>. QED
    BY <1>6, <2>2 DEF TypeOK, StoreTypeOK, RefreshCheckFamily, storeVars
<1>7. ASSUME NEW h \in Hashes, RefreshRecover(r, h)  PROVE TypeOK'
  <2>. DEFINE s == req[r].rec
  <2>. DEFINE old == req[r].hash
  <2>1. s \in Session /\ old \in Hashes
    BY <1>7 DEF IInv, Links, RequestLinks, RecoveringLinks, StoreTypeOK, RefreshRecover, At, Mint
  <2>2. [session |-> s, from |-> old, by |-> "recover"] \in Mint
    BY <2>1 DEF Mint
  <2>3. StoreTypeOK'
    <3>1. live' \in [Hashes -> Session \cup {None}] /\ minted' \in [Hashes -> Mint \cup {None}]
      BY <1>7, <2>1, <2>2 DEF StoreTypeOK, RefreshRecover, RecoverGrace, Inherit, Minting
    <3>2. index' \in [Users -> SUBSET Members]
      BY <1>7, <2>1 DEF StoreTypeOK, RefreshRecover, RecoverGrace, Inherit, Rt, Members, Session
    <3>3. family' \in [Families -> SUBSET Hashes]
      BY <1>7, <2>1 DEF StoreTypeOK, RefreshRecover, RecoverGrace, Inherit, JoinFamily, Session
    <3>4. UNCHANGED <<grace, consumed, epoch>>
      BY <1>7 DEF RefreshRecover, RecoverGrace
    <3>. QED
      BY <3>1, <3>2, <3>3, <3>4 DEF StoreTypeOK
  <2>4. req' \in [Requests -> Request]
    <3>1. \A pc \in PCs, H \in SUBSET Hashes :
            [Idle EXCEPT !.hash = h, !.rec = s, !.pc = pc, !.members = H] \in Request
      <4>1. s \in Record
        BY <2>1 DEF Record, Session
      <4>2. Idle \in Request
        BY RequestTypes
      <4>. QED
        BY <4>1, <4>2 DEF Request
    <3>2. \E pc \in PCs, H \in SUBSET Hashes :
            req' = [req EXCEPT ![r] = [Idle EXCEPT !.hash = h, !.rec = s, !.pc = pc, !.members = H]]
      BY <1>7, <2>1 DEF RefreshRecover, Goto, PCs
    <3>. QED
      BY <3>1, <3>2 DEF TypeOK
  <2>. QED
    BY <1>7, <2>3, <2>4 DEF TypeOK, RefreshRecover
<1>8. CASE RefreshRecoverRefused(r)
  BY <1>8, RequestTypes DEF TypeOK, StoreTypeOK, RefreshRecoverRefused, storeVars, Finish, Goto
<1>9. CASE PlatformPruneSpent(r)
  BY <1>9 DEF TypeOK, StoreTypeOK, PlatformPruneSpent, Goto, Request, PCs
<1>10. CASE RefreshSign(r)
  <2>1. req[r].hash \in Hashes /\ epoch[req[r].rec.user] \in Nat
    BY <1>10 DEF IInv, Links, RequestLinks, SigningLinks, StoreTypeOK, RefreshSign, At, Mint, Session
  <2>. QED
    BY <1>10, <2>1, RequestTypes DEF TypeOK, StoreTypeOK, RefreshSign, storeVars, Finish, Goto
<1>11. CASE ReuseReadFamily(r)
  BY <1>11 DEF IInv, Links, RequestLinks, ReuseLinks, TypeOK, StoreTypeOK, ReuseReadFamily, At,
     storeVars, Goto, Request, PCs
<1>12. CASE ReuseResolveOwner(r)
  <2>1. OwnersOf(req[r].members) \subseteq Users
    BY DEF OwnersOf, IsLive, StoreTypeOK, Session, Request
  <2>. QED
    <3>1. /\ [req[r] EXCEPT !.members = {}] \in Request
          /\ \A u \in Users : [req[r] EXCEPT !.members = {}, !.owner = u] \in Request
      BY DEF Request
    <3>2. req' \in [Requests -> Request]
      <4>1. \/ req' = [req EXCEPT ![r] = [req[r] EXCEPT !.members = {}]]
            \/ \E u \in Users : req' = [req EXCEPT ![r] = [req[r] EXCEPT !.members = {}, !.owner = u]]
        BY <1>12, <2>1 DEF ReuseResolveOwner, Goto
      <4>. QED
        BY <3>1, <4>1 DEF TypeOK
    <3>3. UNCHANGED <<storeVars, stamp, aged, revoked, signedOut, killed, overdue>>
      BY <1>12 DEF ReuseResolveOwner
    <3>. QED
      BY <3>2, <3>3 DEF TypeOK, StoreTypeOK, storeVars
<1>13. CASE ReuseRevoke(r)
  <2>1. req[r].rec.family \in Families
    BY <1>13 DEF IInv, Links, RequestLinks, ReuseLinks, ReuseRevoke, At
  <2>. QED
    BY <1>13, <2>1, RequestTypes DEF TypeOK, StoreTypeOK, ReuseRevoke, RevokeFamily, Finish, Goto
<1>. QED
  BY <1>1, <1>2, <1>3, <1>4, <1>5, <1>6, <1>7, <1>8, <1>9, <1>10, <1>11, <1>12, <1>13 DEF Refresh

LEMMA RevocationType ==
  ASSUME IInv, NEW r \in Requests, Revocation(r)
  PROVE  TypeOK'
<1>. TypeOK /\ StoreTypeOK /\ req[r] \in Request
  BY DEF IInv, TypeOK
<1>1. ASSUME NEW u \in Users, RevokeAllSweep(r, u)  PROVE TypeOK'
  BY <1>1 DEF TypeOK, StoreTypeOK, RevokeAllSweep, SweepIndex, Goto, Idle, Request, PCs,
     Placeholder, Record, Issued, LiveOf
<1>2. ASSUME NEW u \in Users, NEW h \in Hashes, RevokeOther(r, u, h)  PROVE TypeOK'
  <2>1. StoreTypeOK'
    BY <1>2 DEF StoreTypeOK, RevokeOther, RevokeSession
  <2>2. [Idle EXCEPT !.pc = "bumping", !.owner = u, !.members = Issued({h})] \in Request
    BY DEF Issued, Idle, Request, PCs, Placeholder, Record
  <2>. QED
    BY <1>2, <2>1, <2>2 DEF TypeOK, RevokeOther, Goto
<1>3. CASE RevokeBump(r)
  <2>1. req[r].owner \in Users /\ req[r].members \subseteq Hashes
    BY <1>3 DEF IInv, Links, RequestLinks, BumpingLinks, RevokeBump, At, Request
  <2>. QED
    BY <1>3, <2>1, RequestTypes DEF TypeOK, StoreTypeOK, RevokeBump, BumpEpoch, Finish, Goto
<1>. QED
  BY <1>1, <1>2, <1>3 DEF Revocation

LEMMA HousekeepingType ==
  ASSUME IInv, Housekeeping
  PROVE  TypeOK'
<1>. TypeOK /\ StoreTypeOK /\ UNCHANGED rotationVars
  BY DEF IInv, TypeOK, Housekeeping
<1>1. ASSUME NEW h \in Hashes, ExpireLive(h) \/ ExpireGrace(h) \/ ExpireConsumed(h)
      PROVE  StoreTypeOK'
  BY <1>1 DEF StoreTypeOK, ExpireLive, ExpireGrace, ExpireConsumed
<1>2. ASSUME NEW f \in Families, ExpireFamily(f)
      PROVE  StoreTypeOK'
  BY <1>2 DEF StoreTypeOK, ExpireFamily
<1>3. ASSUME NEW u \in Users,
             \/ ExpireIndex(u) \/ PruneExpiredGraceMembers(u)
             \/ \E stale \in SUBSET Hashes : PruneDeadMembers(u, stale)
      PROVE  StoreTypeOK'
  BY <1>3 DEF StoreTypeOK, ExpireIndex, PruneExpiredGraceMembers, PruneDeadMembers
<1>4. StoreTypeOK'
  BY <1>1, <1>2, <1>3 DEF Housekeeping
<1>. QED
  BY <1>4 DEF TypeOK, rotationVars

LEMMA TypeStep ==
  ASSUME IInv, Next
  PROVE  TypeOK'
<1>1. ASSUME NEW r \in Requests, Abandon(r)  PROVE TypeOK'
  BY <1>1, RequestTypes DEF IInv, TypeOK, StoreTypeOK, Abandon, storeVars, Finish, Goto
<1>2. ASSUME NEW f \in Families, Age(f)  PROVE TypeOK'
  BY <1>2 DEF IInv, TypeOK, StoreTypeOK, Age, storeVars
<1>. QED
  BY <1>1, <1>2, LoginType, RefreshType, RevocationType, HousekeepingType DEF Next

-----------------------------------------------------------------------------
(* How the store evolves.  Most steps only take keys away: Shrinks.         *)

Shrinks ==
  /\ UNCHANGED <<epoch, minted, stamp>>
  /\ \A h \in Hashes : /\ live'[h] \in {live[h], None}
                       /\ grace'[h] \in {grace[h], None}
                       /\ consumed'[h] \in {consumed[h], None}
  /\ \A u \in Users : index'[u] \subseteq index[u]
  /\ \A f \in Families : family'[f] \subseteq family[f]

(* What every step grants the requests that sleep through it.               *)
Evolves ==
  /\ \A h \in Hashes : minted[h] # None =>
       /\ minted'[h] = minted[h]
       /\ live'[h] \in {live[h], None}
       /\ live[h] = None /\ grace[h] = None => grace'[h] = None
       /\ stamp[h] # None => stamp'[h] = stamp[h]
  /\ \A u \in Users : epoch[u] <= epoch'[u]
  /\ aged \subseteq aged'

(* The steps of a request that leave the store alone or take keys away.     *)
Shrinking(r) ==
  \/ \E u \in Users, verified \in Verified : LoginReadEpoch(r, u, verified)
  \/ \E h \in Hashes : RefreshSeed(r, h)
  \/ RefreshGraced(r) \/ RefreshReused(r) \/ RefreshInvalid(r)
  \/ RefreshCheckFamily(r) \/ RefreshRecoverRefused(r) \/ PlatformPruneSpent(r)
  \/ ReuseReadFamily(r) \/ ReuseResolveOwner(r) \/ ReuseRevoke(r)
  \/ \E u \in Users : RevokeAllSweep(r, u) \/ \E h \in Hashes : RevokeOther(r, u, h)
  \/ Abandon(r)

LEMMA ShrinkingShrinks ==
  ASSUME IInv, NEW r \in Requests, Shrinking(r)
  PROVE  Shrinks /\ aged' = aged
<1>. TypeOK /\ StoreTypeOK /\ req[r] \in Request
  BY DEF IInv, TypeOK
<1>1. ASSUME UNCHANGED storeVars, UNCHANGED <<stamp, aged>>
      PROVE  Shrinks /\ aged' = aged
  BY <1>1 DEF storeVars, Shrinks
<1>2. ASSUME NEW u \in Users, NEW verified \in Verified, LoginReadEpoch(r, u, verified)
      PROVE  Shrinks /\ aged' = aged
  BY <1>1, <1>2 DEF LoginReadEpoch
<1>3. ASSUME NEW h \in Hashes, RefreshSeed(r, h)
      PROVE  Shrinks /\ aged' = aged
  BY <1>1, <1>3 DEF RefreshSeed
<1>4. CASE RefreshGraced(r) \/ RefreshReused(r) \/ RefreshInvalid(r)
  BY <1>4 DEF RefreshGraced, RefreshReused, RefreshInvalid, RotateGrace, RotateReused,
     RotateInvalid, SpendPointer, StoreTypeOK, Shrinks
<1>5. CASE RefreshCheckFamily(r) \/ RefreshRecoverRefused(r) \/ ReuseReadFamily(r)
             \/ ReuseResolveOwner(r) \/ Abandon(r)
  BY <1>1, <1>5 DEF RefreshCheckFamily, RefreshRecoverRefused, ReuseReadFamily,
     ReuseResolveOwner, Abandon
<1>6. CASE PlatformPruneSpent(r)
  BY <1>6 DEF PlatformPruneSpent, StoreTypeOK, Shrinks
<1>7. CASE ReuseRevoke(r)
  BY <1>7 DEF ReuseRevoke, RevokeFamily, StoreTypeOK, Shrinks
<1>8. ASSUME NEW u \in Users, RevokeAllSweep(r, u)
      PROVE  Shrinks /\ aged' = aged
  BY <1>8 DEF RevokeAllSweep, SweepIndex, StoreTypeOK, Shrinks
<1>9. ASSUME NEW u \in Users, NEW h \in Hashes, RevokeOther(r, u, h)
      PROVE  Shrinks /\ aged' = aged
  BY <1>9 DEF RevokeOther, RevokeSession, StoreTypeOK, Shrinks
<1>. QED
  BY <1>2, <1>3, <1>4, <1>5, <1>6, <1>7, <1>8, <1>9 DEF Shrinking

LEMMA HousekeepingShrinks ==
  ASSUME IInv, Housekeeping
  PROVE  Shrinks /\ UNCHANGED rotationVars
<1>. StoreTypeOK /\ UNCHANGED rotationVars
  BY DEF IInv, TypeOK, Housekeeping
<1>1. ASSUME NEW h \in Hashes, ExpireLive(h) \/ ExpireGrace(h) \/ ExpireConsumed(h)
      PROVE  Shrinks
  BY <1>1 DEF ExpireLive, ExpireGrace, ExpireConsumed, StoreTypeOK, Shrinks, rotationVars
<1>2. ASSUME NEW f \in Families, ExpireFamily(f)
      PROVE  Shrinks
  BY <1>2 DEF ExpireFamily, StoreTypeOK, Shrinks, rotationVars
<1>3. ASSUME NEW u \in Users,
             \/ ExpireIndex(u) \/ PruneExpiredGraceMembers(u)
             \/ \E stale \in SUBSET Hashes : PruneDeadMembers(u, stale)
      PROVE  Shrinks
  BY <1>3 DEF ExpireIndex, PruneExpiredGraceMembers, PruneDeadMembers, StoreTypeOK, Shrinks,
     rotationVars
<1>. QED
  BY <1>1, <1>2, <1>3 DEF Housekeeping

(* Every step is one of these. *)
LEMMA StepCases ==
  ASSUME Next
  PROVE  \/ \E r \in Requests : \/ \E h \in Hashes : LoginCreate(r, h)
                                \/ \E h \in Hashes : RefreshRotated(r, h)
                                \/ \E h \in Hashes : RefreshRecover(r, h)
                                \/ RefreshSign(r)
                                \/ RevokeBump(r)
                                \/ Shrinking(r)
         \/ \E f \in Families : Age(f)
         \/ Housekeeping
<1>1. ASSUME NEW r \in Requests, Login(r) \/ Refresh(r) \/ Revocation(r) \/ Abandon(r)
      PROVE  \/ \E h \in Hashes : LoginCreate(r, h)
             \/ \E h \in Hashes : RefreshRotated(r, h)
             \/ \E h \in Hashes : RefreshRecover(r, h)
             \/ RefreshSign(r)
             \/ RevokeBump(r)
             \/ Shrinking(r)
  BY <1>1 DEF Login, Refresh, Revocation, Shrinking
<1>. QED
  BY <1>1 DEF Next

(* Taking keys away disturbs no link between the keys that stay.            *)
LEMMA ShrinksKeeps ==
  ASSUME IInv, Shrinks, aged \subseteq aged'
  PROVE  /\ (\A h \in Hashes : KeyLinks(h) /\ MintLinks(h))'
         /\ (\A u \in Users : IndexLinks(u))'
         /\ Evolves
<1>. TypeOK /\ StoreTypeOK
  BY DEF IInv, TypeOK
<1>1. ASSUME NEW h \in Hashes  PROVE KeyLinks(h)'
  BY DEF IInv, Links, KeyLinks, Shrinks
<1>2. ASSUME NEW h \in Hashes, minted[h] # None, minted[h].from # None
      PROVE  MintLinks(h)'
  <2>1. minted[h].from \in Hashes
    BY <1>2 DEF StoreTypeOK, Mint
  <2>. QED
    BY <1>2, <2>1 DEF IInv, Links, MintLinks, Shrinks
<1>3. ASSUME NEW h \in Hashes  PROVE MintLinks(h)'
  BY <1>2 DEF MintLinks, Shrinks
<1>4. ASSUME NEW u \in Users  PROVE IndexLinks(u)'
  BY DEF IInv, Links, IndexLinks, Shrinks
<1>5. Evolves
  BY DEF StoreTypeOK, Shrinks, Evolves
<1>. QED
  BY <1>1, <1>3, <1>4, <1>5

-----------------------------------------------------------------------------
(* The three steps that mint a hash, the one that signs, the one that bumps.*)

LEMMA MintedOnce ==
  ASSUME StoreTypeOK, NEW g \in Hashes, Fresh(g), NEW s, NEW p, NEW how,
         [session |-> s, from |-> p, by |-> how] \in Mint, Minting(g, s, p, how)
  PROVE  /\ minted[g] = None
         /\ minted'[g] # None
         /\ minted'[g].session = s /\ minted'[g].from = p /\ minted'[g].by = how
         /\ \A h \in Hashes : h # g => minted'[h] = minted[h]
  BY NoneAssumption DEF StoreTypeOK, Fresh, Minting

(* A fresh hash has no key and nobody was given it. *)
LEMMA FreshUnused ==
  ASSUME IInv, NEW g \in Hashes, Fresh(g)
  PROVE  /\ live[g] = None /\ grace[g] = None /\ consumed[g] = None /\ stamp[g] = None
         /\ \A h \in Hashes : minted[h] # None => minted[h].from # g \/ minted[h].from = None
  BY DEF IInv, Links, KeyLinks, MintLinks, Fresh

LEMMA CreateLinks ==
  ASSUME IInv, NEW r \in Requests, NEW g \in Hashes, LoginCreate(r, g)
  PROVE  /\ (\A h \in Hashes : KeyLinks(h) /\ MintLinks(h))'
         /\ (\A u \in Users : IndexLinks(u))'
         /\ Evolves
<1>. DEFINE s == req[r].rec
<1>. TypeOK /\ StoreTypeOK
  BY DEF IInv, TypeOK
<1>1. s \in Session /\ req[r].epoch <= epoch[s.user]
  BY DEF IInv, Links, RequestLinks, CreatingLinks, LoginCreate, At
<1>2. [session |-> s, from |-> None, by |-> "login"] \in Mint
  BY <1>1 DEF Mint
<1>3. Fresh(g) /\ Minting(g, s, None, "login")
  BY DEF LoginCreate, CreateSession
<1>4. /\ minted[g] = None /\ minted'[g] # None
      /\ minted'[g].session = s /\ minted'[g].from = None
      /\ \A h \in Hashes : h # g => minted'[h] = minted[h]
  BY <1>2, <1>3, MintedOnce
<1>5. live[g] = None /\ grace[g] = None /\ consumed[g] = None /\ stamp[g] = None
  BY <1>3, FreshUnused
<1>6. /\ live' = [live EXCEPT ![g] = s]
      /\ index' = [index EXCEPT ![s.user] = @ \cup {Rt(g)}]
      /\ stamp' = [stamp EXCEPT ![g] = req[r].epoch]
      /\ UNCHANGED <<grace, consumed, epoch, aged>>
  BY DEF LoginCreate, CreateSession
<1>7. ASSUME NEW h \in Hashes  PROVE KeyLinks(h)'
  BY <1>1, <1>4, <1>5, <1>6 DEF IInv, Links, KeyLinks, TypeOK, StoreTypeOK
<1>8. ASSUME NEW h \in Hashes  PROVE MintLinks(h)'
  <2>1. CASE minted'[h] # None /\ minted'[h].from # None
    <3>1. h # g /\ minted[h] # None /\ minted[h].from # None
      BY <2>1, <1>4
    <3>2. minted[h].from \in Hashes /\ minted[h].from # g
      BY <3>1, <1>4 DEF StoreTypeOK, Mint, IInv, Links, MintLinks
    <3>. QED
      BY <3>1, <3>2, <1>4, <1>6 DEF IInv, Links, MintLinks, StoreTypeOK
  <2>. QED
    BY <2>1 DEF MintLinks
<1>9. ASSUME NEW u \in Users  PROVE IndexLinks(u)'
  BY <1>1, <1>4, <1>6 DEF IInv, Links, IndexLinks, StoreTypeOK, Rt, Session
<1>10. Evolves
  BY <1>4, <1>6 DEF Evolves, TypeOK, StoreTypeOK
<1>. QED
  BY <1>7, <1>8, <1>9, <1>10

(* The record a rotation writes is the one the presented hash was minted with. *)
LEMMA RotatedFacts ==
  ASSUME IInv, NEW r \in Requests, NEW g \in Hashes, RefreshRotated(r, g)
  PROVE  LET old == req[r].hash
             s   == req[r].rec
         IN  /\ old \in Hashes /\ g # old
             /\ live[old] = s /\ s \in Session /\ live[old] # None
             /\ minted[old] # None /\ s = minted[old].session
             /\ ~req[r].late
             /\ minted[g] = None /\ minted'[g] # None
             /\ minted'[g].session = s /\ minted'[g].from = old /\ minted'[g].by = "rotate"
             /\ \A h \in Hashes : h # g => minted'[h] = minted[h]
<1>. DEFINE old == req[r].hash
<1>. DEFINE s == req[r].rec
<1>. StoreTypeOK
  BY DEF IInv, TypeOK
<1>1. old \in Hashes /\ live[old] = s /\ s \in Session /\ live[old] # None /\ ~req[r].late
  BY DEF IInv, Links, RequestLinks, SeededLinks, StoreTypeOK, RefreshRotated, RotateLive,
     IsLive, At
<1>2. minted[old] # None /\ s = minted[old].session
  BY <1>1 DEF IInv, Links, KeyLinks
<1>3. [session |-> s, from |-> old, by |-> "rotate"] \in Mint
  BY <1>1 DEF Mint
<1>4. Fresh(g) /\ Minting(g, s, old, "rotate")
  BY DEF RefreshRotated, RotateLive, Inherit
<1>5. /\ minted[g] = None /\ minted'[g] # None
      /\ minted'[g].session = s /\ minted'[g].from = old /\ minted'[g].by = "rotate"
      /\ \A h \in Hashes : h # g => minted'[h] = minted[h]
  BY <1>3, <1>4, MintedOnce
<1>. QED
  BY <1>1, <1>2, <1>5

LEMMA RotatedLinks ==
  ASSUME IInv, NEW r \in Requests, NEW g \in Hashes, RefreshRotated(r, g)
  PROVE  /\ (\A h \in Hashes : KeyLinks(h) /\ MintLinks(h))'
         /\ (\A u \in Users : IndexLinks(u))'
         /\ Evolves
<1>. DEFINE old == req[r].hash
<1>. DEFINE s == req[r].rec
<1>. TypeOK /\ StoreTypeOK
  BY DEF IInv, TypeOK
<1>1. /\ old \in Hashes /\ g # old
      /\ live[old] = s /\ s \in Session /\ live[old] # None
      /\ minted[old] # None /\ s = minted[old].session
      /\ minted[g] = None /\ minted'[g] # None
      /\ minted'[g].session = s /\ minted'[g].from = old /\ minted'[g].by = "rotate"
      /\ \A h \in Hashes : h # g => minted'[h] = minted[h]
  BY RotatedFacts
<1>2. live[g] = None /\ grace[g] = None /\ consumed[g] = None /\ stamp[g] = None
  BY FreshUnused DEF RefreshRotated
<1>3. /\ live' = [live EXCEPT ![g] = s, ![old] = None]
      /\ grace' = IF GraceOn THEN [grace EXCEPT ![old] = [to |-> g, session |-> s]] ELSE grace
      /\ consumed' = IF s.family = NoFamily THEN consumed
                     ELSE [consumed EXCEPT ![old] = s.family]
      /\ index' = [index EXCEPT ![s.user] = ((@ \ {Rt(old)}) \cup {Rt(g)})
                                  \cup (IF GraceOn THEN {Rp(old)} ELSE {})]
      /\ UNCHANGED <<epoch, stamp, aged>>
  BY DEF RefreshRotated, RotateLive, Inherit, MoveIndexMember
<1>4. ASSUME NEW h \in Hashes  PROVE KeyLinks(h)'
  <2>1. KeyLinks(h)
    BY DEF IInv, Links
  <2>2. CASE h = g
    <3>1. live'[g] = s /\ grace'[g] = None /\ consumed'[g] = None /\ stamp'[g] = None
      BY <1>1, <1>2, <1>3 DEF StoreTypeOK
    <3>. QED
      BY <2>2, <3>1, <1>1 DEF KeyLinks
  <2>3. CASE h = old
    <3>1. /\ live'[old] = None
          /\ grace'[old] # None => grace'[old].session = s
          /\ consumed'[old] # None => consumed'[old] = s.family
          /\ stamp'[old] = stamp[old] /\ epoch' = epoch
      BY <2>1, <2>3, <1>1, <1>3 DEF StoreTypeOK, KeyLinks
    <3>. QED
      BY <2>1, <2>3, <3>1, <1>1 DEF KeyLinks
  <2>4. CASE h # g /\ h # old
    <3>1. /\ live'[h] = live[h] /\ grace'[h] = grace[h] /\ consumed'[h] = consumed[h]
          /\ stamp'[h] = stamp[h] /\ epoch' = epoch /\ minted'[h] = minted[h]
      BY <2>4, <1>1, <1>3 DEF StoreTypeOK
    <3>. QED
      BY <2>1, <3>1 DEF KeyLinks
  <2>. QED
    BY <2>2, <2>3, <2>4
<1>5. ASSUME NEW h \in Hashes  PROVE MintLinks(h)'
  <2>1. CASE h = g
    BY <2>1, <1>1, <1>3 DEF MintLinks, StoreTypeOK
  <2>2. CASE h # g /\ minted[h] # None /\ minted[h].from # None
    <3>. DEFINE p == minted[h].from
    <3>1. p \in Hashes
      BY <2>2 DEF StoreTypeOK, Mint
    <3>2. /\ minted[p] # None /\ live[p] = None /\ minted[h].session = minted[p].session
          /\ minted[h].by \in {"rotate", "recover"}
          /\ minted[h].by = "recover" => grace[p] = None
      BY <2>2 DEF IInv, Links, MintLinks
    <3>3. p # g /\ p # old
      BY <3>2, <1>1
    <3>4. minted'[p] = minted[p] /\ live'[p] = None /\ grace'[p] = grace[p]
      BY <3>1, <3>2, <3>3, <1>1, <1>3 DEF StoreTypeOK
    <3>. QED
      BY <2>2, <3>2, <3>4, <1>1 DEF MintLinks
  <2>. QED
    BY <2>1, <2>2, <1>1 DEF MintLinks
<1>6. ASSUME NEW u \in Users  PROVE IndexLinks(u)'
  <2>1. SUFFICES ASSUME NEW h \in Hashes, Rt(h) \in index'[u]
                 PROVE  minted'[h] # None /\ minted'[h].session.user = u
    BY DEF IndexLinks
  <2>2. CASE Rt(h) \in index[u]
    <3>1. minted[h] # None /\ minted[h].session.user = u
      BY <2>2 DEF IInv, Links, IndexLinks
    <3>. QED
      BY <3>1, <1>1
  <2>3. CASE Rt(h) \notin index[u]
    <3>1. s.user \in Users /\ index \in [Users -> SUBSET Members]
      BY <1>1 DEF Session, StoreTypeOK
    <3>2. u = s.user
      BY <2>1, <2>3, <3>1, <1>3
    <3>3. Rt(h) = Rt(g) \/ Rt(h) = Rp(old)
      BY <2>1, <2>3, <3>1, <3>2, <1>3
    <3>4. h = g
      BY <3>3 DEF Rt, Rp
    <3>. QED
      BY <3>2, <3>4, <1>1
  <2>. QED
    BY <2>2, <2>3
<1>7. Evolves
  <2>1. ASSUME NEW h \in Hashes, minted[h] # None
        PROVE  /\ minted'[h] = minted[h] /\ live'[h] \in {live[h], None}
               /\ live[h] = None /\ grace[h] = None => grace'[h] = None
    <3>1. h # g
      BY <2>1, <1>1
    <3>. QED
      BY <3>1, <1>1, <1>3 DEF StoreTypeOK
  <2>2. epoch' = epoch /\ stamp' = stamp /\ aged' = aged /\ epoch \in [Users -> Nat]
    BY <1>3 DEF StoreTypeOK
  <2>. QED
    BY <2>1, <2>2 DEF Evolves
<1>. QED
  BY <1>4, <1>5, <1>6, <1>7

(* The record a recovery writes is the one the presented hash was minted with. *)
LEMMA RecoveredFacts ==
  ASSUME IInv, NEW r \in Requests, NEW g \in Hashes, RefreshRecover(r, g)
  PROVE  LET old == req[r].hash
             s   == req[r].rec
         IN  /\ old \in Hashes /\ g # old
             /\ live[old] = None /\ grace[old] = None
             /\ s \in Session /\ minted[old] # None /\ s = minted[old].session
             /\ ~req[r].late
             /\ minted[g] = None /\ minted'[g] # None
             /\ minted'[g].session = s /\ minted'[g].from = old /\ minted'[g].by = "recover"
             /\ \A h \in Hashes : h # g => minted'[h] = minted[h]
<1>. DEFINE old == req[r].hash
<1>. DEFINE s == req[r].rec
<1>. StoreTypeOK
  BY DEF IInv, TypeOK
<1>1. /\ old \in Hashes /\ minted[old] # None /\ s = minted[old].session
      /\ live[old] = None /\ grace[old] = None /\ (req[r].late => FALSE)
  BY DEF IInv, Links, RequestLinks, RecoveringLinks, RefreshRecover, At
<1>2. s \in Session
  BY <1>1 DEF StoreTypeOK, Mint
<1>3. [session |-> s, from |-> old, by |-> "recover"] \in Mint
  BY <1>1, <1>2 DEF Mint
<1>4. Fresh(g) /\ Minting(g, s, old, "recover")
  BY DEF RefreshRecover, RecoverGrace, Inherit
<1>5. /\ minted[g] = None /\ minted'[g] # None
      /\ minted'[g].session = s /\ minted'[g].from = old /\ minted'[g].by = "recover"
      /\ \A h \in Hashes : h # g => minted'[h] = minted[h]
  BY <1>3, <1>4, MintedOnce
<1>. QED
  BY <1>1, <1>2, <1>5

LEMMA RecoveredLinks ==
  ASSUME IInv, NEW r \in Requests, NEW g \in Hashes, RefreshRecover(r, g)
  PROVE  /\ (\A h \in Hashes : KeyLinks(h) /\ MintLinks(h))'
         /\ (\A u \in Users : IndexLinks(u))'
         /\ Evolves
<1>. DEFINE old == req[r].hash
<1>. DEFINE s == req[r].rec
<1>. TypeOK /\ StoreTypeOK
  BY DEF IInv, TypeOK
<1>1. /\ old \in Hashes /\ g # old
      /\ live[old] = None /\ grace[old] = None
      /\ s \in Session /\ minted[old] # None /\ s = minted[old].session
      /\ minted[g] = None /\ minted'[g] # None
      /\ minted'[g].session = s /\ minted'[g].from = old /\ minted'[g].by = "recover"
      /\ \A h \in Hashes : h # g => minted'[h] = minted[h]
  BY RecoveredFacts
<1>2. live[g] = None /\ grace[g] = None /\ consumed[g] = None /\ stamp[g] = None
  BY FreshUnused DEF RefreshRecover
<1>3. /\ live' = [live EXCEPT ![g] = s]
      /\ index' = [index EXCEPT ![s.user] = @ \cup {Rt(g)}]
      /\ UNCHANGED <<grace, consumed, epoch, stamp, aged>>
  BY DEF RefreshRecover, RecoverGrace, Inherit
<1>4. ASSUME NEW h \in Hashes  PROVE KeyLinks(h)'
  BY <1>1, <1>2, <1>3 DEF IInv, Links, KeyLinks, TypeOK, StoreTypeOK
<1>5. ASSUME NEW h \in Hashes  PROVE MintLinks(h)'
  <2>1. CASE h = g
    BY <2>1, <1>1, <1>3 DEF MintLinks, StoreTypeOK
  <2>2. CASE h # g /\ minted[h] # None /\ minted[h].from # None
    <3>. DEFINE p == minted[h].from
    <3>1. p \in Hashes
      BY <2>2 DEF StoreTypeOK, Mint
    <3>2. /\ minted[p] # None /\ live[p] = None /\ minted[h].session = minted[p].session
          /\ minted[h].by \in {"rotate", "recover"}
          /\ minted[h].by = "recover" => grace[p] = None
      BY <2>2 DEF IInv, Links, MintLinks
    <3>3. minted'[p] = minted[p] /\ live'[p] = None /\ grace'[p] = grace[p]
      BY <3>1, <3>2, <1>1, <1>3 DEF StoreTypeOK
    <3>. QED
      BY <2>2, <3>2, <3>3, <1>1 DEF MintLinks
  <2>. QED
    BY <2>1, <2>2, <1>1 DEF MintLinks
<1>6. ASSUME NEW u \in Users  PROVE IndexLinks(u)'
  <2>1. SUFFICES ASSUME NEW h \in Hashes, Rt(h) \in index'[u]
                 PROVE  minted'[h] # None /\ minted'[h].session.user = u
    BY DEF IndexLinks
  <2>2. CASE Rt(h) \in index[u]
    <3>1. minted[h] # None /\ minted[h].session.user = u
      BY <2>2 DEF IInv, Links, IndexLinks
    <3>. QED
      BY <3>1, <1>1
  <2>3. CASE Rt(h) \notin index[u]
    <3>1. s.user \in Users /\ index \in [Users -> SUBSET Members]
      BY <1>1 DEF Session, StoreTypeOK
    <3>2. u = s.user /\ Rt(h) = Rt(g)
      BY <2>1, <2>3, <3>1, <1>3
    <3>3. h = g
      BY <3>2 DEF Rt
    <3>. QED
      BY <3>2, <3>3, <1>1
  <2>. QED
    BY <2>2, <2>3
<1>7. Evolves
  BY <1>1, <1>3 DEF Evolves, TypeOK, StoreTypeOK
<1>. QED
  BY <1>4, <1>5, <1>6, <1>7

(* Only the request that minted a hash stamps its access token, once.       *)
LEMMA SignFacts ==
  ASSUME IInv, NEW r \in Requests, RefreshSign(r)
  PROVE  LET g == req[r].hash
         IN  /\ g \in Hashes /\ minted[g] # None /\ stamp[g] = None
             /\ minted[g].session.user \in Users
             /\ stamp' = [stamp EXCEPT ![g] = epoch[minted[g].session.user]]
             /\ UNCHANGED <<storeVars, aged>>
  BY DEF IInv, Links, RequestLinks, SigningLinks, RefreshSign, At, TypeOK, StoreTypeOK,
     Mint, Session

LEMMA SignedLinks ==
  ASSUME IInv, NEW r \in Requests, RefreshSign(r)
  PROVE  /\ (\A h \in Hashes : KeyLinks(h) /\ MintLinks(h))'
         /\ (\A u \in Users : IndexLinks(u))'
         /\ Evolves
<1>. TypeOK /\ StoreTypeOK
  BY DEF IInv, TypeOK
<1>1. ASSUME NEW h \in Hashes  PROVE KeyLinks(h)'
  BY SignFacts DEF IInv, Links, KeyLinks, TypeOK, StoreTypeOK, storeVars
<1>2. ASSUME NEW h \in Hashes  PROVE MintLinks(h)'
  BY SignFacts DEF IInv, Links, MintLinks, storeVars
<1>3. ASSUME NEW u \in Users  PROVE IndexLinks(u)'
  BY SignFacts DEF IInv, Links, IndexLinks, storeVars
<1>4. Evolves
  BY SignFacts DEF Evolves, TypeOK, StoreTypeOK, storeVars
<1>. QED
  BY <1>1, <1>2, <1>3, <1>4

LEMMA BumpedLinks ==
  ASSUME IInv, NEW r \in Requests, RevokeBump(r)
  PROVE  /\ (\A h \in Hashes : KeyLinks(h) /\ MintLinks(h))'
         /\ (\A u \in Users : IndexLinks(u))'
         /\ Evolves
<1>. TypeOK /\ StoreTypeOK
  BY DEF IInv, TypeOK
<1>1. /\ epoch' = [epoch EXCEPT ![req[r].owner] = @ + 1]
      /\ UNCHANGED <<live, grace, consumed, family, index, minted, stamp, aged>>
  BY DEF RevokeBump, BumpEpoch
<1>2. \A u \in Users : epoch[u] \in Nat /\ epoch[u] <= epoch'[u]
  BY <1>1 DEF StoreTypeOK
<1>3. ASSUME NEW h \in Hashes  PROVE KeyLinks(h)'
  <2>1. CASE stamp[h] # None
    <3>1. minted[h] # None /\ minted[h].session.user \in Users /\ stamp[h] \in Nat
      BY <2>1 DEF IInv, Links, KeyLinks, TypeOK, StoreTypeOK, Mint, Session
    <3>2. epoch'[minted[h].session.user] \in Nat
      BY <1>1, <3>1 DEF StoreTypeOK
    <3>. QED
      BY <2>1, <3>1, <3>2, <1>1, <1>2 DEF IInv, Links, KeyLinks
  <2>2. CASE stamp[h] = None
    BY <2>2, <1>1 DEF IInv, Links, KeyLinks
  <2>. QED
    BY <2>1, <2>2
<1>4. ASSUME NEW h \in Hashes  PROVE MintLinks(h)'
  BY <1>1 DEF IInv, Links, MintLinks
<1>5. ASSUME NEW u \in Users  PROVE IndexLinks(u)'
  BY <1>1 DEF IInv, Links, IndexLinks
<1>6. Evolves
  BY <1>1, <1>2 DEF Evolves
<1>. QED
  BY <1>3, <1>4, <1>5, <1>6

(* So at every step the keys agree and minted hashes evolve one way.        *)
LEMMA KeyStep ==
  ASSUME IInv, Next
  PROVE  /\ (\A h \in Hashes : KeyLinks(h) /\ MintLinks(h))'
         /\ (\A u \in Users : IndexLinks(u))'
         /\ Evolves
<1>1. ASSUME NEW f \in Families, Age(f)
      PROVE  Shrinks /\ aged \subseteq aged'
  BY <1>1 DEF Age, storeVars, Shrinks
<1>2. ASSUME NEW r \in Requests, Shrinking(r)
      PROVE  Shrinks /\ aged \subseteq aged'
  BY <1>2, ShrinkingShrinks
<1>3. CASE Housekeeping
  BY <1>3, HousekeepingShrinks, ShrinksKeeps DEF rotationVars
<1>. QED
  BY <1>1, <1>2, <1>3, StepCases, ShrinksKeeps, CreateLinks, RotatedLinks, RecoveredLinks,
     SignedLinks, BumpedLinks

-----------------------------------------------------------------------------
(* What requests know survives the steps of the others.                     *)

Undisturbed(q) ==
  /\ req'[q] = req[q]
  /\ req[q].pc \in {"graced", "recovering"} =>
       \A h \in Hashes : \/ minted'[h] = minted[h]
                         \/ minted'[h].by # "recover"
                         \/ minted'[h].from # req[q].hash
  /\ req[q].pc \in {"pruning", "signing"} => stamp'[req[q].hash] = stamp[req[q].hash]

LEMMA SleepingLinks ==
  ASSUME IInv, Next, NEW q \in Requests, Undisturbed(q)
  PROVE  RequestLinks(q)'
<1>. TypeOK /\ StoreTypeOK /\ req[q] \in Request /\ RequestLinks(q)
  BY DEF IInv, TypeOK, Links
<1>. Evolves
  BY KeyStep
<1>. USE DEF Undisturbed
<1>1. CreatingLinks(req[q])'
  <2>1. CASE req[q].pc = "creating"
    <3>1. /\ req[q].rec \in Session /\ req[q].rec.family \in Families
          /\ req[q].epoch <= epoch[req[q].rec.user]
      BY <2>1 DEF RequestLinks, CreatingLinks
    <3>2. req[q].rec.user \in Users /\ req[q].epoch \in Nat
      BY <3>1 DEF Session, Request
    <3>3. epoch[req[q].rec.user] \in Nat /\ epoch'[req[q].rec.user] \in Nat
          /\ epoch[req[q].rec.user] <= epoch'[req[q].rec.user]
      BY <3>2, TypeStep DEF Evolves, StoreTypeOK, TypeOK
    <3>. QED
      BY <3>1, <3>2, <3>3 DEF CreatingLinks
  <2>. QED
    BY <2>1 DEF CreatingLinks
<1>2. SeededLinks(req[q])'
  BY DEF RequestLinks, SeededLinks, Evolves
<1>3. RecoveringLinks(req[q])'
  <2>1. CASE req[q].pc \in {"graced", "recovering"}
    <3>1. /\ req[q].hash \in Hashes /\ minted[req[q].hash] # None
          /\ req[q].rec = minted[req[q].hash].session
          /\ live[req[q].hash] = None /\ grace[req[q].hash] = None
          /\ \A h \in Hashes : minted[h] # None /\ minted[h].from = req[q].hash
                                 => minted[h].by # "recover"
          /\ req[q].late => req[q].pc = "graced" /\ req[q].rec.family \in aged
      BY <2>1 DEF RequestLinks, RecoveringLinks
    <3>2. \A h \in Hashes : minted'[h] # None /\ minted'[h].from = req[q].hash
                              => minted'[h].by # "recover"
      BY <2>1, <3>1 DEF Evolves
    <3>. QED
      BY <3>1, <3>2 DEF RecoveringLinks, Evolves
  <2>. QED
    BY <2>1 DEF RecoveringLinks
<1>4. SigningLinks(req[q])'
  <2>1. CASE req[q].pc \in {"pruning", "signing"}
    <3>1. /\ req[q].hash \in Hashes /\ minted[req[q].hash] # None
          /\ stamp[req[q].hash] = None
          /\ req[q].rec = minted[req[q].hash].session
          /\ \A h \in req[q].members : minted[h] # None /\ live[h] = None /\ grace[h] = None
      BY <2>1 DEF RequestLinks, SigningLinks
    <3>2. req[q].members \subseteq Hashes
      BY DEF Request
    <3>. QED
      BY <2>1, <3>1, <3>2 DEF SigningLinks, Evolves
  <2>. QED
    BY <2>1 DEF SigningLinks
<1>5. ReuseLinks(req[q])'
  BY DEF RequestLinks, ReuseLinks, FreshFamily, Evolves
<1>6. BumpingLinks(req[q])'
  <2>1. req[q].members \subseteq Hashes
    BY DEF Request
  <2>2. \A h \in Hashes : stamp[h] # None => minted[h] # None
    BY DEF IInv, Links, KeyLinks
  <2>. QED
    BY <2>1, <2>2 DEF RequestLinks, BumpingLinks, Evolves
<1>. QED
  BY <1>1, <1>2, <1>3, <1>4, <1>5, <1>6 DEF RequestLinks

LEMMA IdleLinks ==
  ASSUME NEW r \in Requests, req'[r] = Idle
  PROVE  RequestLinks(r)'
  BY DEF RequestLinks, CreatingLinks, SeededLinks, RecoveringLinks, SigningLinks, ReuseLinks,
     BumpingLinks, Idle

(* A step of one request moves no other. *)
LEMMA OneMoves ==
  ASSUME TypeOK, NEW r \in Requests,
         \/ \E h \in Hashes : LoginCreate(r, h) \/ RefreshRotated(r, h) \/ RefreshRecover(r, h)
         \/ RefreshSign(r) \/ RevokeBump(r) \/ Shrinking(r)
  PROVE  \A q \in Requests : q # r => req'[q] = req[q]
<1>1. \A state : Goto(r, state) => \A q \in Requests : q # r => req'[q] = req[q]
  BY DEF TypeOK, Goto
<1>. QED
  BY <1>1 DEF Shrinking, LoginCreate, RefreshRotated, RefreshRecover, RefreshSign, RevokeBump,
     LoginReadEpoch, RefreshSeed, RefreshGraced, RefreshReused, RefreshInvalid,
     RefreshCheckFamily, RefreshRecoverRefused, PlatformPruneSpent, ReuseReadFamily,
     ReuseResolveOwner, ReuseRevoke, RevokeAllSweep, RevokeOther, Abandon, Finish

(* The step of a request that leaves the store alone or takes keys away     *)
(* leaves the request knowing what its new pc needs.                        *)
LEMMA ShrinkingRequest ==
  ASSUME IInv, NEW r \in Requests, Shrinking(r)
  PROVE  RequestLinks(r)'
<1>. TypeOK /\ StoreTypeOK /\ req[r] \in Request /\ RequestLinks(r)
  BY DEF IInv, TypeOK, Links
<1>1. ASSUME NEW u \in Users, NEW verified \in Verified, LoginReadEpoch(r, u, verified)
      PROVE  RequestLinks(r)'
  <2>1. PICK f \in Families :
          req'[r] = [Idle EXCEPT !.pc = "creating", !.epoch = epoch[u],
                       !.rec = [user |-> u, family |-> f, mfa |-> verified]]
    BY <1>1 DEF LoginReadEpoch, Goto, TypeOK
  <2>2. [user |-> u, family |-> f, mfa |-> verified] \in Session /\ epoch[u] \in Nat
    BY RotationAssumption DEF Session, StoreTypeOK
  <2>3. epoch' = epoch
    BY <1>1 DEF LoginReadEpoch, storeVars
  <2>. QED
    BY <2>1, <2>2, <2>3 DEF Idle, RequestLinks, CreatingLinks, SeededLinks, RecoveringLinks,
       SigningLinks, ReuseLinks, BumpingLinks
<1>2. ASSUME NEW h \in Hashes, RefreshSeed(r, h)
      PROVE  RequestLinks(r)'
  <2>1. /\ req'[r].pc = "seeded" /\ req'[r].hash = h /\ req'[r].rec = SeedOf(h)
        /\ req'[r].late = (minted[h].session.family \in aged)
    BY <1>2 DEF RefreshSeed, Goto, TypeOK, Idle
  <2>2. minted[h] # None /\ SeedOf(h).family \notin aged
    BY <1>2 DEF RefreshSeed, Fresh, WithinLifetime
  <2>3. minted[h].session.family \in aged => live[h] = None
    BY <2>2 DEF SeedOf, IsLive, IInv, Links, KeyLinks
  <2>4. UNCHANGED <<live, minted, aged>>
    BY <1>2 DEF RefreshSeed, storeVars
  <2>5. SeededLinks(req[r])'
    BY <2>1, <2>2, <2>3, <2>4 DEF SeededLinks, SeedOf, IsLive
  <2>. QED
    BY <2>1, <2>5 DEF RequestLinks, CreatingLinks, RecoveringLinks, SigningLinks,
       ReuseLinks, BumpingLinks
<1>3. CASE RefreshGraced(r)
  <2>. DEFINE old == req[r].hash
  <2>1. /\ old \in Hashes /\ minted[old] # None
        /\ req[r].late => minted[old].session.family \in aged
    BY <1>3 DEF RequestLinks, SeededLinks, RefreshGraced, At
  <2>2. live[old] = None /\ grace[old] # None /\ grace[old].session = minted[old].session
    BY <1>3, <2>1 DEF RefreshGraced, RotateGrace, IsLive, PointerRecovers, IInv, Links, KeyLinks
  <2>3. /\ grace'[old] = None /\ UNCHANGED <<live, minted, aged>>
    BY <1>3, <2>1 DEF RefreshGraced, RotateGrace, SpendPointer, StoreTypeOK
  <2>4. /\ req'[r].pc = "graced" /\ req'[r].hash = old
        /\ req'[r].rec = minted[old].session /\ req'[r].late = req[r].late
    BY <1>3, <2>2 DEF RefreshGraced, Goto, TypeOK, Request
  <2>5. \A h \in Hashes : minted[h] # None /\ minted[h].from = old => minted[h].by # "recover"
    BY <2>1, <2>2, NoneAssumption DEF IInv, Links, MintLinks
  <2>6. RecoveringLinks(req[r])'
    BY <2>1, <2>2, <2>3, <2>4, <2>5 DEF RecoveringLinks
  <2>. QED
    BY <2>4, <2>6 DEF RequestLinks, CreatingLinks, SeededLinks, SigningLinks, ReuseLinks,
       BumpingLinks
<1>4. CASE RefreshReused(r)
  <2>1. /\ req[r].hash \in Hashes /\ consumed[req[r].hash] # None
        /\ consumed[req[r].hash] \in Families
        /\ ~FreshFamily(consumed[req[r].hash])
    BY <1>4 DEF RequestLinks, SeededLinks, RefreshReused, RotateReused, At, StoreTypeOK,
       IInv, Links, KeyLinks, FreshFamily
  <2>2. /\ req'[r].pc = "reusing" /\ req'[r].rec.family = consumed[req[r].hash]
        /\ minted' = minted
    BY <1>4 DEF RefreshReused, RotateReused, Goto, TypeOK, Idle, Placeholder
  <2>. QED
    BY <2>1, <2>2 DEF RequestLinks, CreatingLinks, SeededLinks, RecoveringLinks, SigningLinks,
       ReuseLinks, BumpingLinks, FreshFamily
<1>5. CASE RefreshInvalid(r) \/ RefreshRecoverRefused(r) \/ ReuseRevoke(r) \/ Abandon(r)
  <2>1. req'[r] = Idle
    BY <1>5 DEF RefreshInvalid, RefreshRecoverRefused, ReuseRevoke, Abandon, Finish, Goto, TypeOK
  <2>. QED
    BY <2>1, IdleLinks
<1>6. CASE RefreshCheckFamily(r)
  <2>1. UNCHANGED <<live, grace, minted, aged>>
    BY <1>6 DEF RefreshCheckFamily, storeVars
  <2>2. CASE RecoverAllowed(req[r].rec)
    <3>1. /\ req'[r].pc = "recovering" /\ req'[r].hash = req[r].hash
          /\ req'[r].rec = req[r].rec /\ req'[r].late = req[r].late
      BY <1>6, <2>2 DEF RefreshCheckFamily, Goto, TypeOK, Request
    <3>2. req[r].rec.family \notin aged /\ req[r].pc = "graced"
      BY <1>6, <2>2 DEF RefreshCheckFamily, RecoverAllowed, WithinLifetime, At
    <3>3. RecoveringLinks(req[r])'
      BY <3>1, <3>2, <2>1 DEF RequestLinks, RecoveringLinks
    <3>. QED
      BY <3>1, <3>3 DEF RequestLinks, CreatingLinks, SeededLinks, SigningLinks, ReuseLinks,
         BumpingLinks
  <2>3. CASE ~RecoverAllowed(req[r].rec)
    BY <1>6, <2>3, IdleLinks DEF RefreshCheckFamily, Finish, Goto, TypeOK
  <2>. QED
    BY <2>2, <2>3
<1>7. CASE PlatformPruneSpent(r)
  <2>1. /\ req'[r].pc = "signing" /\ req'[r].hash = req[r].hash /\ req'[r].rec = req[r].rec
        /\ req'[r].members = {} /\ req[r].pc = "pruning"
        /\ UNCHANGED <<minted, stamp>>
    BY <1>7 DEF PlatformPruneSpent, Goto, TypeOK, Request, At
  <2>. QED
    BY <2>1 DEF RequestLinks, CreatingLinks, SeededLinks, RecoveringLinks, SigningLinks,
       ReuseLinks, BumpingLinks
<1>8. CASE ReuseReadFamily(r) \/ ReuseResolveOwner(r)
  <2>1. /\ req'[r].pc = "owning" /\ req'[r].rec = req[r].rec
        /\ req[r].pc \in {"reusing", "owning"} /\ minted' = minted
    <3>1. CASE ReuseReadFamily(r)
      BY <3>1 DEF ReuseReadFamily, Goto, TypeOK, Request, At, storeVars
    <3>2. CASE ReuseResolveOwner(r)
      <4>1. \/ req' = [req EXCEPT ![r] = [req[r] EXCEPT !.members = {}]]
            \/ \E u \in Users : req' = [req EXCEPT ![r] = [req[r] EXCEPT !.members = {}, !.owner = u]]
        BY <3>2 DEF ReuseResolveOwner, Goto, OwnersOf, IsLive, StoreTypeOK, Session, Request
      <4>2. req[r].pc = "owning" /\ minted' = minted
        BY <3>2 DEF ReuseResolveOwner, At, storeVars
      <4>3. req'[r].pc = req[r].pc /\ req'[r].rec = req[r].rec
        BY <4>1 DEF TypeOK, Request
      <4>. QED
        BY <4>2, <4>3
    <3>. QED
      BY <1>8, <3>1, <3>2
  <2>. QED
    BY <2>1 DEF RequestLinks, CreatingLinks, SeededLinks, RecoveringLinks, SigningLinks,
       ReuseLinks, BumpingLinks, FreshFamily
<1>9. ASSUME NEW u \in Users, RevokeAllSweep(r, u)
      PROVE  RequestLinks(r)'
  <2>1. /\ req'[r].pc = "bumping" /\ req'[r].owner = u /\ req'[r].members = Issued(LiveOf(u))
        /\ UNCHANGED <<minted, stamp>>
    BY <1>9 DEF RevokeAllSweep, SweepIndex, Goto, TypeOK, Idle
  <2>2. \A h \in Issued(LiveOf(u)) : stamp[h] # None /\ minted[h].session.user = u
    BY DEF Issued, LiveOf, IInv, Links, KeyLinks
  <2>. QED
    BY <2>1, <2>2 DEF RequestLinks, CreatingLinks, SeededLinks, RecoveringLinks, SigningLinks,
       ReuseLinks, BumpingLinks
<1>10. ASSUME NEW u \in Users, NEW h \in Hashes, RevokeOther(r, u, h)
       PROVE  RequestLinks(r)'
  <2>1. /\ req'[r].pc = "bumping" /\ req'[r].owner = u /\ req'[r].members = Issued({h})
        /\ UNCHANGED <<minted, stamp>>
    BY <1>10 DEF RevokeOther, RevokeSession, Goto, TypeOK, Idle
  <2>2. \A g \in Issued({h}) : stamp[g] # None /\ minted[g].session.user = u
    BY <1>10 DEF Issued, RevokeOther, RevokeSession, IInv, Links, IndexLinks
  <2>. QED
    BY <2>1, <2>2 DEF RequestLinks, CreatingLinks, SeededLinks, RecoveringLinks, SigningLinks,
       ReuseLinks, BumpingLinks
<1>. QED
  BY <1>1, <1>2, <1>3, <1>4, <1>5, <1>6, <1>7, <1>8, <1>9, <1>10 DEF Shrinking

(* What every request knows, after any step.                                *)
LEMMA RequestStep ==
  ASSUME IInv, Next
  PROVE  (\A q \in Requests : RequestLinks(q))'
<1>. TypeOK /\ StoreTypeOK
  BY DEF IInv, TypeOK
<1>1. ASSUME NEW r \in Requests, NEW g \in Hashes, LoginCreate(r, g), NEW q \in Requests
      PROVE  RequestLinks(q)'
  <2>1. /\ minted[g] = None /\ req'[r] = Idle
        /\ minted' = [minted EXCEPT ![g] = [session |-> req[r].rec, from |-> None, by |-> "login"]]
        /\ stamp' = [stamp EXCEPT ![g] = req[r].epoch]
    BY <1>1 DEF LoginCreate, CreateSession, Minting, Fresh, Finish, Goto, TypeOK
  <2>2. CASE q = r
    BY <2>1, <2>2, IdleLinks
  <2>3. CASE q # r
    <3>1. req'[q] = req[q]
      BY <1>1, <2>3, OneMoves
    <3>2. req[q].pc \in {"pruning", "signing"} => stamp'[req[q].hash] = stamp[req[q].hash]
      BY <2>1 DEF IInv, Links, RequestLinks, SigningLinks, TypeOK
    <3>3. \A h \in Hashes : minted'[h] # minted[h] => minted'[h].by = "login"
      BY <2>1 DEF StoreTypeOK
    <3>4. Undisturbed(q)
      BY <3>1, <3>2, <3>3 DEF Undisturbed
    <3>. QED
      BY <3>4, SleepingLinks
  <2>. QED
    BY <2>2, <2>3
<1>2. ASSUME NEW r \in Requests, NEW g \in Hashes, RefreshRotated(r, g), NEW q \in Requests
      PROVE  RequestLinks(q)'
  <2>1. /\ g \in Hashes /\ minted'[g] # None /\ minted'[g].by = "rotate"
        /\ minted'[g].session = req[r].rec
        /\ \A h \in Hashes : h # g => minted'[h] = minted[h]
        /\ stamp[g] = None /\ stamp' = stamp
    BY <1>2, RotatedFacts, FreshUnused DEF RefreshRotated
  <2>2. CASE q = r
    <3>1. /\ req'[r].pc = "signing" /\ req'[r].hash = g /\ req'[r].rec = req[r].rec
          /\ req'[r].members = {}
      BY <1>2 DEF RefreshRotated, Goto, TypeOK, Idle
    <3>. QED
      BY <2>1, <2>2, <3>1 DEF RequestLinks, CreatingLinks, SeededLinks, RecoveringLinks,
         SigningLinks, ReuseLinks, BumpingLinks
  <2>3. CASE q # r
    <3>1. Undisturbed(q)
      BY <1>2, <2>1, <2>3, OneMoves DEF Undisturbed
    <3>. QED
      BY <3>1, SleepingLinks
  <2>. QED
    BY <2>2, <2>3
<1>3. ASSUME NEW r \in Requests, NEW g \in Hashes, RefreshRecover(r, g), NEW q \in Requests
      PROVE  RequestLinks(q)'
  <2>1. /\ req[r].hash \in Hashes /\ minted[req[r].hash] # None /\ g # req[r].hash
        /\ live[req[r].hash] = None /\ grace[req[r].hash] = None
        /\ minted'[g] # None /\ minted'[g].from = req[r].hash
        /\ minted'[g].session = req[r].rec
        /\ \A h \in Hashes : h # g => minted'[h] = minted[h]
    BY <1>3, RecoveredFacts
  <2>2. stamp[g] = None /\ stamp' = stamp
    BY <1>3, FreshUnused DEF RefreshRecover
  <2>3. CASE q = r
    <3>1. /\ req'[r].pc \in {"pruning", "signing"} /\ req'[r].hash = g
          /\ req'[r].rec = req[r].rec /\ req'[r].members \subseteq {req[r].hash}
      BY <1>3 DEF RefreshRecover, Goto, TypeOK, Idle
    <3>2. live'[req[r].hash] = None /\ grace'[req[r].hash] = None
      BY <1>3, <2>1 DEF RefreshRecover, RecoverGrace, StoreTypeOK
    <3>. QED
      BY <2>1, <2>2, <2>3, <3>1, <3>2 DEF RequestLinks, CreatingLinks, SeededLinks,
         RecoveringLinks, SigningLinks, ReuseLinks, BumpingLinks
  <2>4. CASE q # r
    <3>1. req[q].pc \in {"graced", "recovering"} => req[q].hash # req[r].hash
      BY <1>3, <2>4 DEF IInv, Links, OneHolder, RefreshRecover, At
    <3>2. Undisturbed(q)
      BY <1>3, <2>1, <2>2, <2>4, <3>1, OneMoves DEF Undisturbed
    <3>. QED
      BY <3>2, SleepingLinks
  <2>. QED
    BY <2>3, <2>4
<1>4. ASSUME NEW r \in Requests, RefreshSign(r), NEW q \in Requests
      PROVE  RequestLinks(q)'
  <2>1. CASE q = r
    BY <1>4, <2>1, IdleLinks DEF RefreshSign, Finish, Goto, TypeOK
  <2>2. CASE q # r
    <3>1. req[q].pc \in {"pruning", "signing"} => req[q].hash # req[r].hash /\ req[q].hash \in Hashes
      BY <1>4, <2>2 DEF IInv, Links, OneHolder, RefreshSign, At, RequestLinks, SigningLinks
    <3>2. minted' = minted
      BY <1>4 DEF RefreshSign, storeVars
    <3>3. req[q].pc \in {"pruning", "signing"} => stamp'[req[q].hash] = stamp[req[q].hash]
      BY <1>4, <3>1, SignFacts DEF TypeOK
    <3>4. Undisturbed(q)
      BY <1>4, <2>2, <3>2, <3>3, OneMoves DEF Undisturbed
    <3>. QED
      BY <3>4, SleepingLinks
  <2>. QED
    BY <2>1, <2>2
<1>5. ASSUME NEW r \in Requests, RevokeBump(r), NEW q \in Requests
      PROVE  RequestLinks(q)'
  <2>1. CASE q = r
    BY <1>5, <2>1, IdleLinks DEF RevokeBump, Finish, Goto, TypeOK
  <2>2. minted' = minted /\ stamp' = stamp
    BY <1>5 DEF RevokeBump, BumpEpoch
  <2>3. CASE q # r
    <3>1. Undisturbed(q)
      BY <1>5, <2>2, <2>3, OneMoves DEF Undisturbed
    <3>. QED
      BY <3>1, SleepingLinks
  <2>. QED
    BY <2>1, <2>3
<1>6. ASSUME NEW r \in Requests, Shrinking(r), NEW q \in Requests
      PROVE  RequestLinks(q)'
  <2>1. minted' = minted /\ stamp' = stamp
    BY <1>6, ShrinkingShrinks DEF Shrinks
  <2>2. CASE q # r
    <3>1. Undisturbed(q)
      BY <1>6, <2>1, <2>2, OneMoves DEF Undisturbed
    <3>. QED
      BY <3>1, SleepingLinks
  <2>. QED
    BY <1>6, <2>2, ShrinkingRequest
<1>7. ASSUME (\E f \in Families : Age(f)) \/ Housekeeping, NEW q \in Requests
      PROVE  RequestLinks(q)'
  <2>1. minted' = minted /\ stamp' = stamp /\ req' = req
    BY <1>7, HousekeepingShrinks DEF Shrinks, Age, storeVars, rotationVars
  <2>2. Undisturbed(q)
    BY <2>1 DEF Undisturbed
  <2>. QED
    BY <2>2, SleepingLinks
<1>. QED
  BY <1>1, <1>2, <1>3, <1>4, <1>5, <1>6, <1>7, StepCases

(* No two requests ever hold the same spent pointer or the same new hash.   *)
LEMMA HolderStep ==
  ASSUME IInv, Next
  PROVE  (\A q, r \in Requests : OneHolder(q, r))'
<1>. TypeOK /\ StoreTypeOK /\ \A q, r \in Requests : OneHolder(q, r)
  BY DEF IInv, TypeOK, Links
<1>. DEFINE Holds(pc) == IF pc \in {"graced", "recovering"} THEN "pointer"
                         ELSE IF pc \in {"pruning", "signing"} THEN "hash" ELSE "nothing"
<1>1. ASSUME NEW r \in Requests,
             \A q \in Requests : q # r => req'[q] = req[q],
             Holds(req'[r].pc) = "nothing"
      PROVE  (\A q, p \in Requests : OneHolder(q, p))'
  BY <1>1 DEF OneHolder
<1>2. ASSUME NEW r \in Requests,
             \A q \in Requests : q # r => req'[q] = req[q],
             Holds(req'[r].pc) = Holds(req[r].pc) /\ req'[r].hash = req[r].hash
      PROVE  (\A q, p \in Requests : OneHolder(q, p))'
  BY <1>2 DEF OneHolder
<1>3. ASSUME NEW r \in Requests,
             \A q \in Requests : q # r => req'[q] = req[q],
             \A q \in Requests : Holds(req[q].pc) = Holds(req'[r].pc)
                                   => req[q].hash # req'[r].hash
      PROVE  (\A q, p \in Requests : OneHolder(q, p))'
  BY <1>3 DEF OneHolder
<1>4. ASSUME NEW r \in Requests,
             \/ \E h \in Hashes : LoginCreate(r, h) \/ RefreshSeed(r, h)
             \/ \E u \in Users, v \in Verified : LoginReadEpoch(r, u, v)
             \/ \E u \in Users : RevokeAllSweep(r, u) \/ \E h \in Hashes : RevokeOther(r, u, h)
             \/ RefreshSign(r) \/ RevokeBump(r) \/ RefreshReused(r) \/ RefreshInvalid(r)
             \/ RefreshRecoverRefused(r) \/ ReuseReadFamily(r) \/ ReuseResolveOwner(r)
             \/ ReuseRevoke(r) \/ Abandon(r)
      PROVE  Holds(req'[r].pc) = "nothing"
  <2>1. CASE \/ \E h \in Hashes : LoginCreate(r, h)
             \/ RefreshSign(r) \/ RevokeBump(r) \/ RefreshInvalid(r)
             \/ RefreshRecoverRefused(r) \/ ReuseRevoke(r) \/ Abandon(r)
    <3>1. req' = [req EXCEPT ![r] = Idle]
      BY <2>1 DEF LoginCreate, RefreshSign, RevokeBump, RefreshInvalid, RefreshRecoverRefused,
         ReuseRevoke, Abandon, Finish, Goto
    <3>. QED
      BY <3>1 DEF TypeOK, Idle
  <2>2. ASSUME NEW h \in Hashes, RefreshSeed(r, h)
        PROVE  req'[r].pc = "seeded"
    BY <2>2 DEF RefreshSeed, Goto, TypeOK, Idle
  <2>3. ASSUME NEW u \in Users, NEW v \in Verified, LoginReadEpoch(r, u, v)
        PROVE  req'[r].pc = "creating"
    BY <2>3 DEF LoginReadEpoch, Goto, TypeOK, Idle
  <2>4. ASSUME NEW u \in Users, RevokeAllSweep(r, u)
        PROVE  req'[r].pc = "bumping"
    BY <2>4 DEF RevokeAllSweep, Goto, TypeOK, Idle
  <2>5. ASSUME NEW u \in Users, NEW h \in Hashes, RevokeOther(r, u, h)
        PROVE  req'[r].pc = "bumping"
    BY <2>5 DEF RevokeOther, Goto, TypeOK, Idle
  <2>6. ASSUME RefreshReused(r)
        PROVE  req'[r].pc = "reusing"
    BY <2>6 DEF RefreshReused, Goto, TypeOK, Idle
  <2>7. ASSUME ReuseReadFamily(r)
        PROVE  req'[r].pc = "owning"
    BY <2>7 DEF ReuseReadFamily, Goto, TypeOK, Request
  <2>8. ASSUME ReuseResolveOwner(r)
        PROVE  req'[r].pc = "owning"
    <3>1. \/ req' = [req EXCEPT ![r] = [req[r] EXCEPT !.members = {}]]
          \/ \E u \in OwnersOf(req[r].members) :
               req' = [req EXCEPT ![r] = [req[r] EXCEPT !.members = {}, !.owner = u]]
      BY <2>8 DEF ReuseResolveOwner, Goto
    <3>. QED
      BY <2>8, <3>1 DEF ReuseResolveOwner, At, TypeOK, Request
  <2>. QED
    BY <1>4, <2>1, <2>2, <2>3, <2>4, <2>5, <2>6, <2>7, <2>8
<1>5. ASSUME NEW r \in Requests, RefreshGraced(r)
      PROVE  /\ req'[r].pc = "graced" /\ req'[r].hash = req[r].hash
             /\ \A q \in Requests : Holds(req[q].pc) = "pointer" => req[q].hash # req[r].hash
  BY <1>5 DEF RefreshGraced, RotateGrace, PointerRecovers, Goto, TypeOK, Request,
     IInv, Links, RequestLinks, RecoveringLinks
<1>6. ASSUME NEW r \in Requests, NEW g \in Hashes, RefreshRotated(r, g) \/ RefreshRecover(r, g)
      PROVE  /\ req'[r].pc \in {"pruning", "signing"} /\ req'[r].hash = g
             /\ \A q \in Requests : Holds(req[q].pc) = "hash" => req[q].hash # g
  <2>1. req'[r].pc \in {"pruning", "signing"} /\ req'[r].hash = g
    <3>1. CASE RefreshRotated(r, g)
      BY <3>1 DEF RefreshRotated, Goto, TypeOK, Idle
    <3>2. CASE RefreshRecover(r, g)
      BY <3>2 DEF RefreshRecover, Goto, TypeOK, Idle
    <3>. QED
      BY <1>6, <3>1, <3>2
  <2>2. minted[g] = None
    BY <1>6 DEF RefreshRotated, RefreshRecover, Fresh
  <2>. QED
    BY <2>1, <2>2 DEF IInv, Links, RequestLinks, SigningLinks
<1>7. ASSUME NEW r \in Requests, RefreshCheckFamily(r) \/ PlatformPruneSpent(r)
      PROVE  \/ Holds(req'[r].pc) = "nothing"
             \/ Holds(req'[r].pc) = Holds(req[r].pc) /\ req'[r].hash = req[r].hash
  <2>1. CASE RefreshCheckFamily(r)
    <3>1. \/ req' = [req EXCEPT ![r] = [req[r] EXCEPT !.pc = "recovering"]]
          \/ req' = [req EXCEPT ![r] = Idle]
      BY <2>1 DEF RefreshCheckFamily, Finish, Goto
    <3>. QED
      BY <2>1, <3>1 DEF RefreshCheckFamily, At, TypeOK, Request, Idle
  <2>2. CASE PlatformPruneSpent(r)
    BY <2>2 DEF PlatformPruneSpent, Goto, TypeOK, Request, At
  <2>. QED
    BY <1>7, <2>1, <2>2
<1>8. CASE (\E f \in Families : Age(f)) \/ Housekeeping
  BY <1>8 DEF Age, Housekeeping, rotationVars, OneHolder
<1>9. ASSUME NEW r \in Requests, Shrinking(r)
      PROVE  (\A q, p \in Requests : OneHolder(q, p))'
  <2>1. \A q \in Requests : q # r => req'[q] = req[q]
    BY <1>9, OneMoves
  <2>2. CASE RefreshGraced(r)
    BY <2>1, <2>2, <1>3, <1>5
  <2>3. CASE RefreshCheckFamily(r) \/ PlatformPruneSpent(r)
    BY <2>1, <2>3, <1>1, <1>2, <1>7
  <2>4. CASE ~RefreshGraced(r) /\ ~RefreshCheckFamily(r) /\ ~PlatformPruneSpent(r)
    <3>1. Holds(req'[r].pc) = "nothing"
      BY <1>9, <2>4, <1>4 DEF Shrinking
    <3>. QED
      BY <2>1, <3>1, <1>1
  <2>. QED
    BY <2>2, <2>3, <2>4
<1>10. ASSUME NEW r \in Requests,
              \/ \E h \in Hashes : LoginCreate(r, h) \/ RefreshRotated(r, h) \/ RefreshRecover(r, h)
              \/ RefreshSign(r) \/ RevokeBump(r)
       PROVE  (\A q, p \in Requests : OneHolder(q, p))'
  <2>1. \A q \in Requests : q # r => req'[q] = req[q]
    BY <1>10, OneMoves
  <2>2. CASE \E h \in Hashes : RefreshRotated(r, h) \/ RefreshRecover(r, h)
    BY <2>1, <2>2, <1>3, <1>6
  <2>3. CASE (\E h \in Hashes : LoginCreate(r, h)) \/ RefreshSign(r) \/ RevokeBump(r)
    BY <2>1, <2>3, <1>1, <1>4
  <2>. QED
    BY <1>10, <2>2, <2>3
<1>. QED
  BY <1>8, <1>9, <1>10, StepCases

-----------------------------------------------------------------------------
(* The indexes name every key that lives.                                   *)

LEMMA CreateIndexed ==
  ASSUME IInv, NEW r \in Requests, NEW g \in Hashes, LoginCreate(r, g)
  PROVE  /\ Indexed'
         /\ (\A u \in Users : SweptLinks(u))'
         /\ (\A f \in Families : RevokedLinks(f))'
<1>. DEFINE s == req[r].rec
<1>. TypeOK /\ StoreTypeOK /\ Indexed
  BY DEF IInv, TypeOK
<1>1. s \in Session /\ s.family \in Families /\ FreshFamily(s.family)
  BY DEF IInv, Links, RequestLinks, CreatingLinks, LoginCreate, At
<1>2. /\ live' = [live EXCEPT ![g] = s]
      /\ index' = [index EXCEPT ![s.user] = @ \cup {Rt(g)}]
      /\ family' = [f \in Families |-> IF f = s.family THEN family[f] \cup {g} ELSE family[f]]
      /\ UNCHANGED <<grace, revoked>>
      /\ signedOut' = signedOut \ {s.user}
  BY DEF LoginCreate, CreateSession, JoinFamily
<1>3. LiveIndexed' /\ GraceIndexed'
  BY <1>1, <1>2 DEF Indexed, LiveIndexed, GraceIndexed, StoreTypeOK, Session, Pointer
<1>4. LiveInFamily'
  BY <1>1, <1>2 DEF Indexed, LiveInFamily, StoreTypeOK, Session
<1>5. (\A u \in Users : SweptLinks(u))'
  BY <1>1, <1>2 DEF IInv, Links, SweptLinks, StoreTypeOK, Session
<1>6. ASSUME NEW f \in Families  PROVE RevokedLinks(f)'
  BY <1>1, <1>2, CreateLinks DEF IInv, Links, RevokedLinks, FreshFamily, Evolves
<1>. QED
  BY <1>3, <1>4, <1>5, <1>6 DEF Indexed

LEMMA RotatedIndexed ==
  ASSUME IInv, NEW r \in Requests, NEW g \in Hashes, RefreshRotated(r, g)
  PROVE  /\ Indexed'
         /\ (\A u \in Users : SweptLinks(u))'
         /\ (\A f \in Families : RevokedLinks(f))'
<1>. DEFINE old == req[r].hash
<1>. DEFINE s == req[r].rec
<1>. TypeOK /\ StoreTypeOK /\ Indexed
  BY DEF IInv, TypeOK
<1>1. /\ old \in Hashes /\ g # old
      /\ live[old] = s /\ s \in Session /\ live[old] # None
  BY RotatedFacts
<1>2. live[g] = None /\ grace[g] = None
  BY FreshUnused DEF RefreshRotated
<1>3. /\ live' = [live EXCEPT ![g] = s, ![old] = None]
      /\ grace' = IF GraceOn THEN [grace EXCEPT ![old] = [to |-> g, session |-> s]] ELSE grace
      /\ index' = [index EXCEPT ![s.user] = ((@ \ {Rt(old)}) \cup {Rt(g)})
                                  \cup (IF GraceOn THEN {Rp(old)} ELSE {})]
      /\ family' = [f \in Families |->
                      IF f = s.family THEN (family[f] \ {old}) \cup {g} ELSE family[f]]
      /\ UNCHANGED <<revoked, signedOut>>
  BY DEF RefreshRotated, RotateLive, Inherit, MoveIndexMember, MoveFamilyMember
<1>4. LiveIndexed'
  BY <1>1, <1>2, <1>3 DEF Indexed, LiveIndexed, StoreTypeOK, Session, Rt, Rp
<1>5. GraceIndexed'
  BY <1>1, <1>2, <1>3 DEF Indexed, GraceIndexed, StoreTypeOK, Session, Pointer, Rt, Rp
<1>6. LiveInFamily'
  BY <1>1, <1>2, <1>3 DEF Indexed, LiveInFamily, StoreTypeOK, Session
<1>7. index[s.user] # {} /\ s.user \in Users
  BY <1>1 DEF Indexed, LiveIndexed, Session
<1>8. (\A u \in Users : SweptLinks(u))'
  BY <1>3, <1>7 DEF IInv, Links, SweptLinks, StoreTypeOK
<1>9. \A f \in Families : f = s.family => family[f] # {}
  BY <1>1, StoreAssumption DEF Indexed, LiveInFamily
<1>10. ASSUME NEW f \in Families  PROVE RevokedLinks(f)'
  BY <1>3, <1>9, RotatedLinks DEF IInv, Links, RevokedLinks, FreshFamily, Evolves
<1>. QED
  BY <1>4, <1>5, <1>6, <1>8, <1>10 DEF Indexed

LEMMA RecoveredIndexed ==
  ASSUME IInv, NEW r \in Requests, NEW g \in Hashes, RefreshRecover(r, g)
  PROVE  /\ Indexed'
         /\ (\A u \in Users : SweptLinks(u))'
         /\ (\A f \in Families : RevokedLinks(f))'
<1>. DEFINE s == req[r].rec
<1>. TypeOK /\ StoreTypeOK /\ Indexed
  BY DEF IInv, TypeOK
<1>1. s \in Session
  BY RecoveredFacts
<1>2. /\ live' = [live EXCEPT ![g] = s]
      /\ index' = [index EXCEPT ![s.user] = @ \cup {Rt(g)}]
      /\ family' = [f \in Families |-> IF f = s.family THEN family[f] \cup {g} ELSE family[f]]
      /\ UNCHANGED <<grace, revoked, signedOut>>
      /\ index[s.user] # {}
      /\ s.family \in Families => family[s.family] # {}
  BY DEF RefreshRecover, RecoverGrace, JoinFamily, Inherit, MayRecover, FamilyExists
<1>3. LiveIndexed' /\ GraceIndexed'
  BY <1>1, <1>2 DEF Indexed, LiveIndexed, GraceIndexed, StoreTypeOK, Session, Pointer
<1>4. LiveInFamily'
  BY <1>1, <1>2 DEF Indexed, LiveInFamily, StoreTypeOK, Session
<1>5. (\A u \in Users : SweptLinks(u))'
  BY <1>1, <1>2 DEF IInv, Links, SweptLinks, StoreTypeOK, Session
<1>6. ASSUME NEW f \in Families  PROVE RevokedLinks(f)'
  BY <1>1, <1>2, RecoveredLinks DEF IInv, Links, RevokedLinks, FreshFamily, Evolves
<1>. QED
  BY <1>3, <1>4, <1>5, <1>6 DEF Indexed

(* Where keys are only taken away, the index loses no member whose key      *)
(* stays: each removal names exactly the keys that go with it.              *)
LEMMA ShrinkingIndexed ==
  ASSUME IInv, NEW r \in Requests, Shrinking(r)
  PROVE  Indexed'
<1>. TypeOK /\ StoreTypeOK /\ Indexed /\ LiveIndexed /\ GraceIndexed /\ LiveInFamily
  BY DEF IInv, TypeOK, Indexed
<1>1. ASSUME index' = index /\ family' = family
      PROVE  Indexed'
  <2>1. Shrinks
    BY ShrinkingShrinks
  <2>. QED
    BY <1>1, <2>1 DEF Shrinks, Indexed, LiveIndexed, GraceIndexed, LiveInFamily
<1>2. CASE PlatformPruneSpent(r)
  <2>1. /\ index' = [index EXCEPT ![req[r].rec.user] = @ \ {Rp(h) : h \in req[r].members}]
        /\ UNCHANGED <<live, grace, family>>
    BY <1>2 DEF PlatformPruneSpent
  <2>2. \A h \in req[r].members : grace[h] = None
    BY <1>2 DEF PlatformPruneSpent, At, IInv, Links, RequestLinks, SigningLinks
  <2>3. LiveIndexed' /\ GraceIndexed'
    BY <2>1, <2>2 DEF LiveIndexed, GraceIndexed, StoreTypeOK, Session, Pointer, Rt, Rp
  <2>. QED
    BY <2>1, <2>3 DEF Indexed, LiveInFamily
<1>3. CASE ReuseRevoke(r)
  <2>. DEFINE f == req[r].rec.family
  <2>1. f \in Families
    BY <1>3 DEF ReuseRevoke, At, IInv, Links, RequestLinks, ReuseLinks
  <2>2. /\ live' = [h \in Hashes |-> IF h \in family[f] THEN None ELSE live[h]]
        /\ index' = [u \in Users |->
                       IF u = req[r].owner THEN index[u] \ {Rt(h) : h \in family[f]}
                                           ELSE index[u]]
        /\ family' = [family EXCEPT ![f] = {}] /\ grace' = grace
    BY <1>3 DEF ReuseRevoke, RevokeFamily
  <2>3. LiveIndexed' /\ GraceIndexed'
    BY <2>1, <2>2 DEF LiveIndexed, GraceIndexed, StoreTypeOK, Session, Pointer, Rt, Rp
  <2>4. LiveInFamily'
    BY <2>1, <2>2 DEF LiveInFamily, StoreTypeOK
  <2>. QED
    BY <2>3, <2>4 DEF Indexed
<1>4. ASSUME NEW u \in Users, RevokeAllSweep(r, u)
      PROVE  Indexed'
  <2>1. /\ live' = [h \in Hashes |-> IF Rt(h) \in index[u] THEN None ELSE live[h]]
        /\ grace' = [h \in Hashes |-> IF Rp(h) \in index[u] THEN None ELSE grace[h]]
        /\ index' = [index EXCEPT ![u] = {}] /\ family' = family
    BY <1>4 DEF RevokeAllSweep, SweepIndex
  <2>2. LiveIndexed' /\ GraceIndexed'
    BY <2>1 DEF LiveIndexed, GraceIndexed, StoreTypeOK, Session, Pointer
  <2>. QED
    BY <2>1, <2>2 DEF Indexed, LiveInFamily
<1>5. ASSUME NEW u \in Users, NEW h \in Hashes, RevokeOther(r, u, h)
      PROVE  Indexed'
  <2>1. /\ live' = [live EXCEPT ![h] = None]
        /\ index' = [index EXCEPT ![u] = @ \ {Rt(h)}]
        /\ UNCHANGED <<grace, family>>
    BY <1>5 DEF RevokeOther, RevokeSession
  <2>2. LiveIndexed' /\ GraceIndexed'
    BY <2>1 DEF LiveIndexed, GraceIndexed, StoreTypeOK, Session, Pointer, Rt, Rp
  <2>. QED
    BY <2>1, <2>2 DEF Indexed, LiveInFamily, StoreTypeOK
<1>6. CASE ~PlatformPruneSpent(r) /\ ~ReuseRevoke(r)
           /\ \A u \in Users : ~RevokeAllSweep(r, u) /\ \A h \in Hashes : ~RevokeOther(r, u, h)
  BY <1>1, <1>6 DEF Shrinking, LoginReadEpoch, RefreshSeed, RefreshGraced, RotateGrace,
     RefreshReused, RotateReused, RefreshInvalid, RotateInvalid, RefreshCheckFamily,
     RefreshRecoverRefused, ReuseReadFamily, ReuseResolveOwner, Abandon, storeVars
<1>. QED
  BY <1>2, <1>3, <1>4, <1>5, <1>6

LEMMA HousekeepingIndexed ==
  ASSUME IInv, Housekeeping
  PROVE  Indexed'
<1>. StoreTypeOK /\ LiveIndexed /\ GraceIndexed /\ LiveInFamily
  BY DEF IInv, TypeOK, Indexed
<1>1. ASSUME NEW h \in Hashes, ExpireLive(h) \/ ExpireGrace(h) \/ ExpireConsumed(h)
      PROVE  Indexed'
  BY <1>1 DEF ExpireLive, ExpireGrace, ExpireConsumed, StoreTypeOK, Indexed, LiveIndexed,
     GraceIndexed, LiveInFamily
<1>2. ASSUME NEW f \in Families, ExpireFamily(f)
      PROVE  Indexed'
  BY <1>2 DEF ExpireFamily, LiveIn, StoreTypeOK, Indexed, LiveIndexed, GraceIndexed, LiveInFamily
<1>3. ASSUME NEW u \in Users, ExpireIndex(u)
      PROVE  Indexed'
  BY <1>3 DEF ExpireIndex, LiveOf, StoreTypeOK, Indexed, LiveIndexed, GraceIndexed, LiveInFamily
<1>4. ASSUME NEW u \in Users, PruneExpiredGraceMembers(u)
      PROVE  Indexed'
  BY <1>4 DEF PruneExpiredGraceMembers, StoreTypeOK, Indexed, LiveIndexed, GraceIndexed,
     LiveInFamily, Rt, Rp
<1>5. ASSUME NEW u \in Users, NEW stale \in SUBSET Hashes, PruneDeadMembers(u, stale)
      PROVE  Indexed'
  BY <1>5 DEF PruneDeadMembers, DeadMembers, StoreTypeOK, Indexed, LiveIndexed, GraceIndexed,
     LiveInFamily, Rt, Rp
<1>. QED
  BY <1>1, <1>2, <1>3, <1>4, <1>5 DEF Housekeeping

LEMMA IndexedStep ==
  ASSUME IInv, Next
  PROVE  Indexed'
<1>1. ASSUME NEW r \in Requests, RefreshSign(r) \/ RevokeBump(r)
      PROVE  Indexed'
  BY <1>1 DEF RefreshSign, RevokeBump, BumpEpoch, storeVars, IInv, Indexed, LiveIndexed,
     GraceIndexed, LiveInFamily
<1>2. ASSUME NEW f \in Families, Age(f)
      PROVE  Indexed'
  BY <1>2 DEF Age, storeVars, IInv, Indexed, LiveIndexed, GraceIndexed, LiveInFamily
<1>. QED
  BY <1>1, <1>2, StepCases, CreateIndexed, RotatedIndexed, RecoveredIndexed, ShrinkingIndexed,
     HousekeepingIndexed

(* A swept account keeps no index and a revoked lineage no family set.      *)
LEMMA SweptRevokedStep ==
  ASSUME IInv, Next
  PROVE  /\ (\A u \in Users : SweptLinks(u))'
         /\ (\A f \in Families : RevokedLinks(f))'
<1>. TypeOK /\ StoreTypeOK
  BY DEF IInv, TypeOK
<1>1. ASSUME Shrinks, UNCHANGED <<revoked, signedOut>>
      PROVE  /\ (\A u \in Users : SweptLinks(u))'
             /\ (\A f \in Families : RevokedLinks(f))'
  BY <1>1 DEF Shrinks, IInv, Links, SweptLinks, RevokedLinks, FreshFamily
<1>2. ASSUME NEW r \in Requests, ReuseRevoke(r)
      PROVE  /\ (\A u \in Users : SweptLinks(u))'
             /\ (\A f \in Families : RevokedLinks(f))'
  <2>. DEFINE f0 == req[r].rec.family
  <2>1. f0 \in Families /\ ~FreshFamily(f0)
    BY <1>2 DEF ReuseRevoke, At, IInv, Links, RequestLinks, ReuseLinks
  <2>2. /\ family' = [family EXCEPT ![f0] = {}] /\ revoked' = revoked \cup {f0}
        /\ minted' = minted /\ signedOut' = signedOut
    BY <1>2 DEF ReuseRevoke, RevokeFamily
  <2>3. \A u \in Users : index'[u] \subseteq index[u]
    BY <1>2 DEF ReuseRevoke, RevokeFamily, StoreTypeOK
  <2>. QED
    BY <2>1, <2>2, <2>3 DEF IInv, Links, SweptLinks, RevokedLinks, FreshFamily, StoreTypeOK
<1>3. ASSUME NEW r \in Requests, NEW u0 \in Users, RevokeAllSweep(r, u0)
      PROVE  /\ (\A u \in Users : SweptLinks(u))'
             /\ (\A f \in Families : RevokedLinks(f))'
  BY <1>3 DEF RevokeAllSweep, SweepIndex, IInv, Links, SweptLinks, RevokedLinks, FreshFamily,
     StoreTypeOK
<1>4. ASSUME NEW r \in Requests, Shrinking(r), ~ReuseRevoke(r),
             \A u \in Users : ~RevokeAllSweep(r, u)
      PROVE  Shrinks /\ UNCHANGED <<revoked, signedOut>>
  <2>1. UNCHANGED <<revoked, signedOut>>
    BY <1>4 DEF Shrinking, LoginReadEpoch, RefreshSeed, RefreshGraced, RefreshReused,
       RefreshInvalid, RefreshCheckFamily, RefreshRecoverRefused, PlatformPruneSpent,
       ReuseReadFamily, ReuseResolveOwner, RevokeOther, Abandon
  <2>. QED
    BY <1>4, <2>1, ShrinkingShrinks
<1>5. CASE Housekeeping
  BY <1>1, <1>5, HousekeepingShrinks DEF rotationVars
<1>6. ASSUME NEW f \in Families, Age(f)
      PROVE  Shrinks /\ UNCHANGED <<revoked, signedOut>>
  BY <1>6 DEF Age, storeVars, Shrinks
<1>7. ASSUME NEW r \in Requests, RefreshSign(r) \/ RevokeBump(r)
      PROVE  UNCHANGED <<index, family, minted, revoked, signedOut>>
  BY <1>7 DEF RefreshSign, RevokeBump, BumpEpoch, storeVars
<1>8. ASSUME NEW r \in Requests, RefreshSign(r) \/ RevokeBump(r)
      PROVE  /\ (\A u \in Users : SweptLinks(u))'
             /\ (\A f \in Families : RevokedLinks(f))'
  BY <1>7, <1>8 DEF IInv, Links, SweptLinks, RevokedLinks, FreshFamily
<1>. QED
  BY <1>1, <1>2, <1>3, <1>4, <1>5, <1>6, <1>8, StepCases, CreateIndexed, RotatedIndexed,
     RecoveredIndexed

-----------------------------------------------------------------------------
(* What the callers are told.                                               *)

(* A token exchanged or recovered once is spent before anyone else's turn.  *)
LEMMA ExchangedStep ==
  ASSUME IInv, Next
  PROVE  ExchangedOnce'
<1>. TypeOK /\ StoreTypeOK /\ ExchangedOnce
  BY DEF IInv, TypeOK, Answers
<1>1. ASSUME minted' = minted
      PROVE  ExchangedOnce'
  BY <1>1 DEF ExchangedOnce
<1>2. ASSUME NEW r \in Requests, NEW g \in Hashes, LoginCreate(r, g)
      PROVE  ExchangedOnce'
  <2>1. minted' = [minted EXCEPT ![g] = [session |-> req[r].rec, from |-> None, by |-> "login"]]
    BY <1>2 DEF LoginCreate, CreateSession, Minting
  <2>. QED
    BY <2>1 DEF ExchangedOnce, StoreTypeOK
<1>3. ASSUME NEW r \in Requests, NEW g \in Hashes, RefreshRotated(r, g)
      PROVE  ExchangedOnce'
  <2>1. /\ live[req[r].hash] # None
        /\ minted'[g].from = req[r].hash /\ minted'[g].by = "rotate"
        /\ \A h \in Hashes : h # g => minted'[h] = minted[h]
    BY <1>3, RotatedFacts
  <2>2. \A h \in Hashes : minted[h] # None /\ minted[h].from # None
                            => minted[h].from # req[r].hash
    BY <2>1 DEF IInv, Links, MintLinks
  <2>. QED
    BY <2>1, <2>2 DEF ExchangedOnce
<1>4. ASSUME NEW r \in Requests, NEW g \in Hashes, RefreshRecover(r, g)
      PROVE  ExchangedOnce'
  <2>1. /\ minted'[g].from = req[r].hash /\ minted'[g].by = "recover"
        /\ \A h \in Hashes : h # g => minted'[h] = minted[h]
    BY <1>4, RecoveredFacts
  <2>2. \A h \in Hashes : minted[h] # None /\ minted[h].from = req[r].hash
                            => minted[h].by # "recover"
    BY <1>4 DEF RefreshRecover, At, IInv, Links, RequestLinks, RecoveringLinks
  <2>. QED
    BY <2>1, <2>2 DEF ExchangedOnce
<1>5. ASSUME \/ \E r \in Requests : RefreshSign(r) \/ RevokeBump(r) \/ Shrinking(r)
             \/ \E f \in Families : Age(f)
             \/ Housekeeping
      PROVE  minted' = minted
  BY <1>5, ShrinkingShrinks, HousekeepingShrinks DEF RefreshSign, RevokeBump, BumpEpoch, Age,
     storeVars, Shrinks
<1>. QED
  BY <1>1, <1>2, <1>3, <1>4, <1>5, StepCases

(* A request begun past the cap never gets as far as a write.               *)
LEMMA CapStep ==
  ASSUME IInv, Next
  PROVE  NoSessionPastCap'
<1>1. ASSUME NEW r \in Requests, NEW g \in Hashes, RefreshRotated(r, g)
      PROVE  overdue' = overdue
  BY <1>1, RotatedFacts DEF RefreshRotated
<1>2. ASSUME NEW r \in Requests, NEW g \in Hashes, RefreshRecover(r, g)
      PROVE  overdue' = overdue
  BY <1>2, RecoveredFacts DEF RefreshRecover
<1>3. ASSUME NEW r \in Requests,
             (\E h \in Hashes : LoginCreate(r, h)) \/ RefreshSign(r) \/ RevokeBump(r) \/ Shrinking(r)
      PROVE  overdue' = overdue
  BY <1>3 DEF LoginCreate, RefreshSign, RevokeBump, Shrinking, LoginReadEpoch, RefreshSeed,
     RefreshGraced, RefreshReused, RefreshInvalid, RefreshCheckFamily, RefreshRecoverRefused,
     PlatformPruneSpent, ReuseReadFamily, ReuseResolveOwner, ReuseRevoke, RevokeAllSweep,
     RevokeOther, Abandon
<1>4. CASE (\E f \in Families : Age(f)) \/ Housekeeping
  BY <1>4 DEF Age, Housekeeping, rotationVars, IInv, Answers, NoSessionPastCap
<1>. QED
  BY <1>1, <1>2, <1>3, <1>4, StepCases DEF IInv, Answers, NoSessionPastCap

(* A stamp once signed is never signed again, and epochs only grow.         *)
LEMMA KilledStep ==
  ASSUME IInv, Next
  PROVE  KilledTokensRefused'
<1>. TypeOK /\ StoreTypeOK /\ KilledTokensRefused /\ Evolves
  BY KeyStep DEF IInv, TypeOK, Answers
<1>1. ASSUME NEW h \in Hashes, stamp[h] # None
      PROVE  /\ minted[h] # None /\ minted'[h] = minted[h] /\ stamp'[h] = stamp[h]
             /\ stamp[h] \in Nat /\ minted[h].session.user \in Users
             /\ stamp[h] <= epoch[minted[h].session.user]
  BY <1>1 DEF IInv, Links, KeyLinks, Evolves, TypeOK, StoreTypeOK, Mint, Session
<1>2. \A u \in Users : epoch[u] \in Nat /\ epoch'[u] \in Nat /\ epoch[u] <= epoch'[u]
  BY TypeStep DEF Evolves, TypeOK, StoreTypeOK
<1>3. ASSUME NEW h \in killed  PROVE stamp'[h] # None /\ stamp'[h] < epoch'[minted'[h].session.user]
  <2>1. h \in Hashes /\ stamp[h] # None /\ stamp[h] < epoch[minted[h].session.user]
    BY DEF TypeOK, KilledTokensRefused
  <2>. QED
    BY <2>1, <1>1, <1>2
<1>4. ASSUME NEW r \in Requests, RevokeBump(r), NEW h \in req[r].members
      PROVE  stamp'[h] # None /\ stamp'[h] < epoch'[minted'[h].session.user]
  <2>1. /\ req[r].owner \in Users
        /\ stamp[h] # None /\ minted[h].session.user = req[r].owner /\ h \in Hashes
    BY <1>4 DEF RevokeBump, At, IInv, Links, RequestLinks, BumpingLinks, TypeOK, Request
  <2>2. epoch'[req[r].owner] = epoch[req[r].owner] + 1
    BY <1>4, <2>1 DEF RevokeBump, BumpEpoch, StoreTypeOK
  <2>. QED
    BY <2>1, <2>2, <1>1, <1>2
<1>5. killed' = killed \/ \E r \in Requests : RevokeBump(r) /\ killed' = killed \cup req[r].members
  <2>1. ASSUME NEW r \in Requests,
               \/ \E h \in Hashes : LoginCreate(r, h) \/ RefreshRotated(r, h) \/ RefreshRecover(r, h)
               \/ RefreshSign(r) \/ Shrinking(r)
        PROVE  killed' = killed
    BY <2>1 DEF LoginCreate, RefreshRotated, RefreshRecover, RefreshSign, Shrinking,
       LoginReadEpoch, RefreshSeed, RefreshGraced, RefreshReused, RefreshInvalid,
       RefreshCheckFamily, RefreshRecoverRefused, PlatformPruneSpent, ReuseReadFamily,
       ReuseResolveOwner, ReuseRevoke, RevokeAllSweep, RevokeOther, Abandon
  <2>2. CASE (\E f \in Families : Age(f)) \/ Housekeeping
    BY <2>2 DEF Age, Housekeeping, rotationVars
  <2>3. ASSUME NEW r \in Requests, RevokeBump(r)
        PROVE  killed' = killed \cup req[r].members
    BY <2>3 DEF RevokeBump
  <2>. QED
    BY <2>1, <2>2, <2>3, StepCases
<1>. QED
  BY <1>3, <1>4, <1>5 DEF KilledTokensRefused

-----------------------------------------------------------------------------
(* The inductive invariant *)

LEMMA InitIInv == Init => IInv
<1>. SUFFICES ASSUME Init  PROVE IInv
  OBVIOUS
<1>1. PICK legacy \in [Hashes -> {None} \cup
                        {[user |-> u, family |-> NoFamily, mfa |-> FALSE] : u \in Users}] :
        /\ \A g, h \in Hashes : legacy[g] # None /\ legacy[h] # None => g = h
        /\ StoreInit(legacy)
        /\ stamp = [h \in Hashes |-> IF legacy[h] = None THEN None ELSE 0]
  BY DEF Init
<1>2. \A h \in Hashes : legacy[h] # None =>
        legacy[h] \in Session /\ legacy[h].family = NoFamily
  <2>1. \A u \in Users : LET s == [user |-> u, family |-> NoFamily, mfa |-> FALSE]
                         IN  s \in Session /\ s.family = NoFamily
    BY DEF Session
  <2>. QED
    BY <1>1, <2>1
<1>3. \A h \in Hashes : legacy[h] # None =>
        [session |-> legacy[h], from |-> None, by |-> "legacy"] \in Mint
  BY <1>2 DEF Mint
<1>4. /\ live = [h \in Hashes |-> legacy[h]]
      /\ grace = [h \in Hashes |-> None] /\ consumed = [h \in Hashes |-> None]
      /\ family = [f \in Families |-> {}]
      /\ index = [u \in Users |->
                    {Rt(h) : h \in {g \in Hashes : legacy[g] # None /\ legacy[g].user = u}}]
      /\ epoch = [u \in Users |-> 0]
      /\ minted = [h \in Hashes |->
                     IF legacy[h] = None THEN None
                     ELSE [session |-> legacy[h], from |-> None, by |-> "legacy"]]
  BY <1>1 DEF StoreInit
<1>5. /\ req = [r \in Requests |-> Idle] /\ aged = {} /\ revoked = {} /\ signedOut = {}
      /\ killed = {} /\ overdue = {}
  BY DEF Init
<1>6. TypeOK
  <2>1. Idle \in Request
    BY DEF Idle, Request, PCs, Placeholder, Record
  <2>2. StoreTypeOK
    BY <1>2, <1>3, <1>4 DEF StoreTypeOK, Members, Rt
  <2>. QED
    BY <1>1, <1>5, <2>1, <2>2 DEF TypeOK
<1>7. ASSUME NEW h \in Hashes  PROVE KeyLinks(h) /\ MintLinks(h)
  BY <1>1, <1>2, <1>3, <1>4, NoneAssumption DEF KeyLinks, MintLinks, Session
<1>8. ASSUME NEW u \in Users  PROVE IndexLinks(u) /\ SweptLinks(u)
  BY <1>3, <1>4, <1>5, NoneAssumption DEF IndexLinks, SweptLinks, Rt
<1>9. ASSUME NEW f \in Families  PROVE RevokedLinks(f)
  BY <1>5 DEF RevokedLinks
<1>10. ASSUME NEW r \in Requests  PROVE RequestLinks(r)
  BY <1>5 DEF Idle, RequestLinks, CreatingLinks, SeededLinks, RecoveringLinks, SigningLinks,
     ReuseLinks, BumpingLinks
<1>11. ASSUME NEW q \in Requests, NEW r \in Requests  PROVE OneHolder(q, r)
  BY <1>5 DEF OneHolder, Idle
<1>12. Indexed
  BY <1>2, <1>4, StoreAssumption DEF Indexed, LiveIndexed, GraceIndexed, LiveInFamily, Session
<1>13. Answers
  BY <1>4, <1>5 DEF Answers, ExchangedOnce, NoSessionPastCap, KilledTokensRefused
<1>. QED
  BY <1>6, <1>7, <1>8, <1>9, <1>10, <1>11, <1>12, <1>13 DEF IInv, Links

LEMMA StutterIInv == IInv /\ UNCHANGED vars => IInv'
  BY DEF IInv, vars, storeVars, TypeOK, StoreTypeOK, Links, KeyLinks, MintLinks, IndexLinks,
     SweptLinks, RevokedLinks, FreshFamily, RequestLinks, CreatingLinks, SeededLinks,
     RecoveringLinks, SigningLinks, ReuseLinks, BumpingLinks, OneHolder, Indexed, LiveIndexed,
     GraceIndexed, LiveInFamily, Answers, ExchangedOnce, NoSessionPastCap, KilledTokensRefused

LEMMA NextIInv == IInv /\ [Next]_vars => IInv'
<1>1. ASSUME IInv, Next
      PROVE  IInv'
  BY <1>1, TypeStep, KeyStep, RequestStep, HolderStep, IndexedStep, SweptRevokedStep,
     ExchangedStep, CapStep, KilledStep DEF IInv, Links, Answers
<1>. QED
  BY <1>1, StutterIInv

LEMMA Invariance == Spec => []IInv
  BY InitIInv, NextIInv, PTL DEF Spec

-----------------------------------------------------------------------------
(* The properties, for every value of the constants *)

(* The keyspace and the handlers' local state are well-typed: no refresh    *)
(* writes the placeholder record readSeedSession returns for a missing key. *)
THEOREM TypeCorrect == Spec => []TypeOK
  BY Invariance, PTL DEF IInv

(* "Log out everywhere" can name every live session at every instant of     *)
(* every rotation, recovery, prune and expiry.                              *)
THEOREM LiveSessionsIndexed == Spec => []LiveIndexed
<1>1. IInv => LiveIndexed
  BY DEF IInv, Indexed
<1>. QED
  BY <1>1, Invariance, PTL

(* And every grace pointer that could still be turned into a session.       *)
THEOREM GracePointersIndexed == Spec => []GraceIndexed
<1>1. IInv => GraceIndexed
  BY DEF IInv, Indexed
<1>. QED
  BY <1>1, Invariance, PTL

(* A reuse detection reaches every live session of the lineage.             *)
THEOREM LineagesComplete == Spec => []LiveInFamily
<1>1. IInv => LiveInFamily
  BY DEF IInv, Indexed
<1>. QED
  BY <1>1, Invariance, PTL

(* No rotation or recovery, in flight or later, revives a revoked lineage.  *)
THEOREM RevokedFamiliesDead == Spec => []RevokedFamilyStaysDead
<1>1. IInv => RevokedFamilyStaysDead
  <2>. SUFFICES ASSUME IInv, NEW h \in Hashes, live[h] # None
                PROVE  live[h].family \notin revoked
    BY DEF RevokedFamilyStaysDead
  <2>1. CASE live[h].family \in Families
    BY <2>1, StoreAssumption DEF IInv, Links, RevokedLinks, Indexed, LiveInFamily
  <2>2. CASE live[h].family \notin Families
    BY <2>2 DEF IInv, TypeOK
  <2>. QED
    BY <2>1, <2>2
<1>. QED
  BY <1>1, Invariance, PTL

(* From a revoke-all until its next sign-in an account has no live session. *)
THEOREM SweptUsersOut == Spec => []SweptUserStaysOut
<1>1. IInv => SweptUserStaysOut
  BY DEF IInv, TypeOK, Links, SweptLinks, Indexed, LiveIndexed, SweptUserStaysOut, LiveOf
<1>. QED
  BY <1>1, Invariance, PTL

(* One token is rotated once and recovered at most once, however many       *)
(* requests present it.                                                     *)
THEOREM ExchangedAtMostOnce == Spec => []ExchangedOnce
<1>1. IInv => ExchangedOnce
  BY DEF IInv, Answers
<1>. QED
  BY <1>1, Invariance, PTL

(* A refresh begun past the absolute cap mints nothing, on either path.     *)
THEOREM CapHolds == Spec => []NoSessionPastCap
<1>1. IInv => NoSessionPastCap
  BY DEF IInv, Answers
<1>. QED
  BY <1>1, Invariance, PTL

(* The access tokens of every session a finished revocation listed carry a  *)
(* stamp below the stored epoch, for good.                                  *)
THEOREM KilledTokensStayRefused == Spec => []KilledTokensRefused
<1>1. IInv => KilledTokensRefused
  BY DEF IInv, Answers
<1>. QED
  BY <1>1, Invariance, PTL

(* The owner, lineage and second factor of a session are those of the token *)
(* exchanged for it.                                                        *)
THEOREM LineagesInherited == Spec => []LineageInherited
<1>1. IInv => LineageInherited
  BY DEF IInv, Links, MintLinks, LineageInherited
<1>. QED
  BY <1>1, Invariance, PTL

-----------------------------------------------------------------------------
(* TokenRotation implements SessionLedger.  A step of the ledger depends    *)
(* also on what the store remembers of an exchange -- the pointer and the   *)
(* reuse marker -- and on the family set naming nothing but its lineage:    *)
(* RInv adds that.                                                          *)

(* A pointer or a marker is there because its hash was rotated. *)
SpentLinks(h) ==
  grace[h] # None \/ consumed[h] # None => h \in Exchanged("rotate")

(* So a request that holds a pointer's record works on a rotated hash, and  *)
(* one that holds a marker's lineage on a lineage with a rotated hash.      *)
WorkLinks(r) ==
  /\ req[r].pc \in {"graced", "recovering"} => req[r].hash \in Exchanged("rotate")
  /\ req[r].pc \in {"reusing", "owning"} =>
       \E h \in Exchanged("rotate") : /\ minted[h] # None
                                      /\ minted[h].session.family = req[r].rec.family

(* The family set names hashes of its lineage only. *)
FamilyLinks(f) ==
  \A h \in family[f] : minted[h] # None /\ minted[h].session.family = f

RInv ==
  /\ IInv
  /\ \A h \in Hashes : SpentLinks(h)
  /\ \A r \in Requests : WorkLinks(r)
  /\ \A f \in Families : FamilyLinks(f)

-----------------------------------------------------------------------------
(* How a token was exchanged is never forgotten.                            *)
LEMMA ExchangedGrows ==
  ASSUME IInv, Next, NEW how
  PROVE  Exchanged(how) \subseteq Exchanged(how)'
  BY KeyStep DEF Exchanged, Evolves

LEMMA RotatedLinksStep ==
  ASSUME RInv, Next
  PROVE  (\A h \in Hashes : SpentLinks(h))'
<1>. IInv /\ TypeOK /\ StoreTypeOK
  BY DEF RInv, IInv, TypeOK
<1>1. ASSUME \A h \in Hashes : /\ grace'[h] \in {grace[h], None}
                               /\ consumed'[h] \in {consumed[h], None}
      PROVE  (\A h \in Hashes : SpentLinks(h))'
  BY <1>1, ExchangedGrows DEF RInv, SpentLinks
<1>2. ASSUME NEW r \in Requests, NEW g \in Hashes, RefreshRotated(r, g)
      PROVE  (\A h \in Hashes : SpentLinks(h))'
  <2>. DEFINE old == req[r].hash
  <2>1. /\ minted'[g] # None /\ minted'[g].from = old /\ minted'[g].by = "rotate"
        /\ old \in Hashes
    BY <1>2, RotatedFacts
  <2>2. old \in Exchanged("rotate")'
    BY <2>1 DEF Exchanged
  <2>3. \A h \in Hashes : h # old => grace'[h] = grace[h] /\ consumed'[h] = consumed[h]
    BY <1>2 DEF RefreshRotated, RotateLive, StoreTypeOK
  <2>. QED
    BY <2>2, <2>3, ExchangedGrows DEF RInv, SpentLinks
<1>3. ASSUME NEW r \in Requests, NEW g \in Hashes, LoginCreate(r, g) \/ RefreshRecover(r, g)
      PROVE  UNCHANGED <<grace, consumed>>
  BY <1>3 DEF LoginCreate, CreateSession, RefreshRecover, RecoverGrace
<1>4. ASSUME NEW r \in Requests, RefreshSign(r) \/ RevokeBump(r)
      PROVE  UNCHANGED <<grace, consumed>>
  BY <1>4 DEF RefreshSign, RevokeBump, BumpEpoch, storeVars
<1>5. ASSUME NEW f \in Families, Age(f)
      PROVE  UNCHANGED <<grace, consumed>>
  BY <1>5 DEF Age, storeVars
<1>6. ASSUME Shrinks
      PROVE  (\A h \in Hashes : SpentLinks(h))'
  BY <1>1, <1>6 DEF Shrinks
<1>. QED
  BY <1>1, <1>2, <1>3, <1>4, <1>5, <1>6, StepCases, ShrinkingShrinks, HousekeepingShrinks

LEMMA FamilyLinksStep ==
  ASSUME RInv, Next
  PROVE  (\A f \in Families : FamilyLinks(f))'
<1>. IInv /\ TypeOK /\ StoreTypeOK
  BY DEF RInv, IInv, TypeOK
<1>1. ASSUME \A f \in Families : family'[f] \subseteq family[f]
      PROVE  (\A f \in Families : FamilyLinks(f))'
  BY <1>1, KeyStep DEF RInv, FamilyLinks, Evolves, StoreTypeOK
<1>2. ASSUME NEW g \in Hashes, minted'[g] # None,
             \A f \in Families : \A h \in family'[f] :
               h \in family[f] \/ (h = g /\ f = minted'[g].session.family)
      PROVE  (\A f \in Families : FamilyLinks(f))'
  BY <1>2, KeyStep DEF RInv, FamilyLinks, Evolves, StoreTypeOK
<1>3. ASSUME NEW r \in Requests, NEW g \in Hashes, LoginCreate(r, g)
      PROVE  (\A f \in Families : FamilyLinks(f))'
  <2>. DEFINE s == req[r].rec
  <2>1. [session |-> s, from |-> None, by |-> "login"] \in Mint
    BY <1>3 DEF LoginCreate, At, IInv, Links, RequestLinks, CreatingLinks, Mint
  <2>2. minted'[g] # None /\ minted'[g].session = s
    BY <1>3, <2>1, MintedOnce DEF LoginCreate, CreateSession
  <2>. QED
    BY <1>2, <1>3, <2>2 DEF LoginCreate, CreateSession, JoinFamily
<1>4. ASSUME NEW r \in Requests, NEW g \in Hashes, RefreshRotated(r, g)
      PROVE  (\A f \in Families : FamilyLinks(f))'
  <2>1. minted'[g] # None /\ minted'[g].session = req[r].rec
    BY <1>4, RotatedFacts
  <2>. QED
    BY <1>2, <1>4, <2>1 DEF RefreshRotated, RotateLive, MoveFamilyMember, Inherit
<1>5. ASSUME NEW r \in Requests, NEW g \in Hashes, RefreshRecover(r, g)
      PROVE  (\A f \in Families : FamilyLinks(f))'
  <2>1. minted'[g] # None /\ minted'[g].session = req[r].rec
    BY <1>5, RecoveredFacts
  <2>. QED
    BY <1>2, <1>5, <2>1 DEF RefreshRecover, RecoverGrace, JoinFamily, Inherit
<1>6. ASSUME NEW r \in Requests, RefreshSign(r) \/ RevokeBump(r)
      PROVE  family' = family
  BY <1>6 DEF RefreshSign, RevokeBump, BumpEpoch, storeVars
<1>7. ASSUME NEW f \in Families, Age(f)
      PROVE  family' = family
  BY <1>7 DEF Age, storeVars
<1>8. ASSUME Shrinks
      PROVE  (\A f \in Families : FamilyLinks(f))'
  BY <1>1, <1>8 DEF Shrinks
<1>. QED
  BY <1>1, <1>3, <1>4, <1>5, <1>6, <1>7, <1>8, StepCases, ShrinkingShrinks, HousekeepingShrinks

(* A request that sleeps, or wakes idle, keeps what it knew. *)
LEMMA WorkKept ==
  ASSUME RInv, Next, NEW r \in Requests,
         \/ req'[r] = req[r]
         \/ req'[r].pc \notin {"graced", "recovering", "reusing", "owning"}
  PROVE  WorkLinks(r)'
<1>1. CASE req'[r] = req[r]
  <2>1. ASSUME NEW h \in Exchanged("rotate"), minted[h] # None
        PROVE  h \in Exchanged("rotate")' /\ minted'[h] = minted[h]
    BY <2>1, ExchangedGrows, KeyStep DEF RInv, Exchanged, Evolves
  <2>. QED
    BY <1>1, <2>1, ExchangedGrows DEF RInv, WorkLinks
<1>. QED
  BY <1>1 DEF WorkLinks

(* The four answers that set a request to work on an exchange. *)
LEMMA WorkBegun ==
  ASSUME RInv, Next, NEW r \in Requests,
         RefreshGraced(r) \/ RefreshReused(r) \/ RefreshCheckFamily(r) \/ ReuseReadFamily(r)
           \/ ReuseResolveOwner(r)
  PROVE  WorkLinks(r)'
<1>. IInv /\ TypeOK /\ StoreTypeOK /\ req[r] \in Request
  BY DEF RInv, IInv, TypeOK
<1>1. minted' = minted
  BY DEF RefreshGraced, RefreshReused, RefreshCheckFamily, ReuseReadFamily, ReuseResolveOwner,
     RotateGrace, RotateReused, storeVars
<1>2. Exchanged("rotate")' = Exchanged("rotate")
  BY <1>1 DEF Exchanged
<1>3. CASE RefreshGraced(r)
  <2>1. req[r].hash \in Hashes
    BY <1>3 DEF RefreshGraced, At, IInv, Links, RequestLinks, SeededLinks
  <2>2. /\ req'[r].pc = "graced" /\ req'[r].hash = req[r].hash
        /\ grace[req[r].hash] # None
    BY <1>3 DEF RefreshGraced, RotateGrace, PointerRecovers, Goto, TypeOK, Request
  <2>. QED
    BY <1>2, <2>1, <2>2 DEF RInv, WorkLinks, SpentLinks
<1>4. CASE RefreshReused(r)
  <2>. DEFINE h == req[r].hash
  <2>1. h \in Hashes
    BY <1>4 DEF RefreshReused, At, IInv, Links, RequestLinks, SeededLinks
  <2>2. consumed[h] # None
    BY <1>4 DEF RefreshReused, RotateReused
  <2>3. req'[r].pc = "reusing" /\ req'[r].rec.family = consumed[h]
    BY <1>4 DEF RefreshReused, Goto, TypeOK, Idle, Placeholder
  <2>4. minted[h] # None /\ minted[h].session.family = consumed[h]
    BY <2>1, <2>2 DEF IInv, Links, KeyLinks
  <2>5. h \in Exchanged("rotate")
    BY <2>1, <2>2 DEF RInv, SpentLinks
  <2>. QED
    BY <1>1, <1>2, <2>3, <2>4, <2>5 DEF WorkLinks
<1>5. CASE RefreshCheckFamily(r)
  <2>1. req[r].pc = "graced" /\ (req'[r] = Idle \/ req'[r] = [req[r] EXCEPT !.pc = "recovering"])
    BY <1>5 DEF RefreshCheckFamily, At, Goto, Finish, TypeOK
  <2>. QED
    BY <1>2, <2>1 DEF RInv, WorkLinks, Idle, Request
<1>6. CASE ReuseReadFamily(r) \/ ReuseResolveOwner(r)
  <2>1. /\ req[r].pc \in {"reusing", "owning"}
        /\ req'[r].pc \in {"reusing", "owning"} /\ req'[r].rec = req[r].rec
    <3>1. CASE ReuseReadFamily(r)
      BY <3>1 DEF ReuseReadFamily, At, Goto, TypeOK, Request
    <3>2. CASE ReuseResolveOwner(r)
      <4>1. req[r].pc = "owning"
        BY <3>2 DEF ReuseResolveOwner, At
      <4>2. \/ Goto(r, [req[r] EXCEPT !.members = {}])
            \/ \E u : Goto(r, [req[r] EXCEPT !.members = {}, !.owner = u])
        BY <3>2 DEF ReuseResolveOwner
      <4>3. CASE Goto(r, [req[r] EXCEPT !.members = {}])
        BY <4>1, <4>3 DEF Goto, TypeOK, Request
      <4>4. ASSUME NEW u, Goto(r, [req[r] EXCEPT !.members = {}, !.owner = u])
            PROVE  req'[r].pc = "owning" /\ req'[r].rec = req[r].rec
        BY <4>1, <4>4 DEF Goto, TypeOK, Request
      <4>. QED
        BY <4>1, <4>2, <4>3, <4>4
    <3>. QED
      BY <1>6, <3>1, <3>2
  <2>. QED
    BY <1>1, <1>2, <2>1 DEF RInv, WorkLinks
<1>. QED
  BY <1>3, <1>4, <1>5, <1>6

LEMMA WorkLinksStep ==
  ASSUME RInv, Next
  PROVE  (\A r \in Requests : WorkLinks(r))'
<1>. IInv /\ TypeOK
  BY DEF RInv, IInv
<1>1. ASSUME NEW r \in Requests,
             \/ \E h \in Hashes : LoginCreate(r, h) \/ RefreshRotated(r, h) \/ RefreshRecover(r, h)
             \/ RefreshSign(r) \/ RevokeBump(r) \/ Shrinking(r)
      PROVE  (\A q \in Requests : WorkLinks(q))'
  <2>1. ASSUME NEW q \in Requests, q # r  PROVE WorkLinks(q)'
    BY <1>1, <2>1, OneMoves, WorkKept
  <2>2. ASSUME ~(RefreshGraced(r) \/ RefreshReused(r) \/ RefreshCheckFamily(r)
                   \/ ReuseReadFamily(r) \/ ReuseResolveOwner(r))
        PROVE  req'[r].pc \notin {"graced", "recovering", "reusing", "owning"}
    <3>1. \A state : Goto(r, state) => req'[r] = state
      BY DEF TypeOK, Goto
    <3>2. ASSUME NEW h \in Hashes, LoginCreate(r, h) \/ RefreshRotated(r, h)
          PROVE  req'[r].pc \in {"idle", "signing"}
      <4>1. CASE LoginCreate(r, h)
        BY <3>1, <4>1 DEF LoginCreate, Finish, Idle
      <4>2. CASE RefreshRotated(r, h)
        BY <3>1, <4>2 DEF RefreshRotated, Idle
      <4>. QED
        BY <3>2, <4>1, <4>2
    <3>3. ASSUME NEW h \in Hashes, RefreshRecover(r, h)
          PROVE  req'[r].pc \in {"pruning", "signing"}
      BY <3>1, <3>3 DEF RefreshRecover, Idle
    <3>4. CASE RefreshSign(r) \/ RevokeBump(r) \/ RefreshInvalid(r) \/ RefreshRecoverRefused(r)
                 \/ ReuseRevoke(r) \/ Abandon(r)
      BY <3>1, <3>4 DEF RefreshSign, RevokeBump, RefreshInvalid, RefreshRecoverRefused,
         ReuseRevoke, Abandon, Finish, Idle
    <3>5. CASE PlatformPruneSpent(r)
      BY <3>1, <3>5 DEF PlatformPruneSpent, TypeOK, Request
    <3>6. ASSUME NEW u \in Users, NEW verified \in Verified, LoginReadEpoch(r, u, verified)
          PROVE  req'[r].pc = "creating"
      BY <3>1, <3>6 DEF LoginReadEpoch, Idle
    <3>7. ASSUME NEW h \in Hashes, RefreshSeed(r, h)
          PROVE  req'[r].pc = "seeded"
      BY <3>1, <3>7 DEF RefreshSeed, Idle
    <3>8. ASSUME NEW u \in Users, RevokeAllSweep(r, u) \/ \E h \in Hashes : RevokeOther(r, u, h)
          PROVE  req'[r].pc = "bumping"
      BY <3>1, <3>8 DEF RevokeAllSweep, RevokeOther, Idle
    <3>. QED
      BY <1>1, <2>2, <3>2, <3>3, <3>4, <3>5, <3>6, <3>7, <3>8 DEF Shrinking
  <2>. QED
    BY <2>1, <2>2, WorkBegun, WorkKept
<1>2. ASSUME \/ \E f \in Families : Age(f)
             \/ Housekeeping
      PROVE  req' = req
  BY <1>2, HousekeepingShrinks DEF Age, rotationVars
<1>. QED
  BY <1>1, <1>2, WorkKept, StepCases

-----------------------------------------------------------------------------
LEMMA InitRInv == Init => RInv
<1>. SUFFICES ASSUME Init  PROVE RInv
  OBVIOUS
<1>1. /\ grace = [h \in Hashes |-> None] /\ consumed = [h \in Hashes |-> None]
      /\ family = [f \in Families |-> {}] /\ req = [r \in Requests |-> Idle]
  BY DEF Init, StoreInit
<1>. QED
  BY <1>1, InitIInv DEF RInv, SpentLinks, WorkLinks, FamilyLinks, Idle

LEMMA NextRInv == RInv /\ [Next]_vars => RInv'
<1>1. ASSUME RInv, Next  PROVE RInv'
  BY <1>1, NextIInv, RotatedLinksStep, WorkLinksStep, FamilyLinksStep DEF RInv
<1>2. ASSUME RInv, UNCHANGED vars  PROVE RInv'
  BY <1>2, NextIInv DEF RInv, SpentLinks, WorkLinks, FamilyLinks, Exchanged, vars, storeVars
<1>. QED
  BY <1>1, <1>2

LEMMA RInvariance == Spec => []RInv
  BY InitRInv, NextRInv, PTL DEF Spec

-----------------------------------------------------------------------------
(* The refinement, step by step                                             *)

LEMMA InitLedger == Init => Ledger!Init
<1>. SUFFICES ASSUME Init  PROVE Ledger!Init
  OBVIOUS
<1>1. PICK legacy \in [Hashes -> {None} \cup
                        {[user |-> u, family |-> NoFamily, mfa |-> FALSE] : u \in Users}] :
        StoreInit(legacy)
  BY DEF Init
<1>2. /\ live = legacy
      /\ minted = [h \in Hashes |->
                     IF legacy[h] = None THEN None
                     ELSE [session |-> legacy[h], from |-> None, by |-> "legacy"]]
  BY <1>1 DEF StoreInit
<1>3. RInv
  BY InitRInv
<1>4. ASSUME NEW h \in Hashes  PROVE IssuedRecords[h] = live[h]
  BY <1>2, NoneAssumption, <1>3 DEF IssuedRecords, RInv, IInv, Links, KeyLinks
<1>5. IssuedRecords = live
  BY <1>1, <1>2, <1>4 DEF IssuedRecords
<1>6. Exchanged("rotate") = {} /\ Exchanged("recover") = {}
  BY <1>2, NoneAssumption DEF Exchanged
<1>7. signedOut = {} /\ revoked = {}
  BY DEF Init
<1>. QED
  BY <1>1, <1>2, <1>5, <1>6, <1>7 DEF Ledger!Init

(* A step that mints nothing changes neither what was issued nor what was   *)
(* exchanged.                                                               *)
LEMMA NothingMinted ==
  ASSUME minted' = minted
  PROVE  IssuedRecords' = IssuedRecords /\ (\A how : Exchanged(how)' = Exchanged(how))
  BY DEF IssuedRecords, Exchanged

(* A step that mints g issues its record, and exchanges the token it names. *)
LEMMA OneMinted ==
  ASSUME NEW g \in Hashes, minted[g] = None, minted'[g] # None,
         \A h \in Hashes : h # g => minted'[h] = minted[h]
  PROVE  /\ Ledger!Issue(g, minted'[g].session)
         /\ \A how : minted'[g].from \notin Hashes \/ minted'[g].by # how
                        => Exchanged(how)' = Exchanged(how)
         /\ \A how : minted'[g].from \in Hashes /\ minted'[g].by = how
                        => Exchanged(how)' = Exchanged(how) \cup {minted'[g].from}
<1>1. IssuedRecords[g] = None
  BY DEF IssuedRecords
<1>2. IssuedRecords' = [IssuedRecords EXCEPT ![g] = minted'[g].session]
  BY DEF IssuedRecords
<1>. QED
  BY <1>1, <1>2 DEF Ledger!Issue, Exchanged

LEMMA LoginStep ==
  ASSUME RInv, NEW r \in Requests, NEW g \in Hashes, LoginCreate(r, g)
  PROVE  Ledger!Next
<1>. DEFINE s == req[r].rec
<1>. IInv /\ TypeOK /\ StoreTypeOK
  BY DEF RInv, IInv, TypeOK
<1>1. s \in Session /\ s.family \in Families
  BY DEF IInv, Links, RequestLinks, CreatingLinks, LoginCreate, At
<1>2. [session |-> s, from |-> None, by |-> "login"] \in Mint
  BY <1>1 DEF Mint
<1>3. /\ minted[g] = None /\ minted'[g] # None
      /\ minted'[g].session = s /\ minted'[g].from = None
      /\ \A h \in Hashes : h # g => minted'[h] = minted[h]
  BY <1>2, MintedOnce DEF LoginCreate, CreateSession
<1>4. /\ Ledger!Issue(g, s)
      /\ UNCHANGED <<Exchanged("rotate"), Exchanged("recover")>>
  BY <1>3, OneMinted, NoneAssumption
<1>5. Ledger!NewLineage(s.family)
  BY DEF LoginCreate, FreshFamily, Ledger!NewLineage, IssuedRecords
<1>6. /\ live' = [live EXCEPT ![g] = s]
      /\ signedOut' = signedOut \ {s.user} /\ revoked' = revoked
  BY DEF LoginCreate, CreateSession
<1>7. s = [user |-> s.user, family |-> s.family, mfa |-> s.mfa]
      /\ s.user \in Users /\ s.mfa \in BOOLEAN
  BY <1>1 DEF Session
<1>8. Ledger!SignIn(s.user, s.family, s.mfa, g)
  BY <1>4, <1>5, <1>6, <1>7 DEF Ledger!SignIn
<1>. QED
  BY <1>1, <1>7, <1>8 DEF Ledger!Next

LEMMA RotatedStep ==
  ASSUME RInv, NEW r \in Requests, NEW g \in Hashes, RefreshRotated(r, g)
  PROVE  Ledger!Next
<1>. DEFINE old == req[r].hash
<1>. DEFINE s == req[r].rec
<1>. IInv /\ TypeOK /\ StoreTypeOK
  BY DEF RInv, IInv, TypeOK
<1>1. /\ old \in Hashes /\ g # old /\ live[old] = s /\ live[old] # None
      /\ minted[g] = None /\ minted'[g] # None
      /\ minted'[g].session = s /\ minted'[g].from = old /\ minted'[g].by = "rotate"
      /\ \A h \in Hashes : h # g => minted'[h] = minted[h]
  BY RotatedFacts
<1>2. /\ Ledger!Issue(g, live[old])
      /\ Exchanged("rotate")' = Exchanged("rotate") \cup {old}
      /\ Exchanged("recover")' = Exchanged("recover")
  BY <1>1, OneMinted
<1>3. old \notin Exchanged("rotate")
  BY <1>1, NoneAssumption DEF Exchanged, IInv, Links, MintLinks
<1>4. /\ live' = [live EXCEPT ![g] = live[old], ![old] = None]
      /\ UNCHANGED <<signedOut, revoked>>
  BY <1>1 DEF RefreshRotated, RotateLive, Inherit
<1>5. Ledger!Exchange(old, g)
  BY <1>1, <1>2, <1>3, <1>4 DEF Ledger!Exchange
<1>. QED
  BY <1>1, <1>5 DEF Ledger!Next

LEMMA RecoveredStep ==
  ASSUME RInv, NEW r \in Requests, NEW g \in Hashes, RefreshRecover(r, g)
  PROVE  Ledger!Next
<1>. DEFINE old == req[r].hash
<1>. DEFINE s == req[r].rec
<1>. IInv /\ TypeOK /\ StoreTypeOK
  BY DEF RInv, IInv, TypeOK
<1>1. /\ old \in Hashes /\ s \in Session /\ minted[old] # None /\ s = minted[old].session
      /\ minted[g] = None /\ minted'[g] # None
      /\ minted'[g].session = s /\ minted'[g].from = old /\ minted'[g].by = "recover"
      /\ \A h \in Hashes : h # g => minted'[h] = minted[h]
  BY RecoveredFacts
<1>2. IssuedRecords[old] = s
  BY <1>1 DEF IssuedRecords
<1>3. /\ Ledger!Issue(g, s)
      /\ Exchanged("recover")' = Exchanged("recover") \cup {old}
      /\ Exchanged("rotate")' = Exchanged("rotate")
  BY <1>1, OneMinted
<1>4. old \in Exchanged("rotate")
  BY DEF RefreshRecover, At, RInv, WorkLinks
<1>5. old \notin Exchanged("recover")
  BY DEF RefreshRecover, At, IInv, Links, RequestLinks, RecoveringLinks, Exchanged
<1>6. s.user \notin signedOut
  BY <1>1 DEF RefreshRecover, RecoverGrace, MayRecover, Inherit, IInv, Links, SweptLinks, Session
<1>7. s.family \notin revoked
  BY <1>1 DEF RefreshRecover, RecoverGrace, MayRecover, FamilyExists, Inherit, IInv, Links,
     RevokedLinks, TypeOK
<1>8. live' = [live EXCEPT ![g] = s] /\ UNCHANGED <<signedOut, revoked>>
  BY DEF RefreshRecover, RecoverGrace, Inherit
<1>9. Ledger!Recover(old, g)
  BY <1>2, <1>3, <1>4, <1>5, <1>6, <1>7, <1>8 DEF Ledger!Recover
<1>. QED
  BY <1>1, <1>9 DEF Ledger!Next

(* A step that touches no session, no mint and no history is no step of the *)
(* ledger.                                                                  *)
LEMMA LedgerStutter ==
  ASSUME UNCHANGED <<live, minted, signedOut, revoked>>
  PROVE  UNCHANGED Ledger!ledgerVars
  BY NothingMinted DEF Ledger!ledgerVars

(* One session ends. *)
LEMMA EndStep ==
  ASSUME TypeOK, NEW h \in Hashes, live' = [live EXCEPT ![h] = None],
         UNCHANGED <<minted, signedOut, revoked>>
  PROVE  [Ledger!Next]_(Ledger!ledgerVars)
<1>1. CASE live[h] = None
  <2>1. live' = live
    BY <1>1 DEF TypeOK, StoreTypeOK
  <2>. QED
    BY <2>1, LedgerStutter
<1>2. CASE live[h] # None
  <2>1. Ledger!End(h)
    BY <1>2, NothingMinted DEF Ledger!End
  <2>. QED
    BY <2>1 DEF Ledger!Next
<1>. QED
  BY <1>1, <1>2

(* The index of the account names its sessions, all of them and no other's. *)
LEMMA SweepStep ==
  ASSUME RInv, NEW r \in Requests, NEW u \in Users, RevokeAllSweep(r, u)
  PROVE  Ledger!Next
<1>. IInv /\ TypeOK /\ StoreTypeOK
  BY DEF RInv, IInv, TypeOK
<1>1. /\ live' = [h \in Hashes |-> IF Rt(h) \in index[u] THEN None ELSE live[h]]
      /\ signedOut' = signedOut \cup {u}
      /\ UNCHANGED <<minted, revoked>>
  BY DEF RevokeAllSweep, SweepIndex
<1>2. ASSUME NEW h \in Hashes, live[h] # None
      PROVE  Rt(h) \in index[u] <=> live[h].user = u
  BY <1>2 DEF IInv, Links, KeyLinks, IndexLinks, Indexed, LiveIndexed
<1>3. Ledger!EndAll(Ledger!HeldBy(u))
  <2>1. ASSUME NEW h \in Hashes
        PROVE  (IF Rt(h) \in index[u] THEN None ELSE live[h])
                 = (IF h \in Ledger!HeldBy(u) THEN None ELSE live[h])
    BY <1>2 DEF Ledger!HeldBy
  <2>. QED
    BY <1>1, <2>1 DEF Ledger!EndAll
<1>4. Ledger!SignOutEverywhere(u)
  BY <1>1, <1>3, NothingMinted DEF Ledger!SignOutEverywhere
<1>. QED
  BY <1>4 DEF Ledger!Next

(* The family set names the sessions of its lineage, all and no other's.    *)
LEMMA ReuseStep ==
  ASSUME RInv, NEW r \in Requests, ReuseRevoke(r)
  PROVE  Ledger!Next
<1>. DEFINE f == req[r].rec.family
<1>. IInv /\ TypeOK /\ StoreTypeOK
  BY DEF RInv, IInv, TypeOK
<1>1. /\ live' = [h \in Hashes |-> IF h \in family[f] THEN None ELSE live[h]]
      /\ revoked' = revoked \cup {f}
      /\ UNCHANGED <<minted, signedOut>>
  BY DEF ReuseRevoke, RevokeFamily
<1>2. f \in Families
  BY DEF ReuseRevoke, At, IInv, Links, RequestLinks, ReuseLinks
<1>3. ASSUME NEW h \in Hashes, live[h] # None
      PROVE  h \in family[f] <=> live[h].family = f
  BY <1>2, <1>3, StoreAssumption DEF RInv, FamilyLinks, IInv, Links, KeyLinks, Indexed,
     LiveInFamily
<1>4. Ledger!EndAll(Ledger!HeldIn(f))
  <2>1. ASSUME NEW h \in Hashes
        PROVE  (IF h \in family[f] THEN None ELSE live[h])
                 = (IF h \in Ledger!HeldIn(f) THEN None ELSE live[h])
    BY <1>3 DEF Ledger!HeldIn
  <2>. QED
    BY <1>1, <2>1 DEF Ledger!EndAll
<1>5. PICK h \in Exchanged("rotate") : minted[h] # None /\ minted[h].session.family = f
  BY DEF ReuseRevoke, At, RInv, WorkLinks
<1>6. IssuedRecords[h].family = f
  BY <1>5 DEF IssuedRecords, Exchanged
<1>7. Ledger!EndLineage(f)
  BY <1>1, <1>4, <1>5, <1>6, NothingMinted DEF Ledger!EndLineage
<1>. QED
  BY <1>2, <1>7 DEF Ledger!Next

LEMMA ShrinkingLedger ==
  ASSUME RInv, NEW r \in Requests, Shrinking(r)
  PROVE  [Ledger!Next]_(Ledger!ledgerVars)
<1>. TypeOK
  BY DEF RInv, IInv
<1>1. ASSUME NEW u \in Users, NEW h \in Hashes, RevokeOther(r, u, h)
      PROVE  [Ledger!Next]_(Ledger!ledgerVars)
  BY <1>1, EndStep DEF RevokeOther, RevokeSession
<1>2. CASE ReuseRevoke(r)
  BY <1>2, ReuseStep
<1>3. ASSUME NEW u \in Users, RevokeAllSweep(r, u)
      PROVE  [Ledger!Next]_(Ledger!ledgerVars)
  BY <1>3, SweepStep
<1>4. ASSUME NEW u \in Users, NEW verified \in Verified, LoginReadEpoch(r, u, verified)
      PROVE  UNCHANGED <<live, minted, signedOut, revoked>>
  BY <1>4 DEF LoginReadEpoch, storeVars
<1>5. ASSUME NEW h \in Hashes, RefreshSeed(r, h)
      PROVE  UNCHANGED <<live, minted, signedOut, revoked>>
  BY <1>5 DEF RefreshSeed, storeVars
<1>6. CASE RefreshGraced(r) \/ RefreshReused(r) \/ RefreshInvalid(r)
  <2>1. UNCHANGED <<live, minted, signedOut, revoked>>
    BY <1>6 DEF RefreshGraced, RefreshReused, RefreshInvalid, RotateGrace, RotateReused,
       RotateInvalid
  <2>. QED
    BY <2>1, LedgerStutter
<1>7. CASE RefreshCheckFamily(r) \/ RefreshRecoverRefused(r) \/ PlatformPruneSpent(r)
             \/ ReuseReadFamily(r) \/ ReuseResolveOwner(r) \/ Abandon(r)
  <2>1. UNCHANGED <<live, minted, signedOut, revoked>>
    BY <1>7 DEF RefreshCheckFamily, RefreshRecoverRefused, PlatformPruneSpent,
       ReuseReadFamily, ReuseResolveOwner, Abandon, storeVars
  <2>. QED
    BY <2>1, LedgerStutter
<1>. QED
  BY <1>1, <1>2, <1>3, <1>4, <1>5, <1>6, <1>7, LedgerStutter DEF Shrinking

LEMMA HousekeepingLedger ==
  ASSUME RInv, Housekeeping
  PROVE  [Ledger!Next]_(Ledger!ledgerVars)
<1>. TypeOK /\ UNCHANGED <<minted, signedOut, revoked>>
  BY HousekeepingShrinks DEF RInv, IInv, Shrinks, rotationVars
<1>1. ASSUME NEW h \in Hashes, ExpireLive(h)
      PROVE  [Ledger!Next]_(Ledger!ledgerVars)
  BY <1>1, EndStep DEF ExpireLive
<1>2. ASSUME ~\E h \in Hashes : ExpireLive(h)
      PROVE  live' = live
  BY <1>2 DEF Housekeeping, ExpireGrace, ExpireConsumed, ExpireFamily, ExpireIndex,
     PruneExpiredGraceMembers, PruneDeadMembers
<1>. QED
  BY <1>1, <1>2, LedgerStutter

LEMMA NextLedger == RInv /\ [Next]_vars => [Ledger!Next]_(Ledger!ledgerVars)
<1>1. ASSUME RInv, NEW r \in Requests, RefreshSign(r) \/ RevokeBump(r)
      PROVE  UNCHANGED <<live, minted, signedOut, revoked>>
  BY <1>1 DEF RefreshSign, RevokeBump, BumpEpoch, storeVars
<1>2. ASSUME NEW f \in Families, Age(f)
      PROVE  UNCHANGED <<live, minted, signedOut, revoked>>
  BY <1>2 DEF Age, storeVars
<1>3. ASSUME RInv, Next  PROVE [Ledger!Next]_(Ledger!ledgerVars)
  BY <1>1, <1>2, <1>3, StepCases, LoginStep, RotatedStep, RecoveredStep, ShrinkingLedger,
     HousekeepingLedger, LedgerStutter
<1>4. UNCHANGED vars => UNCHANGED <<live, minted, signedOut, revoked>>
  BY DEF vars, storeVars
<1>. QED
  BY <1>3, <1>4, LedgerStutter

-----------------------------------------------------------------------------
(* Whatever interleaves, races an expiry or dies half-way, every sign-in,   *)
(* refresh and revocation of TokenRotation is one step of the ledger or     *)
(* none.                                                                    *)
THEOREM LedgerImplemented == Spec => LedgerKept
  BY InitLedger, NextLedger, RInvariance, PTL DEF Spec, LedgerKept, Ledger!Spec
=============================================================================
