---------------------------- MODULE RefreshStore ----------------------------
(***************************************************************************)
(* The Redis keyspace one identity plane rotates refresh sessions over, and *)
(* the Lua scripts that change it.  A script is atomic, so each script is   *)
(* ONE action; the TypeScript that runs between two scripts lives in        *)
(* TokenRotation.                                                           *)
(*                                                                          *)
(* Keys (dashboard prefix / platform prefix):                               *)
(*   live[h]      rt:h  / prt:h    the session record of token hash h       *)
(*   grace[h]     rp:h  / prp:h    "{successor hash}:{record}"              *)
(*   consumed[h]  cf:h  / pcf:h    the family a rotated hash belonged to    *)
(*   family[f]    fam:f / pfam:f   the live hashes of a lineage             *)
(*   index[u]     sess:u/ psess:u  the keys "log out everywhere" walks      *)
(*   epoch[u]     ep:u  / pep:u    the token epoch of the account           *)
(* A Redis set with no member does not exist, so {} is the absent key.      *)
(*                                                                          *)
(* Abstracted: a record keeps its owner, lineage and second-factor bit; a   *)
(* user stands for a (tenant, user id) pair; a time to live is an expiry    *)
(* action guarded by what the code's EXPIRE calls order.                    *)
(***************************************************************************)
EXTENDS Naturals

CONSTANTS Users,        \* accounts
          Families,     \* lineage ids (random UUIDs)
          Hashes,       \* sha256 of every refresh token ever generated
          None,         \* an absent key
          NoUser,       \* the userId '' of a placeholder record
          NoFamily,     \* the familyId '' of a record written before lineages
          GraceOn       \* refreshGraceWindowSeconds > 0

ASSUME StoreAssumption ==
  /\ NoUser \notin Users
  /\ NoFamily \notin Families
  /\ GraceOn \in BOOLEAN

VARIABLES live, grace, consumed, family, index, epoch,
          minted        \* history: how each hash came to be; None if not yet

storeVars == <<live, grace, consumed, family, index, epoch, minted>>

-----------------------------------------------------------------------------
(* Type definitions *)

Session == [user : Users, family : Families \cup {NoFamily}, mfa : BOOLEAN]

(* A record a handler may hold; only a Session is ever stored. *)
Record == [user : Users \cup {NoUser}, family : Families \cup {NoFamily}, mfa : BOOLEAN]

(* What readSeedSession returns when rt:{old} is gone: a record of nobody. *)
Placeholder == [user |-> NoUser, family |-> NoFamily, mfa |-> FALSE]

Pointer == [to : Hashes, session : Session]

Rt(h) == <<"rt", h>>
Rp(h) == <<"rp", h>>
Members == {"rt", "rp"} \X Hashes

Mint == [session : Session, from : Hashes \cup {None},
         by : {"legacy", "login", "rotate", "recover"}]

(* An absent key is no token hash and no record of how one was minted. *)
ASSUME NoneAssumption == None \notin Hashes /\ None \notin Mint

(* The keyspace is well-typed.  Session has no NoUser, so this also says    *)
(* that the placeholder record of a missing key is never written back.      *)
StoreTypeOK ==
  /\ live \in [Hashes -> Session \cup {None}]
  /\ grace \in [Hashes -> Pointer \cup {None}]
  /\ consumed \in [Hashes -> Families \cup {None}]
  /\ family \in [Families -> SUBSET Hashes]
  /\ index \in [Users -> SUBSET Members]
  /\ epoch \in [Users -> Nat]
  /\ minted \in [Hashes -> Mint \cup {None}]

-----------------------------------------------------------------------------
(* Helper formulae *)

IsLive(h) == live[h] # None

LiveOf(u) == {h \in Hashes : live[h] # None /\ live[h].user = u}

LiveIn(f) == {h \in Hashes : live[h] # None /\ live[h].family = f}

(* generateSecureToken: a hash nobody has seen. *)
Fresh(h) == minted[h] = None

(* randomUUID: a lineage no record has ever named. *)
FreshFamily(f) ==
  \A h \in Hashes : minted[h] # None => minted[h].session.family # f

Minting(h, s, p, how) ==
  minted' = [minted EXCEPT ![h] = [session |-> s, from |-> p, by |-> how]]

-----------------------------------------------------------------------------
(* Initial state: a keyspace holding sessions an older release wrote, which *)
(* carry no lineage, or nothing at all.                                     *)

StoreInit(legacy) ==
  /\ live = [h \in Hashes |-> legacy[h]]
  /\ grace = [h \in Hashes |-> None]
  /\ consumed = [h \in Hashes |-> None]
  /\ family = [f \in Families |-> {}]
  /\ index = [u \in Users |->
                {Rt(h) : h \in {g \in Hashes : legacy[g] # None /\ legacy[g].user = u}}]
  /\ epoch = [u \in Users |-> 0]
  /\ minted = [h \in Hashes |->
                 IF legacy[h] = None THEN None
                 ELSE [session |-> legacy[h], from |-> None, by |-> "legacy"]]

-----------------------------------------------------------------------------
(* CREATE_SESSION_LUA: the record, its index member and its family member   *)
(* in one step.                                                             *)

JoinFamily(h, s) ==
  family' = [f \in Families |->
               IF f = s.family THEN family[f] \cup {h} ELSE family[f]]

CreateSession(h, s) ==
  /\ live' = [live EXCEPT ![h] = s]
  /\ index' = [index EXCEPT ![s.user] = @ \cup {Rt(h)}]
  /\ JoinFamily(h, s)
  /\ Minting(h, s, None, "login")
  /\ UNCHANGED <<grace, consumed, epoch>>

-----------------------------------------------------------------------------
(* ROTATE_LUA.  Its four answers are four actions; exactly one is enabled   *)
(* for a presented hash.                                                    *)

(* Mutant: the grace pointer is not indexed. *)
MoveIndexMemberNoPointer(old, new, u) ==
  index' = [index EXCEPT ![u] = (@ \ {Rt(old)}) \cup {Rt(new)}]

MoveIndexMember(old, new, u) ==
  index' = [index EXCEPT ![u] = ((@ \ {Rt(old)}) \cup {Rt(new)})
                                  \cup (IF GraceOn THEN {Rp(old)} ELSE {})]

(* Mutant: the old hash leaves the family and the new one never joins. *)
MoveFamilyMemberForget(old, new, s) ==
  family' = [f \in Families |-> IF f = s.family THEN family[f] \ {old} ELSE family[f]]

MoveFamilyMember(old, new, s) ==
  family' = [f \in Families |->
               IF f = s.family THEN (family[f] \ {old}) \cup {new} ELSE family[f]]

(* The live path: s is the record the caller built from its own earlier     *)
(* read of rt:{old}.                                                        *)
RotateLive(old, new, s) ==
  /\ IsLive(old)
  /\ live' = [live EXCEPT ![new] = s, ![old] = None]
  /\ grace' = IF GraceOn
                THEN [grace EXCEPT ![old] = [to |-> new, session |-> s]]
                ELSE grace
  /\ consumed' = IF s.family = NoFamily
                   THEN consumed
                   ELSE [consumed EXCEPT ![old] = s.family]
  /\ MoveFamilyMember(old, new, s)
  /\ MoveIndexMember(old, new, s.user)
  /\ Minting(new, s, old, "rotate")
  /\ UNCHANGED epoch

PointerRecovers(old) == grace[old] # None /\ live[grace[old].to] # None

(* Mutant: the pointer is left for its remaining window. *)
SpendPointerNever(old) == grace' = grace

SpendPointer(old) == grace' = [grace EXCEPT ![old] = None]

(* 'GRACE:' -- the pointer is consumed, its record handed to the caller. *)
RotateGrace(old) ==
  /\ ~IsLive(old)
  /\ PointerRecovers(old)
  /\ SpendPointer(old)
  /\ UNCHANGED <<live, consumed, family, index, epoch, minted>>

(* 'REUSED:' -- consumed before, and nothing to recover. *)
RotateReused(old) ==
  /\ ~IsLive(old)
  /\ ~PointerRecovers(old)
  /\ consumed[old] # None
  /\ SpendPointer(old)
  /\ UNCHANGED <<live, consumed, family, index, epoch, minted>>

RotateInvalid(old) ==
  /\ ~IsLive(old)
  /\ ~PointerRecovers(old)
  /\ consumed[old] = None
  /\ SpendPointer(old)
  /\ UNCHANGED <<live, consumed, family, index, epoch, minted>>

-----------------------------------------------------------------------------
(* RECOVER_GRACE_LUA: written only while the account still has an index and *)
(* the lineage still has a family set.                                      *)

FamilyExists(f) == f \in Families => family[f] # {}

(* Mutant: the index witness is not consulted. *)
MayRecoverNoWitness(s) == FamilyExists(s.family)

(* Mutant: the family is not re-checked at the write. *)
MayRecoverNoFamily(s) == index[s.user] # {}

MayRecover(s) == index[s.user] # {} /\ FamilyExists(s.family)

RecoverGrace(h, s, old) ==
  /\ MayRecover(s)
  /\ live' = [live EXCEPT ![h] = s]
  /\ index' = [index EXCEPT ![s.user] = @ \cup {Rt(h)}]
  /\ JoinFamily(h, s)
  /\ Minting(h, s, old, "recover")
  /\ UNCHANGED <<grace, consumed, epoch>>

-----------------------------------------------------------------------------
(* REVOKE_FAMILY_LUA: the membership is re-read inside the script.  owner   *)
(* is NoUser when the caller found no readable member record.               *)

(* Mutant: only the sessions of the owner it was told of. *)
RevokeFamilyOfOwner(f, owner) ==
  /\ live' = [h \in Hashes |->
                IF h \in family[f] /\ IsLive(h) /\ live[h].user = owner THEN None ELSE live[h]]
  /\ index' = [u \in Users |->
                 IF u = owner THEN index[u] \ {Rt(h) : h \in family[f]} ELSE index[u]]
  /\ family' = [family EXCEPT ![f] = {}]
  /\ UNCHANGED <<grace, consumed, epoch, minted>>

RevokeFamily(f, owner) ==
  /\ live' = [h \in Hashes |-> IF h \in family[f] THEN None ELSE live[h]]
  /\ index' = [u \in Users |->
                 IF u = owner THEN index[u] \ {Rt(h) : h \in family[f]} ELSE index[u]]
  /\ family' = [family EXCEPT ![f] = {}]
  /\ UNCHANGED <<grace, consumed, epoch, minted>>

(* REVOKE_SESSION_LUA, for the user whose index names h. *)
RevokeSession(u, h) ==
  /\ Rt(h) \in index[u]
  /\ live' = [live EXCEPT ![h] = None]
  /\ index' = [index EXCEPT ![u] = @ \ {Rt(h)}]
  /\ UNCHANGED <<grace, consumed, family, epoch, minted>>

(* sweepSessionIndex: every key the index names, then the index itself.     *)
(* The family sets are not touched.                                         *)
SweepIndex(u) ==
  /\ live' = [h \in Hashes |-> IF Rt(h) \in index[u] THEN None ELSE live[h]]
  /\ grace' = [h \in Hashes |-> IF Rp(h) \in index[u] THEN None ELSE grace[h]]
  /\ index' = [index EXCEPT ![u] = {}]
  /\ UNCHANGED <<consumed, family, epoch, minted>>

(* bumpUserTokenEpoch.  Start-up refuses an access lifetime longer than the *)
(* retention of the epoch key, which thus outlives every token stamped      *)
(* below it: it never expires here.                                         *)
BumpEpoch(u) ==
  /\ epoch' = [epoch EXCEPT ![u] = @ + 1]
  /\ UNCHANGED <<live, grace, consumed, family, index, minted>>

-----------------------------------------------------------------------------
(* The two prunes a session listing runs detached from its answer.          *)

PruneExpiredGraceMembers(u) ==
  LET dead == {Rp(h) : h \in {g \in Hashes : grace[g] = None}}
  IN  /\ index[u] \cap dead # {}
      /\ index' = [index EXCEPT ![u] = @ \ dead]
      /\ UNCHANGED <<live, grace, consumed, family, epoch, minted>>

(* Mutant: a member listed as stale is removed without asking again. *)
DeadMembersUnchecked(stale) == {Rt(h) : h \in stale}

DeadMembers(stale) == {Rt(h) : h \in {g \in stale : live[g] = None}}

(* stale: the hashes whose detail the listing could not read. *)
PruneDeadMembers(u, stale) ==
  /\ index[u] \cap DeadMembers(stale) # {}
  /\ index' = [index EXCEPT ![u] = @ \ DeadMembers(stale)]
  /\ UNCHANGED <<live, grace, consumed, family, epoch, minted>>

-----------------------------------------------------------------------------
(* Expiry.  Every script that writes a live record re-arms the index and    *)
(* the family set with the same refresh lifetime, and the grace window is   *)
(* shorter than that, so a set outlives every key it names; a consumed      *)
(* marker is written with its successor, for as long.                       *)

ExpireLive(h) ==
  /\ IsLive(h)
  /\ live' = [live EXCEPT ![h] = None]
  /\ UNCHANGED <<grace, consumed, family, index, epoch, minted>>

ExpireGrace(h) ==
  /\ grace[h] # None
  /\ grace' = [grace EXCEPT ![h] = None]
  /\ UNCHANGED <<live, consumed, family, index, epoch, minted>>

ExpireConsumed(h) ==
  /\ consumed[h] # None
  /\ \A g \in Hashes : minted[g] # None /\ minted[g].from = h
                         /\ minted[g].by = "rotate" => live[g] = None
  /\ consumed' = [consumed EXCEPT ![h] = None]
  /\ UNCHANGED <<live, grace, family, index, epoch, minted>>

ExpireFamily(f) ==
  /\ family[f] # {}
  /\ LiveIn(f) = {}
  /\ family' = [family EXCEPT ![f] = {}]
  /\ UNCHANGED <<live, grace, consumed, index, epoch, minted>>

ExpireIndex(u) ==
  /\ index[u] # {}
  /\ LiveOf(u) = {}
  /\ \A h \in Hashes : grace[h] # None => grace[h].session.user # u
  /\ index' = [index EXCEPT ![u] = {}]
  /\ UNCHANGED <<live, grace, consumed, family, epoch, minted>>
=============================================================================
