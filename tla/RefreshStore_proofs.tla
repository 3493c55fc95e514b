------------------------- MODULE RefreshStore_proofs -------------------------
(***************************************************************************)
(* What the scripts of RefreshStore do to the keyspace, whatever component  *)
(* runs them and for every set of users, lineages and tokens: each keeps it *)
(* well-typed, keeps every live session listed in the index of its owner,   *)
(* and never gives a key back to a token hash that lost it.                 *)
(***************************************************************************)
EXTENDS RefreshStore, TLAPS

(* The members "log out everywhere" walks include every live session.       *)
LiveListed == \A h \in Hashes : live[h] # None => Rt(h) \in index[live[h].user]

(* Only a hash that was minted has a key. *)
KeysMinted == \A h \in Hashes : live[h] # None \/ grace[h] # None => minted[h] # None

(* A step gives a minted hash no session, and no grace pointer unless it    *)
(* had a session to be exchanged.                                           *)
NoRevival ==
  \A h \in Hashes : minted[h] # None =>
    /\ minted'[h] = minted[h]
    /\ live[h] = None => live'[h] = None
    /\ live[h] # None => live'[h] \in {live[h], None}
    /\ live[h] = None /\ grace[h] = None => grace'[h] = None

(* A step only takes keys away. *)
OnlyRemoves ==
  /\ live' \in [Hashes -> Session \cup {None}] /\ grace' \in [Hashes -> Pointer \cup {None}]
  /\ \A h \in Hashes : live'[h] \in {live[h], None} /\ grace'[h] \in {grace[h], None}
  /\ minted' = minted

-----------------------------------------------------------------------------
(* The scripts that mint a hash *)

LEMMA MintedOnceStore ==
  ASSUME StoreTypeOK, NEW g \in Hashes, NEW s, NEW p, NEW how,
         [session |-> s, from |-> p, by |-> how] \in Mint, Minting(g, s, p, how)
  PROVE  /\ minted' \in [Hashes -> Mint \cup {None}]
         /\ minted'[g] = [session |-> s, from |-> p, by |-> how]
         /\ minted'[g] # None
         /\ \A h \in Hashes : h # g => minted'[h] = minted[h]
BY NoneAssumption DEF StoreTypeOK, Minting

LEMMA CreateSessionStore ==
  ASSUME StoreTypeOK, NEW g \in Hashes, NEW s \in Session, Fresh(g), CreateSession(g, s)
  PROVE  /\ StoreTypeOK'
         /\ minted'[g] # None /\ minted'[g].session = s /\ minted'[g].by = "login"
         /\ live'[g] = s
         /\ \A h \in Hashes : h # g => live'[h] = live[h] /\ minted'[h] = minted[h]
         /\ grace' = grace
         /\ LiveListed => LiveListed'
         /\ KeysMinted => KeysMinted'
         /\ NoRevival
<1>1. /\ minted' \in [Hashes -> Mint \cup {None}]
      /\ minted'[g] # None /\ minted'[g].session = s /\ minted'[g].by = "login"
      /\ \A h \in Hashes : h # g => minted'[h] = minted[h]
  <2>1. [session |-> s, from |-> None, by |-> "login"] \in Mint
    BY DEF Mint
  <2>. QED
    BY <2>1, MintedOnceStore DEF CreateSession
<1>2. s.user \in Users
  BY DEF Session
<1>3. /\ live' = [live EXCEPT ![g] = s]
      /\ index' = [index EXCEPT ![s.user] = @ \cup {Rt(g)}]
      /\ UNCHANGED <<grace, consumed, epoch>>
  BY DEF CreateSession
<1>4. /\ live'[g] = s
      /\ \A h \in Hashes : h # g => live'[h] = live[h] /\ minted'[h] = minted[h]
  BY <1>1, <1>3 DEF StoreTypeOK
<1>5. Rt(g) \in Members
  BY DEF Rt, Members
<1>6. StoreTypeOK'
  <2>1. index' \in [Users -> SUBSET Members] /\ live' \in [Hashes -> Session \cup {None}]
    BY <1>2, <1>3, <1>5 DEF StoreTypeOK
  <2>2. family' \in [Families -> SUBSET Hashes]
    BY DEF StoreTypeOK, CreateSession, JoinFamily
  <2>. QED
    BY <1>1, <1>3, <2>1, <2>2 DEF StoreTypeOK
<1>7. LiveListed => LiveListed'
  BY <1>2, <1>3, <1>4 DEF StoreTypeOK, LiveListed, Session
<1>8. (KeysMinted => KeysMinted') /\ NoRevival
  BY <1>1, <1>3, <1>4 DEF KeysMinted, NoRevival, Fresh
<1>. QED
  BY <1>1, <1>3, <1>4, <1>6, <1>7, <1>8

LEMMA RecoverGraceStore ==
  ASSUME StoreTypeOK, NEW g \in Hashes, NEW s \in Session, NEW old \in Hashes,
         Fresh(g), RecoverGrace(g, s, old)
  PROVE  /\ StoreTypeOK'
         /\ minted'[g] # None /\ minted'[g].session = s /\ minted'[g].by = "recover"
         /\ live'[g] = s
         /\ \A h \in Hashes : h # g => live'[h] = live[h] /\ minted'[h] = minted[h]
         /\ grace' = grace
         /\ LiveListed => LiveListed'
         /\ KeysMinted => KeysMinted'
         /\ NoRevival
<1>1. /\ minted' \in [Hashes -> Mint \cup {None}]
      /\ minted'[g] # None /\ minted'[g].session = s /\ minted'[g].by = "recover"
      /\ \A h \in Hashes : h # g => minted'[h] = minted[h]
  <2>1. [session |-> s, from |-> old, by |-> "recover"] \in Mint
    BY DEF Mint
  <2>. QED
    BY <2>1, MintedOnceStore DEF RecoverGrace
<1>2. s.user \in Users
  BY DEF Session
<1>3. /\ live' = [live EXCEPT ![g] = s]
      /\ index' = [index EXCEPT ![s.user] = @ \cup {Rt(g)}]
      /\ UNCHANGED <<grace, consumed, epoch>>
  BY DEF RecoverGrace
<1>4. /\ live'[g] = s
      /\ \A h \in Hashes : h # g => live'[h] = live[h] /\ minted'[h] = minted[h]
  BY <1>1, <1>3 DEF StoreTypeOK
<1>5. Rt(g) \in Members
  BY DEF Rt, Members
<1>6. StoreTypeOK'
  <2>1. index' \in [Users -> SUBSET Members] /\ live' \in [Hashes -> Session \cup {None}]
    BY <1>2, <1>3, <1>5 DEF StoreTypeOK
  <2>2. family' \in [Families -> SUBSET Hashes]
    BY DEF StoreTypeOK, RecoverGrace, JoinFamily
  <2>. QED
    BY <1>1, <1>3, <2>1, <2>2 DEF StoreTypeOK
<1>7. LiveListed => LiveListed'
  BY <1>2, <1>3, <1>4 DEF StoreTypeOK, LiveListed, Session
<1>8. (KeysMinted => KeysMinted') /\ NoRevival
  BY <1>1, <1>3, <1>4 DEF KeysMinted, NoRevival, Fresh
<1>. QED
  BY <1>1, <1>3, <1>4, <1>6, <1>7, <1>8

(* The record rotated is the one the presented hash holds.                  *)
LEMMA RotateLiveStore ==
  ASSUME StoreTypeOK, NEW old \in Hashes, NEW g \in Hashes, Fresh(g), minted[old] # None,
         RotateLive(old, g, live[old])
  PROVE  /\ StoreTypeOK'
         /\ live[old] \in Session /\ live[old] # None /\ g # old
         /\ minted'[g] # None /\ minted'[g].session = live[old]
         /\ minted'[g].by = "rotate" /\ minted'[g].from = old
         /\ live'[g] = live[old] /\ live'[old] = None
         /\ \A h \in Hashes : h # g => minted'[h] = minted[h]
         /\ \A h \in Hashes : h \notin {g, old} => live'[h] = live[h]
         /\ \A h \in Hashes : h # old => grace'[h] = grace[h]
         /\ grace'[old] = IF GraceOn THEN [to |-> g, session |-> live[old]] ELSE grace[old]
         /\ LiveListed => LiveListed'
         /\ KeysMinted => KeysMinted'
         /\ NoRevival
<1>. DEFINE s == live[old]
<1>1. s \in Session /\ s # None /\ g # old
  BY DEF RotateLive, IsLive, StoreTypeOK, Fresh
<1>2. /\ minted' \in [Hashes -> Mint \cup {None}]
      /\ minted'[g] # None /\ minted'[g].session = s
      /\ minted'[g].by = "rotate" /\ minted'[g].from = old
      /\ \A h \in Hashes : h # g => minted'[h] = minted[h]
  <2>1. [session |-> s, from |-> old, by |-> "rotate"] \in Mint
    BY <1>1 DEF Mint
  <2>. QED
    BY <2>1, MintedOnceStore DEF RotateLive
<1>3. s.user \in Users /\ s.family \in Families \cup {NoFamily}
  BY <1>1 DEF Session
<1>4. live' = [live EXCEPT ![g] = s, ![old] = None] /\ UNCHANGED epoch
  BY DEF RotateLive
<1>5. live'[g] = s /\ live'[old] = None /\ \A h \in Hashes : h \notin {g, old} => live'[h] = live[h]
  BY <1>1, <1>4 DEF StoreTypeOK
<1>6. /\ \A h \in Hashes : h # old => grace'[h] = grace[h]
      /\ grace'[old] = IF GraceOn THEN [to |-> g, session |-> s] ELSE grace[old]
      /\ grace' \in [Hashes -> Pointer \cup {None}]
  BY <1>1 DEF RotateLive, StoreTypeOK, Pointer
<1>7. index' = [index EXCEPT ![s.user] = ((@ \ {Rt(old)}) \cup {Rt(g)})
                                           \cup (IF GraceOn THEN {Rp(old)} ELSE {})]
  BY DEF RotateLive, MoveIndexMember
<1>8. Rt(g) \in Members /\ Rp(old) \in Members
  BY DEF Rt, Rp, Members
<1>9. index' \in [Users -> SUBSET Members]
  BY <1>3, <1>7, <1>8 DEF StoreTypeOK
<1>10. consumed' \in [Hashes -> Families \cup {None}] /\ family' \in [Families -> SUBSET Hashes]
  BY <1>3 DEF RotateLive, MoveFamilyMember, StoreTypeOK
<1>11. StoreTypeOK'
  BY <1>1, <1>2, <1>4, <1>6, <1>9, <1>10 DEF StoreTypeOK
<1>12. ASSUME LiveListed, NEW h \in Hashes, live'[h] # None
       PROVE  Rt(h) \in index'[live'[h].user]
  <2>1. CASE h = g
    BY <2>1, <1>3, <1>5, <1>7 DEF StoreTypeOK
  <2>2. CASE h # g
    <3>1. h # old /\ live'[h] = live[h] /\ live[h].user \in Users
      BY <2>2, <1>5, <1>12 DEF StoreTypeOK, Session
    <3>2. Rt(h) # Rt(old)
      BY <3>1 DEF Rt
    <3>. QED
      BY <3>1, <3>2, <1>3, <1>7, <1>12 DEF StoreTypeOK, LiveListed
  <2>. QED
    BY <2>1, <2>2
<1>13. (KeysMinted => KeysMinted') /\ NoRevival
  BY <1>1, <1>2, <1>5, <1>6 DEF KeysMinted, NoRevival, Fresh
<1>. QED
  BY <1>1, <1>2, <1>5, <1>6, <1>11, <1>12, <1>13 DEF LiveListed

-----------------------------------------------------------------------------
(* The scripts and expiries that only take keys away *)

LEMMA RemovesKeeps ==
  ASSUME OnlyRemoves
  PROVE  (KeysMinted => KeysMinted') /\ NoRevival
BY DEF OnlyRemoves, KeysMinted, NoRevival

LEMMA StutterStore ==
  ASSUME StoreTypeOK, UNCHANGED storeVars
  PROVE  StoreTypeOK' /\ OnlyRemoves /\ (LiveListed => LiveListed')
BY DEF storeVars, StoreTypeOK, OnlyRemoves, LiveListed

LEMMA RotateGraceStore ==
  ASSUME StoreTypeOK, NEW h \in Hashes, RotateGrace(h)
  PROVE  StoreTypeOK' /\ OnlyRemoves /\ (LiveListed => LiveListed')
BY DEF RotateGrace, SpendPointer, StoreTypeOK, OnlyRemoves, LiveListed

LEMMA RevokeSessionStore ==
  ASSUME StoreTypeOK, NEW u \in Users, NEW h \in Hashes, RevokeSession(u, h)
  PROVE  /\ StoreTypeOK' /\ OnlyRemoves
         /\ live'[h] = None /\ \A g \in Hashes : g # h => live'[g] = live[g]
         /\ LiveListed => LiveListed'
<1>1. /\ StoreTypeOK' /\ OnlyRemoves
      /\ live'[h] = None /\ \A g \in Hashes : g # h => live'[g] = live[g]
  BY DEF RevokeSession, StoreTypeOK, OnlyRemoves
<1>2. ASSUME LiveListed, NEW g \in Hashes, live'[g] # None
      PROVE  Rt(g) \in index'[live'[g].user]
  <2>1. g # h /\ live'[g] = live[g] /\ Rt(g) # Rt(h) /\ live[g].user \in Users
    BY <1>1, <1>2 DEF Rt, StoreTypeOK, Session
  <2>. QED
    BY <2>1, <1>2 DEF LiveListed, RevokeSession, StoreTypeOK
<1>. QED
  BY <1>1, <1>2 DEF LiveListed

LEMMA ExpireStore ==
  ASSUME StoreTypeOK, NEW h \in Hashes, ExpireLive(h) \/ ExpireGrace(h)
  PROVE  StoreTypeOK' /\ OnlyRemoves /\ (LiveListed => LiveListed')
BY DEF ExpireLive, ExpireGrace, StoreTypeOK, OnlyRemoves, LiveListed

LEMMA BumpEpochStore ==
  ASSUME StoreTypeOK, NEW u \in Users, BumpEpoch(u)
  PROVE  StoreTypeOK' /\ OnlyRemoves /\ (LiveListed => LiveListed')
BY DEF BumpEpoch, StoreTypeOK, OnlyRemoves, LiveListed
=============================================================================
