----------------------- MODULE SessionManagement_proofs -----------------------
(***************************************************************************)
(* The safety of SessionManagement for every set of accounts, lineages,     *)
(* tokens and handlers, every limit, and whichever handlers and failures    *)
(* run.                                                                     *)
(*                                                                          *)
(* Every handler acts on a listing it read some steps ago.  IInv says what  *)
(* that listing is still good for: its hashes stay minted, those it was to  *)
(* end are ended or still on it, at most one of them is of the caller's     *)
(* device, and with the evictions left on it an overfull account is back    *)
(* within its limit.                                                        *)
(***************************************************************************)
EXTENDS SessionManagement, RefreshStore_proofs, FiniteSetTheorems

-----------------------------------------------------------------------------
(* The inductive invariant *)

(* Every key of a hash was written from the record it was minted with, and  *)
(* a pointer leads to a hash of the same device.                            *)
KeyLinks(h) ==
  /\ live[h] # None => minted[h] # None /\ live[h] = minted[h].session
  /\ grace[h] # None => /\ minted[h] # None /\ live[h] = None
                        /\ grace[h].session = minted[h].session
                        /\ minted[grace[h].to] # None /\ device[grace[h].to] = device[h]
  /\ minted[h] # None => device[h] \in Hashes /\ minted[device[h]] # None

(* An index names hashes of its user, and pointers of exchanged ones only.  *)
IndexLinks(u) ==
  \A h \in Hashes :
    /\ Rt(h) \in index[u] => minted[h] # None /\ minted[h].session.user = u
    /\ Rp(h) \in index[u] => minted[h] # None /\ live[h] = None

(* One listed session per device: a refresh replaces it in one step.        *)
OnePerDevice ==
  \A u, v \in Users, g, h \in Hashes :
    Rt(g) \in index[u] /\ Rt(h) \in index[v] /\ device[g] = device[h] => g = h

PointerListed == \A h \in Hashes : grace[h] # None => Rp(h) \in index[grace[h].session.user]

StoreLinks ==
  /\ \A h \in Hashes : KeyLinks(h)
  /\ \A u \in Users : IndexLinks(u)
  /\ OnePerDevice /\ PointerListed /\ LiveListed

(* Once exchanged or ended, a token has no session and no pointer again.    *)
Dead(h) == h \in Hashes /\ minted[h] # None /\ live[h] = None /\ grace[h] = None

Minted(H) == \A h \in H : minted[h] # None

(* The members of its listing a sign-in has read the age of. *)
Read(q) == {h \in Hashes : q.ages[h] # None}

SignInLinks(q) ==
  q.pc \in {"created", "detailed", "pruned", "ranking", "evicting", "unindexing", "forgetting"} =>
    /\ q.user \in Users /\ q.hash \in Hashes /\ minted[q.hash] # None
    /\ Minted(q.todo) /\ Minted(Read(q))
    /\ q.pc \in {"ranking", "evicting", "unindexing", "forgetting"} => q.count >= 1
    /\ q.pc \in {"unindexing", "forgetting"} =>
         /\ q.other \in Hashes /\ minted[q.other] # None /\ live[q.other] = None

RefreshLinks(q) ==
  /\ q.pc = "graced" => q.rec \in Session /\ q.other \in Hashes
  /\ q.pc \in {"rotated", "dated"} => q.hash \in Hashes /\ q.other \in Hashes

(* The sessions and pointers that were to end have ended or are still on    *)
(* the listing, and none on the listing is of the caller's device but the   *)
(* one to be kept.                                                          *)
ListingLinks(q) ==
  q.pc \in {"resolving", "revoking", "unlisting"} =>
    /\ q.user \in Users /\ q.hash \in Hashes /\ minted[q.hash] # None
    /\ \A h \in q.todo : minted[h] # None /\ minted[h].session.user = q.user
    /\ \A h \in q.others : minted[h] # None /\ (live[h] = None \/ h \in q.todo)
    /\ \A h \in q.pointers : minted[h] # None /\ live[h] = None
    /\ \A h \in q.armed : /\ minted[h] # None /\ live[h] = None
                          /\ grace[h] = None \/ h \in q.pointers
    /\ q.pc = "resolving" => \A g, h \in q.todo : device[g] = device[h] => g = h
    /\ q.pc # "resolving" => \A h \in q.todo : device[h] # device[q.hash]
    /\ q.pc = "unlisting" => Dead(q.other)

BumpingLinks(q) == q.pc = "bumping" => q.user \in Users

RequestLinks(r) ==
  /\ SignInLinks(req[r])
  /\ RefreshLinks(req[r])
  /\ ListingLinks(req[r])
  /\ BumpingLinks(req[r])

HistoryLinks ==
  /\ Minted(given)
  /\ \A e \in ended : /\ minted[e.hash] # None /\ minted[e.by] # None
                      /\ device[e.hash] # device[e.by]
  /\ \A h \in settled : minted[h] # None /\ live[h] = None
  /\ \A h \in spent : Dead(h)

SafeInv ==
  /\ TypeOK /\ StoreLinks /\ HistoryLinks
  /\ \A r \in Requests : RequestLinks(r)

(* What the listing of a sign-in leaves of the account, and how far its     *)
(* evictions are.                                                           *)
Remaining(q) ==
  q.todo \cup {h \in Read(q) : q.pc = "ranking" \/ h = q.hash}

CountLinks(q) ==
  /\ q.pc \in {"created", "detailed", "pruned"} => Read(q) = {}
  /\ q.pc \in {"ranking", "evicting"} =>
       Cardinality(Remaining(q)) = Limit + q.count
  /\ q.pc \in {"unindexing", "forgetting"} =>
       Cardinality(Remaining(q)) = Limit + q.count - 1
  /\ q.pc \in {"evicting", "unindexing", "forgetting"} => q.hash \notin q.todo

(* An account above its limit has a sign-in that has not listed it yet, or  *)
(* one whose listing names every session of it.                             *)
WillList(r, u) == req[r].pc \in {"created", "detailed", "pruned"} /\ req[r].user = u

HasListed(r, u) == Listing(r) /\ req[r].user = u /\ LiveOf(u) \subseteq Remaining(req[r])

WithinLimit(u) == \/ Cardinality(LiveOf(u)) <= Limit
                  \/ \E r \in Requests : WillList(r, u) \/ HasListed(r, u)

LimitLinks == ~loose => \A u \in Users : WithinLimit(u)

IInv == SafeInv /\ (\A r \in Requests : CountLinks(req[r])) /\ LimitLinks

-----------------------------------------------------------------------------
(* Steps that take keys away *)

(* A step that only takes keys away, each index member after its key.       *)
Removes ==
  /\ StoreTypeOK' /\ OnlyRemoves
  /\ \A u \in Users, h \in Hashes :
       /\ Rt(h) \in index'[u] => Rt(h) \in index[u]
       /\ Rp(h) \in index'[u] => Rp(h) \in index[u]
       /\ Rt(h) \in index[u] => Rt(h) \in index'[u] \/ live'[h] = None
       /\ Rp(h) \in index[u] => Rp(h) \in index'[u] \/ grace'[h] = None
  /\ device' = device

(* No step gives a key back, nor moves a token to another device.           *)
Evolves ==
  /\ NoRevival
  /\ \A h \in Hashes : minted[h] # None => device'[h] = device[h]

LEMMA RemovesStore ==
  ASSUME SafeInv, Removes
  PROVE  StoreLinks' /\ Evolves
<1>. StoreTypeOK /\ StoreTypeOK' /\ StoreLinks
  BY DEF SafeInv, TypeOK, Removes
<1>1. ASSUME NEW h \in Hashes  PROVE KeyLinks(h)'
  BY DEF StoreLinks, KeyLinks, Removes, OnlyRemoves
<1>2. ASSUME NEW u \in Users  PROVE IndexLinks(u)'
  BY DEF StoreLinks, IndexLinks, Removes, OnlyRemoves
<1>3. OnePerDevice'
  BY DEF StoreLinks, OnePerDevice, Removes
<1>4. ASSUME NEW h \in Hashes, grace'[h] # None
      PROVE  Rp(h) \in index'[grace'[h].session.user]
  <2>1. grace'[h] = grace[h] /\ grace[h] # None
    BY <1>4 DEF Removes, OnlyRemoves
  <2>2. grace[h].session.user \in Users
    BY <2>1 DEF StoreTypeOK, Pointer, Session
  <2>. QED
    BY <1>4, <2>1, <2>2 DEF StoreLinks, PointerListed, Removes
<1>5. ASSUME NEW h \in Hashes, live'[h] # None
      PROVE  Rt(h) \in index'[live'[h].user]
  <2>1. live'[h] = live[h] /\ live[h] # None
    BY <1>5 DEF Removes, OnlyRemoves
  <2>2. live[h].user \in Users
    BY <2>1 DEF StoreTypeOK, Session
  <2>. QED
    BY <1>5, <2>1, <2>2 DEF StoreLinks, LiveListed, Removes
<1>6. Evolves
  BY RemovesKeeps DEF Evolves, Removes
<1>. QED
  BY <1>1, <1>2, <1>3, <1>4, <1>5, <1>6 DEF StoreLinks, PointerListed, LiveListed

(* The commands of the handlers and of the clock that take keys away. *)
LEMMA StutterRemoves ==
  ASSUME StoreTypeOK, UNCHANGED storeVars, device' = device
  PROVE  Removes
BY StutterStore DEF storeVars, Removes

LEMMA UnindexRemoves ==
  ASSUME StoreTypeOK, NEW u \in Users, NEW member, Unindex(u, member), device' = device,
         \A h \in Hashes : /\ member = Rt(h) => live[h] = None
                           /\ member = Rp(h) => grace[h] = None
  PROVE  Removes
BY DEF Unindex, StoreTypeOK, OnlyRemoves, Removes

LEMMA RevokeSessionRemoves ==
  ASSUME StoreTypeOK, NEW u \in Users, NEW h \in Hashes, RevokeSession(u, h), device' = device
  PROVE  Removes
<1>1. StoreTypeOK' /\ OnlyRemoves /\ live'[h] = None
  BY RevokeSessionStore
<1>2. ASSUME NEW v \in Users, NEW g \in Hashes
      PROVE  /\ Rt(g) \in index'[v] => Rt(g) \in index[v]
             /\ Rp(g) \in index'[v] => Rp(g) \in index[v]
             /\ Rt(g) \in index[v] => Rt(g) \in index'[v] \/ live'[g] = None
             /\ Rp(g) \in index[v] => Rp(g) \in index'[v]
  <2>1. Rp(g) # Rt(h) /\ (Rt(g) = Rt(h) => g = h)
    BY DEF Rp, Rt
  <2>. QED
    BY <1>1, <2>1 DEF RevokeSession, StoreTypeOK
<1>. QED
  BY <1>1, <1>2 DEF Removes

LEMMA KeysRemoves ==
  ASSUME StoreTypeOK, device' = device, StoreTypeOK', OnlyRemoves, index' = index
  PROVE  Removes
BY DEF Removes

(* Every step but the three that mint a token is of this kind. *)
Minter(r) == \/ \E u \in Users, h \in Hashes : SignIn(r, u, h)
             \/ \E h, g \in Hashes : RefreshRotate(r, h, g)
             \/ \E h \in Hashes : RefreshRecover(r, h)

Remover(r) == \/ SignInDetail(r)
              \/ SignInPrune(r)
              \/ SignInList(r)
              \/ \E h \in Hashes : SignInReadAge(r, h) \/ SignInEvict(r, h)
              \/ SignInUnindex(r)
              \/ SignInForget(r)
              \/ SignInReadFails(r)
              \/ SignInEvictFails(r)
              \/ \E h \in Hashes : RefreshGrace(r, h)
              \/ RefreshRefused(r)
              \/ RotateReadDetail(r)
              \/ RotateWriteDetail(r)
              \/ Revoking(r)

LEMMA StepCases ==
  ASSUME Next
  PROVE  (\E r \in Requests : Minter(r) \/ Remover(r)) \/ Lapse
BY DEF Next, SigningIn, Refreshing, Minter, Remover

LEMMA LapseRemoves ==
  ASSUME SafeInv, Lapse
  PROVE  Removes
<1>1. PICK h \in Hashes : ExpireLive(h) \/ ExpireGrace(h)
  BY DEF Lapse
<1>2. index' = index /\ device' = device
  BY <1>1 DEF Lapse, ExpireLive, ExpireGrace, historyVars
<1>. QED
  BY <1>1, <1>2, ExpireStore, KeysRemoves DEF SafeInv, TypeOK

LEMMA RevokingRemoves ==
  ASSUME SafeInv, NEW r \in Requests, Revoking(r)
  PROVE  Removes
<1>. StoreTypeOK /\ req[r] \in Request /\ RequestLinks(r)
  BY DEF SafeInv, TypeOK
<1>1. CASE UNCHANGED storeVars /\ device' = device
  BY <1>1, StutterRemoves
<1>2. ASSUME NEW u \in Users, NEW h \in Hashes, RevokeOne(r, u, h)
      PROVE  Removes
  BY <1>2, RevokeSessionRemoves DEF RevokeOne, historyVars
<1>3. ASSUME NEW h \in Hashes, RevokeOthersNext(r, h)
      PROVE  Removes
  <2>1. req[r].user \in Users
    BY <1>3 DEF RevokeOthersNext, At, RequestLinks, ListingLinks
  <2>. QED
    BY <1>3, <2>1, RevokeSessionRemoves DEF RevokeOthersNext
<1>4. ASSUME NEW h \in Hashes, RevokeOthersPointer(r, h)
      PROVE  Removes
  <2>1. /\ grace' = [grace EXCEPT ![h] = None] /\ device' = device
        /\ UNCHANGED <<live, consumed, family, index, epoch, minted>>
    BY <1>4 DEF RevokeOthersPointer, SpendPointer, historyVars
  <2>2. StoreTypeOK' /\ OnlyRemoves
    BY <2>1 DEF StoreTypeOK, OnlyRemoves
  <2>. QED
    BY <2>1, <2>2, KeysRemoves
<1>5. CASE RevokeOthersUnlist(r)
  <2>1. req[r].user \in Users /\ Dead(req[r].other)
    BY <1>5 DEF RevokeOthersUnlist, At, RequestLinks, ListingLinks
  <2>2. \A h \in Hashes : /\ Rp(req[r].other) # Rt(h)
                          /\ Rp(req[r].other) = Rp(h) => grace[h] = None
    BY <2>1 DEF Rt, Rp, Dead
  <2>. QED
    BY <1>5, <2>1, <2>2, UnindexRemoves DEF RevokeOthersUnlist, historyVars
<1>6. CASE RevokeOthersBump(r) \/ RevokeOneBump(r)
  <2>1. req[r].user \in Users
    BY <1>6 DEF RevokeOthersBump, RevokeOneBump, At, RequestLinks, ListingLinks, BumpingLinks
  <2>2. BumpEpoch(req[r].user) /\ device' = device
    BY <1>6 DEF RevokeOthersBump, RevokeOneBump, historyVars
  <2>3. index' = index
    BY <2>2 DEF BumpEpoch
  <2>. QED
    BY <2>1, <2>2, <2>3, BumpEpochStore, KeysRemoves
<1>. QED
  BY <1>1, <1>2, <1>3, <1>4, <1>5, <1>6 DEF Revoking, RevokeOthersList, RevokeOthersResolve,
     RevokeOthersMissing, historyVars

LEMMA RemoverRemoves ==
  ASSUME SafeInv, NEW r \in Requests, Remover(r)
  PROVE  Removes
<1>. StoreTypeOK /\ req[r] \in Request /\ RequestLinks(r)
  BY DEF SafeInv, TypeOK
<1>1. CASE UNCHANGED storeVars /\ device' = device
  BY <1>1, StutterRemoves
<1>2. CASE SignInPrune(r)
  <2>. DEFINE gone == {Rp(h) : h \in {g \in Hashes : grace[g] = None}}
  <2>1. req[r].user \in Users
    BY <1>2 DEF SignInPrune, At, RequestLinks, SignInLinks
  <2>2. /\ index' = [index EXCEPT ![req[r].user] = @ \ gone]
        /\ UNCHANGED <<live, grace, consumed, family, epoch, minted>> /\ device' = device
    BY <1>2 DEF SignInPrune, historyVars
  <2>3. \A h \in Hashes : Rt(h) \notin gone /\ (Rp(h) \in gone => grace[h] = None)
    BY DEF Rt, Rp
  <2>. HIDE DEF gone
  <2>. QED
    BY <2>1, <2>2, <2>3 DEF Removes, OnlyRemoves, StoreTypeOK
<1>3. ASSUME NEW h \in Hashes, SignInEvict(r, h)
      PROVE  Removes
  <2>1. /\ live' = [live EXCEPT ![h] = None] /\ device' = device
        /\ UNCHANGED <<grace, consumed, family, index, epoch, minted>>
    BY <1>3 DEF SignInEvict, historyVars
  <2>2. StoreTypeOK' /\ OnlyRemoves
    BY <2>1 DEF StoreTypeOK, OnlyRemoves
  <2>. QED
    BY <2>1, <2>2, KeysRemoves
<1>4. CASE SignInUnindex(r)
  <2>1. req[r].user \in Users /\ live[req[r].other] = None
    BY <1>4 DEF SignInUnindex, At, RequestLinks, SignInLinks
  <2>2. \A h \in Hashes : /\ Rt(req[r].other) # Rp(h)
                          /\ Rt(req[r].other) = Rt(h) => live[h] = None
    BY <2>1 DEF Rt, Rp
  <2>. QED
    BY <1>4, <2>1, <2>2, UnindexRemoves DEF SignInUnindex, historyVars
<1>5. ASSUME NEW h \in Hashes, RefreshGrace(r, h)
      PROVE  Removes
  <2>1. RotateGrace(h) /\ device' = device
    BY <1>5 DEF RefreshGrace, historyVars
  <2>2. index' = index
    BY <2>1 DEF RotateGrace
  <2>. QED
    BY <2>1, <2>2, RotateGraceStore, KeysRemoves
<1>6. CASE Revoking(r)
  BY <1>6, RevokingRemoves
<1>. QED
  BY <1>1, <1>2, <1>3, <1>4, <1>5, <1>6 DEF Remover, SignInDetail, SignInList, SignInReadAge,
     SignInForget, SignInReadFails, SignInEvictFails, RefreshRefused, RotateReadDetail,
     RotateWriteDetail, historyVars

-----------------------------------------------------------------------------
(* The three steps that mint a token *)

(* A sign-in and a recovery start a new device: nothing of it is listed.    *)
LEMMA NewDevice ==
  ASSUME SafeInv, NEW g \in Hashes, NEW s \in Session, Fresh(g),
         StoreTypeOK', LiveListed', NoRevival,
         minted'[g] # None, minted'[g].session = s, live'[g] = s, grace' = grace,
         \A h \in Hashes : h # g => live'[h] = live[h] /\ minted'[h] = minted[h],
         index' = [index EXCEPT ![s.user] = @ \cup {Rt(g)}],
         device' = [device EXCEPT ![g] = g]
  PROVE  StoreLinks' /\ Evolves
<1>. TypeOK /\ StoreTypeOK /\ StoreLinks /\ s.user \in Users /\ minted[g] = None
  BY DEF SafeInv, TypeOK, Session, Fresh
<1>0. device'[g] = g /\ \A h \in Hashes : h # g => device'[h] = device[h]
  BY DEF TypeOK
<1>1. live[g] = None /\ grace[g] = None
  BY DEF StoreLinks, KeyLinks
<1>2. \A u \in Users, h \in Hashes :
        /\ Rt(h) \in index'[u] => Rt(h) \in index[u] \/ (h = g /\ u = s.user)
        /\ Rp(h) \in index'[u] => Rp(h) \in index[u]
        /\ Rp(h) \in index[u] => Rp(h) \in index'[u]
  BY DEF Rt, Rp, StoreTypeOK
<1>3. ASSUME NEW h \in Hashes  PROVE KeyLinks(h)'
  <2>1. live'[h] # None => minted'[h] # None /\ live'[h] = minted'[h].session
    BY DEF StoreLinks, KeyLinks
  <2>2. minted'[h] # None => device'[h] \in Hashes /\ minted'[device'[h]] # None
    BY <1>0 DEF StoreLinks, KeyLinks
  <2>3. ASSUME grace[h] # None
        PROVE  /\ minted'[h] # None /\ live'[h] = None
               /\ grace[h].session = minted'[h].session
               /\ minted'[grace[h].to] # None /\ device'[grace[h].to] = device'[h]
    <3>1. grace[h].to \in Hashes /\ h # g
      BY <1>1, <2>3 DEF StoreTypeOK, Pointer
    <3>2. /\ minted[h] # None /\ live[h] = None
          /\ grace[h].session = minted[h].session
          /\ minted[grace[h].to] # None /\ device[grace[h].to] = device[h]
      BY <2>3 DEF StoreLinks, KeyLinks
    <3>. QED
      BY <3>1, <3>2, <1>0
  <2>. QED
    BY <2>1, <2>2, <2>3 DEF KeyLinks
<1>4. ASSUME NEW u \in Users  PROVE IndexLinks(u)'
  BY <1>2 DEF StoreLinks, IndexLinks
<1>5. ASSUME NEW u \in Users, NEW v \in Users, NEW h \in Hashes, NEW k \in Hashes,
             Rt(h) \in index'[u], Rt(k) \in index'[v], device'[h] = device'[k]
      PROVE  h = k
  <2>1. ASSUME NEW x \in Hashes, NEW w \in Users, x # g, Rt(x) \in index'[w]
        PROVE  Rt(x) \in index[w] /\ device'[x] = device[x] /\ device[x] # g
    <3>1. Rt(x) \in index[w] /\ minted[x] # None
      BY <1>2, <2>1 DEF StoreLinks, IndexLinks
    <3>. QED
      BY <1>0, <2>1, <3>1 DEF StoreLinks, KeyLinks
  <2>. QED
    BY <1>0, <1>5, <2>1 DEF StoreLinks, OnePerDevice
<1>6. PointerListed'
  <2>1. \A h \in Hashes : grace[h] # None => grace[h].session.user \in Users
    BY DEF StoreTypeOK, Pointer, Session
  <2>. QED
    BY <1>2, <2>1 DEF StoreLinks, PointerListed
<1>7. Evolves
  BY <1>0 DEF Evolves
<1>. QED
  BY <1>3, <1>4, <1>5, <1>6, <1>7 DEF StoreLinks, OnePerDevice

LEMMA SignInStore ==
  ASSUME SafeInv, NEW r \in Requests, NEW u \in Users, NEW g \in Hashes, SignIn(r, u, g)
  PROVE  /\ StoreTypeOK' /\ StoreLinks' /\ Evolves
         /\ minted'[g] # None
         /\ \A h \in Hashes : h # g => live'[h] = live[h]
         /\ live'[g].user = u
<1>1. PICK f \in Families : CreateSession(g, [user |-> u, family |-> f, mfa |-> FALSE])
  BY DEF SignIn
<1>. DEFINE s == [user |-> u, family |-> f, mfa |-> FALSE]
<1>2. s \in Session /\ s.user = u
  BY DEF Session
<1>. HIDE DEF s
<1>3. Fresh(g) /\ device' = [device EXCEPT ![g] = g] /\ CreateSession(g, s)
  BY <1>1 DEF SignIn, s
<1>4. index' = [index EXCEPT ![s.user] = @ \cup {Rt(g)}]
  BY <1>3 DEF CreateSession
<1>5. StoreTypeOK /\ LiveListed
  BY DEF SafeInv, TypeOK, StoreLinks
<1>. QED
  BY <1>2, <1>3, <1>4, <1>5, CreateSessionStore, NewDevice

LEMMA RecoverStore ==
  ASSUME SafeInv, NEW r \in Requests, NEW g \in Hashes, RefreshRecover(r, g)
  PROVE  StoreTypeOK' /\ StoreLinks' /\ Evolves /\ minted'[g] # None
<1>. DEFINE s == req[r].rec
<1>1. s \in Session /\ req[r].other \in Hashes
  BY DEF SafeInv, RequestLinks, RefreshLinks, RefreshRecover, At
<1>2. RecoverGrace(g, s, req[r].other) /\ Fresh(g) /\ device' = [device EXCEPT ![g] = g]
  BY DEF RefreshRecover
<1>3. index' = [index EXCEPT ![s.user] = @ \cup {Rt(g)}]
  BY <1>2 DEF RecoverGrace
<1>4. StoreTypeOK /\ LiveListed
  BY DEF SafeInv, TypeOK, StoreLinks
<1>. HIDE DEF s
<1>. QED
  BY <1>1, <1>2, <1>3, <1>4, RecoverGraceStore, NewDevice

(* A rotation moves the device from one listed hash to the next. *)
LEMMA RotateStore ==
  ASSUME SafeInv, NEW r \in Requests, NEW old \in Hashes, NEW g \in Hashes,
         RefreshRotate(r, old, g)
  PROVE  /\ StoreTypeOK' /\ StoreLinks' /\ Evolves
         /\ minted[g] = None /\ minted'[g] # None /\ live[old] # None /\ live[g] = None
         /\ live'[g] = live[old] /\ live'[old] = None /\ g # old
         /\ \A h \in Hashes : h \notin {g, old} => live'[h] = live[h]
<1>. DEFINE s == live[old]
<1>. TypeOK /\ StoreTypeOK /\ StoreLinks
  BY DEF SafeInv, TypeOK
<1>0. /\ RotateLive(old, g, s) /\ minted[g] = None /\ s # None /\ s = minted[old].session
      /\ minted[old] # None /\ device' = [device EXCEPT ![g] = device[old]]
  BY DEF RefreshRotate, IsLive, Fresh, StoreLinks, KeyLinks
<1>1. /\ StoreTypeOK' /\ LiveListed' /\ NoRevival /\ s \in Session /\ g # old
      /\ minted'[g] # None /\ minted'[g].session = s
      /\ live'[g] = s /\ live'[old] = None
      /\ \A h \in Hashes : h # g => minted'[h] = minted[h]
      /\ \A h \in Hashes : h \notin {g, old} => live'[h] = live[h]
      /\ \A h \in Hashes : h # old => grace'[h] = grace[h]
      /\ grace'[old] = IF GraceOn THEN [to |-> g, session |-> s] ELSE grace[old]
  BY <1>0, RotateLiveStore DEF Fresh, StoreLinks
<1>2. device'[g] = device[old] /\ \A h \in Hashes : h # g => device'[h] = device[h]
  BY <1>0 DEF TypeOK, StoreLinks, KeyLinks
<1>3. live[g] = None /\ grace[g] = None /\ grace[old] = None /\ s.user \in Users
  BY <1>0, <1>1 DEF StoreLinks, KeyLinks, Session
<1>4. index' = [index EXCEPT ![s.user] = ((@ \ {Rt(old)}) \cup {Rt(g)})
                                           \cup (IF GraceOn THEN {Rp(old)} ELSE {})]
  BY <1>0 DEF RotateLive, MoveIndexMember
<1>5. \A u \in Users, h \in Hashes :
        /\ Rt(h) \in index'[u] => \/ Rt(h) \in index[u] /\ (u = s.user => h # old)
                                  \/ h = g /\ u = s.user
        /\ Rp(h) \in index'[u] => Rp(h) \in index[u] \/ h = old
        /\ Rp(h) \in index[u] => Rp(h) \in index'[u]
  <2>1. ASSUME NEW u \in Users, u # s.user  PROVE index'[u] = index[u]
    BY <1>4, <2>1 DEF StoreTypeOK
  <2>2. index'[s.user] = ((index[s.user] \ {Rt(old)}) \cup {Rt(g)})
                           \cup (IF GraceOn THEN {Rp(old)} ELSE {})
    BY <1>3, <1>4 DEF StoreTypeOK
  <2>3. \A h, k \in Hashes : Rt(h) # Rp(k) /\ (Rt(h) = Rt(k) => h = k) /\ (Rp(h) = Rp(k) => h = k)
    BY DEF Rt, Rp
  <2>. QED
    BY <2>1, <2>2, <2>3
<1>6. GraceOn => Rp(old) \in index'[s.user]
  BY <1>3, <1>4 DEF StoreTypeOK
<1>7. ASSUME NEW h \in Hashes  PROVE KeyLinks(h)'
  <2>1. live'[h] # None => minted'[h] # None /\ live'[h] = minted'[h].session
    BY <1>1 DEF StoreLinks, KeyLinks
  <2>2. minted'[h] # None => device'[h] \in Hashes /\ minted'[device'[h]] # None
    BY <1>0, <1>1, <1>2 DEF StoreLinks, KeyLinks
  <2>3. ASSUME grace'[h] # None, h # old
        PROVE  /\ minted'[h] # None /\ live'[h] = None
               /\ grace'[h].session = minted'[h].session
               /\ minted'[grace'[h].to] # None /\ device'[grace'[h].to] = device'[h]
    <3>1. grace'[h] = grace[h] /\ grace[h].to \in Hashes /\ h # g
      BY <1>1, <1>3, <2>3 DEF StoreTypeOK, Pointer
    <3>2. /\ minted[h] # None /\ live[h] = None
          /\ grace[h].session = minted[h].session
          /\ minted[grace[h].to] # None /\ device[grace[h].to] = device[h]
      BY <2>3, <3>1 DEF StoreLinks, KeyLinks
    <3>3. grace[h].to # g
      BY <1>0, <3>2
    <3>. QED
      BY <1>0, <1>1, <1>2, <2>3, <3>1, <3>2, <3>3
  <2>4. ASSUME grace'[old] # None
        PROVE  /\ minted'[old] # None /\ live'[old] = None
               /\ grace'[old].session = minted'[old].session
               /\ minted'[grace'[old].to] # None /\ device'[grace'[old].to] = device'[old]
    BY <1>0, <1>1, <1>2, <1>3, <2>4
  <2>. QED
    BY <2>1, <2>2, <2>3, <2>4 DEF KeyLinks
<1>8. ASSUME NEW u \in Users  PROVE IndexLinks(u)'
  BY <1>0, <1>1, <1>5 DEF StoreLinks, IndexLinks
<1>9. ASSUME NEW u \in Users, NEW v \in Users, NEW h \in Hashes, NEW k \in Hashes,
             Rt(h) \in index'[u], Rt(k) \in index'[v], device'[h] = device'[k]
      PROVE  h = k
  <2>1. ASSUME NEW x \in Hashes, NEW w \in Users, x # g, Rt(x) \in index'[w]
        PROVE  Rt(x) \in index[w] /\ device'[x] = device[x] /\ device[x] # device[old]
    <3>1. Rt(x) \in index[w] /\ (w = s.user => x # old)
      BY <1>5, <2>1
    <3>2. minted[x].session.user = w
      BY <3>1 DEF StoreLinks, IndexLinks
    <3>3. x # old
      BY <1>0, <3>1, <3>2
    <3>4. Rt(old) \in index[s.user]
      BY <1>0 DEF StoreLinks, LiveListed
    <3>. QED
      BY <1>2, <1>3, <2>1, <3>1, <3>3, <3>4 DEF StoreLinks, OnePerDevice
  <2>. QED
    BY <1>2, <1>9, <2>1 DEF StoreLinks, OnePerDevice
<1>10. ASSUME NEW h \in Hashes, grace'[h] # None
       PROVE  Rp(h) \in index'[grace'[h].session.user]
  <2>1. CASE h = old
    BY <1>1, <1>3, <1>6, <1>10, <2>1
  <2>2. CASE h # old
    <3>1. grace'[h] = grace[h] /\ grace[h].session.user \in Users
      BY <1>1, <1>10, <2>2 DEF StoreTypeOK, Pointer, Session
    <3>. QED
      BY <1>5, <1>10, <3>1 DEF StoreLinks, PointerListed
  <2>. QED
    BY <2>1, <2>2
<1>11. Evolves
  BY <1>0, <1>1, <1>2 DEF Evolves
<1>. QED
  BY <1>0, <1>1, <1>3, <1>7, <1>8, <1>9, <1>10, <1>11 DEF StoreLinks, OnePerDevice, PointerListed

LEMMA StoreStep ==
  ASSUME SafeInv, Next
  PROVE  StoreTypeOK' /\ StoreLinks' /\ Evolves
<1>1. CASE Removes
  BY <1>1, RemovesStore DEF Removes
<1>. QED
  BY <1>1, StepCases, LapseRemoves, RemoverRemoves, SignInStore, RecoverStore, RotateStore
     DEF Minter

-----------------------------------------------------------------------------
(* What a step does to the handlers *)

SigningPCs == {"created", "detailed", "pruned", "ranking", "evicting", "unindexing", "forgetting"}

ListingPCs == {"ranking", "evicting", "unindexing", "forgetting"}

EndingPCs == {"resolving", "revoking", "unlisting"}

LEMMA MoveType ==
  ASSUME TypeOK, NEW r \in Requests, NEW q \in Request, Goto(r, q)
  PROVE  req' \in [Requests -> Request] /\ req'[r] = q
BY DEF TypeOK, Goto

LEMMA IdleLinks ==
  ASSUME NEW r \in Requests, req'[r] = Idle
  PROVE  RequestLinks(r)'
BY DEF RequestLinks, SignInLinks, RefreshLinks, ListingLinks, BumpingLinks, Idle

LEMMA IdleType == Idle \in Request
BY DEF Idle, Request, PCs

(* A handler that does not move keeps what it knows. *)
LEMMA SleepingLinks ==
  ASSUME SafeInv, Evolves, NEW r \in Requests, req'[r] = req[r]
  PROVE  RequestLinks(r)'
<1>. RequestLinks(r) /\ req[r] \in Request
  BY DEF SafeInv, TypeOK
<1>1. SignInLinks(req[r])'
  BY DEF RequestLinks, SignInLinks, Minted, Read, Evolves, NoRevival, Request
<1>2. RefreshLinks(req[r])' /\ BumpingLinks(req[r])'
  BY DEF RequestLinks, RefreshLinks, BumpingLinks
<1>3. ListingLinks(req[r])'
  <2>. SUFFICES ASSUME req[r].pc \in EndingPCs  PROVE ListingLinks(req[r])'
    BY DEF ListingLinks, EndingPCs
  <2>. DEFINE q == req[r]
  <2>1. /\ q.user \in Users /\ q.hash \in Hashes /\ minted[q.hash] # None
        /\ \A h \in q.todo : minted[h] # None /\ minted[h].session.user = q.user
        /\ \A h \in q.others : minted[h] # None /\ (live[h] = None \/ h \in q.todo)
        /\ \A h \in q.pointers : minted[h] # None /\ live[h] = None
        /\ \A h \in q.armed : /\ minted[h] # None /\ live[h] = None
                              /\ grace[h] = None \/ h \in q.pointers
        /\ q.pc = "resolving" => \A g, h \in q.todo : device[g] = device[h] => g = h
        /\ q.pc # "resolving" => \A h \in q.todo : device[h] # device[q.hash]
        /\ q.pc = "unlisting" => Dead(q.other)
    BY DEF RequestLinks, ListingLinks, EndingPCs
  <2>2. /\ q.todo \subseteq Hashes /\ q.others \subseteq Hashes
        /\ q.pointers \subseteq Hashes /\ q.armed \subseteq Hashes
    BY DEF Request
  <2>. HIDE DEF q
  <2>3. /\ minted'[q.hash] # None
        /\ \A h \in q.todo : minted'[h] # None /\ minted'[h].session.user = q.user
        /\ \A h \in q.others : minted'[h] # None /\ (live'[h] = None \/ h \in q.todo)
        /\ \A h \in q.pointers : minted'[h] # None /\ live'[h] = None
        /\ \A h \in q.armed : /\ minted'[h] # None /\ live'[h] = None
                              /\ grace'[h] = None \/ h \in q.pointers
        /\ q.pc = "unlisting" => /\ q.other \in Hashes /\ minted'[q.other] # None
                                 /\ live'[q.other] = None /\ grace'[q.other] = None
    BY <2>1, <2>2 DEF Evolves, NoRevival, Dead
  <2>4. /\ q.pc = "resolving" => \A g, h \in q.todo : device'[g] = device'[h] => g = h
        /\ q.pc # "resolving" => \A h \in q.todo : device'[h] # device'[q.hash]
    BY <2>1, <2>2 DEF Evolves
  <2>5. req'[r] = q
    BY DEF q
  <2>. QED
    BY <2>1, <2>3, <2>4, <2>5 DEF ListingLinks, Dead
<1>. QED
  BY <1>1, <1>2, <1>3 DEF RequestLinks

(* A sign-in that goes on keeps its user and its session. *)
LEMMA SigningLinks ==
  ASSUME SafeInv, Evolves, NEW r \in Requests, req[r].pc \in SigningPCs,
         req'[r].pc \in SigningPCs, req'[r].user = req[r].user, req'[r].hash = req[r].hash,
         req'[r].todo \subseteq Hashes, Minted(req'[r].todo), Minted(Read(req'[r])),
         req'[r].pc \in ListingPCs => req'[r].count >= 1,
         req'[r].pc \in {"unindexing", "forgetting"} =>
           /\ req'[r].other \in Hashes /\ minted[req'[r].other] # None
           /\ live'[req'[r].other] = None
  PROVE  RequestLinks(r)'
<1>1. req[r].user \in Users /\ req[r].hash \in Hashes /\ minted[req[r].hash] # None
  BY DEF SafeInv, RequestLinks, SignInLinks, SigningPCs
<1>2. /\ \A h \in req'[r].todo : minted'[h] # None
      /\ \A h \in Read(req'[r]) : minted'[h] # None
  BY DEF Minted, Read, Evolves, NoRevival
<1>3. SignInLinks(req[r])'
  BY <1>1, <1>2 DEF SignInLinks, SigningPCs, ListingPCs, Minted, Read, Evolves, NoRevival
<1>4. RefreshLinks(req[r])' /\ ListingLinks(req[r])' /\ BumpingLinks(req[r])'
  BY DEF SigningPCs, RefreshLinks, ListingLinks, BumpingLinks
<1>. QED
  BY <1>3, <1>4 DEF RequestLinks

LEMMA SignInMoves ==
  ASSUME SafeInv, Evolves, NEW r \in Requests, NEW u \in Users, NEW g \in Hashes,
         SignIn(r, u, g), minted'[g] # None
  PROVE  req' \in [Requests -> Request] /\ RequestLinks(r)'
<1>1. [Idle EXCEPT !.pc = "created", !.user = u, !.hash = g] \in Request
  BY IdleType DEF Request, PCs
<1>2. /\ req' \in [Requests -> Request]
      /\ req'[r] = [Idle EXCEPT !.pc = "created", !.user = u, !.hash = g]
  BY <1>1, MoveType DEF SafeInv, SignIn
<1>3. req'[r].pc = "created" /\ req'[r].user = u /\ req'[r].hash = g /\ req'[r].todo = {}
      /\ Read(req'[r]) = {}
  BY <1>2 DEF Idle, Read
<1>. QED
  BY <1>2, <1>3 DEF RequestLinks, SignInLinks, RefreshLinks, ListingLinks, BumpingLinks, Minted,
     Read

LEMMA FiniteCount ==
  ASSUME NEW H \in SUBSET Hashes
  PROVE  IsFiniteSet(H) /\ Cardinality(H) \in Nat /\ Excess(H) \in Nat
<1>1. IsFiniteSet(H) /\ Cardinality(H) \in Nat
  BY SessionAssumption, FS_Subset, FS_CardinalityType
<1>. QED
  BY <1>1, SessionAssumption DEF Excess

(* The steps of a sign-in that go on. *)
LEMMA SigningMoves ==
  ASSUME SafeInv, Evolves, NEW r \in Requests,
         \/ SignInDetail(r) \/ SignInPrune(r) \/ SignInList(r)
         \/ \E h \in Hashes : SignInReadAge(r, h) \/ SignInEvict(r, h)
         \/ SignInUnindex(r) \/ SignInForget(r) \/ SignInReadFails(r) \/ SignInEvictFails(r)
  PROVE  req' \in [Requests -> Request] /\ RequestLinks(r)'
<1>. TypeOK /\ StoreTypeOK /\ req[r] \in Request /\ RequestLinks(r) /\ StoreLinks
  BY DEF SafeInv, TypeOK
<1>1. ASSUME Finish(r)  PROVE req' \in [Requests -> Request] /\ RequestLinks(r)'
  BY <1>1, IdleType, MoveType, IdleLinks DEF Finish
<1>2. CASE SignInDetail(r) \/ SignInPrune(r) \/ SignInUnindex(r)
  <2>1. PICK pc \in {"detailed", "pruned", "forgetting"} :
          /\ req[r].pc \in {"created", "detailed", "unindexing"}
          /\ pc = "forgetting" => req[r].pc = "unindexing"
          /\ Goto(r, [req[r] EXCEPT !.pc = pc])
    BY <1>2 DEF SignInDetail, SignInPrune, SignInUnindex, At
  <2>2. [req[r] EXCEPT !.pc = pc] \in Request
    BY DEF Request, PCs
  <2>3. req' \in [Requests -> Request] /\ req'[r] = [req[r] EXCEPT !.pc = pc]
    BY <2>1, <2>2, MoveType
  <2>4. /\ req'[r].pc = pc /\ req'[r].user = req[r].user /\ req'[r].hash = req[r].hash
        /\ req'[r].todo = req[r].todo /\ req'[r].other = req[r].other
        /\ req[r].todo \subseteq Hashes /\ Read(req'[r]) = Read(req[r])
        /\ req'[r].count = req[r].count
    BY <2>3 DEF Request, Read
  <2>5. /\ req[r].pc \in SigningPCs /\ req'[r].pc \in SigningPCs
        /\ Minted(req[r].todo) /\ Minted(Read(req[r]))
        /\ req'[r].pc \in ListingPCs => req[r].count >= 1
        /\ req[r].pc = "unindexing" => /\ req[r].other \in Hashes /\ minted[req[r].other] # None
                                       /\ live'[req[r].other] = None
    BY <2>1, <2>4 DEF SigningPCs, ListingPCs, RequestLinks, SignInLinks, Evolves, NoRevival
  <2>. QED
    BY <2>1, <2>3, <2>4, <2>5, SigningLinks
<1>3. CASE SignInList(r)
  <2>. DEFINE members == Listed(req[r].user)
  <2>. DEFINE q == [req[r] EXCEPT !.pc = "ranking", !.todo = members, !.count = Excess(members)]
  <2>1. req[r].pc = "pruned" /\ req[r].user \in Users
    BY <1>3 DEF SignInList, At, RequestLinks, SignInLinks
  <2>2. members \in SUBSET Hashes /\ Minted(members)
    BY <2>1 DEF Listed, Minted, StoreLinks, IndexLinks
  <2>3. q \in Request
    BY <2>2, FiniteCount DEF Request, PCs
  <2>4. CASE Excess(members) # 0 /\ Goto(r, q)
    <3>0. Excess(members) >= 1
      BY <2>2, <2>4, FiniteCount
    <3>1. req' \in [Requests -> Request] /\ req'[r] = q
      BY <2>3, <2>4, MoveType
    <3>2. /\ req'[r].pc = "ranking" /\ req'[r].user = req[r].user /\ req'[r].hash = req[r].hash
          /\ req'[r].todo = members /\ Read(req'[r]) = Read(req[r])
          /\ req'[r].count = Excess(members)
      BY <3>1 DEF Request, Read
    <3>3. Minted(Read(req[r]))
      BY <2>1 DEF RequestLinks, SignInLinks
    <3>. QED
      BY <2>1, <2>2, <3>0, <3>1, <3>2, <3>3, SigningLinks DEF SigningPCs
  <2>. QED
    BY <1>1, <1>3, <2>4 DEF SignInList
<1>4. ASSUME NEW h \in Hashes, SignInReadAge(r, h)
      PROVE  req' \in [Requests -> Request] /\ RequestLinks(r)'
  <2>. DEFINE left == req[r].todo \ {h}
  <2>. DEFINE ages == [req[r].ages EXCEPT ![h] = AgeOf(h)]
  <2>1. /\ req[r].pc = "ranking" /\ h \in req[r].todo
        /\ Minted(req[r].todo) /\ Minted(Read(req[r])) /\ req[r].count >= 1
    BY <1>4 DEF SignInReadAge, At, RequestLinks, SignInLinks
  <2>2. AgeOf(h) \in Nat
    BY DEF AgeOf, TypeOK
  <2>3. left \subseteq Hashes /\ ages \in [Hashes -> Nat \cup {None}]
    BY <2>2 DEF Request
  <2>4. Minted(left) /\ Minted({g \in Hashes : ages[g] # None})
    BY <2>1 DEF Minted, Read, Request
  <2>. HIDE DEF ages, left
  <2>5. ASSUME NEW pc \in {"ranking", "evicting"}, NEW todo \in SUBSET Hashes, Minted(todo),
               Goto(r, [req[r] EXCEPT !.pc = pc, !.todo = todo, !.ages = ages])
        PROVE  req' \in [Requests -> Request] /\ RequestLinks(r)'
    <3>1. [req[r] EXCEPT !.pc = pc, !.todo = todo, !.ages = ages] \in Request
      BY <2>3 DEF Request, PCs
    <3>2. /\ req' \in [Requests -> Request]
          /\ req'[r] = [req[r] EXCEPT !.pc = pc, !.todo = todo, !.ages = ages]
      BY <2>5, <3>1, MoveType
    <3>3. /\ req'[r].pc = pc /\ req'[r].user = req[r].user /\ req'[r].hash = req[r].hash
          /\ req'[r].todo = todo /\ req'[r].ages = ages /\ req'[r].count = req[r].count
      BY <3>2 DEF Request
    <3>4. Minted(Read(req'[r]))
      BY <2>4, <3>3 DEF Read
    <3>. QED
      BY <2>1, <2>5, <3>2, <3>3, <3>4, SigningLinks DEF SigningPCs
  <2>6. CASE Goto(r, [req[r] EXCEPT !.todo = left, !.ages = ages])
    <3>1. [req[r] EXCEPT !.todo = left, !.ages = ages] =
            [req[r] EXCEPT !.pc = "ranking", !.todo = left, !.ages = ages]
      BY <2>1 DEF Request
    <3>. QED
      BY <2>3, <2>4, <2>5, <2>6, <3>1
  <2>7. CASE Goto(r, [req[r] EXCEPT !.pc = "evicting", !.ages = ages,
                        !.todo = {g \in Hashes : ages[g] # None} \ {req[r].hash}])
    <3>. DEFINE todo == {g \in Hashes : ages[g] # None} \ {req[r].hash}
    <3>1. todo \in SUBSET Hashes /\ Minted(todo)
      BY <2>4 DEF Minted
    <3>. HIDE DEF todo
    <3>2. [req[r] EXCEPT !.pc = "evicting", !.ages = ages, !.todo = todo] =
            [req[r] EXCEPT !.pc = "evicting", !.todo = todo, !.ages = ages]
      BY DEF Request
    <3>. QED
      BY <2>5, <2>7, <3>1, <3>2 DEF todo
  <2>. QED
    BY <1>4, <2>6, <2>7 DEF SignInReadAge, left, ages
<1>5. ASSUME NEW h \in Hashes, SignInEvict(r, h)
      PROVE  req' \in [Requests -> Request] /\ RequestLinks(r)'
  <2>. DEFINE q == [req[r] EXCEPT !.pc = "unindexing", !.other = h, !.todo = @ \ {h}]
  <2>1. /\ req[r].pc = "evicting" /\ h \in req[r].todo /\ live' = [live EXCEPT ![h] = None]
        /\ Goto(r, q) /\ Minted(req[r].todo) /\ Minted(Read(req[r])) /\ req[r].count >= 1
    BY <1>5 DEF SignInEvict, Oldest, At, RequestLinks, SignInLinks
  <2>2. q \in Request
    BY DEF Request, PCs
  <2>3. req' \in [Requests -> Request] /\ req'[r] = q
    BY <2>1, <2>2, MoveType
  <2>4. /\ req'[r].pc = "unindexing" /\ req'[r].user = req[r].user
        /\ req'[r].hash = req[r].hash /\ req'[r].other = h
        /\ req'[r].todo = req[r].todo \ {h} /\ Read(req'[r]) = Read(req[r])
        /\ req[r].todo \subseteq Hashes /\ req'[r].count = req[r].count
    BY <2>3 DEF Request, Read
  <2>5. Minted(req'[r].todo) /\ minted[h] # None /\ live'[h] = None
    BY <2>1, <2>4 DEF Minted, StoreTypeOK
  <2>. QED
    BY <2>1, <2>3, <2>4, <2>5, SigningLinks DEF SigningPCs
<1>6. ASSUME req[r].pc \in {"unindexing", "forgetting"}, NextEviction(r)
      PROVE  req' \in [Requests -> Request] /\ RequestLinks(r)'
  <2>. DEFINE q == [req[r] EXCEPT !.pc = "evicting", !.count = @ - 1, !.other = None]
  <2>1. CASE Goto(r, q) /\ req[r].count # 1
    <3>1. /\ req[r].count \in Nat /\ req[r].count >= 1
          /\ Minted(req[r].todo) /\ Minted(Read(req[r]))
      BY <1>6 DEF RequestLinks, SignInLinks, Request
    <3>2. req[r].count - 1 \in Nat /\ req[r].count - 1 >= 1
      BY <2>1, <3>1
    <3>3. q \in Request
      BY <3>2 DEF Request, PCs
    <3>4. req' \in [Requests -> Request] /\ req'[r] = q
      BY <2>1, <3>3, MoveType
    <3>5. /\ req'[r].pc = "evicting" /\ req'[r].user = req[r].user
          /\ req'[r].hash = req[r].hash /\ req'[r].count = req[r].count - 1
          /\ req'[r].todo = req[r].todo /\ Read(req'[r]) = Read(req[r])
          /\ req[r].todo \subseteq Hashes
      BY <3>4 DEF Request, Read
    <3>. QED
      BY <1>6, <3>1, <3>2, <3>4, <3>5, SigningLinks DEF SigningPCs
  <2>. QED
    BY <1>1, <1>6, <2>1 DEF NextEviction
<1>7. CASE SignInForget(r) \/ SignInReadFails(r) \/ SignInEvictFails(r)
  BY <1>1, <1>6, <1>7 DEF SignInForget, SignInReadFails, SignInEvictFails, At
<1>. QED
  BY <1>2, <1>3, <1>4, <1>5, <1>7

(* A refresh, and the detail rotation after it. *)
LEMMA RefreshingMoves ==
  ASSUME SafeInv, Evolves, NEW r \in Requests,
         \/ \E h, g \in Hashes : RefreshRotate(r, h, g)
         \/ \E h \in Hashes : RefreshGrace(r, h) \/ RefreshRecover(r, h)
         \/ RefreshRefused(r) \/ RotateReadDetail(r) \/ RotateWriteDetail(r)
  PROVE  req' \in [Requests -> Request] /\ RequestLinks(r)'
<1>. TypeOK /\ StoreTypeOK /\ req[r] \in Request /\ RequestLinks(r)
  BY DEF SafeInv, TypeOK
<1>1. ASSUME NEW q \in Request, Goto(r, q), q.pc \in {"graced", "rotated", "dated"},
             q.other \in Hashes, q.pc = "graced" => q.rec \in Session,
             q.pc # "graced" => q.hash \in Hashes
      PROVE  req' \in [Requests -> Request] /\ RequestLinks(r)'
  <2>1. req' \in [Requests -> Request] /\ req'[r] = q
    BY <1>1, MoveType
  <2>. QED
    BY <1>1, <2>1 DEF RequestLinks, SignInLinks, RefreshLinks, ListingLinks, BumpingLinks
<1>2. ASSUME NEW h \in Hashes, NEW g \in Hashes, RefreshRotate(r, h, g)
      PROVE  req' \in [Requests -> Request] /\ RequestLinks(r)'
  <2>. DEFINE q == [Idle EXCEPT !.pc = "rotated", !.hash = g, !.other = h]
  <2>1. q \in Request
    BY IdleType DEF Request, PCs
  <2>2. q.pc = "rotated" /\ q.hash = g /\ q.other = h
    BY DEF Idle
  <2>. HIDE DEF q
  <2>3. Goto(r, q)
    BY <1>2 DEF RefreshRotate, q
  <2>. QED
    BY <1>1, <2>1, <2>2, <2>3
<1>3. ASSUME NEW h \in Hashes, RefreshGrace(r, h)
      PROVE  req' \in [Requests -> Request] /\ RequestLinks(r)'
  <2>. DEFINE q == [Idle EXCEPT !.pc = "graced", !.other = h, !.rec = grace[h].session]
  <2>0. grace[h].session \in Session
    BY <1>3 DEF RefreshGrace, RotateGrace, PointerRecovers, StoreTypeOK, Pointer
  <2>1. q \in Request
    BY <2>0, IdleType DEF Request, PCs
  <2>2. q.pc = "graced" /\ q.other = h /\ q.rec \in Session
    BY <2>0 DEF Idle
  <2>. HIDE DEF q
  <2>3. Goto(r, q)
    BY <1>3 DEF RefreshGrace, q
  <2>. QED
    BY <1>1, <2>1, <2>2, <2>3
<1>4. ASSUME NEW g \in Hashes, RefreshRecover(r, g)
      PROVE  req' \in [Requests -> Request] /\ RequestLinks(r)'
  <2>. DEFINE q == [req[r] EXCEPT !.pc = "rotated", !.hash = g, !.rec = None]
  <2>1. q \in Request
    BY DEF Request, PCs
  <2>2. q.pc = "rotated" /\ q.hash = g /\ q.other \in Hashes
    BY <1>4 DEF Request, RefreshRecover, At, RequestLinks, RefreshLinks
  <2>. HIDE DEF q
  <2>3. Goto(r, q)
    BY <1>4 DEF RefreshRecover, q
  <2>. QED
    BY <1>1, <2>1, <2>2, <2>3
<1>5. CASE RotateReadDetail(r)
  <2>1. req[r].hash \in Hashes /\ req[r].other \in Hashes
    BY <1>5 DEF RotateReadDetail, At, RequestLinks, RefreshLinks
  <2>2. PICK date \in {IF detail[req[r].other] = None THEN now ELSE detail[req[r].other]}
                        \cup (IF "fail" \in Explored THEN {now} ELSE {}) :
          Goto(r, [req[r] EXCEPT !.pc = "dated", !.date = date])
    BY <1>5 DEF RotateReadDetail
  <2>. DEFINE q == [req[r] EXCEPT !.pc = "dated", !.date = date]
  <2>3. date \in Nat
    BY <2>1 DEF TypeOK
  <2>4. q \in Request
    BY <2>3 DEF Request, PCs
  <2>5. q.pc = "dated" /\ q.hash \in Hashes /\ q.other \in Hashes
    BY <2>1 DEF Request
  <2>6. Goto(r, q)
    BY <2>2
  <2>. HIDE DEF q
  <2>. QED
    BY <1>1, <2>4, <2>5, <2>6
<1>6. CASE RefreshRefused(r) \/ RotateWriteDetail(r)
  BY <1>6, IdleType, MoveType, IdleLinks DEF RefreshRefused, RotateWriteDetail, Finish
<1>. QED
  BY <1>2, <1>3, <1>4, <1>5, <1>6

(* A revocation that goes on through its listing: what it drops is gone.    *)
LEMMA EndingMoves ==
  ASSUME SafeInv, Evolves, NEW r \in Requests, NEW q \in Request, Goto(r, q),
         req[r].pc \in EndingPCs, q.pc \in {"revoking", "unlisting"},
         q.user = req[r].user, q.hash = req[r].hash, q.armed = req[r].armed,
         q.todo \subseteq req[r].todo, q.others \subseteq req[r].others,
         q.pointers \subseteq req[r].pointers,
         \A h \in q.others : h \in req[r].todo => h \in q.todo \/ live'[h] = None,
         \A h \in req[r].pointers : h \in q.pointers \/ grace'[h] = None,
         \A h \in q.todo : device[h] # device[q.hash],
         q.pc = "unlisting" => /\ q.other \in Hashes /\ minted[q.other] # None
                               /\ live'[q.other] = None /\ grace'[q.other] = None
  PROVE  req' \in [Requests -> Request] /\ RequestLinks(r)'
<1>. req[r] \in Request /\ RequestLinks(r)
  BY DEF SafeInv, TypeOK
<1>. DEFINE p == req[r]
<1>1. /\ p.user \in Users /\ p.hash \in Hashes /\ minted[p.hash] # None
      /\ \A h \in p.todo : minted[h] # None /\ minted[h].session.user = p.user
      /\ \A h \in p.others : minted[h] # None /\ (live[h] = None \/ h \in p.todo)
      /\ \A h \in p.pointers : minted[h] # None /\ live[h] = None
      /\ \A h \in p.armed : /\ minted[h] # None /\ live[h] = None
                            /\ grace[h] = None \/ h \in p.pointers
  BY DEF RequestLinks, ListingLinks, EndingPCs
<1>2. /\ p.todo \subseteq Hashes /\ p.others \subseteq Hashes
      /\ p.pointers \subseteq Hashes /\ p.armed \subseteq Hashes
  BY DEF Request
<1>3. req' \in [Requests -> Request] /\ req'[r] = q
  BY MoveType DEF SafeInv
<1>4. minted'[q.hash] # None
  BY <1>1 DEF Evolves, NoRevival
<1>5. \A h \in q.todo : minted'[h] # None /\ minted'[h].session.user = q.user
  BY <1>1, <1>2 DEF Evolves, NoRevival
<1>6. \A h \in q.others : minted'[h] # None /\ (live'[h] = None \/ h \in q.todo)
  BY <1>1, <1>2 DEF Evolves, NoRevival
<1>7. \A h \in q.pointers : minted'[h] # None /\ live'[h] = None
  BY <1>1, <1>2 DEF Evolves, NoRevival
<1>8. \A h \in q.armed : /\ minted'[h] # None /\ live'[h] = None
                         /\ grace'[h] = None \/ h \in q.pointers
  BY <1>1, <1>2 DEF Evolves, NoRevival
<1>9. \A h \in q.todo : device'[h] # device'[q.hash]
  BY <1>1, <1>2 DEF Evolves
<1>10. q.pc = "unlisting" => /\ q.other \in Hashes /\ minted'[q.other] # None
                             /\ live'[q.other] = None /\ grace'[q.other] = None
  BY DEF Evolves, NoRevival
<1>11. ListingLinks(req[r])'
  BY <1>1, <1>3, <1>4, <1>5, <1>6, <1>7, <1>8, <1>9, <1>10 DEF ListingLinks, Dead
<1>12. SignInLinks(req[r])' /\ RefreshLinks(req[r])' /\ BumpingLinks(req[r])'
  BY <1>3 DEF SignInLinks, RefreshLinks, BumpingLinks
<1>. QED
  BY <1>3, <1>11, <1>12 DEF RequestLinks

LEMMA ListMoves ==
  ASSUME SafeInv, NEW r \in Requests, NEW u \in Users, NEW g \in Hashes,
         RevokeOthersList(r, u, g)
  PROVE  req' \in [Requests -> Request] /\ RequestLinks(r)'
<1>. TypeOK /\ StoreTypeOK /\ StoreLinks
  BY DEF SafeInv, TypeOK
<1>. DEFINE q == [Idle EXCEPT !.pc = "resolving", !.user = u, !.hash = g, !.todo = Listed(u),
                   !.pointers = ListedPointers(u), !.others = LiveOf(u), !.armed = ArmedOf(u)]
<1>1. UNCHANGED storeVars /\ device' = device /\ Goto(r, q) /\ minted[g] # None
  BY DEF RevokeOthersList, historyVars, SafeInv, HistoryLinks, Minted
<1>2. q \in Request
  BY IdleType DEF Request, PCs, Listed, ListedPointers, LiveOf, ArmedOf
<1>3. req' \in [Requests -> Request] /\ req'[r] = q
  BY <1>1, <1>2, MoveType
<1>4. /\ q.pc = "resolving" /\ q.user = u /\ q.hash = g /\ q.todo = Listed(u)
      /\ q.pointers = ListedPointers(u) /\ q.others = LiveOf(u) /\ q.armed = ArmedOf(u)
  BY DEF Idle
<1>. HIDE DEF q
<1>5. \A h \in Listed(u) : minted[h] # None /\ minted[h].session.user = u
  BY DEF Listed, StoreLinks, IndexLinks
<1>6. \A h \in LiveOf(u) : minted[h] # None /\ h \in Listed(u)
  BY DEF LiveOf, Listed, StoreLinks, KeyLinks, LiveListed
<1>7. \A h \in ListedPointers(u) : minted[h] # None /\ live[h] = None
  BY DEF ListedPointers, StoreLinks, IndexLinks
<1>8. \A h \in ArmedOf(u) : minted[h] # None /\ live[h] = None /\ h \in ListedPointers(u)
  BY DEF ArmedOf, ListedPointers, StoreLinks, KeyLinks, PointerListed
<1>9. \A h, k \in Listed(u) : device[h] = device[k] => h = k
  BY DEF Listed, StoreLinks, OnePerDevice
<1>10. ListingLinks(req[r])'
  BY <1>1, <1>3, <1>4, <1>5, <1>6, <1>7, <1>8, <1>9 DEF ListingLinks, storeVars
<1>11. SignInLinks(req[r])' /\ RefreshLinks(req[r])' /\ BumpingLinks(req[r])'
  BY <1>3, <1>4 DEF SignInLinks, RefreshLinks, BumpingLinks
<1>. QED
  BY <1>3, <1>10, <1>11 DEF RequestLinks

LEMMA RevokingMoves ==
  ASSUME SafeInv, Evolves, NEW r \in Requests, Revoking(r)
  PROVE  req' \in [Requests -> Request] /\ RequestLinks(r)'
<1>. TypeOK /\ StoreTypeOK /\ req[r] \in Request /\ RequestLinks(r) /\ StoreLinks
  BY DEF SafeInv, TypeOK
<1>0. req[r].todo \subseteq Hashes /\ req[r].pointers \subseteq Hashes
  BY DEF Request
<1>1. CASE Finish(r)
  BY <1>1, IdleType, MoveType, IdleLinks DEF Finish
<1>2. ASSUME NEW u \in Users, NEW h \in Hashes, RevokeOne(r, u, h)
      PROVE  req' \in [Requests -> Request] /\ RequestLinks(r)'
  <2>. DEFINE q == [Idle EXCEPT !.pc = "bumping", !.user = u]
  <2>1. q \in Request
    BY IdleType DEF Request, PCs
  <2>2. req' \in [Requests -> Request] /\ req'[r] = q
    BY <1>2, <2>1, MoveType DEF RevokeOne
  <2>3. req'[r].pc = "bumping" /\ req'[r].user = u
    BY <2>2 DEF Idle
  <2>. QED
    BY <2>2, <2>3 DEF RequestLinks, SignInLinks, RefreshLinks, ListingLinks, BumpingLinks
<1>3. ASSUME NEW kept \in req[r].todo, Keep(r, kept), At(r, "resolving"),
             device[kept] = device[req[r].hash]
      PROVE  req' \in [Requests -> Request] /\ RequestLinks(r)'
  <2>. DEFINE q == [req[r] EXCEPT !.pc = "revoking", !.other = kept,
                      !.todo = @ \ {kept}, !.others = @ \ {kept}]
  <2>1. q \in Request
    BY <1>0 DEF Request, PCs
  <2>2. /\ q.pc = "revoking" /\ q.user = req[r].user /\ q.hash = req[r].hash
        /\ q.armed = req[r].armed /\ q.pointers = req[r].pointers
        /\ q.todo = req[r].todo \ {kept} /\ q.others = req[r].others \ {kept}
    BY DEF Request
  <2>3. Goto(r, q)
    BY <1>3 DEF Keep
  <2>. HIDE DEF q
  <2>4. \A h \in q.todo : device[h] # device[q.hash]
    BY <1>3, <2>2 DEF RequestLinks, ListingLinks, At
  <2>. QED
    BY <1>3, <2>1, <2>2, <2>3, <2>4, EndingMoves DEF EndingPCs, At
<1>4. CASE RevokeOthersResolve(r)
  <2>. DEFINE h == req[r].hash
  <2>1. At(r, "resolving") /\ h \in Hashes
    BY <1>4 DEF RevokeOthersResolve, At, RequestLinks, ListingLinks
  <2>2. CASE h \in req[r].todo /\ Keep(r, h)
    BY <1>3, <2>1, <2>2
  <2>3. CASE grace[h] # None /\ grace[h].to \in req[r].todo /\ Keep(r, grace[h].to)
    <3>1. device[grace[h].to] = device[h]
      BY <2>1, <2>3 DEF StoreLinks, KeyLinks
    <3>. QED
      BY <1>3, <2>1, <2>3, <3>1
  <2>. QED
    BY <1>1, <1>4, <2>2, <2>3 DEF RevokeOthersResolve
<1>5. ASSUME NEW h \in req[r].todo, req[r].pc = "revoking", live'[h] = None,
             Goto(r, [req[r] EXCEPT !.todo = @ \ {h}])
      PROVE  req' \in [Requests -> Request] /\ RequestLinks(r)'
  <2>. DEFINE q == [req[r] EXCEPT !.todo = @ \ {h}]
  <2>1. q \in Request
    BY <1>0 DEF Request, PCs
  <2>2. /\ q.pc = "revoking" /\ q.user = req[r].user /\ q.hash = req[r].hash
        /\ q.armed = req[r].armed /\ q.pointers = req[r].pointers
        /\ q.todo = req[r].todo \ {h} /\ q.others = req[r].others
    BY <1>5 DEF Request
  <2>3. Goto(r, q)
    BY <1>5
  <2>. HIDE DEF q
  <2>4. \A g \in q.todo : device[g] # device[q.hash]
    BY <1>5, <2>2 DEF RequestLinks, ListingLinks
  <2>. QED
    BY <1>5, <2>1, <2>2, <2>3, <2>4, EndingMoves DEF EndingPCs
<1>6. ASSUME NEW h \in Hashes, RevokeOthersNext(r, h)
      PROVE  req' \in [Requests -> Request] /\ RequestLinks(r)'
  <2>1. live'[h] = None
    BY <1>6 DEF RevokeOthersNext, RevokeSession, StoreTypeOK
  <2>. QED
    BY <1>5, <1>6, <2>1 DEF RevokeOthersNext, At
<1>7. ASSUME NEW h \in Hashes, RevokeOthersMissing(r, h)
      PROVE  req' \in [Requests -> Request] /\ RequestLinks(r)'
  <2>1. h \in req[r].todo /\ Rt(h) \notin index[req[r].user] /\ live' = live
    BY <1>7 DEF RevokeOthersMissing, storeVars
  <2>2. minted[h].session.user = req[r].user
    BY <1>7, <2>1 DEF RevokeOthersMissing, At, RequestLinks, ListingLinks
  <2>3. live'[h] = None
    BY <2>1, <2>2 DEF StoreLinks, KeyLinks, LiveListed
  <2>. QED
    BY <1>5, <1>7, <2>1, <2>3 DEF RevokeOthersMissing, At
<1>8. ASSUME NEW h \in Hashes, RevokeOthersPointer(r, h)
      PROVE  req' \in [Requests -> Request] /\ RequestLinks(r)'
  <2>. DEFINE q == [req[r] EXCEPT !.pc = "unlisting", !.pointers = @ \ {h}, !.other = h]
  <2>0. /\ req[r].pc = "revoking" /\ h \in req[r].pointers /\ req[r].todo = {}
        /\ grace' = [grace EXCEPT ![h] = None] /\ live' = live /\ Goto(r, q)
    BY <1>8 DEF RevokeOthersPointer, SpendPointer, At
  <2>1. q \in Request
    BY <1>0 DEF Request, PCs
  <2>2. /\ q.pc = "unlisting" /\ q.user = req[r].user /\ q.hash = req[r].hash
        /\ q.armed = req[r].armed /\ q.pointers = req[r].pointers \ {h} /\ q.other = h
        /\ q.todo = {} /\ q.others = req[r].others
    BY <2>0 DEF Request
  <2>. HIDE DEF q
  <2>3. grace'[h] = None /\ minted[h] # None /\ live'[h] = None
    BY <2>0 DEF StoreTypeOK, RequestLinks, ListingLinks
  <2>. QED
    BY <2>0, <2>1, <2>2, <2>3, EndingMoves DEF EndingPCs
<1>9. CASE RevokeOthersUnlist(r)
  <2>. DEFINE q == [req[r] EXCEPT !.pc = "revoking", !.other = None]
  <2>0. req[r].pc = "unlisting" /\ Goto(r, q)
    BY <1>9 DEF RevokeOthersUnlist, At
  <2>1. q \in Request
    BY DEF Request, PCs
  <2>2. /\ q.pc = "revoking" /\ q.user = req[r].user /\ q.hash = req[r].hash
        /\ q.armed = req[r].armed /\ q.pointers = req[r].pointers
        /\ q.todo = req[r].todo /\ q.others = req[r].others
    BY DEF Request
  <2>. HIDE DEF q
  <2>3. \A h \in q.todo : device[h] # device[q.hash]
    BY <2>0, <2>2 DEF RequestLinks, ListingLinks
  <2>. QED
    BY <2>0, <2>1, <2>2, <2>3, EndingMoves DEF EndingPCs
<1>10. ASSUME NEW u \in Users, NEW h \in Hashes, RevokeOthersList(r, u, h)
       PROVE  req' \in [Requests -> Request] /\ RequestLinks(r)'
  BY <1>10, ListMoves
<1>11. CASE RevokeOthersBump(r) \/ RevokeOneBump(r)
  BY <1>1, <1>11 DEF RevokeOthersBump, RevokeOneBump
<1>. QED
  BY <1>2, <1>4, <1>6, <1>7, <1>8, <1>9, <1>10, <1>11 DEF Revoking

(* A step of a handler moves no other one. *)
LEMMA OneMoves ==
  ASSUME SafeInv, NEW r \in Requests, Minter(r) \/ Remover(r), NEW s \in Requests, s # r
  PROVE  req'[s] = req[s]
<1>1. \E q : Goto(r, q)
  <2>1. CASE Minter(r)
    BY <2>1 DEF Minter, SignIn, RefreshRotate, RefreshRecover
  <2>2. CASE Revoking(r)
    BY <2>2 DEF Revoking, Finish, Keep, RevokeOne, RevokeOthersList, RevokeOthersResolve,
       RevokeOthersNext, RevokeOthersMissing, RevokeOthersPointer, RevokeOthersUnlist,
       RevokeOthersBump, RevokeOneBump
  <2>3. CASE Remover(r) /\ ~Revoking(r)
    BY <2>3 DEF Remover, Finish, NextEviction, SignInDetail, SignInPrune, SignInList,
       SignInReadAge, SignInEvict, SignInUnindex, SignInForget, SignInReadFails,
       SignInEvictFails, RefreshGrace, RefreshRefused, RotateReadDetail, RotateWriteDetail
  <2>. QED
    BY <2>1, <2>2, <2>3
<1>2. req \in [Requests -> Request]
  BY DEF SafeInv, TypeOK
<1>. QED
  BY <1>1, <1>2 DEF Goto

LEMMA RequestStep ==
  ASSUME SafeInv, Next
  PROVE  req' \in [Requests -> Request] /\ \A r \in Requests : RequestLinks(r)'
<1>1. Evolves
  BY StoreStep
<1>2. ASSUME NEW r \in Requests, Minter(r) \/ Remover(r)
      PROVE  /\ req' \in [Requests -> Request] /\ RequestLinks(r)'
             /\ \A s \in Requests : s # r => req'[s] = req[s]
  <2>. DEFINE Moved == req' \in [Requests -> Request] /\ RequestLinks(r)'
  <2>1. ASSUME \E u \in Users, h \in Hashes : SignIn(r, u, h)  PROVE Moved
    BY <1>1, <2>1, SignInStore, SignInMoves
  <2>2. ASSUME \/ \E h, g \in Hashes : RefreshRotate(r, h, g)
               \/ \E h \in Hashes : RefreshRecover(r, h)
        PROVE  Moved
    BY <1>1, <2>2, RefreshingMoves
  <2>3. ASSUME Remover(r)  PROVE Moved
    BY <1>1, <2>3, SigningMoves, RefreshingMoves, RevokingMoves DEF Remover
  <2>4. Moved
    BY <1>2, <2>1, <2>2, <2>3 DEF Minter
  <2>5. \A s \in Requests : s # r => req'[s] = req[s]
    BY <1>2, OneMoves
  <2>. QED
    BY <2>4, <2>5
<1>3. CASE \E r \in Requests : Minter(r) \/ Remover(r)
  BY <1>1, <1>2, <1>3, SleepingLinks
<1>4. CASE Lapse
  <2>1. req' = req
    BY <1>4 DEF Lapse
  <2>. QED
    BY <1>1, <2>1, SleepingLinks DEF SafeInv, TypeOK
<1>. QED
  BY <1>3, <1>4, StepCases

-----------------------------------------------------------------------------
(* What a step does to the details and the histories *)

LEMMA TypeStep ==
  ASSUME SafeInv, Next
  PROVE  TypeOK'
<1>. TypeOK /\ StoreTypeOK /\ req \in [Requests -> Request] /\ \A r \in Requests : RequestLinks(r)
  BY DEF SafeInv, TypeOK
<1>. USE DEF historyVars
<1>1. StoreTypeOK' /\ req' \in [Requests -> Request]
  BY StoreStep, RequestStep
<1>2. detail' \in [Hashes -> Nat \cup {None}] /\ now' \in Nat
  <2>1. now + 1 \in Nat
    BY DEF TypeOK
  <2>2. ASSUME NEW r \in Requests, Revoking(r)
        PROVE  detail' \in [Hashes -> Nat \cup {None}] /\ now' = now
    BY <2>2 DEF Revoking, RevokeOne, RevokeOthersList, RevokeOthersResolve,
       RevokeOthersNext, RevokeOthersMissing, RevokeOthersPointer, RevokeOthersUnlist,
       RevokeOthersBump, RevokeOneBump, Forget, TypeOK
  <2>3. ASSUME NEW r \in Requests, Minter(r)
        PROVE  detail' = detail /\ now' = now
    BY <2>3 DEF Minter, SignIn, RefreshRotate, RefreshRecover
  <2>4. ASSUME NEW r \in Requests, RotateReadDetail(r)
        PROVE  detail' = detail /\ now' \in Nat
    BY <2>1, <2>4 DEF RotateReadDetail, TypeOK
  <2>5. ASSUME NEW r \in Requests, RotateWriteDetail(r)
        PROVE  detail' \in [Hashes -> Nat \cup {None}] /\ now' = now
    <3>1. req[r].date \in Nat
      BY DEF Request
    <3>. QED
      BY <2>5, <3>1 DEF RotateWriteDetail, TypeOK
  <2>6. ASSUME NEW r \in Requests, Remover(r), ~Revoking(r), ~RotateReadDetail(r),
               ~RotateWriteDetail(r)
        PROVE  detail' \in [Hashes -> Nat \cup {None}] /\ now' \in Nat
    BY <2>1, <2>6 DEF Remover, Forget, SignInDetail, SignInPrune, SignInList,
         SignInReadAge, SignInEvict, SignInUnindex, SignInForget, SignInReadFails,
         SignInEvictFails, RefreshGrace, RefreshRefused, TypeOK
  <2>7. CASE Lapse
    BY <2>7 DEF Lapse, Forget, TypeOK
  <2>. QED
    BY <2>2, <2>3, <2>4, <2>5, <2>6, <2>7, StepCases DEF TypeOK
<1>3. device' \in [Hashes -> Hashes \cup {None}]
  BY StepCases, LapseRemoves, RemoverRemoves DEF Removes, Minter, SignIn, RefreshRotate,
     RefreshRecover, TypeOK
<1>4. given' \subseteq Hashes /\ loose' \in BOOLEAN
  <2>1. ASSUME NEW r \in Requests, Minter(r)
        PROVE  given' \subseteq Hashes /\ loose' \in BOOLEAN
    BY <2>1, Zenon DEF Minter, SignIn, RefreshRotate, RefreshRecover, Given, TypeOK
  <2>2. ASSUME NEW r \in Requests, Revoking(r)
        PROVE  given' = given /\ loose' = loose
    BY <2>2 DEF Revoking, RevokeOne, RevokeOthersList, RevokeOthersResolve,
       RevokeOthersNext, RevokeOthersMissing, RevokeOthersPointer, RevokeOthersUnlist,
       RevokeOthersBump, RevokeOneBump
  <2>3. ASSUME NEW r \in Requests, Remover(r), ~Revoking(r)
        PROVE  /\ given' = given \/ (given' = given \cup {req[r].hash} /\ req[r].hash \in Hashes)
               /\ loose' = loose \/ loose' = TRUE
    <3>1. /\ given' = given \/ (Given(req[r].hash) /\ req[r].pc \in SigningPCs)
          /\ loose' = loose \/ loose' = TRUE
      BY <2>3 DEF Remover, At, SigningPCs, NextEviction, SignInDetail, SignInPrune, SignInList,
         SignInReadAge, SignInEvict, SignInUnindex, SignInForget, SignInReadFails,
         SignInEvictFails, RefreshGrace, RefreshRefused, RotateReadDetail, RotateWriteDetail
    <3>. QED
      BY <3>1 DEF Given, SigningPCs, RequestLinks, SignInLinks
  <2>4. CASE Lapse
    BY <2>4 DEF Lapse, TypeOK
  <2>5. given \subseteq Hashes /\ loose \in BOOLEAN
    BY DEF TypeOK
  <2>6. CASE \E r \in Requests : Remover(r) /\ ~Revoking(r)
    BY <2>3, <2>5, <2>6
  <2>. QED
    BY <2>1, <2>2, <2>4, <2>5, <2>6, StepCases
<1>5. /\ ended' \subseteq [hash : Hashes, by : Hashes]
      /\ settled' \subseteq Hashes /\ spent' \subseteq Hashes
  <2>1. ASSUME NEW r \in Requests, NEW h \in Hashes, RevokeOthersNext(r, h)
        PROVE  /\ ended' \subseteq [hash : Hashes, by : Hashes]
               /\ settled' \subseteq Hashes /\ spent' \subseteq Hashes
    <3>1. req[r].hash \in Hashes
      BY <2>1 DEF RevokeOthersNext, At, RequestLinks, ListingLinks
    <3>. QED
      BY <2>1, <3>1 DEF RevokeOthersNext, TypeOK
  <2>2. ASSUME NEW r \in Requests, RevokeOthersBump(r)
        PROVE  /\ ended' \subseteq [hash : Hashes, by : Hashes]
               /\ settled' \subseteq Hashes /\ spent' \subseteq Hashes
    <3>1. req[r].others \subseteq Hashes /\ req[r].armed \subseteq Hashes
      BY DEF Request
    <3>. QED
      BY <2>2, <3>1 DEF RevokeOthersBump, TypeOK
  <2>3. ASSUME NEW r \in Requests, Revoking(r), ~RevokeOthersBump(r),
               ~\E h \in Hashes : RevokeOthersNext(r, h)
        PROVE  ended' = ended /\ settled' = settled /\ spent' = spent
    BY <2>3 DEF Revoking, RevokeOne, RevokeOthersList, RevokeOthersResolve,
       RevokeOthersMissing, RevokeOthersPointer, RevokeOthersUnlist, RevokeOneBump
  <2>4. ASSUME NEW r \in Requests, Minter(r)
        PROVE  ended' = ended /\ settled' = settled /\ spent' = spent
    BY <2>4 DEF Minter, SignIn, RefreshRotate, RefreshRecover
  <2>5. ASSUME NEW r \in Requests, Remover(r), ~Revoking(r)
        PROVE  ended' = ended /\ settled' = settled /\ spent' = spent
    BY <2>5 DEF Remover, SignInDetail, SignInPrune, SignInList,
         SignInReadAge, SignInEvict, SignInUnindex, SignInForget, SignInReadFails,
         SignInEvictFails, RefreshGrace, RefreshRefused, RotateReadDetail, RotateWriteDetail
  <2>6. CASE Lapse
    BY <2>6 DEF Lapse, TypeOK
  <2>. QED
    BY <2>1, <2>2, <2>3, <2>4, <2>5, <2>6, StepCases DEF TypeOK
<1>. QED
  BY <1>1, <1>2, <1>3, <1>4, <1>5 DEF TypeOK

(* "Sign out my other devices" ends only other devices, and when it is done *)
(* with its listing, whatever was to end has ended.                         *)
LEMMA HistoryStep ==
  ASSUME SafeInv, Next
  PROVE  HistoryLinks'
<1>. /\ TypeOK /\ StoreTypeOK /\ req \in [Requests -> Request]
     /\ \A r \in Requests : RequestLinks(r)
     /\ StoreLinks /\ HistoryLinks
  BY DEF SafeInv, TypeOK
<1>. USE DEF historyVars
<1>1. Evolves
  BY StoreStep
<1>2. Minted(given)'
  <2>1. \A h \in given : h \in Hashes /\ minted'[h] # None
    BY <1>1 DEF HistoryLinks, Minted, Evolves, NoRevival, TypeOK
  <2>2. ASSUME NEW r \in Requests, Minter(r)
        PROVE  given' = given \/ \E g \in Hashes : given' = given \cup {g} /\ minted'[g] # None
    BY <2>2, RecoverStore, RotateStore DEF Minter, SignIn, RefreshRotate, RefreshRecover, Given
  <2>3. ASSUME NEW r \in Requests, Remover(r)
        PROVE  given' = given \/ \E g \in Hashes : given' = given \cup {g} /\ minted'[g] # None
    <3>1. CASE Revoking(r)
      BY <3>1 DEF Revoking, RevokeOne, RevokeOthersList, RevokeOthersResolve,
         RevokeOthersNext, RevokeOthersMissing, RevokeOthersPointer, RevokeOthersUnlist,
         RevokeOthersBump, RevokeOneBump
    <3>2. CASE ~Revoking(r)
      <4>1. given' = given \/ (Given(req[r].hash) /\ req[r].pc \in SigningPCs)
        BY <2>3, <3>2 DEF Remover, At, SigningPCs, NextEviction, SignInDetail, SignInPrune,
           SignInList, SignInReadAge, SignInEvict, SignInUnindex, SignInForget,
           SignInReadFails, SignInEvictFails, RefreshGrace, RefreshRefused,
           RotateReadDetail, RotateWriteDetail
      <4>. QED
        BY <1>1, <4>1 DEF Given, SigningPCs, RequestLinks, SignInLinks, Evolves, NoRevival
    <3>. QED
      BY <3>1, <3>2
  <2>4. CASE Lapse
    BY <2>1, <2>4 DEF Lapse, Minted
  <2>. QED
    BY <2>1, <2>2, <2>3, <2>4, StepCases DEF Minted
<1>3. \A e \in ended : /\ minted'[e.hash] # None /\ minted'[e.by] # None
                       /\ device'[e.hash] # device'[e.by]
  <2>1. \A e \in ended : e.hash \in Hashes /\ e.by \in Hashes
    BY DEF TypeOK
  <2>. QED
    BY <1>1, <2>1 DEF HistoryLinks, Evolves, NoRevival
<1>4. \A h \in settled : minted'[h] # None /\ live'[h] = None
  BY <1>1 DEF HistoryLinks, Evolves, NoRevival, TypeOK
<1>5. \A h \in spent : Dead(h)'
  BY <1>1 DEF HistoryLinks, Dead, Evolves, NoRevival
<1>6. ASSUME NEW r \in Requests, NEW h \in Hashes, RevokeOthersNext(r, h)
      PROVE  HistoryLinks'
  <2>1. /\ req[r].hash \in Hashes /\ minted[req[r].hash] # None
        /\ minted[h] # None /\ device[h] # device[req[r].hash]
    BY <1>6 DEF RevokeOthersNext, At, RequestLinks, ListingLinks
  <2>. DEFINE e == [hash |-> h, by |-> req[r].hash]
  <2>2. /\ minted'[e.hash] # None /\ minted'[e.by] # None
        /\ device'[e.hash] # device'[e.by]
    BY <1>1, <2>1 DEF Evolves, NoRevival
  <2>. HIDE DEF e
  <2>3. ended' \subseteq ended \cup {e} /\ settled' = settled /\ spent' = spent
    BY <1>6 DEF RevokeOthersNext, e
  <2>. QED
    BY <1>2, <1>3, <1>4, <1>5, <2>2, <2>3 DEF HistoryLinks
<1>7. ASSUME NEW r \in Requests, RevokeOthersBump(r)
      PROVE  HistoryLinks'
  <2>1. /\ req[r].others \subseteq Hashes /\ req[r].armed \subseteq Hashes
        /\ \A h \in req[r].others : minted[h] # None /\ live[h] = None
        /\ \A h \in req[r].armed : Dead(h)
    BY <1>7 DEF RevokeOthersBump, At, RequestLinks, ListingLinks, Dead, Request
  <2>2. /\ \A h \in req[r].others : minted'[h] # None /\ live'[h] = None
        /\ \A h \in req[r].armed : Dead(h)'
    BY <1>1, <2>1 DEF Evolves, NoRevival, Dead
  <2>3. ended' = ended /\ settled' = settled \cup req[r].others /\ spent' = spent \cup req[r].armed
    BY <1>7 DEF RevokeOthersBump
  <2>. QED
    BY <1>2, <1>3, <1>4, <1>5, <2>2, <2>3 DEF HistoryLinks
<1>8. CASE ended' = ended /\ settled' = settled /\ spent' = spent
  BY <1>2, <1>3, <1>4, <1>5, <1>8 DEF HistoryLinks
<1>9. ASSUME NEW r \in Requests, Revoking(r)
      PROVE  HistoryLinks'
  BY <1>6, <1>7, <1>8, <1>9 DEF Revoking, RevokeOne, RevokeOthersList, RevokeOthersResolve,
     RevokeOthersMissing, RevokeOthersPointer, RevokeOthersUnlist, RevokeOneBump
<1>10. ASSUME NEW r \in Requests, Minter(r) \/ (Remover(r) /\ ~Revoking(r))
       PROVE  HistoryLinks'
  BY <1>8, <1>10 DEF Minter, SignIn, RefreshRotate, RefreshRecover, Remover, SignInDetail,
     SignInPrune, SignInList, SignInReadAge, SignInEvict, SignInUnindex, SignInForget,
     SignInReadFails, SignInEvictFails, RefreshGrace, RefreshRefused, RotateReadDetail,
     RotateWriteDetail
<1>11. CASE Lapse
  BY <1>8, <1>11 DEF Lapse
<1>. QED
  BY <1>9, <1>10, <1>11, StepCases

LEMMA SafeStep ==
  ASSUME SafeInv, Next
  PROVE  SafeInv'
BY StoreStep, RequestStep, TypeStep, HistoryStep DEF SafeInv

-----------------------------------------------------------------------------
(* The session limit *)

LEMMA LiveFinite ==
  ASSUME NEW u \in Users
  PROVE  LiveOf(u) \in SUBSET Hashes /\ LiveOf(u)' \in SUBSET Hashes
BY DEF LiveOf

LEMMA FewerSessions ==
  ASSUME NEW H \in SUBSET Hashes, NEW K \in SUBSET H
  PROVE  Cardinality(K) <= Cardinality(H) /\ Cardinality(K) \in Nat /\ Cardinality(H) \in Nat
BY FiniteCount, FS_Subset

LEMMA RemovesLive ==
  ASSUME SafeInv, Removes, NEW u \in Users
  PROVE  LiveOf(u)' \subseteq LiveOf(u)
BY DEF Removes, OnlyRemoves, LiveOf

LEMMA RemainingType ==
  ASSUME NEW q \in Request
  PROVE  Remaining(q) \in SUBSET Hashes /\ Read(q) \in SUBSET Hashes
BY DEF Remaining, Read, Request

(* The witness that an account above its limit is being dealt with. *)
Dealing(r, u) == WillList(r, u) \/ HasListed(r, u)

(* A step of sign-in r keeps it one, or leaves the account within its limit. *)
Deals(r) ==
  \A u \in Users : Dealing(r, u) => Dealing(r, u)' \/ Cardinality(LiveOf(u)') <= Limit

(* A sign-in that lists fewer than the limit leaves fewer than the limit.   *)
LEMMA ListedCounts ==
  ASSUME SafeInv, NEW u \in Users
  PROVE  /\ LiveOf(u) \subseteq Listed(u) /\ Listed(u) \in SUBSET Hashes
         /\ Excess(Listed(u)) = 0 => Cardinality(LiveOf(u)) <= Limit
<1>1. LiveOf(u) \subseteq Listed(u) /\ Listed(u) \in SUBSET Hashes
  BY DEF LiveOf, Listed, SafeInv, StoreLinks, LiveListed
<1>2. ASSUME Excess(Listed(u)) = 0  PROVE Cardinality(LiveOf(u)) <= Limit
  <2>1. Cardinality(Listed(u)) <= Limit
    BY <1>1, <1>2, FiniteCount, SessionAssumption DEF Excess
  <2>. QED
    BY <1>1, <2>1, FewerSessions, SessionAssumption
<1>. QED
  BY <1>1, <1>2

LEMMA DetailCount ==
  ASSUME SafeInv, NEW r \in Requests, CountLinks(req[r]),
         SignInDetail(r) \/ SignInPrune(r) \/ SignInUnindex(r)
  PROVE  CountLinks(req'[r]) /\ Deals(r)
<1>. TypeOK /\ req \in [Requests -> Request] /\ req[r] \in Request
  BY DEF SafeInv, TypeOK
<1>1. PICK pc \in {"detailed", "pruned", "forgetting"} :
        /\ pc = "forgetting" => req[r].pc = "unindexing"
        /\ pc # "forgetting" => req[r].pc \in {"created", "detailed"}
        /\ req'[r] = [req[r] EXCEPT !.pc = pc]
  BY DEF SignInDetail, SignInPrune, SignInUnindex, At, Goto
<1>2. /\ req'[r].pc = pc /\ req'[r].user = req[r].user /\ req'[r].hash = req[r].hash
      /\ req'[r].todo = req[r].todo /\ req'[r].ages = req[r].ages
      /\ req'[r].count = req[r].count
  BY <1>1 DEF Request
<1>3. Read(req'[r]) = Read(req[r]) /\ (pc = "forgetting" => Remaining(req'[r]) = Remaining(req[r]))
  BY <1>1, <1>2 DEF Read, Remaining
<1>4. CountLinks(req'[r])
  BY <1>1, <1>2, <1>3 DEF CountLinks
<1>5. live' = live
  BY DEF SignInDetail, SignInPrune, SignInUnindex, Unindex, storeVars
<1>. QED
  BY <1>1, <1>2, <1>3, <1>4, <1>5 DEF Deals, Dealing, WillList, HasListed, Listing, LiveOf

LEMMA ListCount ==
  ASSUME SafeInv, NEW r \in Requests, CountLinks(req[r]), SignInList(r)
  PROVE  CountLinks(req'[r]) /\ Deals(r)
<1>. TypeOK /\ req \in [Requests -> Request] /\ req[r] \in Request
  BY DEF SafeInv, TypeOK
<1>0. PICK u \in Users : u = req[r].user
  BY DEF SignInList, At, SafeInv, RequestLinks, SignInLinks
<1>. DEFINE members == Listed(u)
<1>1. /\ req[r].pc = "pruned" /\ Read(req[r]) = {} /\ live' = live
  BY DEF SignInList, At, CountLinks, storeVars
<1>2. /\ LiveOf(u) \subseteq members /\ members \in SUBSET Hashes
      /\ Excess(members) = 0 => Cardinality(LiveOf(u)) <= Limit
  BY <1>1, ListedCounts
<1>3. \A v \in Users : LiveOf(v)' = LiveOf(v) /\ (Dealing(r, v) => v = u)
  BY <1>0, <1>1 DEF LiveOf, Dealing, WillList, HasListed
<1>4. CASE Excess(members) = 0 /\ req'[r] = Idle
  <2>1. CountLinks(req'[r])
    BY <1>4 DEF CountLinks, Idle, Read
  <2>. QED
    BY <1>2, <1>3, <1>4, <2>1 DEF Deals
<1>5. CASE /\ Excess(members) # 0
           /\ req'[r] = [req[r] EXCEPT !.pc = "ranking", !.todo = members, !.count = Excess(members)]
  <2>1. /\ req'[r].pc = "ranking" /\ req'[r].user = u /\ req'[r].hash = req[r].hash
        /\ req'[r].todo = members /\ req'[r].ages = req[r].ages
        /\ req'[r].count = Excess(members)
    BY <1>0, <1>5 DEF Request
  <2>2. Remaining(req'[r]) = members
    BY <1>1, <2>1 DEF Remaining, Read
  <2>3. Cardinality(members) = Limit + Excess(members)
    BY <1>2, <1>5, FiniteCount, SessionAssumption DEF Excess
  <2>4. CountLinks(req'[r])
    BY <2>1, <2>2, <2>3 DEF CountLinks
  <2>5. Dealing(r, u)'
    BY <1>1, <1>2, <1>3, <2>1, <2>2 DEF Dealing, HasListed, Listing
  <2>. QED
    BY <1>3, <2>4, <2>5 DEF Deals
<1>. QED
  BY <1>0, <1>4, <1>5 DEF SignInList, Goto, Finish

LEMMA AgeCount ==
  ASSUME SafeInv, NEW r \in Requests, NEW h \in Hashes, CountLinks(req[r]), SignInReadAge(r, h)
  PROVE  CountLinks(req'[r]) /\ Deals(r)
<1>. TypeOK /\ req \in [Requests -> Request] /\ req[r] \in Request
  BY DEF SafeInv, TypeOK
<1>. DEFINE left == req[r].todo \ {h}
<1>. DEFINE ages == [req[r].ages EXCEPT ![h] = AgeOf(h)]
<1>. DEFINE had == Read(req[r]) \cup {h}
<1>1. /\ req[r].pc = "ranking" /\ h \in req[r].todo /\ live' = live
      /\ req[r].todo \subseteq Hashes /\ Read(req[r]) \subseteq Hashes
  BY DEF SignInReadAge, At, storeVars, Request, Read
<1>2. AgeOf(h) # None /\ {g \in Hashes : ages[g] # None} = had
  <2>1. AgeOf(h) \in Nat
    BY DEF AgeOf, TypeOK
  <2>. QED
    BY <2>1, SessionAssumption DEF Read, Request
<1>3. Remaining(req[r]) = req[r].todo \cup Read(req[r])
  BY <1>1 DEF Remaining
<1>4. Cardinality(Remaining(req[r])) = Limit + req[r].count
  BY <1>1 DEF CountLinks
<1>5. CASE left # {} /\ req'[r] = [req[r] EXCEPT !.todo = left, !.ages = ages]
  <2>1. /\ req'[r].pc = "ranking" /\ req'[r].user = req[r].user /\ req'[r].hash = req[r].hash
        /\ req'[r].todo = left /\ req'[r].ages = ages /\ req'[r].count = req[r].count
    BY <1>1, <1>5 DEF Request
  <2>. HIDE DEF ages
  <2>2. Read(req'[r]) = had
    BY <1>2, <2>1 DEF Read
  <2>3. Remaining(req'[r]) = left \cup had
    BY <1>1, <2>1, <2>2 DEF Remaining
  <2>4. Remaining(req'[r]) = Remaining(req[r])
    BY <1>1, <1>3, <2>3
  <2>5. CountLinks(req'[r])
    BY <1>4, <2>1, <2>4 DEF CountLinks
  <2>. QED
    BY <1>1, <2>1, <2>4, <2>5 DEF Deals, Dealing, WillList, HasListed, Listing, LiveOf
<1>6. CASE /\ left = {}
           /\ req'[r] = [req[r] EXCEPT !.pc = "evicting", !.ages = ages,
                           !.todo = {g \in Hashes : ages[g] # None} \ {req[r].hash}]
  <2>1. /\ req'[r].pc = "evicting" /\ req'[r].user = req[r].user /\ req'[r].hash = req[r].hash
        /\ req'[r].todo = had \ {req[r].hash}
        /\ req'[r].ages = ages /\ req'[r].count = req[r].count
    BY <1>2, <1>6 DEF Request
  <2>. HIDE DEF ages
  <2>2. Read(req'[r]) = had
    BY <1>2, <2>1 DEF Read
  <2>3. Remaining(req'[r]) = had
    BY <2>1, <2>2 DEF Remaining
  <2>4. Remaining(req'[r]) = Remaining(req[r])
    BY <1>1, <1>3, <1>6, <2>3
  <2>5. CountLinks(req'[r])
    BY <1>4, <2>1, <2>4 DEF CountLinks
  <2>. QED
    BY <1>1, <2>1, <2>4, <2>5 DEF Deals, Dealing, WillList, HasListed, Listing, LiveOf
<1>. QED
  BY <1>5, <1>6 DEF SignInReadAge, Goto

LEMMA EvictCount ==
  ASSUME SafeInv, NEW r \in Requests, NEW h \in Hashes, CountLinks(req[r]), SignInEvict(r, h)
  PROVE  CountLinks(req'[r]) /\ Deals(r)
<1>. TypeOK /\ req \in [Requests -> Request] /\ req[r] \in Request
  BY DEF SafeInv, TypeOK
<1>1. /\ req[r].pc = "evicting" /\ h \in req[r].todo /\ h # req[r].hash
      /\ live' = [live EXCEPT ![h] = None]
      /\ req'[r] = [req[r] EXCEPT !.pc = "unindexing", !.other = h, !.todo = @ \ {h}]
  BY DEF SignInEvict, At, Oldest, Goto, CountLinks
<1>2. /\ req'[r].pc = "unindexing" /\ req'[r].user = req[r].user /\ req'[r].hash = req[r].hash
      /\ req'[r].todo = req[r].todo \ {h}
      /\ req'[r].ages = req[r].ages /\ req'[r].count = req[r].count /\ req[r].count \in Nat
  BY <1>1 DEF Request
<1>3. Read(req'[r]) = Read(req[r])
  BY <1>2 DEF Read
<1>4. Remaining(req'[r]) = Remaining(req[r]) \ {h} /\ h \in Remaining(req[r])
  BY <1>1, <1>2, <1>3 DEF Remaining
<1>5. Cardinality(Remaining(req'[r])) = Cardinality(Remaining(req[r])) - 1
  BY <1>4, RemainingType, FiniteCount, FS_RemoveElement
<1>6. CountLinks(req'[r])
  BY <1>1, <1>2, <1>5, SessionAssumption DEF CountLinks
<1>7. \A u \in Users : LiveOf(u)' \subseteq LiveOf(u) \ {h}
  BY <1>1 DEF LiveOf, TypeOK, StoreTypeOK
<1>. QED
  BY <1>1, <1>2, <1>4, <1>6, <1>7 DEF Deals, Dealing, WillList, HasListed, Listing

(* The loop ends when the account is within its limit, or when no session   *)
(* but the one just created is left.                                        *)
LEMMA ForgetCount ==
  ASSUME SafeInv, NEW r \in Requests, CountLinks(req[r]),
         req[r].pc \in {"unindexing", "forgetting"}, NextEviction(r), live' = live
  PROVE  CountLinks(req'[r]) /\ Deals(r)
<1>. /\ TypeOK /\ req \in [Requests -> Request] /\ req[r] \in Request /\ StoreTypeOK
     /\ RequestLinks(r)
  BY DEF SafeInv, TypeOK
<1>1. /\ req[r].count \in Nat /\ req[r].count >= 1
      /\ Cardinality(Remaining(req[r])) = Limit + req[r].count - 1
      /\ live[req[r].other] = None /\ req[r].hash \notin req[r].todo
  BY DEF CountLinks, RequestLinks, SignInLinks, Request
<1>2. \A u \in Users : LiveOf(u)' = LiveOf(u)
  BY DEF LiveOf
<1>3. CASE /\ req[r].count = 1 \/ req[r].todo \ {req[r].other} = {}
           /\ req'[r] = Idle
  <2>1. CountLinks(req'[r])
    BY <1>3 DEF CountLinks, Idle, Read
  <2>2. ASSUME NEW u \in Users, LiveOf(u) \subseteq Remaining(req[r])
        PROVE  Cardinality(LiveOf(u)) <= Limit
    <3>1. CASE req[r].count = 1
      <4>1. Cardinality(Remaining(req[r])) = Limit
        BY <1>1, <3>1, SessionAssumption
      <4>2. Cardinality(LiveOf(u)) <= Cardinality(Remaining(req[r]))
        BY <2>2, RemainingType, FewerSessions
      <4>. QED
        BY <4>1, <4>2
    <3>2. CASE req[r].todo \ {req[r].other} = {}
      <4>1. LiveOf(u) \subseteq {req[r].hash}
        BY <1>1, <2>2, <3>2 DEF Remaining, LiveOf
      <4>. DEFINE own == {req[r].hash}
      <4>0. IsFiniteSet(own) /\ Cardinality(own) = 1
        BY FS_Singleton
      <4>. HIDE DEF own
      <4>2. Cardinality(LiveOf(u)) <= 1
        BY <4>0, <4>1, FS_Subset DEF own
      <4>3. Cardinality(LiveOf(u)) \in Nat
        BY LiveFinite, FiniteCount
      <4>. QED
        BY <4>2, <4>3, SessionAssumption
    <3>. QED
      BY <1>3, <3>1, <3>2
  <2>. QED
    BY <1>2, <2>1, <2>2 DEF Deals, Dealing, WillList, HasListed
<1>4. CASE /\ req[r].count # 1
           /\ req'[r] = [req[r] EXCEPT !.pc = "evicting", !.count = @ - 1, !.other = None]
  <2>1. /\ req'[r].pc = "evicting" /\ req'[r].user = req[r].user /\ req'[r].hash = req[r].hash
        /\ req'[r].todo = req[r].todo /\ req'[r].ages = req[r].ages
        /\ req'[r].count = req[r].count - 1
    BY <1>4 DEF Request
  <2>2. Read(req'[r]) = Read(req[r])
    BY <2>1 DEF Read
  <2>3. Remaining(req'[r]) = Remaining(req[r])
    BY <2>1, <2>2 DEF Remaining
  <2>4. CountLinks(req'[r])
    BY <1>1, <2>1, <2>3, SessionAssumption DEF CountLinks
  <2>. QED
    BY <1>2, <2>1, <2>3, <2>4 DEF Deals, Dealing, WillList, HasListed, Listing
<1>. QED
  BY <1>3, <1>4 DEF NextEviction, Goto, Finish

(* A step of one handler leaves it with a count that is right, and a        *)
(* sign-in with the sessions it answers for.                                *)
LEMMA RemoverCount ==
  ASSUME SafeInv, NEW r \in Requests, CountLinks(req[r]), Remover(r)
  PROVE  CountLinks(req'[r]) /\ (loose' \/ Deals(r))
<1>. TypeOK /\ req \in [Requests -> Request] /\ req[r] \in Request
  BY DEF SafeInv, TypeOK
<1>1. CASE SignInDetail(r) \/ SignInPrune(r) \/ SignInUnindex(r)
  BY <1>1, DetailCount
<1>2. CASE SignInList(r)
  BY <1>2, ListCount
<1>3. ASSUME NEW h \in Hashes, SignInReadAge(r, h) \/ SignInEvict(r, h)
      PROVE  CountLinks(req'[r]) /\ (loose' \/ Deals(r))
  BY <1>3, AgeCount, EvictCount
<1>4. ASSUME SignInForget(r) \/ SignInEvictFails(r)
      PROVE  CountLinks(req'[r]) /\ (loose' \/ Deals(r))
  <2>1. /\ req[r].pc \in {"unindexing", "forgetting"} /\ NextEviction(r) /\ live' = live
    BY <1>4 DEF SignInForget, SignInEvictFails, At, storeVars
  <2>. QED
    BY <2>1, ForgetCount
<1>5. ASSUME SignInReadFails(r)
      PROVE  CountLinks(req'[r]) /\ (loose' \/ Deals(r))
  <2>1. req'[r] = Idle /\ loose'
    BY <1>5 DEF SignInReadFails, Finish, Goto
  <2>. QED
    BY <2>1 DEF CountLinks, Idle, Read
<1>6. ASSUME req[r].pc \notin SigningPCs, req'[r].pc \notin SigningPCs
      PROVE  CountLinks(req'[r]) /\ (loose' \/ Deals(r))
  BY <1>6 DEF SigningPCs, CountLinks, Deals, Dealing, WillList, HasListed, Listing
<1>7. ASSUME \/ \E h \in Hashes : RefreshGrace(r, h)
             \/ RefreshRefused(r) \/ RotateReadDetail(r) \/ RotateWriteDetail(r)
      PROVE  req[r].pc \notin SigningPCs /\ req'[r].pc \notin SigningPCs
  <2>1. req[r].pc \in {"idle", "graced", "rotated", "dated"}
    BY <1>7 DEF RefreshGrace, RefreshRefused, RotateReadDetail, RotateWriteDetail, At
  <2>2. ASSUME NEW h \in Hashes, RefreshGrace(r, h)  PROVE req'[r].pc = "graced"
    BY <2>2, IdleType DEF RefreshGrace, Goto, Request
  <2>3. ASSUME RefreshRefused(r) \/ RotateWriteDetail(r)  PROVE req'[r].pc = "idle"
    BY <2>3 DEF RefreshRefused, RotateWriteDetail, Goto, Finish, Idle
  <2>4. ASSUME RotateReadDetail(r)  PROVE req'[r].pc = "dated"
    BY <2>4 DEF RotateReadDetail, Goto, Request
  <2>. QED
    BY <1>7, <2>1, <2>2, <2>3, <2>4 DEF SigningPCs
<1>8. ASSUME Revoking(r)
      PROVE  req[r].pc \notin SigningPCs /\ req'[r].pc \notin SigningPCs
  <2>1. req[r].pc \in {"idle", "resolving", "revoking", "unlisting", "bumping"}
    BY <1>8 DEF Revoking, RevokeOne, RevokeOthersList, RevokeOthersResolve, RevokeOthersNext,
       RevokeOthersMissing, RevokeOthersPointer, RevokeOthersUnlist, RevokeOthersBump,
       RevokeOneBump, At
  <2>2. req'[r].pc \in {"idle", "resolving", "revoking", "unlisting", "bumping"}
    <3>1. CASE req'[r] = Idle
      BY <3>1 DEF Idle
    <3>2. CASE \E u \in Users, h \in Hashes : RevokeOne(r, u, h) \/ RevokeOthersList(r, u, h)
      <4>1. ASSUME NEW u \in Users, NEW h \in Hashes, RevokeOne(r, u, h)
            PROVE  req'[r].pc = "idle" \/ req'[r].pc = "bumping"
        BY <4>1, IdleType DEF RevokeOne, Goto, Request
      <4>2. ASSUME NEW u \in Users, NEW h \in Hashes, RevokeOthersList(r, u, h)
            PROVE  req'[r].pc = "resolving"
        <5>. DEFINE q == [Idle EXCEPT !.pc = "resolving", !.user = u, !.hash = h, !.todo = Listed(u),
                            !.pointers = ListedPointers(u), !.others = LiveOf(u), !.armed = ArmedOf(u)]
        <5>1. req' = [req EXCEPT ![r] = q]
          BY <4>2 DEF RevokeOthersList, Goto
        <5>2. q.pc = "resolving"
          BY DEF Idle
        <5>. HIDE DEF q
        <5>. QED
          BY <5>1, <5>2
      <4>. QED
        BY <3>2, <4>1, <4>2
    <3>3. CASE RevokeOthersResolve(r) /\ ~Finish(r)
      <4>1. Keep(r, req[r].hash) \/ Keep(r, grace[req[r].hash].to)
        BY <3>3 DEF RevokeOthersResolve
      <4>. QED
        BY <4>1 DEF Keep, Goto, Request
    <3>4. ASSUME NEW h \in Hashes, RevokeOthersNext(r, h) \/ RevokeOthersMissing(r, h)
                                     \/ RevokeOthersPointer(r, h)
          PROVE  req'[r].pc \in {"revoking", "unlisting"}
      <4>1. \/ req'[r] = [req[r] EXCEPT !.todo = @ \ {h}] /\ req[r].pc = "revoking"
            \/ req'[r] = [req[r] EXCEPT !.pc = "unlisting", !.pointers = @ \ {h}, !.other = h]
        BY <3>4 DEF RevokeOthersNext, RevokeOthersMissing, RevokeOthersPointer, At, Goto
      <4>. QED
        BY <4>1 DEF Request
    <3>5. CASE RevokeOthersUnlist(r)
      BY <3>5 DEF RevokeOthersUnlist, Goto, Request
    <3>. QED
      BY <1>8, <3>1, <3>2, <3>3, <3>4, <3>5 DEF Revoking, RevokeOthersBump, RevokeOneBump,
         RevokeOthersResolve, Finish, Goto
  <2>. QED
    BY <2>1, <2>2 DEF SigningPCs
<1>. QED
  BY <1>1, <1>2, <1>3, <1>4, <1>5, <1>6, <1>7, <1>8 DEF Remover

LEMMA CountStep ==
  ASSUME SafeInv, \A r \in Requests : CountLinks(req[r]), Next
  PROVE  \A r \in Requests : CountLinks(req'[r])
<1>. TypeOK /\ req \in [Requests -> Request]
  BY DEF SafeInv, TypeOK
<1>1. ASSUME NEW r \in Requests, Remover(r)
      PROVE  CountLinks(req'[r])
  BY <1>1, RemoverCount
<1>2. ASSUME NEW r \in Requests, Minter(r)
      PROVE  CountLinks(req'[r])
  <2>1. ASSUME NEW u \in Users, NEW h \in Hashes, SignIn(r, u, h)
        PROVE  CountLinks(req'[r])
    <3>1. req'[r].pc = "created" /\ req'[r].ages = Idle.ages
      BY <2>1, IdleType DEF SignIn, Goto, Request
    <3>2. Read(req'[r]) = {}
      BY <3>1 DEF Read, Idle
    <3>. QED
      BY <3>1, <3>2 DEF CountLinks
  <2>2. ASSUME \/ \E h, g \in Hashes : RefreshRotate(r, h, g)
               \/ \E h \in Hashes : RefreshRecover(r, h)
        PROVE  req'[r].pc = "rotated"
    <3>1. ASSUME NEW h \in Hashes, NEW g \in Hashes, RefreshRotate(r, h, g)
          PROVE  req'[r].pc = "rotated"
      BY <3>1, IdleType DEF RefreshRotate, Goto, Request
    <3>2. ASSUME NEW g \in Hashes, RefreshRecover(r, g)
          PROVE  req'[r].pc = "rotated"
      BY <3>2 DEF RefreshRecover, Goto, Request
    <3>. QED
      BY <2>2, <3>1, <3>2
  <2>. QED
    BY <1>2, <2>1, <2>2 DEF Minter, CountLinks
<1>3. ASSUME NEW r \in Requests, Minter(r) \/ Remover(r), NEW s \in Requests, s # r
      PROVE  req'[s] = req[s]
  BY <1>3, OneMoves
<1>4. CASE Lapse
  BY <1>4 DEF Lapse
<1>. QED
  BY <1>1, <1>2, <1>3, <1>4, StepCases

(* An account comes above its limit by a sign-in only, which then has still *)
(* to list it; a rotation exchanges one session for another.                *)
LEMMA LimitStep ==
  ASSUME SafeInv, \A r \in Requests : CountLinks(req[r]), LimitLinks, Next
  PROVE  LimitLinks'
<1>. TypeOK /\ StoreTypeOK /\ StoreLinks /\ req \in [Requests -> Request] /\ loose \in BOOLEAN
  BY DEF SafeInv, TypeOK
<1>. SUFFICES ASSUME ~loose', NEW u \in Users
              PROVE  WithinLimit(u)'
  BY DEF LimitLinks
<1>. DEFINE count == Cardinality(LiveOf(u))
<1>1. Cardinality(LiveOf(u)) \in Nat /\ Cardinality(LiveOf(u)') \in Nat
  BY LiveFinite, FiniteCount
<1>2. ASSUME NEW s \in Requests, Dealing(s, u), req'[s] = req[s], LiveOf(u)' \subseteq LiveOf(u)
      PROVE  Dealing(s, u)'
  BY <1>2 DEF Dealing, WillList, HasListed, Listing
<1>3. ~loose
  <2>1. ASSUME NEW r \in Requests, Minter(r)
        PROVE  loose => loose'
    BY <2>1, Zenon DEF Minter, SignIn, RefreshRotate, RefreshRecover
  <2>2. ASSUME NEW r \in Requests, Revoking(r)
        PROVE  loose' = loose
    BY <2>2 DEF Revoking, RevokeOne, RevokeOthersList, RevokeOthersResolve,
       RevokeOthersNext, RevokeOthersMissing, RevokeOthersPointer, RevokeOthersUnlist,
       RevokeOthersBump, RevokeOneBump, historyVars
  <2>3. ASSUME NEW r \in Requests, Remover(r), ~Revoking(r)
        PROVE  loose' = loose \/ loose' = TRUE
    BY <2>3 DEF Remover, SignInDetail, SignInPrune, SignInList,
         SignInReadAge, SignInEvict, SignInUnindex, SignInForget, SignInReadFails,
         SignInEvictFails, RefreshGrace, RefreshRefused, RotateReadDetail, RotateWriteDetail,
         historyVars
  <2>4. CASE Lapse
    BY <2>4 DEF Lapse, historyVars
  <2>. QED
    BY <2>1, <2>2, <2>3, <2>4, StepCases
<1>4. count <= Limit \/ \E s \in Requests : Dealing(s, u)
  BY <1>3 DEF LimitLinks, WithinLimit, Dealing
<1>5. ASSUME Removes, count <= Limit
      PROVE  WithinLimit(u)'
  <2>1. LiveOf(u)' \subseteq LiveOf(u)
    BY <1>5, RemovesLive
  <2>2. Cardinality(LiveOf(u)') <= Cardinality(LiveOf(u))
    BY <2>1, LiveFinite, FewerSessions
  <2>. QED
    BY <1>1, <1>5, <2>2, SessionAssumption DEF WithinLimit
<1>6. CASE Lapse
  <2>1. Removes /\ LiveOf(u)' \subseteq LiveOf(u) /\ req' = req
    BY <1>6, LapseRemoves, RemovesLive DEF Lapse
  <2>. QED
    BY <1>2, <1>4, <1>5, <2>1 DEF WithinLimit, Dealing
<1>7. ASSUME NEW r \in Requests, Remover(r)
      PROVE  WithinLimit(u)'
  <2>1. Removes /\ LiveOf(u)' \subseteq LiveOf(u)
    BY <1>7, RemoverRemoves, RemovesLive
  <2>2. Deals(r) /\ \A s \in Requests : s # r => req'[s] = req[s]
    BY <1>7, RemoverCount, OneMoves
  <2>. QED
    BY <1>2, <1>4, <1>5, <2>1, <2>2 DEF WithinLimit, Dealing, Deals
<1>8. ASSUME NEW r \in Requests, NEW v \in Users, NEW g \in Hashes, SignIn(r, v, g)
      PROVE  WithinLimit(u)'
  <2>1. req'[r].pc = "created" /\ req'[r].user = v /\ req[r].pc = "idle"
    BY <1>8, IdleType DEF SignIn, Goto, Request, At
  <2>2. CASE u = v
    BY <2>1, <2>2 DEF WithinLimit, WillList
  <2>3. CASE u # v
    <3>1. LiveOf(u)' \subseteq LiveOf(u)
      BY <1>8, <2>3, SignInStore DEF LiveOf
    <3>2. Cardinality(LiveOf(u)') <= Cardinality(LiveOf(u))
      BY <3>1, LiveFinite, FewerSessions
    <3>3. ASSUME NEW s \in Requests, Dealing(s, u)  PROVE s # r
      BY <2>1, <3>3 DEF Dealing, WillList, HasListed, Listing
    <3>4. \A s \in Requests : s # r => req'[s] = req[s]
      BY <1>8, OneMoves DEF Minter
    <3>5. count <= Limit => WithinLimit(u)'
      BY <1>1, <3>2, SessionAssumption DEF WithinLimit
    <3>. QED
      BY <1>2, <1>4, <3>1, <3>3, <3>4, <3>5 DEF WithinLimit, Dealing
  <2>. QED
    BY <2>2, <2>3
<1>9. ASSUME NEW r \in Requests, NEW old \in Hashes, NEW g \in Hashes, RefreshRotate(r, old, g)
      PROVE  WithinLimit(u)'
  <2>1. \A s \in Requests : ~Listing(s)
    <3>1. loose' = (loose \/ \E s \in Requests : Listing(s))
      BY <1>9, Zenon DEF RefreshRotate
    <3>. QED
      BY <3>1, Zenon
  <2>2. req[r].pc = "idle" /\ \A s \in Requests : s # r => req'[s] = req[s]
    BY <1>9, OneMoves DEF RefreshRotate, At, Minter
  <2>3. ASSUME NEW s \in Requests, WillList(s, u)  PROVE WillList(s, u)'
    BY <2>2, <2>3 DEF WillList
  <2>4. Cardinality(LiveOf(u)') = Cardinality(LiveOf(u))
    <3>1. /\ live[old] # None /\ live[g] = None
          /\ live'[g] = live[old] /\ live'[old] = None /\ g # old
          /\ \A h \in Hashes : h \notin {g, old} => live'[h] = live[h]
      BY <1>9, RotateStore
    <3>2. CASE live[old].user # u
      <4>1. LiveOf(u)' = LiveOf(u)
        BY <3>1, <3>2 DEF LiveOf
      <4>. QED
        BY <4>1
    <3>3. CASE live[old].user = u
      <4>. DEFINE rest == LiveOf(u) \ {old}
      <4>1. LiveOf(u)' = rest \cup {g} /\ old \in LiveOf(u) /\ g \notin rest
        BY <3>1, <3>3 DEF LiveOf
      <4>2. IsFiniteSet(LiveOf(u))
        BY LiveFinite, FiniteCount
      <4>3. IsFiniteSet(rest) /\ Cardinality(rest) = Cardinality(LiveOf(u)) - 1
        BY <4>1, <4>2, FS_RemoveElement
      <4>. HIDE DEF rest
      <4>4. Cardinality(rest \cup {g}) = Cardinality(rest) + 1
        BY <4>1, <4>3, FS_AddElement
      <4>. QED
        BY <1>1, <4>1, <4>3, <4>4
    <3>. QED
      BY <3>2, <3>3
  <2>. QED
    BY <1>4, <2>1, <2>3, <2>4 DEF WithinLimit, Dealing, HasListed
<1>10. ASSUME NEW r \in Requests, NEW g \in Hashes, RefreshRecover(r, g)
       PROVE  WithinLimit(u)'
  BY <1>10, Zenon DEF RefreshRecover
<1>. QED
  BY <1>6, <1>7, <1>8, <1>9, <1>10, StepCases DEF Minter

-----------------------------------------------------------------------------
(* The invariant *)

LEMMA InitIInv ==
  ASSUME Init
  PROVE  IInv
<1>. USE DEF Init, StoreInit
<1>1. TypeOK
  <2>1. index = [u \in Users |-> {}]
    OBVIOUS
  <2>2. StoreTypeOK
    BY <2>1 DEF StoreTypeOK
  <2>3. req \in [Requests -> Request]
    BY IdleType
  <2>. QED
    BY <2>2, <2>3 DEF TypeOK
<1>2. StoreLinks
  <2>1. \A h \in Hashes : live[h] = None /\ grace[h] = None /\ minted[h] = None
    OBVIOUS
  <2>2. \A u \in Users : index[u] = {}
    OBVIOUS
  <2>. QED
    BY <2>1, <2>2 DEF StoreLinks, KeyLinks, IndexLinks, OnePerDevice, PointerListed, LiveListed
<1>3. HistoryLinks
  BY DEF HistoryLinks, Minted
<1>4. \A r \in Requests : RequestLinks(r)
  BY DEF RequestLinks, SignInLinks, RefreshLinks, ListingLinks, BumpingLinks, Idle
<1>5. \A r \in Requests : CountLinks(req[r])
  BY DEF CountLinks, Idle, Read
<1>6. LimitLinks
  <2>1. \A u \in Users : LiveOf(u) = {}
    BY DEF LiveOf
  <2>2. Cardinality({}) = 0
    BY FS_EmptySet
  <2>3. \A u \in Users : Cardinality(LiveOf(u)) = 0
    BY <2>1, <2>2, Zenon
  <2>. HIDE DEF Init, StoreInit
  <2>4. Limit \in Nat
    BY SessionAssumption
  <2>5. ASSUME NEW u \in Users  PROVE Cardinality(LiveOf(u)) <= Limit
    <3>1. Cardinality(LiveOf(u)) = 0
      BY <2>3
    <3>. QED
      BY <2>4, <3>1
  <2>. QED
    BY <2>5 DEF LimitLinks, WithinLimit
<1>. QED
  BY <1>1, <1>2, <1>3, <1>4, <1>5, <1>6 DEF IInv, SafeInv

LEMMA StutterIInv ==
  ASSUME IInv, UNCHANGED vars
  PROVE  IInv'
<1>1. /\ UNCHANGED <<live, grace, consumed, family, index, epoch, minted>>
      /\ UNCHANGED <<detail, now, req, given, device, ended, settled, spent, loose>>
  BY DEF vars, storeVars, sessionVars
<1>2. TypeOK' /\ HistoryLinks'
  BY <1>1 DEF IInv, SafeInv, TypeOK, StoreTypeOK, HistoryLinks, Minted, Dead
<1>3. StoreLinks'
  BY <1>1 DEF IInv, SafeInv, StoreLinks, KeyLinks, IndexLinks, OnePerDevice, PointerListed,
     LiveListed
<1>4. \A r \in Requests : RequestLinks(r)'
  BY <1>1 DEF IInv, SafeInv, RequestLinks, SignInLinks, RefreshLinks, ListingLinks,
     BumpingLinks, Minted, Read, Dead
<1>5. (\A r \in Requests : CountLinks(req[r])') /\ LimitLinks'
  BY <1>1 DEF IInv, CountLinks, Remaining, Read, LimitLinks, WithinLimit, WillList, HasListed,
     Listing, LiveOf
<1>. QED
  BY <1>2, <1>3, <1>4, <1>5 DEF IInv, SafeInv

LEMMA NextIInv ==
  ASSUME IInv, [Next]_vars
  PROVE  IInv'
<1>1. CASE Next
  <2>1. SafeInv' /\ LimitLinks'
    BY <1>1, SafeStep, LimitStep DEF IInv
  <2>2. \A r \in Requests : CountLinks(req[r])'
    <3>1. \A r \in Requests : CountLinks(req'[r])
      BY <1>1, CountStep DEF IInv
    <3>2. ASSUME NEW r \in Requests  PROVE CountLinks(req[r])'
      <4>1. CountLinks(req'[r])
        BY <3>1
      <4>. QED
        BY <4>1, Zenon DEF CountLinks, Remaining, Read
    <3>. QED
      BY <3>2
  <2>. QED
    BY <2>1, <2>2 DEF IInv
<1>2. CASE UNCHANGED vars
  BY <1>2, StutterIInv
<1>. QED
  BY <1>1, <1>2

LEMMA Invariance == Spec => []IInv
<1>1. Init => IInv
  BY InitIInv
<1>2. IInv /\ [Next]_vars => IInv'
  BY NextIInv
<1>. QED
  BY <1>1, <1>2, PTL DEF Spec

-----------------------------------------------------------------------------
(* The theorems *)

(* Details, handlers and store stay well-typed: no handler ranks a session  *)
(* by anything but a date, and none writes the record of nobody back.       *)
THEOREM TypeCorrect == Spec => []TypeOK
<1>1. IInv => TypeOK
  BY DEF IInv, SafeInv
<1>. QED
  BY <1>1, Invariance, PTL

(* No live session hides from the listings that revoke and evict: every     *)
(* script writes the index member with the record, and the three commands   *)
(* of an eviction take the record first.                                    *)
THEOREM LiveSessionsIndexed == Spec => []LiveIndexed
<1>1. IInv => LiveIndexed
  BY DEF IInv, SafeInv, StoreLinks, LiveListed, LiveIndexed
<1>. QED
  BY <1>1, Invariance, PTL

(* revokeAllExceptCurrent never ends the device of its caller: a listing    *)
(* holds one session per device, and the one kept is the caller's, also     *)
(* when its token was rotated before the listing.                           *)
THEOREM OwnDeviceKept == Spec => []OwnSessionKept
<1>1. IInv => OwnSessionKept
  BY DEF IInv, SafeInv, HistoryLinks, OwnSessionKept
<1>. QED
  BY <1>1, Invariance, PTL

(* When revokeAllExceptCurrent is done, every other session of its listing  *)
(* and every grace pointer of it has ended and stays so, whichever handler  *)
(* took it away first.                                                      *)
THEOREM OtherDevicesEnded == Spec => []ListedSessionsEnded
<1>1. IInv => ListedSessionsEnded
  BY DEF IInv, SafeInv, HistoryLinks, ListedSessionsEnded, Dead
<1>. QED
  BY <1>1, Invariance, PTL

(* Once no handler runs, no account has more sessions than the limit,       *)
(* however sign-ins overlapped: enforceSessionLimit lists after its own     *)
(* session was written, so the last of them listed all.                     *)
THEOREM LimitKept == Spec => []LimitHolds
<1>1. IInv => LimitHolds
  BY DEF IInv, LimitLinks, WithinLimit, WillList, HasListed, Listing, LimitHolds, At
<1>. QED
  BY <1>1, Invariance, PTL
=============================================================================
