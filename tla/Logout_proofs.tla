---------------------------- MODULE Logout_proofs ----------------------------
(***************************************************************************)
(* The safety of Logout for every set of users, tokens and attempts, on     *)
(* either plane, whichever commands the store refuses or loses, however     *)
(* attempts overlap and whatever refreshes run beside them.                 *)
(*                                                                          *)
(* The properties are not inductive: an attempt asleep between two writes   *)
(* has done a part of its list, and what it did is known only from what is  *)
(* left of the list and from the writes that failed.  IInv adds that, and   *)
(* who still knows of a logout that was begun and not announced.            *)
(***************************************************************************)
EXTENDS Logout, RefreshStore_proofs

-----------------------------------------------------------------------------
(* The inductive invariant *)

(* The writes an attempt has yet to try, and those that failed. *)
Left(ws) == {ws[i] : i \in 1..Len(ws)}

Undone(q) == Left(q.writes) \cup q.failed

(* The session is deleted before its index member and before its pointer,   *)
(* which is left as long as the session is.                                 *)
SessionFirst(ws) ==
  /\ \A i, j \in 1..Len(ws) : ws[i] = "live" /\ ws[j] \in {"pointer", "member"} => i < j
  /\ "live" \in Left(ws) => "pointer" \in Left(ws)

(* An attempt knows whose token it was handed. *)
OwnerLinks(q) ==
  q.pc # "idle" => /\ q.hash \in Hashes /\ minted[q.hash] # None
                   /\ q.fromSession => q.owner \in Users /\ q.pc # "readMarker"

(* What is neither left on the list nor among the failures has been done,   *)
(* for good.                                                                *)
WriteLinks(q) ==
  q.pc \notin {"idle", "readMarker"} =>
    /\ SessionFirst(q.writes)
    /\ q.pc # "writing" => q.writes = <<>>
    /\ "live" \notin Undone(q) => live[q.hash] = None
    /\ "live" \notin Undone(q) /\ "pointer" \notin Undone(q) => grace[q.hash] = None
    /\ q.token /\ "blacklist" \notin Undone(q) => q.hash \in blacklist \cup lapsed

(* Where an attempt goes after its writes follows from how they went.       *)
AnswerLinks(q) ==
  /\ q.pc \in {"settle", "confirm"} => q.failed = {}
  /\ q.pc \in {"remember", "confirm", "again"} => q.fromSession
  /\ q.pc \in {"metadata", "settle"} => q.owner \in Users

RequestLinks(r) == OwnerLinks(req[r]) /\ WriteLinks(req[r]) /\ AnswerLinks(req[r])

(* An attempt that found the session of h and has not ended. *)
InFlight(r, h) == req[r].pc # "idle" /\ req[r].hash = h /\ req[r].fromSession

(* Somebody still knows of a logout that is not announced. *)
Kept(h) ==
  h \in named => \/ unkept
                 \/ announced[h] > 0
                 \/ marker[h] # None
                 \/ \E r \in Attempts : InFlight(r, h)

(* Attempts that never overlapped announce a logout when nothing is left    *)
(* that could announce it again.                                            *)
OneAtATime == \A q, r \in Attempts : ~At(q, "idle") /\ ~At(r, "idle") => q = r

Settled(h) ==
  /\ announced[h] <= 1
  /\ announced[h] > 0 => /\ minted[h] # None /\ live[h] = None /\ marker[h] = None
                         /\ \A r \in Attempts : ~InFlight(r, h)

AnnouncedLinks == ~overlapped => OneAtATime /\ \A h \in Hashes : Settled(h)

SucceededLinks == \A s \in succeeded : minted[s.hash] # None

IInv ==
  /\ TypeOK /\ LiveListed /\ KeysMinted
  /\ \A r \in Attempts : RequestLinks(r)
  /\ SucceededLinks /\ SignedOutForGood
  /\ \A h \in Hashes : Kept(h)
  /\ AnnouncedLinks

-----------------------------------------------------------------------------
(* The lists of writes *)

(* Trying the head of a list leaves the rest of it. *)
LEMMA LeftOfTail ==
  ASSUME NEW ws \in Seq(Commands), ws # <<>>
  PROVE  /\ Tail(ws) \in Seq(Commands) /\ Head(ws) \in Commands
         /\ Left(ws) = {Head(ws)} \cup Left(Tail(ws))
<1>1. /\ Len(ws) \in Nat \ {0} /\ Tail(ws) \in Seq(Commands) /\ Len(Tail(ws)) = Len(ws) - 1
      /\ Head(ws) = ws[1] /\ \A i \in 1..(Len(ws) - 1) : Tail(ws)[i] = ws[i + 1]
      /\ ws[1] \in Commands
  OBVIOUS
<1>2. ASSUME NEW c \in Left(ws)  PROVE c \in {Head(ws)} \cup Left(Tail(ws))
  <2>1. PICK i \in 1..Len(ws) : c = ws[i]
    BY <1>2 DEF Left
  <2>2. CASE i = 1
    BY <2>1, <2>2, <1>1
  <2>3. CASE i # 1
    <3>1. i - 1 \in 1..Len(Tail(ws)) /\ Tail(ws)[i - 1] = c
      BY <2>1, <2>3, <1>1
    <3>. QED
      BY <3>1 DEF Left
  <2>. QED
    BY <2>2, <2>3
<1>3. ASSUME NEW c \in Left(Tail(ws))  PROVE c \in Left(ws)
  <2>1. PICK i \in 1..Len(Tail(ws)) : c = Tail(ws)[i]
    BY <1>3 DEF Left
  <2>2. i + 1 \in 1..Len(ws) /\ ws[i + 1] = c
    BY <2>1, <1>1
  <2>. QED
    BY <2>2 DEF Left
<1>4. Head(ws) \in Left(ws)
  BY <1>1 DEF Left
<1>. QED
  BY <1>1, <1>2, <1>3, <1>4

LEMMA SessionFirstTail ==
  ASSUME NEW ws \in Seq(Commands), ws # <<>>, SessionFirst(ws)
  PROVE  /\ SessionFirst(Tail(ws))
         /\ Head(ws) \in {"pointer", "member"} => "live" \notin Left(ws)
<1>1. /\ Len(ws) \in Nat \ {0} /\ Len(Tail(ws)) = Len(ws) - 1
      /\ Head(ws) = ws[1] /\ \A i \in 1..(Len(ws) - 1) : Tail(ws)[i] = ws[i + 1]
  OBVIOUS
<1>2. ASSUME NEW i \in 1..Len(Tail(ws)), NEW j \in 1..Len(Tail(ws)),
             Tail(ws)[i] = "live", Tail(ws)[j] \in {"pointer", "member"}
      PROVE  i < j
  <2>1. /\ i + 1 \in 1..Len(ws) /\ ws[i + 1] = "live"
        /\ j + 1 \in 1..Len(ws) /\ ws[j + 1] \in {"pointer", "member"}
    BY <1>1, <1>2
  <2>. QED
    BY <2>1, <1>1 DEF SessionFirst
<1>3. ASSUME ws[1] \in {"pointer", "member"}, NEW i \in 1..Len(ws), ws[i] = "live"
      PROVE  FALSE
  BY <1>1, <1>3 DEF SessionFirst
<1>4. Head(ws) \in {"pointer", "member"} => "live" \notin Left(ws)
  BY <1>1, <1>3 DEF Left
<1>5. "live" \in Left(Tail(ws)) => "pointer" \in Left(Tail(ws))
  BY <1>4, LeftOfTail DEF SessionFirst
<1>. QED
  BY <1>2, <1>4, <1>5 DEF SessionFirst

(* The list a logout starts with, whichever plane and token. *)
LEMMA WritesFacts ==
  ASSUME NEW token \in BOOLEAN, plane \in {"dashboard", "platform"}
  PROVE  /\ Writes(token) \in Seq(Commands)
         /\ SessionFirst(Writes(token))
         /\ "live" \in Left(Writes(token)) /\ "pointer" \in Left(Writes(token))
         /\ token => "blacklist" \in Left(Writes(token))
<1>. DEFINE ws == Writes(token)
<1>1. CASE plane = "dashboard" /\ token
  <2>1. ws = <<"blacklist">> \o <<"live", "pointer">>
    BY <1>1 DEF Writes
  <2>2. ws \in Seq(Commands) /\ Len(ws) = 3
    BY <2>1 DEF Commands
  <2>3. ws[1] = "blacklist" /\ ws[2] = "live" /\ ws[3] = "pointer"
    BY <2>1
  <2>. HIDE DEF ws
  <2>4. "live" \in Left(ws) /\ "pointer" \in Left(ws) /\ "blacklist" \in Left(ws)
    BY <2>2, <2>3 DEF Left
  <2>5. SessionFirst(ws)
    BY <2>2, <2>3, <2>4 DEF SessionFirst
  <2>. QED
    BY <2>2, <2>4, <2>5 DEF ws
<1>2. CASE plane = "dashboard" /\ ~token
  <2>1. ws = <<>> \o <<"live", "pointer">>
    BY <1>2 DEF Writes
  <2>2. ws \in Seq(Commands) /\ Len(ws) = 2
    BY <2>1 DEF Commands
  <2>3. ws[1] = "live" /\ ws[2] = "pointer"
    BY <2>1
  <2>. HIDE DEF ws
  <2>4. "live" \in Left(ws) /\ "pointer" \in Left(ws)
    BY <2>2, <2>3 DEF Left
  <2>5. SessionFirst(ws)
    BY <2>2, <2>3, <2>4 DEF SessionFirst
  <2>. QED
    BY <1>2, <2>2, <2>4, <2>5 DEF ws
<1>3. CASE plane = "platform" /\ token
  <2>1. ws = <<"blacklist">> \o <<"live", "member", "detail", "pointer", "pointerMember">>
    BY <1>3 DEF Writes
  <2>2. ws \in Seq(Commands) /\ Len(ws) = 6
    BY <2>1 DEF Commands
  <2>3. /\ ws[1] = "blacklist" /\ ws[2] = "live" /\ ws[3] = "member" /\ ws[4] = "detail"
        /\ ws[5] = "pointer" /\ ws[6] = "pointerMember"
    BY <2>1
  <2>. HIDE DEF ws
  <2>4. "live" \in Left(ws) /\ "pointer" \in Left(ws) /\ "blacklist" \in Left(ws)
    BY <2>2, <2>3 DEF Left
  <2>5. SessionFirst(ws)
    BY <2>2, <2>3, <2>4 DEF SessionFirst
  <2>. QED
    BY <2>2, <2>4, <2>5 DEF ws
<1>4. CASE plane = "platform" /\ ~token
  <2>1. ws = <<>> \o <<"live", "member", "detail", "pointer", "pointerMember">>
    BY <1>4 DEF Writes
  <2>2. ws \in Seq(Commands) /\ Len(ws) = 5
    BY <2>1 DEF Commands
  <2>3. /\ ws[1] = "live" /\ ws[2] = "member" /\ ws[3] = "detail"
        /\ ws[4] = "pointer" /\ ws[5] = "pointerMember"
    BY <2>1
  <2>. HIDE DEF ws
  <2>4. "live" \in Left(ws) /\ "pointer" \in Left(ws)
    BY <2>2, <2>3 DEF Left
  <2>5. SessionFirst(ws)
    BY <2>2, <2>3, <2>4 DEF SessionFirst
  <2>. QED
    BY <1>4, <2>2, <2>4, <2>5 DEF ws
<1>. QED
  BY <1>1, <1>2, <1>3, <1>4

-----------------------------------------------------------------------------
(* What a step does to the keyspace *)

(* An index member goes only after the session it names. *)
LEMMA EffectStore ==
  ASSUME StoreTypeOK, NEW w, NEW h \in Hashes, NEW owner, Effect(w, h, owner),
         w = "member" => live[h] = None
  PROVE  StoreTypeOK' /\ OnlyRemoves /\ (LiveListed => LiveListed')
<1>1. StoreTypeOK' /\ OnlyRemoves
  BY DEF Effect, StoreTypeOK, OnlyRemoves
<1>2. ASSUME LiveListed, NEW g \in Hashes, live'[g] # None
      PROVE  Rt(g) \in index'[live'[g].user]
  <2>1. live'[g] = live[g] /\ live[g] # None /\ live[g].user \in Users
    BY <1>1, <1>2 DEF OnlyRemoves, StoreTypeOK, Session
  <2>2. w = "member" => Rt(g) # Rt(h)
    BY <2>1 DEF Rt
  <2>3. Rt(g) # Rp(h)
    BY DEF Rt, Rp
  <2>4. Rt(g) \in index[live[g].user]
    BY <1>2, <2>1 DEF LiveListed
  <2>. QED
    BY <2>1, <2>2, <2>3, <2>4 DEF Effect
<1>. QED
  BY <1>1, <1>2 DEF LiveListed

(* Every step of Logout is one of these. *)
Sleeps(r) == \/ \E h \in Hashes, token \in BOOLEAN : LogoutReadSession(r, h, token)
             \/ LogoutReadMarker(r)
             \/ LogoutWritesDone(r)
             \/ LogoutRemember(r)
             \/ LogoutSettle(r)
             \/ LogoutConfirm(r)

Environment == \/ \E u \in Users, f \in Families, h \in Hashes : SignIn(u, f, h)
               \/ \E h, g \in Hashes : RefreshRotate(h, g)
               \/ \E h \in Hashes : RefreshGrace(h) \/ AccessLapse(h)

LEMMA StepCases ==
  ASSUME Next
  PROVE  (\E r \in Attempts : Sleeps(r) \/ LogoutWrite(r) \/ LogoutMetadata(r)) \/ Environment
BY DEF Next, Step, Sleeps, Environment

(* The attempts that ask the store something leave the keyspace alone. *)
LEMMA SleepsStore ==
  ASSUME NEW r \in Attempts, Sleeps(r)
  PROVE  UNCHANGED storeVars /\ UNCHANGED <<blacklist, lapsed>>
BY DEF Sleeps, LogoutReadSession, LogoutReadMarker, LogoutWritesDone, LogoutRemember,
   LogoutSettle, LogoutConfirm

LEMMA WriteStore ==
  ASSUME IInv, NEW r \in Attempts, LogoutWrite(r)
  PROVE  StoreTypeOK' /\ OnlyRemoves /\ (LiveListed => LiveListed')
<1>. DEFINE ws == req[r].writes
<1>1. ws \in Seq(Commands) /\ ws # <<>> /\ SessionFirst(ws) /\ req[r].hash \in Hashes
      /\ ("live" \notin Undone(req[r]) => live[req[r].hash] = None)
  BY DEF IInv, TypeOK, Request, RequestLinks, OwnerLinks, WriteLinks, LogoutWrite, At
<1>2. CASE UNCHANGED storeVars
  BY <1>2, StutterStore DEF IInv, TypeOK
<1>3. CASE ~Skipped(r, Head(ws)) /\ Effect(Head(ws), req[r].hash, req[r].owner)
  <2>1. Head(ws) = "member" => live[req[r].hash] = None
    BY <1>1, <1>3, SessionFirstTail DEF Skipped, Undone
  <2>. QED
    BY <1>1, <1>3, <2>1, EffectStore DEF IInv, TypeOK
<1>. QED
  BY <1>2, <1>3 DEF LogoutWrite

LEMMA MetadataStore ==
  ASSUME IInv, NEW r \in Attempts, LogoutMetadata(r)
  PROVE  StoreTypeOK' /\ OnlyRemoves /\ (LiveListed => LiveListed')
<1>1. req[r].hash \in Hashes /\ req[r].owner \in Users
  BY DEF IInv, RequestLinks, OwnerLinks, AnswerLinks, LogoutMetadata, At
<1>2. CASE UNCHANGED storeVars
  BY <1>2, StutterStore DEF IInv, TypeOK
<1>3. CASE RevokeSession(req[r].owner, req[r].hash)
  BY <1>1, <1>3, RevokeSessionStore DEF IInv, TypeOK
<1>. QED
  BY <1>2, <1>3 DEF LogoutMetadata

(* The keyspace stays well-typed with every live session listed, no step    *)
(* gives a key back, and a refused access token stays refused.              *)
Evolves == NoRevival /\ blacklist \subseteq blacklist' /\ lapsed \subseteq lapsed'

LEMMA StoreStep ==
  ASSUME IInv, Next
  PROVE  StoreTypeOK' /\ LiveListed' /\ KeysMinted' /\ Evolves
<1>. StoreTypeOK /\ LiveListed /\ KeysMinted
  BY DEF IInv, TypeOK
<1>1. ASSUME StoreTypeOK', OnlyRemoves, LiveListed => LiveListed',
             blacklist \subseteq blacklist', lapsed \subseteq lapsed'
      PROVE  StoreTypeOK' /\ LiveListed' /\ KeysMinted' /\ Evolves
  BY <1>1, RemovesKeeps DEF Evolves
<1>2. ASSUME NEW r \in Attempts, Sleeps(r)
      PROVE  StoreTypeOK' /\ LiveListed' /\ KeysMinted' /\ Evolves
  BY <1>1, <1>2, SleepsStore, StutterStore
<1>3. ASSUME NEW r \in Attempts, LogoutWrite(r)
      PROVE  StoreTypeOK' /\ LiveListed' /\ KeysMinted' /\ Evolves
  <2>1. blacklist \subseteq blacklist' /\ lapsed' = lapsed
    BY <1>3 DEF LogoutWrite, Effect
  <2>. QED
    BY <1>1, <1>3, <2>1, WriteStore
<1>4. ASSUME NEW r \in Attempts, LogoutMetadata(r)
      PROVE  StoreTypeOK' /\ LiveListed' /\ KeysMinted' /\ Evolves
  BY <1>1, <1>4, MetadataStore DEF LogoutMetadata
<1>5. ASSUME NEW u \in Users, NEW f \in Families, NEW h \in Hashes, SignIn(u, f, h)
      PROVE  StoreTypeOK' /\ LiveListed' /\ KeysMinted' /\ Evolves
  <2>1. [user |-> u, family |-> f, mfa |-> FALSE] \in Session
    BY DEF Session
  <2>. QED
    BY <1>5, <2>1, CreateSessionStore DEF SignIn, Evolves, logoutVars
<1>6. ASSUME NEW h \in Hashes, NEW g \in Hashes, RefreshRotate(h, g)
      PROVE  StoreTypeOK' /\ LiveListed' /\ KeysMinted' /\ Evolves
  <2>1. minted[h] # None
    BY <1>6 DEF RefreshRotate, IsLive, KeysMinted
  <2>. QED
    BY <1>6, <2>1, RotateLiveStore DEF RefreshRotate, Evolves, logoutVars
<1>7. ASSUME NEW h \in Hashes, RefreshGrace(h) \/ AccessLapse(h)
      PROVE  StoreTypeOK' /\ LiveListed' /\ KeysMinted' /\ Evolves
  <2>1. CASE RefreshGrace(h)
    BY <1>1, <2>1, RotateGraceStore DEF RefreshGrace, logoutVars
  <2>2. CASE AccessLapse(h)
    BY <1>1, <2>2, StutterStore DEF AccessLapse
  <2>. QED
    BY <1>7, <2>1, <2>2
<1>. QED
  BY <1>2, <1>3, <1>4, <1>5, <1>6, <1>7, StepCases DEF Environment

-----------------------------------------------------------------------------
(* What a step does to the attempts *)

LEMMA OneMoves ==
  ASSUME IInv, NEW r \in Attempts, Sleeps(r) \/ LogoutWrite(r) \/ LogoutMetadata(r)
  PROVE  \A q \in Attempts : q # r => req'[q] = req[q]
<1>. req \in [Attempts -> Request]
  BY DEF IInv, TypeOK
<1>1. ASSUME NEW state, Goto(r, state)
      PROVE  \A q \in Attempts : q # r => req'[q] = req[q]
  BY <1>1 DEF Goto
<1>2. \E state : Goto(r, state)
  <2>1. CASE Sleeps(r)
    BY <2>1 DEF Sleeps, LogoutReadSession, LogoutReadMarker, LogoutWritesDone, LogoutRemember,
       LogoutSettle, LogoutConfirm, Decide, Finish
  <2>2. CASE LogoutWrite(r)
    BY <2>2 DEF LogoutWrite
  <2>3. CASE LogoutMetadata(r)
    BY <2>3 DEF LogoutMetadata, Decide, Finish
  <2>. QED
    BY <2>1, <2>2, <2>3
<1>. QED
  BY <1>1, <1>2

(* A write is carried out, or it failed, or it follows one that failed.     *)
LEMMA WriteCases ==
  ASSUME IInv, NEW r \in Attempts, LogoutWrite(r)
  PROVE  LET ws == req[r].writes
             w  == Head(ws)
         IN  /\ req[r].pc = "writing" /\ ws \in Seq(Commands) /\ ws # <<>>
             /\ \E failed \in {req[r].failed, req[r].failed \cup {w}} :
                  /\ req' = [req EXCEPT ![r] = [req[r] EXCEPT !.writes = Tail(ws),
                                                              !.failed = failed]]
                  /\ \/ w \in failed
                     \/ w \in {"member", "detail", "pointerMember"}
                     \/ Effect(w, req[r].hash, req[r].owner)
<1>. DEFINE ws == req[r].writes
<1>. DEFINE w == Head(ws)
<1>1. req[r] \in Request /\ req[r].pc = "writing" /\ ws \in Seq(Commands) /\ ws # <<>>
  BY DEF IInv, TypeOK, Request, LogoutWrite, At
<1>2. CASE Skipped(r, w)
  <2>1. req' = [req EXCEPT ![r] = [req[r] EXCEPT !.writes = Tail(ws), !.failed = req[r].failed]]
    BY <1>1, <1>2 DEF LogoutWrite, Goto, Request
  <2>. QED
    BY <1>1, <1>2, <2>1 DEF Skipped
<1>3. CASE ~Skipped(r, w)
  <2>1. PICK o \in Outcomes(w) :
          /\ IF Carried(o) THEN Effect(w, req[r].hash, req[r].owner)
                           ELSE UNCHANGED <<storeVars, blacklist>>
          /\ req' = [req EXCEPT ![r] =
                       IF Raised(o) THEN [[req[r] EXCEPT !.writes = Tail(@)]
                                            EXCEPT !.failed = @ \cup {w}]
                                    ELSE [req[r] EXCEPT !.writes = Tail(@)]]
    BY <1>3 DEF LogoutWrite, Goto
  <2>2. CASE Raised(o)
    <3>1. req' = [req EXCEPT ![r] = [req[r] EXCEPT !.writes = Tail(ws),
                                                   !.failed = req[r].failed \cup {w}]]
      BY <1>1, <2>1, <2>2 DEF Request
    <3>. QED
      BY <1>1, <3>1
  <2>3. CASE ~Raised(o)
    <3>1. req' = [req EXCEPT ![r] = [req[r] EXCEPT !.writes = Tail(ws),
                                                   !.failed = req[r].failed]]
      BY <1>1, <2>1, <2>3 DEF Request
    <3>2. Effect(w, req[r].hash, req[r].owner)
      BY <2>1, <2>3 DEF Raised, Carried
    <3>. QED
      BY <1>1, <3>1, <3>2
  <2>. QED
    BY <2>2, <2>3
<1>. QED
  BY <1>2, <1>3

(* After the writes an attempt ends, or goes on from where it stands.       *)
LEMMA DecideCases ==
  ASSUME IInv, NEW r \in Attempts, Decide(r)
  PROVE  \/ /\ req' = [req EXCEPT ![r] = Idle]
            /\ req[r].failed # {} => ~req[r].fromSession /\ succeeded' = succeeded
            /\ req[r].failed = {} => req[r].owner = NoUser /\ Answer(r)
         \/ /\ req' = [req EXCEPT ![r] = [req[r] EXCEPT !.pc = "remember"]]
            /\ req[r].fromSession /\ succeeded' = succeeded
         \/ /\ req' = [req EXCEPT ![r] = [req[r] EXCEPT !.pc = "settle"]]
            /\ req[r].failed = {} /\ req[r].owner # NoUser /\ succeeded' = succeeded
BY DEF Decide, Remembers, Goto, Finish

(* An attempt that does not move keeps what it knows. *)
LEMMA SleepingLinks ==
  ASSUME IInv, Evolves, NEW r \in Attempts, req'[r] = req[r]
  PROVE  RequestLinks(r)'
<1>1. RequestLinks(r)
  BY DEF IInv
<1>2. OwnerLinks(req[r])'
  BY <1>1 DEF RequestLinks, OwnerLinks, Evolves, NoRevival
<1>3. WriteLinks(req[r])'
  BY <1>1 DEF RequestLinks, OwnerLinks, WriteLinks, Undone, Evolves, NoRevival
<1>4. AnswerLinks(req[r])'
  BY <1>1 DEF RequestLinks, AnswerLinks
<1>. QED
  BY <1>2, <1>3, <1>4 DEF RequestLinks

LEMMA IdleLinks ==
  ASSUME NEW r \in Attempts, req'[r] = Idle
  PROVE  RequestLinks(r)'
BY DEF RequestLinks, OwnerLinks, WriteLinks, AnswerLinks, Idle

(* Nor does one that is past its writes, whatever it goes on to.            *)
LEMMA PastLinks ==
  ASSUME IInv, Evolves, NEW r \in Attempts, req[r].pc \notin {"idle", "readMarker"},
         req[r].writes = <<>>,
         NEW pc \in {"metadata", "remember", "settle", "confirm", "again"},
         req'[r] = [req[r] EXCEPT !.pc = pc],
         pc \in {"settle", "confirm"} => req[r].failed = {},
         pc \in {"remember", "confirm", "again"} => req[r].fromSession,
         pc \in {"metadata", "settle"} => req[r].owner \in Users
  PROVE  RequestLinks(r)'
<1>1. RequestLinks(r) /\ req[r] \in Request
  BY DEF IInv, TypeOK
<1>2. /\ req'[r].pc = pc /\ req'[r].hash = req[r].hash /\ req'[r].token = req[r].token
      /\ req'[r].owner = req[r].owner /\ req'[r].fromSession = req[r].fromSession
      /\ req'[r].writes = req[r].writes /\ req'[r].failed = req[r].failed
  BY <1>1 DEF Request
<1>3. OwnerLinks(req[r])'
  BY <1>1, <1>2 DEF RequestLinks, OwnerLinks, Evolves, NoRevival
<1>4. WriteLinks(req[r])'
  BY <1>1, <1>2 DEF RequestLinks, OwnerLinks, WriteLinks, Undone, Evolves, NoRevival
<1>5. AnswerLinks(req[r])'
  BY <1>2 DEF AnswerLinks
<1>. QED
  BY <1>3, <1>4, <1>5 DEF RequestLinks

(* An attempt that starts on its list has done nothing of it. *)
LEMMA BeginLinks ==
  ASSUME IInv, Evolves, NEW r \in Attempts, NEW h \in Hashes, minted[h] # None,
         req'[r].pc = "writing", req'[r].hash = h, req'[r].token \in BOOLEAN,
         req'[r].writes = Writes(req'[r].token /\ h \notin lapsed),
         req'[r].fromSession => req'[r].owner \in Users
  PROVE  RequestLinks(r)'
<1>. DEFINE token == req'[r].token /\ h \notin lapsed
<1>. DEFINE ws == Writes(token)
<1>1. /\ SessionFirst(ws) /\ "live" \in Left(ws) /\ "pointer" \in Left(ws)
      /\ token => "blacklist" \in Left(ws)
  <2>. HIDE DEF token
  <2>1. token \in BOOLEAN
    BY DEF token
  <2>. QED
    BY <2>1, WritesFacts DEF IInv, TypeOK
<1>2. OwnerLinks(req[r])'
  BY DEF OwnerLinks, Evolves, NoRevival
<1>3. WriteLinks(req[r])'
  BY <1>1 DEF WriteLinks, Undone, Evolves
<1>4. AnswerLinks(req[r])'
  BY DEF AnswerLinks
<1>. QED
  BY <1>2, <1>3, <1>4 DEF RequestLinks

LEMMA WriteKeepsLinks ==
  ASSUME IInv, Evolves, NEW r \in Attempts, LogoutWrite(r)
  PROVE  RequestLinks(r)'
<1>. DEFINE ws == req[r].writes
<1>. DEFINE w == Head(ws)
<1>. DEFINE h == req[r].hash
<1>1. PICK failed \in {req[r].failed, req[r].failed \cup {w}} :
        /\ req' = [req EXCEPT ![r] = [req[r] EXCEPT !.writes = Tail(ws), !.failed = failed]]
        /\ \/ w \in failed
           \/ w \in {"member", "detail", "pointerMember"}
           \/ Effect(w, h, req[r].owner)
  BY WriteCases
<1>2. /\ RequestLinks(r) /\ req \in [Attempts -> Request] /\ req[r] \in Request
      /\ req[r].pc = "writing" /\ ws \in Seq(Commands) /\ ws # <<>> /\ StoreTypeOK
  BY WriteCases DEF IInv, TypeOK
<1>3. /\ req'[r].pc = "writing" /\ req'[r].hash = h /\ req'[r].token = req[r].token
      /\ req'[r].owner = req[r].owner /\ req'[r].fromSession = req[r].fromSession
      /\ req'[r].writes = Tail(ws) /\ req'[r].failed = failed
  BY <1>1, <1>2 DEF Request
<1>4. h \in Hashes /\ minted[h] # None /\ SessionFirst(ws)
  BY <1>2 DEF RequestLinks, OwnerLinks, WriteLinks
<1>5. /\ Left(ws) = {w} \cup Left(Tail(ws)) /\ SessionFirst(Tail(ws))
      /\ w \in {"pointer", "member"} => "live" \notin Left(ws)
  BY <1>2, <1>4, LeftOfTail, SessionFirstTail
<1>6. \A c \in {"live", "pointer", "blacklist"} :
        c \notin Undone(req[r])' =>
          c \notin Undone(req[r]) \/ (w = c /\ Effect(w, h, req[r].owner))
  <2>1. /\ Undone(req[r])' = Left(Tail(ws)) \cup failed
        /\ Undone(req[r]) = {w} \cup Left(Tail(ws)) \cup req[r].failed
    BY <1>3, <1>5 DEF Undone
  <2>2. ASSUME NEW c \in {"live", "pointer", "blacklist"}, c \notin Undone(req[r])',
               c \in Undone(req[r])
        PROVE  w = c /\ Effect(w, h, req[r].owner)
    <3>1. w = c /\ w \notin failed
      BY <1>1, <2>1, <2>2
    <3>2. w \notin {"member", "detail", "pointerMember"}
      BY <3>1
    <3>. QED
      BY <1>1, <3>1, <3>2
  <2>. QED
    BY <2>2
<1>7. OwnerLinks(req[r])' /\ AnswerLinks(req[r])'
  BY <1>2, <1>3 DEF RequestLinks, OwnerLinks, AnswerLinks, Evolves, NoRevival
<1>8. "live" \notin Undone(req[r])' => live'[h] = None
  BY <1>2, <1>4, <1>6 DEF RequestLinks, WriteLinks, Effect, StoreTypeOK, Evolves, NoRevival
<1>9. ASSUME "live" \notin Undone(req[r])', "pointer" \notin Undone(req[r])'
      PROVE  grace'[h] = None
  <2>1. CASE "pointer" \notin Undone(req[r]) /\ "live" \notin Undone(req[r])
    BY <1>2, <1>4, <2>1 DEF RequestLinks, WriteLinks, Evolves, NoRevival
  <2>2. CASE "pointer" \notin Undone(req[r]) /\ w = "live"
    BY <1>4, <1>5, <2>2 DEF SessionFirst, Undone
  <2>3. CASE w = "pointer" /\ Effect(w, h, req[r].owner)
    BY <1>2, <1>4, <2>3 DEF Effect, StoreTypeOK
  <2>. QED
    BY <1>6, <1>9, <2>1, <2>2, <2>3
<1>10. req[r].token /\ "blacklist" \notin Undone(req[r])' => h \in blacklist' \cup lapsed'
  BY <1>2, <1>6 DEF RequestLinks, WriteLinks, Effect, Evolves
<1>. QED
  BY <1>3, <1>5, <1>7, <1>8, <1>9, <1>10 DEF RequestLinks, WriteLinks

LEMMA ReadSessionLinks ==
  ASSUME IInv, Evolves, NEW r \in Attempts, NEW h \in Hashes, NEW token \in BOOLEAN,
         LogoutReadSession(r, h, token)
  PROVE  RequestLinks(r)'
<1>. req \in [Attempts -> Request] /\ StoreTypeOK /\ minted[h] # None
  BY DEF IInv, TypeOK, LogoutReadSession, Fresh
<1>1. CASE Finish(r)
  BY <1>1, IdleLinks DEF Finish, Goto
<1>2. CASE /\ IsLive(h)
           /\ Goto(r, [Idle EXCEPT !.pc = "writing", !.hash = h, !.token = token,
                         !.owner = live[h].user, !.fromSession = TRUE,
                         !.writes = Writes(token /\ h \notin lapsed)])
  <2>1. /\ req'[r].pc = "writing" /\ req'[r].hash = h /\ req'[r].token = token
        /\ req'[r].owner = live[h].user
        /\ req'[r].writes = Writes(token /\ h \notin lapsed)
    BY <1>2 DEF Goto, Idle
  <2>2. live[h].user \in Users
    BY <1>2 DEF IsLive, StoreTypeOK, Session
  <2>. QED
    BY <2>1, <2>2, BeginLinks
<1>3. CASE Goto(r, [Idle EXCEPT !.pc = "readMarker", !.hash = h, !.token = token])
  <2>1. req'[r].pc = "readMarker" /\ req'[r].hash = h /\ ~req'[r].fromSession
    BY <1>3 DEF Goto, Idle
  <2>. QED
    BY <2>1 DEF RequestLinks, OwnerLinks, WriteLinks, AnswerLinks, Evolves, NoRevival
<1>. QED
  BY <1>1, <1>2, <1>3 DEF LogoutReadSession

LEMMA ReadMarkerLinks ==
  ASSUME IInv, Evolves, NEW r \in Attempts, LogoutReadMarker(r)
  PROVE  RequestLinks(r)'
<1>. req \in [Attempts -> Request] /\ req[r] \in Request
  BY DEF IInv, TypeOK
<1>1. CASE Finish(r)
  BY <1>1, IdleLinks DEF Finish, Goto
<1>2. CASE Goto(r, [req[r] EXCEPT !.pc = "writing", !.owner = MarkedOwner(req[r].hash),
                      !.writes = Writes(req[r].token /\ req[r].hash \notin lapsed)])
  <2>1. req[r].hash \in Hashes /\ minted[req[r].hash] # None /\ ~req[r].fromSession
    BY DEF IInv, RequestLinks, OwnerLinks, LogoutReadMarker, At
  <2>2. /\ req'[r].pc = "writing" /\ req'[r].hash = req[r].hash /\ req'[r].token = req[r].token
        /\ req'[r].fromSession = req[r].fromSession /\ req[r].token \in BOOLEAN
        /\ req'[r].writes = Writes(req[r].token /\ req[r].hash \notin lapsed)
    BY <1>2 DEF Goto, Request
  <2>. QED
    BY <2>1, <2>2, BeginLinks
<1>. QED
  BY <1>1, <1>2 DEF LogoutReadMarker

LEMMA DecideLinks ==
  ASSUME IInv, Evolves, NEW r \in Attempts, req[r].pc \in {"writing", "metadata"},
         req[r].writes = <<>>, Decide(r)
  PROVE  RequestLinks(r)'
<1>. req \in [Attempts -> Request] /\ req[r] \in Request
  BY DEF IInv, TypeOK
<1>1. CASE req' = [req EXCEPT ![r] = Idle]
  BY <1>1, IdleLinks
<1>2. CASE /\ req' = [req EXCEPT ![r] = [req[r] EXCEPT !.pc = "remember"]]
           /\ req[r].fromSession
  BY <1>2, PastLinks
<1>3. CASE /\ req' = [req EXCEPT ![r] = [req[r] EXCEPT !.pc = "settle"]]
           /\ req[r].failed = {} /\ req[r].owner # NoUser
  <2>1. req[r].owner \in Users
    BY <1>3 DEF Request
  <2>. QED
    BY <1>3, <2>1, PastLinks
<1>. QED
  BY <1>1, <1>2, <1>3, DecideCases

LEMMA RequestStep ==
  ASSUME IInv, Next, NEW q \in Attempts
  PROVE  RequestLinks(q)'
<1>. req \in [Attempts -> Request] /\ req[q] \in Request /\ Evolves
  BY StoreStep DEF IInv, TypeOK
<1>1. CASE Environment
  <2>1. req' = req
    BY <1>1 DEF Environment, SignIn, RefreshRotate, RefreshGrace, AccessLapse, logoutVars
  <2>. QED
    BY <2>1, SleepingLinks
<1>2. ASSUME NEW r \in Attempts, r # q, Sleeps(r) \/ LogoutWrite(r) \/ LogoutMetadata(r)
      PROVE  RequestLinks(q)'
  BY <1>2, OneMoves, SleepingLinks
<1>3. CASE LogoutWrite(q)
  BY <1>3, WriteKeepsLinks
<1>4. CASE LogoutMetadata(q)
  <2>1. req[q].pc = "metadata" /\ req[q].writes = <<>> /\ Decide(q)
    BY <1>4 DEF LogoutMetadata, At, IInv, RequestLinks, WriteLinks
  <2>. QED
    BY <2>1, DecideLinks
<1>5. ASSUME NEW h \in Hashes, NEW token \in BOOLEAN, LogoutReadSession(q, h, token)
      PROVE  RequestLinks(q)'
  BY <1>5, ReadSessionLinks
<1>6. CASE LogoutReadMarker(q)
  BY <1>6, ReadMarkerLinks
<1>7. CASE LogoutWritesDone(q)
  <2>1. req[q].pc = "writing" /\ req[q].writes = <<>>
    BY <1>7 DEF LogoutWritesDone, At
  <2>2. CASE HasMetadata(q) /\ Goto(q, [req[q] EXCEPT !.pc = "metadata"])
    <3>1. req[q].owner \in Users
      BY <2>2 DEF HasMetadata, Request
    <3>. QED
      BY <2>1, <2>2, <3>1, PastLinks DEF Goto
  <2>3. CASE Decide(q)
    BY <2>1, <2>3, DecideLinks
  <2>. QED
    BY <1>7, <2>2, <2>3 DEF LogoutWritesDone
<1>8. CASE LogoutRemember(q)
  BY <1>8, IdleLinks DEF LogoutRemember, Finish, Goto
<1>9. CASE LogoutSettle(q)
  <2>1. req[q].pc = "settle" /\ req[q].writes = <<>> /\ req[q].failed = {}
    BY <1>9 DEF LogoutSettle, At, IInv, RequestLinks, WriteLinks, AnswerLinks
  <2>2. CASE Finish(q)
    BY <2>2, IdleLinks DEF Finish, Goto
  <2>3. CASE req[q].fromSession /\ Goto(q, [req[q] EXCEPT !.pc = "confirm"])
    BY <2>1, <2>3, PastLinks DEF Goto
  <2>. QED
    BY <1>9, <2>2, <2>3 DEF LogoutSettle
<1>10. CASE LogoutConfirm(q)
  <2>1. req[q].pc = "confirm" /\ req[q].writes = <<>> /\ req[q].fromSession
    BY <1>10 DEF LogoutConfirm, At, IInv, RequestLinks, WriteLinks, AnswerLinks
  <2>2. CASE Finish(q)
    BY <2>2, IdleLinks DEF Finish, Goto
  <2>3. CASE Goto(q, [req[q] EXCEPT !.pc = "again"])
    BY <2>1, <2>3, PastLinks DEF Goto
  <2>. QED
    BY <1>10, <2>2, <2>3 DEF LogoutConfirm
<1>. QED
  BY <1>1, <1>2, <1>3, <1>4, <1>5, <1>6, <1>7, <1>8, <1>9, <1>10, StepCases DEF Sleeps

-----------------------------------------------------------------------------
(* Type correctness *)

LEMMA EnvironmentType ==
  ASSUME IInv, StoreTypeOK', Environment
  PROVE  TypeOK'
<1>1. CASE UNCHANGED logoutVars
  BY <1>1 DEF IInv, TypeOK, logoutVars
<1>2. ASSUME NEW h \in Hashes, AccessLapse(h)
      PROVE  TypeOK'
  BY <1>2 DEF IInv, TypeOK, AccessLapse, fixedVars
<1>. QED
  BY <1>1, <1>2 DEF Environment, SignIn, RefreshRotate, RefreshGrace

(* A step moves an attempt to a state of its type. *)
LEMMA RequestTypes ==
  ASSUME IInv, NEW r \in Attempts, Sleeps(r) \/ LogoutWrite(r) \/ LogoutMetadata(r)
  PROVE  req' \in [Attempts -> Request]
<1>. TypeOK /\ StoreTypeOK /\ req \in [Attempts -> Request] /\ req[r] \in Request
  BY DEF IInv, TypeOK
<1>1. Idle \in Request
  BY DEF Idle, Request
<1>2. ASSUME Finish(r)  PROVE req' \in [Attempts -> Request]
  BY <1>1, <1>2 DEF Finish, Goto
<1>3. ASSUME NEW pc \in {"metadata", "remember", "settle", "confirm", "again"},
             Goto(r, [req[r] EXCEPT !.pc = pc])
      PROVE  req' \in [Attempts -> Request]
  BY <1>3 DEF Goto, Request
<1>4. ASSUME Decide(r)  PROVE req' \in [Attempts -> Request]
  BY <1>2, <1>3, <1>4 DEF Decide
<1>5. ASSUME NEW token \in BOOLEAN  PROVE Writes(token) \in Seq(Commands)
  BY WritesFacts DEF TypeOK
<1>6. ASSUME NEW h \in Hashes, NEW token \in BOOLEAN, LogoutReadSession(r, h, token)
      PROVE  req' \in [Attempts -> Request]
  <2>1. CASE /\ IsLive(h)
             /\ Goto(r, [Idle EXCEPT !.pc = "writing", !.hash = h, !.token = token,
                           !.owner = live[h].user, !.fromSession = TRUE,
                           !.writes = Writes(token /\ h \notin lapsed)])
    <3>1. live[h].user \in Users
      BY <2>1 DEF IsLive, StoreTypeOK, Session
    <3>. DEFINE ws == Writes(token /\ h \notin lapsed)
    <3>2. ws \in Seq(Commands)
      BY <1>5
    <3>. HIDE DEF ws
    <3>3. [Idle EXCEPT !.pc = "writing", !.hash = h, !.token = token, !.owner = live[h].user,
             !.fromSession = TRUE, !.writes = ws] \in Request
      BY <3>1, <3>2 DEF Idle, Request
    <3>. QED
      BY <2>1, <3>3 DEF Goto, ws
  <2>2. CASE Goto(r, [Idle EXCEPT !.pc = "readMarker", !.hash = h, !.token = token])
    <3>1. [Idle EXCEPT !.pc = "readMarker", !.hash = h, !.token = token] \in Request
      BY <1>1 DEF Request
    <3>. QED
      BY <2>2, <3>1 DEF Goto
  <2>. QED
    BY <1>2, <1>6, <2>1, <2>2 DEF LogoutReadSession
<1>7. CASE LogoutReadMarker(r)
  <2>1. CASE Goto(r, [req[r] EXCEPT !.pc = "writing", !.owner = MarkedOwner(req[r].hash),
                        !.writes = Writes(req[r].token /\ req[r].hash \notin lapsed)])
    <3>. DEFINE ws == Writes(req[r].token /\ req[r].hash \notin lapsed)
    <3>1. req[r].hash \in Hashes
      BY <1>7 DEF IInv, RequestLinks, OwnerLinks, LogoutReadMarker, At
    <3>2. MarkedOwner(req[r].hash) \in Users \cup {NoUser}
      BY <3>1 DEF MarkedOwner, TypeOK
    <3>3. ws \in Seq(Commands)
      BY <1>5 DEF Request
    <3>. HIDE DEF ws
    <3>4. [req[r] EXCEPT !.pc = "writing", !.owner = MarkedOwner(req[r].hash),
                         !.writes = ws] \in Request
      BY <3>2, <3>3 DEF Request
    <3>. QED
      BY <2>1, <3>4 DEF Goto, ws
  <2>. QED
    BY <1>2, <1>7, <2>1 DEF LogoutReadMarker
<1>8. CASE LogoutWrite(r)
  <2>. DEFINE ws == req[r].writes
  <2>1. ws \in Seq(Commands) /\ ws # <<>>
    BY <1>8, WriteCases
  <2>2. Tail(ws) \in Seq(Commands) /\ Head(ws) \in Commands
    BY <2>1, LeftOfTail
  <2>3. PICK failed \in {req[r].failed, req[r].failed \cup {Head(ws)}} :
          req' = [req EXCEPT ![r] = [req[r] EXCEPT !.writes = Tail(ws), !.failed = failed]]
    BY <1>8, WriteCases
  <2>4. failed \in SUBSET Commands
    BY <2>2 DEF Request
  <2>. QED
    BY <2>2, <2>3, <2>4 DEF Request
<1>9. CASE LogoutWritesDone(r) \/ LogoutMetadata(r)
  BY <1>3, <1>4, <1>9 DEF LogoutWritesDone, LogoutMetadata
<1>10. CASE LogoutRemember(r) \/ LogoutSettle(r) \/ LogoutConfirm(r)
  BY <1>2, <1>3, <1>10 DEF LogoutRemember, LogoutSettle, LogoutConfirm
<1>. QED
  BY <1>6, <1>7, <1>8, <1>9, <1>10 DEF Sleeps

(* A step moves the rest to values of their types. *)
LEMMA AttemptType ==
  ASSUME IInv, StoreTypeOK', NEW r \in Attempts,
         Sleeps(r) \/ LogoutWrite(r) \/ LogoutMetadata(r)
  PROVE  TypeOK'
<1>. TypeOK /\ req[r] \in Request /\ RequestLinks(r)
  BY DEF IInv, TypeOK
<1>1. req' \in [Attempts -> Request]
  BY RequestTypes
<1>2. ASSUME NEW o, Spend(o)  PROVE failures' \in Nat
  BY <1>2 DEF Spend, TypeOK
<1>3. ASSUME req[r].hash \in Hashes, Answer(r)
      PROVE  succeeded' \subseteq [hash : Hashes, token : BOOLEAN]
  BY <1>3 DEF Answer, TypeOK, Request
<1>4. req[r].pc # "idle" => req[r].hash \in Hashes
  BY DEF RequestLinks, OwnerLinks
<1>5. ASSUME Decide(r), req[r].hash \in Hashes
      PROVE  succeeded' \subseteq [hash : Hashes, token : BOOLEAN]
  BY <1>3, <1>5 DEF Decide, TypeOK
<1>6. ASSUME NEW h \in Hashes, NEW token \in BOOLEAN, LogoutReadSession(r, h, token)
      PROVE  TypeOK'
  <2>1. failures' \in Nat /\ named' \subseteq Hashes
    BY <1>2, <1>6 DEF LogoutReadSession, TypeOK
  <2>2. begun' \in Nat
    BY <1>6 DEF LogoutReadSession, TypeOK
  <2>3. overlapped' \in BOOLEAN
    BY <1>6, Zenon DEF LogoutReadSession
  <2>. QED
    BY <1>1, <1>6, <2>1, <2>2, <2>3 DEF LogoutReadSession, TypeOK
<1>7. CASE LogoutReadMarker(r)
  <2>1. failures' \in Nat
    BY <1>2, <1>7 DEF LogoutReadMarker
  <2>. QED
    BY <1>1, <1>7, <2>1 DEF LogoutReadMarker, TypeOK, fixedVars
<1>8. CASE LogoutWrite(r)
  <2>1. failures' \in Nat
    BY <1>2, <1>8 DEF LogoutWrite, TypeOK
  <2>2. blacklist' \subseteq Hashes
    BY <1>4, <1>8 DEF LogoutWrite, TypeOK, Effect, At
  <2>. QED
    BY <1>1, <1>8, <2>1, <2>2 DEF LogoutWrite, TypeOK, fixedVars
<1>9. CASE LogoutWritesDone(r)
  <2>1. succeeded' \subseteq [hash : Hashes, token : BOOLEAN]
    BY <1>4, <1>5, <1>9 DEF LogoutWritesDone, TypeOK, At
  <2>. QED
    BY <1>1, <1>9, <2>1 DEF LogoutWritesDone, TypeOK, fixedVars
<1>10. CASE LogoutMetadata(r)
  <2>1. succeeded' \subseteq [hash : Hashes, token : BOOLEAN]
    BY <1>4, <1>5, <1>10 DEF LogoutMetadata, TypeOK, At
  <2>2. failures' \in Nat
    BY <1>2, <1>10 DEF LogoutMetadata
  <2>. QED
    BY <1>1, <1>10, <2>1, <2>2 DEF LogoutMetadata, TypeOK, fixedVars
<1>11. CASE LogoutRemember(r)
  <2>1. req[r].hash \in Hashes /\ req[r].owner \in Users
    BY <1>11 DEF LogoutRemember, At, RequestLinks, OwnerLinks, AnswerLinks
  <2>2. PICK o : Spend(o) /\ Remember(r, o) /\ unkept' = (unkept \/ ~Carried(o))
    BY <1>11 DEF LogoutRemember
  <2>3. marker' \in [Hashes -> Users \cup {None}] /\ failures' \in Nat /\ unkept' \in BOOLEAN
    BY <1>2, <2>1, <2>2 DEF Remember, TypeOK, Carried
  <2>. QED
    BY <1>1, <1>11, <2>3 DEF LogoutRemember, TypeOK, fixedVars
<1>12. CASE LogoutSettle(r)
  <2>1. req[r].hash \in Hashes
    BY <1>4, <1>12 DEF LogoutSettle, At
  <2>2. PICK o : Spend(o) /\ SettleMarker(r, o) /\ unkept' = (unkept \/ o = "lost")
    BY <1>12 DEF LogoutSettle
  <2>3. marker' \in [Hashes -> Users \cup {None}] /\ failures' \in Nat /\ unkept' \in BOOLEAN
    BY <1>2, <2>2 DEF SettleMarker, TypeOK
  <2>4. announced' \in [Hashes -> Nat] /\ succeeded' \subseteq [hash : Hashes, token : BOOLEAN]
    <3>1. announced' = announced \/ Announce(r)
      BY <1>12 DEF LogoutSettle
    <3>2. succeeded' = succeeded \/ Answer(r)
      BY <1>12 DEF LogoutSettle
    <3>. QED
      BY <1>3, <2>1, <3>1, <3>2 DEF Announce, TypeOK
  <2>. QED
    BY <1>1, <1>12, <2>3, <2>4 DEF LogoutSettle, TypeOK, fixedVars
<1>13. CASE LogoutConfirm(r)
  <2>1. req[r].hash \in Hashes
    BY <1>4, <1>13 DEF LogoutConfirm, At
  <2>2. failures' \in Nat
    BY <1>2, <1>13 DEF LogoutConfirm
  <2>3. announced' \in [Hashes -> Nat] /\ succeeded' \subseteq [hash : Hashes, token : BOOLEAN]
    <3>1. announced' = announced \/ Announce(r)
      BY <1>13 DEF LogoutConfirm
    <3>2. succeeded' = succeeded \/ Answer(r)
      BY <1>13 DEF LogoutConfirm
    <3>. QED
      BY <1>3, <2>1, <3>1, <3>2 DEF Announce, TypeOK
  <2>. QED
    BY <1>1, <1>13, <2>2, <2>3 DEF LogoutConfirm, TypeOK, fixedVars
<1>. QED
  BY <1>6, <1>7, <1>8, <1>9, <1>10, <1>11, <1>12, <1>13 DEF Sleeps

LEMMA TypeStep ==
  ASSUME IInv, Next
  PROVE  TypeOK'
BY StepCases, StoreStep, EnvironmentType, AttemptType

-----------------------------------------------------------------------------
(* Attempts answered with success *)

(* Only an attempt whose writes were all carried out is answered so.        *)
LEMMA AnswerCases ==
  ASSUME IInv, Next
  PROVE  \/ succeeded' = succeeded
         \/ \E r \in Attempts : /\ Answer(r) /\ req[r].pc \notin {"idle", "readMarker"}
                                /\ req[r].writes = <<>> /\ req[r].failed = {}
<1>1. CASE Environment
  BY <1>1 DEF Environment, SignIn, RefreshRotate, RefreshGrace, AccessLapse, logoutVars
<1>2. ASSUME NEW r \in Attempts, Decide(r), req[r].pc \in {"writing", "metadata"},
             req[r].writes = <<>>
      PROVE  \/ succeeded' = succeeded
             \/ /\ Answer(r) /\ req[r].pc \notin {"idle", "readMarker"}
                /\ req[r].writes = <<>> /\ req[r].failed = {}
  BY <1>2, DecideCases
<1>3. ASSUME NEW r \in Attempts
      PROVE  /\ req[r].pc \in {"metadata", "settle", "confirm"} => req[r].writes = <<>>
             /\ req[r].pc \in {"settle", "confirm"} => req[r].failed = {}
  BY DEF IInv, RequestLinks, WriteLinks, AnswerLinks
<1>4. ASSUME NEW r \in Attempts, LogoutWritesDone(r) \/ LogoutMetadata(r)
      PROVE  \/ succeeded' = succeeded
             \/ /\ Answer(r) /\ req[r].pc \notin {"idle", "readMarker"}
                /\ req[r].writes = <<>> /\ req[r].failed = {}
  BY <1>2, <1>3, <1>4 DEF LogoutWritesDone, LogoutMetadata, At
<1>5. ASSUME NEW r \in Attempts, LogoutSettle(r) \/ LogoutConfirm(r)
      PROVE  \/ succeeded' = succeeded
             \/ /\ Answer(r) /\ req[r].pc \notin {"idle", "readMarker"}
                /\ req[r].writes = <<>> /\ req[r].failed = {}
  BY <1>3, <1>5 DEF LogoutSettle, LogoutConfirm, At
<1>6. ASSUME NEW r \in Attempts,
             \/ \E h \in Hashes, token \in BOOLEAN : LogoutReadSession(r, h, token)
             \/ LogoutReadMarker(r) \/ LogoutWrite(r) \/ LogoutRemember(r)
      PROVE  succeeded' = succeeded
  BY <1>6 DEF LogoutReadSession, LogoutReadMarker, LogoutWrite, LogoutRemember
<1>. QED
  BY <1>1, <1>4, <1>5, <1>6, StepCases DEF Sleeps

(* What such an attempt took away stays away: no step gives it back.        *)
LEMMA SucceededStep ==
  ASSUME IInv, Next
  PROVE  SucceededLinks' /\ SignedOutForGood'
<1>. Evolves /\ TypeOK
  BY StoreStep DEF IInv
<1>1. ASSUME NEW s \in succeeded
      PROVE  /\ minted'[s.hash] # None /\ live'[s.hash] = None /\ grace'[s.hash] = None
             /\ s.token => s.hash \in blacklist' \cup lapsed'
  <2>1. s.hash \in Hashes /\ minted[s.hash] # None
    BY <1>1 DEF IInv, TypeOK, SucceededLinks
  <2>2. /\ live[s.hash] = None /\ grace[s.hash] = None
        /\ s.token => s.hash \in blacklist \cup lapsed
    BY <1>1 DEF IInv, SignedOutForGood
  <2>. QED
    BY <2>1, <2>2 DEF Evolves, NoRevival
<1>2. ASSUME NEW r \in Attempts, Answer(r), req[r].pc \notin {"idle", "readMarker"},
             req[r].writes = <<>>, req[r].failed = {}
      PROVE  /\ minted'[req[r].hash] # None
             /\ live'[req[r].hash] = None /\ grace'[req[r].hash] = None
             /\ req[r].token => req[r].hash \in blacklist' \cup lapsed'
  <2>1. Undone(req[r]) = {}
    BY <1>2 DEF Undone, Left
  <2>2. /\ req[r].hash \in Hashes /\ minted[req[r].hash] # None
        /\ live[req[r].hash] = None /\ grace[req[r].hash] = None
        /\ req[r].token => req[r].hash \in blacklist \cup lapsed
    BY <1>2, <2>1 DEF IInv, RequestLinks, OwnerLinks, WriteLinks
  <2>. QED
    BY <2>2 DEF Evolves, NoRevival
<1>3. CASE succeeded' = succeeded
  BY <1>1, <1>3 DEF SucceededLinks, SignedOutForGood
<1>4. ASSUME NEW r \in Attempts, Answer(r), req[r].pc \notin {"idle", "readMarker"},
             req[r].writes = <<>>, req[r].failed = {}
      PROVE  SucceededLinks' /\ SignedOutForGood'
  <2>1. succeeded' = succeeded \cup {[hash |-> req[r].hash, token |-> req[r].token]}
    BY <1>4 DEF Answer
  <2>. QED
    BY <1>1, <1>2, <1>4, <2>1 DEF SucceededLinks, SignedOutForGood
<1>. QED
  BY <1>3, <1>4, AnswerCases

-----------------------------------------------------------------------------
(* Logouts that are not announced yet *)

(* The owner of a logout can only be lost by the step of one attempt: it is *)
(* enough that this attempt still flies, leaves a marker or announces.      *)
LEMMA KeptByOne ==
  ASSUME IInv, NEW r \in Attempts, NEW h \in Hashes,
         \A q \in Attempts : q # r => req'[q] = req[q],
         unkept => unkept',
         announced[h] > 0 => announced'[h] > 0,
         h \in named' => h \in named \/ InFlight(r, h)',
         marker[h] # None => marker'[h] # None \/ announced'[h] > 0 \/ unkept',
         InFlight(r, h) => \/ InFlight(r, h)' \/ marker'[h] # None
                           \/ announced'[h] > 0 \/ unkept'
  PROVE  Kept(h)'
<1>1. Kept(h)
  BY DEF IInv
<1>2. ASSUME NEW q \in Attempts, q # r, InFlight(q, h)  PROVE InFlight(q, h)'
  BY <1>2 DEF InFlight
<1>. QED
  BY <1>1, <1>2 DEF Kept

(* An attempt announces a logout it alone can announce, and ends.           *)
LEMMA AnnounceCases ==
  ASSUME IInv, NEW r \in Attempts, LogoutSettle(r) \/ LogoutConfirm(r)
  PROVE  \/ /\ announced' = announced
            /\ \A h \in Hashes : marker'[h] \in {marker[h], None}
            /\ \/ req' = [req EXCEPT ![r] = Idle]
               \/ req' = [req EXCEPT ![r] = [req[r] EXCEPT !.pc = "confirm"]]
               \/ req' = [req EXCEPT ![r] = [req[r] EXCEPT !.pc = "again"]]
            /\ \A h \in Hashes : marker[h] # None => marker'[h] # None \/ unkept'
            /\ InFlight(r, req[r].hash) => \/ req'[r].pc # "idle" \/ unkept'
                                           \/ marker'[req[r].hash] # None
         \/ /\ Announce(r) /\ req' = [req EXCEPT ![r] = Idle]
            /\ InFlight(r, req[r].hash) \/ marker[req[r].hash] # None
            /\ marker' = [marker EXCEPT ![req[r].hash] = None]
<1>. /\ req \in [Attempts -> Request] /\ req[r] \in Request
     /\ marker \in [Hashes -> Users \cup {None}]
  BY DEF IInv, TypeOK
<1>0. req[r].hash \in Hashes
  BY DEF IInv, RequestLinks, OwnerLinks, LogoutSettle, LogoutConfirm, At
<1>1. CASE LogoutSettle(r)
  <2>1. PICK o \in Outcomes("settle") :
          /\ SettleMarker(r, o)
          /\ unkept' = (unkept \/ o = "lost")
          /\ CASE ~Raised(o) /\ Announces(r) -> Announce(r) /\ Answer(r) /\ Finish(r)
               [] ~Raised(o) /\ ~Announces(r) -> Answer(r) /\ Finish(r) /\ UNCHANGED announced
               [] Raised(o) /\ ~req[r].fromSession ->
                    Finish(r) /\ UNCHANGED <<announced, succeeded>>
               [] Raised(o) /\ req[r].fromSession ->
                    /\ Goto(r, [req[r] EXCEPT !.pc = "confirm"])
                    /\ UNCHANGED <<announced, succeeded>>
    BY <1>1 DEF LogoutSettle
  <2>2. o \in {"done", "refused", "lost"} /\ req[r].pc = "settle"
    BY <1>1 DEF Outcomes, LogoutSettle, At
  <2>3. CASE o = "done" /\ Announces(r)
    <3>1. marker' = [marker EXCEPT ![req[r].hash] = None]
      BY <2>1, <2>3 DEF SettleMarker, Carried
    <3>2. Announce(r) /\ req' = [req EXCEPT ![r] = Idle]
      BY <2>1, <2>3 DEF Raised, Finish, Goto
    <3>. QED
      BY <2>2, <2>3, <3>1, <3>2 DEF Announces, InFlight
  <2>4. CASE o = "done" /\ ~Announces(r)
    <3>1. marker' = [marker EXCEPT ![req[r].hash] = None] /\ marker[req[r].hash] = None
      BY <2>1, <2>4 DEF SettleMarker, Carried, Announces
    <3>2. announced' = announced /\ req' = [req EXCEPT ![r] = Idle]
      BY <2>1, <2>4 DEF Raised, Finish, Goto
    <3>. QED
      BY <2>4, <3>1, <3>2, <1>0 DEF Announces, InFlight
  <2>5. CASE o # "done" /\ ~req[r].fromSession
    <3>1. announced' = announced /\ req' = [req EXCEPT ![r] = Idle]
      BY <2>1, <2>5 DEF Raised, Finish, Goto
    <3>2. \A h \in Hashes : marker'[h] \in {marker[h], None}
      BY <2>1 DEF SettleMarker
    <3>3. marker' = marker \/ unkept'
      BY <2>1, <2>2, <2>5 DEF SettleMarker, Carried
    <3>. QED
      BY <2>5, <3>1, <3>2, <3>3 DEF InFlight
  <2>6. CASE o # "done" /\ req[r].fromSession
    <3>1. announced' = announced /\ req' = [req EXCEPT ![r] = [req[r] EXCEPT !.pc = "confirm"]]
      BY <2>1, <2>6 DEF Raised, Goto
    <3>2. \A h \in Hashes : marker'[h] \in {marker[h], None}
      BY <2>1 DEF SettleMarker
    <3>3. marker' = marker \/ unkept'
      BY <2>1, <2>2, <2>6 DEF SettleMarker, Carried
    <3>4. req'[r].pc # "idle"
      BY <3>1 DEF Request
    <3>. QED
      BY <3>1, <3>2, <3>3, <3>4
  <2>. QED
    BY <2>3, <2>4, <2>5, <2>6
<1>2. CASE LogoutConfirm(r)
  <2>1. PICK o \in Outcomes("confirm") :
          CASE NoStaleMarker(r, o) -> Announce(r) /\ Answer(r) /\ Finish(r)
            [] ~NoStaleMarker(r, o) /\ Raised(o) ->
                 /\ Goto(r, [req[r] EXCEPT !.pc = "again"])
                 /\ UNCHANGED <<announced, succeeded>>
            [] ~NoStaleMarker(r, o) /\ ~Raised(o) ->
                 Finish(r) /\ UNCHANGED <<announced, succeeded>>
    BY <1>2 DEF LogoutConfirm
  <2>2. req[r].pc = "confirm" /\ req[r].fromSession /\ marker' = marker
    BY <1>2 DEF LogoutConfirm, At, IInv, RequestLinks, AnswerLinks
  <2>3. CASE NoStaleMarker(r, o)
    <3>1. Announce(r) /\ req' = [req EXCEPT ![r] = Idle]
      BY <2>1, <2>3 DEF Finish, Goto
    <3>2. marker' = [marker EXCEPT ![req[r].hash] = None]
      BY <2>2, <2>3 DEF NoStaleMarker
    <3>. QED
      BY <2>2, <3>1, <3>2 DEF InFlight
  <2>4. CASE ~NoStaleMarker(r, o) /\ Raised(o)
    <3>1. announced' = announced /\ req' = [req EXCEPT ![r] = [req[r] EXCEPT !.pc = "again"]]
      BY <2>1, <2>4 DEF Goto
    <3>2. req'[r].pc # "idle"
      BY <3>1 DEF Request
    <3>. QED
      BY <2>2, <3>1, <3>2
  <2>5. CASE ~NoStaleMarker(r, o) /\ ~Raised(o)
    <3>1. announced' = announced /\ req' = [req EXCEPT ![r] = Idle]
      BY <2>1, <2>5 DEF Finish, Goto
    <3>2. marker[req[r].hash] # None
      BY <2>5 DEF NoStaleMarker
    <3>. QED
      BY <2>2, <3>1, <3>2
  <2>. QED
    BY <2>3, <2>4, <2>5
<1>. QED
  BY <1>1, <1>2

(* Where the other steps take an attempt that found the session.            *)
LEMMA FlightCases ==
  ASSUME IInv, NEW r \in Attempts,
         \/ LogoutReadMarker(r) \/ LogoutWrite(r) \/ LogoutWritesDone(r) \/ LogoutMetadata(r)
  PROVE  /\ UNCHANGED <<marker, announced, named, unkept, begun, overlapped>>
         /\ ~At(r, "idle")
         /\ \A h \in Hashes : InFlight(r, h) = InFlight(r, h)'
<1>. req \in [Attempts -> Request] /\ req[r] \in Request /\ RequestLinks(r)
  BY DEF IInv, TypeOK
<1>1. ASSUME Decide(r), ~At(r, "idle"), NEW h \in Hashes
      PROVE  InFlight(r, h) = InFlight(r, h)'
  <2>1. CASE /\ req' = [req EXCEPT ![r] = Idle]
             /\ req[r].failed # {} => ~req[r].fromSession
             /\ req[r].failed = {} => req[r].owner = NoUser
    <3>1. ~req[r].fromSession
      BY <1>1, <2>1, StoreAssumption DEF RequestLinks, OwnerLinks, At
    <3>. QED
      BY <2>1, <3>1 DEF InFlight, Idle
  <2>2. CASE \/ req' = [req EXCEPT ![r] = [req[r] EXCEPT !.pc = "remember"]]
             \/ req' = [req EXCEPT ![r] = [req[r] EXCEPT !.pc = "settle"]]
    <3>1. /\ req'[r].hash = req[r].hash /\ req'[r].fromSession = req[r].fromSession
          /\ req'[r].pc # "idle"
      BY <2>2 DEF Request
    <3>. QED
      BY <1>1, <3>1 DEF InFlight, At
  <2>. QED
    BY <1>1, <2>1, <2>2, DecideCases
<1>2. CASE LogoutReadMarker(r)
  <2>1. ~req[r].fromSession /\ ~At(r, "idle")
    BY <1>2 DEF LogoutReadMarker, RequestLinks, OwnerLinks, At
  <2>2. ~req'[r].fromSession
    <3>1. CASE Finish(r)
      BY <3>1 DEF Finish, Goto, Idle
    <3>2. CASE Goto(r, [req[r] EXCEPT !.pc = "writing", !.owner = MarkedOwner(req[r].hash),
                          !.writes = Writes(req[r].token /\ req[r].hash \notin lapsed)])
      BY <2>1, <3>2 DEF Goto, Request
    <3>. QED
      BY <1>2, <3>1, <3>2 DEF LogoutReadMarker
  <2>. QED
    BY <1>2, <2>1, <2>2 DEF LogoutReadMarker, InFlight, fixedVars
<1>3. CASE LogoutWrite(r)
  <2>1. /\ req[r].pc = "writing" /\ req'[r].pc = "writing" /\ req'[r].hash = req[r].hash
        /\ req'[r].fromSession = req[r].fromSession
    <3>1. PICK failed : req' = [req EXCEPT ![r] = [req[r] EXCEPT !.writes = Tail(req[r].writes),
                                                               !.failed = failed]]
      BY <1>3, WriteCases
    <3>. QED
      BY <1>3, <3>1 DEF LogoutWrite, At, Request
  <2>. QED
    BY <1>3, <2>1 DEF LogoutWrite, InFlight, At, fixedVars
<1>4. CASE LogoutWritesDone(r)
  <2>1. ~At(r, "idle")
    BY <1>4 DEF LogoutWritesDone, At
  <2>2. ASSUME Goto(r, [req[r] EXCEPT !.pc = "metadata"]), NEW h \in Hashes
        PROVE  InFlight(r, h) = InFlight(r, h)'
    BY <2>1, <2>2 DEF Goto, Request, InFlight, At
  <2>. QED
    BY <1>1, <1>4, <2>1, <2>2 DEF LogoutWritesDone, fixedVars
<1>5. CASE LogoutMetadata(r)
  <2>1. ~At(r, "idle")
    BY <1>5 DEF LogoutMetadata, At
  <2>. QED
    BY <1>1, <1>5, <2>1 DEF LogoutMetadata, fixedVars
<1>. QED
  BY <1>2, <1>3, <1>4, <1>5

LEMMA KeptStep ==
  ASSUME IInv, Next, NEW h \in Hashes
  PROVE  Kept(h)'
<1>. TypeOK /\ req \in [Attempts -> Request] /\ announced \in [Hashes -> Nat]
  BY DEF IInv, TypeOK
<1>1. CASE Environment
  <2>1. UNCHANGED <<req, marker, announced, named, unkept>>
    BY <1>1 DEF Environment, SignIn, RefreshRotate, RefreshGrace, AccessLapse, logoutVars
  <2>. QED
    BY <2>1 DEF IInv, Kept, InFlight
<1>2. ASSUME NEW r \in Attempts, NEW g \in Hashes, NEW token \in BOOLEAN,
             LogoutReadSession(r, g, token)
      PROVE  Kept(h)'
  <2>1. ~InFlight(r, h) /\ UNCHANGED <<marker, announced, unkept>>
    BY <1>2 DEF LogoutReadSession, InFlight, At
  <2>2. h \in named' => h \in named \/ InFlight(r, h)'
    <3>1. CASE named' = named
      BY <3>1
    <3>2. CASE /\ Goto(r, [Idle EXCEPT !.pc = "writing", !.hash = g, !.token = token,
                             !.owner = live[g].user, !.fromSession = TRUE,
                             !.writes = Writes(token /\ g \notin lapsed)])
               /\ named' = named \cup {g}
      BY <3>2 DEF InFlight, Goto, Idle
    <3>. QED
      BY <1>2, <3>1, <3>2 DEF LogoutReadSession
  <2>3. \A q \in Attempts : q # r => req'[q] = req[q]
    BY <1>2, OneMoves DEF Sleeps
  <2>. QED
    BY <2>1, <2>2, <2>3, KeptByOne
<1>3. ASSUME NEW r \in Attempts,
             \/ LogoutReadMarker(r) \/ LogoutWrite(r) \/ LogoutWritesDone(r) \/ LogoutMetadata(r)
      PROVE  Kept(h)'
  <2>1. \A q \in Attempts : q # r => req'[q] = req[q]
    BY <1>3, OneMoves DEF Sleeps
  <2>. QED
    BY <1>3, <2>1, FlightCases, KeptByOne
<1>4. ASSUME NEW r \in Attempts, LogoutRemember(r)
      PROVE  Kept(h)'
  <2>1. req[r].hash \in Hashes /\ req[r].owner \in Users
    BY <1>4 DEF LogoutRemember, At, IInv, RequestLinks, OwnerLinks, AnswerLinks
  <2>2. PICK o : Remember(r, o) /\ unkept' = (unkept \/ ~Carried(o))
    BY <1>4 DEF LogoutRemember
  <2>3. marker[h] # None => marker'[h] # None
    BY <2>1, <2>2, LogoutAssumption DEF Remember, TypeOK
  <2>4. InFlight(r, h) => marker'[h] # None \/ unkept'
    BY <2>1, <2>2, LogoutAssumption DEF Remember, TypeOK, InFlight
  <2>5. UNCHANGED <<announced, named>> /\ (unkept => unkept')
    BY <1>4, <2>2 DEF LogoutRemember
  <2>6. \A q \in Attempts : q # r => req'[q] = req[q]
    BY <1>4, OneMoves DEF Sleeps
  <2>. QED
    BY <2>3, <2>4, <2>5, <2>6, KeptByOne
<1>5. ASSUME NEW r \in Attempts, LogoutSettle(r) \/ LogoutConfirm(r)
      PROVE  Kept(h)'
  <2>1. \A q \in Attempts : q # r => req'[q] = req[q]
    BY <1>5, OneMoves DEF Sleeps
  <2>2. named' = named /\ (unkept => unkept')
    <3>1. CASE LogoutSettle(r)
      BY <3>1, Zenon DEF LogoutSettle
    <3>2. CASE LogoutConfirm(r)
      BY <3>2 DEF LogoutConfirm
    <3>. QED
      BY <1>5, <3>1, <3>2
  <2>3. CASE /\ announced' = announced
             /\ \/ req' = [req EXCEPT ![r] = Idle]
                \/ req' = [req EXCEPT ![r] = [req[r] EXCEPT !.pc = "confirm"]]
                \/ req' = [req EXCEPT ![r] = [req[r] EXCEPT !.pc = "again"]]
             /\ marker[h] # None => marker'[h] # None \/ unkept'
             /\ InFlight(r, req[r].hash) => \/ req'[r].pc # "idle" \/ unkept'
                                            \/ marker'[req[r].hash] # None
    <3>1. InFlight(r, h) => InFlight(r, h)' \/ unkept' \/ marker'[h] # None
      BY <2>3, SMTT(30) DEF InFlight, Idle, Request
    <3>. QED
      BY <2>1, <2>2, <2>3, <3>1, KeptByOne
  <2>4. CASE Announce(r) /\ marker' = [marker EXCEPT ![req[r].hash] = None]
    <3>1. announced'[h] = IF h = req[r].hash THEN announced[h] + 1 ELSE announced[h]
      BY <2>4 DEF Announce
    <3>2. announced[h] \in Nat
      OBVIOUS
    <3>3. marker[h] # None \/ InFlight(r, h) => marker'[h] # None \/ announced'[h] > 0
                                                \/ h # req[r].hash
      BY <3>1, <3>2
    <3>4. h # req[r].hash => marker'[h] = marker[h] /\ ~InFlight(r, h)
      BY <2>4 DEF TypeOK, InFlight
    <3>. QED
      BY <2>1, <2>2, <3>1, <3>2, <3>3, <3>4, KeptByOne
  <2>. QED
    BY <1>5, <2>3, <2>4, AnnounceCases
<1>. QED
  BY <1>1, <1>2, <1>3, <1>4, <1>5, StepCases DEF Sleeps

-----------------------------------------------------------------------------
(* Logouts that are announced *)

(* Where attempts do not overlap, the others are idle while one moves.      *)
LEMMA OthersIdle ==
  ASSUME IInv, NEW r \in Attempts, Sleeps(r) \/ LogoutWrite(r) \/ LogoutMetadata(r),
         ~overlapped'
  PROVE  ~overlapped /\ \A q \in Attempts : q # r => At(q, "idle") /\ At(q, "idle")'
<1>1. ~overlapped /\ \A q \in Attempts : q # r => At(q, "idle")
  <2>1. ASSUME NEW h \in Hashes, NEW token \in BOOLEAN, LogoutReadSession(r, h, token)
        PROVE  ~overlapped /\ \A q \in Attempts : At(q, "idle")
    <3>1. overlapped' = (overlapped \/ \E s \in Attempts : ~At(s, "idle"))
      BY <2>1 DEF LogoutReadSession
    <3>. QED
      BY <3>1, Zenon
  <2>2. CASE \/ LogoutReadMarker(r) \/ LogoutWrite(r) \/ LogoutWritesDone(r)
             \/ LogoutMetadata(r) \/ LogoutRemember(r) \/ LogoutSettle(r) \/ LogoutConfirm(r)
    <3>1. ~At(r, "idle")
      BY <2>2 DEF LogoutReadMarker, LogoutWrite, LogoutWritesDone, LogoutMetadata,
         LogoutRemember, LogoutSettle, LogoutConfirm, At
    <3>2. overlapped' = overlapped
      BY <2>2 DEF LogoutReadMarker, LogoutWrite, LogoutWritesDone, LogoutMetadata,
         LogoutRemember, LogoutSettle, LogoutConfirm, fixedVars
    <3>. QED
      BY <3>1, <3>2 DEF IInv, AnnouncedLinks, OneAtATime
  <2>. QED
    BY <2>1, <2>2 DEF Sleeps
<1>2. \A q \in Attempts : q # r => req'[q] = req[q]
  BY OneMoves
<1>. QED
  BY <1>1, <1>2 DEF At

(* An announced logout is left alone by a step that announces nothing, finds*)
(* no session of it and marks it only if it had found one.                  *)
LEMMA SettledKept ==
  ASSUME IInv, Evolves, NEW r \in Attempts, NEW h \in Hashes, Settled(h),
         \A q \in Attempts : q # r => req'[q] = req[q],
         announced'[h] = announced[h],
         marker'[h] # None => marker[h] # None \/ InFlight(r, h),
         InFlight(r, h)' => InFlight(r, h) \/ live[h] # None
  PROVE  Settled(h)'
<1>1. announced'[h] > 0 => minted'[h] # None /\ live'[h] = None /\ marker'[h] = None
  BY DEF Settled, Evolves, NoRevival
<1>2. ASSUME announced'[h] > 0, NEW q \in Attempts  PROVE ~InFlight(q, h)'
  BY <1>2 DEF Settled, InFlight
<1>. QED
  BY <1>1, <1>2 DEF Settled

LEMMA SettledByOne ==
  ASSUME IInv, Evolves, NEW r \in Attempts, Sleeps(r) \/ LogoutWrite(r) \/ LogoutMetadata(r),
         ~overlapped', NEW h \in Hashes
  PROVE  Settled(h)'
<1>. /\ TypeOK /\ req \in [Attempts -> Request] /\ req[r] \in Request
     /\ announced \in [Hashes -> Nat] /\ marker \in [Hashes -> Users \cup {None}]
  BY DEF IInv, TypeOK
<1>1. /\ Settled(h)
      /\ \A q \in Attempts : q # r => At(q, "idle") /\ At(q, "idle")'
      /\ \A q \in Attempts : q # r => req'[q] = req[q]
  BY OthersIdle, OneMoves DEF IInv, AnnouncedLinks
<1>2. ASSUME NEW g \in Hashes, NEW token \in BOOLEAN, LogoutReadSession(r, g, token)
      PROVE  Settled(h)'
  <2>1. UNCHANGED <<marker, announced>>
    BY <1>2 DEF LogoutReadSession
  <2>2. InFlight(r, h)' => live[h] # None
    <3>1. CASE Finish(r)
      BY <3>1 DEF InFlight, Finish, Goto, Idle
    <3>2. CASE /\ IsLive(g)
               /\ Goto(r, [Idle EXCEPT !.pc = "writing", !.hash = g, !.token = token,
                             !.owner = live[g].user, !.fromSession = TRUE,
                             !.writes = Writes(token /\ g \notin lapsed)])
      BY <3>2 DEF InFlight, Goto, Idle, IsLive
    <3>3. CASE Goto(r, [Idle EXCEPT !.pc = "readMarker", !.hash = g, !.token = token])
      BY <3>3 DEF InFlight, Goto, Idle
    <3>. QED
      BY <1>2, <3>1, <3>2, <3>3 DEF LogoutReadSession
  <2>. QED
    BY <1>1, <2>1, <2>2, SettledKept
<1>3. CASE LogoutReadMarker(r) \/ LogoutWrite(r) \/ LogoutWritesDone(r) \/ LogoutMetadata(r)
  <2>1. UNCHANGED <<marker, announced>> /\ InFlight(r, h) = InFlight(r, h)'
    BY <1>3, FlightCases
  <2>. QED
    BY <1>1, <2>1, SettledKept
<1>4. CASE LogoutRemember(r)
  <2>1. req[r].fromSession /\ req[r].pc # "idle"
    BY <1>4 DEF LogoutRemember, At, IInv, RequestLinks, AnswerLinks
  <2>2. PICK o : Remember(r, o)
    BY <1>4 DEF LogoutRemember
  <2>3. marker'[h] # None => marker[h] # None \/ InFlight(r, h)
    BY <2>1, <2>2 DEF Remember, InFlight
  <2>4. announced' = announced /\ ~InFlight(r, h)'
    BY <1>4 DEF LogoutRemember, Finish, Goto, InFlight, Idle
  <2>. QED
    BY <1>1, <2>3, <2>4, SettledKept
<1>5. CASE LogoutSettle(r) \/ LogoutConfirm(r)
  <2>0. req[r].pc \in {"settle", "confirm"}
    BY <1>5 DEF LogoutSettle, LogoutConfirm, At
  <2>1. CASE /\ announced' = announced /\ marker'[h] \in {marker[h], None}
             /\ \/ req' = [req EXCEPT ![r] = Idle]
                \/ req' = [req EXCEPT ![r] = [req[r] EXCEPT !.pc = "confirm"]]
                \/ req' = [req EXCEPT ![r] = [req[r] EXCEPT !.pc = "again"]]
    <3>1. \/ req'[r].pc = "idle"
          \/ req'[r].hash = req[r].hash /\ req'[r].fromSession = req[r].fromSession
      BY <2>1 DEF Idle, Request
    <3>2. InFlight(r, h)' => InFlight(r, h)
      BY <2>0, <3>1 DEF InFlight
    <3>. QED
      BY <1>1, <2>1, <3>2, SettledKept
  <2>2. CASE /\ Announce(r) /\ req' = [req EXCEPT ![r] = Idle]
             /\ InFlight(r, req[r].hash) \/ marker[req[r].hash] # None
             /\ marker' = [marker EXCEPT ![req[r].hash] = None]
    <3>1. CASE h # req[r].hash
      <4>1. announced'[h] = announced[h] /\ marker'[h] = marker[h] /\ ~InFlight(r, h)'
        BY <2>2, <3>1 DEF Announce, InFlight, Idle
      <4>. QED
        BY <1>1, <4>1, SettledKept
    <3>2. CASE h = req[r].hash
      <4>1. announced[h] = 0
        BY <1>1, <2>2, <3>2 DEF Settled
      <4>2. announced'[h] = 1 /\ marker'[h] = None
        BY <2>2, <3>2, <4>1 DEF Announce
      <4>3. minted[h] # None /\ live[h] = None
        <5>1. RequestLinks(r) /\ req[r].writes = <<>> /\ req[r].failed = {}
          BY <2>0 DEF IInv, RequestLinks, WriteLinks, AnswerLinks
        <5>2. Undone(req[r]) = {}
          BY <5>1 DEF Undone, Left
        <5>. QED
          BY <2>0, <3>2, <5>1, <5>2 DEF RequestLinks, OwnerLinks, WriteLinks
      <4>4. minted'[h] # None /\ live'[h] = None
        BY <4>3 DEF Evolves, NoRevival
      <4>5. \A q \in Attempts : ~InFlight(q, h)'
        BY <1>1, <2>2 DEF InFlight, At, Idle
      <4>. QED
        BY <4>2, <4>4, <4>5 DEF Settled
    <3>. QED
      BY <3>1, <3>2
  <2>. QED
    BY <1>5, <2>1, <2>2, AnnounceCases
<1>. QED
  BY <1>2, <1>3, <1>4, <1>5 DEF Sleeps

LEMMA AnnouncedStep ==
  ASSUME IInv, Next
  PROVE  AnnouncedLinks'
<1>. Evolves
  BY StoreStep
<1>1. CASE Environment
  <2>1. UNCHANGED <<req, marker, announced, overlapped>>
    BY <1>1 DEF Environment, SignIn, RefreshRotate, RefreshGrace, AccessLapse, logoutVars,
       fixedVars
  <2>2. OneAtATime => OneAtATime'
    BY <2>1 DEF OneAtATime, At
  <2>3. ASSUME NEW h \in Hashes, Settled(h)  PROVE Settled(h)'
    BY <2>1, <2>3 DEF Settled, InFlight, Evolves, NoRevival
  <2>. QED
    BY <2>1, <2>2, <2>3 DEF IInv, AnnouncedLinks
<1>2. ASSUME NEW r \in Attempts, Sleeps(r) \/ LogoutWrite(r) \/ LogoutMetadata(r)
      PROVE  AnnouncedLinks'
  <2>1. ~overlapped' => OneAtATime'
    BY <1>2, OthersIdle DEF OneAtATime, At
  <2>2. ASSUME ~overlapped', NEW h \in Hashes  PROVE Settled(h)'
    BY <1>2, <2>2, SettledByOne
  <2>. QED
    BY <2>1, <2>2 DEF AnnouncedLinks
<1>. QED
  BY <1>1, <1>2, StepCases

-----------------------------------------------------------------------------
(* The theorems *)

LEMMA InitIInv == Init => IInv
<1>. SUFFICES ASSUME Init PROVE IInv
  OBVIOUS
<1>1. \A h \in Hashes : live[h] = None /\ grace[h] = None /\ minted[h] = None
  BY DEF Init, StoreInit
<1>2. StoreTypeOK
  <2>1. index = [u \in Users |-> {}]
    BY DEF Init, StoreInit
  <2>. QED
    BY <2>1 DEF Init, StoreInit, StoreTypeOK
<1>3. Idle \in Request
  BY DEF Idle, Request
<1>4. TypeOK
  BY <1>2, <1>3 DEF Init, TypeOK
<1>5. LiveListed /\ KeysMinted /\ SucceededLinks /\ SignedOutForGood
  BY <1>1 DEF Init, LiveListed, KeysMinted, SucceededLinks, SignedOutForGood
<1>6. \A r \in Attempts : req[r].pc = "idle" /\ req[r].failed = {}
  BY DEF Init, Idle
<1>7. \A r \in Attempts : RequestLinks(r)
  BY <1>6 DEF RequestLinks, OwnerLinks, WriteLinks, AnswerLinks
<1>8. \A h \in Hashes : Kept(h) /\ Settled(h)
  BY DEF Init, Kept, Settled
<1>9. OneAtATime
  BY <1>6 DEF OneAtATime, At
<1>. QED
  BY <1>4, <1>5, <1>7, <1>8, <1>9 DEF IInv, AnnouncedLinks

LEMMA StutterIInv == IInv /\ UNCHANGED vars => IInv'
<1>. SUFFICES ASSUME IInv, UNCHANGED vars PROVE IInv'
  OBVIOUS
<1>1. UNCHANGED storeVars /\ UNCHANGED logoutVars
  BY DEF vars
<1>2. StoreTypeOK' /\ OnlyRemoves /\ LiveListed' /\ KeysMinted'
  BY <1>1, StutterStore, RemovesKeeps DEF IInv, TypeOK
<1>3. TypeOK'
  BY <1>1, <1>2 DEF IInv, TypeOK, logoutVars
<1>4. \A r \in Attempts : RequestLinks(r)'
  BY <1>1 DEF IInv, RequestLinks, OwnerLinks, WriteLinks, AnswerLinks, Undone, logoutVars,
     storeVars
<1>5. SucceededLinks' /\ SignedOutForGood'
  BY <1>1 DEF IInv, SucceededLinks, SignedOutForGood, logoutVars, storeVars
<1>6. (\A h \in Hashes : Kept(h))'
  BY <1>1 DEF IInv, Kept, InFlight, logoutVars
<1>7. AnnouncedLinks'
  BY <1>1 DEF IInv, AnnouncedLinks, OneAtATime, At, Settled, InFlight, logoutVars, storeVars
<1>. QED
  BY <1>2, <1>3, <1>4, <1>5, <1>6, <1>7 DEF IInv

LEMMA NextIInv == IInv /\ [Next]_vars => IInv'
<1>1. ASSUME IInv, Next  PROVE IInv'
  BY <1>1, StoreStep, TypeStep, RequestStep, SucceededStep, KeptStep, AnnouncedStep DEF IInv
<1>. QED
  BY <1>1, StutterIInv

LEMMA Invariance == Spec => []IInv
BY InitIInv, NextIInv, PTL DEF Spec

(* Markers, attempts and the store stay well-typed.                         *)
THEOREM TypeCorrect == Spec => []TypeOK
<1>1. IInv => TypeOK
  BY DEF IInv
<1>. QED
  BY <1>1, Invariance, PTL

(* No logout that fails half-way, and no refresh beside it, hides a live    *)
(* session from the index that "log out everywhere" walks.                  *)
THEOREM LiveSessionsIndexed == Spec => []LiveIndexed
<1>1. IInv => LiveIndexed
  BY DEF IInv, LiveListed, LiveIndexed
<1>. QED
  BY <1>1, Invariance, PTL

(* An attempt answered with success leaves its token no session, no grace   *)
(* pointer and no accepted access token, for ever.                          *)
THEOREM SignedOutStaysOut == Spec => []SignedOutForGood
<1>1. IInv => SignedOutForGood
  BY DEF IInv
<1>. QED
  BY <1>1, Invariance, PTL

(* A logout is not forgotten while the store keeps the marker, and attempts *)
(* that do not overlap announce it at most once.                            *)
THEOREM AnnouncedAtMostOnce == Spec => []AnnouncedOnce
<1>1. IInv => AnnouncedOnce
  <2>1. ASSUME IInv, \A r \in Attempts : At(r, "idle"), ~unkept, NEW h \in named
        PROVE  announced[h] > 0 \/ marker[h] # None \/ live[h] # None
    <3>1. h \in Hashes /\ Kept(h)
      BY <2>1 DEF IInv, TypeOK
    <3>2. \A r \in Attempts : ~InFlight(r, h)
      BY <2>1 DEF InFlight, At
    <3>. QED
      BY <2>1, <3>1, <3>2 DEF Kept
  <2>2. IInv => (~overlapped => \A h \in Hashes : announced[h] <= 1)
    BY DEF IInv, AnnouncedLinks, Settled
  <2>. QED
    BY <2>1, <2>2 DEF AnnouncedOnce, NotForgotten
<1>. QED
  BY <1>1, Invariance, PTL
=============================================================================
