--------------------------- MODULE MfaRecord_proofs ---------------------------
(***************************************************************************)
(* The safety of MfaRecord for every set of handlers, tokens, secrets and  *)
(* codes, every window and limit, and whichever flows run and keys expire, *)
(* and that it implements MfaLedger.                                       *)
(*                                                                         *)
(* The record is rewritten from a read made under a lock that may expire.  *)
(* IInv says what a handler between two commands still knows: which locks  *)
(* it has not lost, which of the codes it carries nobody else has, and,    *)
(* unless a handler wrote without its locks (late) or enabled a set-up it  *)
(* had not taken (crossed), that what it is about to write follows from    *)
(* the record as it is now.                                                *)
(***************************************************************************)
EXTENDS MfaRecord, FiniteSetTheorems, TLAPS

-----------------------------------------------------------------------------
(* What the place of a handler says of it *)

Guarded == {"challenge", "setup", "disable", "regenerate"}

Verifying == {"challenge", "enable", "disable", "regenerate"}

Rewriting == {"challenge", "enable", "disable", "reset", "regenerate", "reencrypt"}

Locking == {"lock", "lockLegacy", "read"}

Changing == {"lock", "lockLegacy", "rollback", "read", "write", "unlock", "unlockLegacy"}

Whole(r) == (r.on <=> r.secret # None) /\ (r.on \/ r.codes = {})

FlowLinks(q) ==
  /\ q.pc = "temp" => q.flow = "login"
  /\ q.pc \in {"epoch", "consume", "issue"} => q.flow = "challenge"
  /\ q.pc \in {"lockout", "fail", "clear"} => q.flow \in Guarded
  /\ q.pc = "fetch" => q.flow \in Submitted \cup {"challenge"}
  /\ q.pc \in {"compare", "setupRead", "setupClaim", "setupReread", "setupStore"} => q.flow = "setup"
  /\ q.pc \in {"verify", "verifyLegacy"} => q.flow \in Verifying
  /\ q.pc = "verifyLegacy" => q.proof \in TotpCodes
  /\ q.pc \in {"enableRead", "enableTake"} => q.flow = "enable"
  /\ q.pc \in Changing => q.flow \in Rewriting
  /\ q.pc = "bump" => q.flow \in {"enable", "disable", "reset"}
  /\ q.flow = "challenge" => q.proof \in Proofs /\ q.token \in Tokens
  /\ q.pc \in {"fetch", "lockout", "verify"} /\ q.flow \in {"enable", "disable", "regenerate"} =>
       q.proof \in TotpCodes
  /\ q.pc = "enableRead" => q.proof \in TotpCodes
  /\ q.pc \in Changing /\ q.flow = "challenge" => q.proof \in Codes

(* What it holds of a record or of a set-up is whole. *)
HeldLinks(q) ==
  /\ q.pc \in {"setupClaim", "setupReread", "setupStore"} => q.data.secret # None
  /\ q.flow = "enable" /\ q.pc \in {"verify", "verifyLegacy", "enableTake"} \cup Locking =>
       q.data.secret # None
  /\ q.flow \in {"challenge", "reencrypt"} /\ q.pc \in {"verify", "verifyLegacy", "clear", "consume"} \cup Locking =>
       q.user.secret # None
  /\ q.pc = "write" => Whole(q.update)

TypeInv ==
  /\ TypeOK
  /\ redis.setup # None => redis.setup.secret # None
  /\ \A h \in Handlers : FlowLinks(req[h]) /\ HeldLinks(req[h])

-----------------------------------------------------------------------------
(* The locks *)

Kept(h, k) == redis.lock[k] = h \/ <<h, k>> \in seen.overran

HoldLinks(h) ==
  /\ req[h].pc = "lockLegacy" => Kept(h, "scoped")
  /\ req[h].pc \in {"read", "write"} => \A k \in Keys : Kept(h, k)

-----------------------------------------------------------------------------
(* TOTP codes *)

(* The mark of p outlasts the window of p. *)
Covered(p) == redis.marks["scoped"][p] > p[2] + Clamped

Fresh(h, p) == req[h].pc = "verifyLegacy" /\ req[h].outcome = "fresh" /\ req[h].proof = p

TotpLinks(p) ==
  /\ seen.accepted[p] <= 1
  /\ seen.accepted[p] = 1 => Covered(p)
  /\ \A h \in Handlers : Fresh(h, p) => seen.accepted[p] = 0 /\ Covered(p)
  /\ \A h, g \in Handlers : Fresh(h, p) /\ Fresh(g, p) => h = g

-----------------------------------------------------------------------------
(* Challenge tokens *)

Spending == Changing \cup {"issue"}

Spends(h, t) == req[h].pc \in Spending /\ req[h].flow = "challenge" /\ req[h].token = t

TokenLinks(t) ==
  /\ redis.temp[t] # None => t \in seen.drawn /\ seen.opened[t] = 0
  /\ seen.opened[t] <= 1
  /\ seen.opened[t] = 1 => t \in seen.drawn
  /\ \A h \in Handlers : req[h].flow = "challenge" /\ req[h].token = t => t \in seen.drawn
  /\ \A h \in Handlers : Spends(h, t) => redis.temp[t] = None /\ seen.opened[t] = 0
  /\ \A h, g \in Handlers : Spends(h, t) /\ Spends(g, t) => h = g

-----------------------------------------------------------------------------
(* Wrong codes *)

(* Past the lockout, with its answer still to come, or to be counted. *)
Asked(q) ==
  /\ q.flow \in Guarded
  /\ \/ q.pc \in {"compare", "verify", "verifyLegacy", "fail"}
     \/ q.pc = "fetch" /\ q.flow = "challenge"

Guessing(c) == {h \in Handlers : Asked(req[h]) /\ Counter(req[h].flow) = c}

Failing(c) == {h \in Handlers : req[h].pc = "fail" /\ Counter(req[h].flow) = c}

GuessLinks(c) ==
  /\ seen.guesses[c] <= redis.failures[c] + Cardinality(Failing(c))
  /\ redis.failures[c] + Cardinality(Guessing(c)) <= MaxAttempts - 1 + Cardinality(Handlers)

-----------------------------------------------------------------------------
(* What holds until a handler writes without its locks, or enables what it  *)
(* had not taken                                                            *)

Clean == ~seen.late /\ ~seen.crossed

(* New codes, and with a set-up a new secret, that only one place holds.    *)
CarriesSecret(h) ==
  \/ req[h].flow = "setup" /\ req[h].pc \in {"setupClaim", "setupReread", "setupStore"}
  \/ req[h].flow = "enable" /\ req[h].pc \in Locking \cup {"write"}

CarriesCodes(h) ==
  \/ CarriesSecret(h)
  \/ req[h].flow = "regenerate" /\ req[h].pc \in Locking \cup {"write"}

NewSecret(h) == IF req[h].pc = "write" THEN req[h].update.secret ELSE req[h].data.secret

NewCodes(h) == IF req[h].pc = "write" THEN req[h].update.codes ELSE req[h].data.codes

NewToAll(s, C) ==
  /\ s # None => s \in seen.drawn /\ s # rec.secret
  /\ C \subseteq seen.drawn /\ C \cap seen.printed = {}

(* Apart from each other, what two places hold shares nothing. *)
Apart(s, C, t, D) == (s = t => s = None) /\ C \cap D = {}

SecretOf(h) == IF CarriesSecret(h) THEN NewSecret(h) ELSE None

CodesOf(h) == IF CarriesCodes(h) THEN NewCodes(h) ELSE {}

SourceLinks ==
  /\ seen.printed \subseteq seen.drawn
  /\ rec.secret # None => rec.secret \in seen.drawn
  /\ redis.setup # None => NewToAll(redis.setup.secret, redis.setup.codes)
  /\ \A h \in Handlers :
       /\ NewToAll(SecretOf(h), CodesOf(h))
       /\ redis.setup # None =>
            Apart(SecretOf(h), CodesOf(h), redis.setup.secret, redis.setup.codes)
  /\ \A h, g \in Handlers : h # g => Apart(SecretOf(h), CodesOf(h), SecretOf(g), CodesOf(g))

(* A handler that has kept its locks writes over the record as it is. *)
WriteLinks(h) ==
  req[h].pc = "write" =>
    /\ req[h].flow \in {"disable", "reset"} => req[h].update = Off
    /\ req[h].flow = "enable" => req[h].update.on
    /\ ~Overrun(h) =>
         /\ req[h].flow \in {"challenge", "regenerate", "reencrypt"} =>
              rec.on /\ req[h].update.secret = rec.secret
         /\ req[h].flow = "challenge" =>
              req[h].proof \in rec.codes /\ req[h].update.codes = rec.codes \ {req[h].proof}
         /\ req[h].flow = "reencrypt" => req[h].update.codes = rec.codes

(* The codes of the record a challenge first read are those of its secret.  *)
UserLinks(h) ==
  req[h].flow = "challenge" /\ req[h].pc \in {"verify", "verifyLegacy", "clear", "consume"} \cup Locking =>
    /\ req[h].user.codes \subseteq seen.printed
    /\ req[h].user.secret = rec.secret \/ req[h].user.codes \cap rec.codes = {}

-----------------------------------------------------------------------------
(* Recovery codes *)

Claims(h, c) ==
  req[h].flow = "challenge" /\ req[h].proof = c /\ req[h].pc \in Spending \cup {"clear", "consume"}

(* The transition of h is over, and it will sign in. *)
Struck(h) ==
  \/ req[h].pc = "issue"
  \/ req[h].pc \in {"unlock", "unlockLegacy"} /\ req[h].outcome # "failed"

(* c is gone for good: what is yet to be written strikes codes or is new.    *)
Spent(c) == c \in seen.printed /\ c \notin rec.codes

Reading(h, c) ==
  req[h].flow = "challenge" /\ req[h].pc = "verify" /\ req[h].proof = c /\ c \in req[h].user.codes

(* Its list, with the code in it, is still in hand. *)
Listed == {"clear", "consume"} \cup Locking

CodeLinks(c) ==
  /\ seen.opened[c] <= 1
  /\ seen.opened[c] = 1 => Spent(c) /\ \A h \in Handlers : Reading(h, c) => c \in redis.claims
  /\ \A h \in Handlers : Claims(h, c) =>
       /\ c \in redis.claims /\ seen.opened[c] = 0
       /\ req[h].pc \in Listed => c \in req[h].user.codes
       /\ Struck(h) => Spent(c)
  /\ \A h, g \in Handlers : Claims(h, c) /\ Claims(g, c) => h = g

CleanInv ==
  /\ SourceLinks
  /\ \A h \in Handlers : WriteLinks(h) /\ UserLinks(h)
  /\ \A c \in Codes : c \notin seen.outlived => CodeLinks(c)

IInv ==
  /\ TypeInv
  /\ rec.codes \subseteq seen.printed
  /\ \A h \in Handlers : HoldLinks(h)
  /\ \A p \in TotpCodes : TotpLinks(p)
  /\ \A t \in Tokens : TokenLinks(t)
  /\ \A c \in Counters : GuessLinks(c)
  /\ Clean => CleanInv

-----------------------------------------------------------------------------
(* What each handler's step does, field by field *)

(* h moves, alone. *)
Moved(h) ==
  /\ req' \in [Handlers -> Request]
  /\ \A g \in Handlers : g # h => req'[g] = req[g]

Ends(h) == Moved(h) /\ req'[h] = Idle

SameFlow(h) ==
  /\ req'[h].flow = req[h].flow /\ req'[h].proof = req[h].proof /\ req'[h].token = req[h].token

SameHeld(h) ==
  /\ req'[h].user = req[h].user /\ req'[h].data = req[h].data
  /\ req'[h].update = req[h].update /\ req'[h].outcome = req[h].outcome

Advances(h, a, b) ==
  Moved(h) /\ req[h].pc = a /\ req'[h].pc = b /\ SameFlow(h) /\ SameHeld(h)

(* No key but those of F changes, nor any history but that of F. *)
KeysBut(F) ==
  /\ redis' \in Redis
  /\ "setup" \in F \/ redis'.setup = redis.setup
  /\ "lock" \in F \/ redis'.lock = redis.lock
  /\ "marks" \in F \/ redis'.marks = redis.marks
  /\ "claims" \in F \/ redis'.claims = redis.claims
  /\ "temp" \in F \/ redis'.temp = redis.temp
  /\ "failures" \in F \/ redis'.failures = redis.failures

SeenBut(F) ==
  /\ seen' \in History
  /\ "drawn" \in F \/ seen'.drawn = seen.drawn
  /\ "printed" \in F \/ seen'.printed = seen.printed
  /\ "overran" \in F \/ seen'.overran = seen.overran
  /\ "late" \in F \/ seen'.late = seen.late
  /\ "crossed" \in F \/ seen'.crossed = seen.crossed
  /\ "accepted" \in F \/ seen'.accepted = seen.accepted
  /\ "opened" \in F \/ seen'.opened = seen.opened
  /\ "outlived" \in F \/ seen'.outlived = seen.outlived
  /\ "guesses" \in F \/ seen'.guesses = seen.guesses

LEMMA IdleType == Idle \in Request /\ FlowLinks(Idle) /\ HeldLinks(Idle)
BY DEF Idle, Request, PCs, Flows, Submitted, Off, Record, NoPayload, Payload, FlowLinks, HeldLinks,
   Guarded, Verifying, Changing, Locking

LEMMA MoveFields ==
  ASSUME TypeInv, NEW h \in Handlers, NEW q \in Request, req' = [req EXCEPT ![h] = q]
  PROVE  Moved(h) /\ req'[h] = q
BY DEF TypeInv, TypeOK, Moved

LEMMA FinishEnds ==
  ASSUME TypeInv, NEW h \in Handlers, Finish(h)
  PROVE  Ends(h)
BY MoveFields, IdleType DEF Finish, Ends

LEMMA GotoAdvances ==
  ASSUME TypeInv, NEW h \in Handlers, NEW pc \in PCs, Goto(h, pc)
  PROVE  Advances(h, req[h].pc, pc)
<1>1. req[h] \in Request
  BY DEF TypeInv, TypeOK
<1>2. [req[h] EXCEPT !.pc = pc] \in Request
  BY <1>1 DEF Request
<1>3. req' = [req EXCEPT ![h] = [req[h] EXCEPT !.pc = pc]]
  BY DEF Goto
<1>4. Moved(h) /\ req'[h] = [req[h] EXCEPT !.pc = pc]
  BY <1>2, <1>3, MoveFields
<1>. QED
  BY <1>1, <1>4 DEF Advances, SameFlow, SameHeld, Request

LEMMA QuietFields ==
  ASSUME TypeInv
  PROVE  (redis' = redis => KeysBut({})) /\ (seen' = seen => SeenBut({}))
BY DEF TypeInv, TypeOK, KeysBut, SeenBut

(* A handler begins. *)
LEMMA BeginOutline ==
  ASSUME TypeInv, NEW h \in Handlers,
         \/ LoginReadEpoch(h)
         \/ \E p \in Proofs, t \in Tokens : Challenge(h, t, p)
         \/ \E p \in TotpCodes \cup {None}, flow \in Submitted : Submit(h, flow, p)
         \/ Reencrypt(h)
  PROVE  /\ Moved(h) /\ req[h].pc = "idle" /\ rec' = rec /\ redis' = redis /\ seen' = seen
         /\ jobs' \subseteq jobs /\ now' = now /\ starts' \in Nat
         /\ \/ req'[h].pc = "temp" /\ req'[h].flow = "login"
            \/ /\ req'[h].pc = "epoch" /\ req'[h].flow = "challenge"
               /\ req'[h].proof \in Proofs /\ req'[h].token \in Tokens
               /\ redis.temp[req'[h].token] # None
            \/ /\ req'[h].pc = "fetch" /\ req'[h].flow \in Submitted
               /\ req'[h].flow \in {"enable", "disable", "regenerate"} => req'[h].proof \in TotpCodes
            \/ /\ req'[h].pc = "lock" /\ req'[h].flow = "reencrypt"
               /\ req'[h].user.secret # None
<1>. TypeOK /\ redis \in Redis /\ starts + 1 \in Nat
  BY DEF TypeInv, TypeOK
<1>. USE IdleType
<1>1. CASE LoginReadEpoch(h)
  <2>. DEFINE q == [Idle EXCEPT !.pc = "temp", !.flow = "login", !.epoch = redis.epoch]
  <2>1. q \in Request /\ q.pc = "temp" /\ q.flow = "login"
    BY DEF Request, PCs, Flows, Redis
  <2>2. req' = [req EXCEPT ![h] = q]
    BY <1>1 DEF LoginReadEpoch, Begin
  <2>. HIDE DEF q
  <2>. QED
    BY <1>1, <2>1, <2>2, MoveFields DEF LoginReadEpoch, Begin, At
<1>2. ASSUME NEW p \in Proofs, NEW t \in Tokens, Challenge(h, t, p)
      PROVE  /\ Moved(h) /\ req'[h].pc = "epoch" /\ req'[h].flow = "challenge"
             /\ req'[h].proof \in Proofs /\ req'[h].token \in Tokens
             /\ redis.temp[req'[h].token] # None
  <2>. DEFINE q == [Idle EXCEPT !.pc = "epoch", !.flow = "challenge", !.proof = p, !.token = t,
                 !.epoch = redis.temp[t]]
  <2>0. redis.temp[t] \in Nat
    BY <1>2 DEF Challenge, Redis
  <2>1. q \in Request /\ q.pc = "epoch" /\ q.flow = "challenge" /\ q.proof = p /\ q.token = t
    BY <2>0 DEF Request, PCs, Flows
  <2>2. req' = [req EXCEPT ![h] = q] /\ redis.temp[t] # None
    BY <1>2 DEF Challenge, Begin
  <2>. HIDE DEF q
  <2>. QED
    BY <2>1, <2>2, MoveFields
<1>3. ASSUME NEW p \in TotpCodes \cup {None}, NEW flow \in Submitted, Submit(h, flow, p)
      PROVE  /\ Moved(h) /\ req'[h].pc = "fetch" /\ req'[h].flow \in Submitted
             /\ req'[h].flow \in {"enable", "disable", "regenerate"} => req'[h].proof \in TotpCodes
  <2>. DEFINE q == [Idle EXCEPT !.pc = "fetch", !.flow = flow, !.proof = p]
  <2>1. q \in Request /\ q.pc = "fetch" /\ q.flow = flow /\ q.proof = p
    <3>1. p \in Proofs \cup {None} /\ flow \in Flows /\ "fetch" \in PCs
      BY DEF Proofs, Flows, PCs, Submitted
    <3>2. Idle \in Request
      BY IdleType
    <3>. QED
      BY <3>1, <3>2 DEF Request
  <2>2. req' = [req EXCEPT ![h] = q] /\ (flow \in {"enable", "disable", "regenerate"} => p \in TotpCodes)
    BY <1>3 DEF Submit, Begin
  <2>. HIDE DEF q
  <2>. QED
    BY <2>1, <2>2, MoveFields
<1>4. CASE Reencrypt(h)
  <2>1. PICK s \in jobs : Begin(h, [Idle EXCEPT !.pc = "lock", !.flow = "reencrypt", !.user.secret = s])
    BY <1>4 DEF Reencrypt
  <2>2. s \in Secrets /\ s # None
    BY MfaAssumption DEF TypeOK
  <2>. DEFINE u == [Idle.user EXCEPT !.secret = s]
  <2>. DEFINE q == [Idle EXCEPT !.pc = "lock", !.flow = "reencrypt", !.user = u]
  <2>3. u \in Record /\ u.secret = s
    BY <2>2 DEF Request, Record
  <2>. HIDE DEF u
  <2>4. q \in Request /\ q.pc = "lock" /\ q.flow = "reencrypt" /\ q.user = u
    BY <2>3 DEF Request, PCs, Flows
  <2>5. req' = [req EXCEPT ![h] = q] /\ starts' = starts + 1 /\ req[h].pc = "idle"
    BY <2>1 DEF Begin, u, At
  <2>. HIDE DEF q
  <2>. QED
    BY <1>4, <2>2, <2>3, <2>4, <2>5, MoveFields DEF Reencrypt
<1>5. rec' = rec /\ redis' = redis /\ seen' = seen /\ jobs' \subseteq jobs /\ now' = now
  BY DEF LoginReadEpoch, Challenge, Submit, Reencrypt
<1>6. req[h].pc = "idle" /\ starts' \in Nat
  BY DEF LoginReadEpoch, Challenge, Submit, Reencrypt, Begin, At
<1>. QED
  BY <1>1, <1>2, <1>3, <1>4, <1>5, <1>6

(* Steps that only read. *)
LEMMA CheckEpochOutline ==
  ASSUME TypeInv, NEW h \in Handlers, ChallengeCheckEpoch(h)
  PROVE  Ends(h) \/ Advances(h, "epoch", "lockout")
<1>1. CASE Finish(h)
  BY <1>1, FinishEnds
<1>2. CASE req' = [req EXCEPT ![h].pc = "lockout", ![h].epoch = 0]
  <2>. DEFINE q == [req[h] EXCEPT !.pc = "lockout", !.epoch = 0]
  <2>1. req[h] \in Request /\ req[h].pc = "epoch"
    BY DEF TypeInv, TypeOK, ChallengeCheckEpoch, At
  <2>2. q \in Request /\ q.pc = "lockout" /\ q.flow = req[h].flow /\ q.proof = req[h].proof
        /\ q.token = req[h].token /\ q.user = req[h].user /\ q.data = req[h].data
        /\ q.update = req[h].update /\ q.outcome = req[h].outcome
    BY <2>1 DEF Request, PCs
  <2>3. req' = [req EXCEPT ![h] = q]
    BY <1>2
  <2>. HIDE DEF q
  <2>4. Moved(h) /\ req'[h] = q
    BY <2>2, <2>3, MoveFields
  <2>. QED
    BY <2>1, <2>2, <2>4 DEF Advances, SameFlow, SameHeld
<1>. QED
  BY <1>1, <1>2 DEF ChallengeCheckEpoch

Fetched(h) ==
  /\ Moved(h) /\ SameFlow(h) /\ req'[h].user = rec /\ req'[h].data = req[h].data
  /\ req'[h].update = req[h].update /\ req'[h].outcome = req[h].outcome
  /\ rec.on <=> req[h].flow \notin {"setup", "enable"}
  /\ \/ req[h].flow = "challenge" /\ req'[h].pc = "verify"
     \/ req[h].flow \in {"disable", "regenerate", "setup"} /\ req'[h].pc = "lockout"
     \/ req[h].flow = "reset" /\ req'[h].pc = "lock"
     \/ req[h].flow = "enable" /\ req'[h].pc = "enableRead"
     \/ req[h].flow = "setup" /\ req'[h].pc = "setupRead"

LEMMA FetchOutline ==
  ASSUME TypeInv, NEW h \in Handlers, Fetch(h)
  PROVE  req[h].pc = "fetch" /\ (Ends(h) \/ Fetched(h))
<1>1. req[h] \in Request /\ req[h].pc = "fetch" /\ rec \in Record
      /\ req[h].flow \in Submitted \cup {"challenge"}
  BY DEF TypeInv, TypeOK, Fetch, At, FlowLinks
<1>2. CASE Finish(h)
  BY <1>1, <1>2, FinishEnds
<1>3. CASE /\ rec.on = (req[h].flow \notin {"setup", "enable"})
           /\ req' = [req EXCEPT ![h].pc = AfterFetch(req[h].flow), ![h].user = rec]
  <2>. DEFINE pc == AfterFetch(req[h].flow)
  <2>. DEFINE q == [req[h] EXCEPT !.pc = pc, !.user = rec]
  <2>1. \/ req[h].flow = "challenge" /\ pc = "verify"
        \/ req[h].flow \in {"disable", "regenerate", "setup"} /\ pc = "lockout"
        \/ req[h].flow = "reset" /\ pc = "lock"
        \/ req[h].flow = "enable" /\ pc = "enableRead"
        \/ req[h].flow = "setup" /\ pc = "setupRead"
    BY <1>1 DEF AfterFetch, Submitted
  <2>2. pc \in PCs
    BY <2>1 DEF PCs
  <2>. HIDE DEF pc
  <2>3. q \in Request /\ q.pc = pc /\ q.flow = req[h].flow /\ q.proof = req[h].proof
        /\ q.token = req[h].token /\ q.user = rec /\ q.data = req[h].data
        /\ q.update = req[h].update /\ q.outcome = req[h].outcome
    BY <1>1, <2>2 DEF Request
  <2>4. req' = [req EXCEPT ![h] = q]
    BY <1>3 DEF pc
  <2>. HIDE DEF q
  <2>5. Moved(h) /\ req'[h] = q
    BY <2>3, <2>4, MoveFields
  <2>6. Fetched(h)
    BY <1>3, <2>1, <2>3, <2>5 DEF Fetched, SameFlow
  <2>. QED
    BY <1>1, <2>6
<1>. QED
  BY <1>2, <1>3 DEF Fetch

LEMMA LockoutOutline ==
  ASSUME TypeInv, NEW h \in Handlers, Lockout(h)
  PROVE  \/ Ends(h)
         \/ /\ redis.failures[Counter(req[h].flow)] < MaxAttempts
            /\ \/ req[h].flow = "challenge" /\ Advances(h, "lockout", "fetch")
               \/ req[h].flow = "setup" /\ Advances(h, "lockout", "compare")
               \/ req[h].flow \in {"disable", "regenerate"} /\ Advances(h, "lockout", "verify")
<1>1. req[h].pc = "lockout" /\ req[h].flow \in Guarded
  BY DEF TypeInv, Lockout, At, FlowLinks
<1>2. CASE Finish(h)
  BY <1>2, FinishEnds
<1>3. CASE ~LockedOut(Counter(req[h].flow)) /\ ~Finish(h)
  <2>. DEFINE pc == CASE req[h].flow = "challenge" -> "fetch" [] req[h].flow = "setup" -> "compare"
                    [] OTHER -> "verify"
  <2>1. \/ req[h].flow = "challenge" /\ pc = "fetch"
        \/ req[h].flow = "setup" /\ pc = "compare"
        \/ req[h].flow \in {"disable", "regenerate"} /\ pc = "verify"
    BY <1>1 DEF Guarded
  <2>2. pc \in PCs
    BY <2>1 DEF PCs
  <2>3. Goto(h, pc)
    BY <1>3 DEF Lockout
  <2>. HIDE DEF pc
  <2>4. Advances(h, "lockout", pc)
    BY <1>1, <2>2, <2>3, GotoAdvances
  <2>5. Counter(req[h].flow) \in Counters
    BY <1>1 DEF Counter, Counters
  <2>6. redis.failures[Counter(req[h].flow)] < MaxAttempts
    BY <1>3, <2>5, MfaAssumption DEF LockedOut, TypeInv, TypeOK, Redis
  <2>. QED
    BY <2>1, <2>4, <2>6
<1>. QED
  BY <1>2, <1>3 DEF Lockout

LEMMA EnableReadOutline ==
  ASSUME TypeInv, NEW h \in Handlers, EnableRead(h)
  PROVE  /\ req[h].pc = "enableRead" /\ req[h].flow = "enable"
         /\ \/ Ends(h)
            \/ /\ Moved(h) /\ SameFlow(h) /\ req'[h].pc = "verify"
               /\ redis.setup # None /\ req'[h].data = redis.setup
               /\ req'[h].user = req[h].user /\ req'[h].update = req[h].update
<1>1. /\ req[h] \in Request /\ req[h].pc = "enableRead" /\ req[h].flow = "enable"
      /\ redis.setup \in Payload \cup {None}
  BY DEF TypeInv, TypeOK, EnableRead, At, Redis, FlowLinks
<1>2. CASE Finish(h)
  BY <1>1, <1>2, FinishEnds
<1>3. CASE redis.setup # None /\ ~Finish(h)
  <2>. DEFINE q == [req[h] EXCEPT !.pc = "verify", !.data = redis.setup]
  <2>1. q \in Request /\ q.pc = "verify" /\ q.flow = req[h].flow /\ q.proof = req[h].proof
        /\ q.token = req[h].token /\ q.data = redis.setup /\ q.user = req[h].user
        /\ q.update = req[h].update
    BY <1>1, <1>3 DEF Request, PCs
  <2>2. req' = [req EXCEPT ![h] = q]
    BY <1>3 DEF EnableRead
  <2>. HIDE DEF q
  <2>3. Moved(h) /\ req'[h] = q
    BY <2>1, <2>2, MoveFields
  <2>. QED
    BY <1>1, <1>3, <2>1, <2>3 DEF SameFlow
<1>. QED
  BY <1>2, <1>3 DEF EnableRead

LEMMA RereadOutline ==
  ASSUME TypeInv, NEW h \in Handlers, SetupReread(h)
  PROVE  Ends(h) \/ Advances(h, "setupReread", "setupStore")
BY FinishEnds, GotoAdvances DEF SetupReread, At, PCs

-----------------------------------------------------------------------------
(* The answers to a code *)

LEMMA CounterType == \A flow : Counter(flow) \in Counters
BY DEF Counter, Counters

Refused(h) ==
  \/ req[h].flow = "enable" /\ Ends(h) /\ seen' = seen
  \/ /\ req[h].flow \in Guarded
     /\ Advances(h, req[h].pc, "fail") /\ SeenBut({"guesses"})
     /\ seen'.guesses = [seen.guesses EXCEPT ![Counter(req[h].flow)] = @ + 1]

Accepted(h) ==
  /\ \/ req[h].flow = "enable" /\ Advances(h, req[h].pc, "enableTake")
     \/ req[h].flow \in Guarded /\ Advances(h, req[h].pc, "clear")
  /\ SeenBut({"accepted"})
  /\ seen'.accepted = [seen.accepted EXCEPT ![req[h].proof] = @ + 1]

LEMMA CountGuess ==
  ASSUME TypeInv, NEW c \in Counters, seen' = [seen EXCEPT !.guesses[c] = @ + 1]
  PROVE  SeenBut({"guesses"}) /\ seen'.guesses = [seen.guesses EXCEPT ![c] = @ + 1]
<1>1. seen \in History /\ seen.guesses \in [Counters -> Nat] /\ seen.guesses[c] + 1 \in Nat
  BY DEF TypeInv, TypeOK, History
<1>2. seen' = [seen EXCEPT !.guesses = [seen.guesses EXCEPT ![c] = @ + 1]]
  OBVIOUS
<1>3. [seen.guesses EXCEPT ![c] = @ + 1] \in [Counters -> Nat]
  BY <1>1
<1>. QED
  BY <1>1, <1>2, <1>3 DEF SeenBut, History

LEMMA RefuseOutline ==
  ASSUME TypeInv, NEW h \in Handlers, req[h].flow \in Verifying, Refuse(h)
  PROVE  Refused(h)
<1>1. CASE req[h].flow = "enable"
  BY <1>1, FinishEnds DEF Refuse, Refused
<1>2. CASE req[h].flow # "enable"
  <2>1. Advances(h, req[h].pc, "fail")
    BY <1>2, GotoAdvances DEF Refuse, PCs
  <2>. QED
    BY <1>2, <2>1, CounterType, CountGuess DEF Refuse, Refused, Verifying, Guarded
<1>. QED
  BY <1>1, <1>2

LEMMA AcceptOutline ==
  ASSUME TypeInv, NEW h \in Handlers, req[h].flow \in Verifying, req[h].proof \in TotpCodes, Accept(h)
  PROVE  Accepted(h)
<1>. DEFINE p == req[h].proof
<1>1. seen \in History /\ seen.accepted \in [TotpCodes -> Nat] /\ seen.accepted[p] + 1 \in Nat
  BY DEF TypeInv, TypeOK, History
<1>. HIDE DEF p
<1>2. seen' = [seen EXCEPT !.accepted = [seen.accepted EXCEPT ![p] = @ + 1]]
  BY DEF Accept, p
<1>3. [seen.accepted EXCEPT ![p] = @ + 1] \in [TotpCodes -> Nat]
  BY <1>1
<1>4. SeenBut({"accepted"}) /\ seen'.accepted = [seen.accepted EXCEPT ![p] = @ + 1]
  BY <1>1, <1>2, <1>3 DEF SeenBut, History
<1>5. \/ req[h].flow = "enable" /\ Advances(h, req[h].pc, "enableTake")
      \/ req[h].flow \in Guarded /\ Advances(h, req[h].pc, "clear")
  BY GotoAdvances DEF Accept, AfterVerify, PCs, Verifying, Guarded
<1>. QED
  BY <1>4, <1>5 DEF Accepted, p

LEMMA CompareOutline ==
  ASSUME TypeInv, NEW h \in Handlers, Compare(h)
  PROVE  /\ req[h].flow = "setup" /\ redis' = redis
         /\ \/ Advances(h, "compare", "clear") /\ seen' = seen
            \/ Refused(h) /\ req[h].pc = "compare"
<1>1. req[h].pc = "compare" /\ req[h].flow = "setup"
  BY DEF TypeInv, Compare, At, FlowLinks
<1>2. CASE Goto(h, "clear") /\ seen' = seen
  BY <1>1, <1>2, GotoAdvances DEF Compare, PCs
<1>3. CASE Goto(h, "fail") /\ seen' = [seen EXCEPT !.guesses["reauth"] = @ + 1]
  <2>1. Counter(req[h].flow) = "reauth" /\ "reauth" \in Counters
    BY <1>1 DEF Counter, Counters
  <2>2. Advances(h, req[h].pc, "fail")
    BY <1>3, GotoAdvances DEF PCs
  <2>. QED
    BY <1>1, <1>3, <2>1, <2>2, CountGuess DEF Compare, Refused, Guarded
<1>. QED
  BY <1>2, <1>3 DEF Compare

MarkedNow(h, k) ==
  LET p == req[h].proof
  IN  /\ p \in TotpCodes /\ KeysBut({"marks"})
      /\ redis'.marks = Marked(k, p)

LEMMA ClampedType == Clamped \in Nat
<1>1. Window \in Nat /\ MaxWindow \in Nat
  BY MfaAssumption
<1>. QED
  BY <1>1 DEF Clamped

LEMMA MarkOutline ==
  ASSUME TypeInv, NEW k \in {"scoped", "legacy"}, NEW p \in TotpCodes,
         redis' = [redis EXCEPT !.marks = Marked(k, p)]
  PROVE  KeysBut({"marks"}) /\ redis'.marks = Marked(k, p)
<1>1. redis \in Redis /\ redis.marks \in [Keys -> [TotpCodes -> Nat]] /\ now \in Nat
  BY DEF TypeInv, TypeOK, Redis
<1>2. now + ReplayTtl \in Nat
  BY <1>1, ClampedType DEF ReplayTtl
<1>3. Marked(k, p) \in [Keys -> [TotpCodes -> Nat]]
  <2>. DEFINE v == now + ReplayTtl
  <2>1. v \in Nat
    BY <1>2
  <2>2. Marked(k, p) = redis.marks \/ Marked(k, p) = [redis.marks EXCEPT ![k] = [@ EXCEPT ![p] = v]]
    BY DEF Marked
  <2>. HIDE DEF v
  <2>. QED
    BY <1>1, <2>1, <2>2
<1>. HIDE DEF Marked
<1>. QED
  BY <1>1, <1>3 DEF KeysBut, Redis

LEMMA VerifyTotpOutline ==
  ASSUME TypeInv, NEW h \in Handlers, VerifyTotp(h)
  PROVE  /\ req[h].pc = "verify" /\ req[h].flow \in Verifying
         /\ req[h].flow = "challenge" => req[h].proof \notin Codes
         /\ \/ redis' = redis /\ Refused(h)
            \/ /\ MarkedNow(h, "scoped")
               /\ req[h].proof[2] - now <= Clamped /\ now - req[h].proof[2] <= Clamped
               /\ \/ /\ Moved(h) /\ SameFlow(h) /\ req'[h].pc = "verifyLegacy" /\ seen' = seen
                     /\ req'[h].user = req[h].user /\ req'[h].data = req[h].data
                     /\ req'[h].outcome = "fresh" => IsNew("scoped", req[h].proof)
                  \/ IsNew("scoped", req[h].proof) /\ Accepted(h)
                  \/ Refused(h)
<1>. DEFINE p == req[h].proof
<1>1. /\ req[h] \in Request /\ req[h].pc = "verify" /\ req[h].flow \in Verifying
      /\ req[h].flow = "challenge" => p \notin Codes
  BY DEF TypeInv, TypeOK, VerifyTotp, At, FlowLinks
<1>2. CASE ~Acceptable(p, AgainstSecret(h))
  BY <1>1, <1>2, RefuseOutline DEF VerifyTotp
<1>3. CASE Acceptable(p, AgainstSecret(h))
  <2>1. /\ redis' = [redis EXCEPT !.marks = Marked("scoped", p)]
        /\ p \in TotpCodes /\ p[2] - now <= Clamped /\ now - p[2] <= Clamped
    BY <1>3 DEF VerifyTotp, Acceptable
  <2>2. MarkedNow(h, "scoped")
    BY <2>1, MarkOutline DEF MarkedNow
  <2>3. CASE mix.plane = "platform"
    BY <1>1, <1>3, <2>1, <2>2, <2>3, RefuseOutline, AcceptOutline DEF VerifyTotp
  <2>4. CASE mix.plane = "dashboard"
    <3>. DEFINE o == IF IsNew("scoped", p) THEN "fresh" ELSE "none"
    <3>. DEFINE q == [req[h] EXCEPT !.pc = "verifyLegacy", !.outcome = o]
    <3>0. o \in {"fresh", "none"} /\ (o = "fresh" => IsNew("scoped", p))
      OBVIOUS
    <3>1. req' = [req EXCEPT ![h].pc = "verifyLegacy", ![h].outcome = o] /\ seen' = seen
      BY <1>3, <2>4 DEF VerifyTotp
    <3>. HIDE DEF o
    <3>2. q \in Request /\ q.pc = "verifyLegacy" /\ q.flow = req[h].flow /\ q.proof = req[h].proof
          /\ q.token = req[h].token /\ q.data = req[h].data /\ q.user = req[h].user
          /\ q.outcome = o
      BY <1>1, <3>0 DEF Request, PCs
    <3>3. req' = [req EXCEPT ![h] = q]
      BY <3>1
    <3>. HIDE DEF q
    <3>4. Moved(h) /\ req'[h] = q
      BY <3>2, <3>3, MoveFields
    <3>. QED
      BY <1>1, <2>1, <2>2, <3>0, <3>1, <3>2, <3>4 DEF SameFlow
  <2>5. mix.plane \in {"dashboard", "platform"}
    BY MfaAssumption DEF TypeInv, TypeOK, Mix
  <2>. QED
    BY <2>3, <2>4, <2>5
<1>. QED
  BY <1>2, <1>3

LEMMA VerifyLegacyOutline ==
  ASSUME TypeInv, NEW h \in Handlers, VerifyLegacy(h)
  PROVE  /\ req[h].pc = "verifyLegacy" /\ req[h].flow \in Verifying
         /\ MarkedNow(h, "legacy")
         /\ (req[h].outcome = "fresh" /\ Accepted(h)) \/ Refused(h)
<1>1. /\ req[h].pc = "verifyLegacy" /\ req[h].flow \in Verifying /\ req[h].proof \in TotpCodes
  BY DEF TypeInv, VerifyLegacy, At, FlowLinks
<1>2. redis' = [redis EXCEPT !.marks = Marked("legacy", req[h].proof)]
  BY DEF VerifyLegacy
<1>3. MarkedNow(h, "legacy")
  BY <1>1, <1>2, MarkOutline DEF MarkedNow
<1>. QED
  BY <1>1, <1>3, RefuseOutline, AcceptOutline DEF VerifyLegacy

LEMMA VerifyRecoveryOutline ==
  ASSUME TypeInv, NEW h \in Handlers, VerifyRecovery(h)
  PROVE  /\ req[h].pc = "verify" /\ req[h].flow = "challenge" /\ req[h].proof \in Codes
         /\ \/ redis' = redis /\ Refused(h)
            \/ /\ req[h].proof \in req[h].user.codes /\ req[h].proof \notin redis.claims
               /\ KeysBut({"claims"}) /\ redis'.claims = redis.claims \cup {req[h].proof}
               /\ Advances(h, "verify", "clear") /\ seen' = seen
<1>. DEFINE c == req[h].proof
<1>1. req[h].pc = "verify" /\ req[h].flow = "challenge" /\ c \in Codes
  BY DEF VerifyRecovery, At
<1>2. CASE c \in req[h].user.codes /\ Unclaimed(c)
  <2>1. redis' = [redis EXCEPT !.claims = @ \cup {c}] /\ Goto(h, "clear") /\ seen' = seen
    BY <1>2 DEF VerifyRecovery
  <2>2. Advances(h, "verify", "clear")
    BY <1>1, <2>1, GotoAdvances DEF PCs
  <2>3. KeysBut({"claims"}) /\ redis'.claims = redis.claims \cup {c}
    BY <1>1, <2>1 DEF TypeInv, TypeOK, Redis, KeysBut
  <2>. QED
    BY <1>1, <1>2, <2>1, <2>2, <2>3 DEF Unclaimed
<1>3. CASE ~(c \in req[h].user.codes /\ Unclaimed(c))
  BY <1>1, <1>3, RefuseOutline DEF VerifyRecovery, Verifying
<1>. QED
  BY <1>2, <1>3

LEMMA FailOutline ==
  ASSUME TypeInv, NEW h \in Handlers, Fail(h)
  PROVE  /\ req[h].pc = "fail" /\ req[h].flow \in Guarded /\ Ends(h) /\ seen' = seen
         /\ KeysBut({"failures"})
         /\ redis'.failures = [redis.failures EXCEPT ![Counter(req[h].flow)] = @ + 1]
<1>. DEFINE c == Counter(req[h].flow)
<1>1. req[h].pc = "fail" /\ req[h].flow \in Guarded
  BY DEF TypeInv, Fail, At, FlowLinks
<1>2. c \in Counters
  BY CounterType
<1>3. redis' = [redis EXCEPT !.failures[c] = @ + 1] /\ Finish(h) /\ seen' = seen
  BY DEF Fail
<1>. HIDE DEF c
<1>4. /\ redis \in Redis /\ redis.failures \in [Counters -> Nat]
      /\ redis.failures[c] + 1 \in Nat
  BY <1>2 DEF TypeInv, TypeOK, Redis
<1>5. redis' = [redis EXCEPT !.failures = [redis.failures EXCEPT ![c] = @ + 1]]
  BY <1>3
<1>6. [redis.failures EXCEPT ![c] = @ + 1] \in [Counters -> Nat]
  BY <1>4
<1>7. KeysBut({"failures"}) /\ redis'.failures = [redis.failures EXCEPT ![c] = @ + 1]
  BY <1>4, <1>5, <1>6 DEF KeysBut, Redis
<1>. QED
  BY <1>1, <1>3, <1>7, FinishEnds DEF c

LEMMA ClearOutline ==
  ASSUME TypeInv, NEW h \in Handlers, Clear(h)
  PROVE  /\ req[h].pc = "clear" /\ req[h].flow \in Guarded
         /\ KeysBut({"failures"})
         /\ redis'.failures = [redis.failures EXCEPT ![Counter(req[h].flow)] = 0]
         /\ SeenBut({"guesses", "drawn"})
         /\ seen'.guesses = [seen.guesses EXCEPT ![Counter(req[h].flow)] = 0]
         /\ \/ req[h].flow = "challenge" /\ Advances(h, "clear", "consume") /\ seen'.drawn = seen.drawn
            \/ req[h].flow = "setup" /\ Advances(h, "clear", "setupRead") /\ seen'.drawn = seen.drawn
            \/ /\ Moved(h) /\ req'[h].pc = "lock" /\ req'[h].flow = req[h].flow
               /\ \/ req[h].flow = "disable" /\ seen'.drawn = seen.drawn
                  \/ /\ req[h].flow = "regenerate"
                     /\ req'[h].data.codes \subseteq Codes \ seen.drawn
                     /\ seen'.drawn = seen.drawn \cup req'[h].data.codes
<1>. DEFINE c == Counter(req[h].flow)
<1>1. req[h] \in Request /\ req[h].pc = "clear" /\ req[h].flow \in Guarded
  BY DEF TypeInv, TypeOK, Clear, At, FlowLinks
<1>2. c \in Counters
  BY CounterType
<1>3. redis' = [redis EXCEPT !.failures[c] = 0]
  BY DEF Clear
<1>4. ASSUME seen' = [seen EXCEPT !.guesses[c] = 0]
      PROVE  SeenBut({"guesses"}) /\ seen'.guesses = [seen.guesses EXCEPT ![c] = 0]
  <2>. HIDE DEF c
  <2>1. seen' = [seen EXCEPT !.guesses = [seen.guesses EXCEPT ![c] = 0]]
    BY <1>4
  <2>2. seen \in History /\ [seen.guesses EXCEPT ![c] = 0] \in [Counters -> Nat]
    BY <1>2 DEF TypeInv, TypeOK, History
  <2>. QED
    BY <2>1, <2>2 DEF SeenBut, History
<1>5. KeysBut({"failures"}) /\ redis'.failures = [redis.failures EXCEPT ![c] = 0]
  <2>. HIDE DEF c
  <2>1. redis' = [redis EXCEPT !.failures = [redis.failures EXCEPT ![c] = 0]]
    BY <1>3
  <2>2. redis \in Redis /\ [redis.failures EXCEPT ![c] = 0] \in [Counters -> Nat]
    BY <1>2 DEF TypeInv, TypeOK, Redis
  <2>. QED
    BY <2>1, <2>2 DEF KeysBut, Redis
<1>6. CASE req[h].flow \in {"challenge", "setup"}
  <2>1. seen' = [seen EXCEPT !.guesses[c] = 0]
    BY <1>6 DEF Clear
  <2>2. \/ req[h].flow = "challenge" /\ Advances(h, "clear", "consume")
        \/ req[h].flow = "setup" /\ Advances(h, "clear", "setupRead")
    BY <1>1, <1>6, GotoAdvances DEF Clear, PCs
  <2>. QED
    BY <1>1, <1>4, <1>5, <2>1, <2>2 DEF SeenBut
<1>7. CASE req[h].flow = "disable"
  <2>. DEFINE q == [req[h] EXCEPT !.pc = "lock", !.user = Off, !.proof = None]
  <2>1. seen' = [seen EXCEPT !.guesses[c] = 0] /\ req' = [req EXCEPT ![h] = q]
    BY <1>7 DEF Clear
  <2>2. q \in Request /\ q.pc = "lock" /\ q.flow = req[h].flow
    BY <1>1 DEF Request, PCs, Record, Off
  <2>. HIDE DEF q
  <2>3. Moved(h) /\ req'[h] = q
    BY <2>1, <2>2, MoveFields
  <2>. QED
    BY <1>1, <1>4, <1>5, <1>7, <2>1, <2>2, <2>3 DEF SeenBut
<1>8. CASE req[h].flow = "regenerate"
  <2>1. PICK C \in SUBSET FreshOf(Codes) :
          /\ req' = [req EXCEPT ![h].pc = "lock", ![h].data.codes = C, ![h].user = Off,
                       ![h].proof = None]
          /\ seen' = [seen EXCEPT !.guesses[c] = 0, !.drawn = @ \cup C]
    BY <1>8 DEF Clear
  <2>. DEFINE d == [req[h].data EXCEPT !.codes = C]
  <2>. DEFINE q == [req[h] EXCEPT !.pc = "lock", !.data = d, !.user = Off, !.proof = None]
  <2>2. C \subseteq Codes \ seen.drawn
    BY DEF FreshOf
  <2>3. d \in Payload /\ d.codes = C
    BY <1>1, <2>2 DEF Request, Payload
  <2>4. req' = [req EXCEPT ![h] = q]
    BY <2>1
  <2>. HIDE DEF d
  <2>5. q \in Request /\ q.pc = "lock" /\ q.flow = req[h].flow /\ q.data = d
    BY <1>1, <2>3 DEF Request, PCs, Record, Off
  <2>. HIDE DEF q
  <2>6. Moved(h) /\ req'[h] = q
    BY <2>4, <2>5, MoveFields
  <2>7. /\ SeenBut({"guesses", "drawn"}) /\ seen'.drawn = seen.drawn \cup C
        /\ seen'.guesses = [seen.guesses EXCEPT ![c] = 0]
    <3>. HIDE DEF c
    <3>1. seen' = [seen EXCEPT !.guesses = [seen.guesses EXCEPT ![c] = 0], !.drawn = seen.drawn \cup C]
      BY <2>1
    <3>2. seen \in History /\ [seen.guesses EXCEPT ![c] = 0] \in [Counters -> Nat]
      BY <1>2 DEF TypeInv, TypeOK, History
    <3>3. seen.drawn \cup C \in SUBSET (Secrets \cup Codes \cup Tokens)
      BY <2>2, <3>2 DEF History
    <3>. QED
      BY <3>1, <3>2, <3>3 DEF SeenBut, History
  <2>. QED
    BY <1>1, <1>5, <1>8, <2>2, <2>3, <2>5, <2>6, <2>7
<1>. QED
  BY <1>1, <1>6, <1>7, <1>8 DEF Guarded

LEMMA ConsumeOutline ==
  ASSUME TypeInv, NEW h \in Handlers, Consume(h)
  PROVE  /\ req[h].pc = "consume" /\ req[h].flow = "challenge" /\ req[h].token \in Tokens
         /\ KeysBut({"temp"}) /\ redis'.temp = [redis.temp EXCEPT ![req[h].token] = None]
         /\ seen' = seen /\ jobs' \in SUBSET Secrets
         /\ \/ Ends(h)
            \/ /\ redis.temp[req[h].token] # None
               /\ \/ req[h].proof \in Codes /\ Advances(h, "consume", "lock")
                  \/ /\ req[h].proof \notin Codes
                     /\ Moved(h) /\ SameFlow(h) /\ req'[h].pc = "issue"
<1>. DEFINE t == req[h].token
<1>1. /\ req[h] \in Request /\ req[h].pc = "consume" /\ req[h].flow = "challenge" /\ t \in Tokens
      /\ req[h].user.secret # None
  BY DEF TypeInv, TypeOK, Consume, At, FlowLinks, HeldLinks
<1>2. KeysBut({"temp"}) /\ redis'.temp = [redis.temp EXCEPT ![t] = None]
  <2>1. redis' = [redis EXCEPT !.temp[t] = None]
    BY DEF Consume
  <2>. HIDE DEF t
  <2>2. redis' = [redis EXCEPT !.temp = [redis.temp EXCEPT ![t] = None]]
    BY <2>1
  <2>3. redis \in Redis /\ [redis.temp EXCEPT ![t] = None] \in [Tokens -> Nat \cup {None}]
    BY <1>1 DEF TypeInv, TypeOK, Redis
  <2>. QED
    BY <2>2, <2>3 DEF KeysBut, Redis
<1>3. seen' = seen /\ jobs' \in SUBSET Secrets
  <2>1. req[h].user.secret \in Secrets
    BY <1>1 DEF Request, Record
  <2>. QED
    BY <2>1 DEF TypeInv, TypeOK, Consume
<1>4. CASE redis.temp[t] = None
  <2>1. Ends(h)
    BY <1>4, FinishEnds DEF Consume
  <2>. QED
    BY <1>1, <1>2, <1>3, <2>1
<1>5. CASE redis.temp[t] # None /\ req[h].proof \in Codes
  <2>1. Goto(h, "lock")
    BY <1>5 DEF Consume
  <2>2. Advances(h, "consume", "lock")
    BY <1>1, <2>1, GotoAdvances DEF PCs
  <2>. QED
    BY <1>1, <1>2, <1>3, <1>5, <2>2
<1>6. CASE redis.temp[t] # None /\ req[h].proof \notin Codes
  <2>. DEFINE q == [req[h] EXCEPT !.pc = "issue", !.user = Off]
  <2>1. q \in Request /\ q.pc = "issue" /\ q.flow = req[h].flow /\ q.proof = req[h].proof
        /\ q.token = req[h].token
    BY <1>1 DEF Request, PCs, Record, Off
  <2>2. req' = [req EXCEPT ![h] = q]
    BY <1>6 DEF Consume
  <2>. HIDE DEF q
  <2>3. Moved(h) /\ req'[h] = q
    BY <2>1, <2>2, MoveFields
  <2>. QED
    BY <1>1, <1>2, <1>3, <1>6, <2>1, <2>3 DEF SameFlow
<1>. QED
  BY <1>4, <1>5, <1>6

-----------------------------------------------------------------------------
(* The set-up *)

Prepared(h) ==
  /\ Moved(h) /\ SameFlow(h) /\ req'[h].pc = "setupClaim"
  /\ req'[h].data.secret \in Secrets \ seen.drawn
  /\ req'[h].data.codes \subseteq Codes \ seen.drawn
  /\ SeenBut({"drawn"})
  /\ seen'.drawn = seen.drawn \cup {req'[h].data.secret} \cup req'[h].data.codes

LEMMA SetupReadOutline ==
  ASSUME TypeInv, NEW h \in Handlers, SetupRead(h)
  PROVE  /\ req[h].pc = "setupRead" /\ req[h].flow = "setup"
         /\ \/ Ends(h) /\ seen' = seen
            \/ redis.setup = None /\ Prepared(h)
<1>1. req[h] \in Request /\ req[h].pc = "setupRead" /\ req[h].flow = "setup"
  BY DEF TypeInv, TypeOK, SetupRead, At, FlowLinks
<1>2. CASE Finish(h) /\ seen' = seen
  BY <1>1, <1>2, FinishEnds
<1>3. ASSUME NEW s \in FreshOf(Secrets), NEW C \in SUBSET FreshOf(Codes),
             req' = [req EXCEPT ![h].pc = "setupClaim", ![h].data = [secret |-> s, codes |-> C]],
             seen' = [seen EXCEPT !.drawn = @ \cup {s} \cup C]
      PROVE  Prepared(h)
  <2>. DEFINE d == [secret |-> s, codes |-> C]
  <2>. DEFINE q == [req[h] EXCEPT !.pc = "setupClaim", !.data = d]
  <2>1. s \in Secrets \ seen.drawn /\ C \subseteq Codes \ seen.drawn
    BY DEF FreshOf
  <2>2. d \in Payload /\ d.secret = s /\ d.codes = C
    BY <2>1 DEF Payload
  <2>3. req' = [req EXCEPT ![h] = q]
    BY <1>3
  <2>. HIDE DEF d
  <2>4. q \in Request /\ q.pc = "setupClaim" /\ q.flow = req[h].flow /\ q.proof = req[h].proof
        /\ q.token = req[h].token /\ q.data = d
    BY <1>1, <2>2 DEF Request, PCs
  <2>. HIDE DEF q
  <2>5. Moved(h) /\ req'[h] = q
    BY <2>3, <2>4, MoveFields
  <2>6. SeenBut({"drawn"}) /\ seen'.drawn = seen.drawn \cup {s} \cup C
    BY <1>3, <2>1 DEF TypeInv, TypeOK, History, SeenBut
  <2>. QED
    BY <2>1, <2>2, <2>4, <2>5, <2>6 DEF Prepared, SameFlow
<1>. QED
  BY <1>1, <1>2, <1>3 DEF SetupRead

LEMMA StoreOutline ==
  ASSUME TypeInv, NEW p \in Payload \cup {None}, redis' = [redis EXCEPT !.setup = p]
  PROVE  KeysBut({"setup"}) /\ redis'.setup = p
BY DEF TypeInv, TypeOK, Redis, KeysBut

LEMMA SetupClaimOutline ==
  ASSUME TypeInv, NEW h \in Handlers, SetupClaim(h)
  PROVE  /\ req[h].pc = "setupClaim" /\ req[h].flow = "setup" /\ seen' = seen
         /\ \/ Ends(h) /\ KeysBut({"setup"}) /\ redis'.setup = req[h].data
            \/ Advances(h, "setupClaim", "setupReread") /\ redis' = redis
<1>1. /\ req[h].data \in Payload /\ req[h].pc = "setupClaim" /\ req[h].flow = "setup"
      /\ seen' = seen
  BY DEF TypeInv, TypeOK, SetupClaim, At, FlowLinks, Request
<1>2. CASE redis.setup = None
  BY <1>1, <1>2, StoreOutline, FinishEnds DEF SetupClaim
<1>3. CASE redis.setup # None
  <2>1. Goto(h, "setupReread") /\ redis' = redis
    BY <1>3 DEF SetupClaim
  <2>. QED
    BY <1>1, <2>1, GotoAdvances DEF PCs
<1>. QED
  BY <1>2, <1>3

LEMMA SetupStoreOutline ==
  ASSUME TypeInv, NEW h \in Handlers, SetupStore(h)
  PROVE  /\ req[h].pc = "setupStore" /\ req[h].flow = "setup" /\ seen' = seen
         /\ Ends(h) /\ KeysBut({"setup"}) /\ redis'.setup = req[h].data
<1>1. /\ req[h].data \in Payload /\ req[h].pc = "setupStore" /\ req[h].flow = "setup"
  BY DEF TypeInv, TypeOK, SetupStore, At, FlowLinks, Request
<1>. QED
  BY <1>1, StoreOutline, FinishEnds DEF SetupStore

LEMMA EnableTakeOutline ==
  ASSUME TypeInv, NEW h \in Handlers, EnableTake(h)
  PROVE  /\ req[h].pc = "enableTake" /\ req[h].flow = "enable"
         /\ KeysBut({"setup"}) /\ redis'.setup = None
         /\ \/ Ends(h) /\ seen' = seen
            \/ /\ Advances(h, "enableTake", "lock") /\ redis.setup # None
               /\ SeenBut({"crossed"})
               /\ seen'.crossed = (seen.crossed \/ redis.setup # req[h].data)
<1>1. req[h].pc = "enableTake" /\ req[h].flow = "enable"
  BY DEF TypeInv, EnableTake, At, FlowLinks
<1>2. KeysBut({"setup"}) /\ redis'.setup = None
  BY StoreOutline DEF EnableTake
<1>3. CASE redis.setup = None
  BY <1>1, <1>2, <1>3, FinishEnds DEF EnableTake
<1>4. CASE redis.setup # None
  <2>1. Goto(h, "lock") /\ seen' = [seen EXCEPT !.crossed = @ \/ redis.setup # req[h].data]
    BY <1>4 DEF EnableTake
  <2>2. Advances(h, "enableTake", "lock")
    BY <1>1, <2>1, GotoAdvances DEF PCs
  <2>. DEFINE b == seen.crossed \/ redis.setup # req[h].data
  <2>3. b \in BOOLEAN
    OBVIOUS
  <2>4. seen' = [seen EXCEPT !.crossed = b]
    BY <2>1
  <2>. HIDE DEF b
  <2>5. SeenBut({"crossed"}) /\ seen'.crossed = b
    BY <2>3, <2>4 DEF TypeInv, TypeOK, History, SeenBut
  <2>. QED
    BY <1>1, <1>2, <1>4, <2>2, <2>5 DEF b
<1>. QED
  BY <1>3, <1>4

-----------------------------------------------------------------------------
(* The locks and the write *)

LEMMA LockOutline ==
  ASSUME TypeInv, NEW k \in {"scoped", "legacy"}, NEW v \in Handlers \cup {None},
         redis' = [redis EXCEPT !.lock[k] = v]
  PROVE  KeysBut({"lock"}) /\ redis'.lock = [redis.lock EXCEPT ![k] = v]
<1>1. redis' = [redis EXCEPT !.lock = [redis.lock EXCEPT ![k] = v]]
  OBVIOUS
<1>2. redis \in Redis /\ [redis.lock EXCEPT ![k] = v] \in [Keys -> Handlers \cup {None}]
  BY DEF TypeInv, TypeOK, Redis
<1>. QED
  BY <1>1, <1>2 DEF KeysBut, Redis

LEMMA TakeScopedOutline ==
  ASSUME TypeInv, NEW h \in Handlers, TakeScoped(h)
  PROVE  /\ req[h].pc = "lock" /\ seen' = seen
         /\ \/ Ends(h) /\ redis' = redis
            \/ /\ KeysBut({"lock"}) /\ redis.lock["scoped"] = None
               /\ redis'.lock = [redis.lock EXCEPT !["scoped"] = h]
               /\ \/ "legacy" \in Keys /\ Advances(h, "lock", "lockLegacy")
                  \/ "legacy" \notin Keys /\ Advances(h, "lock", "read")
<1>1. req[h].pc = "lock" /\ seen' = seen /\ "scoped" \in Keys
  BY DEF TakeScoped, At, Keys
<1>2. CASE redis.lock["scoped"] # None
  BY <1>1, <1>2, FinishEnds DEF TakeScoped
<1>3. CASE redis.lock["scoped"] = None
  <2>1. /\ redis' = [redis EXCEPT !.lock["scoped"] = h]
        /\ Goto(h, IF "legacy" \in Keys THEN "lockLegacy" ELSE "read")
    BY <1>3 DEF TakeScoped
  <2>2. KeysBut({"lock"}) /\ redis'.lock = [redis.lock EXCEPT !["scoped"] = h]
    BY <1>1, <2>1, LockOutline
  <2>3. CASE "legacy" \in Keys
    BY <1>1, <1>3, <2>1, <2>2, <2>3, GotoAdvances DEF PCs
  <2>4. CASE "legacy" \notin Keys
    BY <1>1, <1>3, <2>1, <2>2, <2>4, GotoAdvances DEF PCs
  <2>. QED
    BY <2>3, <2>4
<1>. QED
  BY <1>2, <1>3

LEMMA TakeLegacyOutline ==
  ASSUME TypeInv, NEW h \in Handlers, TakeLegacy(h)
  PROVE  /\ req[h].pc = "lockLegacy" /\ seen' = seen
         /\ \/ Advances(h, "lockLegacy", "rollback") /\ redis' = redis
            \/ /\ KeysBut({"lock"}) /\ redis.lock["legacy"] = None
               /\ redis'.lock = [redis.lock EXCEPT !["legacy"] = h]
               /\ Advances(h, "lockLegacy", "read")
<1>1. req[h].pc = "lockLegacy" /\ seen' = seen
  BY DEF TakeLegacy, At
<1>2. CASE redis.lock["legacy"] # None
  BY <1>1, <1>2, GotoAdvances DEF TakeLegacy, PCs
<1>3. CASE redis.lock["legacy"] = None
  <2>1. redis' = [redis EXCEPT !.lock["legacy"] = h] /\ Goto(h, "read")
    BY <1>3 DEF TakeLegacy
  <2>2. Advances(h, "lockLegacy", "read")
    BY <1>1, <2>1, GotoAdvances DEF PCs
  <2>. QED
    BY <1>1, <1>3, <2>1, <2>2, LockOutline
<1>. QED
  BY <1>2, <1>3

(* A handler gives up its lock k, if it is still its own. *)
Frees(h, k) == KeysBut({"lock"}) /\ redis'.lock = Released(h, k)

Forgets(h) == SeenBut({"overran"}) /\ seen'.overran = {o \in seen.overran : o[1] # h}

LEMMA FreesOutline ==
  ASSUME TypeInv, NEW h \in Handlers, NEW k \in {"scoped", "legacy"},
         redis' = [redis EXCEPT !.lock = Released(h, k)]
  PROVE  Frees(h, k)
<1>1. redis \in Redis /\ Released(h, k) \in [Keys -> Handlers \cup {None}]
  BY DEF TypeInv, TypeOK, Redis, Released
<1>. HIDE DEF Released
<1>. QED
  BY <1>1 DEF Frees, KeysBut, Redis

LEMMA ForgetsOutline ==
  ASSUME TypeInv, NEW h \in Handlers, Forget(h)
  PROVE  Forgets(h)
BY DEF TypeInv, TypeOK, History, Forget, Forgets, SeenBut

LEMMA RollbackOutline ==
  ASSUME TypeInv, NEW h \in Handlers, Rollback(h)
  PROVE  req[h].pc = "rollback" /\ Ends(h) /\ Frees(h, "scoped") /\ Forgets(h)
BY FinishEnds, FreesOutline, ForgetsOutline DEF Rollback, At

(* What a transition writes is whole. *)
LEMMA MutateWhole ==
  ASSUME TypeInv, NEW h \in Handlers, req[h].pc = "read", Mutate(h) # None
  PROVE  Mutate(h) \in Record /\ Whole(Mutate(h))
<1>1. /\ req[h] \in Request /\ req[h].flow \in Rewriting /\ rec \in Record /\ Whole(rec)
      /\ req[h].flow = "enable" => req[h].data.secret # None
  BY DEF TypeInv, TypeOK, Whole, FlowLinks, HeldLinks, Changing, Locking
<1>2. CASE req[h].flow = "challenge"
  <2>1. /\ StillHolds(h)
        /\ Mutate(h) = [rec EXCEPT !.codes = @ \ {req[h].proof}, !.stale = @ /\ ~req[h].user.stale]
    BY <1>2 DEF Mutate, Spend
  <2>. DEFINE b == rec.stale /\ ~req[h].user.stale
  <2>2. b \in BOOLEAN
    OBVIOUS
  <2>3. Mutate(h) = [rec EXCEPT !.codes = rec.codes \ {req[h].proof}, !.stale = b]
    BY <2>1
  <2>. HIDE DEF b
  <2>. QED
    BY <1>1, <2>1, <2>2, <2>3 DEF StillHolds, Record, Whole
<1>3. CASE req[h].flow = "enable"
  BY <1>1, <1>3 DEF Mutate, Request, Payload, Record, Whole
<1>4. CASE req[h].flow \in {"disable", "reset"}
  BY <1>4 DEF Mutate, Cleared, Off, Record, Whole
<1>5. CASE req[h].flow = "regenerate"
  BY <1>1, <1>5 DEF Mutate, Request, Payload, Record, Whole
<1>6. CASE req[h].flow = "reencrypt"
  BY <1>1, <1>6 DEF Mutate, Record, Whole
<1>. QED
  BY <1>1, <1>2, <1>3, <1>4, <1>5, <1>6 DEF Rewriting

LEMMA TransitionReadOutline ==
  ASSUME TypeInv, NEW h \in Handlers, TransitionRead(h)
  PROVE  /\ req[h].pc = "read" /\ Moved(h) /\ SameFlow(h) /\ redis' = redis /\ seen' = seen
         /\ \/ req'[h].pc = "unlock" /\ req'[h].outcome = "failed"
            \/ req'[h].pc = "unlock" /\ req'[h].outcome = "abandoned" /\ Mutate(h) = None
            \/ /\ req'[h].pc = "write" /\ req'[h].update = Mutate(h) /\ Mutate(h) # None
               /\ Whole(Mutate(h))
<1>. DEFINE done == [req[h] EXCEPT !.user = Off, !.data = NoPayload]
<1>1. req[h] \in Request /\ req[h].pc = "read" /\ redis' = redis /\ seen' = seen
  BY DEF TypeInv, TypeOK, TransitionRead, At
<1>2. /\ done \in Request /\ done.flow = req[h].flow /\ done.proof = req[h].proof
      /\ done.token = req[h].token
  BY <1>1 DEF Request, Record, Off, Payload, NoPayload
<1>3. ASSUME NEW o \in {"failed", "abandoned"},
             req' = [req EXCEPT ![h] = [done EXCEPT !.pc = "unlock", !.outcome = o]]
      PROVE  Moved(h) /\ SameFlow(h) /\ req'[h].pc = "unlock" /\ req'[h].outcome = o
  <2>. HIDE DEF done
  <2>. DEFINE q == [done EXCEPT !.pc = "unlock", !.outcome = o]
  <2>1. q \in Request /\ q.pc = "unlock" /\ q.outcome = o /\ q.flow = done.flow
        /\ q.proof = done.proof /\ q.token = done.token
    BY <1>2 DEF Request, PCs
  <2>2. req' = [req EXCEPT ![h] = q]
    BY <1>3
  <2>. HIDE DEF q
  <2>. QED
    BY <1>2, <2>1, <2>2, MoveFields DEF SameFlow
<1>4. ASSUME Mutate(h) # None,
             req' = [req EXCEPT ![h] = [done EXCEPT !.pc = "write", !.update = Mutate(h)]]
      PROVE  /\ Moved(h) /\ SameFlow(h) /\ req'[h].pc = "write" /\ req'[h].update = Mutate(h)
             /\ Whole(Mutate(h))
  <2>. HIDE DEF done
  <2>. DEFINE q == [done EXCEPT !.pc = "write", !.update = Mutate(h)]
  <2>0. Mutate(h) \in Record /\ Whole(Mutate(h))
    BY <1>1, <1>4, MutateWhole
  <2>1. q \in Request /\ q.pc = "write" /\ q.update = Mutate(h) /\ q.flow = done.flow
        /\ q.proof = done.proof /\ q.token = done.token
    BY <1>2, <2>0 DEF Request, PCs
  <2>2. req' = [req EXCEPT ![h] = q]
    BY <1>4
  <2>. HIDE DEF q
  <2>. QED
    BY <1>2, <2>0, <2>1, <2>2, MoveFields DEF SameFlow
<1>. HIDE DEF done
<1>5. \/ req' = [req EXCEPT ![h] = [done EXCEPT !.pc = "unlock", !.outcome = "failed"]]
      \/ /\ Mutate(h) = None
         /\ req' = [req EXCEPT ![h] = [done EXCEPT !.pc = "unlock", !.outcome = "abandoned"]]
      \/ /\ Mutate(h) # None
         /\ req' = [req EXCEPT ![h] = [done EXCEPT !.pc = "write", !.update = Mutate(h)]]
  BY DEF TransitionRead, done
<1>. QED
  BY <1>1, <1>3, <1>4, <1>5

Written(h) ==
  /\ rec' = req[h].update /\ SeenBut({"printed", "late"})
  /\ seen'.printed = seen.printed \cup req[h].update.codes
  /\ seen'.late = (seen.late \/ Overrun(h))

LEMMA TransitionWriteOutline ==
  ASSUME TypeInv, NEW h \in Handlers, TransitionWrite(h)
  PROVE  /\ req[h].pc = "write" /\ Whole(req[h].update) /\ req[h].update \in Record
         /\ Moved(h) /\ SameFlow(h) /\ redis' = redis
         /\ req'[h].pc = "unlock"
         /\ \/ Written(h)
            \/ rec' = rec /\ seen' = seen /\ req'[h].outcome = "failed"
<1>1. /\ req[h] \in Request /\ req[h].pc = "write" /\ redis' = redis
      /\ Whole(req[h].update) /\ req[h].update \in Record
  BY DEF TypeInv, TypeOK, TransitionWrite, At, HeldLinks, Request
<1>2. ASSUME NEW o \in {"written", "failed"},
             req' = [req EXCEPT ![h].pc = "unlock", ![h].outcome = o, ![h].update = Off]
      PROVE  Moved(h) /\ SameFlow(h) /\ req'[h].pc = "unlock" /\ req'[h].outcome = o
  <2>. DEFINE q == [req[h] EXCEPT !.pc = "unlock", !.outcome = o, !.update = Off]
  <2>1. q \in Request /\ q.pc = "unlock" /\ q.outcome = o /\ q.flow = req[h].flow
        /\ q.proof = req[h].proof /\ q.token = req[h].token
    <3>1. "unlock" \in PCs /\ Off \in Record
      BY DEF PCs, Record, Off
    <3>. HIDE DEF Off
    <3>. QED
      BY <1>1, <3>1 DEF Request
  <2>2. req' = [req EXCEPT ![h] = q]
    BY <1>2
  <2>. HIDE DEF q
  <2>. QED
    BY <2>1, <2>2, MoveFields DEF SameFlow
<1>3. ASSUME rec' = req[h].update,
             seen' = [seen EXCEPT !.printed = @ \cup rec'.codes, !.late = @ \/ Overrun(h)]
      PROVE  Written(h)
  <2>. DEFINE b == seen.late \/ Overrun(h)
  <2>. DEFINE D == seen.printed \cup req[h].update.codes
  <2>1. b \in BOOLEAN /\ D \in SUBSET Codes
    BY <1>1 DEF TypeInv, TypeOK, History, Record
  <2>2. seen' = [seen EXCEPT !.printed = D, !.late = b]
    BY <1>3
  <2>. HIDE DEF b, D
  <2>3. SeenBut({"printed", "late"}) /\ seen'.printed = D /\ seen'.late = b
    BY <2>1, <2>2 DEF TypeInv, TypeOK, History, SeenBut
  <2>. QED
    BY <1>3, <2>3 DEF Written, b, D
<1>. QED
  BY <1>1, <1>2, <1>3 DEF TransitionWrite

(* Where a flow goes after its transition. *)
Leaves(h) ==
  /\ Forgets(h)
  /\ \/ Ends(h)
     \/ /\ req[h].outcome # "failed" /\ req[h].flow = "challenge"
        /\ Advances(h, req[h].pc, "issue")
     \/ /\ req[h].flow \in {"enable", "disable", "reset"}
        /\ Advances(h, req[h].pc, "bump")

LEMMA LeavesOutline ==
  ASSUME TypeInv, NEW h \in Handlers, AfterTransition(h), Forget(h)
  PROVE  Leaves(h)
<1>1. CASE req[h].outcome # "failed" /\ req[h].flow = "challenge"
  BY <1>1, GotoAdvances, ForgetsOutline DEF AfterTransition, Leaves, PCs
<1>2. CASE /\ ~(req[h].outcome # "failed" /\ req[h].flow = "challenge")
           /\ req[h].outcome = "written" /\ req[h].flow \in {"enable", "disable", "reset"}
  BY <1>2, GotoAdvances, ForgetsOutline DEF AfterTransition, Leaves, PCs
<1>3. CASE /\ ~(req[h].outcome # "failed" /\ req[h].flow = "challenge")
           /\ ~(req[h].outcome = "written" /\ req[h].flow \in {"enable", "disable", "reset"})
  BY <1>3, FinishEnds, ForgetsOutline DEF AfterTransition, Leaves
<1>. QED
  BY <1>1, <1>2, <1>3

LEMMA UnlockOutline ==
  ASSUME TypeInv, NEW h \in Handlers, Unlock(h)
  PROVE  /\ req[h].pc = "unlock" /\ Frees(h, "scoped")
         /\ \/ Advances(h, "unlock", "unlockLegacy") /\ seen' = seen
            \/ Leaves(h)
<1>1. req[h].pc = "unlock" /\ Frees(h, "scoped")
  BY FreesOutline DEF Unlock, At
<1>2. CASE Goto(h, "unlockLegacy") /\ seen' = seen
  BY <1>1, <1>2, GotoAdvances DEF PCs
<1>3. CASE AfterTransition(h) /\ Forget(h)
  BY <1>1, <1>3, LeavesOutline
<1>. QED
  BY <1>2, <1>3 DEF Unlock

LEMMA UnlockLegacyOutline ==
  ASSUME TypeInv, NEW h \in Handlers, UnlockLegacy(h)
  PROVE  req[h].pc = "unlockLegacy" /\ Frees(h, "legacy") /\ Leaves(h)
BY FreesOutline, LeavesOutline DEF UnlockLegacy, At

LEMMA BumpOutline ==
  ASSUME TypeInv, NEW h \in Handlers, Bump(h)
  PROVE  req[h].pc = "bump" /\ Ends(h) /\ KeysBut({}) /\ seen' = seen
<1>1. redis.epoch + 1 \in Nat
  BY DEF TypeInv, TypeOK, Redis
<1>2. redis' = [redis EXCEPT !.epoch = redis.epoch + 1]
  BY DEF Bump
<1>3. KeysBut({})
  BY <1>1, <1>2 DEF TypeInv, TypeOK, Redis, KeysBut
<1>. QED
  BY <1>3, FinishEnds DEF Bump, At

LEMMA IssueOutline ==
  ASSUME TypeInv, NEW h \in Handlers, Issue(h)
  PROVE  /\ req[h].pc = "issue" /\ req[h].flow = "challenge" /\ Ends(h) /\ SeenBut({"opened"})
         /\ \A x \in Codes \cup Tokens :
              seen'.opened[x] = IF x \in {req[h].token, req[h].proof} THEN seen.opened[x] + 1
                                ELSE seen.opened[x]
<1>1. req[h].pc = "issue" /\ req[h].flow = "challenge" /\ Ends(h)
  BY FinishEnds DEF TypeInv, Issue, At, FlowLinks
<1>. DEFINE f == [x \in Codes \cup Tokens |->
                    IF x \in {req[h].token, req[h].proof} THEN seen.opened[x] + 1
                    ELSE seen.opened[x]]
<1>2. seen \in History /\ seen.opened \in [Codes \cup Tokens -> Nat]
  BY DEF TypeInv, TypeOK, History
<1>3. f \in [Codes \cup Tokens -> Nat]
  BY <1>2
<1>4. seen' = [seen EXCEPT !.opened = f]
  BY <1>2 DEF Issue
<1>5. \A x \in Codes \cup Tokens :
        f[x] = IF x \in {req[h].token, req[h].proof} THEN seen.opened[x] + 1 ELSE seen.opened[x]
  OBVIOUS
<1>. HIDE DEF f
<1>6. SeenBut({"opened"}) /\ seen'.opened = f
  BY <1>2, <1>3, <1>4 DEF SeenBut, History
<1>. QED
  BY <1>1, <1>5, <1>6

LEMMA LoginStoreOutline ==
  ASSUME TypeInv, NEW h \in Handlers, LoginStoreTemp(h)
  PROVE  /\ req[h].pc = "temp" /\ Ends(h)
         /\ \E t \in Tokens \ seen.drawn :
              /\ KeysBut({"temp"}) /\ \A u \in Tokens \ {t} : redis'.temp[u] = redis.temp[u]
              /\ SeenBut({"drawn"}) /\ seen'.drawn = seen.drawn \cup {t}
<1>1. req[h].pc = "temp" /\ Ends(h)
  BY FinishEnds DEF LoginStoreTemp, At
<1>2. PICK t \in FreshOf(Tokens) :
        /\ redis' = [redis EXCEPT !.temp[t] = req[h].epoch]
        /\ seen' = [seen EXCEPT !.drawn = @ \cup {t}]
  BY DEF LoginStoreTemp
<1>3. t \in Tokens \ seen.drawn /\ req[h].epoch \in Nat
  BY DEF FreshOf, TypeInv, TypeOK, Request
<1>4. [redis.temp EXCEPT ![t] = req[h].epoch] \in [Tokens -> Nat \cup {None}]
  BY <1>3 DEF TypeInv, TypeOK, Redis
<1>5. KeysBut({"temp"}) /\ redis'.temp = [redis.temp EXCEPT ![t] = req[h].epoch]
  BY <1>2, <1>4 DEF TypeInv, TypeOK, Redis, KeysBut
<1>6. SeenBut({"drawn"}) /\ seen'.drawn = seen.drawn \cup {t}
  BY <1>2, <1>3 DEF TypeInv, TypeOK, History, SeenBut
<1>7. redis.temp \in [Tokens -> Nat \cup {None}]
  BY DEF TypeInv, TypeOK, Redis
<1>. QED
  BY <1>1, <1>3, <1>5, <1>6, <1>7

-----------------------------------------------------------------------------
(* What an expiry does *)

LEMMA SetupLapsesOutline ==
  ASSUME TypeInv, SetupLapses
  PROVE  KeysBut({"setup"}) /\ redis'.setup = None /\ seen' = seen
BY StoreOutline DEF SetupLapses

LEMMA LockLapsesOutline ==
  ASSUME TypeInv, NEW k \in Keys, LockLapses(k)
  PROVE  /\ KeysBut({"lock"}) /\ redis'.lock = [redis.lock EXCEPT ![k] = None]
         /\ SeenBut({"overran"}) /\ seen'.overran = seen.overran \cup {<<redis.lock[k], k>>}
<1>1. k \in {"scoped", "legacy"}
  BY DEF Keys
<1>2. KeysBut({"lock"}) /\ redis'.lock = [redis.lock EXCEPT ![k] = None]
  BY <1>1, LockOutline DEF LockLapses
<1>3. <<redis.lock[k], k>> \in Handlers \X Keys
  BY DEF LockLapses, TypeInv, TypeOK, Redis
<1>4. seen' = [seen EXCEPT !.overran = seen.overran \cup {<<redis.lock[k], k>>}]
  BY DEF LockLapses
<1>. DEFINE D == seen.overran \cup {<<redis.lock[k], k>>}
<1>5. D \in SUBSET (Handlers \X Keys)
  BY <1>3 DEF TypeInv, TypeOK, History
<1>6. seen' = [seen EXCEPT !.overran = D]
  BY <1>4
<1>. HIDE DEF D
<1>7. SeenBut({"overran"}) /\ seen'.overran = D
  BY <1>5, <1>6 DEF TypeInv, TypeOK, History, SeenBut
<1>. QED
  BY <1>2, <1>7 DEF D

LEMMA ClaimLapsesOutline ==
  ASSUME TypeInv, NEW c \in Codes, ClaimLapses(c)
  PROVE  /\ KeysBut({"claims"}) /\ redis'.claims = redis.claims \ {c}
         /\ SeenBut({"outlived"}) /\ seen.outlived \subseteq seen'.outlived
         /\ \A h \in Handlers : req[h].flow = "challenge" /\ req[h].proof = c => c \in seen'.outlived
BY DEF TypeInv, TypeOK, Redis, History, ClaimLapses, KeysBut, SeenBut

LEMMA TempLapsesOutline ==
  ASSUME TypeInv, NEW t \in Tokens, TempLapses(t)
  PROVE  /\ KeysBut({"temp"}) /\ redis'.temp = [redis.temp EXCEPT ![t] = None]
         /\ seen' = seen
<1>1. redis' = [redis EXCEPT !.temp = [redis.temp EXCEPT ![t] = None]] /\ seen' = seen
  BY DEF TempLapses
<1>2. redis \in Redis /\ [redis.temp EXCEPT ![t] = None] \in [Tokens -> Nat \cup {None}]
  BY DEF TypeInv, TypeOK, Redis
<1>. QED
  BY <1>1, <1>2 DEF KeysBut, Redis

LEMMA CounterLapsesOutline ==
  ASSUME TypeInv, NEW c \in Counters, CounterLapses(c)
  PROVE  /\ KeysBut({"failures"}) /\ redis'.failures = [redis.failures EXCEPT ![c] = 0]
         /\ SeenBut({"guesses"}) /\ seen'.guesses = [seen.guesses EXCEPT ![c] = 0]
<1>1. /\ redis' = [redis EXCEPT !.failures = [redis.failures EXCEPT ![c] = 0]]
      /\ seen' = [seen EXCEPT !.guesses = [seen.guesses EXCEPT ![c] = 0]]
  BY DEF CounterLapses
<1>2. redis \in Redis /\ [redis.failures EXCEPT ![c] = 0] \in [Counters -> Nat]
  BY DEF TypeInv, TypeOK, Redis
<1>3. seen \in History /\ [seen.guesses EXCEPT ![c] = 0] \in [Counters -> Nat]
  BY DEF TypeInv, TypeOK, History
<1>4. KeysBut({"failures"}) /\ redis'.failures = [redis.failures EXCEPT ![c] = 0]
  BY <1>1, <1>2 DEF KeysBut, Redis
<1>5. SeenBut({"guesses"}) /\ seen'.guesses = [seen.guesses EXCEPT ![c] = 0]
  BY <1>1, <1>3 DEF SeenBut, History
<1>. QED
  BY <1>4, <1>5

-----------------------------------------------------------------------------
(* Type correctness *)

LEMMA EndsLinks ==
  ASSUME NEW h \in Handlers, Ends(h)
  PROVE  Moved(h) /\ FlowLinks(req'[h]) /\ HeldLinks(req'[h])
BY IdleType DEF Ends

LEMMA HandleLinks ==
  ASSUME TypeInv, NEW h \in Handlers, Handle(h)
  PROVE  Moved(h) /\ FlowLinks(req'[h]) /\ HeldLinks(req'[h])
<1>. FlowLinks(req[h]) /\ HeldLinks(req[h])
  BY DEF TypeInv
<1>1. CASE \/ LoginReadEpoch(h)
           \/ \E p \in Proofs, t \in Tokens : Challenge(h, t, p)
           \/ \E p \in TotpCodes \cup {None}, flow \in Submitted : Submit(h, flow, p)
           \/ Reencrypt(h)
  BY <1>1, BeginOutline DEF Advances, SameFlow, SameHeld, FlowLinks, HeldLinks, Guarded, Verifying, Changing, Locking, Rewriting, Submitted
<1>2. CASE LoginStoreTemp(h)
  BY <1>2, LoginStoreOutline, EndsLinks DEF Advances, SameFlow, SameHeld, FlowLinks, HeldLinks, Guarded, Verifying, Changing, Locking, Rewriting, Submitted
<1>3. CASE ChallengeCheckEpoch(h)
  BY <1>3, CheckEpochOutline, EndsLinks DEF Advances, SameFlow, SameHeld, FlowLinks, HeldLinks, Guarded, Verifying, Changing, Locking, Rewriting, Submitted
<1>4. CASE Fetch(h)
  BY <1>4, FetchOutline, EndsLinks DEF Fetched, TypeInv, TypeOK, Advances, SameFlow, SameHeld, FlowLinks, HeldLinks, Guarded, Verifying, Changing, Locking, Rewriting, Submitted
<1>5. CASE Lockout(h)
  BY <1>5, LockoutOutline, EndsLinks DEF Advances, SameFlow, SameHeld, FlowLinks, HeldLinks, Guarded, Verifying, Changing, Locking, Rewriting, Submitted
<1>6. CASE Compare(h)
  BY <1>6, CompareOutline, EndsLinks DEF Refused, Advances, SameFlow, SameHeld, FlowLinks, HeldLinks, Guarded, Verifying, Changing, Locking, Rewriting, Submitted
<1>7. CASE VerifyTotp(h)
  <2>1. /\ req[h].pc = "verify" /\ req[h].flow \in Verifying
        /\ \/ Refused(h) \/ Accepted(h)
           \/ /\ req[h].proof \in TotpCodes
              /\ Moved(h) /\ SameFlow(h) /\ req'[h].pc = "verifyLegacy"
              /\ req'[h].user = req[h].user /\ req'[h].data = req[h].data
    BY <1>7, VerifyTotpOutline DEF MarkedNow
  <2>2. CASE Refused(h)
    BY <2>1, <2>2, EndsLinks DEF Refused, Advances, SameFlow, SameHeld, FlowLinks, HeldLinks, Guarded, Verifying, Changing, Locking, Rewriting, Submitted
  <2>3. CASE Accepted(h)
    BY <2>1, <2>3 DEF Accepted, Advances, SameFlow, SameHeld, FlowLinks, HeldLinks, Guarded, Verifying, Changing, Locking, Rewriting, Submitted
  <2>4. CASE /\ req[h].proof \in TotpCodes
             /\ Moved(h) /\ SameFlow(h) /\ req'[h].pc = "verifyLegacy"
             /\ req'[h].user = req[h].user /\ req'[h].data = req[h].data
    BY <2>1, <2>4 DEF SameFlow, FlowLinks, HeldLinks, Guarded, Verifying, Changing, Locking, Rewriting, Submitted
  <2>. QED
    BY <2>1, <2>2, <2>3, <2>4
<1>8. CASE VerifyLegacy(h)
  <2>1. /\ req[h].pc = "verifyLegacy" /\ req[h].flow \in Verifying
        /\ Refused(h) \/ Accepted(h)
    BY <1>8, VerifyLegacyOutline
  <2>2. CASE Refused(h)
    BY <2>1, <2>2, EndsLinks DEF Refused, Advances, SameFlow, SameHeld, FlowLinks, HeldLinks, Guarded, Verifying, Changing, Locking, Rewriting, Submitted
  <2>3. CASE Accepted(h)
    BY <2>1, <2>3 DEF Accepted, Advances, SameFlow, SameHeld, FlowLinks, HeldLinks, Guarded, Verifying, Changing, Locking, Rewriting, Submitted
  <2>. QED
    BY <2>1, <2>2, <2>3
<1>9. CASE VerifyRecovery(h)
  BY <1>9, VerifyRecoveryOutline, EndsLinks DEF Refused, Advances, SameFlow, SameHeld, FlowLinks, HeldLinks, Guarded, Verifying, Changing, Locking, Rewriting, Submitted
<1>10. CASE Fail(h)
  BY <1>10, FailOutline, EndsLinks DEF Advances, SameFlow, SameHeld, FlowLinks, HeldLinks, Guarded, Verifying, Changing, Locking, Rewriting, Submitted
<1>11. CASE Clear(h)
  <2>1. /\ req[h].pc = "clear" /\ req[h].flow \in Guarded
        /\ \/ req[h].flow = "challenge" /\ Advances(h, "clear", "consume")
           \/ req[h].flow = "setup" /\ Advances(h, "clear", "setupRead")
           \/ /\ Moved(h) /\ req'[h].pc = "lock" /\ req'[h].flow = req[h].flow
              /\ req[h].flow \in {"disable", "regenerate"}
    BY <1>11, ClearOutline
  <2>2. CASE req[h].flow = "challenge" /\ Advances(h, "clear", "consume")
    BY <2>2 DEF Advances, SameFlow, SameHeld, FlowLinks, HeldLinks, Guarded, Verifying, Changing, Locking, Rewriting, Submitted
  <2>3. CASE req[h].flow = "setup" /\ Advances(h, "clear", "setupRead")
    BY <2>3 DEF Advances, SameFlow, SameHeld, FlowLinks, HeldLinks, Guarded, Verifying, Changing, Locking, Rewriting, Submitted
  <2>4. CASE /\ Moved(h) /\ req'[h].pc = "lock" /\ req'[h].flow = req[h].flow
             /\ req[h].flow \in {"disable", "regenerate"}
    BY <2>4 DEF FlowLinks, HeldLinks, Guarded, Verifying, Changing, Locking, Rewriting, Submitted
  <2>. QED
    BY <2>1, <2>2, <2>3, <2>4
<1>12. CASE Consume(h)
  BY <1>12, ConsumeOutline, EndsLinks DEF Advances, SameFlow, SameHeld, FlowLinks, HeldLinks, Guarded, Verifying, Changing, Locking, Rewriting, Submitted
<1>13. CASE SetupRead(h)
  <2>1. CASE Ends(h)
    BY <2>1, EndsLinks
  <2>2. CASE Prepared(h)
    <3>1. /\ Moved(h) /\ req'[h].pc = "setupClaim" /\ req'[h].flow = "setup"
          /\ req'[h].data.secret # None
      BY <1>13, <2>2, SetupReadOutline, MfaAssumption DEF Prepared, SameFlow
    <3>. QED
      BY <3>1 DEF FlowLinks, HeldLinks, Guarded, Verifying, Changing, Locking, Submitted
  <2>. QED
    BY <1>13, <2>1, <2>2, SetupReadOutline
<1>14. CASE SetupClaim(h)
  BY <1>14, SetupClaimOutline, EndsLinks DEF Advances, SameFlow, SameHeld, FlowLinks, HeldLinks, Guarded, Verifying, Changing, Locking, Rewriting, Submitted
<1>15. CASE SetupReread(h)
  BY <1>15, RereadOutline, EndsLinks DEF Advances, SameFlow, SameHeld, FlowLinks, HeldLinks, Guarded, Verifying, Changing, Locking, Rewriting, Submitted
<1>16. CASE SetupStore(h)
  BY <1>16, SetupStoreOutline, EndsLinks DEF Advances, SameFlow, SameHeld, FlowLinks, HeldLinks, Guarded, Verifying, Changing, Locking, Rewriting, Submitted
<1>17. CASE EnableRead(h)
  BY <1>17, EnableReadOutline, EndsLinks DEF TypeInv, Advances, SameFlow, SameHeld, FlowLinks, HeldLinks, Guarded, Verifying, Changing, Locking, Rewriting, Submitted
<1>18. CASE EnableTake(h)
  BY <1>18, EnableTakeOutline, EndsLinks DEF Advances, SameFlow, SameHeld, FlowLinks, HeldLinks, Guarded, Verifying, Changing, Locking, Rewriting, Submitted
<1>19. CASE TakeScoped(h)
  BY <1>19, TakeScopedOutline, EndsLinks DEF Advances, SameFlow, SameHeld, FlowLinks, HeldLinks, Guarded, Verifying, Changing, Locking, Rewriting, Submitted
<1>20. CASE TakeLegacy(h)
  BY <1>20, TakeLegacyOutline, EndsLinks DEF Advances, SameFlow, SameHeld, FlowLinks, HeldLinks, Guarded, Verifying, Changing, Locking, Rewriting, Submitted
<1>21. CASE Rollback(h)
  BY <1>21, RollbackOutline, EndsLinks DEF Advances, SameFlow, SameHeld, FlowLinks, HeldLinks, Guarded, Verifying, Changing, Locking, Rewriting, Submitted
<1>22. CASE TransitionRead(h)
  BY <1>22, TransitionReadOutline, EndsLinks DEF Advances, SameFlow, SameHeld, FlowLinks, HeldLinks, Guarded, Verifying, Changing, Locking, Rewriting, Submitted
<1>23. CASE TransitionWrite(h)
  BY <1>23, TransitionWriteOutline, EndsLinks DEF Advances, SameFlow, SameHeld, FlowLinks, HeldLinks, Guarded, Verifying, Changing, Locking, Rewriting, Submitted
<1>24. CASE Unlock(h)
  BY <1>24, UnlockOutline, EndsLinks DEF Leaves, Advances, SameFlow, SameHeld, FlowLinks, HeldLinks, Guarded, Verifying, Changing, Locking, Rewriting, Submitted
<1>25. CASE UnlockLegacy(h)
  BY <1>25, UnlockLegacyOutline, EndsLinks DEF Leaves, Advances, SameFlow, SameHeld, FlowLinks, HeldLinks, Guarded, Verifying, Changing, Locking, Rewriting, Submitted
<1>26. CASE Bump(h)
  BY <1>26, BumpOutline, EndsLinks DEF Advances, SameFlow, SameHeld, FlowLinks, HeldLinks, Guarded, Verifying, Changing, Locking, Rewriting, Submitted
<1>27. CASE Issue(h)
  BY <1>27, IssueOutline, EndsLinks DEF Advances, SameFlow, SameHeld, FlowLinks, HeldLinks, Guarded, Verifying, Changing, Locking, Rewriting, Submitted
<1>. QED
  BY <1>1, <1>2, <1>3, <1>4, <1>5, <1>6, <1>7, <1>8, <1>9, <1>10, <1>11, <1>12, <1>13, <1>14, <1>15, <1>16, <1>17, <1>18, <1>19, <1>20, <1>21, <1>22, <1>23, <1>24, <1>25, <1>26, <1>27 DEF Handle

Settled ==
  /\ rec' \in Record /\ Whole(rec') /\ redis' \in Redis /\ seen' \in History
  /\ redis'.setup # None => redis'.setup.secret # None
  /\ jobs' \in SUBSET Secrets /\ now' \in Nat /\ starts' \in Nat

LEMMA HandleSettled ==
  ASSUME TypeInv, NEW h \in Handlers, Handle(h)
  PROVE  Settled
<1>. /\ rec \in Record /\ Whole(rec) /\ redis \in Redis /\ seen \in History
     /\ redis.setup # None => redis.setup.secret # None
     /\ jobs \in SUBSET Secrets /\ now \in Nat /\ starts \in Nat /\ HeldLinks(req[h])
  BY DEF TypeInv, TypeOK, Whole
<1>1. CASE \/ LoginReadEpoch(h)
           \/ \E p \in Proofs, t \in Tokens : Challenge(h, t, p)
           \/ \E p \in TotpCodes \cup {None}, flow \in Submitted : Submit(h, flow, p)
           \/ Reencrypt(h)
  BY <1>1, BeginOutline DEF Settled
<1>2. CASE LoginStoreTemp(h)
  BY <1>2, LoginStoreOutline DEF Settled, KeysBut, SeenBut, LoginStoreTemp
<1>3. CASE ChallengeCheckEpoch(h)
  BY <1>3, CheckEpochOutline DEF Settled, KeysBut, SeenBut, ChallengeCheckEpoch
<1>4. CASE Fetch(h)
  BY <1>4, FetchOutline DEF Settled, KeysBut, SeenBut, Fetched, Fetch
<1>5. CASE Lockout(h)
  BY <1>5, LockoutOutline DEF Settled, KeysBut, SeenBut, Lockout
<1>6. CASE Compare(h)
  BY <1>6, CompareOutline DEF Settled, KeysBut, SeenBut, Refused, Compare
<1>7. CASE VerifyTotp(h)
  BY <1>7, VerifyTotpOutline DEF Settled, KeysBut, SeenBut, Refused, Accepted, MarkedNow, VerifyTotp
<1>8. CASE VerifyLegacy(h)
  BY <1>8, VerifyLegacyOutline DEF Settled, KeysBut, SeenBut, Refused, Accepted, MarkedNow, VerifyLegacy
<1>9. CASE VerifyRecovery(h)
  BY <1>9, VerifyRecoveryOutline DEF Settled, KeysBut, SeenBut, Refused, VerifyRecovery
<1>10. CASE Fail(h)
  BY <1>10, FailOutline DEF Settled, KeysBut, SeenBut, Fail
<1>11. CASE Clear(h)
  BY <1>11, ClearOutline DEF Settled, KeysBut, SeenBut, Clear
<1>12. CASE Consume(h)
  BY <1>12, ConsumeOutline DEF Settled, KeysBut, SeenBut, Consume
<1>13. CASE SetupRead(h)
  BY <1>13, SetupReadOutline DEF Settled, KeysBut, SeenBut, Prepared, SetupRead
<1>14. CASE SetupClaim(h)
  BY <1>14, SetupClaimOutline DEF Settled, KeysBut, SeenBut, SetupClaim, HeldLinks
<1>15. CASE SetupReread(h)
  BY <1>15, RereadOutline DEF Settled, KeysBut, SeenBut, SetupReread
<1>16. CASE SetupStore(h)
  BY <1>16, SetupStoreOutline DEF Settled, KeysBut, SeenBut, SetupStore, HeldLinks
<1>17. CASE EnableRead(h)
  BY <1>17, EnableReadOutline DEF Settled, KeysBut, SeenBut, EnableRead
<1>18. CASE EnableTake(h)
  BY <1>18, EnableTakeOutline DEF Settled, KeysBut, SeenBut, EnableTake
<1>19. CASE TakeScoped(h)
  BY <1>19, TakeScopedOutline DEF Settled, KeysBut, SeenBut, TakeScoped
<1>20. CASE TakeLegacy(h)
  BY <1>20, TakeLegacyOutline DEF Settled, KeysBut, SeenBut, TakeLegacy
<1>21. CASE Rollback(h)
  BY <1>21, RollbackOutline DEF Settled, KeysBut, SeenBut, Frees, Forgets, Rollback
<1>22. CASE TransitionRead(h)
  BY <1>22, TransitionReadOutline DEF Settled, KeysBut, SeenBut, TransitionRead
<1>23. CASE TransitionWrite(h)
  BY <1>23, TransitionWriteOutline DEF Settled, KeysBut, SeenBut, Written, TransitionWrite
<1>24. CASE Unlock(h)
  BY <1>24, UnlockOutline DEF Settled, KeysBut, SeenBut, Frees, Leaves, Forgets, Unlock
<1>25. CASE UnlockLegacy(h)
  BY <1>25, UnlockLegacyOutline DEF Settled, KeysBut, SeenBut, Frees, Leaves, Forgets, UnlockLegacy
<1>26. CASE Bump(h)
  BY <1>26, BumpOutline DEF Settled, KeysBut, SeenBut, Bump
<1>27. CASE Issue(h)
  BY <1>27, IssueOutline DEF Settled, KeysBut, SeenBut, Issue
<1>. QED
  BY <1>1, <1>2, <1>3, <1>4, <1>5, <1>6, <1>7, <1>8, <1>9, <1>10, <1>11, <1>12, <1>13, <1>14, <1>15, <1>16, <1>17, <1>18, <1>19, <1>20, <1>21, <1>22, <1>23, <1>24, <1>25, <1>26, <1>27 DEF Handle

LEMMA LapseSettled ==
  ASSUME TypeInv, Lapse
  PROVE  Settled
<1>. /\ rec \in Record /\ Whole(rec) /\ redis \in Redis /\ seen \in History
     /\ redis.setup # None => redis.setup.secret # None
     /\ jobs \in SUBSET Secrets /\ now \in Nat /\ starts \in Nat
  BY DEF TypeInv, TypeOK, Whole
<1>1. CASE SetupLapses
  BY <1>1, SetupLapsesOutline DEF Settled, KeysBut, SeenBut, SetupLapses
<1>2. ASSUME NEW k \in Keys, LockLapses(k)
      PROVE  Settled
  BY <1>2, LockLapsesOutline DEF Settled, KeysBut, SeenBut, LockLapses
<1>3. ASSUME NEW c \in Codes, ClaimLapses(c)
      PROVE  Settled
  BY <1>3, ClaimLapsesOutline DEF Settled, KeysBut, SeenBut, ClaimLapses
<1>4. ASSUME NEW t \in Tokens, TempLapses(t)
      PROVE  Settled
  BY <1>4, TempLapsesOutline DEF Settled, KeysBut, SeenBut, TempLapses
<1>5. ASSUME NEW c \in Counters, CounterLapses(c)
      PROVE  Settled
  BY <1>5, CounterLapsesOutline DEF Settled, KeysBut, SeenBut, CounterLapses
<1>. QED
  BY <1>1, <1>2, <1>3, <1>4, <1>5 DEF Lapse

LEMMA LapseIdles ==
  ASSUME Lapse
  PROVE  req' = req /\ rec' = rec /\ jobs' = jobs /\ now' = now /\ starts' = starts
BY DEF Lapse, SetupLapses, LockLapses, ClaimLapses, TempLapses, CounterLapses

LEMMA TypeStep ==
  ASSUME TypeInv, Next
  PROVE  TypeInv'
<1>1. mix' = mix /\ Redis' = Redis /\ History' = History
  BY DEF Next, Redis, History, Keys
<1>2. CASE \E h \in Handlers : Handle(h)
  <2>1. PICK h \in Handlers : Handle(h)
    BY <1>2
  <2>2. Settled /\ Moved(h) /\ FlowLinks(req'[h]) /\ HeldLinks(req'[h])
    BY <2>1, HandleSettled, HandleLinks
  <2>3. \A g \in Handlers : FlowLinks(req'[g]) /\ HeldLinks(req'[g])
    <3>. SUFFICES ASSUME NEW g \in Handlers PROVE FlowLinks(req'[g]) /\ HeldLinks(req'[g])
      OBVIOUS
    <3>1. CASE g = h
      BY <2>2, <3>1
    <3>2. CASE g # h
      <4>1. req'[g] = req[g] /\ FlowLinks(req[g]) /\ HeldLinks(req[g])
        BY <2>2, <3>2 DEF Moved, TypeInv
      <4>. QED
        BY <4>1
    <3>. QED
      BY <3>1, <3>2
  <2>. QED
    BY <1>1, <2>2, <2>3 DEF Settled, Moved, Whole, TypeInv, TypeOK
<1>3. CASE Lapse
  BY <1>1, <1>3, LapseSettled, LapseIdles DEF Settled, Whole, TypeInv, TypeOK
<1>4. CASE Tick
  <2>1. now' \in Nat
    BY <1>4 DEF Tick, TypeInv, TypeOK
  <2>. QED
    BY <1>1, <1>4, <2>1 DEF Tick, TypeInv, TypeOK
<1>5. CASE Rest
  BY <1>1, <1>5 DEF Rest, TypeInv, TypeOK
<1>. QED
  BY <1>2, <1>3, <1>4, <1>5 DEF Next

-----------------------------------------------------------------------------
(* The locks are kept, or known to have been lost *)

Begun(h) ==
  \/ LoginReadEpoch(h)
  \/ \E p \in Proofs, t \in Tokens : Challenge(h, t, p)
  \/ \E p \in TotpCodes \cup {None}, flow \in Submitted : Submit(h, flow, p)
  \/ Reencrypt(h)

LEMMA BegunOutline ==
  ASSUME TypeInv, NEW h \in Handlers, Begun(h)
  PROVE  /\ Moved(h) /\ req[h].pc = "idle" /\ rec' = rec /\ redis' = redis /\ seen' = seen
         /\ jobs' \subseteq jobs /\ now' = now /\ starts' \in Nat
         /\ \/ req'[h].pc = "temp" /\ req'[h].flow = "login"
            \/ /\ req'[h].pc = "epoch" /\ req'[h].flow = "challenge"
               /\ req'[h].proof \in Proofs /\ req'[h].token \in Tokens
               /\ redis.temp[req'[h].token] # None
            \/ /\ req'[h].pc = "fetch" /\ req'[h].flow \in Submitted
               /\ req'[h].flow \in {"enable", "disable", "regenerate"} => req'[h].proof \in TotpCodes
            \/ /\ req'[h].pc = "lock" /\ req'[h].flow = "reencrypt"
               /\ req'[h].user.secret # None
BY BeginOutline DEF Begun

(* Where h goes, of the steps that change much else. *)
LEMMA VerifyTotpMoves ==
  ASSUME TypeInv, NEW h \in Handlers, VerifyTotp(h)
  PROVE  /\ req[h].pc = "verify" /\ req[h].flow \in Verifying
         /\ \/ req[h].flow = "enable" /\ (Ends(h) \/ Advances(h, "verify", "enableTake"))
            \/ /\ req[h].flow \in Guarded
               /\ Advances(h, "verify", "fail") \/ Advances(h, "verify", "clear")
            \/ Moved(h) /\ SameFlow(h) /\ req'[h].pc = "verifyLegacy"
<1>1. req[h].pc = "verify" /\ req[h].flow \in Verifying
  BY VerifyTotpOutline
<1>2. \/ Refused(h) \/ Accepted(h)
      \/ Moved(h) /\ SameFlow(h) /\ req'[h].pc = "verifyLegacy"
  BY VerifyTotpOutline
<1>. QED
  BY <1>1, <1>2 DEF Refused, Accepted

LEMMA VerifyLegacyMoves ==
  ASSUME TypeInv, NEW h \in Handlers, VerifyLegacy(h)
  PROVE  /\ req[h].pc = "verifyLegacy" /\ req[h].flow \in Verifying
         /\ \/ req[h].flow = "enable" /\ (Ends(h) \/ Advances(h, "verifyLegacy", "enableTake"))
            \/ /\ req[h].flow \in Guarded
               /\ Advances(h, "verifyLegacy", "fail") \/ Advances(h, "verifyLegacy", "clear")
<1>1. req[h].pc = "verifyLegacy" /\ req[h].flow \in Verifying
  BY VerifyLegacyOutline
<1>2. Refused(h) \/ Accepted(h)
  BY VerifyLegacyOutline
<1>. QED
  BY <1>1, <1>2 DEF Refused, Accepted

LEMMA FailMoves ==
  ASSUME TypeInv, NEW h \in Handlers, Fail(h)
  PROVE  req[h].pc = "fail" /\ Ends(h)
BY FailOutline

LEMMA TakeScopedMoves ==
  ASSUME TypeInv, NEW h \in Handlers, TakeScoped(h)
  PROVE  /\ req[h].pc = "lock"
         /\ Ends(h) \/ Advances(h, "lock", "lockLegacy") \/ Advances(h, "lock", "read")
BY TakeScopedOutline

LEMMA ClearMoves ==
  ASSUME TypeInv, NEW h \in Handlers, Clear(h)
  PROVE  /\ req[h].pc = "clear" /\ req[h].flow \in Guarded
         /\ \/ req[h].flow = "challenge" /\ Advances(h, "clear", "consume")
            \/ req[h].flow = "setup" /\ Advances(h, "clear", "setupRead")
            \/ /\ Moved(h) /\ req'[h].pc = "lock" /\ req'[h].flow = req[h].flow
               /\ req[h].flow \in {"disable", "regenerate"}
BY ClearOutline

LEMMA ConsumeMoves ==
  ASSUME TypeInv, NEW h \in Handlers, Consume(h)
  PROVE  /\ req[h].pc = "consume" /\ req[h].flow = "challenge"
         /\ \/ Ends(h)
            \/ Advances(h, "consume", "lock") /\ req[h].proof \in Codes
            \/ Moved(h) /\ SameFlow(h) /\ req'[h].pc = "issue" /\ req[h].proof \notin Codes
BY ConsumeOutline

(* h is at no lock and takes none, or goes from the read to the write. *)
LocksApart(h) ==
  /\ Moved(h) /\ redis'.lock = redis.lock /\ seen'.overran = seen.overran
  /\ req'[h].pc \notin {"lockLegacy", "read"}
  /\ req'[h].pc = "write" => req[h].pc = "read"

LEMMA LockClasses ==
  ASSUME TypeInv, NEW h \in Handlers, Handle(h)
  PROVE  LocksApart(h) \/ TakeScoped(h) \/ TakeLegacy(h) \/ Rollback(h) \/ Unlock(h) \/
         UnlockLegacy(h)
<1>1. CASE Begun(h)
  BY <1>1, BegunOutline DEF LocksApart
<1>2. CASE LoginStoreTemp(h)
  BY <1>2, LoginStoreOutline DEF LocksApart, Ends, Idle, Advances, SameFlow, SameHeld, KeysBut, SeenBut
<1>3. CASE ChallengeCheckEpoch(h)
  BY <1>3, CheckEpochOutline DEF LocksApart, Ends, Idle, Advances, SameFlow, SameHeld, KeysBut, SeenBut, ChallengeCheckEpoch, At
<1>4. CASE Fetch(h)
  BY <1>4, FetchOutline DEF LocksApart, Fetched, Ends, Idle, Advances, SameFlow, SameHeld, KeysBut, SeenBut, Fetch, At
<1>5. CASE Lockout(h)
  BY <1>5, LockoutOutline DEF LocksApart, Ends, Idle, Advances, SameFlow, SameHeld, KeysBut, SeenBut, Lockout, At
<1>6. CASE Compare(h)
  BY <1>6, CompareOutline DEF LocksApart, Refused, Ends, Idle, Advances, SameFlow, SameHeld, KeysBut, SeenBut
<1>7. CASE VerifyTotp(h)
  <2>1. redis'.lock = redis.lock /\ seen'.overran = seen.overran
    BY <1>7, VerifyTotpOutline DEF Refused, Accepted, MarkedNow, KeysBut, SeenBut
  <2>2. Moved(h) /\ req'[h].pc \notin {"lockLegacy", "read", "write"}
    BY <1>7, VerifyTotpMoves DEF Ends, Idle, Advances, SameFlow
  <2>. QED
    BY <2>1, <2>2 DEF LocksApart
<1>8. CASE VerifyLegacy(h)
  <2>1. redis'.lock = redis.lock /\ seen'.overran = seen.overran
    BY <1>8, VerifyLegacyOutline DEF Refused, Accepted, MarkedNow, KeysBut, SeenBut
  <2>2. Moved(h) /\ req'[h].pc \notin {"lockLegacy", "read", "write"}
    BY <1>8, VerifyLegacyMoves DEF Ends, Idle, Advances, SameFlow
  <2>. QED
    BY <2>1, <2>2 DEF LocksApart
<1>9. CASE VerifyRecovery(h)
  BY <1>9, VerifyRecoveryOutline DEF LocksApart, Refused, Ends, Idle, Advances, SameFlow, SameHeld, KeysBut, SeenBut
<1>10. CASE Fail(h)
  <2>1. redis'.lock = redis.lock /\ seen'.overran = seen.overran
    BY <1>10, FailOutline DEF KeysBut, SeenBut
  <2>2. Moved(h) /\ req'[h].pc \notin {"lockLegacy", "read", "write"}
    BY <1>10, FailMoves DEF Ends, Idle, Advances, SameFlow
  <2>. QED
    BY <2>1, <2>2 DEF LocksApart
<1>11. CASE Clear(h)
  BY <1>11, ClearOutline DEF LocksApart, Ends, Idle, Advances, SameFlow, SameHeld, KeysBut, SeenBut
<1>12. CASE Consume(h)
  <2>1. redis'.lock = redis.lock /\ seen'.overran = seen.overran
    BY <1>12, ConsumeOutline DEF KeysBut, SeenBut
  <2>2. Moved(h) /\ req'[h].pc \notin {"lockLegacy", "read", "write"}
    BY <1>12, ConsumeMoves DEF Ends, Idle, Advances, SameFlow
  <2>. QED
    BY <2>1, <2>2 DEF LocksApart
<1>13. CASE SetupRead(h)
  BY <1>13, SetupReadOutline DEF LocksApart, Prepared, Ends, Idle, Advances, SameFlow, SameHeld, KeysBut, SeenBut, SetupRead, At
<1>14. CASE SetupClaim(h)
  BY <1>14, SetupClaimOutline DEF LocksApart, Ends, Idle, Advances, SameFlow, SameHeld, KeysBut, SeenBut
<1>15. CASE SetupReread(h)
  BY <1>15, RereadOutline DEF LocksApart, Ends, Idle, Advances, SameFlow, SameHeld, KeysBut, SeenBut, SetupReread, At
<1>16. CASE SetupStore(h)
  BY <1>16, SetupStoreOutline DEF LocksApart, Ends, Idle, Advances, SameFlow, SameHeld, KeysBut, SeenBut
<1>17. CASE EnableRead(h)
  BY <1>17, EnableReadOutline DEF LocksApart, Ends, Idle, Advances, SameFlow, SameHeld, KeysBut, SeenBut, EnableRead, At
<1>18. CASE EnableTake(h)
  BY <1>18, EnableTakeOutline DEF LocksApart, Ends, Idle, Advances, SameFlow, SameHeld, KeysBut, SeenBut
<1>19. CASE TransitionRead(h)
  BY <1>19, TransitionReadOutline DEF LocksApart, Ends, Idle, Advances, SameFlow, SameHeld, KeysBut, SeenBut
<1>20. CASE TransitionWrite(h)
  BY <1>20, TransitionWriteOutline DEF LocksApart, Written, Ends, Idle, Advances, SameFlow, SameHeld, KeysBut, SeenBut
<1>21. CASE Bump(h)
  BY <1>21, BumpOutline DEF LocksApart, Ends, Idle, Advances, SameFlow, SameHeld, KeysBut, SeenBut
<1>22. CASE Issue(h)
  BY <1>22, IssueOutline DEF LocksApart, Ends, Idle, Advances, SameFlow, SameHeld, KeysBut, SeenBut, Issue, At
<1>. QED
  BY <1>1, <1>2, <1>3, <1>4, <1>5, <1>6, <1>7, <1>8, <1>9, <1>10, <1>11, <1>12, <1>13, <1>14, <1>15, <1>16, <1>17, <1>18, <1>19, <1>20, <1>21, <1>22 DEF Handle, Begun

(* No step takes a lock from another, nor forgets that it was lost. *)
LEMMA OthersKeep ==
  ASSUME TypeInv, NEW h \in Handlers, Handle(h), NEW g \in Handlers, g # h, NEW k \in Keys, Kept(g, k)
  PROVE  Kept(g, k)'
<1>. redis.lock \in [Keys -> Handlers \cup {None}] /\ "scoped" \in Keys /\ None \notin Handlers
  BY MfaAssumption DEF TypeInv, TypeOK, Redis, Keys
<1>1. CASE LocksApart(h)
  BY <1>1 DEF LocksApart, Kept
<1>2. CASE TakeScoped(h)
  BY <1>2, TakeScopedOutline DEF Kept
<1>3. CASE TakeLegacy(h)
  BY <1>3, TakeLegacyOutline DEF Kept
<1>4. ASSUME NEW l \in {"scoped", "legacy"}, Frees(h, l), Forgets(h) \/ seen' = seen
      PROVE  Kept(g, k)'
  <2>1. redis.lock[k] = g => redis'.lock[k] = g
    BY <1>4 DEF Frees, Released, Holds
  <2>2. <<g, k>> \in seen.overran => <<g, k>> \in seen'.overran
    BY <1>4 DEF Forgets
  <2>. QED
    BY <2>1, <2>2 DEF Kept
<1>5. CASE Rollback(h)
  BY <1>4, <1>5, RollbackOutline
<1>6. CASE Unlock(h)
  BY <1>4, <1>6, UnlockOutline DEF Leaves
<1>7. CASE UnlockLegacy(h)
  BY <1>4, <1>7, UnlockLegacyOutline DEF Leaves
<1>. QED
  BY <1>1, <1>2, <1>3, <1>5, <1>6, <1>7, LockClasses

LEMMA OwnHold ==
  ASSUME TypeInv, NEW h \in Handlers, Handle(h), HoldLinks(h), mix' = mix
  PROVE  HoldLinks(h)'
<1>. redis.lock \in [Keys -> Handlers \cup {None}] /\ "scoped" \in Keys /\ Keys' = Keys
  BY DEF TypeInv, TypeOK, Redis, Keys
<1>1. CASE LocksApart(h)
  <2>1. \A k \in Keys : Kept(h, k)' <=> Kept(h, k)
    BY <1>1 DEF LocksApart, Kept
  <2>. QED
    BY <1>1, <2>1 DEF LocksApart, HoldLinks
<1>2. CASE TakeScoped(h)
  <2>1. CASE Ends(h)
    BY <2>1 DEF Ends, Idle, HoldLinks
  <2>2. CASE ~Ends(h)
    <3>1. /\ redis'.lock = [redis.lock EXCEPT !["scoped"] = h]
          /\ \/ req'[h].pc = "lockLegacy"
             \/ "legacy" \notin Keys /\ req'[h].pc = "read"
      BY <1>2, <2>2, TakeScopedOutline DEF Advances
    <3>2. Kept(h, "scoped")'
      BY <3>1 DEF Kept
    <3>3. \A k \in Keys : k = "scoped" \/ k = "legacy"
      BY DEF Keys
    <3>. QED
      BY <3>1, <3>2, <3>3 DEF HoldLinks
  <2>. QED
    BY <2>1, <2>2
<1>3. CASE TakeLegacy(h)
  <2>1. CASE req'[h].pc = "rollback"
    BY <2>1 DEF HoldLinks
  <2>2. CASE req'[h].pc # "rollback"
    <3>1. /\ redis'.lock = [redis.lock EXCEPT !["legacy"] = h] /\ seen' = seen
          /\ req'[h].pc = "read" /\ req[h].pc = "lockLegacy"
      BY <1>3, <2>2, TakeLegacyOutline DEF Advances
    <3>2. Kept(h, "scoped")
      BY <3>1 DEF HoldLinks
    <3>3. \A k \in Keys : k = "scoped" \/ k = "legacy"
      BY DEF Keys
    <3>4. \A k \in Keys : Kept(h, k)'
      BY <3>1, <3>2, <3>3 DEF Kept
    <3>. QED
      BY <3>1, <3>4 DEF HoldLinks
  <2>. QED
    BY <2>1, <2>2
<1>4. CASE req'[h].pc \in {"idle", "unlockLegacy", "bump", "issue"}
  BY <1>4 DEF HoldLinks
<1>5. CASE Rollback(h)
  BY <1>4, <1>5, RollbackOutline DEF Ends, Idle
<1>6. CASE Unlock(h)
  BY <1>4, <1>6, UnlockOutline DEF Leaves, Advances, Ends, Idle
<1>7. CASE UnlockLegacy(h)
  BY <1>4, <1>7, UnlockLegacyOutline DEF Leaves, Advances, Ends, Idle
<1>. QED
  BY <1>1, <1>2, <1>3, <1>5, <1>6, <1>7, LockClasses

LEMMA LapseKeeps ==
  ASSUME TypeInv, Lapse, NEW g \in Handlers, NEW k \in Keys, Kept(g, k)
  PROVE  Kept(g, k)'
<1>. redis.lock \in [Keys -> Handlers \cup {None}]
  BY DEF TypeInv, TypeOK, Redis
<1>1. ASSUME NEW l \in Keys, LockLapses(l)
      PROVE  Kept(g, k)'
  BY <1>1, LockLapsesOutline DEF Kept
<1>2. ASSUME redis'.lock = redis.lock, seen'.overran = seen.overran
      PROVE  Kept(g, k)'
  BY <1>2 DEF Kept
<1>3. CASE SetupLapses
  BY <1>2, <1>3, SetupLapsesOutline DEF KeysBut
<1>4. ASSUME NEW c \in Codes, ClaimLapses(c)
      PROVE  Kept(g, k)'
  BY <1>2, <1>4, ClaimLapsesOutline DEF KeysBut, SeenBut
<1>5. ASSUME NEW t \in Tokens, TempLapses(t)
      PROVE  Kept(g, k)'
  BY <1>2, <1>5, TempLapsesOutline DEF KeysBut
<1>6. ASSUME NEW c \in Counters, CounterLapses(c)
      PROVE  Kept(g, k)'
  BY <1>2, <1>6, CounterLapsesOutline DEF KeysBut, SeenBut
<1>. QED
  BY <1>1, <1>3, <1>4, <1>5, <1>6 DEF Lapse

LEMMA HoldStep ==
  ASSUME TypeInv, Next, \A h \in Handlers : HoldLinks(h)
  PROVE  \A h \in Handlers : HoldLinks(h)'
<1>. mix' = mix /\ Keys' = Keys /\ "scoped" \in Keys
  BY DEF Next, Keys
<1>. SUFFICES ASSUME NEW g \in Handlers PROVE HoldLinks(g)'
  OBVIOUS
<1>1. ASSUME req'[g] = req[g], \A k \in Keys : Kept(g, k) => Kept(g, k)'
      PROVE  HoldLinks(g)'
  BY <1>1 DEF HoldLinks
<1>2. CASE \E h \in Handlers : Handle(h)
  <2>1. PICK h \in Handlers : Handle(h)
    BY <1>2
  <2>2. CASE g = h
    BY <2>1, <2>2, OwnHold
  <2>3. CASE g # h
    BY <1>1, <2>1, <2>3, OthersKeep, HandleLinks DEF Moved
  <2>. QED
    BY <2>2, <2>3
<1>3. CASE Lapse
  BY <1>1, <1>3, LapseKeeps, LapseIdles
<1>4. CASE Tick \/ Rest
  BY <1>1, <1>4 DEF Tick, Rest, Kept
<1>. QED
  BY <1>2, <1>3, <1>4 DEF Next

-----------------------------------------------------------------------------
(* A TOTP code is accepted once *)

(* Neither marks nor acceptances move, and h is not between the two marks. *)
MarksApart(h) ==
  /\ Moved(h) /\ redis'.marks = redis.marks /\ seen'.accepted = seen.accepted
  /\ req'[h].pc # "verifyLegacy"

LEMMA MarkClasses ==
  ASSUME TypeInv, NEW h \in Handlers, Handle(h)
  PROVE  MarksApart(h) \/ VerifyTotp(h) \/ VerifyLegacy(h)
<1>1. CASE Begun(h)
  BY <1>1, BegunOutline DEF MarksApart
<1>2. CASE LoginStoreTemp(h)
  BY <1>2, LoginStoreOutline DEF MarksApart, Ends, Idle, Advances, SameFlow, SameHeld, KeysBut, SeenBut
<1>3. CASE ChallengeCheckEpoch(h)
  BY <1>3, CheckEpochOutline DEF MarksApart, Ends, Idle, Advances, SameFlow, SameHeld, KeysBut, SeenBut, ChallengeCheckEpoch, At
<1>4. CASE Fetch(h)
  BY <1>4, FetchOutline DEF MarksApart, Fetched, Ends, Idle, Advances, SameFlow, SameHeld, KeysBut, SeenBut, Fetch, At
<1>5. CASE Lockout(h)
  BY <1>5, LockoutOutline DEF MarksApart, Ends, Idle, Advances, SameFlow, SameHeld, KeysBut, SeenBut, Lockout, At
<1>6. CASE Compare(h)
  BY <1>6, CompareOutline DEF MarksApart, Refused, Ends, Idle, Advances, SameFlow, SameHeld, KeysBut, SeenBut
<1>7. CASE VerifyRecovery(h)
  BY <1>7, VerifyRecoveryOutline DEF MarksApart, Refused, Ends, Idle, Advances, SameFlow, SameHeld, KeysBut, SeenBut
<1>8. CASE Fail(h)
  <2>1. redis'.marks = redis.marks /\ seen'.accepted = seen.accepted
    BY <1>8, FailOutline DEF KeysBut, SeenBut
  <2>2. Moved(h) /\ req'[h].pc # "verifyLegacy"
    BY <1>8, FailMoves DEF Ends, Idle, Advances, SameFlow
  <2>. QED
    BY <2>1, <2>2 DEF MarksApart
<1>9. CASE Clear(h)
  BY <1>9, ClearOutline DEF MarksApart, Ends, Idle, Advances, SameFlow, SameHeld, KeysBut, SeenBut
<1>10. CASE Consume(h)
  <2>1. redis'.marks = redis.marks /\ seen'.accepted = seen.accepted
    BY <1>10, ConsumeOutline DEF KeysBut, SeenBut
  <2>2. Moved(h) /\ req'[h].pc # "verifyLegacy"
    BY <1>10, ConsumeMoves DEF Ends, Idle, Advances, SameFlow
  <2>. QED
    BY <2>1, <2>2 DEF MarksApart
<1>11. CASE SetupRead(h)
  BY <1>11, SetupReadOutline DEF MarksApart, Prepared, Ends, Idle, Advances, SameFlow, SameHeld, KeysBut, SeenBut, SetupRead, At
<1>12. CASE SetupClaim(h)
  BY <1>12, SetupClaimOutline DEF MarksApart, Ends, Idle, Advances, SameFlow, SameHeld, KeysBut, SeenBut
<1>13. CASE SetupReread(h)
  BY <1>13, RereadOutline DEF MarksApart, Ends, Idle, Advances, SameFlow, SameHeld, KeysBut, SeenBut, SetupReread, At
<1>14. CASE SetupStore(h)
  BY <1>14, SetupStoreOutline DEF MarksApart, Ends, Idle, Advances, SameFlow, SameHeld, KeysBut, SeenBut
<1>15. CASE EnableRead(h)
  BY <1>15, EnableReadOutline DEF MarksApart, Ends, Idle, Advances, SameFlow, SameHeld, KeysBut, SeenBut, EnableRead, At
<1>16. CASE EnableTake(h)
  BY <1>16, EnableTakeOutline DEF MarksApart, Ends, Idle, Advances, SameFlow, SameHeld, KeysBut, SeenBut
<1>17. CASE TakeScoped(h)
  <2>1. redis'.marks = redis.marks /\ seen'.accepted = seen.accepted
    BY <1>17, TakeScopedOutline DEF KeysBut, SeenBut
  <2>2. Moved(h) /\ req'[h].pc # "verifyLegacy"
    BY <1>17, TakeScopedMoves DEF Ends, Idle, Advances, SameFlow
  <2>. QED
    BY <2>1, <2>2 DEF MarksApart
<1>18. CASE TakeLegacy(h)
  BY <1>18, TakeLegacyOutline DEF MarksApart, Ends, Idle, Advances, SameFlow, SameHeld, KeysBut, SeenBut
<1>19. CASE Rollback(h)
  BY <1>19, RollbackOutline DEF MarksApart, Frees, Forgets, Ends, Idle, Advances, SameFlow, SameHeld, KeysBut, SeenBut
<1>20. CASE TransitionRead(h)
  BY <1>20, TransitionReadOutline DEF MarksApart, Ends, Idle, Advances, SameFlow, SameHeld, KeysBut, SeenBut
<1>21. CASE TransitionWrite(h)
  BY <1>21, TransitionWriteOutline DEF MarksApart, Written, Ends, Idle, Advances, SameFlow, SameHeld, KeysBut, SeenBut
<1>22. CASE Unlock(h)
  BY <1>22, UnlockOutline DEF MarksApart, Frees, Leaves, Forgets, Ends, Idle, Advances, SameFlow, SameHeld, KeysBut, SeenBut
<1>23. CASE UnlockLegacy(h)
  BY <1>23, UnlockLegacyOutline DEF MarksApart, Frees, Leaves, Forgets, Ends, Idle, Advances, SameFlow, SameHeld, KeysBut, SeenBut
<1>24. CASE Bump(h)
  BY <1>24, BumpOutline DEF MarksApart, Ends, Idle, Advances, SameFlow, SameHeld, KeysBut, SeenBut
<1>25. CASE Issue(h)
  BY <1>25, IssueOutline DEF MarksApart, Ends, Idle, Advances, SameFlow, SameHeld, KeysBut, SeenBut, Issue, At
<1>. QED
  BY <1>1, <1>2, <1>3, <1>4, <1>5, <1>6, <1>7, <1>8, <1>9, <1>10, <1>11, <1>12, <1>13, <1>14, <1>15, <1>16, <1>17, <1>18, <1>19, <1>20, <1>21, <1>22, <1>23, <1>24, <1>25 DEF Handle, Begun

LEMMA TotpQuiet ==
  ASSUME NEW p \in TotpCodes, TotpLinks(p), Covered(p) => Covered(p)',
         seen'.accepted[p] = seen.accepted[p], \A g \in Handlers : Fresh(g, p)' => Fresh(g, p)
  PROVE  TotpLinks(p)'
BY DEF TotpLinks

LEMMA CodeTypes ==
  ASSUME TypeInv, NEW p \in TotpCodes
  PROVE  /\ p[2] \in Nat /\ now \in Nat /\ seen.accepted[p] \in Nat
         /\ \A k \in Keys : redis.marks[k][p] \in Nat
         /\ "scoped" \in Keys
<1>1. p[2] \in Steps
  BY DEF TotpCodes
<1>2. p[2] \in Nat
  BY <1>1, MfaAssumption
<1>. QED
  BY <1>2 DEF TypeInv, TypeOK, Redis, History, Keys

(* While the window admits p, its mark is unexpired only if it covers p. *)
LEMMA MarkCovers ==
  ASSUME TypeInv, NEW p \in TotpCodes, p[2] - now <= Clamped, now - p[2] <= Clamped,
         redis'.marks = Marked("scoped", p)
  PROVE  /\ \A q \in TotpCodes : Covered(q) => Covered(q)'
         /\ IsNew("scoped", p) => ~Covered(p) /\ Covered(p)'
<1>1. /\ p[2] \in Nat /\ now \in Nat /\ Clamped \in Nat /\ redis.marks["scoped"][p] \in Nat
      /\ redis.marks \in [Keys -> [TotpCodes -> Nat]] /\ "scoped" \in Keys
  BY CodeTypes, ClampedType DEF TypeInv, TypeOK, Redis
<1>2. now + ReplayTtl \in Nat /\ now + ReplayTtl > p[2] + Clamped
  BY <1>1 DEF ReplayTtl
<1>3. CASE IsNew("scoped", p)
  <2>1. redis'.marks = [redis.marks EXCEPT !["scoped"][p] = now + ReplayTtl]
    BY <1>3 DEF Marked
  <2>2. /\ redis'.marks["scoped"][p] = now + ReplayTtl
        /\ \A q \in TotpCodes : q # p => redis'.marks["scoped"][q] = redis.marks["scoped"][q]
    <3>. DEFINE v == now + ReplayTtl
    <3>. HIDE DEF v
    <3>1. redis'.marks = [redis.marks EXCEPT !["scoped"] = [redis.marks["scoped"] EXCEPT ![p] = v]]
      BY <2>1 DEF v
    <3>2. redis'.marks["scoped"] = [redis.marks["scoped"] EXCEPT ![p] = v]
      BY <1>1, <3>1
    <3>3. redis.marks["scoped"] \in [TotpCodes -> Nat]
      BY <1>1
    <3>. QED
      BY <3>2, <3>3 DEF v
  <2>3. redis'.marks["scoped"][p] > p[2] + Clamped
    BY <1>2, <2>2
  <2>4. Covered(p)'
    BY <2>3 DEF Covered, Clamped
  <2>5. ~Covered(p)
    BY <1>1, <1>3 DEF IsNew, Covered
  <2>6. ASSUME NEW q \in TotpCodes, q # p, Covered(q)
        PROVE  Covered(q)'
    BY <2>2, <2>6 DEF Covered, Clamped
  <2>. QED
    BY <2>4, <2>5, <2>6
<1>4. CASE ~IsNew("scoped", p)
  <2>1. redis'.marks = redis.marks
    BY <1>4 DEF Marked
  <2>. QED
    BY <1>4, <2>1 DEF Covered, Clamped
<1>. QED
  BY <1>3, <1>4

LEMMA VerifyTotpLinks ==
  ASSUME TypeInv, NEW h \in Handlers, VerifyTotp(h), NEW p \in TotpCodes, TotpLinks(p)
  PROVE  TotpLinks(p)'
<1>0. Moved(h) /\ req[h].pc = "verify"
  BY VerifyTotpMoves DEF Ends, Advances
<1>1. CASE redis' = redis /\ Refused(h)
  <2>1. Covered(p)' <=> Covered(p)
    BY <1>1 DEF Covered, Clamped
  <2>2. req'[h].pc # "verifyLegacy" /\ seen'.accepted = seen.accepted
    BY <1>1 DEF Refused, Ends, Idle, Advances, SeenBut
  <2>3. \A g \in Handlers : Fresh(g, p)' => Fresh(g, p)
    BY <1>0, <2>2 DEF Moved, Fresh
  <2>. QED
    BY <2>1, <2>2, <2>3, TotpQuiet
<1>2. CASE ~(redis' = redis /\ Refused(h))
  <2>0. /\ MarkedNow(h, "scoped")
        /\ req[h].proof[2] - now <= Clamped /\ now - req[h].proof[2] <= Clamped
    BY <1>2, VerifyTotpOutline
  <2>. PICK c \in TotpCodes : c = req[h].proof
    BY <2>0 DEF MarkedNow
  <2>1. c[2] - now <= Clamped /\ now - c[2] <= Clamped
    BY <2>0
  <2>2. c \in TotpCodes /\ redis'.marks = Marked("scoped", c)
    BY <2>0 DEF MarkedNow
  <2>3. /\ \A q \in TotpCodes : Covered(q) => Covered(q)'
        /\ IsNew("scoped", c) => ~Covered(c) /\ Covered(c)'
    BY <2>1, <2>2, MarkCovers
  <2>4. IsNew("scoped", c) => seen.accepted[c] = 0 \/ ~TotpLinks(c)
    BY <2>2, <2>3, CodeTypes DEF TotpLinks
  <2>5. IsNew("scoped", c) /\ TotpLinks(c) => \A g \in Handlers : ~Fresh(g, c)
    BY <2>3 DEF TotpLinks
  <2>6. CASE Refused(h)
    <3>1. req'[h].pc # "verifyLegacy" /\ seen'.accepted = seen.accepted
      BY <2>6 DEF Refused, Ends, Idle, Advances, SeenBut
    <3>2. \A g \in Handlers : Fresh(g, p)' => Fresh(g, p)
      BY <1>0, <3>1 DEF Moved, Fresh
    <3>. QED
      BY <2>3, <3>1, <3>2, TotpQuiet
  <2>7. CASE IsNew("scoped", c) /\ Accepted(h)
    <3>1. req'[h].pc # "verifyLegacy" /\ seen'.accepted = [seen.accepted EXCEPT ![c] = @ + 1]
      BY <2>7 DEF Accepted, Advances
    <3>2. \A g \in Handlers : Fresh(g, p)' => Fresh(g, p)
      BY <1>0, <3>1 DEF Moved, Fresh
    <3>3. seen.accepted \in [TotpCodes -> Nat]
      BY DEF TypeInv, TypeOK, History
    <3>4. CASE p # c
      BY <2>3, <3>1, <3>2, <3>3, <3>4, TotpQuiet
    <3>5. CASE p = c
      <4>1. seen'.accepted[p] = 1
        BY <2>2, <2>4, <2>7, <3>1, <3>3, <3>5
      <4>2. Covered(p)' /\ \A g \in Handlers : ~Fresh(g, p)'
        BY <2>3, <2>5, <2>7, <3>2, <3>5
      <4>. QED
        BY <4>1, <4>2 DEF TotpLinks
    <3>. QED
      BY <3>4, <3>5
  <2>8. CASE /\ req'[h].pc = "verifyLegacy" /\ seen' = seen /\ req'[h].proof = c
             /\ req'[h].outcome = "fresh" => IsNew("scoped", c)
    <3>1. \A g \in Handlers : g # h => (Fresh(g, p)' <=> Fresh(g, p))
      BY <1>0 DEF Moved, Fresh
    <3>2. CASE ~Fresh(h, p)'
      BY <2>3, <2>8, <3>1, <3>2, TotpQuiet
    <3>3. CASE Fresh(h, p)'
      <4>1. p = c /\ IsNew("scoped", c)
        BY <2>8, <3>3 DEF Fresh
      <4>2. Covered(p)' /\ seen'.accepted[p] = 0
        BY <2>3, <2>4, <2>8, <4>1
      <4>3. \A g \in Handlers : Fresh(g, p)' => g = h
        BY <2>5, <3>1, <4>1
      <4>. QED
        BY <4>2, <4>3 DEF TotpLinks
    <3>. QED
      BY <3>2, <3>3
  <2>9. \/ Refused(h)
        \/ IsNew("scoped", c) /\ Accepted(h)
        \/ /\ req'[h].pc = "verifyLegacy" /\ seen' = seen /\ req'[h].proof = c
           /\ req'[h].outcome = "fresh" => IsNew("scoped", c)
    BY <1>2, VerifyTotpOutline DEF SameFlow
  <2>. QED
    BY <2>6, <2>7, <2>8, <2>9
<1>. QED
  BY <1>1, <1>2

LEMMA VerifyLegacyLinks ==
  ASSUME TypeInv, NEW h \in Handlers, VerifyLegacy(h), NEW p \in TotpCodes, TotpLinks(p)
  PROVE  TotpLinks(p)'
<1>1. /\ Moved(h) /\ req[h].pc = "verifyLegacy" /\ req'[h].pc # "verifyLegacy"
  BY VerifyLegacyMoves DEF Ends, Advances, Idle
<1>2. \A g \in Handlers : Fresh(g, p)' => Fresh(g, p) /\ g # h
  BY <1>1 DEF Moved, Fresh
<1>. PICK c \in TotpCodes : c = req[h].proof
  BY VerifyLegacyOutline DEF MarkedNow
<1>3. c \in TotpCodes /\ redis'.marks = Marked("legacy", c)
  BY VerifyLegacyOutline DEF MarkedNow
<1>4. Covered(p) => Covered(p)'
  <2>1. redis.marks \in [Keys -> [TotpCodes -> Nat]] /\ "scoped" \in Keys
    BY DEF TypeInv, TypeOK, Redis, Keys
  <2>2. redis'.marks["scoped"] = redis.marks["scoped"]
    BY <1>3, <2>1 DEF Marked
  <2>. QED
    BY <2>2 DEF Covered, Clamped
<1>5. CASE Refused(h)
  <2>1. seen'.accepted = seen.accepted
    BY <1>5 DEF Refused, SeenBut
  <2>. QED
    BY <1>2, <1>4, <2>1, TotpQuiet
<1>6. CASE req[h].outcome = "fresh" /\ Accepted(h)
  <2>1. /\ seen'.accepted = [seen.accepted EXCEPT ![c] = @ + 1] /\ Fresh(h, c)
        /\ seen.accepted \in [TotpCodes -> Nat]
    BY <1>1, <1>6 DEF Accepted, Fresh, TypeInv, TypeOK, History
  <2>2. CASE p # c
    BY <1>2, <1>3, <1>4, <2>1, <2>2, TotpQuiet
  <2>3. CASE p = c
    <3>1. seen.accepted[p] = 0 /\ Covered(p) /\ \A g \in Handlers : Fresh(g, p) => g = h
      BY <2>1, <2>3 DEF TotpLinks
    <3>2. seen'.accepted[p] = 1
      BY <1>3, <2>1, <2>3, <3>1
    <3>3. \A g \in Handlers : ~Fresh(g, p)'
      BY <1>2, <3>1
    <3>. QED
      BY <1>4, <3>1, <3>2, <3>3 DEF TotpLinks
  <2>. QED
    BY <2>2, <2>3
<1>. QED
  BY <1>5, <1>6, VerifyLegacyOutline

LEMMA LapseMarks ==
  ASSUME TypeInv, Lapse
  PROVE  redis'.marks = redis.marks /\ seen'.accepted = seen.accepted
<1>1. CASE SetupLapses
  BY <1>1, SetupLapsesOutline DEF KeysBut
<1>2. ASSUME NEW k \in Keys, LockLapses(k)
      PROVE  redis'.marks = redis.marks /\ seen'.accepted = seen.accepted
  BY <1>2, LockLapsesOutline DEF KeysBut, SeenBut
<1>3. ASSUME NEW c \in Codes, ClaimLapses(c)
      PROVE  redis'.marks = redis.marks /\ seen'.accepted = seen.accepted
  BY <1>3, ClaimLapsesOutline DEF KeysBut, SeenBut
<1>4. ASSUME NEW t \in Tokens, TempLapses(t)
      PROVE  redis'.marks = redis.marks /\ seen'.accepted = seen.accepted
  BY <1>4, TempLapsesOutline DEF KeysBut
<1>5. ASSUME NEW c \in Counters, CounterLapses(c)
      PROVE  redis'.marks = redis.marks /\ seen'.accepted = seen.accepted
  BY <1>5, CounterLapsesOutline DEF KeysBut, SeenBut
<1>. QED
  BY <1>1, <1>2, <1>3, <1>4, <1>5 DEF Lapse

LEMMA TotpStep ==
  ASSUME TypeInv, Next, NEW p \in TotpCodes, TotpLinks(p)
  PROVE  TotpLinks(p)'
<1>1. ASSUME redis'.marks = redis.marks, seen'.accepted = seen.accepted,
             \A g \in Handlers : Fresh(g, p)' => Fresh(g, p)
      PROVE  TotpLinks(p)'
  <2>1. Covered(p)' <=> Covered(p)
    BY <1>1 DEF Covered, Clamped
  <2>. QED
    BY <1>1, <2>1, TotpQuiet
<1>2. CASE \E h \in Handlers : Handle(h)
  <2>1. PICK h \in Handlers : Handle(h)
    BY <1>2
  <2>2. CASE MarksApart(h)
    BY <1>1, <2>2 DEF MarksApart, Moved, Fresh
  <2>3. CASE VerifyTotp(h)
    BY <2>3, VerifyTotpLinks
  <2>4. CASE VerifyLegacy(h)
    BY <2>4, VerifyLegacyLinks
  <2>. QED
    BY <2>1, <2>2, <2>3, <2>4, MarkClasses
<1>3. CASE Lapse
  BY <1>1, <1>3, LapseMarks, LapseIdles DEF Fresh
<1>4. CASE Tick \/ Rest
  BY <1>1, <1>4 DEF Tick, Rest, Fresh
<1>. QED
  BY <1>2, <1>3, <1>4 DEF Next

-----------------------------------------------------------------------------
(* A challenge token completes one sign-in *)

(* No token is issued, used or deleted. *)
TokensApart(h) ==
  /\ Moved(h) /\ redis'.temp = redis.temp
  /\ seen'.opened = seen.opened /\ seen.drawn \subseteq seen'.drawn
  /\ req'[h].flow = "challenge" =>
       /\ req[h].flow = "challenge" /\ req'[h].token = req[h].token
       /\ req'[h].pc \in Spending => req[h].pc \in Spending

LEMMA TokenClasses ==
  ASSUME TypeInv, NEW h \in Handlers, Handle(h)
  PROVE  TokensApart(h) \/ Begun(h) \/ LoginStoreTemp(h) \/ Consume(h) \/ Issue(h)
<1>1. CASE ChallengeCheckEpoch(h)
  BY <1>1, CheckEpochOutline DEF TokensApart, Spending, Changing, Ends, Idle, Advances, SameFlow, SameHeld, KeysBut, SeenBut, ChallengeCheckEpoch, At
<1>2. CASE Fetch(h)
  BY <1>2, FetchOutline DEF TokensApart, Spending, Changing, Fetched, Ends, Idle, Advances, SameFlow, SameHeld, KeysBut, SeenBut, Fetch, At
<1>3. CASE Lockout(h)
  BY <1>3, LockoutOutline DEF TokensApart, Spending, Changing, Ends, Idle, Advances, SameFlow, SameHeld, KeysBut, SeenBut, Lockout, At
<1>4. CASE Compare(h)
  BY <1>4, CompareOutline DEF TokensApart, Spending, Changing, Refused, Ends, Idle, Advances, SameFlow, SameHeld, KeysBut, SeenBut
<1>5. CASE VerifyTotp(h)
  <2>1. redis'.temp = redis.temp /\ seen'.opened = seen.opened /\ seen.drawn \subseteq seen'.drawn
    BY <1>5, VerifyTotpOutline DEF Refused, Accepted, MarkedNow, KeysBut, SeenBut
  <2>2. Moved(h) /\ (req'[h].flow = "challenge" =>
              /\ req[h].flow = "challenge" /\ req'[h].token = req[h].token
              /\ req'[h].pc \in Spending => req[h].pc \in Spending)
    BY <1>5, VerifyTotpMoves DEF Spending, Changing, Ends, Idle, Advances, SameFlow
  <2>. QED
    BY <2>1, <2>2 DEF TokensApart
<1>6. CASE VerifyLegacy(h)
  <2>1. redis'.temp = redis.temp /\ seen'.opened = seen.opened /\ seen.drawn \subseteq seen'.drawn
    BY <1>6, VerifyLegacyOutline DEF Refused, Accepted, MarkedNow, KeysBut, SeenBut
  <2>2. Moved(h) /\ (req'[h].flow = "challenge" =>
              /\ req[h].flow = "challenge" /\ req'[h].token = req[h].token
              /\ req'[h].pc \in Spending => req[h].pc \in Spending)
    BY <1>6, VerifyLegacyMoves DEF Spending, Changing, Ends, Idle, Advances, SameFlow
  <2>. QED
    BY <2>1, <2>2 DEF TokensApart
<1>7. CASE VerifyRecovery(h)
  BY <1>7, VerifyRecoveryOutline DEF TokensApart, Spending, Changing, Refused, Ends, Idle, Advances, SameFlow, SameHeld, KeysBut, SeenBut
<1>8. CASE Fail(h)
  <2>1. redis'.temp = redis.temp /\ seen'.opened = seen.opened /\ seen.drawn \subseteq seen'.drawn
    BY <1>8, FailOutline DEF KeysBut, SeenBut
  <2>2. Moved(h) /\ (req'[h].flow = "challenge" =>
              /\ req[h].flow = "challenge" /\ req'[h].token = req[h].token
              /\ req'[h].pc \in Spending => req[h].pc \in Spending)
    BY <1>8, FailMoves DEF Spending, Changing, Ends, Idle, Advances, SameFlow
  <2>. QED
    BY <2>1, <2>2 DEF TokensApart
<1>9. CASE Clear(h)
  <2>1. redis'.temp = redis.temp /\ seen'.opened = seen.opened /\ seen.drawn \subseteq seen'.drawn
    BY <1>9, ClearOutline DEF KeysBut, SeenBut
  <2>2. Moved(h) /\ (req'[h].flow = "challenge" =>
              /\ req[h].flow = "challenge" /\ req'[h].token = req[h].token
              /\ req'[h].pc \in Spending => req[h].pc \in Spending)
    BY <1>9, ClearMoves DEF Spending, Changing, Ends, Idle, Advances, SameFlow
  <2>. QED
    BY <2>1, <2>2 DEF TokensApart
<1>10. CASE SetupRead(h)
  BY <1>10, SetupReadOutline DEF TokensApart, Spending, Changing, Prepared, Ends, Idle, Advances, SameFlow, SameHeld, KeysBut, SeenBut, SetupRead, At
<1>11. CASE SetupClaim(h)
  BY <1>11, SetupClaimOutline DEF TokensApart, Spending, Changing, Ends, Idle, Advances, SameFlow, SameHeld, KeysBut, SeenBut
<1>12. CASE SetupReread(h)
  BY <1>12, RereadOutline DEF TokensApart, Spending, Changing, Ends, Idle, Advances, SameFlow, SameHeld, KeysBut, SeenBut, SetupReread, At
<1>13. CASE SetupStore(h)
  BY <1>13, SetupStoreOutline DEF TokensApart, Spending, Changing, Ends, Idle, Advances, SameFlow, SameHeld, KeysBut, SeenBut
<1>14. CASE EnableRead(h)
  BY <1>14, EnableReadOutline DEF TokensApart, Spending, Changing, Ends, Idle, Advances, SameFlow, SameHeld, KeysBut, SeenBut, EnableRead, At
<1>15. CASE EnableTake(h)
  BY <1>15, EnableTakeOutline DEF TokensApart, Spending, Changing, Ends, Idle, Advances, SameFlow, SameHeld, KeysBut, SeenBut
<1>16. CASE TakeScoped(h)
  <2>1. redis'.temp = redis.temp /\ seen'.opened = seen.opened /\ seen.drawn \subseteq seen'.drawn
    BY <1>16, TakeScopedOutline DEF KeysBut, SeenBut
  <2>2. Moved(h) /\ (req'[h].flow = "challenge" =>
              /\ req[h].flow = "challenge" /\ req'[h].token = req[h].token
              /\ req'[h].pc \in Spending => req[h].pc \in Spending)
    BY <1>16, TakeScopedMoves DEF Spending, Changing, Ends, Idle, Advances, SameFlow
  <2>. QED
    BY <2>1, <2>2 DEF TokensApart
<1>17. CASE TakeLegacy(h)
  BY <1>17, TakeLegacyOutline DEF TokensApart, Spending, Changing, Ends, Idle, Advances, SameFlow, SameHeld, KeysBut, SeenBut
<1>18. CASE Rollback(h)
  BY <1>18, RollbackOutline DEF TokensApart, Spending, Changing, Frees, Forgets, Ends, Idle, Advances, SameFlow, SameHeld, KeysBut, SeenBut
<1>19. CASE TransitionRead(h)
  BY <1>19, TransitionReadOutline DEF TokensApart, Spending, Changing, Ends, Idle, Advances, SameFlow, SameHeld, KeysBut, SeenBut
<1>20. CASE TransitionWrite(h)
  BY <1>20, TransitionWriteOutline DEF TokensApart, Spending, Changing, Written, Ends, Idle, Advances, SameFlow, SameHeld, KeysBut, SeenBut
<1>21. CASE Unlock(h)
  BY <1>21, UnlockOutline DEF TokensApart, Spending, Changing, Frees, Leaves, Forgets, Ends, Idle, Advances, SameFlow, SameHeld, KeysBut, SeenBut
<1>22. CASE UnlockLegacy(h)
  BY <1>22, UnlockLegacyOutline DEF TokensApart, Spending, Changing, Frees, Leaves, Forgets, Ends, Idle, Advances, SameFlow, SameHeld, KeysBut, SeenBut
<1>23. CASE Bump(h)
  BY <1>23, BumpOutline DEF TokensApart, Spending, Changing, Ends, Idle, Advances, SameFlow, SameHeld, KeysBut, SeenBut
<1>. QED
  BY <1>1, <1>2, <1>3, <1>4, <1>5, <1>6, <1>7, <1>8, <1>9, <1>10, <1>11, <1>12, <1>13, <1>14, <1>15, <1>16, <1>17, <1>18, <1>19, <1>20, <1>21, <1>22, <1>23 DEF Handle, Begun

LEMMA TokenQuiet ==
  ASSUME NEW t \in Tokens, TokenLinks(t), redis'.temp[t] \in {redis.temp[t], None},
         seen'.opened[t] = seen.opened[t], seen.drawn \subseteq seen'.drawn,
         \A g \in Handlers : req'[g].flow = "challenge" /\ req'[g].token = t => t \in seen'.drawn,
         \A g \in Handlers : Spends(g, t)' => Spends(g, t)
  PROVE  TokenLinks(t)'
BY DEF TokenLinks

LEMMA LoginStoreTokens ==
  ASSUME TypeInv, NEW h \in Handlers, LoginStoreTemp(h), NEW t \in Tokens, TokenLinks(t)
  PROVE  TokenLinks(t)'
<1>1. PICK u \in Tokens \ seen.drawn :
        /\ KeysBut({"temp"}) /\ \A v \in Tokens \ {u} : redis'.temp[v] = redis.temp[v]
        /\ SeenBut({"drawn"}) /\ seen'.drawn = seen.drawn \cup {u}
  BY LoginStoreOutline
<1>2. /\ Moved(h) /\ req'[h].flow = "none" /\ req'[h].pc = "idle"
      /\ seen'.opened = seen.opened
  BY <1>1, LoginStoreOutline DEF Ends, Idle, SeenBut
<1>3. /\ \A g \in Handlers : Spends(g, t)' => Spends(g, t)
      /\ \A g \in Handlers : req'[g].flow = "challenge" /\ req'[g].token = t =>
           req[g].flow = "challenge" /\ req[g].token = t
  BY <1>2 DEF Moved, Spends
<1>4. CASE t # u
  BY <1>1, <1>2, <1>3, <1>4, TokenQuiet DEF TokenLinks
<1>5. CASE t = u
  <2>1. seen.opened[t] \in Nat
    BY DEF TypeInv, TypeOK, History
  <2>2. t \notin seen.drawn /\ t \in seen'.drawn
    BY <1>1, <1>5
  <2>3. seen.opened[t] = 0 /\ \A g \in Handlers : ~Spends(g, t)
    BY <2>1, <2>2 DEF TokenLinks, Spends
  <2>. QED
    BY <1>2, <1>3, <2>2, <2>3 DEF TokenLinks
<1>. QED
  BY <1>4, <1>5

LEMMA ConsumeTokens ==
  ASSUME TypeInv, NEW h \in Handlers, Consume(h), NEW t \in Tokens, TokenLinks(t)
  PROVE  TokenLinks(t)'
<1>1. /\ req[h].token \in Tokens /\ redis'.temp = [redis.temp EXCEPT ![req[h].token] = None]
      /\ seen' = seen
  BY ConsumeOutline
<1>2. redis.temp \in [Tokens -> Nat \cup {None}]
  BY DEF TypeInv, TypeOK, Redis
<1>3. redis'.temp[t] \in {redis.temp[t], None} /\ (req[h].token = t => redis'.temp[t] = None)
  BY <1>1, <1>2
<1>4. CASE Ends(h)
  <2>1. Moved(h) /\ req'[h].flow = "none"
    BY <1>4 DEF Ends, Idle
  <2>2. /\ \A g \in Handlers : Spends(g, t)' => Spends(g, t)
        /\ \A g \in Handlers : req'[g].flow = "challenge" /\ req'[g].token = t =>
             req[g].flow = "challenge" /\ req[g].token = t
    BY <2>1 DEF Moved, Spends
  <2>. QED
    BY <1>1, <1>3, <2>2, TokenQuiet DEF TokenLinks
<1>5. CASE redis.temp[req[h].token] # None /\ Moved(h) /\ SameFlow(h)
  <2>1. /\ \A g \in Handlers : g # h => (Spends(g, t)' <=> Spends(g, t))
        /\ \A g \in Handlers : req'[g].flow = "challenge" /\ req'[g].token = t =>
             req[g].flow = "challenge" /\ req[g].token = t
    BY <1>5 DEF Moved, Spends, SameFlow
  <2>2. CASE t # req[h].token
    <3>1. \A g \in Handlers : Spends(g, t)' => Spends(g, t)
      BY <1>5, <2>1, <2>2 DEF Spends, SameFlow
    <3>. QED
      BY <1>1, <1>3, <2>1, <3>1, TokenQuiet DEF TokenLinks
  <2>3. CASE t = req[h].token
    <3>1. seen.opened[t] = 0 /\ \A g \in Handlers : ~Spends(g, t)
      BY <1>5, <2>3 DEF TokenLinks
    <3>2. \A g \in Handlers : Spends(g, t)' => g = h
      BY <2>1, <3>1
    <3>. QED
      BY <1>1, <1>3, <2>1, <2>3, <3>1, <3>2 DEF TokenLinks
  <2>. QED
    BY <2>2, <2>3
<1>6. Ends(h) \/ (redis.temp[req[h].token] # None /\ Moved(h) /\ SameFlow(h))
  <2>1. \/ Ends(h)
        \/ /\ redis.temp[req[h].token] # None
           /\ Advances(h, "consume", "lock") \/ (Moved(h) /\ SameFlow(h))
    BY ConsumeOutline
  <2>. QED
    BY <2>1 DEF Advances
<1>. QED
  BY <1>4, <1>5, <1>6

LEMMA IssueTokens ==
  ASSUME TypeInv, NEW h \in Handlers, Issue(h), NEW t \in Tokens, TokenLinks(t)
  PROVE  TokenLinks(t)'
<1>1. /\ req[h].pc = "issue" /\ req[h].flow = "challenge" /\ Ends(h) /\ SeenBut({"opened"})
      /\ seen'.opened[t] = IF t \in {req[h].token, req[h].proof} THEN seen.opened[t] + 1
                           ELSE seen.opened[t]
      /\ redis' = redis
  BY IssueOutline DEF Issue
<1>2. t # req[h].proof
  <2>1. req[h].proof \in (Secrets \X Steps) \cup Codes
    BY <1>1 DEF TypeInv, FlowLinks, Proofs, TotpCodes
  <2>. QED
    BY <2>1, MfaAssumption
<1>3. Moved(h) /\ req'[h].flow = "none" /\ seen'.drawn = seen.drawn
  BY <1>1 DEF Ends, Idle, SeenBut
<1>4. /\ \A g \in Handlers : Spends(g, t)' => Spends(g, t) /\ g # h
      /\ \A g \in Handlers : req'[g].flow = "challenge" /\ req'[g].token = t =>
           req[g].flow = "challenge" /\ req[g].token = t
  BY <1>3 DEF Moved, Spends
<1>5. CASE t # req[h].token
  BY <1>1, <1>2, <1>3, <1>4, <1>5, TokenQuiet DEF TokenLinks
<1>6. CASE t = req[h].token
  <2>1. Spends(h, t)
    BY <1>1, <1>6 DEF Spends, Spending
  <2>2. /\ redis.temp[t] = None /\ seen.opened[t] = 0 /\ t \in seen.drawn
        /\ \A g \in Handlers : Spends(g, t) => g = h
    BY <1>1, <1>6, <2>1 DEF TokenLinks
  <2>3. seen'.opened[t] = 1 /\ \A g \in Handlers : ~Spends(g, t)'
    BY <1>1, <1>4, <1>6, <2>2
  <2>. QED
    BY <1>1, <1>3, <2>2, <2>3 DEF TokenLinks
<1>. QED
  BY <1>5, <1>6

LEMMA LapseTokens ==
  ASSUME TypeInv, Lapse, NEW t \in Tokens
  PROVE  /\ redis'.temp[t] \in {redis.temp[t], None} /\ seen'.opened = seen.opened
         /\ seen'.drawn = seen.drawn
<1>. DEFINE goal == /\ redis'.temp[t] \in {redis.temp[t], None} /\ seen'.opened = seen.opened
                    /\ seen'.drawn = seen.drawn
<1>1. CASE SetupLapses
  BY <1>1, SetupLapsesOutline DEF KeysBut
<1>2. ASSUME NEW k \in Keys, LockLapses(k)
      PROVE  goal
  BY <1>2, LockLapsesOutline DEF KeysBut, SeenBut
<1>3. ASSUME NEW c \in Codes, ClaimLapses(c)
      PROVE  goal
  BY <1>3, ClaimLapsesOutline DEF KeysBut, SeenBut
<1>4. ASSUME NEW u \in Tokens, TempLapses(u)
      PROVE  goal
  <2>1. redis.temp \in [Tokens -> Nat \cup {None}]
    BY DEF TypeInv, TypeOK, Redis
  <2>. QED
    BY <1>4, <2>1, TempLapsesOutline
<1>5. ASSUME NEW c \in Counters, CounterLapses(c)
      PROVE  goal
  BY <1>5, CounterLapsesOutline DEF KeysBut, SeenBut
<1>. QED
  BY <1>1, <1>2, <1>3, <1>4, <1>5 DEF Lapse

LEMMA TokenStep ==
  ASSUME TypeInv, Next, NEW t \in Tokens, TokenLinks(t)
  PROVE  TokenLinks(t)'
<1>1. ASSUME redis'.temp[t] \in {redis.temp[t], None}, seen'.opened = seen.opened,
             seen.drawn \subseteq seen'.drawn,
             \A g \in Handlers : req'[g].flow = "challenge" =>
                /\ req[g].flow = "challenge" /\ req'[g].token = req[g].token
                /\ req'[g].pc \in Spending => req[g].pc \in Spending
      PROVE  TokenLinks(t)'
  <2>1. \A g \in Handlers : Spends(g, t)' => Spends(g, t)
    BY <1>1 DEF Spends
  <2>2. \A g \in Handlers : req'[g].flow = "challenge" /\ req'[g].token = t => t \in seen'.drawn
    BY <1>1 DEF TokenLinks
  <2>. QED
    BY <1>1, <2>1, <2>2, TokenQuiet
<1>2. CASE \E h \in Handlers : Handle(h)
  <2>1. PICK h \in Handlers : Handle(h)
    BY <1>2
  <2>2. CASE TokensApart(h)
    BY <1>1, <2>2 DEF TokensApart, Moved
  <2>3. CASE LoginStoreTemp(h)
    BY <2>3, LoginStoreTokens
  <2>4. CASE Consume(h)
    BY <2>4, ConsumeTokens
  <2>5. CASE Issue(h)
    BY <2>5, IssueTokens
  <2>6. CASE Begun(h)
    <3>1. redis' = redis /\ seen' = seen /\ Moved(h)
      BY <2>6, BegunOutline
    <3>2. req'[h].pc \notin Spending \/ req'[h].flow # "challenge"
      BY <2>6, BegunOutline DEF Spending, Changing
    <3>3. req'[h].flow = "challenge" => redis.temp[req'[h].token] # None
      BY <2>6, BegunOutline DEF Submitted
    <3>4. \A g \in Handlers : Spends(g, t)' => Spends(g, t)
      BY <3>1, <3>2 DEF Moved, Spends
    <3>5. \A g \in Handlers : req'[g].flow = "challenge" /\ req'[g].token = t => t \in seen'.drawn
      BY <3>1, <3>3 DEF Moved, TokenLinks
    <3>. QED
      BY <3>1, <3>4, <3>5, TokenQuiet
  <2>. QED
    BY <2>1, <2>2, <2>3, <2>4, <2>5, <2>6, TokenClasses
<1>3. CASE Lapse
  BY <1>1, <1>3, LapseTokens, LapseIdles
<1>4. CASE Tick \/ Rest
  BY <1>1, <1>4 DEF Tick, Rest
<1>. QED
  BY <1>2, <1>3, <1>4 DEF Next

-----------------------------------------------------------------------------
(* Wrong codes stay within the limit *)

(* Nothing is counted, and h comes no closer to having a code counted. *)
CountsApart(h) ==
  /\ Moved(h) /\ redis'.failures = redis.failures /\ seen'.guesses = seen.guesses
  /\ req[h].pc # "fail" /\ req'[h].pc # "fail"
  /\ Asked(req'[h]) => Asked(req[h]) /\ req'[h].flow = req[h].flow

LEMMA CountClasses ==
  ASSUME TypeInv, NEW h \in Handlers, Handle(h)
  PROVE  CountsApart(h) \/ Lockout(h) \/ Compare(h) \/ VerifyTotp(h) \/ VerifyLegacy(h)
         \/ VerifyRecovery(h) \/ Fail(h) \/ Clear(h)
<1>1. CASE Begun(h)
  BY <1>1, BegunOutline DEF CountsApart, Asked, Guarded, Submitted
<1>2. CASE LoginStoreTemp(h)
  BY <1>2, LoginStoreOutline DEF CountsApart, Asked, Guarded, Submitted, Ends, Idle, Advances, SameFlow, SameHeld, KeysBut, SeenBut
<1>3. CASE ChallengeCheckEpoch(h)
  BY <1>3, CheckEpochOutline DEF CountsApart, Asked, Guarded, Submitted, Ends, Idle, Advances, SameFlow, SameHeld, KeysBut, SeenBut, ChallengeCheckEpoch, At
<1>4. CASE Fetch(h)
  BY <1>4, FetchOutline DEF CountsApart, Asked, Guarded, Submitted, Fetched, Ends, Idle, Advances, SameFlow, SameHeld, KeysBut, SeenBut, Fetch, At
<1>5. CASE Consume(h)
  <2>1. redis'.failures = redis.failures /\ seen'.guesses = seen.guesses
    BY <1>5, ConsumeOutline DEF KeysBut, SeenBut
  <2>2. Moved(h) /\ req[h].pc # "fail" /\ req'[h].pc # "fail" /\
       (Asked(req'[h]) => Asked(req[h]) /\ req'[h].flow = req[h].flow)
    BY <1>5, ConsumeMoves DEF Asked, Guarded, Ends, Idle, Advances, SameFlow
  <2>. QED
    BY <2>1, <2>2 DEF CountsApart
<1>6. CASE SetupRead(h)
  BY <1>6, SetupReadOutline DEF CountsApart, Asked, Guarded, Submitted, Prepared, Ends, Idle, Advances, SameFlow, SameHeld, KeysBut, SeenBut, SetupRead, At
<1>7. CASE SetupClaim(h)
  BY <1>7, SetupClaimOutline DEF CountsApart, Asked, Guarded, Submitted, Ends, Idle, Advances, SameFlow, SameHeld, KeysBut, SeenBut
<1>8. CASE SetupReread(h)
  BY <1>8, RereadOutline DEF CountsApart, Asked, Guarded, Submitted, Ends, Idle, Advances, SameFlow, SameHeld, KeysBut, SeenBut, SetupReread, At
<1>9. CASE SetupStore(h)
  BY <1>9, SetupStoreOutline DEF CountsApart, Asked, Guarded, Submitted, Ends, Idle, Advances, SameFlow, SameHeld, KeysBut, SeenBut
<1>10. CASE EnableRead(h)
  BY <1>10, EnableReadOutline DEF CountsApart, Asked, Guarded, Submitted, Ends, Idle, Advances, SameFlow, SameHeld, KeysBut, SeenBut, EnableRead, At
<1>11. CASE EnableTake(h)
  BY <1>11, EnableTakeOutline DEF CountsApart, Asked, Guarded, Submitted, Ends, Idle, Advances, SameFlow, SameHeld, KeysBut, SeenBut
<1>12. CASE TakeScoped(h)
  <2>1. redis'.failures = redis.failures /\ seen'.guesses = seen.guesses
    BY <1>12, TakeScopedOutline DEF KeysBut, SeenBut
  <2>2. Moved(h) /\ req[h].pc # "fail" /\ req'[h].pc # "fail" /\
       (Asked(req'[h]) => Asked(req[h]) /\ req'[h].flow = req[h].flow)
    BY <1>12, TakeScopedMoves DEF Asked, Guarded, Ends, Idle, Advances, SameFlow
  <2>. QED
    BY <2>1, <2>2 DEF CountsApart
<1>13. CASE TakeLegacy(h)
  BY <1>13, TakeLegacyOutline DEF CountsApart, Asked, Guarded, Submitted, Ends, Idle, Advances, SameFlow, SameHeld, KeysBut, SeenBut
<1>14. CASE Rollback(h)
  BY <1>14, RollbackOutline DEF CountsApart, Asked, Guarded, Submitted, Frees, Forgets, Ends, Idle, Advances, SameFlow, SameHeld, KeysBut, SeenBut
<1>15. CASE TransitionRead(h)
  BY <1>15, TransitionReadOutline DEF CountsApart, Asked, Guarded, Submitted, Ends, Idle, Advances, SameFlow, SameHeld, KeysBut, SeenBut
<1>16. CASE TransitionWrite(h)
  BY <1>16, TransitionWriteOutline DEF CountsApart, Asked, Guarded, Submitted, Written, Ends, Idle, Advances, SameFlow, SameHeld, KeysBut, SeenBut
<1>17. CASE Unlock(h)
  BY <1>17, UnlockOutline DEF CountsApart, Asked, Guarded, Submitted, Frees, Leaves, Forgets, Ends, Idle, Advances, SameFlow, SameHeld, KeysBut, SeenBut
<1>18. CASE UnlockLegacy(h)
  BY <1>18, UnlockLegacyOutline DEF CountsApart, Asked, Guarded, Submitted, Frees, Leaves, Forgets, Ends, Idle, Advances, SameFlow, SameHeld, KeysBut, SeenBut
<1>19. CASE Bump(h)
  BY <1>19, BumpOutline DEF CountsApart, Asked, Guarded, Submitted, Ends, Idle, Advances, SameFlow, SameHeld, KeysBut, SeenBut
<1>20. CASE Issue(h)
  BY <1>20, IssueOutline DEF CountsApart, Asked, Guarded, Submitted, Ends, Idle, Advances, SameFlow, SameHeld, KeysBut, SeenBut, Issue, At
<1>. QED
  BY <1>1, <1>2, <1>3, <1>4, <1>5, <1>6, <1>7, <1>8, <1>9, <1>10, <1>11, <1>12, <1>13, <1>14, <1>15, <1>16, <1>17, <1>18, <1>19, <1>20 DEF Handle, Begun

LEMMA CountTypes ==
  ASSUME TypeInv, NEW c \in Counters
  PROVE  /\ seen.guesses[c] \in Nat /\ redis.failures[c] \in Nat /\ MaxAttempts \in Nat \ {0}
         /\ IsFiniteSet(Handlers) /\ Cardinality(Handlers) \in Nat
         /\ IsFiniteSet(Guessing(c)) /\ Cardinality(Guessing(c)) \in Nat
         /\ IsFiniteSet(Failing(c)) /\ Cardinality(Failing(c)) \in Nat
         /\ Cardinality(Guessing(c)) <= Cardinality(Handlers)
<1>1. Guessing(c) \subseteq Handlers /\ Failing(c) \subseteq Handlers
  BY DEF Guessing, Failing
<1>2. IsFiniteSet(Handlers) /\ MaxAttempts \in Nat \ {0}
  BY MfaAssumption
<1>3. /\ IsFiniteSet(Guessing(c)) /\ Cardinality(Guessing(c)) <= Cardinality(Handlers)
      /\ IsFiniteSet(Failing(c))
  BY <1>1, <1>2, FS_Subset
<1>4. /\ Cardinality(Handlers) \in Nat /\ Cardinality(Guessing(c)) \in Nat
      /\ Cardinality(Failing(c)) \in Nat
  BY <1>2, <1>3, FS_CardinalityType
<1>. QED
  BY <1>2, <1>3, <1>4 DEF TypeInv, TypeOK, History, Redis

(* No more handlers could be refused, nor fewer are being counted. *)
LEMMA GuessQuiet ==
  ASSUME TypeInv, NEW c \in Counters, GuessLinks(c),
         redis'.failures[c] = redis.failures[c], seen'.guesses[c] = seen.guesses[c],
         Guessing(c)' \subseteq Guessing(c), Failing(c)' = Failing(c)
  PROVE  GuessLinks(c)'
<1>1. Cardinality(Guessing(c)') <= Cardinality(Guessing(c)) /\ Cardinality(Guessing(c)') \in Nat
  BY CountTypes, FS_Subset, FS_CardinalityType
<1>. DEFINE G == Cardinality(Guessing(c)')
<1>. DEFINE K == Cardinality(Guessing(c))
<1>2. G <= K /\ G \in Nat /\ K \in Nat
  BY <1>1, CountTypes
<1>3. Cardinality(Failing(c)') = Cardinality(Failing(c))
  OBVIOUS
<1>4. redis.failures[c] + G <= MaxAttempts - 1 + Cardinality(Handlers)
  <2>1. redis.failures[c] + K <= MaxAttempts - 1 + Cardinality(Handlers)
    BY DEF GuessLinks
  <2>. HIDE DEF G, K
  <2>. QED
    BY <1>2, <2>1, CountTypes
<1>. QED
  BY <1>3, <1>4 DEF GuessLinks

LEMMA ApartGuesses ==
  ASSUME TypeInv, NEW h \in Handlers, NEW c \in Counters, GuessLinks(c), CountsApart(h)
  PROVE  GuessLinks(c)'
<1>1. Guessing(c)' \subseteq Guessing(c)
  <2>1. \A g \in Handlers : Asked(req'[g]) /\ Counter(req'[g].flow) = c =>
                              Asked(req[g]) /\ Counter(req[g].flow) = c
    BY DEF CountsApart, Moved
  <2>. QED
    BY <2>1 DEF Guessing
<1>2. Failing(c)' = Failing(c)
  BY DEF CountsApart, Moved, Failing
<1>. QED
  BY <1>1, <1>2, GuessQuiet DEF CountsApart

(* A code is refused: one answered, one more to be counted. *)
LEMMA RefusedGuesses ==
  ASSUME TypeInv, NEW h \in Handlers, NEW c \in Counters, GuessLinks(c),
         req[h].pc \in {"compare", "verify", "verifyLegacy"},
         Refused(h), redis'.failures = redis.failures
  PROVE  GuessLinks(c)'
<1>1. CASE req[h].flow = "enable"
  <2>1. CountsApart(h)
    BY <1>1 DEF Refused, CountsApart, Ends, Idle, Asked, Guarded
  <2>. QED
    BY <2>1, ApartGuesses
<1>2. CASE req[h].flow \in Guarded
  <2>1. /\ Moved(h) /\ req'[h].pc = "fail" /\ req'[h].flow = req[h].flow
        /\ seen'.guesses = [seen.guesses EXCEPT ![Counter(req[h].flow)] = @ + 1]
    BY <1>2 DEF Refused, Advances, SameFlow, Guarded
  <2>2. /\ \A g \in Handlers : g # h => req'[g] = req[g]
        /\ Asked(req[h]) /\ Asked(req'[h])
    BY <1>2, <2>1 DEF Moved, Asked
  <2>3. Guessing(c)' = Guessing(c)
    <3>1. \A g \in Handlers : Asked(req'[g]) /\ Counter(req'[g].flow) = c <=>
                                Asked(req[g]) /\ Counter(req[g].flow) = c
      BY <2>1, <2>2
    <3>. QED
      BY <3>1 DEF Guessing
  <2>4. seen.guesses \in [Counters -> Nat]
    BY DEF TypeInv, TypeOK, History
  <2>5. CASE Counter(req[h].flow) # c
    <3>1. Failing(c)' = Failing(c)
      BY <2>1, <2>2, <2>5 DEF Failing
    <3>. QED
      BY <2>1, <2>3, <2>4, <2>5, <3>1, GuessQuiet
  <2>6. CASE Counter(req[h].flow) = c
    <3>1. Failing(c)' = Failing(c) \cup {h} /\ h \notin Failing(c)
      BY <2>1, <2>2, <2>6 DEF Failing
    <3>2. Cardinality(Failing(c)') = Cardinality(Failing(c)) + 1
      BY <3>1, CountTypes, FS_AddElement
    <3>3. seen'.guesses[c] = seen.guesses[c] + 1
      BY <2>1, <2>4, <2>6
    <3>. DEFINE F == Cardinality(Failing(c))
    <3>4. seen'.guesses[c] <= redis.failures[c] + (F + 1)
      <4>1. seen.guesses[c] <= redis.failures[c] + F /\ F \in Nat
        BY CountTypes DEF GuessLinks
      <4>. HIDE DEF F
      <4>. QED
        BY <3>3, <4>1, CountTypes
    <3>. QED
      BY <2>3, <3>2, <3>4 DEF GuessLinks
  <2>. QED
    BY <2>5, <2>6
<1>. QED
  BY <1>1, <1>2 DEF Refused

(* A wrong code is counted. *)
LEMMA FailGuesses ==
  ASSUME TypeInv, NEW h \in Handlers, NEW c \in Counters, GuessLinks(c), Fail(h)
  PROVE  GuessLinks(c)'
<1>1. /\ req[h].pc = "fail" /\ req[h].flow \in Guarded /\ seen' = seen
      /\ redis'.failures = [redis.failures EXCEPT ![Counter(req[h].flow)] = @ + 1]
      /\ Moved(h) /\ req'[h].pc = "idle"
  BY FailOutline DEF Ends, Idle
<1>2. /\ \A g \in Handlers : g # h => req'[g] = req[g]
      /\ Asked(req[h]) /\ ~Asked(req'[h])
  BY <1>1 DEF Moved, Asked
<1>3. redis.failures \in [Counters -> Nat]
  BY DEF TypeInv, TypeOK, Redis
<1>4. CASE Counter(req[h].flow) # c
  <2>1. Guessing(c)' \subseteq Guessing(c) /\ Failing(c)' = Failing(c)
    BY <1>1, <1>2, <1>4 DEF Guessing, Failing
  <2>. QED
    BY <1>1, <1>3, <1>4, <2>1, GuessQuiet
<1>5. CASE Counter(req[h].flow) = c
  <2>1. Guessing(c)' = Guessing(c) \ {h} /\ h \in Guessing(c)
    BY <1>2, <1>5 DEF Guessing
  <2>2. Failing(c)' = Failing(c) \ {h} /\ h \in Failing(c)
    BY <1>1, <1>2, <1>5 DEF Failing
  <2>3. /\ Cardinality(Guessing(c)') = Cardinality(Guessing(c)) - 1
        /\ Cardinality(Failing(c)') = Cardinality(Failing(c)) - 1
    <3>1. IsFiniteSet(Guessing(c)) /\ IsFiniteSet(Failing(c))
      BY CountTypes
    <3>2. Cardinality(Guessing(c) \ {h}) = Cardinality(Guessing(c)) - 1
      BY <2>1, <3>1, FS_RemoveElement
    <3>3. Cardinality(Failing(c) \ {h}) = Cardinality(Failing(c)) - 1
      BY <2>2, <3>1, FS_RemoveElement
    <3>. QED
      BY <2>1, <2>2, <3>2, <3>3
  <2>4. redis'.failures[c] = redis.failures[c] + 1
    BY <1>1, <1>3, <1>5
  <2>. DEFINE F == Cardinality(Failing(c))
  <2>. DEFINE K == Cardinality(Guessing(c))
  <2>5. /\ seen.guesses[c] <= redis.failures[c] + F /\ F \in Nat /\ K \in Nat
        /\ redis.failures[c] + K <= MaxAttempts - 1 + Cardinality(Handlers)
    BY CountTypes DEF GuessLinks
  <2>6. /\ seen.guesses[c] <= redis'.failures[c] + (F - 1)
        /\ redis'.failures[c] + (K - 1) <= MaxAttempts - 1 + Cardinality(Handlers)
    <3>. HIDE DEF F, K
    <3>. QED
      BY <2>4, <2>5, CountTypes
  <2>. QED
    BY <1>1, <2>3, <2>6 DEF GuessLinks
<1>. QED
  BY <1>4, <1>5

(* The count starts again. *)
LEMMA RestartGuesses ==
  ASSUME TypeInv, NEW c \in Counters, redis'.failures[c] = 0, seen'.guesses[c] = 0,
         Guessing(c)' \subseteq Guessing(c), Failing(c)' = Failing(c)
  PROVE  GuessLinks(c)'
<1>1. Cardinality(Guessing(c)') <= Cardinality(Guessing(c)) /\ Cardinality(Guessing(c)') \in Nat
  BY CountTypes, FS_Subset, FS_CardinalityType
<1>. DEFINE G == Cardinality(Guessing(c)')
<1>. DEFINE K == Cardinality(Guessing(c))
<1>. DEFINE F == Cardinality(Failing(c))
<1>2. G <= K /\ G \in Nat /\ K \in Nat /\ K <= Cardinality(Handlers) /\ F \in Nat
  BY <1>1, CountTypes
<1>3. Cardinality(Failing(c)') = F
  OBVIOUS
<1>4. 0 + G <= MaxAttempts - 1 + Cardinality(Handlers) /\ 0 <= 0 + F
  <2>. HIDE DEF G, K, F
  <2>. QED
    BY <1>2, CountTypes
<1>. QED
  BY <1>3, <1>4 DEF GuessLinks

LEMMA ClearGuesses ==
  ASSUME TypeInv, NEW h \in Handlers, NEW c \in Counters, GuessLinks(c), Clear(h)
  PROVE  GuessLinks(c)'
<1>1. /\ req[h].pc = "clear" /\ Moved(h) /\ req'[h].pc \notin {"fail", "compare", "verify", "verifyLegacy", "fetch"}
  BY ClearMoves DEF Advances
<1>2. /\ redis'.failures = [redis.failures EXCEPT ![Counter(req[h].flow)] = 0]
      /\ seen'.guesses = [seen.guesses EXCEPT ![Counter(req[h].flow)] = 0]
  BY ClearOutline
<1>3. redis.failures \in [Counters -> Nat] /\ seen.guesses \in [Counters -> Nat]
  BY DEF TypeInv, TypeOK, Redis, History
<1>4. \A g \in Handlers : Asked(req'[g]) => req'[g] = req[g]
  BY <1>1 DEF Moved, Asked
<1>5. Guessing(c)' \subseteq Guessing(c)
  <2>1. \A g \in Handlers : Asked(req'[g]) /\ Counter(req'[g].flow) = c =>
                              Asked(req[g]) /\ Counter(req[g].flow) = c
    BY <1>4
  <2>. QED
    BY <2>1 DEF Guessing
<1>6. Failing(c)' = Failing(c)
  BY <1>1 DEF Moved, Failing
<1>7. CASE Counter(req[h].flow) = c
  BY <1>2, <1>3, <1>5, <1>6, <1>7, RestartGuesses
<1>8. CASE Counter(req[h].flow) # c
  BY <1>2, <1>3, <1>5, <1>6, <1>8, GuessQuiet
<1>. QED
  BY <1>7, <1>8

LEMMA LockoutGuesses ==
  ASSUME TypeInv, NEW h \in Handlers, NEW c \in Counters, GuessLinks(c), Lockout(h)
  PROVE  GuessLinks(c)'
<1>0. redis' = redis /\ seen' = seen /\ req[h].pc = "lockout"
  BY DEF Lockout, At
<1>1. CASE Ends(h)
  <2>1. CountsApart(h)
    BY <1>0, <1>1 DEF CountsApart, Ends, Idle, Asked
  <2>. QED
    BY <2>1, ApartGuesses
<1>2. CASE ~Ends(h)
  <2>1. /\ redis.failures[Counter(req[h].flow)] < MaxAttempts
        /\ Moved(h) /\ req'[h].pc \in {"fetch", "compare", "verify"}
        /\ req'[h].flow = req[h].flow
    BY <1>2, LockoutOutline DEF Advances, SameFlow
  <2>2. Failing(c)' = Failing(c)
    BY <1>0, <2>1 DEF Moved, Failing
  <2>3. CASE Counter(req[h].flow) # c
    <3>1. \A g \in Handlers : Asked(req'[g]) /\ Counter(req'[g].flow) = c =>
                              Asked(req[g]) /\ Counter(req[g].flow) = c
      BY <2>1, <2>3 DEF Moved
    <3>2. Guessing(c)' \subseteq Guessing(c)
      BY <3>1 DEF Guessing
    <3>. QED
      BY <1>0, <2>2, <3>2, GuessQuiet
  <2>4. CASE Counter(req[h].flow) = c
    <3>. DEFINE G == Cardinality(Guessing(c)')
    <3>1. Guessing(c)' \subseteq Handlers
      BY DEF Guessing
    <3>2. G <= Cardinality(Handlers) /\ G \in Nat
      BY <3>1, CountTypes, FS_Subset, FS_CardinalityType
    <3>3. redis.failures[c] + G <= MaxAttempts - 1 + Cardinality(Handlers)
      <4>. HIDE DEF G
      <4>. QED
        BY <2>1, <2>4, <3>2, CountTypes
    <3>4. Cardinality(Failing(c)') = Cardinality(Failing(c))
      BY <2>2
    <3>. QED
      BY <1>0, <3>3, <3>4 DEF GuessLinks
  <2>. QED
    BY <2>3, <2>4
<1>. QED
  BY <1>1, <1>2

LEMMA AnswerGuesses ==
  ASSUME TypeInv, NEW h \in Handlers, NEW c \in Counters, GuessLinks(c),
         Compare(h) \/ VerifyTotp(h) \/ VerifyLegacy(h) \/ VerifyRecovery(h)
  PROVE  GuessLinks(c)'
<1>1. Compare(h) => req[h].pc = "compare"
  BY DEF Compare, At
<1>2. VerifyTotp(h) => req[h].pc = "verify" /\ redis'.failures = redis.failures
  BY VerifyTotpOutline DEF MarkedNow, KeysBut
<1>3. VerifyLegacy(h) => req[h].pc = "verifyLegacy" /\ redis'.failures = redis.failures
  BY VerifyLegacyOutline DEF MarkedNow, KeysBut
<1>4. VerifyRecovery(h) => req[h].pc = "verify" /\ redis'.failures = redis.failures
  BY VerifyRecoveryOutline DEF KeysBut
<1>5. Compare(h) => redis'.failures = redis.failures
  BY CompareOutline
<1>6. redis'.failures = redis.failures /\ req[h].pc \in {"compare", "verify", "verifyLegacy"}
  BY <1>1, <1>2, <1>3, <1>4, <1>5
<1>7. CASE Refused(h)
  BY <1>6, <1>7, RefusedGuesses
<1>8. CASE Accepted(h)
  <2>1. CountsApart(h)
    BY <1>6, <1>8 DEF CountsApart, Accepted, Advances, Asked, SeenBut
  <2>. QED
    BY <2>1, ApartGuesses
<1>9. CASE VerifyTotp(h) /\ Moved(h) /\ SameFlow(h) /\ req'[h].pc = "verifyLegacy" /\ seen' = seen
  <2>1. CountsApart(h)
    BY <1>2, <1>9 DEF CountsApart, SameFlow, Asked
  <2>. QED
    BY <2>1, ApartGuesses
<1>10. CASE (Compare(h) \/ VerifyRecovery(h)) /\ ~Refused(h)
  <2>1. seen' = seen /\ Moved(h) /\ req'[h].pc = "clear"
    BY <1>10, CompareOutline, VerifyRecoveryOutline DEF Advances
  <2>2. CountsApart(h)
    BY <1>6, <2>1 DEF CountsApart, Asked
  <2>. QED
    BY <2>2, ApartGuesses
<1>11. VerifyTotp(h) => \/ Refused(h) \/ Accepted(h)
                        \/ Moved(h) /\ SameFlow(h) /\ req'[h].pc = "verifyLegacy" /\ seen' = seen
  BY VerifyTotpOutline
<1>12. VerifyLegacy(h) => Refused(h) \/ Accepted(h)
  BY VerifyLegacyOutline
<1>. QED
  BY <1>7, <1>8, <1>9, <1>10, <1>11, <1>12

LEMMA LapseGuesses ==
  ASSUME TypeInv, Lapse, NEW c \in Counters, GuessLinks(c)
  PROVE  GuessLinks(c)'
<1>0. Guessing(c)' = Guessing(c) /\ Failing(c)' = Failing(c)
  BY LapseIdles DEF Guessing, Failing
<1>1. CASE SetupLapses
  BY <1>0, <1>1, GuessQuiet, SetupLapsesOutline DEF KeysBut
<1>2. ASSUME NEW k \in Keys, LockLapses(k)
      PROVE  GuessLinks(c)'
  BY <1>0, <1>2, GuessQuiet, LockLapsesOutline DEF KeysBut, SeenBut
<1>3. ASSUME NEW d \in Codes, ClaimLapses(d)
      PROVE  GuessLinks(c)'
  BY <1>0, <1>3, GuessQuiet, ClaimLapsesOutline DEF KeysBut, SeenBut
<1>4. ASSUME NEW t \in Tokens, TempLapses(t)
      PROVE  GuessLinks(c)'
  BY <1>0, <1>4, GuessQuiet, TempLapsesOutline DEF KeysBut
<1>5. ASSUME NEW d \in Counters, CounterLapses(d)
      PROVE  GuessLinks(c)'
  <2>1. /\ redis'.failures = [redis.failures EXCEPT ![d] = 0]
        /\ seen'.guesses = [seen.guesses EXCEPT ![d] = 0]
        /\ redis.failures \in [Counters -> Nat] /\ seen.guesses \in [Counters -> Nat]
    BY <1>5, CounterLapsesOutline DEF TypeInv, TypeOK, Redis, History
  <2>2. CASE d = c
    BY <1>0, <2>1, <2>2, RestartGuesses
  <2>3. CASE d # c
    BY <1>0, <2>1, <2>3, GuessQuiet
  <2>. QED
    BY <2>2, <2>3
<1>. QED
  BY <1>1, <1>2, <1>3, <1>4, <1>5 DEF Lapse

LEMMA GuessStep ==
  ASSUME TypeInv, Next, NEW c \in Counters, GuessLinks(c)
  PROVE  GuessLinks(c)'
<1>1. CASE \E h \in Handlers : Handle(h)
  <2>1. PICK h \in Handlers : Handle(h)
    BY <1>1
  <2>2. CASE CountsApart(h)
    BY <2>2, ApartGuesses
  <2>3. CASE Compare(h) \/ VerifyTotp(h) \/ VerifyLegacy(h) \/ VerifyRecovery(h)
    BY <2>3, AnswerGuesses
  <2>4. CASE Lockout(h)
    BY <2>4, LockoutGuesses
  <2>5. CASE Fail(h)
    BY <2>5, FailGuesses
  <2>6. CASE Clear(h)
    BY <2>6, ClearGuesses
  <2>. QED
    BY <2>1, <2>2, <2>3, <2>4, <2>5, <2>6, CountClasses
<1>2. CASE Lapse
  BY <1>2, LapseGuesses
<1>3. CASE Tick \/ Rest
  <2>1. req' = req /\ redis' = redis /\ seen' = seen
    BY <1>3 DEF Tick, Rest
  <2>. QED
    BY <2>1, GuessQuiet DEF Guessing, Failing
<1>. QED
  BY <1>1, <1>2, <1>3 DEF Next

-----------------------------------------------------------------------------
(* The record changes only where a transition writes *)

LEMMA RecordFixed ==
  ASSUME NEW h \in Handlers, Handle(h), ~TransitionWrite(h)
  PROVE  rec' = rec
<1>1. CASE Begun(h)
  BY <1>1 DEF Begun, LoginReadEpoch, Challenge, Submit, Reencrypt
<1>2. CASE LoginStoreTemp(h)
  BY <1>2 DEF LoginStoreTemp
<1>3. CASE ChallengeCheckEpoch(h)
  BY <1>3 DEF ChallengeCheckEpoch
<1>4. CASE Fetch(h)
  BY <1>4 DEF Fetch
<1>5. CASE Lockout(h)
  BY <1>5 DEF Lockout
<1>6. CASE Compare(h)
  BY <1>6 DEF Compare
<1>7. CASE VerifyTotp(h)
  BY <1>7 DEF VerifyTotp
<1>8. CASE VerifyLegacy(h)
  BY <1>8 DEF VerifyLegacy
<1>9. CASE VerifyRecovery(h)
  BY <1>9 DEF VerifyRecovery
<1>10. CASE Fail(h)
  BY <1>10 DEF Fail
<1>11. CASE Clear(h)
  BY <1>11 DEF Clear
<1>12. CASE Consume(h)
  BY <1>12 DEF Consume
<1>13. CASE SetupRead(h)
  BY <1>13 DEF SetupRead
<1>14. CASE SetupClaim(h)
  BY <1>14 DEF SetupClaim
<1>15. CASE SetupReread(h)
  BY <1>15 DEF SetupReread
<1>16. CASE SetupStore(h)
  BY <1>16 DEF SetupStore
<1>17. CASE EnableRead(h)
  BY <1>17 DEF EnableRead
<1>18. CASE EnableTake(h)
  BY <1>18 DEF EnableTake
<1>19. CASE TakeScoped(h)
  BY <1>19 DEF TakeScoped
<1>20. CASE TakeLegacy(h)
  BY <1>20 DEF TakeLegacy
<1>21. CASE Rollback(h)
  BY <1>21 DEF Rollback
<1>22. CASE TransitionRead(h)
  BY <1>22 DEF TransitionRead
<1>23. CASE Unlock(h)
  BY <1>23 DEF Unlock
<1>24. CASE UnlockLegacy(h)
  BY <1>24 DEF UnlockLegacy
<1>25. CASE Bump(h)
  BY <1>25 DEF Bump
<1>26. CASE Issue(h)
  BY <1>26 DEF Issue
<1>. QED
  BY <1>1, <1>2, <1>3, <1>4, <1>5, <1>6, <1>7, <1>8, <1>9, <1>10, <1>11, <1>12, <1>13, <1>14, <1>15, <1>16, <1>17, <1>18, <1>19, <1>20, <1>21, <1>22, <1>23, <1>24, <1>25, <1>26 DEF Handle, Begun

(* The history of the record does not move, but that more may be drawn. *)
HistoryApart(h) ==
  /\ Moved(h) /\ seen'.printed = seen.printed /\ seen'.late = seen.late
  /\ seen'.crossed = seen.crossed /\ seen.drawn \subseteq seen'.drawn

LEMMA HistoryClasses ==
  ASSUME TypeInv, NEW h \in Handlers, Handle(h)
  PROVE  HistoryApart(h) \/ EnableTake(h) \/ TransitionWrite(h)
<1>1. CASE Begun(h)
  BY <1>1, BegunOutline DEF HistoryApart
<1>2. CASE LoginStoreTemp(h)
  BY <1>2, LoginStoreOutline DEF HistoryApart, Ends, Idle, Advances, SameFlow, SameHeld, KeysBut, SeenBut
<1>3. CASE ChallengeCheckEpoch(h)
  BY <1>3, CheckEpochOutline DEF HistoryApart, Ends, Idle, Advances, SameFlow, SameHeld, KeysBut, SeenBut, ChallengeCheckEpoch, At
<1>4. CASE Fetch(h)
  BY <1>4, FetchOutline DEF HistoryApart, Fetched, Ends, Idle, Advances, SameFlow, SameHeld, KeysBut, SeenBut, Fetch, At
<1>5. CASE Lockout(h)
  BY <1>5, LockoutOutline DEF HistoryApart, Ends, Idle, Advances, SameFlow, SameHeld, KeysBut, SeenBut, Lockout, At
<1>6. CASE Compare(h)
  BY <1>6, CompareOutline DEF HistoryApart, Refused, Ends, Idle, Advances, SameFlow, SameHeld, KeysBut, SeenBut
<1>7. CASE VerifyTotp(h)
  <2>1. /\ seen'.printed = seen.printed /\ seen'.late = seen.late
       /\ seen'.crossed = seen.crossed /\ seen.drawn \subseteq seen'.drawn
    BY <1>7, VerifyTotpOutline DEF Refused, Accepted, MarkedNow, KeysBut, SeenBut
  <2>2. Moved(h)
    BY <1>7, VerifyTotpMoves DEF Ends, Idle, Advances, SameFlow
  <2>. QED
    BY <2>1, <2>2 DEF HistoryApart
<1>8. CASE VerifyLegacy(h)
  <2>1. /\ seen'.printed = seen.printed /\ seen'.late = seen.late
       /\ seen'.crossed = seen.crossed /\ seen.drawn \subseteq seen'.drawn
    BY <1>8, VerifyLegacyOutline DEF Refused, Accepted, MarkedNow, KeysBut, SeenBut
  <2>2. Moved(h)
    BY <1>8, VerifyLegacyMoves DEF Ends, Idle, Advances, SameFlow
  <2>. QED
    BY <2>1, <2>2 DEF HistoryApart
<1>9. CASE VerifyRecovery(h)
  BY <1>9, VerifyRecoveryOutline DEF HistoryApart, Refused, Ends, Idle, Advances, SameFlow, SameHeld, KeysBut, SeenBut
<1>10. CASE Fail(h)
  <2>1. /\ seen'.printed = seen.printed /\ seen'.late = seen.late
       /\ seen'.crossed = seen.crossed /\ seen.drawn \subseteq seen'.drawn
    BY <1>10, FailOutline DEF KeysBut, SeenBut
  <2>2. Moved(h)
    BY <1>10, FailMoves DEF Ends, Idle, Advances, SameFlow
  <2>. QED
    BY <2>1, <2>2 DEF HistoryApart
<1>11. CASE Clear(h)
  <2>1. /\ seen'.printed = seen.printed /\ seen'.late = seen.late
       /\ seen'.crossed = seen.crossed /\ seen.drawn \subseteq seen'.drawn
    BY <1>11, ClearOutline DEF KeysBut, SeenBut
  <2>2. Moved(h)
    BY <1>11, ClearMoves DEF Ends, Idle, Advances, SameFlow
  <2>. QED
    BY <2>1, <2>2 DEF HistoryApart
<1>12. CASE Consume(h)
  <2>1. /\ seen'.printed = seen.printed /\ seen'.late = seen.late
       /\ seen'.crossed = seen.crossed /\ seen.drawn \subseteq seen'.drawn
    BY <1>12, ConsumeOutline DEF KeysBut, SeenBut
  <2>2. Moved(h)
    BY <1>12, ConsumeMoves DEF Ends, Idle, Advances, SameFlow
  <2>. QED
    BY <2>1, <2>2 DEF HistoryApart
<1>13. CASE SetupRead(h)
  BY <1>13, SetupReadOutline DEF HistoryApart, Prepared, Ends, Idle, Advances, SameFlow, SameHeld, KeysBut, SeenBut, SetupRead, At
<1>14. CASE SetupClaim(h)
  BY <1>14, SetupClaimOutline DEF HistoryApart, Ends, Idle, Advances, SameFlow, SameHeld, KeysBut, SeenBut
<1>15. CASE SetupReread(h)
  BY <1>15, RereadOutline DEF HistoryApart, Ends, Idle, Advances, SameFlow, SameHeld, KeysBut, SeenBut, SetupReread, At
<1>16. CASE SetupStore(h)
  BY <1>16, SetupStoreOutline DEF HistoryApart, Ends, Idle, Advances, SameFlow, SameHeld, KeysBut, SeenBut
<1>17. CASE EnableRead(h)
  BY <1>17, EnableReadOutline DEF HistoryApart, Ends, Idle, Advances, SameFlow, SameHeld, KeysBut, SeenBut, EnableRead, At
<1>18. CASE TakeScoped(h)
  <2>1. /\ seen'.printed = seen.printed /\ seen'.late = seen.late
       /\ seen'.crossed = seen.crossed /\ seen.drawn \subseteq seen'.drawn
    BY <1>18, TakeScopedOutline DEF KeysBut, SeenBut
  <2>2. Moved(h)
    BY <1>18, TakeScopedMoves DEF Ends, Idle, Advances, SameFlow
  <2>. QED
    BY <2>1, <2>2 DEF HistoryApart
<1>19. CASE TakeLegacy(h)
  BY <1>19, TakeLegacyOutline DEF HistoryApart, Ends, Idle, Advances, SameFlow, SameHeld, KeysBut, SeenBut
<1>20. CASE Rollback(h)
  BY <1>20, RollbackOutline DEF HistoryApart, Frees, Forgets, Ends, Idle, Advances, SameFlow, SameHeld, KeysBut, SeenBut
<1>21. CASE TransitionRead(h)
  BY <1>21, TransitionReadOutline DEF HistoryApart, Ends, Idle, Advances, SameFlow, SameHeld, KeysBut, SeenBut
<1>22. CASE Unlock(h)
  BY <1>22, UnlockOutline DEF HistoryApart, Frees, Leaves, Forgets, Ends, Idle, Advances, SameFlow, SameHeld, KeysBut, SeenBut
<1>23. CASE UnlockLegacy(h)
  BY <1>23, UnlockLegacyOutline DEF HistoryApart, Frees, Leaves, Forgets, Ends, Idle, Advances, SameFlow, SameHeld, KeysBut, SeenBut
<1>24. CASE Bump(h)
  BY <1>24, BumpOutline DEF HistoryApart, Ends, Idle, Advances, SameFlow, SameHeld, KeysBut, SeenBut
<1>25. CASE Issue(h)
  BY <1>25, IssueOutline DEF HistoryApart, Ends, Idle, Advances, SameFlow, SameHeld, KeysBut, SeenBut, Issue, At
<1>. QED
  BY <1>1, <1>2, <1>3, <1>4, <1>5, <1>6, <1>7, <1>8, <1>9, <1>10, <1>11, <1>12, <1>13, <1>14, <1>15, <1>16, <1>17, <1>18, <1>19, <1>20, <1>21, <1>22, <1>23, <1>24, <1>25 DEF Handle, Begun

LEMMA HandleHistory ==
  ASSUME TypeInv, NEW h \in Handlers, Handle(h)
  PROVE  /\ Moved(h) /\ seen.drawn \subseteq seen'.drawn
         /\ Clean' => Clean
         /\ TransitionWrite(h) \/ (rec' = rec /\ seen'.printed = seen.printed)
<1>1. CASE HistoryApart(h)
  <2>1. TransitionWrite(h) \/ rec' = rec
    BY RecordFixed
  <2>. QED
    BY <1>1, <2>1 DEF HistoryApart, Clean
<1>2. CASE EnableTake(h)
  <2>1. /\ Moved(h) /\ seen'.printed = seen.printed /\ seen'.late = seen.late
        /\ seen.crossed => seen'.crossed
        /\ seen.drawn \subseteq seen'.drawn
    BY <1>2, EnableTakeOutline DEF Ends, Advances, SeenBut
  <2>. QED
    BY <1>2, <2>1 DEF EnableTake, Clean
<1>3. CASE TransitionWrite(h)
  BY <1>3, TransitionWriteOutline DEF Written, SeenBut, Clean
<1>. QED
  BY <1>1, <1>2, <1>3, HistoryClasses

LEMMA LapseHistory ==
  ASSUME TypeInv, Lapse
  PROVE  /\ seen'.printed = seen.printed /\ seen'.drawn = seen.drawn
         /\ seen'.late = seen.late /\ seen'.crossed = seen.crossed
         /\ seen'.opened = seen.opened /\ seen.overran \subseteq seen'.overran
         /\ seen.outlived \subseteq seen'.outlived
         /\ redis'.setup \in {redis.setup, None}
<1>. DEFINE goal == /\ seen'.printed = seen.printed /\ seen'.drawn = seen.drawn
                    /\ seen'.late = seen.late /\ seen'.crossed = seen.crossed
                    /\ seen'.opened = seen.opened /\ seen.overran \subseteq seen'.overran
                    /\ seen.outlived \subseteq seen'.outlived
                    /\ redis'.setup \in {redis.setup, None}
<1>1. CASE SetupLapses
  BY <1>1, SetupLapsesOutline DEF KeysBut
<1>2. ASSUME NEW k \in Keys, LockLapses(k)
      PROVE  goal
  BY <1>2, LockLapsesOutline DEF KeysBut, SeenBut
<1>3. ASSUME NEW c \in Codes, ClaimLapses(c)
      PROVE  goal
  BY <1>3, ClaimLapsesOutline DEF KeysBut, SeenBut
<1>4. ASSUME NEW t \in Tokens, TempLapses(t)
      PROVE  goal
  BY <1>4, TempLapsesOutline DEF KeysBut
<1>5. ASSUME NEW c \in Counters, CounterLapses(c)
      PROVE  goal
  BY <1>5, CounterLapsesOutline DEF KeysBut, SeenBut
<1>. QED
  BY <1>1, <1>2, <1>3, <1>4, <1>5 DEF Lapse

(* What a handler that has kept its locks writes, while all is clean.       *)
Writes(h) ==
  \/ req[h].flow = "enable" /\ rec'.secret = SecretOf(h) /\ rec'.codes = CodesOf(h)
  \/ req[h].flow \in {"disable", "reset"} /\ rec' = Off
  \/ /\ req[h].flow = "challenge" /\ req[h].proof \in rec.codes
     /\ rec'.secret = rec.secret /\ rec'.codes = rec.codes \ {req[h].proof}
  \/ req[h].flow = "regenerate" /\ rec.on /\ rec'.secret = rec.secret /\ rec'.codes = CodesOf(h)
  \/ req[h].flow = "reencrypt" /\ rec'.secret = rec.secret /\ rec'.codes = rec.codes

LEMMA WritesOutline ==
  ASSUME TypeInv, rec.codes \subseteq seen.printed, CleanInv,
         NEW h \in Handlers, TransitionWrite(h), Written(h), Clean'
  PROVE  /\ Writes(h) /\ ~Overrun(h)
         /\ SecretOf(h)' = None /\ CodesOf(h)' = {}
         /\ req[h].flow = "enable" => SecretOf(h) # None /\ rec.secret # SecretOf(h)
         /\ seen'.printed = seen.printed \cup CodesOf(h)
         /\ CodesOf(h) \cap seen.printed = {}
<1>1. /\ req[h].pc = "write" /\ req'[h].pc = "unlock" /\ rec' = req[h].update
      /\ seen'.printed = seen.printed \cup req[h].update.codes
      /\ seen'.late = (seen.late \/ Overrun(h)) /\ Whole(req[h].update)
  BY TransitionWriteOutline DEF Written
<1>2. ~Overrun(h)
  BY <1>1 DEF Clean
<1>3. req[h].flow \in Rewriting
  BY <1>1 DEF TypeInv, FlowLinks, Changing, Locking
<1>4. WriteLinks(h) /\ NewToAll(SecretOf(h), CodesOf(h))
  BY DEF CleanInv, SourceLinks
<1>5. SecretOf(h)' = None /\ CodesOf(h)' = {}
  BY <1>1 DEF SecretOf, CodesOf, CarriesCodes, CarriesSecret, Locking
<1>6. CodesOf(h) \cap seen.printed = {}
  BY <1>4 DEF NewToAll
<1>7. CASE req[h].flow = "enable"
  <2>1. SecretOf(h) = req[h].update.secret /\ CodesOf(h) = req[h].update.codes
    BY <1>1, <1>7 DEF SecretOf, CodesOf, CarriesCodes, CarriesSecret, NewSecret, NewCodes, Locking
  <2>2. req[h].update.secret # None
    BY <1>1, <1>4, <1>7 DEF WriteLinks, Whole
  <2>. QED
    BY <1>1, <1>2, <1>4, <1>5, <1>6, <1>7, <2>1, <2>2 DEF Writes, NewToAll
<1>8. CASE req[h].flow = "regenerate"
  <2>1. CodesOf(h) = req[h].update.codes
    BY <1>1, <1>8 DEF CodesOf, CarriesCodes, NewCodes
  <2>. QED
    BY <1>1, <1>2, <1>4, <1>5, <1>6, <1>8, <2>1 DEF Writes, WriteLinks
<1>9. CASE req[h].flow \in {"disable", "reset", "challenge", "reencrypt"}
  <2>1. CodesOf(h) = {}
    BY <1>9 DEF CodesOf, CarriesCodes, CarriesSecret
  <2>2. Writes(h)
    BY <1>1, <1>2, <1>4, <1>9 DEF Writes, WriteLinks
  <2>3. req[h].update.codes \subseteq rec.codes
    BY <1>1, <1>2, <1>4, <1>9 DEF WriteLinks, Off
  <2>. QED
    BY <1>1, <1>2, <1>5, <1>9, <2>1, <2>2, <2>3
<1>. QED
  BY <1>3, <1>7, <1>8, <1>9 DEF Rewriting

-----------------------------------------------------------------------------
(* New secrets and codes are in one place at a time *)

LEMMA SourceElse ==
  ASSUME SourceLinks, NEW h \in Handlers, Moved(h), NEW g \in Handlers \ {h}
  PROVE  SecretOf(g)' = SecretOf(g) /\ CodesOf(g)' = CodesOf(g)
BY DEF Moved, SecretOf, CodesOf, CarriesSecret, CarriesCodes, NewSecret, NewCodes

(* What the set-up and h hold after a step. *)
LEMMA SourceQuiet ==
  ASSUME SourceLinks, rec' = rec, seen'.printed = seen.printed, seen.drawn \subseteq seen'.drawn,
         redis'.setup \in {redis.setup, None},
         \A g \in Handlers : SecretOf(g)' \in {SecretOf(g), None},
         \A g \in Handlers : CodesOf(g)' \in {CodesOf(g), {}}
  PROVE  SourceLinks'
<1>1. \A g \in Handlers : NewToAll(SecretOf(g), CodesOf(g))'
  <2>1. \A g \in Handlers : NewToAll(SecretOf(g), CodesOf(g))
    BY DEF SourceLinks
  <2>. QED
    BY <2>1 DEF NewToAll
<1>2. \A g, k \in Handlers : g # k => Apart(SecretOf(g), CodesOf(g), SecretOf(k), CodesOf(k))'
  <2>1. \A g, k \in Handlers : g # k => Apart(SecretOf(g), CodesOf(g), SecretOf(k), CodesOf(k))
    BY DEF SourceLinks
  <2>. QED
    BY <2>1 DEF Apart
<1>3. redis'.setup # None => NewToAll(redis.setup.secret, redis.setup.codes)'
  BY DEF SourceLinks, NewToAll
<1>4. redis'.setup # None =>
        \A g \in Handlers : Apart(SecretOf(g), CodesOf(g), redis.setup.secret, redis.setup.codes)'
  <2>1. redis.setup # None =>
          \A g \in Handlers : Apart(SecretOf(g), CodesOf(g), redis.setup.secret, redis.setup.codes)
    BY DEF SourceLinks
  <2>. QED
    BY <2>1 DEF Apart
<1>5. seen'.printed \subseteq seen'.drawn /\ (rec'.secret # None => rec'.secret \in seen'.drawn)
  BY DEF SourceLinks
<1>. QED
  BY <1>1, <1>2, <1>3, <1>4, <1>5 DEF SourceLinks

(* h holds what was just drawn. *)
LEMMA SourceFresh ==
  ASSUME TypeInv, SourceLinks, NEW h \in Handlers, Moved(h), rec' = rec, seen'.printed = seen.printed,
         redis'.setup = redis.setup,
         NEW s, NEW D, SecretOf(h)' = s, CodesOf(h)' = D,
         s = None \/ s \notin seen.drawn, D \cap seen.drawn = {},
         seen'.drawn \subseteq seen.drawn \cup {s} \cup D, seen.drawn \subseteq seen'.drawn,
         s = None \/ s \in seen'.drawn, D \subseteq seen'.drawn
  PROVE  SourceLinks'
<1>1. \A g \in Handlers \ {h} : SecretOf(g)' = SecretOf(g) /\ CodesOf(g)' = CodesOf(g)
  BY SourceElse
<1>2. /\ \A g \in Handlers : NewToAll(SecretOf(g), CodesOf(g))
      /\ \A g, k \in Handlers : g # k => Apart(SecretOf(g), CodesOf(g), SecretOf(k), CodesOf(k))
      /\ redis.setup # None =>
           /\ NewToAll(redis.setup.secret, redis.setup.codes)
           /\ \A g \in Handlers : Apart(SecretOf(g), CodesOf(g), redis.setup.secret, redis.setup.codes)
      /\ seen.printed \subseteq seen.drawn /\ (rec.secret # None => rec.secret \in seen.drawn)
  BY DEF SourceLinks
<1>3. NewToAll(SecretOf(h), CodesOf(h))'
  BY <1>2 DEF NewToAll
<1>4. \A g \in Handlers \ {h} :
        /\ NewToAll(SecretOf(g), CodesOf(g))'
        /\ Apart(SecretOf(g), CodesOf(g), SecretOf(h), CodesOf(h))'
        /\ Apart(SecretOf(h), CodesOf(h), SecretOf(g), CodesOf(g))'
  BY <1>1, <1>2 DEF NewToAll, Apart
<1>5. \A g, k \in Handlers \ {h} :
        g # k => Apart(SecretOf(g), CodesOf(g), SecretOf(k), CodesOf(k))'
  BY <1>1, <1>2 DEF Apart
<1>6. redis'.setup # None =>
        /\ NewToAll(redis.setup.secret, redis.setup.codes)'
        /\ Apart(SecretOf(h), CodesOf(h), redis.setup.secret, redis.setup.codes)'
        /\ \A g \in Handlers \ {h} :
             Apart(SecretOf(g), CodesOf(g), redis.setup.secret, redis.setup.codes)'
  BY <1>1, <1>2 DEF NewToAll, Apart
<1>7. seen'.printed \subseteq seen'.drawn /\ (rec'.secret # None => rec'.secret \in seen'.drawn)
  BY <1>2
<1>8. \A g \in Handlers :
        /\ NewToAll(SecretOf(g), CodesOf(g))'
        /\ redis'.setup # None =>
             Apart(SecretOf(g), CodesOf(g), redis.setup.secret, redis.setup.codes)'
  BY <1>3, <1>4, <1>6
<1>9. \A g, k \in Handlers : g # k => Apart(SecretOf(g), CodesOf(g), SecretOf(k), CodesOf(k))'
  BY <1>4, <1>5
<1>. QED
  BY <1>6, <1>7, <1>8, <1>9 DEF SourceLinks

(* h stores what it holds, or takes the set-up. *)
LEMMA SourceMoves ==
  ASSUME TypeInv, SourceLinks, NEW h \in Handlers, Moved(h), rec' = rec, seen'.printed = seen.printed,
         seen'.drawn = seen.drawn,
         \/ /\ redis'.setup # None => redis'.setup.secret = SecretOf(h) /\ redis'.setup.codes = CodesOf(h)
            /\ SecretOf(h)' = None /\ CodesOf(h)' = {}
         \/ /\ redis'.setup = None /\ redis.setup # None
            /\ SecretOf(h)' = redis.setup.secret /\ CodesOf(h)' = redis.setup.codes
  PROVE  SourceLinks'
<1>1. \A g \in Handlers \ {h} : SecretOf(g)' = SecretOf(g) /\ CodesOf(g)' = CodesOf(g)
  BY SourceElse
<1>2. /\ \A g \in Handlers : NewToAll(SecretOf(g), CodesOf(g))
      /\ \A g, k \in Handlers : g # k => Apart(SecretOf(g), CodesOf(g), SecretOf(k), CodesOf(k))
      /\ redis.setup # None =>
           /\ NewToAll(redis.setup.secret, redis.setup.codes)
           /\ \A g \in Handlers : Apart(SecretOf(g), CodesOf(g), redis.setup.secret, redis.setup.codes)
      /\ seen.printed \subseteq seen.drawn /\ (rec.secret # None => rec.secret \in seen.drawn)
  BY DEF SourceLinks
<1>3. \A g \in Handlers : NewToAll(SecretOf(g), CodesOf(g))'
  BY <1>1, <1>2 DEF NewToAll
<1>4. \A g \in Handlers \ {h} :
        /\ Apart(SecretOf(g), CodesOf(g), SecretOf(h), CodesOf(h))'
        /\ Apart(SecretOf(h), CodesOf(h), SecretOf(g), CodesOf(g))'
  BY <1>1, <1>2 DEF Apart
<1>5. \A g, k \in Handlers \ {h} :
        g # k => Apart(SecretOf(g), CodesOf(g), SecretOf(k), CodesOf(k))'
  BY <1>1, <1>2 DEF Apart
<1>6. redis'.setup # None =>
        /\ NewToAll(redis.setup.secret, redis.setup.codes)'
        /\ Apart(SecretOf(h), CodesOf(h), redis.setup.secret, redis.setup.codes)'
        /\ \A g \in Handlers \ {h} :
             Apart(SecretOf(g), CodesOf(g), redis.setup.secret, redis.setup.codes)'
  BY <1>1, <1>2 DEF NewToAll, Apart
<1>7. seen'.printed \subseteq seen'.drawn /\ (rec'.secret # None => rec'.secret \in seen'.drawn)
  BY <1>2
<1>8. \A g \in Handlers :
        redis'.setup # None =>
          Apart(SecretOf(g), CodesOf(g), redis.setup.secret, redis.setup.codes)'
  BY <1>6
<1>9. \A g, k \in Handlers : g # k => Apart(SecretOf(g), CodesOf(g), SecretOf(k), CodesOf(k))'
  BY <1>4, <1>5
<1>. QED
  BY <1>3, <1>6, <1>7, <1>8, <1>9 DEF SourceLinks

(* h writes what it holds. *)
LEMMA SourceWritten ==
  ASSUME TypeInv, SourceLinks, NEW h \in Handlers, Moved(h),
         rec'.secret \in {rec.secret, None, SecretOf(h)},
         seen'.printed = seen.printed \cup CodesOf(h), seen'.drawn = seen.drawn,
         redis'.setup = redis.setup, SecretOf(h)' = None, CodesOf(h)' = {}
  PROVE  SourceLinks'
<1>1. \A g \in Handlers \ {h} : SecretOf(g)' = SecretOf(g) /\ CodesOf(g)' = CodesOf(g)
  BY SourceElse
<1>2. /\ \A g \in Handlers : NewToAll(SecretOf(g), CodesOf(g))
      /\ \A g, k \in Handlers : g # k => Apart(SecretOf(g), CodesOf(g), SecretOf(k), CodesOf(k))
      /\ redis.setup # None =>
           /\ NewToAll(redis.setup.secret, redis.setup.codes)
           /\ \A g \in Handlers : Apart(SecretOf(g), CodesOf(g), redis.setup.secret, redis.setup.codes)
      /\ seen.printed \subseteq seen.drawn /\ (rec.secret # None => rec.secret \in seen.drawn)
  BY DEF SourceLinks
<1>3. \A g \in Handlers : NewToAll(SecretOf(g), CodesOf(g))'
  <2>1. \A g \in Handlers \ {h} : NewToAll(SecretOf(g), CodesOf(g))'
    BY <1>1, <1>2 DEF NewToAll, Apart
  <2>2. NewToAll(SecretOf(h), CodesOf(h))'
    BY DEF NewToAll
  <2>. QED
    BY <2>1, <2>2
<1>4. \A g \in Handlers \ {h} :
        /\ Apart(SecretOf(g), CodesOf(g), SecretOf(h), CodesOf(h))'
        /\ Apart(SecretOf(h), CodesOf(h), SecretOf(g), CodesOf(g))'
  BY DEF Apart
<1>5. \A g, k \in Handlers \ {h} :
        g # k => Apart(SecretOf(g), CodesOf(g), SecretOf(k), CodesOf(k))'
  BY <1>1, <1>2 DEF Apart
<1>6. redis'.setup # None =>
        /\ NewToAll(redis.setup.secret, redis.setup.codes)'
        /\ Apart(SecretOf(h), CodesOf(h), redis.setup.secret, redis.setup.codes)'
        /\ \A g \in Handlers \ {h} :
             Apart(SecretOf(g), CodesOf(g), redis.setup.secret, redis.setup.codes)'
  BY <1>1, <1>2 DEF NewToAll, Apart
<1>7. seen'.printed \subseteq seen'.drawn /\ (rec'.secret # None => rec'.secret \in seen'.drawn)
  BY <1>2 DEF NewToAll
<1>8. \A g \in Handlers :
        redis'.setup # None =>
          Apart(SecretOf(g), CodesOf(g), redis.setup.secret, redis.setup.codes)'
  BY <1>6
<1>9. \A g, k \in Handlers : g # k => Apart(SecretOf(g), CodesOf(g), SecretOf(k), CodesOf(k))'
  BY <1>4, <1>5
<1>. QED
  BY <1>3, <1>6, <1>7, <1>8, <1>9 DEF SourceLinks

(* The set-up stays, and what h carries, if anything, it carried before.    *)
Carrying == {"setupClaim", "setupReread", "setupStore", "write"} \cup Locking

SourceApart(h) ==
  /\ Moved(h) /\ redis'.setup = redis.setup
  /\ req'[h].pc \in Carrying /\ req'[h].flow \in {"setup", "enable", "regenerate"} =>
       /\ req'[h].pc # "write" /\ req[h].pc # "write"
       /\ req[h].pc \in Carrying /\ req'[h].flow = req[h].flow /\ req'[h].data = req[h].data
       /\ req'[h].pc \in Locking => req[h].pc \in Locking

LEMMA SourceClasses ==
  ASSUME TypeInv, NEW h \in Handlers, Handle(h)
  PROVE  SourceApart(h) \/ Clear(h) \/ SetupRead(h) \/ SetupClaim(h) \/ SetupStore(h) \/
         EnableTake(h) \/ TransitionRead(h) \/ TransitionWrite(h)
<1>1. CASE Begun(h)
  BY <1>1, BegunOutline DEF SourceApart, Carrying, Locking
<1>2. CASE LoginStoreTemp(h)
  BY <1>2, LoginStoreOutline DEF SourceApart, Carrying, Locking, Ends, Idle, Advances, SameFlow, SameHeld, KeysBut, SeenBut
<1>3. CASE ChallengeCheckEpoch(h)
  BY <1>3, CheckEpochOutline DEF SourceApart, Carrying, Locking, Ends, Idle, Advances, SameFlow, SameHeld, KeysBut, SeenBut, ChallengeCheckEpoch, At
<1>4. CASE Fetch(h)
  BY <1>4, FetchOutline DEF SourceApart, Carrying, Locking, Fetched, Ends, Idle, Advances, SameFlow, SameHeld, KeysBut, SeenBut, Fetch, At
<1>5. CASE Lockout(h)
  BY <1>5, LockoutOutline DEF SourceApart, Carrying, Locking, Ends, Idle, Advances, SameFlow, SameHeld, KeysBut, SeenBut, Lockout, At
<1>6. CASE Compare(h)
  BY <1>6, CompareOutline DEF SourceApart, Carrying, Locking, Refused, Ends, Idle, Advances, SameFlow, SameHeld, KeysBut, SeenBut
<1>7. CASE VerifyTotp(h)
  <2>1. redis'.setup = redis.setup
    BY <1>7, VerifyTotpOutline DEF Refused, Accepted, MarkedNow, KeysBut, SeenBut
  <2>2. Moved(h) /\ (req'[h].pc \in Carrying /\ req'[h].flow \in {"setup", "enable", "regenerate"} =>
       /\ req'[h].pc # "write" /\ req[h].pc # "write"
       /\ req[h].pc \in Carrying /\ req'[h].flow = req[h].flow /\ req'[h].data = req[h].data
       /\ req'[h].pc \in Locking => req[h].pc \in Locking)
    BY <1>7, VerifyTotpMoves DEF Carrying, Locking, SameHeld, Ends, Idle, Advances, SameFlow
  <2>. QED
    BY <2>1, <2>2 DEF SourceApart
<1>8. CASE VerifyLegacy(h)
  <2>1. redis'.setup = redis.setup
    BY <1>8, VerifyLegacyOutline DEF Refused, Accepted, MarkedNow, KeysBut, SeenBut
  <2>2. Moved(h) /\ (req'[h].pc \in Carrying /\ req'[h].flow \in {"setup", "enable", "regenerate"} =>
       /\ req'[h].pc # "write" /\ req[h].pc # "write"
       /\ req[h].pc \in Carrying /\ req'[h].flow = req[h].flow /\ req'[h].data = req[h].data
       /\ req'[h].pc \in Locking => req[h].pc \in Locking)
    BY <1>8, VerifyLegacyMoves DEF Carrying, Locking, SameHeld, Ends, Idle, Advances, SameFlow
  <2>. QED
    BY <2>1, <2>2 DEF SourceApart
<1>9. CASE VerifyRecovery(h)
  BY <1>9, VerifyRecoveryOutline DEF SourceApart, Carrying, Locking, Refused, Ends, Idle, Advances, SameFlow, SameHeld, KeysBut, SeenBut
<1>10. CASE Fail(h)
  <2>1. redis'.setup = redis.setup
    BY <1>10, FailOutline DEF KeysBut, SeenBut
  <2>2. Moved(h) /\ (req'[h].pc \in Carrying /\ req'[h].flow \in {"setup", "enable", "regenerate"} =>
       /\ req'[h].pc # "write" /\ req[h].pc # "write"
       /\ req[h].pc \in Carrying /\ req'[h].flow = req[h].flow /\ req'[h].data = req[h].data
       /\ req'[h].pc \in Locking => req[h].pc \in Locking)
    BY <1>10, FailMoves DEF Carrying, Locking, SameHeld, Ends, Idle, Advances, SameFlow
  <2>. QED
    BY <2>1, <2>2 DEF SourceApart
<1>11. CASE Consume(h)
  <2>1. redis'.setup = redis.setup
    BY <1>11, ConsumeOutline DEF KeysBut, SeenBut
  <2>2. Moved(h) /\ (req'[h].pc \in Carrying /\ req'[h].flow \in {"setup", "enable", "regenerate"} =>
       /\ req'[h].pc # "write" /\ req[h].pc # "write"
       /\ req[h].pc \in Carrying /\ req'[h].flow = req[h].flow /\ req'[h].data = req[h].data
       /\ req'[h].pc \in Locking => req[h].pc \in Locking)
    BY <1>11, ConsumeMoves DEF Carrying, Locking, SameHeld, Ends, Idle, Advances, SameFlow
  <2>. QED
    BY <2>1, <2>2 DEF SourceApart
<1>12. CASE SetupReread(h)
  BY <1>12, RereadOutline DEF SourceApart, Carrying, Locking, Ends, Idle, Advances, SameFlow, SameHeld, KeysBut, SeenBut, SetupReread, At
<1>13. CASE EnableRead(h)
  BY <1>13, EnableReadOutline DEF SourceApart, Carrying, Locking, Ends, Idle, Advances, SameFlow, SameHeld, KeysBut, SeenBut, EnableRead, At
<1>14. CASE TakeScoped(h)
  <2>1. redis'.setup = redis.setup
    BY <1>14, TakeScopedOutline DEF KeysBut, SeenBut
  <2>2. Moved(h) /\ (req'[h].pc \in Carrying /\ req'[h].flow \in {"setup", "enable", "regenerate"} =>
       /\ req'[h].pc # "write" /\ req[h].pc # "write"
       /\ req[h].pc \in Carrying /\ req'[h].flow = req[h].flow /\ req'[h].data = req[h].data
       /\ req'[h].pc \in Locking => req[h].pc \in Locking)
    BY <1>14, TakeScopedMoves DEF Carrying, Locking, SameHeld, Ends, Idle, Advances, SameFlow
  <2>. QED
    BY <2>1, <2>2 DEF SourceApart
<1>15. CASE TakeLegacy(h)
  BY <1>15, TakeLegacyOutline DEF SourceApart, Carrying, Locking, Ends, Idle, Advances, SameFlow, SameHeld, KeysBut, SeenBut
<1>16. CASE Rollback(h)
  BY <1>16, RollbackOutline DEF SourceApart, Carrying, Locking, Frees, Forgets, Ends, Idle, Advances, SameFlow, SameHeld, KeysBut, SeenBut
<1>17. CASE Unlock(h)
  BY <1>17, UnlockOutline DEF SourceApart, Carrying, Locking, Frees, Leaves, Forgets, Ends, Idle, Advances, SameFlow, SameHeld, KeysBut, SeenBut
<1>18. CASE UnlockLegacy(h)
  BY <1>18, UnlockLegacyOutline DEF SourceApart, Carrying, Locking, Frees, Leaves, Forgets, Ends, Idle, Advances, SameFlow, SameHeld, KeysBut, SeenBut
<1>19. CASE Bump(h)
  BY <1>19, BumpOutline DEF SourceApart, Carrying, Locking, Ends, Idle, Advances, SameFlow, SameHeld, KeysBut, SeenBut
<1>20. CASE Issue(h)
  BY <1>20, IssueOutline DEF SourceApart, Carrying, Locking, Ends, Idle, Advances, SameFlow, SameHeld, KeysBut, SeenBut, Issue, At
<1>. QED
  BY <1>1, <1>2, <1>3, <1>4, <1>5, <1>6, <1>7, <1>8, <1>9, <1>10, <1>11, <1>12, <1>13, <1>14, <1>15, <1>16, <1>17, <1>18, <1>19, <1>20 DEF Handle, Begun

LEMMA QuietHandler ==
  ASSUME TypeInv, SourceLinks, NEW h \in Handlers, Moved(h), rec' = rec,
         seen'.printed = seen.printed, seen.drawn \subseteq seen'.drawn,
         redis'.setup \in {redis.setup, None},
         SecretOf(h)' \in {SecretOf(h), None}, CodesOf(h)' \in {CodesOf(h), {}}
  PROVE  SourceLinks'
<1>1. \A g \in Handlers \ {h} : SecretOf(g)' = SecretOf(g) /\ CodesOf(g)' = CodesOf(g)
  BY SourceElse
<1>. QED
  BY <1>1, SourceQuiet

LEMMA ApartCarries ==
  ASSUME TypeInv, NEW h \in Handlers, SourceApart(h)
  PROVE  SecretOf(h)' \in {SecretOf(h), None} /\ CodesOf(h)' \in {CodesOf(h), {}}
<1>. FlowLinks(req[h])
  BY DEF TypeInv
<1>1. CASE CarriesSecret(h)'
  <2>1. /\ req'[h].pc \in Carrying /\ req'[h].flow \in {"setup", "enable"}
        /\ req'[h].pc # "write" /\ req[h].pc # "write"
        /\ req[h].pc \in Carrying /\ req'[h].flow = req[h].flow /\ req'[h].data = req[h].data
        /\ req'[h].pc \in Locking => req[h].pc \in Locking
    BY <1>1 DEF SourceApart, CarriesSecret, Carrying
  <2>2. CarriesSecret(h)
    <3>1. CASE req[h].flow = "setup"
      <4>1. req[h].pc \notin Locking
        BY <3>1 DEF FlowLinks, Changing, Locking, Rewriting
      <4>. QED
        BY <2>1, <3>1, <4>1 DEF CarriesSecret, Carrying
    <3>2. CASE req[h].flow = "enable"
      BY <1>1, <2>1, <3>2 DEF CarriesSecret
    <3>. QED
      BY <2>1, <3>1, <3>2
  <2>. QED
    BY <1>1, <2>1, <2>2 DEF SecretOf, CodesOf, CarriesCodes, NewSecret, NewCodes
<1>2. CASE ~CarriesSecret(h)' /\ CarriesCodes(h)'
  <2>1. /\ req'[h].pc \in Locking \cup {"write"} /\ req'[h].flow = "regenerate"
    BY <1>2 DEF CarriesCodes
  <2>2. /\ req'[h].pc # "write" /\ req[h].pc # "write"
        /\ req'[h].flow = req[h].flow /\ req'[h].data = req[h].data
        /\ req[h].pc \in Locking
    BY <2>1 DEF SourceApart, Carrying
  <2>3. CarriesCodes(h)
    BY <2>1, <2>2 DEF CarriesCodes
  <2>. QED
    BY <1>2, <2>1, <2>2, <2>3 DEF SecretOf, CodesOf, NewCodes
<1>3. CASE ~CarriesSecret(h)' /\ ~CarriesCodes(h)'
  BY <1>3 DEF SecretOf, CodesOf
<1>. QED
  BY <1>1, <1>2, <1>3

LEMMA ClearSources ==
  ASSUME TypeInv, SourceLinks, NEW h \in Handlers, Handle(h), Clear(h)
  PROVE  SourceLinks'
<1>1. /\ req[h].pc = "clear" /\ Moved(h) /\ rec' = rec /\ seen'.printed = seen.printed
      /\ seen.drawn \subseteq seen'.drawn /\ redis'.setup = redis.setup
  <2>1. req[h].pc = "clear" /\ Moved(h)
    BY ClearMoves DEF Advances
  <2>2. ~TransitionWrite(h)
    BY <2>1 DEF TransitionWrite, At
  <2>3. redis'.setup = redis.setup
    BY ClearOutline DEF KeysBut
  <2>. QED
    BY <2>1, <2>2, <2>3, HandleHistory
<1>2. CASE req'[h].pc # "lock" \/ req'[h].flow # "regenerate"
  <2>1. \/ req'[h].pc \in {"consume", "setupRead"}
        \/ req'[h].pc = "lock" /\ req'[h].flow = "disable"
    BY <1>2, ClearMoves DEF Advances
  <2>2. SecretOf(h)' = None /\ CodesOf(h)' = {}
    BY <2>1 DEF SecretOf, CodesOf, CarriesSecret, CarriesCodes, Locking
  <2>. QED
    BY <1>1, <2>2, QuietHandler
<1>3. CASE req'[h].pc = "lock" /\ req'[h].flow = "regenerate"
  <2>1. /\ req'[h].data.codes \subseteq Codes \ seen.drawn
        /\ seen'.drawn = seen.drawn \cup req'[h].data.codes
    <3>1. \/ Advances(h, "clear", "consume") \/ Advances(h, "clear", "setupRead")
          \/ /\ req'[h].flow = req[h].flow
             /\ \/ req[h].flow = "disable"
                \/ /\ req'[h].data.codes \subseteq Codes \ seen.drawn
                   /\ seen'.drawn = seen.drawn \cup req'[h].data.codes
      BY ClearOutline
    <3>. QED
      BY <1>3, <3>1 DEF Advances
  <2>2. SecretOf(h)' = None /\ CodesOf(h)' = req'[h].data.codes
    BY <1>3 DEF SecretOf, CodesOf, CarriesSecret, CarriesCodes, NewCodes, Locking
  <2>3. PICK D : D = req'[h].data.codes
    OBVIOUS
  <2>4. /\ CodesOf(h)' = D /\ D \cap seen.drawn = {} /\ D \subseteq seen'.drawn
        /\ seen'.drawn \subseteq seen.drawn \cup {None} \cup D
    BY <2>1, <2>2, <2>3
  <2>. QED
    BY <1>1, <2>2, <2>4, SourceFresh
<1>. QED
  BY <1>2, <1>3

LEMMA SetupReadSources ==
  ASSUME TypeInv, SourceLinks, NEW h \in Handlers, Handle(h), SetupRead(h)
  PROVE  SourceLinks'
<1>1. /\ req[h].pc = "setupRead" /\ Moved(h) /\ rec' = rec /\ seen'.printed = seen.printed
      /\ seen.drawn \subseteq seen'.drawn /\ redis' = redis
  <2>1. req[h].pc = "setupRead" /\ redis' = redis
    BY DEF SetupRead, At
  <2>2. ~TransitionWrite(h)
    BY <2>1 DEF TransitionWrite, At
  <2>. QED
    BY <2>1, <2>2, HandleHistory
<1>2. CASE Ends(h)
  <2>1. SecretOf(h)' = None /\ CodesOf(h)' = {}
    BY <1>2 DEF Ends, Idle, SecretOf, CodesOf, CarriesSecret, CarriesCodes
  <2>. QED
    BY <1>1, <2>1, QuietHandler
<1>3. CASE Prepared(h)
  <2>1. PICK s, D : s = req'[h].data.secret /\ D = req'[h].data.codes
    OBVIOUS
  <2>2. /\ s \in Secrets \ seen.drawn /\ D \subseteq Codes \ seen.drawn
        /\ seen'.drawn = seen.drawn \cup {s} \cup D
        /\ req'[h].pc = "setupClaim" /\ req'[h].flow = "setup"
    BY <1>3, <2>1, SetupReadOutline DEF Prepared, SameFlow
  <2>3. SecretOf(h)' = s /\ CodesOf(h)' = D
    BY <2>1, <2>2 DEF SecretOf, CodesOf, CarriesSecret, CarriesCodes, NewSecret, NewCodes
  <2>4. /\ s \notin seen.drawn /\ D \cap seen.drawn = {} /\ s \in seen'.drawn /\ D \subseteq seen'.drawn
        /\ seen'.drawn \subseteq seen.drawn \cup {s} \cup D
    BY <2>2
  <2>. QED
    BY <1>1, <2>3, <2>4, SourceFresh
<1>. QED
  BY <1>2, <1>3, SetupReadOutline

LEMMA StoreSources ==
  ASSUME TypeInv, SourceLinks, NEW h \in Handlers, Handle(h), SetupClaim(h) \/ SetupStore(h)
  PROVE  SourceLinks'
<1>1. /\ req[h].pc \in {"setupClaim", "setupStore"} /\ req[h].flow = "setup" /\ Moved(h)
      /\ rec' = rec /\ seen' = seen
  BY SetupClaimOutline, SetupStoreOutline DEF SetupClaim, SetupStore, Ends, Advances
<1>2. SecretOf(h) = req[h].data.secret /\ CodesOf(h) = req[h].data.codes
  BY <1>1 DEF SecretOf, CodesOf, CarriesSecret, CarriesCodes, NewSecret, NewCodes
<1>3. CASE Ends(h) /\ redis'.setup = req[h].data
  <2>1. SecretOf(h)' = None /\ CodesOf(h)' = {}
    BY <1>3 DEF Ends, Idle, SecretOf, CodesOf, CarriesSecret, CarriesCodes
  <2>. QED
    BY <1>1, <1>2, <1>3, <2>1, SourceMoves
<1>4. CASE Advances(h, "setupClaim", "setupReread") /\ redis' = redis
  <2>1. SecretOf(h)' = SecretOf(h) /\ CodesOf(h)' = CodesOf(h)
    BY <1>4 DEF Advances, SameFlow, SameHeld, SecretOf, CodesOf, CarriesSecret, CarriesCodes,
       NewSecret, NewCodes, Locking
  <2>. QED
    BY <1>1, <1>4, <2>1, QuietHandler
<1>. QED
  BY <1>3, <1>4, SetupClaimOutline, SetupStoreOutline

LEMMA TakeSources ==
  ASSUME TypeInv, SourceLinks, NEW h \in Handlers, Handle(h), EnableTake(h), Clean'
  PROVE  SourceLinks'
<1>1. /\ req[h].pc = "enableTake" /\ req[h].flow = "enable" /\ Moved(h) /\ redis'.setup = None
      /\ rec' = rec /\ seen'.printed = seen.printed /\ seen'.drawn = seen.drawn
  BY EnableTakeOutline DEF EnableTake, Ends, Advances, SeenBut
<1>2. CASE Ends(h)
  <2>1. SecretOf(h)' = None /\ CodesOf(h)' = {}
    BY <1>2 DEF Ends, Idle, SecretOf, CodesOf, CarriesSecret, CarriesCodes
  <2>. QED
    BY <1>1, <2>1, QuietHandler
<1>3. CASE ~Ends(h)
  <2>1. /\ Advances(h, "enableTake", "lock") /\ redis.setup # None
        /\ seen'.crossed = (seen.crossed \/ redis.setup # req[h].data)
    BY <1>3, EnableTakeOutline
  <2>2. redis.setup = req[h].data
    BY <2>1 DEF Clean
  <2>3. req'[h].pc = "lock" /\ req'[h].flow = "enable" /\ req'[h].data = req[h].data
    BY <1>1, <2>1 DEF Advances, SameFlow, SameHeld
  <2>4. SecretOf(h)' = redis.setup.secret /\ CodesOf(h)' = redis.setup.codes
    BY <2>2, <2>3 DEF SecretOf, CodesOf, CarriesSecret, CarriesCodes, NewSecret, NewCodes, Locking
  <2>. QED
    BY <1>1, <2>1, <2>4, SourceMoves
<1>. QED
  BY <1>2, <1>3

LEMMA ReadSources ==
  ASSUME TypeInv, SourceLinks, NEW h \in Handlers, TransitionRead(h)
  PROVE  SourceLinks'
<1>1. /\ req[h].pc = "read" /\ Moved(h) /\ SameFlow(h) /\ redis' = redis /\ seen' = seen /\ rec' = rec
  BY TransitionReadOutline DEF TransitionRead
<1>2. CASE req'[h].pc = "unlock"
  <2>1. SecretOf(h)' = None /\ CodesOf(h)' = {}
    BY <1>2 DEF SecretOf, CodesOf, CarriesSecret, CarriesCodes, Locking
  <2>. QED
    BY <1>1, <2>1, QuietHandler
<1>3. CASE req'[h].pc = "write" /\ req'[h].update = Mutate(h)
  <2>1. SecretOf(h)' \in {SecretOf(h), None}
    <3>1. CASE req[h].flow = "enable"
      <4>1. Mutate(h).secret = req[h].data.secret
        BY <3>1 DEF Mutate
      <4>. QED
        BY <1>1, <1>3, <3>1, <4>1 DEF SameFlow, SecretOf, CarriesSecret, NewSecret, Locking
    <3>2. CASE req[h].flow # "enable"
      BY <1>1, <1>3, <3>2 DEF SameFlow, SecretOf, CarriesSecret
    <3>. QED
      BY <3>1, <3>2
  <2>2. CodesOf(h)' \in {CodesOf(h), {}}
    <3>1. CASE req[h].flow \in {"enable", "regenerate"}
      <4>1. Mutate(h).codes = req[h].data.codes
        <5>1. CASE req[h].flow = "enable"
          BY <5>1 DEF Mutate
        <5>2. CASE req[h].flow = "regenerate"
          <6>1. Mutate(h) # None /\ rec \in Record
            BY <1>1, <1>3, TransitionReadOutline DEF TypeInv, TypeOK
          <6>2. Mutate(h) = [rec EXCEPT !.codes = req[h].data.codes]
            BY <5>2, <6>1 DEF Mutate
          <6>. QED
            BY <6>1, <6>2 DEF Record
        <5>. QED
          BY <3>1, <5>1, <5>2
      <4>. QED
        BY <1>1, <1>3, <3>1, <4>1 DEF SameFlow, CodesOf, CarriesCodes, CarriesSecret, NewCodes, Locking
    <3>2. CASE req[h].flow \notin {"enable", "regenerate"}
      BY <1>1, <1>3, <3>2 DEF SameFlow, CodesOf, CarriesCodes, CarriesSecret
    <3>. QED
      BY <3>1, <3>2
  <2>. QED
    BY <1>1, <2>1, <2>2, QuietHandler
<1>. QED
  BY <1>2, <1>3, TransitionReadOutline

LEMMA WriteSources ==
  ASSUME TypeInv, rec.codes \subseteq seen.printed, CleanInv, NEW h \in Handlers, TransitionWrite(h), Clean'
  PROVE  SourceLinks'
<1>1. /\ Moved(h) /\ req'[h].pc = "unlock" /\ redis' = redis /\ SourceLinks
  BY TransitionWriteOutline DEF CleanInv
<1>2. CASE Written(h)
  <2>1. /\ Writes(h) /\ seen'.printed = seen.printed \cup CodesOf(h) /\ seen'.drawn = seen.drawn
        /\ SecretOf(h)' = None /\ CodesOf(h)' = {}
    BY <1>2, WritesOutline DEF Written, SeenBut
  <2>2. rec'.secret \in {rec.secret, None, SecretOf(h)}
    BY <2>1 DEF Writes, Off
  <2>. QED
    BY <1>1, <2>1, <2>2, SourceWritten
<1>3. CASE ~Written(h)
  <2>1. rec' = rec /\ seen' = seen
    BY <1>3, TransitionWriteOutline
  <2>2. SecretOf(h)' = None /\ CodesOf(h)' = {}
    BY <1>1 DEF SecretOf, CodesOf, CarriesSecret, CarriesCodes, Locking
  <2>. QED
    BY <1>1, <2>1, <2>2, QuietHandler
<1>. QED
  BY <1>2, <1>3

LEMMA SourceStep ==
  ASSUME TypeInv, rec.codes \subseteq seen.printed, CleanInv, Next, Clean'
  PROVE  SourceLinks'
<1>. SourceLinks
  BY DEF CleanInv
<1>1. CASE \E h \in Handlers : Handle(h)
  <2>1. PICK h \in Handlers : Handle(h)
    BY <1>1
  <2>2. CASE SourceApart(h) /\ ~TransitionWrite(h)
    <3>1. SecretOf(h)' \in {SecretOf(h), None} /\ CodesOf(h)' \in {CodesOf(h), {}}
      BY <2>2, ApartCarries
    <3>2. Moved(h) /\ rec' = rec /\ seen'.printed = seen.printed /\ seen.drawn \subseteq seen'.drawn
      BY <2>1, <2>2, HandleHistory
    <3>3. redis'.setup = redis.setup
      BY <2>2 DEF SourceApart
    <3>. QED
      BY <3>1, <3>2, <3>3, QuietHandler
  <2>3. CASE Clear(h)
    BY <2>1, <2>3, ClearSources
  <2>4. CASE SetupRead(h)
    BY <2>1, <2>4, SetupReadSources
  <2>5. CASE SetupClaim(h) \/ SetupStore(h)
    BY <2>1, <2>5, StoreSources
  <2>6. CASE EnableTake(h)
    BY <2>1, <2>6, TakeSources
  <2>7. CASE TransitionRead(h)
    BY <2>7, ReadSources
  <2>8. CASE TransitionWrite(h)
    BY <2>8, WriteSources
  <2>. QED
    BY <2>1, <2>2, <2>3, <2>4, <2>5, <2>6, <2>7, <2>8, SourceClasses
<1>2. CASE Lapse
  <2>1. \A g \in Handlers : SecretOf(g)' = SecretOf(g) /\ CodesOf(g)' = CodesOf(g)
    BY <1>2, LapseIdles DEF SecretOf, CodesOf, CarriesSecret, CarriesCodes, NewSecret, NewCodes
  <2>. QED
    BY <1>2, <2>1, LapseIdles, LapseHistory, SourceQuiet
<1>3. CASE Tick \/ Rest
  <2>1. req' = req /\ rec' = rec /\ redis' = redis /\ seen' = seen
    BY <1>3 DEF Tick, Rest
  <2>2. \A g \in Handlers : SecretOf(g)' = SecretOf(g) /\ CodesOf(g)' = CodesOf(g)
    BY <2>1 DEF SecretOf, CodesOf, CarriesSecret, CarriesCodes, NewSecret, NewCodes
  <2>. QED
    BY <2>1, <2>2, SourceQuiet
<1>. QED
  BY <1>1, <1>2, <1>3 DEF Next

-----------------------------------------------------------------------------
(* What is about to be written follows from the record *)

LEMMA HeldAlone ==
  ASSUME TypeInv, \A h \in Handlers : HoldLinks(h)
  PROVE  LockHeldAlone
<1>. SUFFICES ASSUME NEW h \in Handlers, NEW g \in Handlers, h # g, InTransition(h), InTransition(g)
              PROVE  Overrun(h) \/ Overrun(g)
  BY DEF LockHeldAlone
<1>1. "scoped" \in Keys
  BY DEF Keys
<1>2. Kept(h, "scoped") /\ Kept(g, "scoped")
  BY <1>1 DEF HoldLinks, InTransition, At
<1>. QED
  BY <1>1, <1>2 DEF Kept, Overrun

LEMMA OthersOverrun ==
  ASSUME TypeInv, NEW h \in Handlers, Handle(h), NEW g \in Handlers, g # h, Overrun(g), mix' = mix
  PROVE  Overrun(g)'
<1>1. PICK k \in Keys : <<g, k>> \in seen.overran
  BY DEF Overrun
<1>2. Keys' = Keys
  BY DEF Keys
<1>3. ASSUME seen'.overran = seen.overran \/ Forgets(h)
      PROVE  Overrun(g)'
  <2>1. <<g, k>> \in seen'.overran
    BY <1>1, <1>3 DEF Forgets
  <2>. QED
    BY <1>2, <2>1 DEF Overrun
<1>4. CASE LocksApart(h)
  BY <1>3, <1>4 DEF LocksApart
<1>5. CASE TakeScoped(h)
  BY <1>3, <1>5, TakeScopedOutline
<1>6. CASE TakeLegacy(h)
  BY <1>3, <1>6, TakeLegacyOutline
<1>7. CASE Rollback(h)
  BY <1>3, <1>7, RollbackOutline
<1>8. CASE Unlock(h)
  BY <1>3, <1>8, UnlockOutline DEF Leaves
<1>9. CASE UnlockLegacy(h)
  BY <1>3, <1>9, UnlockLegacyOutline DEF Leaves
<1>. QED
  BY <1>4, <1>5, <1>6, <1>7, <1>8, <1>9, LockClasses

WritesNot(h) == Moved(h) /\ req'[h].pc # "write"

LEMMA WriteClasses ==
  ASSUME TypeInv, NEW h \in Handlers, Handle(h)
  PROVE  WritesNot(h) \/ TransitionRead(h)
<1>1. CASE Begun(h)
  BY <1>1, BegunOutline DEF WritesNot
<1>2. CASE LoginStoreTemp(h)
  BY <1>2, LoginStoreOutline DEF WritesNot, Ends, Idle, Advances, SameFlow, SameHeld, KeysBut, SeenBut
<1>3. CASE ChallengeCheckEpoch(h)
  BY <1>3, CheckEpochOutline DEF WritesNot, Ends, Idle, Advances, SameFlow, SameHeld, KeysBut, SeenBut, ChallengeCheckEpoch, At
<1>4. CASE Fetch(h)
  BY <1>4, FetchOutline DEF WritesNot, Fetched, Ends, Idle, Advances, SameFlow, SameHeld, KeysBut, SeenBut, Fetch, At
<1>5. CASE Lockout(h)
  BY <1>5, LockoutOutline DEF WritesNot, Ends, Idle, Advances, SameFlow, SameHeld, KeysBut, SeenBut, Lockout, At
<1>6. CASE Compare(h)
  BY <1>6, CompareOutline DEF WritesNot, Refused, Ends, Idle, Advances, SameFlow, SameHeld, KeysBut, SeenBut
<1>7. CASE VerifyTotp(h)
  BY <1>7, VerifyTotpMoves DEF WritesNot, Ends, Idle, Advances, SameFlow
<1>8. CASE VerifyLegacy(h)
  BY <1>8, VerifyLegacyMoves DEF WritesNot, Ends, Idle, Advances, SameFlow
<1>9. CASE VerifyRecovery(h)
  BY <1>9, VerifyRecoveryOutline DEF WritesNot, Refused, Ends, Idle, Advances, SameFlow, SameHeld, KeysBut, SeenBut
<1>10. CASE Fail(h)
  BY <1>10, FailMoves DEF WritesNot, Ends, Idle, Advances, SameFlow
<1>11. CASE Clear(h)
  BY <1>11, ClearMoves DEF WritesNot, Ends, Idle, Advances, SameFlow
<1>12. CASE Consume(h)
  BY <1>12, ConsumeMoves DEF WritesNot, Ends, Idle, Advances, SameFlow
<1>13. CASE SetupRead(h)
  BY <1>13, SetupReadOutline DEF WritesNot, Prepared, Ends, Idle, Advances, SameFlow, SameHeld, KeysBut, SeenBut, SetupRead, At
<1>14. CASE SetupClaim(h)
  BY <1>14, SetupClaimOutline DEF WritesNot, Ends, Idle, Advances, SameFlow, SameHeld, KeysBut, SeenBut
<1>15. CASE SetupReread(h)
  BY <1>15, RereadOutline DEF WritesNot, Ends, Idle, Advances, SameFlow, SameHeld, KeysBut, SeenBut, SetupReread, At
<1>16. CASE SetupStore(h)
  BY <1>16, SetupStoreOutline DEF WritesNot, Ends, Idle, Advances, SameFlow, SameHeld, KeysBut, SeenBut
<1>17. CASE EnableRead(h)
  BY <1>17, EnableReadOutline DEF WritesNot, Ends, Idle, Advances, SameFlow, SameHeld, KeysBut, SeenBut, EnableRead, At
<1>18. CASE EnableTake(h)
  BY <1>18, EnableTakeOutline DEF WritesNot, Ends, Idle, Advances, SameFlow, SameHeld, KeysBut, SeenBut
<1>19. CASE TakeScoped(h)
  BY <1>19, TakeScopedMoves DEF WritesNot, Ends, Idle, Advances, SameFlow
<1>20. CASE TakeLegacy(h)
  BY <1>20, TakeLegacyOutline DEF WritesNot, Ends, Idle, Advances, SameFlow, SameHeld, KeysBut, SeenBut
<1>21. CASE Rollback(h)
  BY <1>21, RollbackOutline DEF WritesNot, Frees, Forgets, Ends, Idle, Advances, SameFlow, SameHeld, KeysBut, SeenBut
<1>22. CASE TransitionWrite(h)
  BY <1>22, TransitionWriteOutline DEF WritesNot, Written, Ends, Idle, Advances, SameFlow, SameHeld, KeysBut, SeenBut
<1>23. CASE Unlock(h)
  BY <1>23, UnlockOutline DEF WritesNot, Frees, Leaves, Forgets, Ends, Idle, Advances, SameFlow, SameHeld, KeysBut, SeenBut
<1>24. CASE UnlockLegacy(h)
  BY <1>24, UnlockLegacyOutline DEF WritesNot, Frees, Leaves, Forgets, Ends, Idle, Advances, SameFlow, SameHeld, KeysBut, SeenBut
<1>25. CASE Bump(h)
  BY <1>25, BumpOutline DEF WritesNot, Ends, Idle, Advances, SameFlow, SameHeld, KeysBut, SeenBut
<1>26. CASE Issue(h)
  BY <1>26, IssueOutline DEF WritesNot, Ends, Idle, Advances, SameFlow, SameHeld, KeysBut, SeenBut, Issue, At
<1>. QED
  BY <1>1, <1>2, <1>3, <1>4, <1>5, <1>6, <1>7, <1>8, <1>9, <1>10, <1>11, <1>12, <1>13, <1>14, <1>15, <1>16, <1>17, <1>18, <1>19, <1>20, <1>21, <1>22, <1>23, <1>24, <1>25, <1>26 DEF Handle, Begun

LEMMA WriteQuiet ==
  ASSUME NEW g \in Handlers, WriteLinks(g), req'[g] = req[g],
         Overrun(g) => Overrun(g)', Overrun(g)' \/ rec' = rec
  PROVE  WriteLinks(g)'
BY DEF WriteLinks

LEMMA ReadWrites ==
  ASSUME TypeInv, NEW h \in Handlers, TransitionRead(h)
  PROVE  WriteLinks(h)'
<1>1. /\ Moved(h) /\ SameFlow(h) /\ rec' = rec /\ rec \in Record
      /\ rec.on <=> rec.secret # None
  BY TransitionReadOutline DEF TransitionRead, TypeInv, TypeOK
<1>2. CASE req'[h].pc # "write"
  BY <1>2 DEF WriteLinks
<1>3. CASE req'[h].pc = "write"
  <2>1. req'[h].update = Mutate(h) /\ Mutate(h) # None
    BY <1>3, TransitionReadOutline
  <2>2. req[h].flow \in {"disable", "reset"} => Mutate(h) = Off
    BY DEF Mutate, Cleared
  <2>3. req[h].flow = "enable" => Mutate(h).on
    BY DEF Mutate
  <2>4. req[h].flow = "challenge" =>
          /\ rec.on /\ Mutate(h).secret = rec.secret /\ req[h].proof \in rec.codes
          /\ Mutate(h).codes = rec.codes \ {req[h].proof}
    <3>. SUFFICES ASSUME req[h].flow = "challenge"
                  PROVE  /\ rec.on /\ Mutate(h).secret = rec.secret /\ req[h].proof \in rec.codes
                         /\ Mutate(h).codes = rec.codes \ {req[h].proof}
      OBVIOUS
    <3>1. Mutate(h) = Spend(h)
      BY DEF Mutate
    <3>2. StillHolds(h) /\ req[h].proof \in rec.codes
      BY <2>1, <3>1 DEF Spend
    <3>. DEFINE b == rec.stale /\ ~req[h].user.stale
    <3>3. Mutate(h) = [rec EXCEPT !.codes = rec.codes \ {req[h].proof}, !.stale = b]
      BY <3>1, <3>2 DEF Spend
    <3>. HIDE DEF b
    <3>. QED
      BY <1>1, <3>2, <3>3 DEF StillHolds, Record
  <2>5. req[h].flow = "regenerate" => rec.on /\ Mutate(h).secret = rec.secret
    BY <1>1, <2>1 DEF Mutate, Record
  <2>6. req[h].flow = "reencrypt" =>
          rec.on /\ Mutate(h).secret = rec.secret /\ Mutate(h).codes = rec.codes
    BY <1>1, <2>1 DEF Mutate, StillHolds, Record
  <2>7. req'[h].flow = req[h].flow /\ req'[h].proof = req[h].proof
    BY <1>1 DEF SameFlow
  <2>. QED
    BY <1>1, <2>1, <2>2, <2>3, <2>4, <2>5, <2>6, <2>7 DEF WriteLinks
<1>. QED
  BY <1>2, <1>3

LEMMA WriteStep ==
  ASSUME TypeInv, \A h \in Handlers : HoldLinks(h), rec.codes \subseteq seen.printed, CleanInv,
         Next, Clean', NEW g \in Handlers
  PROVE  WriteLinks(g)'
<1>. WriteLinks(g) /\ mix' = mix /\ Keys' = Keys
  BY DEF CleanInv, Next, Keys
<1>1. CASE \E h \in Handlers : Handle(h)
  <2>1. PICK h \in Handlers : Handle(h)
    BY <1>1
  <2>2. CASE g = h
    BY <2>1, <2>2, WriteClasses, ReadWrites DEF WritesNot, WriteLinks
  <2>3. CASE g # h
    <3>1. req'[g] = req[g] /\ (Overrun(g) => Overrun(g)')
      BY <2>1, <2>3, HandleHistory, OthersOverrun DEF Moved
    <3>2. CASE rec' = rec
      BY <3>1, <3>2, WriteQuiet
    <3>3. CASE req[g].pc # "write"
      BY <3>1, <3>3 DEF WriteLinks
    <3>4. CASE rec' # rec /\ req[g].pc = "write"
      <4>1. TransitionWrite(h) /\ Written(h)
        BY <2>1, <3>4, HandleHistory, TransitionWriteOutline
      <4>2. ~Overrun(h) /\ req[h].pc = "write"
        BY <4>1, WritesOutline, TransitionWriteOutline
      <4>3. Overrun(g)
        BY <2>3, <3>4, <4>2, HeldAlone DEF LockHeldAlone, InTransition, At
      <4>. QED
        BY <3>1, <4>3, WriteQuiet
    <3>. QED
      BY <3>2, <3>3, <3>4
  <2>. QED
    BY <2>2, <2>3
<1>2. CASE Lapse
  <2>1. req' = req /\ rec' = rec /\ seen.overran \subseteq seen'.overran
    BY <1>2, LapseIdles, LapseHistory
  <2>2. Overrun(g) => Overrun(g)'
    BY <2>1 DEF Overrun
  <2>. QED
    BY <2>1, <2>2, WriteQuiet
<1>3. CASE Tick \/ Rest
  <2>1. req' = req /\ rec' = rec /\ seen' = seen
    BY <1>3 DEF Tick, Rest
  <2>2. Overrun(g) => Overrun(g)'
    BY <2>1 DEF Overrun
  <2>. QED
    BY <2>1, <2>2, WriteQuiet
<1>. QED
  BY <1>1, <1>2, <1>3 DEF Next

-----------------------------------------------------------------------------
(* The codes a challenge first read *)

(* The record loses codes, or is given codes nobody has seen. *)
LEMMA RecordMoves ==
  ASSUME TypeInv, \A h \in Handlers : HoldLinks(h), rec.codes \subseteq seen.printed, CleanInv,
         Next, Clean'
  PROVE  /\ seen.printed \subseteq seen'.printed /\ rec'.codes \subseteq seen'.printed
         /\ \/ rec'.secret = rec.secret /\ rec'.codes \subseteq rec.codes
            \/ rec'.codes \cap seen.printed = {}
<1>1. CASE rec' = rec /\ seen'.printed = seen.printed
  BY <1>1
<1>2. ASSUME NEW h \in Handlers, TransitionWrite(h), Written(h)
      PROVE  /\ seen.printed \subseteq seen'.printed /\ rec'.codes \subseteq seen'.printed
             /\ \/ rec'.secret = rec.secret /\ rec'.codes \subseteq rec.codes
                \/ rec'.codes \cap seen.printed = {}
  <2>1. /\ Writes(h) /\ seen'.printed = seen.printed \cup CodesOf(h)
        /\ CodesOf(h) \cap seen.printed = {}
    BY <1>2, WritesOutline
  <2>2. \/ rec'.secret = rec.secret /\ rec'.codes \subseteq rec.codes
        \/ rec'.codes = CodesOf(h) \/ rec'.codes = {}
    BY <2>1 DEF Writes, Off
  <2>. QED
    BY <2>1, <2>2
<1>3. ASSUME NEW h \in Handlers, Handle(h)
      PROVE  (rec' = rec /\ seen'.printed = seen.printed) \/ (TransitionWrite(h) /\ Written(h))
  BY <1>3, HandleHistory, TransitionWriteOutline
<1>4. Lapse \/ Tick \/ Rest => rec' = rec /\ seen'.printed = seen.printed
  BY LapseIdles, LapseHistory DEF Tick, Rest
<1>. QED
  BY <1>1, <1>2, <1>3, <1>4 DEF Next

Learned == {"verify", "verifyLegacy", "clear", "consume"} \cup Locking

(* h reads no record for a challenge. *)
UserApart(h) ==
  /\ Moved(h)
  /\ req'[h].flow = "challenge" /\ req'[h].pc \in Learned =>
       req[h].flow = "challenge" /\ req[h].pc \in Learned /\ req'[h].user = req[h].user

LEMMA UserClasses ==
  ASSUME TypeInv, NEW h \in Handlers, Handle(h)
  PROVE  UserApart(h) \/ Fetch(h) \/ VerifyTotp(h)
<1>1. CASE Begun(h)
  BY <1>1, BegunOutline DEF UserApart, Learned, Locking, Guarded
<1>2. CASE LoginStoreTemp(h)
  BY <1>2, LoginStoreOutline DEF UserApart, Learned, Locking, Guarded, Ends, Idle, Advances, SameFlow, SameHeld, KeysBut, SeenBut
<1>3. CASE ChallengeCheckEpoch(h)
  BY <1>3, CheckEpochOutline DEF UserApart, Learned, Locking, Guarded, Ends, Idle, Advances, SameFlow, SameHeld, KeysBut, SeenBut, ChallengeCheckEpoch, At
<1>4. CASE Lockout(h)
  BY <1>4, LockoutOutline DEF UserApart, Learned, Locking, Guarded, Ends, Idle, Advances, SameFlow, SameHeld, KeysBut, SeenBut, Lockout, At
<1>5. CASE Compare(h)
  BY <1>5, CompareOutline DEF UserApart, Learned, Locking, Guarded, Refused, Ends, Idle, Advances, SameFlow, SameHeld, KeysBut, SeenBut
<1>6. CASE VerifyLegacy(h)
  BY <1>6, VerifyLegacyMoves DEF UserApart, Learned, Locking, Verifying, SameHeld, Ends, Idle, Advances, SameFlow
<1>7. CASE VerifyRecovery(h)
  BY <1>7, VerifyRecoveryOutline DEF UserApart, Learned, Locking, Guarded, Refused, Ends, Idle, Advances, SameFlow, SameHeld, KeysBut, SeenBut
<1>8. CASE Fail(h)
  BY <1>8, FailMoves DEF UserApart, Learned, Locking, Verifying, SameHeld, Ends, Idle, Advances, SameFlow
<1>9. CASE Clear(h)
  BY <1>9, ClearMoves DEF UserApart, Learned, Locking, Verifying, SameHeld, Ends, Idle, Advances, SameFlow
<1>10. CASE Consume(h)
  BY <1>10, ConsumeMoves DEF UserApart, Learned, Locking, Verifying, SameHeld, Ends, Idle, Advances, SameFlow
<1>11. CASE SetupRead(h)
  BY <1>11, SetupReadOutline DEF UserApart, Learned, Locking, Guarded, Prepared, Ends, Idle, Advances, SameFlow, SameHeld, KeysBut, SeenBut, SetupRead, At
<1>12. CASE SetupClaim(h)
  BY <1>12, SetupClaimOutline DEF UserApart, Learned, Locking, Guarded, Ends, Idle, Advances, SameFlow, SameHeld, KeysBut, SeenBut
<1>13. CASE SetupReread(h)
  BY <1>13, RereadOutline DEF UserApart, Learned, Locking, Guarded, Ends, Idle, Advances, SameFlow, SameHeld, KeysBut, SeenBut, SetupReread, At
<1>14. CASE SetupStore(h)
  BY <1>14, SetupStoreOutline DEF UserApart, Learned, Locking, Guarded, Ends, Idle, Advances, SameFlow, SameHeld, KeysBut, SeenBut
<1>15. CASE EnableRead(h)
  BY <1>15, EnableReadOutline DEF UserApart, Learned, Locking, Guarded, Ends, Idle, Advances, SameFlow, SameHeld, KeysBut, SeenBut, EnableRead, At
<1>16. CASE EnableTake(h)
  BY <1>16, EnableTakeOutline DEF UserApart, Learned, Locking, Guarded, Ends, Idle, Advances, SameFlow, SameHeld, KeysBut, SeenBut
<1>17. CASE TakeScoped(h)
  BY <1>17, TakeScopedMoves DEF UserApart, Learned, Locking, Verifying, SameHeld, Ends, Idle, Advances, SameFlow
<1>18. CASE TakeLegacy(h)
  BY <1>18, TakeLegacyOutline DEF UserApart, Learned, Locking, Guarded, Ends, Idle, Advances, SameFlow, SameHeld, KeysBut, SeenBut
<1>19. CASE Rollback(h)
  BY <1>19, RollbackOutline DEF UserApart, Learned, Locking, Guarded, Frees, Forgets, Ends, Idle, Advances, SameFlow, SameHeld, KeysBut, SeenBut
<1>20. CASE TransitionRead(h)
  BY <1>20, TransitionReadOutline DEF UserApart, Learned, Locking, Guarded, Ends, Idle, Advances, SameFlow, SameHeld, KeysBut, SeenBut
<1>21. CASE TransitionWrite(h)
  BY <1>21, TransitionWriteOutline DEF UserApart, Learned, Locking, Guarded, Written, Ends, Idle, Advances, SameFlow, SameHeld, KeysBut, SeenBut
<1>22. CASE Unlock(h)
  BY <1>22, UnlockOutline DEF UserApart, Learned, Locking, Guarded, Frees, Leaves, Forgets, Ends, Idle, Advances, SameFlow, SameHeld, KeysBut, SeenBut
<1>23. CASE UnlockLegacy(h)
  BY <1>23, UnlockLegacyOutline DEF UserApart, Learned, Locking, Guarded, Frees, Leaves, Forgets, Ends, Idle, Advances, SameFlow, SameHeld, KeysBut, SeenBut
<1>24. CASE Bump(h)
  BY <1>24, BumpOutline DEF UserApart, Learned, Locking, Guarded, Ends, Idle, Advances, SameFlow, SameHeld, KeysBut, SeenBut
<1>25. CASE Issue(h)
  BY <1>25, IssueOutline DEF UserApart, Learned, Locking, Guarded, Ends, Idle, Advances, SameFlow, SameHeld, KeysBut, SeenBut, Issue, At
<1>. QED
  BY <1>1, <1>2, <1>3, <1>4, <1>5, <1>6, <1>7, <1>8, <1>9, <1>10, <1>11, <1>12, <1>13, <1>14, <1>15, <1>16, <1>17, <1>18, <1>19, <1>20, <1>21, <1>22, <1>23, <1>24, <1>25 DEF Handle, Begun

LEMMA VerifyTotpUser ==
  ASSUME TypeInv, NEW h \in Handlers, VerifyTotp(h)
  PROVE  UserApart(h)
<1>1. /\ req[h].pc = "verify"
      /\ \/ Refused(h) \/ Accepted(h)
         \/ /\ Moved(h) /\ SameFlow(h) /\ req'[h].pc = "verifyLegacy"
            /\ req'[h].user = req[h].user
  BY VerifyTotpOutline
<1>2. CASE Refused(h)
  BY <1>1, <1>2 DEF Refused, UserApart, Ends, Idle, Advances, SameFlow, SameHeld, Learned, Locking
<1>3. CASE Accepted(h)
  BY <1>1, <1>3 DEF Accepted, UserApart, Advances, SameFlow, SameHeld, Learned, Locking
<1>4. CASE Moved(h) /\ SameFlow(h) /\ req'[h].pc = "verifyLegacy" /\ req'[h].user = req[h].user
  BY <1>1, <1>4 DEF UserApart, SameFlow, Learned
<1>. QED
  BY <1>1, <1>2, <1>3, <1>4

LEMMA UserStep ==
  ASSUME TypeInv, \A h \in Handlers : HoldLinks(h), rec.codes \subseteq seen.printed, CleanInv,
         Next, Clean', NEW g \in Handlers
  PROVE  UserLinks(g)'
<1>0. UserLinks(g)
  BY DEF CleanInv
<1>1. /\ seen.printed \subseteq seen'.printed
      /\ \/ rec'.secret = rec.secret /\ rec'.codes \subseteq rec.codes
         \/ rec'.codes \cap seen.printed = {}
  BY RecordMoves
<1>2. ASSUME req'[g].flow = "challenge" /\ req'[g].pc \in Learned =>
               req[g].flow = "challenge" /\ req[g].pc \in Learned /\ req'[g].user = req[g].user
      PROVE  UserLinks(g)'
  BY <1>0, <1>1, <1>2 DEF UserLinks, Learned
<1>3. CASE \E h \in Handlers : Handle(h)
  <2>1. PICK h \in Handlers : Handle(h)
    BY <1>3
  <2>2. CASE g # h
    BY <1>2, <2>1, <2>2, HandleHistory DEF Moved
  <2>3. CASE g = h /\ UserApart(h)
    BY <1>2, <2>3 DEF UserApart
  <2>4. CASE g = h /\ Fetch(h)
    <3>1. Ends(h) \/ Fetched(h)
      BY <2>4, FetchOutline
    <3>2. CASE Ends(h)
      BY <1>2, <2>4, <3>2 DEF Ends, Idle
    <3>3. CASE Fetched(h)
      <4>1. rec' = rec /\ req'[g].user = rec /\ seen' = seen
        BY <2>4, <3>3 DEF Fetch, Fetched
      <4>. QED
        BY <4>1 DEF UserLinks
    <3>. QED
      BY <3>1, <3>2, <3>3
  <2>. QED
    BY <2>1, <2>2, <2>3, <2>4, UserClasses, VerifyTotpUser
<1>4. CASE Lapse \/ Tick \/ Rest
  <2>1. req' = req
    BY <1>4, LapseIdles DEF Tick, Rest
  <2>. QED
    BY <1>2, <2>1
<1>. QED
  BY <1>3, <1>4 DEF Next

-----------------------------------------------------------------------------
(* A recovery code completes one sign-in *)

Claiming == Spending \cup {"clear", "consume"}

(* No code is claimed or used, and h neither comes to claim nor to read one. *)
ClaimApart(h) ==
  /\ Moved(h) /\ redis'.claims = redis.claims
  /\ seen'.opened = seen.opened /\ seen'.outlived = seen.outlived
  /\ ~(req'[h].flow = "challenge" /\ req'[h].pc = "verify")
  /\ req'[h].flow = "challenge" /\ req'[h].pc \in Claiming /\ req'[h].proof \in Codes =>
       /\ req[h].flow = "challenge" /\ req[h].pc \in Claiming /\ req'[h].proof = req[h].proof
       /\ req'[h].pc \in Listed => req[h].pc \in Listed /\ req'[h].user = req[h].user
       /\ Struck(h)' => Struck(h)

LEMMA ClaimClasses ==
  ASSUME TypeInv, NEW h \in Handlers, Handle(h)
  PROVE  ClaimApart(h) \/ Fetch(h) \/ VerifyTotp(h) \/ VerifyLegacy(h) \/
         VerifyRecovery(h) \/ TransitionRead(h) \/ TransitionWrite(h) \/ Issue(h)
<1>1. CASE Begun(h)
  BY <1>1, BegunOutline DEF ClaimApart, Claiming, Spending, Changing, Listed, Locking, Struck
<1>2. CASE LoginStoreTemp(h)
  BY <1>2, LoginStoreOutline DEF ClaimApart, Claiming, Spending, Changing, Listed, Locking, Struck, Ends, Idle, Advances, SameFlow, SameHeld, KeysBut, SeenBut
<1>3. CASE ChallengeCheckEpoch(h)
  BY <1>3, CheckEpochOutline DEF ClaimApart, Claiming, Spending, Changing, Listed, Locking, Struck, Ends, Idle, Advances, SameFlow, SameHeld, KeysBut, SeenBut, ChallengeCheckEpoch, At
<1>4. CASE Lockout(h)
  BY <1>4, LockoutOutline DEF ClaimApart, Claiming, Spending, Changing, Listed, Locking, Struck, Ends, Idle, Advances, SameFlow, SameHeld, KeysBut, SeenBut, Lockout, At
<1>5. CASE Compare(h)
  BY <1>5, CompareOutline DEF ClaimApart, Claiming, Spending, Changing, Listed, Locking, Struck, Refused, Ends, Idle, Advances, SameFlow, SameHeld, KeysBut, SeenBut
<1>6. CASE Fail(h)
  <2>1. redis'.claims = redis.claims /\ seen'.opened = seen.opened /\ seen'.outlived = seen.outlived
    BY <1>6, FailOutline DEF KeysBut, SeenBut
  <2>2. /\ Moved(h) /\ ~(req'[h].flow = "challenge" /\ req'[h].pc = "verify")
        /\ req'[h].flow = "challenge" /\ req'[h].pc \in Claiming /\ req'[h].proof \in Codes =>
             /\ req[h].flow = "challenge" /\ req[h].pc \in Claiming /\ req'[h].proof = req[h].proof
             /\ req'[h].pc \in Listed => req[h].pc \in Listed /\ req'[h].user = req[h].user
             /\ Struck(h)' => Struck(h)
    BY <1>6, FailMoves DEF Claiming, Spending, Changing, Listed, Locking, Struck, SameHeld, Guarded, Ends, Idle, Advances, SameFlow
  <2>. QED
    BY <2>1, <2>2 DEF ClaimApart
<1>7. CASE Clear(h)
  <2>1. redis'.claims = redis.claims /\ seen'.opened = seen.opened /\ seen'.outlived = seen.outlived
    BY <1>7, ClearOutline DEF KeysBut, SeenBut
  <2>2. /\ Moved(h) /\ ~(req'[h].flow = "challenge" /\ req'[h].pc = "verify")
        /\ req'[h].flow = "challenge" /\ req'[h].pc \in Claiming /\ req'[h].proof \in Codes =>
             /\ req[h].flow = "challenge" /\ req[h].pc \in Claiming /\ req'[h].proof = req[h].proof
             /\ req'[h].pc \in Listed => req[h].pc \in Listed /\ req'[h].user = req[h].user
             /\ Struck(h)' => Struck(h)
    BY <1>7, ClearMoves DEF Claiming, Spending, Changing, Listed, Locking, Struck, SameHeld, Guarded, Ends, Idle, Advances, SameFlow
  <2>. QED
    BY <2>1, <2>2 DEF ClaimApart
<1>8. CASE Consume(h)
  <2>1. redis'.claims = redis.claims /\ seen'.opened = seen.opened /\ seen'.outlived = seen.outlived
    BY <1>8, ConsumeOutline DEF KeysBut, SeenBut
  <2>2. /\ Moved(h) /\ ~(req'[h].flow = "challenge" /\ req'[h].pc = "verify")
        /\ req'[h].flow = "challenge" /\ req'[h].pc \in Claiming /\ req'[h].proof \in Codes =>
             /\ req[h].flow = "challenge" /\ req[h].pc \in Claiming /\ req'[h].proof = req[h].proof
             /\ req'[h].pc \in Listed => req[h].pc \in Listed /\ req'[h].user = req[h].user
             /\ Struck(h)' => Struck(h)
    BY <1>8, ConsumeMoves DEF Claiming, Spending, Changing, Listed, Locking, Struck, SameHeld, Guarded, Ends, Idle, Advances, SameFlow
  <2>. QED
    BY <2>1, <2>2 DEF ClaimApart
<1>9. CASE SetupRead(h)
  BY <1>9, SetupReadOutline DEF ClaimApart, Claiming, Spending, Changing, Listed, Locking, Struck, Prepared, Ends, Idle, Advances, SameFlow, SameHeld, KeysBut, SeenBut, SetupRead, At
<1>10. CASE SetupClaim(h)
  BY <1>10, SetupClaimOutline DEF ClaimApart, Claiming, Spending, Changing, Listed, Locking, Struck, Ends, Idle, Advances, SameFlow, SameHeld, KeysBut, SeenBut
<1>11. CASE SetupReread(h)
  BY <1>11, RereadOutline DEF ClaimApart, Claiming, Spending, Changing, Listed, Locking, Struck, Ends, Idle, Advances, SameFlow, SameHeld, KeysBut, SeenBut, SetupReread, At
<1>12. CASE SetupStore(h)
  BY <1>12, SetupStoreOutline DEF ClaimApart, Claiming, Spending, Changing, Listed, Locking, Struck, Ends, Idle, Advances, SameFlow, SameHeld, KeysBut, SeenBut
<1>13. CASE EnableRead(h)
  BY <1>13, EnableReadOutline DEF ClaimApart, Claiming, Spending, Changing, Listed, Locking, Struck, Ends, Idle, Advances, SameFlow, SameHeld, KeysBut, SeenBut, EnableRead, At
<1>14. CASE EnableTake(h)
  BY <1>14, EnableTakeOutline DEF ClaimApart, Claiming, Spending, Changing, Listed, Locking, Struck, Ends, Idle, Advances, SameFlow, SameHeld, KeysBut, SeenBut
<1>15. CASE TakeScoped(h)
  <2>1. redis'.claims = redis.claims /\ seen'.opened = seen.opened /\ seen'.outlived = seen.outlived
    BY <1>15, TakeScopedOutline DEF KeysBut, SeenBut
  <2>2. /\ Moved(h) /\ ~(req'[h].flow = "challenge" /\ req'[h].pc = "verify")
        /\ req'[h].flow = "challenge" /\ req'[h].pc \in Claiming /\ req'[h].proof \in Codes =>
             /\ req[h].flow = "challenge" /\ req[h].pc \in Claiming /\ req'[h].proof = req[h].proof
             /\ req'[h].pc \in Listed => req[h].pc \in Listed /\ req'[h].user = req[h].user
             /\ Struck(h)' => Struck(h)
    BY <1>15, TakeScopedMoves DEF Claiming, Spending, Changing, Listed, Locking, Struck, SameHeld, Guarded, Ends, Idle, Advances, SameFlow
  <2>. QED
    BY <2>1, <2>2 DEF ClaimApart
<1>16. CASE TakeLegacy(h)
  BY <1>16, TakeLegacyOutline DEF ClaimApart, Claiming, Spending, Changing, Listed, Locking, Struck, Ends, Idle, Advances, SameFlow, SameHeld, KeysBut, SeenBut
<1>17. CASE Rollback(h)
  BY <1>17, RollbackOutline DEF ClaimApart, Claiming, Spending, Changing, Listed, Locking, Struck, Frees, Forgets, Ends, Idle, Advances, SameFlow, SameHeld, KeysBut, SeenBut
<1>18. CASE Unlock(h)
  BY <1>18, UnlockOutline DEF ClaimApart, Claiming, Spending, Changing, Listed, Locking, Struck, Frees, Leaves, Forgets, Ends, Idle, Advances, SameFlow, SameHeld, KeysBut, SeenBut
<1>19. CASE UnlockLegacy(h)
  BY <1>19, UnlockLegacyOutline DEF ClaimApart, Claiming, Spending, Changing, Listed, Locking, Struck, Frees, Leaves, Forgets, Ends, Idle, Advances, SameFlow, SameHeld, KeysBut, SeenBut
<1>20. CASE Bump(h)
  BY <1>20, BumpOutline DEF ClaimApart, Claiming, Spending, Changing, Listed, Locking, Struck, Ends, Idle, Advances, SameFlow, SameHeld, KeysBut, SeenBut
<1>. QED
  BY <1>1, <1>2, <1>3, <1>4, <1>5, <1>6, <1>7, <1>8, <1>9, <1>10, <1>11, <1>12, <1>13, <1>14, <1>15, <1>16, <1>17, <1>18, <1>19, <1>20 DEF Handle, Begun

LEMMA VerifyClaims ==
  ASSUME TypeInv, NEW h \in Handlers, VerifyTotp(h) \/ VerifyLegacy(h)
  PROVE  ClaimApart(h)
<1>1. /\ redis'.claims = redis.claims /\ seen'.opened = seen.opened /\ seen'.outlived = seen.outlived
      /\ req[h].flow = "challenge" => req[h].proof \notin Codes
  <2>1. CASE VerifyTotp(h)
    BY <2>1, VerifyTotpOutline DEF MarkedNow, Refused, Accepted, KeysBut, SeenBut
  <2>2. CASE VerifyLegacy(h)
    <3>1. req[h].proof \in Secrets \X Steps
      BY <2>2, VerifyLegacyOutline DEF MarkedNow, TotpCodes
    <3>. QED
      BY <2>2, <3>1, VerifyLegacyOutline, MfaAssumption DEF MarkedNow, Refused, Accepted, KeysBut, SeenBut
  <2>. QED
    BY <2>1, <2>2
<1>2. Moved(h) /\ req'[h].pc # "verify" /\ (req'[h].flow = "none" \/ SameFlow(h))
  BY VerifyTotpMoves, VerifyLegacyMoves DEF Ends, Idle, Advances
<1>. QED
  BY <1>1, <1>2 DEF ClaimApart, SameFlow

LEMMA SpentKept ==
  ASSUME TypeInv, \A h \in Handlers : HoldLinks(h), rec.codes \subseteq seen.printed, CleanInv,
         Next, Clean', NEW c, Spent(c)
  PROVE  Spent(c)'
<1>1. /\ seen.printed \subseteq seen'.printed
      /\ \/ rec'.codes \subseteq rec.codes
         \/ rec'.codes \cap seen.printed = {}
  BY RecordMoves
<1>. QED
  BY <1>1 DEF Spent

LEMMA CodeQuiet ==
  ASSUME NEW c \in Codes, CodeLinks(c), Spent(c) => Spent(c)',
         c \in redis.claims => c \in redis'.claims, seen'.opened[c] = seen.opened[c],
         \A g \in Handlers : Claims(g, c)' =>
           /\ Claims(g, c)
           /\ req'[g].pc \in Listed => req[g].pc \in Listed /\ req'[g].user = req[g].user
           /\ Struck(g)' => Struck(g) \/ Spent(c)',
         \A g \in Handlers : Reading(g, c)' => Reading(g, c) \/ ~Spent(c)
  PROVE  CodeLinks(c)'
BY DEF CodeLinks

LEMMA ApartCodes ==
  ASSUME TypeInv, NEW h \in Handlers, NEW c \in Codes, CodeLinks(c), Spent(c) => Spent(c)', ClaimApart(h)
  PROVE  CodeLinks(c)'
<1>1. \A g \in Handlers : g # h => req'[g] = req[g]
  BY DEF ClaimApart, Moved
<1>2. \A g \in Handlers : Reading(g, c)' => Reading(g, c)
  BY <1>1 DEF ClaimApart, Reading
<1>3. ASSUME NEW g \in Handlers, Claims(g, c)'
      PROVE  /\ Claims(g, c)
             /\ req'[g].pc \in Listed => req[g].pc \in Listed /\ req'[g].user = req[g].user
             /\ Struck(g)' => Struck(g)
  <2>1. CASE g # h
    BY <1>1, <1>3, <2>1 DEF Claims, Struck
  <2>2. CASE g = h
    BY <1>3, <2>2 DEF Claims, ClaimApart, Claiming
  <2>. QED
    BY <2>1, <2>2
<1>. QED
  BY <1>2, <1>3, CodeQuiet DEF ClaimApart

LEMMA FetchCodes ==
  ASSUME TypeInv, NEW h \in Handlers, NEW c \in Codes, CodeLinks(c), Spent(c) => Spent(c)', Fetch(h)
  PROVE  CodeLinks(c)'
<1>1. redis' = redis /\ seen' = seen /\ req[h].pc = "fetch"
  BY FetchOutline DEF Fetch
<1>2. CASE Ends(h)
  <2>1. Moved(h) /\ req'[h].flow = "none"
    BY <1>2 DEF Ends, Idle
  <2>2. ClaimApart(h)
    BY <1>1, <2>1 DEF ClaimApart
  <2>. QED
    BY <2>2, ApartCodes
<1>3. CASE Fetched(h)
  <2>1. /\ \A g \in Handlers : g # h => req'[g] = req[g]
        /\ req'[h].flow = "challenge" => req'[h].pc = "verify" /\ req'[h].user = rec
    BY <1>3 DEF Fetched, Moved, SameFlow
  <2>2. \A g \in Handlers : Claims(g, c)' => Claims(g, c) /\ g # h
    BY <2>1 DEF Claims, Spending, Changing
  <2>3. \A g \in Handlers : Reading(g, c)' => Reading(g, c) \/ ~Spent(c)
    BY <2>1 DEF Reading, Spent
  <2>4. \A g \in Handlers : g # h => (Struck(g)' <=> Struck(g))
    BY <2>1 DEF Struck
  <2>. QED
    BY <1>1, <2>1, <2>2, <2>3, <2>4, CodeQuiet
<1>. QED
  BY <1>2, <1>3, FetchOutline

LEMMA RecoveryCodes ==
  ASSUME TypeInv, NEW h \in Handlers, NEW c \in Codes, CodeLinks(c), Spent(c) => Spent(c)', VerifyRecovery(h)
  PROVE  CodeLinks(c)'
<1>1. req[h].pc = "verify" /\ req[h].flow = "challenge" /\ req[h].proof \in Codes
  BY VerifyRecoveryOutline
<1>2. CASE redis' = redis /\ Refused(h)
  <2>1. Moved(h) /\ req'[h].pc = "fail" /\ seen'.opened = seen.opened /\ seen'.outlived = seen.outlived
    BY <1>1, <1>2 DEF Refused, Advances, SeenBut
  <2>2. ClaimApart(h)
    BY <1>2, <2>1 DEF ClaimApart, Claiming, Spending, Changing
  <2>. QED
    BY <2>2, ApartCodes
<1>3. CASE /\ req[h].proof \in req[h].user.codes /\ req[h].proof \notin redis.claims
           /\ redis'.claims = redis.claims \cup {req[h].proof}
           /\ Advances(h, "verify", "clear") /\ seen' = seen
  <2>1. /\ \A g \in Handlers : g # h => req'[g] = req[g]
        /\ req'[h].pc = "clear" /\ req'[h].flow = "challenge" /\ req'[h].proof = req[h].proof
        /\ req'[h].user = req[h].user
    BY <1>1, <1>3 DEF Advances, Moved, SameFlow, SameHeld
  <2>2. \A g \in Handlers : Reading(g, c)' => Reading(g, c)
    BY <2>1 DEF Reading
  <2>3. \A g \in Handlers : g # h => (Claims(g, c)' <=> Claims(g, c)) /\ (Struck(g)' <=> Struck(g))
    BY <2>1 DEF Claims, Struck
  <2>4. CASE c # req[h].proof
    <3>1. ~Claims(h, c)'
      BY <2>1, <2>4 DEF Claims
    <3>. QED
      BY <1>3, <2>1, <2>2, <2>3, <3>1, CodeQuiet
  <2>5. CASE c = req[h].proof
    <3>1. Reading(h, c) /\ c \notin redis.claims
      BY <1>1, <1>3, <2>5 DEF Reading
    <3>2. seen.opened[c] \in Nat
      BY DEF TypeInv, TypeOK, History
    <3>3. seen.opened[c] = 0 /\ \A g \in Handlers : ~Claims(g, c)
      BY <3>1, <3>2 DEF CodeLinks
    <3>4. c \in redis'.claims /\ c \in req'[h].user.codes /\ ~Struck(h)'
      BY <1>3, <2>1, <2>5 DEF Struck
    <3>. QED
      BY <1>3, <2>3, <3>3, <3>4 DEF CodeLinks
  <2>. QED
    BY <2>4, <2>5
<1>. QED
  BY <1>2, <1>3, VerifyRecoveryOutline

(* A challenge that abandons its transition finds its code struck already.  *)
LEMMA ReadCodes ==
  ASSUME TypeInv, rec.codes \subseteq seen.printed, CleanInv,
         NEW h \in Handlers, NEW c \in Codes, CodeLinks(c), Spent(c) => Spent(c)', TransitionRead(h)
  PROVE  CodeLinks(c)'
<1>1. /\ req[h].pc = "read" /\ Moved(h) /\ SameFlow(h) /\ redis' = redis /\ seen' = seen /\ rec' = rec
      /\ req'[h].pc \in {"unlock", "write"}
  BY TransitionReadOutline DEF TransitionRead
<1>2. \A g \in Handlers : g # h => req'[g] = req[g]
  BY <1>1 DEF Moved
<1>3. \A g \in Handlers : Reading(g, c)' => Reading(g, c)
  BY <1>1, <1>2 DEF Reading
<1>4. ASSUME Claims(h, c)', Struck(h)'
      PROVE  Spent(c)'
  <2>1. req[h].flow = "challenge" /\ req[h].proof = c /\ Mutate(h) = None
    BY <1>1, <1>4, TransitionReadOutline DEF Claims, Struck, SameFlow
  <2>2. ~StillHolds(h) \/ c \notin rec.codes
    <3>1. Mutate(h) = Spend(h)
      BY <2>1 DEF Mutate
    <3>2. CASE StillHolds(h) /\ c \in rec.codes
      <4>1. Mutate(h) = [rec EXCEPT !.codes = @ \ {req[h].proof}, !.stale = @ /\ ~req[h].user.stale]
        BY <2>1, <3>1, <3>2 DEF Spend
      <4>2. Mutate(h) \in Record
        <5>. DEFINE b == rec.stale /\ ~req[h].user.stale
        <5>1. b \in BOOLEAN /\ rec \in Record
          BY DEF TypeInv, TypeOK
        <5>2. Mutate(h) = [rec EXCEPT !.codes = rec.codes \ {req[h].proof}, !.stale = b]
          BY <4>1
        <5>. HIDE DEF b
        <5>. QED
          BY <5>1, <5>2 DEF Record
      <4>3. Mutate(h).codes = rec.codes \ {c} /\ None \notin Record
        <5>1. rec \in Record
          BY DEF TypeInv, TypeOK
        <5>. QED
          BY <2>1, <4>1, <5>1, RecordAssumption DEF Record
      <4>. QED
        BY <2>1, <4>2, <4>3
    <3>. QED
      BY <3>2
  <2>3. c \in req[h].user.codes
    BY <1>1, <2>1 DEF CodeLinks, Claims, Spending, Changing, Listed, Locking
  <2>4. UserLinks(h)
    BY DEF CleanInv
  <2>5. c \in seen.printed /\ c \notin rec.codes
    BY <1>1, <2>1, <2>2, <2>3, <2>4 DEF UserLinks, StillHolds, Locking, TypeInv, TypeOK
  <2>. QED
    BY <1>1, <2>5 DEF Spent
<1>5. Claims(h, c)' => Claims(h, c)
  BY <1>1 DEF Claims, SameFlow, Spending, Changing
<1>6. \A g \in Handlers : Claims(g, c)' =>
        /\ Claims(g, c)
        /\ req'[g].pc \in Listed => req[g].pc \in Listed /\ req'[g].user = req[g].user
        /\ Struck(g)' => Struck(g) \/ Spent(c)'
  BY <1>1, <1>2, <1>4, <1>5 DEF Listed, Locking, Claims, Struck
<1>. QED
  BY <1>1, <1>3, <1>6, CodeQuiet

LEMMA WriteCodes ==
  ASSUME TypeInv, rec.codes \subseteq seen.printed, CleanInv, Clean',
         NEW h \in Handlers, NEW c \in Codes, CodeLinks(c), Spent(c) => Spent(c)', TransitionWrite(h)
  PROVE  CodeLinks(c)'
<1>1. /\ req[h].pc = "write" /\ Moved(h) /\ SameFlow(h) /\ redis' = redis
      /\ req'[h].pc = "unlock" /\ seen'.opened = seen.opened
  BY TransitionWriteOutline DEF Written, SeenBut
<1>2. \A g \in Handlers : g # h => req'[g] = req[g]
  BY <1>1 DEF Moved
<1>3. \A g \in Handlers : Reading(g, c)' => Reading(g, c)
  BY <1>1, <1>2 DEF Reading
<1>4. ASSUME Claims(h, c)', Struck(h)'
      PROVE  Spent(c)'
  <2>1. Written(h)
    BY <1>1, <1>4, TransitionWriteOutline DEF Struck
  <2>2. req[h].flow = "challenge" /\ req[h].proof = c
    BY <1>1, <1>4 DEF Claims, SameFlow
  <2>3. c \in rec.codes /\ rec'.codes = rec.codes \ {c} /\ seen.printed \subseteq seen'.printed
    BY <2>1, <2>2, WritesOutline DEF Writes
  <2>. QED
    BY <2>3 DEF Spent
<1>5. Claims(h, c)' => Claims(h, c)
  BY <1>1 DEF Claims, SameFlow, Spending, Changing
<1>6. \A g \in Handlers : Claims(g, c)' =>
        /\ Claims(g, c)
        /\ req'[g].pc \in Listed => req[g].pc \in Listed /\ req'[g].user = req[g].user
        /\ Struck(g)' => Struck(g) \/ Spent(c)'
  BY <1>1, <1>2, <1>4, <1>5 DEF Listed, Locking, Claims, Struck
<1>. QED
  BY <1>1, <1>3, <1>6, CodeQuiet

LEMMA IssueCodes ==
  ASSUME TypeInv, NEW h \in Handlers, NEW c \in Codes, CodeLinks(c), Spent(c) => Spent(c)', Issue(h)
  PROVE  CodeLinks(c)'
<1>1. /\ req[h].pc = "issue" /\ req[h].flow = "challenge" /\ Ends(h) /\ redis' = redis
      /\ seen'.opened[c] = IF c \in {req[h].token, req[h].proof} THEN seen.opened[c] + 1
                           ELSE seen.opened[c]
  BY IssueOutline DEF Issue
<1>2. c # req[h].token
  <2>1. req[h].token \in Tokens
    BY <1>1 DEF TypeInv, FlowLinks
  <2>. QED
    BY <2>1, MfaAssumption
<1>3. /\ \A g \in Handlers : g # h => req'[g] = req[g]
      /\ req'[h].flow = "none"
  BY <1>1 DEF Ends, Idle, Moved
<1>4. /\ \A g \in Handlers : Reading(g, c)' => Reading(g, c)
      /\ \A g \in Handlers : Claims(g, c)' => Claims(g, c) /\ g # h
  BY <1>3 DEF Reading, Claims
<1>5. CASE c # req[h].proof
  <2>1. \A g \in Handlers : g # h => (Struck(g)' <=> Struck(g))
    BY <1>3 DEF Struck
  <2>. QED
    BY <1>1, <1>2, <1>3, <1>4, <1>5, <2>1, CodeQuiet
<1>6. CASE c = req[h].proof
  <2>1. Claims(h, c) /\ Struck(h)
    BY <1>1, <1>6 DEF Claims, Struck, Spending
  <2>2. /\ c \in redis.claims /\ seen.opened[c] = 0 /\ Spent(c)
        /\ \A g \in Handlers : Claims(g, c) => g = h
    BY <2>1 DEF CodeLinks
  <2>3. seen'.opened[c] = 1 /\ c \in redis'.claims /\ Spent(c)' /\ \A g \in Handlers : ~Claims(g, c)'
    BY <1>1, <1>4, <1>6, <2>2
  <2>. QED
    BY <2>3 DEF CodeLinks
<1>. QED
  BY <1>5, <1>6

LEMMA LapseCodes ==
  ASSUME TypeInv, Lapse, NEW c \in Codes, c \notin seen'.outlived, CodeLinks(c), Spent(c) => Spent(c)'
  PROVE  CodeLinks(c)'
<1>1. /\ req' = req /\ seen'.opened = seen.opened
      /\ \A g \in Handlers : /\ Claims(g, c)' <=> Claims(g, c)
                             /\ Reading(g, c)' <=> Reading(g, c)
                             /\ Struck(g)' <=> Struck(g)
  BY LapseIdles, LapseHistory DEF Claims, Reading, Struck
<1>2. CASE c \in redis.claims => c \in redis'.claims
  BY <1>1, <1>2, CodeQuiet
<1>3. CASE ClaimLapses(c)
  <2>1. \A g \in Handlers : ~(req[g].flow = "challenge" /\ req[g].proof = c)
    BY <1>3, ClaimLapsesOutline
  <2>2. \A g \in Handlers : ~Claims(g, c) /\ ~Reading(g, c)
    BY <2>1 DEF Claims, Reading
  <2>. QED
    BY <1>1, <2>2 DEF CodeLinks
<1>4. ASSUME ~(c \in redis.claims => c \in redis'.claims)
      PROVE  ClaimLapses(c)
  <2>1. CASE SetupLapses
    BY <1>4, <2>1, SetupLapsesOutline DEF KeysBut
  <2>2. ASSUME NEW k \in Keys, LockLapses(k)
        PROVE  FALSE
    BY <1>4, <2>2, LockLapsesOutline DEF KeysBut
  <2>3. ASSUME NEW d \in Codes, ClaimLapses(d)
        PROVE  d = c
    BY <1>4, <2>3, ClaimLapsesOutline
  <2>4. ASSUME NEW t \in Tokens, TempLapses(t)
        PROVE  FALSE
    BY <1>4, <2>4, TempLapsesOutline DEF KeysBut
  <2>5. ASSUME NEW d \in Counters, CounterLapses(d)
        PROVE  FALSE
    BY <1>4, <2>5, CounterLapsesOutline DEF KeysBut
  <2>. QED
    BY <2>1, <2>2, <2>3, <2>4, <2>5 DEF Lapse
<1>. QED
  BY <1>2, <1>3, <1>4

LEMMA HandleOutlived ==
  ASSUME TypeInv, NEW h \in Handlers, Handle(h)
  PROVE  seen'.outlived = seen.outlived
<1>1. CASE ClaimApart(h)
  BY <1>1 DEF ClaimApart
<1>2. CASE Fetch(h) \/ TransitionRead(h)
  BY <1>2, TransitionReadOutline DEF Fetch
<1>3. CASE VerifyTotp(h) \/ VerifyLegacy(h)
  BY <1>3, VerifyClaims DEF ClaimApart
<1>4. CASE VerifyRecovery(h)
  BY <1>4, VerifyRecoveryOutline DEF Refused, SeenBut
<1>5. CASE TransitionWrite(h)
  BY <1>5, TransitionWriteOutline DEF Written, SeenBut
<1>6. CASE Issue(h)
  BY <1>6, IssueOutline DEF SeenBut
<1>. QED
  BY <1>1, <1>2, <1>3, <1>4, <1>5, <1>6, ClaimClasses

LEMMA CodeStep ==
  ASSUME TypeInv, \A h \in Handlers : HoldLinks(h), rec.codes \subseteq seen.printed, CleanInv,
         Next, Clean', NEW c \in Codes, c \notin seen'.outlived
  PROVE  CodeLinks(c)'
<1>1. Spent(c) => Spent(c)'
  BY SpentKept
<1>2. CASE \E h \in Handlers : Handle(h)
  <2>1. PICK h \in Handlers : Handle(h)
    BY <1>2
  <2>2. CodeLinks(c)
    BY <2>1, HandleOutlived DEF CleanInv
  <2>3. CASE ClaimApart(h)
    BY <1>1, <2>2, <2>3, ApartCodes
  <2>4. CASE Fetch(h)
    BY <1>1, <2>2, <2>4, FetchCodes
  <2>5. CASE VerifyTotp(h) \/ VerifyLegacy(h)
    BY <1>1, <2>2, <2>5, VerifyClaims, ApartCodes
  <2>6. CASE VerifyRecovery(h)
    BY <1>1, <2>2, <2>6, RecoveryCodes
  <2>7. CASE TransitionRead(h)
    BY <1>1, <2>2, <2>7, ReadCodes
  <2>8. CASE TransitionWrite(h)
    BY <1>1, <2>2, <2>8, WriteCodes
  <2>9. CASE Issue(h)
    BY <1>1, <2>2, <2>9, IssueCodes
  <2>. QED
    BY <2>1, <2>3, <2>4, <2>5, <2>6, <2>7, <2>8, <2>9, ClaimClasses
<1>3. CASE Lapse
  <2>1. CodeLinks(c)
    BY <1>3, LapseHistory DEF CleanInv
  <2>. QED
    BY <1>1, <1>3, <2>1, LapseCodes
<1>4. CASE Tick \/ Rest
  <2>1. req' = req /\ rec' = rec /\ redis' = redis /\ seen' = seen
    BY <1>4 DEF Tick, Rest
  <2>2. CodeLinks(c)
    BY <2>1 DEF CleanInv
  <2>3. \A g \in Handlers : /\ Claims(g, c)' <=> Claims(g, c)
                            /\ Reading(g, c)' <=> Reading(g, c)
                            /\ Struck(g)' <=> Struck(g)
    BY <2>1 DEF Claims, Reading, Struck
  <2>. QED
    BY <1>1, <2>1, <2>2, <2>3, CodeQuiet
<1>. QED
  BY <1>2, <1>3, <1>4 DEF Next

-----------------------------------------------------------------------------
(* The invariant *)

LEMMA InitRecord ==
  ASSUME Init
  PROVE  /\ rec \in Record /\ Whole(rec)
         /\ rec = Off \/ (rec.on /\ rec.secret # None)
<1>1. rec \in {Off} \cup {r \in Record : r.on /\ r.secret # None}
  BY DEF Init
<1>2. CASE rec = Off
  BY <1>2 DEF Off, Record, Whole
<1>3. CASE rec \in Record /\ rec.on /\ rec.secret # None
  BY <1>3 DEF Whole
<1>. QED
  BY <1>1, <1>2, <1>3

LEMMA InitType == Init => TypeInv
<1>. SUFFICES ASSUME Init PROVE TypeInv
  OBVIOUS
<1>. USE MfaAssumption
<1>1. /\ mix \in Mixes /\ rec \in Record /\ Whole(rec)
      /\ now = 0 /\ jobs = {} /\ starts = 0 /\ req = [h \in Handlers |-> Idle]
  BY InitRecord DEF Init
<1>2. PICK T \in SUBSET Tokens, pending \in {None} \cup {d \in Payload : d.secret # None} :
        /\ redis = [setup |-> pending, lock |-> [k \in Keys |-> None],
                   marks |-> [k \in Keys |-> [p \in TotpCodes |-> 0]], claims |-> {},
                   temp |-> [t \in Tokens |-> IF t \in T THEN 0 ELSE None],
                   failures |-> [c \in Counters |-> 0], epoch |-> 0]
        /\ LET known == IF pending = None THEN rec ELSE pending IN
           seen = [drawn |-> T \cup known.codes \cup ({known.secret} \ {None}),
                  printed |-> rec.codes, overran |-> {}, late |-> FALSE, crossed |-> FALSE,
                  accepted |-> [p \in TotpCodes |-> 0],
                  opened |-> [x \in Codes \cup Tokens |-> 0], outlived |-> {},
                  guesses |-> [c \in Counters |-> 0]]
  BY DEF Init
<1>3. redis \in Redis /\ (redis.setup # None => redis.setup.secret # None)
  BY <1>2 DEF Redis
<1>4. seen \in History
  <2>. DEFINE known == IF pending = None THEN rec ELSE pending
              D == T \cup known.codes \cup ({known.secret} \ {None})
  <2>1. known.codes \in SUBSET Codes /\ known.secret \in Secrets \cup {None}
    BY <1>1, <1>2 DEF Record, Payload
  <2>2. D \in SUBSET (Secrets \cup Codes \cup Tokens)
    BY <2>1
  <2>3. seen = [drawn |-> D,
                  printed |-> rec.codes, overran |-> {}, late |-> FALSE, crossed |-> FALSE,
                  accepted |-> [p \in TotpCodes |-> 0],
                  opened |-> [x \in Codes \cup Tokens |-> 0], outlived |-> {},
                  guesses |-> [c \in Counters |-> 0]]
    BY <1>2
  <2>4. rec.codes \in SUBSET Codes
    BY <1>1 DEF Record
  <2>. HIDE DEF D
  <2>. QED
    BY <2>2, <2>3, <2>4 DEF History
<1>5. req \in [Handlers -> Request] /\ \A h \in Handlers : FlowLinks(req[h]) /\ HeldLinks(req[h])
  BY <1>1, IdleType
<1>. QED
  BY <1>1, <1>3, <1>4, <1>5 DEF TypeInv, TypeOK, Whole

LEMMA InitClean ==
  ASSUME Init
  PROVE  CleanInv /\ rec.codes \subseteq seen.printed
<1>. USE MfaAssumption
<1>1. /\ rec \in Record
      /\ rec = Off \/ (rec.on /\ rec.secret # None)
      /\ \A h \in Handlers : req[h] = Idle
  BY InitRecord DEF Init
<1>2. PICK T \in SUBSET Tokens, pending \in {None} \cup {d \in Payload : d.secret # None} :
        /\ rec.on => pending = None
        /\ redis.setup = pending
        /\ LET known == IF pending = None THEN rec ELSE pending IN
           seen.drawn = T \cup known.codes \cup ({known.secret} \ {None})
        /\ seen.printed = rec.codes
        /\ \A c \in Codes : seen.opened[c] = 0
  <2>1. PICK T \in SUBSET Tokens, pending \in {None} \cup {d \in Payload : d.secret # None} :
          /\ rec.on => pending = None
          /\ redis = [setup |-> pending, lock |-> [k \in Keys |-> None],
                     marks |-> [k \in Keys |-> [p \in TotpCodes |-> 0]], claims |-> {},
                     temp |-> [t \in Tokens |-> IF t \in T THEN 0 ELSE None],
                     failures |-> [c \in Counters |-> 0], epoch |-> 0]
          /\ LET known == IF pending = None THEN rec ELSE pending IN
             seen = [drawn |-> T \cup known.codes \cup ({known.secret} \ {None}),
                    printed |-> rec.codes, overran |-> {}, late |-> FALSE, crossed |-> FALSE,
                    accepted |-> [p \in TotpCodes |-> 0],
                    opened |-> [x \in Codes \cup Tokens |-> 0], outlived |-> {},
                    guesses |-> [c \in Counters |-> 0]]
    BY DEF Init
  <2>2. /\ redis.setup = pending /\ seen.printed = rec.codes
        /\ \A c \in Codes : seen.opened[c] = 0
    BY <2>1
  <2>3. LET known == IF pending = None THEN rec ELSE pending IN
        seen.drawn = T \cup known.codes \cup ({known.secret} \ {None})
    BY <2>1
  <2>. QED
    BY <2>1, <2>2, <2>3
<1>3. seen.printed \subseteq seen.drawn /\ (rec.secret # None => rec.secret \in seen.drawn)
  <2>1. CASE pending = None
    BY <1>2, <2>1
  <2>2. CASE pending # None
    BY <1>1, <1>2, <2>2 DEF Off
  <2>. QED
    BY <2>1, <2>2
<1>4. redis.setup # None => NewToAll(redis.setup.secret, redis.setup.codes)
  BY <1>1, <1>2 DEF NewToAll, Off, Payload
<1>5. \A h \in Handlers : SecretOf(h) = None /\ CodesOf(h) = {}
  BY <1>1 DEF SecretOf, CodesOf, CarriesCodes, CarriesSecret, Idle
<1>6. SourceLinks
  BY <1>3, <1>4, <1>5 DEF SourceLinks, NewToAll, Apart
<1>7. \A h \in Handlers : WriteLinks(h) /\ UserLinks(h)
  BY <1>1 DEF WriteLinks, UserLinks, Idle
<1>8. \A c \in Codes : CodeLinks(c)
  BY <1>1, <1>2 DEF CodeLinks, Claims, Idle
<1>. QED
  BY <1>2, <1>6, <1>7, <1>8 DEF CleanInv

LEMMA InitIInv == Init => IInv
<1>. SUFFICES ASSUME Init PROVE IInv
  OBVIOUS
<1>. USE MfaAssumption
<1>1. \A h \in Handlers : req[h] = Idle
  BY DEF Init
<1>2. PICK T \in SUBSET Tokens :
        /\ \A p \in TotpCodes : seen.accepted[p] = 0
        /\ \A t \in Tokens : seen.opened[t] = 0 /\ (redis.temp[t] # None => t \in T)
        /\ T \subseteq seen.drawn
        /\ \A c \in Counters : redis.failures[c] = 0 /\ seen.guesses[c] = 0
  <2>1. PICK T \in SUBSET Tokens, pending \in {None} \cup {d \in Payload : d.secret # None} :
          /\ redis = [setup |-> pending, lock |-> [k \in Keys |-> None],
                     marks |-> [k \in Keys |-> [p \in TotpCodes |-> 0]], claims |-> {},
                     temp |-> [t \in Tokens |-> IF t \in T THEN 0 ELSE None],
                     failures |-> [c \in Counters |-> 0], epoch |-> 0]
          /\ LET known == IF pending = None THEN rec ELSE pending IN
             seen = [drawn |-> T \cup known.codes \cup ({known.secret} \ {None}),
                    printed |-> rec.codes, overran |-> {}, late |-> FALSE, crossed |-> FALSE,
                    accepted |-> [p \in TotpCodes |-> 0],
                    opened |-> [x \in Codes \cup Tokens |-> 0], outlived |-> {},
                    guesses |-> [c \in Counters |-> 0]]
    BY DEF Init
  <2>2. /\ \A p \in TotpCodes : seen.accepted[p] = 0
        /\ \A t \in Tokens : seen.opened[t] = 0
        /\ T \subseteq seen.drawn /\ \A c \in Counters : seen.guesses[c] = 0
    BY <2>1
  <2>3. /\ \A t \in Tokens : redis.temp[t] # None => t \in T
        /\ \A c \in Counters : redis.failures[c] = 0
    BY <2>1
  <2>. QED
    BY <2>2, <2>3
<1>3. \A h \in Handlers : HoldLinks(h)
  BY <1>1 DEF HoldLinks, Idle
<1>4. \A p \in TotpCodes : TotpLinks(p)
  BY <1>1, <1>2 DEF TotpLinks, Fresh, Idle
<1>5. \A t \in Tokens : TokenLinks(t)
  BY <1>1, <1>2 DEF TokenLinks, Spends, Idle
<1>6. \A c \in Counters : GuessLinks(c)
  <2>1. \A c \in Counters : Failing(c) = {} /\ Guessing(c) = {}
    BY <1>1 DEF Failing, Guessing, Asked, Idle
  <2>2. Cardinality({}) = 0 /\ Cardinality(Handlers) \in Nat
    BY FS_EmptySet, FS_CardinalityType
  <2>. DEFINE n == Cardinality(Handlers)
  <2>3. n \in Nat /\ MaxAttempts \in Nat \ {0}
    BY <2>2
  <2>. HIDE DEF n
  <2>4. 0 <= MaxAttempts - 1 + n
    BY <2>3
  <2>5. \A c \in Counters : Cardinality(Failing(c)) = 0 /\ Cardinality(Guessing(c)) = 0
    BY <2>1, <2>2
  <2>6. \A c \in Counters : seen.guesses[c] <= redis.failures[c] + Cardinality(Failing(c))
    BY <1>2, <2>5
  <2>7. \A c \in Counters : redis.failures[c] + Cardinality(Guessing(c)) <= MaxAttempts - 1 + n
    BY <1>2, <2>4, <2>5
  <2>. QED
    BY <2>6, <2>7 DEF GuessLinks, n
<1>. QED
  BY InitType, InitClean, <1>3, <1>4, <1>5, <1>6 DEF IInv

(* Codes the record holds are printed, however they were written. *)
LEMMA PrintedStep ==
  ASSUME TypeInv, rec.codes \subseteq seen.printed, Next
  PROVE  rec'.codes \subseteq seen'.printed
<1>1. ASSUME NEW h \in Handlers, Handle(h)
      PROVE  rec'.codes \subseteq seen'.printed
  <2>1. CASE TransitionWrite(h)
    BY <2>1, TransitionWriteOutline DEF Written
  <2>. QED
    BY <1>1, <2>1, HandleHistory
<1>2. Lapse \/ Tick \/ Rest => rec' = rec /\ seen'.printed = seen.printed
  BY LapseIdles, LapseHistory DEF Tick, Rest
<1>. QED
  BY <1>1, <1>2 DEF Next

LEMMA StaysClean ==
  ASSUME TypeInv, Next, Clean'
  PROVE  Clean
<1>1. Lapse \/ Tick \/ Rest => seen'.late = seen.late /\ seen'.crossed = seen.crossed
  BY LapseHistory DEF Tick, Rest
<1>. QED
  BY <1>1, HandleHistory DEF Next, Clean

LEMMA NextIInv == IInv /\ [Next]_vars => IInv'
<1>1. CASE IInv /\ Next
  <2>. USE <1>1 DEF IInv
  <2>1. TypeInv' /\ rec'.codes \subseteq seen'.printed
    BY TypeStep, PrintedStep
  <2>2. \A h \in Handlers : HoldLinks(h)'
    BY HoldStep
  <2>3. TotpCodes' = TotpCodes /\ \A p \in TotpCodes : TotpLinks(p)'
    BY TotpStep DEF TotpCodes
  <2>4. \A t \in Tokens : TokenLinks(t)'
    BY TokenStep
  <2>5. \A c \in Counters : GuessLinks(c)'
    BY GuessStep
  <2>6. ASSUME Clean' PROVE CleanInv'
    <3>1. CleanInv
      BY <2>6, StaysClean
    <3>2. SourceLinks'
      BY <2>6, <3>1, SourceStep
    <3>3. \A h \in Handlers : WriteLinks(h)' /\ UserLinks(h)'
      BY <2>6, <3>1, WriteStep, UserStep
    <3>4. \A c \in Codes : c \notin seen'.outlived => CodeLinks(c)'
      BY <2>6, <3>1, CodeStep
    <3>. QED
      BY <3>2, <3>3, <3>4 DEF CleanInv
  <2>. QED
    BY <2>1, <2>2, <2>3, <2>4, <2>5, <2>6
<1>2. CASE IInv /\ UNCHANGED vars
  <2>. USE <1>2 DEF vars
  <2>1. Keys' = Keys
    BY DEF Keys
  <2>2. TypeInv'
    BY <2>1 DEF IInv, TypeInv, TypeOK, Redis, History
  <2>3. /\ \A h \in Handlers : HoldLinks(h)'
        /\ \A p \in TotpCodes : TotpLinks(p)'
        /\ \A t \in Tokens : TokenLinks(t)'
        /\ \A c \in Counters : GuessLinks(c)'
    <3>1. \A h \in Handlers : HoldLinks(h)'
      BY <2>1 DEF IInv, HoldLinks, Kept
    <3>2. \A p \in TotpCodes : TotpLinks(p)'
      BY DEF IInv, TotpLinks, Covered, Fresh
    <3>3. \A t \in Tokens : TokenLinks(t)'
      BY DEF IInv, TokenLinks, Spends
    <3>4. \A c \in Counters : GuessLinks(c)'
      BY DEF IInv, GuessLinks, Guessing, Failing
    <3>. QED
      BY <3>1, <3>2, <3>3, <3>4
  <2>4. \A h \in Handlers : SecretOf(h)' = SecretOf(h) /\ CodesOf(h)' = CodesOf(h)
    BY DEF SecretOf, CodesOf, CarriesCodes, CarriesSecret, NewSecret, NewCodes
  <2>5. \A s, C : NewToAll(s, C)' <=> NewToAll(s, C)
    BY DEF NewToAll
  <2>6. SourceLinks => SourceLinks'
    BY <2>4, <2>5 DEF SourceLinks
  <2>7. \A h \in Handlers : (WriteLinks(h) <=> WriteLinks(h)') /\ (UserLinks(h) <=> UserLinks(h)')
    BY <2>1 DEF WriteLinks, UserLinks, Overrun
  <2>8. \A c \in Codes : CodeLinks(c) <=> CodeLinks(c)'
    BY DEF CodeLinks, Claims, Reading, Struck, Spent
  <2>. QED
    BY <2>2, <2>3, <2>6, <2>7, <2>8 DEF IInv, CleanInv, Clean
<1>. QED
  BY <1>1, <1>2

LEMMA Invariance == Spec => []IInv
BY InitIInv, NextIInv, PTL DEF Spec

-----------------------------------------------------------------------------
(* The theorems *)

(* Everything stays well-typed, and a factor that is off keeps no secret    *)
(* and no code: what each flow of MfaService writes is a whole record.      *)
THEOREM TypeCorrect == Spec => []TypeOK
<1>. IInv => TypeOK
  BY DEF IInv, TypeInv
<1>. QED
  BY Invariance, PTL

(* Of two handlers inside transitionMfaRecord one has overrun a lock: the   *)
(* owner-checked release and the roll-back of half a pair let nobody in.    *)
THEOREM TransitionsAlone == Spec => []LockHeldAlone
<1>. IInv => LockHeldAlone
  BY HeldAlone DEF IInv
<1>. QED
  BY Invariance, PTL

(* A TOTP code is accepted once while its window admits it, a challenge     *)
(* token and a recovery code complete one sign-in: the replay marks outlast *)
(* the window, GETDEL has one winner and a claim goes before the strike.    *)
THEOREM SignsInOnce == Spec => []OpensOnce
<1>1. IInv => OpensOnce
  <2>. SUFFICES ASSUME IInv PROVE OpensOnce
    OBVIOUS
  <2>1. \A p \in TotpCodes : seen.accepted[p] <= 1
    BY DEF IInv, TotpLinks
  <2>2. \A t \in Tokens : seen.opened[t] <= 1
    BY DEF IInv, TokenLinks
  <2>3. \A c \in Codes : seen.opened[c] <= 1 \/ c \in seen.outlived \/ seen.late \/ seen.crossed
    BY DEF IInv, Clean, CleanInv, CodeLinks
  <2>. QED
    BY <2>1, <2>2, <2>3 DEF OpensOnce
<1>. QED
  BY <1>1, Invariance, PTL

(* However many handlers pass the lockout together, wrong codes answered    *)
(* since the counter restarted exceed the limit by less than one each.      *)
THEOREM GuessesLimited == Spec => []GuessesBounded
<1>1. IInv => GuessesBounded
  <2>. SUFFICES ASSUME IInv, NEW c \in Counters
                PROVE  seen.guesses[c] <= MaxAttempts - 1 + Cardinality(Handlers)
    BY DEF GuessesBounded
  <2>1. /\ seen.guesses[c] <= redis.failures[c] + Cardinality(Failing(c))
        /\ redis.failures[c] + Cardinality(Guessing(c)) <= MaxAttempts - 1 + Cardinality(Handlers)
    BY DEF IInv, GuessLinks
  <2>2. Failing(c) \subseteq Guessing(c) /\ Guessing(c) \subseteq Handlers
    BY DEF IInv, TypeInv, FlowLinks, Failing, Guessing, Asked
  <2>3. /\ Cardinality(Failing(c)) \in Nat /\ Cardinality(Guessing(c)) \in Nat
        /\ Cardinality(Failing(c)) <= Cardinality(Guessing(c)) /\ Cardinality(Handlers) \in Nat
    BY <2>2, MfaAssumption, FS_Subset, FS_CardinalityType
  <2>4. seen.guesses[c] \in Nat /\ redis.failures[c] \in Nat /\ MaxAttempts \in Nat
    BY MfaAssumption DEF IInv, TypeInv, TypeOK, History, Redis
  <2>. DEFINE f == Cardinality(Failing(c))
              g == Cardinality(Guessing(c))
              n == Cardinality(Handlers)
  <2>5. /\ f \in Nat /\ g \in Nat /\ n \in Nat /\ f <= g
        /\ seen.guesses[c] <= redis.failures[c] + f
        /\ redis.failures[c] + g <= MaxAttempts - 1 + n
    BY <2>1, <2>3
  <2>. HIDE DEF f, g, n
  <2>6. seen.guesses[c] <= MaxAttempts - 1 + n
    BY <2>4, <2>5
  <2>. QED
    BY <2>6 DEF n
<1>. QED
  BY <1>1, Invariance, PTL

-----------------------------------------------------------------------------
(* The record implements MfaLedger *)

LEMMA LedgerInit == Init => Ledger!Init
<1>. SUFFICES ASSUME Init PROVE Ledger!Init
  OBVIOUS
<1>1. rec \in Record /\ Whole(rec)
  BY InitType DEF TypeInv, TypeOK, Whole
<1>2. seen.printed = rec.codes
  BY DEF Init
<1>. QED
  BY <1>1, <1>2 DEF Ledger!Init, Record, Whole

LEMMA LedgerWrite ==
  ASSUME TypeInv, TypeInv', rec.codes \subseteq seen.printed, CleanInv,
         NEW h \in Handlers, TransitionWrite(h), Written(h), Clean'
  PROVE  Ledger!Next \/ UNCHANGED <<rec.secret, rec.codes, seen.printed>>
<1>1. /\ Writes(h)
      /\ req[h].flow = "enable" => SecretOf(h) # None /\ rec.secret # SecretOf(h)
      /\ seen'.printed = seen.printed \cup CodesOf(h)
      /\ CodesOf(h) \cap seen.printed = {}
  BY WritesOutline
<1>2. rec'.secret \in Secrets \cup {None} /\ rec'.codes \in SUBSET Codes /\ Whole(rec)
  BY DEF TypeInv, TypeOK, Record, Whole
<1>3. ASSUME req[h].flow = "enable", rec'.secret = SecretOf(h), rec'.codes = CodesOf(h)
      PROVE  Ledger!Enroll(rec'.secret, rec'.codes) /\ rec'.secret \in Secrets
  BY <1>1, <1>2, <1>3 DEF Ledger!Enroll, Ledger!NewList
<1>4. ASSUME req[h].flow \in {"disable", "reset"}, rec' = Off
      PROVE  Ledger!Remove
  BY <1>1, <1>4 DEF Ledger!Remove, Off, CodesOf, CarriesCodes, CarriesSecret
<1>5. ASSUME req[h].flow = "challenge", req[h].proof \in rec.codes,
             rec'.secret = rec.secret, rec'.codes = rec.codes \ {req[h].proof}
      PROVE  \E c \in Codes : Ledger!Spend(c)
  <2>1. req[h].proof \in Codes
    BY <1>5 DEF TypeInv, TypeOK, Record
  <2>2. Ledger!Spend(req[h].proof)
    BY <1>1, <1>5 DEF Ledger!Spend, CodesOf, CarriesCodes, CarriesSecret
  <2>. QED
    BY <2>1, <2>2
<1>6. ASSUME req[h].flow = "regenerate", rec.on, rec'.secret = rec.secret, rec'.codes = CodesOf(h)
      PROVE  Ledger!Reprint(rec'.codes)
  BY <1>1, <1>2, <1>6 DEF Ledger!Reprint, Ledger!NewList, Whole
<1>7. ASSUME req[h].flow = "reencrypt", rec'.secret = rec.secret, rec'.codes = rec.codes
      PROVE  UNCHANGED <<rec.secret, rec.codes, seen.printed>>
  BY <1>1, <1>7 DEF CodesOf, CarriesCodes, CarriesSecret
<1>8. (\E C \in SUBSET Codes : Ledger!Reprint(C) \/ \E s \in Secrets : Ledger!Enroll(s, C))
        \/ Ledger!Remove \/ (\E c \in Codes : Ledger!Spend(c))
        \/ UNCHANGED <<rec.secret, rec.codes, seen.printed>>
  BY <1>1, <1>2, <1>3, <1>4, <1>5, <1>6, <1>7 DEF Writes
<1>. QED
  BY <1>8 DEF Ledger!Next

LEMMA LedgerStep ==
  ASSUME IInv, [Next]_vars
  PROVE  \/ seen'.late \/ seen'.crossed \/ Ledger!Next
         \/ UNCHANGED <<rec.secret, rec.codes, seen.printed>>
<1>1. CASE UNCHANGED vars
  BY <1>1 DEF vars
<1>2. CASE Next /\ (Lapse \/ Tick \/ Rest)
  <2>1. rec' = rec /\ seen'.printed = seen.printed
    BY <1>2, LapseIdles, LapseHistory DEF Tick, Rest, IInv
  <2>. QED
    BY <2>1
<1>3. ASSUME Next, NEW h \in Handlers, Handle(h), Clean'
      PROVE  Ledger!Next \/ UNCHANGED <<rec.secret, rec.codes, seen.printed>>
  <2>1. TypeInv /\ TypeInv' /\ rec.codes \subseteq seen.printed /\ CleanInv
    BY <1>3, TypeStep, StaysClean DEF IInv
  <2>2. CASE TransitionWrite(h) /\ Written(h)
    BY <1>3, <2>1, <2>2, LedgerWrite
  <2>3. CASE rec' = rec /\ seen'.printed = seen.printed
    BY <2>3
  <2>. QED
    BY <1>3, <2>1, <2>2, <2>3, HandleHistory, TransitionWriteOutline
<1>. QED
  BY <1>1, <1>2, <1>3 DEF Next, Clean

(* The record moves as one step of MfaLedger at a time, until a handler     *)
(* writes after its lock expired or enables a set-up replaced since.        *)
THEOREM LedgerImplemented == Spec => RecordIsLedger
<1>1. IInv /\ [Next]_vars =>
        [seen'.late \/ seen'.crossed \/ Ledger!Next]_<<rec.secret, rec.codes, seen.printed>>
  BY LedgerStep
<1>. QED
  BY <1>1, LedgerInit, Invariance, PTL DEF Spec, RecordIsLedger
=============================================================================
