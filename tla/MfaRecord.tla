------------------------------ MODULE MfaRecord ------------------------------
(***************************************************************************)
(* MfaService for one account of one identity plane: set-up, enabling, the *)
(* challenge at sign-in, disabling, the administrative reset, new recovery *)
(* codes and the detached re-encryption.  All of them rewrite one record   *)
(* of the host's repository, which has no compare-and-set, under a lock in *)
(* Redis that expires after ten seconds whether its holder is done or not. *)
(*                                                                         *)
(* One action is one await with the code up to the next one.  A handler    *)
(* that dies takes no further step; what it held expires.  Mail, hooks and *)
(* logs are left out.  The counters and their legacy twins always move     *)
(* together and are one; the locks and replay marks are not.               *)
(***************************************************************************)
EXTENDS Integers, FiniteSets

CONSTANTS Handlers, Tokens, Secrets, Codes, None,
          CodeCount,        \* mfa.recoveryCodeCount
          Steps,            \* the thirty-second steps whose TOTP codes are presented
          Window,           \* mfa.totpWindow
          MaxWindow,        \* MAX_VERIFY_WINDOW
          MaxAttempts,      \* bruteForce.maxAttempts
          Mixes             \* the deployments and workloads explored, see Mix below

(* One deployment and what is asked of it. *)
Mix == [plane : {"dashboard", "platform"},   \* takes a scoped and a legacy key, or one
        password : BOOLEAN,                  \* FALSE: only signs in with a provider
        requests : SUBSET {"login", "challenge", "setup", "enable", "disable", "reset",
                           "regenerate"},    \* the flows requested
        lapses : SUBSET {"lock", "claim", "setup", "temp", "counter"},  \* keys that expire
        starts : Nat,                        \* bound on handlers begun
        time : Nat]                          \* bound on the clock

(* Challenge tokens, recovery codes and TOTP codes are of three formats.    *)
ASSUME MfaAssumption ==
  /\ {CodeCount, Window, MaxWindow} \cup Steps \subseteq Nat
  /\ MaxAttempts \in Nat \ {0}
  /\ Mixes \subseteq Mix
  /\ IsFiniteSet(Handlers)
  /\ None \notin Secrets \cup Codes \cup Tokens \cup Handlers
  /\ Tokens \cap Codes = {} /\ (Tokens \cup Codes) \cap (Secrets \X Steps) = {}

VARIABLES mix,        \* the deployment, fixed
          rec,        \* the repository's record
          redis,      \* the keys of the account, see Redis below
          now,        \* the clock, in TOTP steps
          jobs,       \* secrets whose detached re-encryption has not begun
          req,        \* the handlers in flight
          starts,     \* handlers begun (bound)
          seen        \* history, see History below

vars == <<mix, rec, redis, now, jobs, req, starts, seen>>

-----------------------------------------------------------------------------
(* Types and null values *)

Keys == IF mix.plane = "dashboard" THEN {"scoped", "legacy"} ELSE {"scoped"}

Record == [on : BOOLEAN, secret : Secrets \cup {None}, stale : BOOLEAN, codes : SUBSET Codes]

(* null is no record. *)
ASSUME RecordAssumption == None \notin Record

Off == [on |-> FALSE, secret |-> None, stale |-> FALSE, codes |-> {}]

Payload == [secret : Secrets \cup {None}, codes : SUBSET Codes]

NoPayload == [secret |-> None, codes |-> {}]

TotpCodes == Secrets \X Steps

(* A code of another secret, or of no list, is a wrong one. *)
Proofs == TotpCodes \cup Codes

Submitted == {"setup", "enable", "disable", "reset", "regenerate"}

Flows == {"none", "login", "challenge", "reencrypt"} \cup Submitted

(* mfaFlowCounterIds: challenge and disable never share a budget. *)
Counters == {"challenge", "disable", "reauth"}

Counter(flow) == CASE flow = "challenge" -> "challenge" [] flow = "setup" -> "reauth"
                   [] OTHER -> "disable"

PCs == {"idle", "temp", "epoch", "lockout", "fetch", "compare", "verify", "verifyLegacy", "fail",
        "clear", "consume", "setupRead", "setupClaim", "setupReread", "setupStore", "enableRead",
        "enableTake", "lock", "lockLegacy", "rollback", "read", "write", "unlock",
        "unlockLegacy", "bump", "issue"}

Request == [pc : PCs, flow : Flows,
            user : Record,                      \* the record as first read
            proof : Proofs \cup {None},
            token : Tokens \cup {None},
            epoch : Nat,
            data : Payload,                     \* the set-up in hand, or new codes
            update : Record,                    \* what the transition will write
            outcome : {"none", "fresh", "written", "abandoned", "failed"}]

Idle == [pc |-> "idle", flow |-> "none", user |-> Off, proof |-> None, token |-> None,
         epoch |-> 0, data |-> NoPayload, update |-> Off, outcome |-> "none"]

Redis == [setup : Payload \cup {None},                  \* mfa_setup:
          lock : [Keys -> Handlers \cup {None}],         \* mfalock:, whose nonce it holds
          marks : [Keys -> [TotpCodes -> Nat]],         \* tu:, the tick each expires at
          claims : SUBSET Codes,                        \* rcu:
          temp : [Tokens -> Nat \cup {None}],            \* mfa:, with the epoch stamped
          failures : [Counters -> Nat],                 \* lf:
          epoch : Nat]                                  \* ep:

History == [drawn : SUBSET (Secrets \cup Codes \cup Tokens),  \* generated so far
            printed : SUBSET Codes,             \* codes the record ever held
            overran : SUBSET (Handlers \X Keys),  \* locks that expired under their holder
            late : BOOLEAN,                     \* one wrote after a lock had expired
            crossed : BOOLEAN,                  \* one enabled another set-up than it took
            accepted : [TotpCodes -> Nat],      \* how often a TOTP code was accepted
            opened : [Codes \cup Tokens -> Nat],  \* sign-ins completed with each
            outlived : SUBSET Codes,            \* claims expired with a challenge in flight
            guesses : [Counters -> Nat]]        \* wrong codes since the counter restarted

(* Everything is well-typed, and the record is whole: a factor that is off  *)
(* leaves no secret and no code a challenge could still be held against.    *)
TypeOK ==
  /\ mix \in Mixes
  /\ rec \in Record
  /\ rec.on <=> rec.secret # None
  /\ rec.on \/ rec.codes = {}
  /\ redis \in Redis
  /\ now \in Nat /\ starts \in Nat
  /\ jobs \in SUBSET Secrets
  /\ req \in [Handlers -> Request]
  /\ seen \in History

-----------------------------------------------------------------------------
(* Helper formulae *)

At(h, pc) == req[h].pc = pc

Goto(h, pc) == req' = [req EXCEPT ![h].pc = pc]

(* The handler answers, with success or an error. *)
Finish(h) == req' = [req EXCEPT ![h] = Idle]

Begin(h, state) ==
  /\ At(h, "idle") /\ starts < mix.starts
  /\ starts' = starts + 1
  /\ req' = [req EXCEPT ![h] = state]

(* verifyTotp: a code is good for its own step and Window steps either side. *)
Clamped == IF Window > MaxWindow THEN MaxWindow ELSE Window

Acceptable(p, s) ==
  p \in TotpCodes /\ p[1] = s /\ p[2] - now <= Clamped /\ now - p[2] <= Clamped

(* Mutant: the span of the window is counted without the current step. *)
ReplayTtlShort == 2 * Clamped

(* totpAntiReplayTtlSeconds, in steps. *)
ReplayTtl == 2 * Clamped + 1

IsNew(k, p) == redis.marks[k][p] <= now

Marked(k, p) == IF IsNew(k, p) THEN [redis.marks EXCEPT ![k][p] = now + ReplayTtl] ELSE redis.marks

FreshOf(S) == S \ seen.drawn

-----------------------------------------------------------------------------
(* Initial states: a factor with codes left, perhaps encrypted under a key  *)
(* since retired, and challenge tokens out; or none, perhaps being set up.  *)

Init ==
  /\ mix \in Mixes
  /\ rec \in {Off} \cup {r \in Record : r.on /\ r.secret # None}
  /\ \E T \in SUBSET Tokens, pending \in {None} \cup {d \in Payload : d.secret # None} :
       /\ IF rec.on THEN pending = None ELSE T = {}
       /\ pending # None => Cardinality(pending.codes) = CodeCount
       /\ redis = [setup |-> pending, lock |-> [k \in Keys |-> None],
                   marks |-> [k \in Keys |-> [p \in TotpCodes |-> 0]], claims |-> {},
                   temp |-> [t \in Tokens |-> IF t \in T THEN 0 ELSE None],
                   failures |-> [c \in Counters |-> 0], epoch |-> 0]
       /\ LET known == IF pending = None THEN rec ELSE pending IN
          seen = [drawn |-> T \cup known.codes \cup ({known.secret} \ {None}),
                  printed |-> rec.codes, overran |-> {}, late |-> FALSE, crossed |-> FALSE,
                  accepted |-> [p \in TotpCodes |-> 0],
                  opened |-> [x \in Codes \cup Tokens |-> 0], outlived |-> {},
                  guesses |-> [c \in Counters |-> 0]]
  /\ now = 0 /\ jobs = {} /\ starts = 0
  /\ req = [h \in Handlers |-> Idle]

-----------------------------------------------------------------------------
(* Sign-in with a password issues a challenge token: issueMfaTempToken. *)

LoginReadEpoch(h) ==
  /\ "login" \in mix.requests /\ rec.on
  /\ Begin(h, [Idle EXCEPT !.pc = "temp", !.flow = "login", !.epoch = redis.epoch])
  /\ UNCHANGED <<rec, redis, now, jobs, seen>>

LoginStoreTemp(h) ==
  /\ At(h, "temp")
  /\ \E t \in FreshOf(Tokens) :
       /\ redis' = [redis EXCEPT !.temp[t] = req[h].epoch]
       /\ seen' = [seen EXCEPT !.drawn = @ \cup {t}]
  /\ Finish(h)
  /\ UNCHANGED <<rec, now, jobs, starts>>

-----------------------------------------------------------------------------
(* How each flow begins.  verifyMfaTempToken: GET mfa:, then the epoch. *)

Challenge(h, t, p) ==
  /\ "challenge" \in mix.requests /\ redis.temp[t] # None
  /\ Begin(h, [Idle EXCEPT !.pc = "epoch", !.flow = "challenge", !.proof = p, !.token = t,
                 !.epoch = redis.temp[t]])
  /\ UNCHANGED <<rec, redis, now, jobs, seen>>

ChallengeCheckEpoch(h) ==
  /\ At(h, "epoch")
  /\ IF req[h].epoch < redis.epoch THEN Finish(h)
     ELSE req' = [req EXCEPT ![h].pc = "lockout", ![h].epoch = 0]
  /\ UNCHANGED <<rec, redis, now, jobs, starts, seen>>

(* Every other flow is a request with a TOTP code, where it takes one. *)
Submit(h, flow, p) ==
  /\ flow \in mix.requests
  /\ IF flow \in {"setup", "reset"} THEN p = None ELSE p \in TotpCodes
  /\ Begin(h, [Idle EXCEPT !.pc = "fetch", !.flow = flow, !.proof = p])
  /\ UNCHANGED <<rec, redis, now, jobs, seen>>

(* fetchUserForContext.  An account that is gone or blocked, or that has    *)
(* the factor the flow refuses, ends the request.                           *)
AfterFetch(flow) ==
  CASE flow = "challenge" -> "verify"
    [] flow \in {"disable", "regenerate"} -> "lockout"
    [] flow = "reset" -> "lock"
    [] flow = "enable" -> "enableRead"
    [] flow = "setup" -> IF mix.password THEN "lockout" ELSE "setupRead"

Fetch(h) ==
  /\ At(h, "fetch")
  /\ LET flow == req[h].flow IN
     \/ Finish(h)
     \/ /\ rec.on = (flow \notin {"setup", "enable"})
        /\ req' = [req EXCEPT ![h].pc = AfterFetch(flow), ![h].user = rec]
  /\ UNCHANGED <<rec, redis, now, jobs, starts, seen>>

(* isMfaFlowLockedOut.  Mutant: one attempt too many. *)
LockedOutLate(c) == redis.failures[c] > MaxAttempts

LockedOut(c) == redis.failures[c] >= MaxAttempts

Lockout(h) ==
  /\ At(h, "lockout")
  /\ LET flow == req[h].flow IN
     IF LockedOut(Counter(flow)) THEN Finish(h)
     ELSE Goto(h, CASE flow = "challenge" -> "fetch" [] flow = "setup" -> "compare"
                    [] OTHER -> "verify")
  /\ UNCHANGED <<rec, redis, now, jobs, starts, seen>>

(* assertReauthenticated: the password is right or wrong. *)
Compare(h) ==
  /\ At(h, "compare")
  /\ \/ Goto(h, "clear") /\ UNCHANGED seen
     \/ Goto(h, "fail") /\ seen' = [seen EXCEPT !.guesses["reauth"] = @ + 1]
  /\ UNCHANGED <<rec, redis, now, jobs, starts>>

-----------------------------------------------------------------------------
(* verifyTotpWithAntiReplay and the recovery branch of challenge.           *)

AgainstSecret(h) == IF req[h].flow = "enable" THEN req[h].data.secret ELSE req[h].user.secret

(* A refused code is counted, except while the set-up is being verified. *)
Refuse(h) ==
  IF req[h].flow = "enable"
    THEN Finish(h) /\ UNCHANGED seen
    ELSE Goto(h, "fail") /\ seen' = [seen EXCEPT !.guesses[Counter(req[h].flow)] = @ + 1]

AfterVerify(flow) == IF flow = "enable" THEN "enableTake" ELSE "clear"

Accept(h) ==
  /\ Goto(h, AfterVerify(req[h].flow))
  /\ seen' = [seen EXCEPT !.accepted[req[h].proof] = @ + 1]

(* Computing the code and setting the scoped marker fall in one step of the *)
(* clock: they are one round trip apart, a step is thirty seconds.          *)
VerifyTotp(h) ==
  /\ At(h, "verify")
  /\ req[h].flow # "challenge" \/ req[h].proof \notin Codes
  /\ LET p == req[h].proof IN
     IF ~Acceptable(p, AgainstSecret(h)) THEN Refuse(h) /\ UNCHANGED redis
     ELSE /\ redis' = [redis EXCEPT !.marks = Marked("scoped", p)]
          /\ CASE mix.plane = "dashboard" ->
                    /\ req' = [req EXCEPT ![h].pc = "verifyLegacy",
                                 ![h].outcome = IF IsNew("scoped", p) THEN "fresh" ELSE "none"]
                    /\ UNCHANGED seen
               [] mix.plane = "platform" ->
                    IF IsNew("scoped", p) THEN Accept(h) ELSE Refuse(h)
  /\ UNCHANGED <<rec, now, jobs, starts>>

VerifyLegacy(h) ==
  /\ At(h, "verifyLegacy")
  /\ LET p == req[h].proof IN
     /\ redis' = [redis EXCEPT !.marks = Marked("legacy", p)]
     /\ IF req[h].outcome = "fresh" /\ IsNew("legacy", p) THEN Accept(h) ELSE Refuse(h)
  /\ UNCHANGED <<rec, now, jobs, starts>>

(* claimRecoveryCode.  Mutant: a code that fits is not claimed. *)
UnclaimedAlways(c) == TRUE

Unclaimed(c) == c \notin redis.claims

VerifyRecovery(h) ==
  /\ At(h, "verify")
  /\ req[h].flow = "challenge" /\ req[h].proof \in Codes
  /\ LET c == req[h].proof IN
     IF c \in req[h].user.codes /\ Unclaimed(c)
       THEN /\ redis' = [redis EXCEPT !.claims = @ \cup {c}]
            /\ Goto(h, "clear") /\ UNCHANGED seen
       ELSE Refuse(h) /\ UNCHANGED redis
  /\ UNCHANGED <<rec, now, jobs, starts>>

Fail(h) ==
  /\ At(h, "fail")
  /\ redis' = [redis EXCEPT !.failures[Counter(req[h].flow)] = @ + 1]
  /\ Finish(h)
  /\ UNCHANGED <<rec, now, jobs, starts, seen>>

Clear(h) ==
  /\ At(h, "clear")
  /\ LET c == Counter(req[h].flow) IN
     /\ redis' = [redis EXCEPT !.failures[c] = 0]
     /\ CASE req[h].flow = "challenge" ->
               Goto(h, "consume") /\ seen' = [seen EXCEPT !.guesses[c] = 0]
          [] req[h].flow = "setup" ->
               Goto(h, "setupRead") /\ seen' = [seen EXCEPT !.guesses[c] = 0]
          [] req[h].flow = "disable" ->
               /\ req' = [req EXCEPT ![h].pc = "lock", ![h].user = Off, ![h].proof = None]
               /\ seen' = [seen EXCEPT !.guesses[c] = 0]
          [] req[h].flow = "regenerate" ->
               \E C \in SUBSET FreshOf(Codes) :
                 /\ Cardinality(C) = CodeCount
                 /\ req' = [req EXCEPT ![h].pc = "lock", ![h].data.codes = C, ![h].user = Off,
                                  ![h].proof = None]
                 /\ seen' = [seen EXCEPT !.guesses[c] = 0, !.drawn = @ \cup C]
  /\ UNCHANGED <<rec, now, jobs, starts>>

(* consumeMfaTempToken: only the request that deleted the token goes on.    *)
Consume(h) ==
  /\ At(h, "consume")
  /\ redis' = [redis EXCEPT !.temp[req[h].token] = None]
  /\ CASE redis.temp[req[h].token] = None -> Finish(h)
       [] redis.temp[req[h].token] # None ->
            IF req[h].proof \in Codes THEN Goto(h, "lock")
            ELSE req' = [req EXCEPT ![h].pc = "issue", ![h].user = Off]
  /\ jobs' = IF redis.temp[req[h].token] # None /\ req[h].proof \notin Codes /\ req[h].user.stale
               THEN jobs \cup {req[h].user.secret} ELSE jobs
  /\ UNCHANGED <<rec, now, starts, seen>>

-----------------------------------------------------------------------------
(* setup and the reads of verifyAndEnable *)

(* The recent-authentication marker of an account without a password may be *)
(* missing, which ends the request like a set-up already pending.           *)
SetupRead(h) ==
  /\ At(h, "setupRead")
  /\ \/ (redis.setup # None \/ ~mix.password) /\ Finish(h) /\ UNCHANGED seen
     \/ /\ redis.setup = None
        /\ \E s \in FreshOf(Secrets), C \in SUBSET FreshOf(Codes) :
             /\ Cardinality(C) = CodeCount
             /\ req' = [req EXCEPT ![h].pc = "setupClaim",
                          ![h].data = [secret |-> s, codes |-> C]]
             /\ seen' = [seen EXCEPT !.drawn = @ \cup {s} \cup C]
  /\ UNCHANGED <<rec, redis, now, jobs, starts>>

SetupClaim(h) ==
  /\ At(h, "setupClaim")
  /\ IF redis.setup = None
       THEN redis' = [redis EXCEPT !.setup = req[h].data] /\ Finish(h)
       ELSE Goto(h, "setupReread") /\ UNCHANGED redis
  /\ UNCHANGED <<rec, now, jobs, starts, seen>>

SetupReread(h) ==
  /\ At(h, "setupReread")
  /\ IF redis.setup # None THEN Finish(h) ELSE Goto(h, "setupStore")
  /\ UNCHANGED <<rec, redis, now, jobs, starts, seen>>

SetupStore(h) ==
  /\ At(h, "setupStore")
  /\ redis' = [redis EXCEPT !.setup = req[h].data]
  /\ Finish(h)
  /\ UNCHANGED <<rec, now, jobs, starts, seen>>

EnableRead(h) ==
  /\ At(h, "enableRead")
  /\ IF redis.setup = None THEN Finish(h)
     ELSE req' = [req EXCEPT ![h].pc = "verify", ![h].data = redis.setup]
  /\ UNCHANGED <<rec, redis, now, jobs, starts, seen>>

(* GETDEL mfa_setup: what it returns is compared with null and dropped.     *)
EnableTake(h) ==
  /\ At(h, "enableTake")
  /\ redis' = [redis EXCEPT !.setup = None]
  /\ IF redis.setup = None THEN Finish(h) /\ UNCHANGED seen
     ELSE /\ Goto(h, "lock")
          /\ seen' = [seen EXCEPT !.crossed = @ \/ redis.setup # req[h].data]
  /\ UNCHANGED <<rec, now, jobs, starts>>

-----------------------------------------------------------------------------
(* transitionMfaRecord *)

Holds(h, k) == redis.lock[k] = h

(* Taking a lock anew: an earlier overrun of this handler is history. *)
TakeScoped(h) ==
  /\ At(h, "lock")
  /\ IF redis.lock["scoped"] # None THEN Finish(h) /\ UNCHANGED redis
     ELSE /\ redis' = [redis EXCEPT !.lock["scoped"] = h]
          /\ Goto(h, IF "legacy" \in Keys THEN "lockLegacy" ELSE "read")
  /\ UNCHANGED <<rec, now, jobs, starts, seen>>

TakeLegacy(h) ==
  /\ At(h, "lockLegacy")
  /\ IF redis.lock["legacy"] # None THEN Goto(h, "rollback") /\ UNCHANGED redis
     ELSE redis' = [redis EXCEPT !.lock["legacy"] = h] /\ Goto(h, "read")
  /\ UNCHANGED <<rec, now, jobs, starts, seen>>

(* RELEASE_LOCK_LUA.  Mutant: the key is deleted whoever holds it. *)
ReleasedAnyone(h, k) == [redis.lock EXCEPT ![k] = None]

Released(h, k) == IF Holds(h, k) THEN [redis.lock EXCEPT ![k] = None] ELSE redis.lock

Forget(h) == seen' = [seen EXCEPT !.overran = {o \in @ : o[1] # h}]

Rollback(h) ==
  /\ At(h, "rollback")
  /\ redis' = [redis EXCEPT !.lock = Released(h, "scoped")]
  /\ Finish(h) /\ Forget(h)
  /\ UNCHANGED <<rec, now, jobs, starts>>

(* The null a removal writes, field by field.  Mutant: fields left undefined *)
(* keep their column. *)
ClearedUndefined(r) == [r EXCEPT !.on = FALSE]

Cleared(r) == Off

StillHolds(h) == rec.on /\ rec.secret = req[h].user.secret

(* A challenge strikes its code from the list it read inside the lock.      *)
(* Mutant: from the list it read when it began. *)
SpendStale(h) == [req[h].user EXCEPT !.codes = @ \ {req[h].proof}, !.stale = FALSE]

Spend(h) ==
  IF StillHolds(h) /\ req[h].proof \in rec.codes
    THEN [rec EXCEPT !.codes = @ \ {req[h].proof}, !.stale = @ /\ ~req[h].user.stale]
    ELSE None

(* mutate: what each flow writes over the record read inside the lock, None *)
(* to abandon. *)
Mutate(h) ==
  LET data == req[h].data IN
  CASE req[h].flow = "challenge" -> Spend(h)
    [] req[h].flow = "enable" ->
         [on |-> TRUE, secret |-> data.secret, stale |-> FALSE, codes |-> data.codes]
    [] req[h].flow \in {"disable", "reset"} -> Cleared(rec)
    [] req[h].flow = "regenerate" ->
         IF rec.on THEN [rec EXCEPT !.codes = data.codes] ELSE None
    [] req[h].flow = "reencrypt" ->
         IF StillHolds(h) THEN [rec EXCEPT !.stale = FALSE] ELSE None

(* The read inside the lock may fail like the one before it.                *)
TransitionRead(h) ==
  /\ At(h, "read")
  /\ LET done == [req[h] EXCEPT !.user = Off, !.data = NoPayload] IN   \* not read again
     \/ req' = [req EXCEPT ![h] = [done EXCEPT !.pc = "unlock", !.outcome = "failed"]]
     \/ /\ Mutate(h) = None
        /\ req' = [req EXCEPT ![h] = [done EXCEPT !.pc = "unlock", !.outcome = "abandoned"]]
     \/ /\ Mutate(h) # None
        /\ req' = [req EXCEPT ![h] = [done EXCEPT !.pc = "write", !.update = Mutate(h)]]
  /\ UNCHANGED <<rec, redis, now, jobs, starts, seen>>

Overrun(h) == \E k \in Keys : <<h, k>> \in seen.overran

(* updateMfa; it may raise, before or after the host has written. *)
TransitionWrite(h) ==
  /\ At(h, "write")
  /\ \/ /\ rec' = req[h].update
        /\ \E o \in {"written", "failed"} :
             req' = [req EXCEPT ![h].pc = "unlock", ![h].outcome = o, ![h].update = Off]
        /\ seen' = [seen EXCEPT !.printed = @ \cup rec'.codes, !.late = @ \/ Overrun(h)]
     \/ /\ req' = [req EXCEPT ![h].pc = "unlock", ![h].outcome = "failed", ![h].update = Off]
        /\ UNCHANGED <<rec, seen>>
  /\ UNCHANGED <<redis, now, jobs, starts>>

(* Where the flow goes with the outcome of its transition: a challenge      *)
(* signs in even when it abandoned it.                                      *)
AfterTransition(h) ==
  CASE req[h].outcome # "failed" /\ req[h].flow = "challenge" -> Goto(h, "issue")
    [] req[h].outcome = "written" /\ req[h].flow \in {"enable", "disable", "reset"} ->
         Goto(h, "bump")
    [] OTHER -> Finish(h)

Unlock(h) ==
  /\ At(h, "unlock")
  /\ redis' = [redis EXCEPT !.lock = Released(h, "scoped")]
  /\ IF "legacy" \in Keys
       THEN Goto(h, "unlockLegacy") /\ UNCHANGED seen
       ELSE AfterTransition(h) /\ Forget(h)
  /\ UNCHANGED <<rec, now, jobs, starts>>

UnlockLegacy(h) ==
  /\ At(h, "unlockLegacy")
  /\ redis' = [redis EXCEPT !.lock = Released(h, "legacy")]
  /\ AfterTransition(h) /\ Forget(h)
  /\ UNCHANGED <<rec, now, jobs, starts>>

-----------------------------------------------------------------------------
(* After the transition *)

(* invalidateUserSessions and bumpUserTokenEpoch.  The sessions are those of *)
(* TokenRotation; here only the epoch is there to be read. *)
Bump(h) ==
  /\ At(h, "bump")
  /\ redis' = [redis EXCEPT !.epoch = @ + 1]
  /\ Finish(h)
  /\ UNCHANGED <<rec, now, jobs, starts, seen>>

(* issueTokens of the challenge. *)
Issue(h) ==
  /\ At(h, "issue")
  /\ seen' = [seen EXCEPT !.opened = [x \in DOMAIN @ |->
                IF x \in {req[h].token, req[h].proof} THEN @[x] + 1 ELSE @[x]]]
  /\ Finish(h)
  /\ UNCHANGED <<rec, redis, now, jobs, starts>>

(* reencryptSecret, detached from the challenge that queued it. *)
Reencrypt(h) ==
  \E s \in jobs :
    /\ Begin(h, [Idle EXCEPT !.pc = "lock", !.flow = "reencrypt", !.user.secret = s])
    /\ jobs' = jobs \ {s}
    /\ UNCHANGED <<rec, redis, now, seen>>

-----------------------------------------------------------------------------
(* Time *)

Tick ==
  /\ now < mix.time
  /\ now' = now + 1
  /\ UNCHANGED <<rec, redis, jobs, req, starts, seen>>

LockLapses(k) ==
  /\ "lock" \in mix.lapses
  /\ redis.lock[k] # None
  /\ redis' = [redis EXCEPT !.lock[k] = None]
  /\ seen' = [seen EXCEPT !.overran = @ \cup {<<redis.lock[k], k>>}]
  /\ UNCHANGED <<rec, now, jobs, req, starts>>

(* A claim is kept for five minutes, from before its challenge writes. *)
ClaimLapses(c) ==
  /\ "claim" \in mix.lapses
  /\ c \in redis.claims
  /\ redis' = [redis EXCEPT !.claims = @ \ {c}]
  /\ seen' = IF \E h \in Handlers : req[h].flow = "challenge" /\ req[h].proof = c
               THEN [seen EXCEPT !.outlived = @ \cup {c}] ELSE seen
  /\ UNCHANGED <<rec, now, jobs, req, starts>>

SetupLapses ==
  /\ "setup" \in mix.lapses
  /\ redis.setup # None
  /\ redis' = [redis EXCEPT !.setup = None]
  /\ UNCHANGED <<rec, now, jobs, req, starts, seen>>

(* An expiry nobody is there to see is like a token never issued. *)
TempLapses(t) ==
  /\ "temp" \in mix.lapses
  /\ \E h \in Handlers : req[h].token = t
  /\ redis.temp[t] # None
  /\ redis' = [redis EXCEPT !.temp[t] = None]
  /\ UNCHANGED <<rec, now, jobs, req, starts, seen>>

CounterLapses(c) ==
  /\ "counter" \in mix.lapses
  /\ redis.failures[c] > 0
  /\ redis' = [redis EXCEPT !.failures[c] = 0]
  /\ seen' = [seen EXCEPT !.guesses[c] = 0]
  /\ UNCHANGED <<rec, now, jobs, req, starts>>

(* The bounded supply of tokens, secrets or codes is used up. *)
Starved(h) ==
  \/ At(h, "temp") /\ FreshOf(Tokens) = {}
  \/ At(h, "setupRead") /\ (FreshOf(Secrets) = {} \/ Cardinality(FreshOf(Codes)) < CodeCount)
  \/ At(h, "clear") /\ Cardinality(FreshOf(Codes)) < CodeCount

(* Nothing in flight: only the bounds end a behaviour. *)
Rest ==
  /\ \A h \in Handlers : At(h, "idle") \/ Starved(h)
  /\ starts = mix.starts
  /\ UNCHANGED <<rec, redis, now, jobs, req, starts, seen>>

Handle(h) ==
  \/ LoginReadEpoch(h) \/ LoginStoreTemp(h)
  \/ \E p \in Proofs, t \in Tokens : Challenge(h, t, p)
  \/ \E p \in TotpCodes \cup {None}, flow \in Submitted : Submit(h, flow, p)
  \/ ChallengeCheckEpoch(h) \/ Fetch(h) \/ Lockout(h) \/ Compare(h)
  \/ VerifyTotp(h) \/ VerifyLegacy(h) \/ VerifyRecovery(h) \/ Fail(h) \/ Clear(h) \/ Consume(h)
  \/ SetupRead(h) \/ SetupClaim(h) \/ SetupReread(h) \/ SetupStore(h)
  \/ EnableRead(h) \/ EnableTake(h)
  \/ TakeScoped(h) \/ TakeLegacy(h) \/ Rollback(h)
  \/ TransitionRead(h) \/ TransitionWrite(h) \/ Unlock(h) \/ UnlockLegacy(h)
  \/ Bump(h) \/ Issue(h) \/ Reencrypt(h)

Lapse ==
  \/ SetupLapses
  \/ \E k \in Keys : LockLapses(k)
  \/ \E c \in Codes : ClaimLapses(c)
  \/ \E t \in Tokens : TempLapses(t)
  \/ \E c \in Counters : CounterLapses(c)

Next == ((\E h \in Handlers : Handle(h)) \/ Lapse \/ Tick \/ Rest) /\ UNCHANGED mix

Spec == Init /\ [][Next]_vars

-----------------------------------------------------------------------------
(* Correctness *)

InTransition(h) == At(h, "read") \/ At(h, "write")

(* Two handlers are between the locks and their release together only if a  *)
(* lock of one of them outlived its time to live: neither the roll-back of  *)
(* half a pair nor a late release lets another one in.  (One lock is enough:*)
(* of two handlers that stall between the pair, each may lose the other's.) *)
LockHeldAlone ==
  \A h, g \in Handlers :
    h # g /\ InTransition(h) /\ InTransition(g) => Overrun(h) \/ Overrun(g)

(* However set-up, challenges, removals, new codes and re-encryption        *)
(* interleave, the record moves as one step of MfaLedger at a time: a spent *)
(* code does not come back, a list replaced stays replaced and a factor     *)
(* removed stays removed.  Excepted is what follows a write by a handler    *)
(* that had lost its locks, or the enabling of a set-up already replaced.   *)
Ledger == INSTANCE MfaLedger WITH factor <- rec.secret, codes <- rec.codes,
                                  printed <- seen.printed

RecordIsLedger ==
  Ledger!Init /\ [][seen'.late \/ seen'.crossed \/ Ledger!Next]_<<rec.secret, rec.codes, seen.printed>>

(* The TOTP code of one step is accepted once, by any flow, while the       *)
(* window still admits it; a challenge token and a recovery code each       *)
(* complete one sign-in.  A recovery code can do so again only if its claim *)
(* ran out under a challenge in flight or the record was overwritten as     *)
(* above.                                                                   *)
OpensOnce ==
  /\ \A p \in TotpCodes : seen.accepted[p] <= 1
  /\ \A t \in Tokens : seen.opened[t] <= 1
  /\ \A c \in Codes : seen.opened[c] <= 1 \/ c \in seen.outlived \/ seen.late \/ seen.crossed

(* Until its counter is cleared or expires, a flow answers at most one      *)
(* wrong code per handler beyond the limit, those that passed the check     *)
(* together.                                                                *)
GuessesBounded ==
  \A c \in Counters : seen.guesses[c] <= MaxAttempts - 1 + Cardinality(Handlers)
=============================================================================
