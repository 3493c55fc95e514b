----------------------------- MODULE Credentials ------------------------------
(***************************************************************************)
(* Signing in with a password, verifying an address, resetting and         *)
(* changing the password, moving to another address, and the cached status *)
(* the guards read: AuthService, PasswordResetService, EmailChangeService, *)
(* OtpService, BruteForceService and AccountStatusService.                 *)
(*                                                                         *)
(* One action is one await with the code up to the next one; an await that *)
(* touches nothing shared (hashing, comparing, waiting out a floor) belongs *)
(* to the one before it.  Hooks and notices are left out, a session is a   *)
(* single fact (its keys are in TokenRotation), and the account signing in *)
(* has no second factor (see MfaRecord).                                   *)
(***************************************************************************)
EXTENDS AccountStore

-----------------------------------------------------------------------------
(* The failure counter *)

Counter(h) ==
  IF req[h].flow = "login" THEN <<"login", req[h].email>> ELSE <<req[h].flow, req[h].user>>

(* isLockedOut.  Mutant: one attempt too many. *)
LockedOutLate(c) == redis.failures[c] > MaxAttempts

LockedOut(c) == redis.failures[c] >= MaxAttempts

Fits(word, account) == account.hash # None /\ account.hash.word = word

Guess(h, account, right) ==
  IF Fits(req[h].word, account)
    THEN /\ req' = [req EXCEPT ![h].pc = right, ![h].account = account]
         /\ UNCHANGED seen
    ELSE /\ Goto(h, "fail")
         /\ seen' = [seen EXCEPT !.guesses[Counter(h)] = @ + 1]

(* A change compares as soon as the counter has let it. *)
Lockout(h) ==
  /\ At(h, "lockout")
  /\ IF LockedOut(Counter(h)) THEN Finish(h) /\ UNCHANGED seen
     ELSE IF req[h].flow = "login" THEN Goto(h, "find") /\ UNCHANGED seen
     ELSE Guess(h, req[h].account, "clear")
  /\ UNCHANGED <<users, redis, grants, jobs, starts>>

Fail(h) ==
  /\ At(h, "fail")
  /\ redis' = [redis EXCEPT !.failures[Counter(h)] = @ + 1]
  /\ Finish(h)
  /\ UNCHANGED <<users, grants, jobs, starts, seen>>

NeedsRehash(hash) == hash.salt = 0

Clear(h) ==
  /\ At(h, "clear")
  /\ redis' = [redis EXCEPT !.failures[Counter(h)] = 0]
  /\ seen' = [seen EXCEPT !.guesses[Counter(h)] = 0]
  /\ Goto(h, CASE req[h].flow = "login" -> "epoch" [] req[h].flow = "change" -> "keep"
               [] req[h].flow = "requestMove" -> "free")
  /\ LET account == req[h].account IN
     jobs' = IF req[h].flow = "login" /\ NeedsRehash(account.hash)
               THEN jobs \cup {[user |-> req[h].user, word |-> req[h].word, hash |-> account.hash]}
               ELSE jobs
  /\ UNCHANGED <<users, grants, starts>>

(* unlockAccount is resetFailures and nothing else. *)
Unlock(e) ==
  /\ "unlock" \in mix.requests /\ starts < mix.starts
  /\ starts' = starts + 1
  /\ redis' = [redis EXCEPT !.failures[<<"login", e>>] = 0]
  /\ seen' = [seen EXCEPT !.guesses[<<"login", e>>] = 0]
  /\ UNCHANGED <<users, grants, jobs, req>>

-----------------------------------------------------------------------------
(* Sign-in: login, and issueTokensForUserId for an account the host names.  *)

Login(h, e, w) ==
  /\ Begin(h, "login", [Idle EXCEPT !.pc = "lockout", !.email = e, !.word = w])
  /\ UNCHANGED <<users, redis, grants, jobs, seen>>

(* An address nobody holds fails like a wrong password. *)
Find(h) ==
  /\ At(h, "find")
  /\ IF Holder(req[h].email) = {} \/ \E u \in Holder(req[h].email) : ~Fits(req[h].word, users[u])
       THEN /\ Goto(h, "fail")
            /\ seen' = [seen EXCEPT !.guesses[Counter(h)] = @ + 1]
       ELSE /\ \E u \in Holder(req[h].email) :
                 IF MaySignIn(users[u])
                   THEN req' = [req EXCEPT ![h].pc = "clear", ![h].user = u,
                                           ![h].account = users[u]]
                   ELSE Finish(h)
            /\ UNCHANGED seen
  /\ UNCHANGED <<users, redis, grants, jobs, starts>>

ForUser(h, u) ==
  /\ Begin(h, "forUser", [Idle EXCEPT !.pc = "admit", !.user = u])
  /\ UNCHANGED <<users, redis, grants, jobs, seen>>

Admit(h) ==
  /\ At(h, "admit")
  /\ IF MaySignIn(users[req[h].user]) THEN Goto(h, "epoch") ELSE Finish(h)
  /\ UNCHANGED <<users, redis, grants, jobs, starts, seen>>

(* issueTokens stamps the access token with the epoch it reads, then writes *)
(* the session.                                                             *)
SignAccess(h) ==
  /\ At(h, "epoch")
  /\ LET u == req[h].user IN
     grants' = [grants EXCEPT !.access = @ \cup
                  {[user |-> u, epoch |-> redis.epoch[u], age |-> users[u].writes]}]
  /\ Goto(h, "session")
  /\ UNCHANGED <<users, redis, jobs, starts, seen>>

WriteSession(h) ==
  /\ At(h, "session")
  /\ LET u == req[h].user IN
     grants' = [grants EXCEPT !.sessions = @ \cup
                  {[user |-> u, id |-> req[h].id, age |-> users[u].writes]}]
  /\ Finish(h)
  /\ UNCHANGED <<users, redis, jobs, starts, seen>>

(* rehashPassword, detached from the sign-in that queued it. *)
Rehash(h, job) ==
  /\ job \in jobs /\ jobs' = jobs \ {job}
  /\ Begin(h, "rehash", [Idle EXCEPT !.pc = "reread", !.user = job.user, !.word = job.word,
                           !.account.hash = job.hash])
  /\ UNCHANGED <<users, redis, grants, seen>>

Reread(h) ==
  /\ At(h, "reread")
  /\ IF users[req[h].user].hash = req[h].account.hash THEN Goto(h, "upgrade") ELSE Finish(h)
  /\ UNCHANGED <<users, redis, grants, jobs, starts, seen>>

Stored(u, hash) == [users EXCEPT ![u].hash = hash, ![u].writes = @ + 1]

Upgrade(h) ==
  /\ At(h, "upgrade")
  /\ users' = Stored(req[h].user, [word |-> req[h].word, salt |-> req[h].id])
  /\ Finish(h)
  /\ UNCHANGED <<redis, grants, jobs, starts, seen>>

-----------------------------------------------------------------------------
(* Asking for a code or a link: answerResetRequest (forgot-password and     *)
(* resend-otp) and resendVerificationEmail.                                 *)

Purpose(flow) ==
  IF flow \in {"verifyEmail", "resendVerification", "register"} THEN "verify" ELSE "reset"

Key(h) == <<Purpose(req[h].flow), req[h].email>>

Ask(h, flow, e) ==
  /\ Begin(h, flow, [Idle EXCEPT !.pc = "cool", !.email = e])
  /\ UNCHANGED <<users, redis, grants, jobs, seen>>

Cool(h) ==
  /\ At(h, "cool")
  /\ IF Key(h) \in redis.cool THEN Finish(h) ELSE Goto(h, "account")
  /\ redis' = [redis EXCEPT !.cool = @ \cup {Key(h)}]
  /\ UNCHANGED <<users, grants, jobs, starts, seen>>

(* A failure after the cooldown was taken; the verification mail keeps it. *)
Fault(h) ==
  IF req[h].flow \in {"forgot", "resendOtp"} THEN Goto(h, "release") ELSE Finish(h)

Entitled(h, u) ==
  IF Purpose(req[h].flow) = "reset" THEN users[u].state = "active" ELSE ~users[u].verified

Account(h) ==
  /\ At(h, "account")
  /\ \/ \E u \in Holder(req[h].email) :
          /\ Entitled(h, u)
          /\ req' = [req EXCEPT ![h].user = u, ![h].pc =
               IF req[h].flow = "forgot" /\ mix.method = "token" THEN "fingerprint" ELSE "code"]
     \/ (\A u \in Holder(req[h].email) : ~Entitled(h, u)) /\ Finish(h)
     \/ Failing /\ Fault(h)
  /\ UNCHANGED <<users, redis, grants, jobs, starts, seen>>

Release(h) ==
  /\ At(h, "release")
  /\ redis' = [redis EXCEPT !.cool = @ \ {Key(h)}]
  /\ Finish(h)
  /\ UNCHANGED <<users, grants, jobs, starts, seen>>

(* OTP_STORE_LUA.  A new code replaces the one before and its count. *)
StoreCode(h) ==
  /\ At(h, "code")
  /\ \/ /\ redis' = [redis EXCEPT !.otp[Key(h)] = [code |-> req[h].id, tries |-> 0]]
        /\ Goto(h, "mail")
     \/ Failing /\ Fault(h) /\ UNCHANGED redis
  /\ UNCHANGED <<users, grants, jobs, starts, seen>>

(* passwordFingerprintOf.  Mutant: the token is bound to nothing. *)
FingerprintNone(u) == None

FingerprintOf(u) == users[u].hash

Fingerprint(h) ==
  /\ At(h, "fingerprint")
  /\ LET u == req[h].user IN
     req' = [req EXCEPT ![h].pc = "mint", ![h].data =
       [kind |-> IF req[h].flow = "forgot" THEN "reset" ELSE "vtok", user |-> u,
        email |-> req[h].email, rank |-> 0, bound |-> FingerprintOf(u), age |-> users[u].writes]]
  /\ UNCHANGED <<users, redis, grants, jobs, starts, seen>>

(* The record is stored; a verified token and an OAuth state are handed     *)
(* over in the response, an invitation is confirmed first.                  *)
Mint(h) ==
  /\ At(h, "mint")
  /\ redis' = [redis EXCEPT !.vault[req[h].id] = req[h].data]
  /\ IF req[h].flow \in {"verifyOtp", "authorize"}
       THEN Finish(h) /\ seen' = [seen EXCEPT !.mailed = @ \cup {req[h].id}]
       ELSE Goto(h, IF req[h].flow = "invite" THEN "confirm" ELSE "mail") /\ UNCHANGED seen
  /\ UNCHANGED <<users, grants, jobs, starts>>

(* The mail arrives or the provider fails, and then a reset link is         *)
(* deleted again.  Registering signs in without waiting for its mail.       *)
Mail(h) ==
  /\ At(h, "mail")
  /\ \/ seen' = [seen EXCEPT !.mailed = @ \cup {req[h].id}] /\ UNCHANGED redis
     \/ /\ Failing /\ UNCHANGED seen
        /\ redis' = IF req[h].flow = "forgot"
                      THEN [redis EXCEPT !.vault[req[h].id] = NoEntry] ELSE redis
  /\ IF req[h].flow = "register" THEN Goto(h, "epoch") ELSE Finish(h)
  /\ UNCHANGED <<users, grants, jobs, starts>>

-----------------------------------------------------------------------------
(* Presenting a code: verifyOtp, the reset with a code, verifyEmail.        *)

Present(h, flow, e, code, w) ==
  /\ code \in seen.mailed \cup {0}
  /\ flow = "resetOtp" => mix.method = "otp"
  /\ (w = None) <=> (flow # "resetOtp")
  /\ Begin(h, flow, [Idle EXCEPT !.pc = "verify", !.email = e, !.proof = code, !.fresh = w])
  /\ UNCHANGED <<users, redis, grants, jobs, seen>>

(* OTP_VERIFY_LUA.  Mutant: a code at its limit is compared once more. *)
ExhaustedLate(record) == record.tries > MaxCodeAttempts

Exhausted(record) == record.tries >= MaxCodeAttempts

VerifyCode(h) ==
  /\ At(h, "verify")
  /\ LET record == redis.otp[Key(h)] IN
     CASE record = NoCode -> Finish(h) /\ UNCHANGED <<redis, seen>>
       [] record # NoCode /\ Exhausted(record) ->
            /\ redis' = [redis EXCEPT !.otp[Key(h)] = NoCode]
            /\ Finish(h) /\ UNCHANGED seen
       [] record # NoCode /\ ~Exhausted(record) /\ record.code = req[h].proof ->
            /\ redis' = [redis EXCEPT !.otp[Key(h)] = NoCode]
            /\ seen' = [seen EXCEPT !.spent[record.code] = @ + 1]
            /\ Goto(h, "owner")
       [] OTHER ->
            /\ redis' = [redis EXCEPT !.otp[Key(h)].tries = @ + 1]
            /\ seen' = [seen EXCEPT !.wrong[record.code] = @ + 1]
            /\ Finish(h)
  /\ UNCHANGED <<users, grants, jobs, starts>>

(* The code is spent; its address may belong to nobody by now. *)
FindOwner(h) ==
  /\ At(h, "owner")
  /\ IF Holder(req[h].email) = {} THEN Finish(h)
     ELSE \E u \in Holder(req[h].email) :
            req' = [req EXCEPT ![h].user = u, ![h].pc =
              CASE req[h].flow = "verifyOtp" -> "fingerprint" [] req[h].flow = "resetOtp" -> "write"
                [] req[h].flow = "verifyEmail" -> "flag"]
  /\ UNCHANGED <<users, redis, grants, jobs, starts, seen>>

-----------------------------------------------------------------------------
(* Presenting a link or token: each is taken with GETDEL.                   *)

Opens(flow) ==
  CASE flow = "reset" -> IF mix.method = "token" THEN "reset" ELSE "vtok"
    [] flow = "confirmMove" -> "move" [] flow = "accept" -> "invite" [] flow = "callback" -> "state"

Redeem(h, flow, e, n, w) ==
  /\ n \in seen.mailed
  /\ (e = None) <=> (flow \in {"confirmMove", "accept"})
  /\ (w = None) <=> (flow \notin {"reset", "accept"})
  /\ Begin(h, flow, [Idle EXCEPT !.pc = "take", !.email = e, !.proof = n, !.fresh = w])
  /\ UNCHANGED <<users, redis, grants, jobs, seen>>

(* Mutant: the record is read and stays. *)
TakenNot(n) == redis.vault

Taken(n) == [redis.vault EXCEPT ![n] = NoEntry]

AfterTake(flow) ==
  CASE flow \in {"reset", "confirmMove"} -> "bound" [] flow = "accept" -> "unindex"
    [] flow = "callback" -> "exchange"

(* The reset also names its address, which has to be the record's. *)
Take(h) ==
  /\ At(h, "take")
  /\ LET entry == redis.vault[req[h].proof] flow == req[h].flow IN
     IF entry.kind # Opens(flow) THEN Finish(h) /\ UNCHANGED <<redis, seen>>
     ELSE /\ redis' = [redis EXCEPT !.vault = Taken(req[h].proof)]
          /\ IF flow = "reset" /\ entry.email # req[h].email THEN Finish(h) /\ UNCHANGED seen
             ELSE /\ req' = [req EXCEPT ![h].pc = AfterTake(flow), ![h].data = entry,
                       ![h].user = entry.user,
                       ![h].email = IF flow = "callback" THEN @ ELSE entry.email,
                       ![h].age = IF entry.user = None THEN 0 ELSE users[entry.user].writes]
                  /\ seen' = [seen EXCEPT !.spent[req[h].proof] = @ + 1]
  /\ UNCHANGED <<users, grants, jobs, starts>>

(* assertResetTokenStillBound and assertStillBound: the empty fingerprint   *)
(* binds nothing.  Mutant: a token is never too old.                        *)
StillBoundAlways(entry) == TRUE

StillBound(entry) == entry.bound = None \/ entry.bound = users[entry.user].hash

Bound(h) ==
  /\ At(h, "bound")
  /\ LET user == users[req[h].user] IN
     IF ~StillBound(req[h].data) THEN Finish(h)
     ELSE IF req[h].flow = "reset" THEN Goto(h, "write")
     ELSE IF user.state = "active" /\ user.email # req[h].email THEN Goto(h, "free")
     ELSE Finish(h)
  /\ UNCHANGED <<users, redis, grants, jobs, starts, seen>>

-----------------------------------------------------------------------------
(* applyPasswordReset and changePassword                                    *)

Change(h, flow, u, w, fresh, e) ==
  /\ (fresh = None) <=> (flow # "change")
  /\ (e = None) <=> (flow # "requestMove")
  /\ Begin(h, flow, [Idle EXCEPT !.pc = "self", !.user = u, !.word = w, !.fresh = fresh,
                       !.email = e])
  /\ UNCHANGED <<users, redis, grants, jobs, seen>>

(* findById; the counter is read after the account. *)
FindSelf(h) ==
  /\ At(h, "self")
  /\ LET user == users[req[h].user] IN
     IF user.hash = None THEN Finish(h)
     ELSE req' = [req EXCEPT ![h].pc = "lockout", ![h].account = user]
  /\ UNCHANGED <<users, redis, grants, jobs, starts, seen>>

(* resolveLiveSession: the session to keep, if the caller named one. *)
Keep(h) ==
  /\ At(h, "keep")
  /\ \E s \in {x \in grants.sessions : x.user = req[h].user} \cup {None} :
       req' = [req EXCEPT ![h].pc = "write", ![h].kept = s]
  /\ UNCHANGED <<users, redis, grants, jobs, starts, seen>>

Write(h) ==
  /\ At(h, "write")
  /\ LET u == req[h].user IN
     /\ users' = Stored(u, [word |-> req[h].fresh, salt |-> req[h].id])
     /\ req' = [req EXCEPT ![h].pc = "sweep", ![h].age = users'[u].writes]
  /\ UNCHANGED <<redis, grants, jobs, starts, seen>>

(* invalidateUserSessions, or revokeAllExceptCurrent: when the session to   *)
(* keep has gone, every session goes.                                       *)
Sweep(h) ==
  /\ At(h, "sweep")
  /\ grants' = [grants EXCEPT !.sessions =
                  {s \in @ : s.user # req[h].user \/ s = req[h].kept}]
  /\ Goto(h, "bump")
  /\ UNCHANGED <<users, redis, jobs, starts, seen>>

(* bumpUserTokenEpoch.  Mutant: the access tokens are left alone. *)
BumpedNot(u) == redis.epoch

Bumped(u) == [redis.epoch EXCEPT ![u] = @ + 1]

Bump(h) ==
  /\ At(h, "bump")
  /\ redis' = [redis EXCEPT !.epoch = Bumped(req[h].user)]
  /\ Goto(h, "notify")
  /\ UNCHANGED <<users, grants, jobs, starts, seen>>

(* The account is read once more for the notice, and the handler answers. *)
Notify(h) ==
  /\ At(h, "notify")
  /\ Finish(h)
  /\ UNCHANGED <<users, redis, grants, jobs, starts, seen>>

-----------------------------------------------------------------------------
(* EmailChangeService                                                       *)

(* assertAddressIsFree.  The request binds the link to the hash it compared. *)
Free(h) ==
  /\ At(h, "free")
  /\ LET user == req[h].account IN
     IF Holder(req[h].email) # {} THEN Finish(h)
     ELSE IF req[h].flow = "confirmMove" THEN Goto(h, "move")
     ELSE req' = [req EXCEPT ![h].pc = "mint", ![h].data =
            [kind |-> "move", user |-> req[h].user, email |-> req[h].email, rank |-> 0,
             bound |-> user.hash, age |-> user.writes]]
  /\ UNCHANGED <<users, redis, grants, jobs, starts, seen>>

(* updateEmail; the host's index may still refuse it. *)
Move(h) ==
  /\ At(h, "move")
  /\ LET u == req[h].user IN
     users' = IF Conflict(req[h].email, u) THEN users
              ELSE [users EXCEPT ![u].email = req[h].email]
  /\ Finish(h)
  /\ UNCHANGED <<redis, grants, jobs, starts, seen>>

-----------------------------------------------------------------------------
(* The facts about an account the guards cache                              *)

(* verifyEmail sets the flag; the host suspends or restores an account.     *)
(* Both then invalidate the cache, the verified flag first.                 *)
Flag(h) ==
  /\ At(h, "flag")
  /\ users' = [users EXCEPT ![req[h].user].verified = TRUE]
  /\ Goto(h, "dropVerified")
  /\ UNCHANGED <<redis, grants, jobs, starts, seen>>

Suspend(h, u) ==
  /\ Exists(u)
  /\ Begin(h, "suspend", [Idle EXCEPT !.pc = "dropVerified", !.user = u])
  /\ users' = [users EXCEPT ![u].state = IF @ = "active" THEN "blocked" ELSE "active"]
  /\ UNCHANGED <<redis, grants, jobs, seen>>

DropVerified(h) ==
  /\ At(h, "dropVerified")
  /\ redis' = [redis EXCEPT !.verified[req[h].user] = NoFact]
  /\ Goto(h, "dropStatus")
  /\ UNCHANGED <<users, grants, jobs, starts, seen>>

(* Mutant: only the verified flag is dropped. *)
WithoutStatusNot(u) == redis.status

WithoutStatus(u) == [redis.status EXCEPT ![u] = NoFact]

DropStatus(h) ==
  /\ At(h, "dropStatus")
  /\ redis' = [redis EXCEPT !.status = WithoutStatus(req[h].user)]
  /\ Finish(h)
  /\ UNCHANGED <<users, grants, jobs, starts, seen>>

(* assertDashboardAccountUsable: two reads, and on a miss of either the     *)
(* repository and two writes.                                               *)
Guard(h, u) ==
  /\ Begin(h, "guard", [Idle EXCEPT !.pc = "getStatus", !.user = u])
  /\ UNCHANGED <<users, redis, grants, jobs, seen>>

(* The verdict; a ticket is asked for behind this check. *)
Judged(h, account) ==
  [req EXCEPT ![h] = IF req[h].flow = "ticket" /\ MaySignIn(account)
                       THEN [req[h] EXCEPT !.pc = "lookUp"] ELSE Idle]

(* A hit is kept with the account; a miss leaves it blank. *)
GetStatus(h) ==
  /\ At(h, "getStatus")
  /\ LET val == redis.status[req[h].user].val
         account == IF val = None THEN NoUser ELSE [NoUser EXCEPT !.state = val] IN
     IF mix.required
       THEN req' = [req EXCEPT ![h].pc = "getVerified", ![h].account = account]
       ELSE IF val = None THEN Goto(h, "resolve") ELSE req' = Judged(h, account)
  /\ UNCHANGED <<users, redis, grants, jobs, starts, seen>>

GetVerified(h) ==
  /\ At(h, "getVerified")
  /\ LET val == redis.verified[req[h].user].val IN
     IF req[h].account = NoUser \/ val = None THEN Goto(h, "resolve")
     ELSE req' = Judged(h, [req[h].account EXCEPT !.verified = val])
  /\ UNCHANGED <<users, redis, grants, jobs, starts, seen>>

Resolve(h) ==
  /\ At(h, "resolve")
  /\ req' = [req EXCEPT ![h].pc = "setStatus", ![h].account = users[req[h].user]]
  /\ UNCHANGED <<users, redis, grants, jobs, starts, seen>>

SetStatus(h) ==
  /\ At(h, "setStatus")
  /\ LET u == req[h].user val == req[h].account.state IN
     redis' = [redis EXCEPT !.status[u] = [val |-> val, current |-> val = users[u].state]]
  /\ IF mix.required THEN Goto(h, "setVerified") ELSE req' = Judged(h, req[h].account)
  /\ UNCHANGED <<users, grants, jobs, starts, seen>>

SetVerified(h) ==
  /\ At(h, "setVerified")
  /\ LET u == req[h].user val == req[h].account.verified IN
     redis' = [redis EXCEPT !.verified[u] = [val |-> val, current |-> val = users[u].verified]]
  /\ req' = Judged(h, req[h].account)
  /\ UNCHANGED <<users, grants, jobs, starts, seen>>

-----------------------------------------------------------------------------

CredentialStep(h) ==
  \/ Lockout(h) \/ Fail(h) \/ Clear(h) \/ Find(h) \/ Admit(h) \/ SignAccess(h) \/ WriteSession(h)
  \/ Reread(h) \/ Upgrade(h) \/ Cool(h) \/ Account(h) \/ Release(h) \/ StoreCode(h)
  \/ Fingerprint(h) \/ Mint(h) \/ Mail(h) \/ VerifyCode(h) \/ FindOwner(h) \/ Take(h) \/ Bound(h)
  \/ FindSelf(h) \/ Keep(h) \/ Write(h) \/ Sweep(h) \/ Bump(h) \/ Notify(h) \/ Free(h) \/ Move(h)
  \/ Flag(h) \/ DropVerified(h) \/ DropStatus(h) \/ GetStatus(h) \/ GetVerified(h) \/ Resolve(h)
  \/ SetStatus(h) \/ SetVerified(h)

(* A new password is never the one the owner began with. *)
NewWords == Words \ {OwnerWord}

CredentialRequest(h) ==
  \/ \E job \in jobs : Rehash(h, job)
  \/ ForUser(h, Owner) \/ Guard(h, Owner) \/ \E u \in {Admin, Owner} : Suspend(h, u)
  \/ \E e \in mix.emails, w \in Words : Login(h, e, w)
  \/ \E flow \in {"forgot", "resendOtp", "resendVerification"} \cap mix.requests, e \in mix.emails :
       Ask(h, flow, e)
  \/ \E flow \in {"verifyOtp", "verifyEmail", "resetOtp"} \cap mix.requests, e \in mix.emails,
        code \in {0} \cup Ids, w \in NewWords \cup {None} : Present(h, flow, e, code, w)
  \/ \E flow \in {"reset", "confirmMove"} \cap mix.requests, e \in mix.emails \cup {None},
        n \in Ids, w \in NewWords \cup {None} : Redeem(h, flow, e, n, w)
  \/ \E flow \in {"change", "requestMove"} \cap mix.requests, w \in Words,
        fresh \in NewWords \cup {None}, e \in mix.emails \cup {None} :
        Change(h, flow, Owner, w, fresh, e)

CredentialNext ==
  \/ \E h \in Handlers : CredentialRequest(h) \/ CredentialStep(h)
  \/ \E e \in Emails : Unlock(e)
=============================================================================
