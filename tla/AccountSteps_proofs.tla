-------------------------- MODULE AccountSteps_proofs --------------------------
(***************************************************************************)
(* The inductive invariant of Accounts, and what its steps do.             *)
(*                                                                         *)
(* A handler acts on what it read some awaits ago.  IInv says what that is *)
(* still good for: whom it is about, that the value it draws is nowhere    *)
(* yet, how a password it was bound to is dated, which invitation can      *)
(* still be named, whether a change of an account is followed by its       *)
(* invalidation, and what a credential that was dead can still pass.       *)
(*                                                                         *)
(* Next has some eighty actions.  Each has a lemma here that says which    *)
(* fields it changes and to what; Enters, Step and Drifts classify them.   *)
(* Accounts_proofs works from these.                                       *)
(***************************************************************************)
EXTENDS Accounts, TLAPS

-----------------------------------------------------------------------------
(* What the place of a handler says of it *)

(* Where the handlers of a flow can be. *)
OnPath(flow, pc) ==
  \/ flow = "none" /\ pc = "idle"
  \/ flow = "login" /\ pc \in {"lockout", "find", "fail", "clear", "epoch", "session"}
  \/ flow = "forUser" /\ pc \in {"admit", "epoch", "session"}
  \/ flow = "rehash" /\ pc \in {"reread", "upgrade"}
  \/ flow = "forgot" /\ pc \in {"cool", "account", "release", "code", "fingerprint", "mint", "mail"}
  \/ flow = "resendOtp" /\ pc \in {"cool", "account", "release", "code", "mail"}
  \/ flow = "resendVerification" /\ pc \in {"cool", "account", "code", "mail"}
  \/ flow = "verifyOtp" /\ pc \in {"verify", "owner", "fingerprint", "mint"}
  \/ flow = "verifyEmail" /\ pc \in {"verify", "owner", "flag", "dropVerified", "dropStatus"}
  \/ flow = "resetOtp" /\ pc \in {"verify", "owner", "write", "sweep", "bump", "notify"}
  \/ flow = "reset" /\ pc \in {"take", "bound", "write", "sweep", "bump", "notify"}
  \/ flow = "confirmMove" /\ pc \in {"take", "bound", "free", "move"}
  \/ flow = "change" /\ pc \in {"self", "lockout", "fail", "clear", "keep", "write", "sweep", "bump",
                                "notify"}
  \/ flow = "requestMove" /\ pc \in {"self", "lockout", "fail", "clear", "free", "mint", "mail"}
  \/ flow = "guard" /\ pc \in {"getStatus", "getVerified", "resolve", "setStatus", "setVerified"}
  \/ flow = "suspend" /\ pc \in {"dropVerified", "dropStatus"}
  \/ flow = "register" /\ pc \in {"known", "create", "code", "mail", "epoch", "session"}
  \/ flow = "invite" /\ pc \in {"inviter", "index", "pending", "claim", "remove", "mint", "confirm",
                                "withdraw", "mail"}
  \/ flow = "revoke" /\ pc \in {"inviter", "index", "pending", "unindex", "remove"}
  \/ flow = "accept" /\ pc \in {"take", "unindex", "authority", "known", "create", "epoch", "session"}
  \/ flow = "authorize" /\ pc = "mint"
  \/ flow = "callback" /\ pc \in {"take", "exchange", "known", "create", "link", "admit", "epoch",
                                  "session"}
  \/ flow = "bearer" /\ pc \in {"blacklist", "bulk", "pass"}
  \/ flow = "verify" /\ pc \in {"blacklist", "bulk", "getStatus", "getVerified", "resolve",
                                "setStatus", "setVerified"}
  \/ flow = "ticket" /\ pc \in {"blacklist", "bulk", "getStatus", "getVerified", "resolve",
                                "setStatus", "setVerified", "lookUp", "measure", "mintTicket"}
  \/ flow = "redeem" /\ pc \in {"getdel", "blacklist", "bulk", "pass"}
  \/ flow = "signOut" /\ pc = "revokeToken"
  \/ flow = "issueKey" /\ pc \in {"createKey", "handOver"}
  \/ flow = "rotateKey" /\ pc \in {"findKey", "createKey", "retireKey", "handOver"}
  \/ flow = "revokeKey" /\ pc = "markRevoked"
  \/ flow = "useKey" /\ pc \in {"readRow", "judge", "audit"}

HasEmail(q) ==
  \/ q.flow \in {"login", "forgot", "resendOtp", "resendVerification", "verifyOtp", "verifyEmail",
                 "resetOtp", "reset", "requestMove", "register", "invite", "revoke", "callback"}
  \/ q.flow \in {"confirmMove", "accept"} /\ q.pc # "take"

HasUser(q) ==
  \/ q.flow \in {"change", "requestMove", "guard", "suspend", "forUser", "rehash", "bearer", "verify",
                 "ticket", "redeem", "invite", "revoke"}
  \/ q.pc \in {"clear", "epoch", "session", "admit", "fingerprint", "bound", "write", "sweep", "bump",
               "notify", "free", "move", "flag", "dropVerified", "dropStatus", "link"}
  \/ q.flow = "register" /\ q.pc \in {"code", "mail"}

(* What the fields of a handler hold when a step needs them. *)
FlowLinks(q) ==
  /\ OnPath(q.flow, q.pc)
  /\ q.pc = "idle" => q = Idle
  /\ q.pc # "idle" => q.id # 0
  /\ HasEmail(q) => q.email # None
  /\ HasUser(q) => q.user # None
  /\ q.flow \in {"reset", "resetOtp", "change", "register", "accept"} => q.fresh # None
  /\ q.flow \in {"login", "change", "requestMove", "rehash"} => q.word # None
  /\ q.pc \in {"take", "getdel"} => q.proof # 0
  /\ q.pc \in {"pending", "remove"} \/ (q.pc = "unindex" /\ q.flow = "revoke") => q.approved # 0
  /\ q.pc = "clear" => q.account.hash # None
  /\ q.pc \in {"setStatus", "setVerified"} => q.account.state # "none"

(* What each kind of record says. *)
EntryLinks(entry) ==
  /\ entry.kind = "none" => entry = NoEntry
  /\ entry.kind = "state" => entry.user = None
  /\ entry.kind \in {"reset", "vtok", "move", "invite"} => entry.user # None /\ entry.email # None

DataLinks(q) ==
  /\ EntryLinks(q.data)
  /\ q.pc = "mint" => /\ q.flow = "forgot" => q.data.kind = "reset"
                      /\ q.flow = "verifyOtp" => q.data.kind = "vtok"
                      /\ q.flow = "requestMove" => q.data.kind = "move"
                      /\ q.flow = "authorize" => q.data.kind = "state"
  /\ q.flow = "invite" => q.data.kind = "invite"
  /\ q.flow = "accept" /\ q.pc # "take" => q.data.kind = "invite"
  /\ q.flow \in {"reset", "confirmMove"} /\ q.pc # "take" =>
       q.user = q.data.user /\ q.data.kind \in {"reset", "vtok", "move"}

(* Whoever is referred to exists, and an account that does has an address. *)
Standing ==
  /\ Exists(Admin) /\ Exists(Owner)
  /\ \A u \in Users : IF Exists(u) THEN users[u].email # None ELSE users[u] = NoUser
  /\ \A h \in Handlers : HasUser(req[h]) => Exists(req[h].user)
  /\ \A h \in Handlers : req[h].data.user # None => Exists(req[h].data.user)
  /\ \A n \in Ids : redis.vault[n].user # None => Exists(redis.vault[n].user)
  /\ \A job \in jobs : Exists(job.user)

Numbered == starts <= mix.starts /\ \A h \in Handlers : req[h].id <= starts

TypeInv ==
  /\ TypeOK /\ Standing /\ Numbered
  /\ \A h \in Handlers : FlowLinks(req[h]) /\ DataLinks(req[h])
  /\ \A n \in Ids : EntryLinks(redis.vault[n])
  /\ \A k \in Purposes \X Emails : redis.otp[k].code = 0 => redis.otp[k] = NoCode

-----------------------------------------------------------------------------
(* Codes, links, invitations, states and tickets *)

(* Past these a handler has yet to write the value it draws, if ever. *)
Drawn == {"idle", "mail", "confirm", "withdraw", "epoch", "session"}

(* No handler before its write has this number. *)
Begun(n, pcs) == n <= starts /\ \A h \in Handlers : req[h].pc \notin pcs => req[h].id # n

Unused(n) ==
  /\ seen.spent[n] = 0 /\ seen.wrong[n] = 0 /\ n \notin seen.mailed
  /\ redis.vault[n] = NoEntry /\ ws.tickets[n] = 0
  /\ \A k \in Purposes \X Emails : redis.otp[k].code # n

OneHandler ==
  \A g, h \in Handlers : ~At(g, "idle") /\ ~At(h, "idle") /\ req[g].id = req[h].id => g = h

(* A value is in one place, and unspent there. *)
ProofLinks(n) ==
  /\ seen.spent[n] <= 1 /\ seen.wrong[n] <= MaxCodeAttempts
  /\ redis.vault[n] # NoEntry => seen.spent[n] = 0
  /\ ws.tickets[n] # 0 => seen.spent[n] = 0 /\ redis.vault[n] = NoEntry
  /\ \A k \in Purposes \X Emails : redis.otp[k].code = n =>
       /\ seen.spent[n] = 0 /\ redis.vault[n] = NoEntry /\ ws.tickets[n] = 0
       /\ seen.wrong[n] <= redis.otp[k].tries
       /\ \A j \in Purposes \X Emails : redis.otp[j].code = n => j = k

IdInv ==
  /\ OneHandler
  /\ \A n \in Ids : ProofLinks(n) /\ (~Begun(n, Drawn) => Unused(n))
  /\ \A k \in Purposes \X Emails : redis.otp[k].tries <= MaxCodeAttempts

-----------------------------------------------------------------------------
(* Wrong passwords *)

Guessing(c) == {h \in Handlers : req[h].pc \in {"find", "fail"} /\ Counter(h) = c}

Mistaken(c) == {h \in Handlers : At(h, "fail") /\ Counter(h) = c}

GuessInv ==
  \A c \in Counters :
    /\ seen.guesses[c] <= redis.failures[c] + Cardinality(Mistaken(c))
    /\ redis.failures[c] + Cardinality(Guessing(c)) <= MaxAttempts - 1 + Cardinality(Handlers)

-----------------------------------------------------------------------------
(* The dates of passwords *)

(* At these a handler has stored its password, or never will. *)
Settled == {"idle", "sweep", "bump", "notify", "code", "mail", "release", "epoch", "session", "admit"}

(* No handler is yet to store this hash. *)
Old(hash) == hash # None => hash.salt = 0 \/ Begun(hash.salt, Settled)

(* A hash read when the account had seen so many writes is the account's    *)
(* only if there was none since.                                            *)
Dated(u, hash, age) ==
  /\ Old(hash) /\ age <= users[u].writes
  /\ hash # None /\ hash = users[u].hash => age = users[u].writes

Bounded(entry) ==
  entry.kind \in {"reset", "vtok", "move"} => Dated(entry.user, entry.bound, entry.age)

DateLinks(q) ==
  /\ q.flow = "requestMove" /\ q.pc \in {"lockout", "clear", "free"} =>
       Dated(q.user, q.account.hash, q.account.writes)
  /\ q.pc \in {"mint", "bound"} => Bounded(q.data)
  /\ q.pc = "bound" => q.data.age <= q.age /\ q.age <= users[q.user].writes
  /\ q.flow \in {"reset", "confirmMove"} /\ q.pc \in {"write", "free", "move"}
       /\ q.data.bound # None => q.data.age = q.age

DateInv ==
  /\ \A u \in Users : Old(users[u].hash)
  /\ \A n \in Ids : Bounded(redis.vault[n])
  /\ \A h \in Handlers : DateLinks(req[h])

-----------------------------------------------------------------------------
(* Sessions and access tokens *)

SweepLinks(q) ==
  /\ q.pc \in {"sweep", "bump", "notify"} => q.age <= users[q.user].writes
  /\ q.pc \in {"bump", "notify"} =>
       \A s \in grants.sessions : s.user = q.user /\ s.age < q.age => s = q.kept
  /\ q.pc = "notify" =>
       \A t \in grants.access : t.user = q.user /\ t.age < q.age => t.epoch < redis.epoch[q.user]

SessionInv ==
  /\ \A t \in grants.access : t.epoch <= redis.epoch[t.user]
  /\ \A h \in Handlers : SweepLinks(req[h])

-----------------------------------------------------------------------------
(* Invitations *)

Unnamed(n) ==
  /\ \A e \in Emails : redis.index[e] # n
  /\ \A h \in Handlers : req[h].approved # n
  /\ n \notin seen.dead

(* Whatever handler has claimed the index, if it ever will. *)
Claimed(n) ==
  /\ n <= starts
  /\ \A h \in Handlers : req[h].id = n => \/ At(h, "idle")
                                          \/ /\ req[h].flow = "invite"
                                             /\ req[h].pc \in {"remove", "mint", "confirm", "withdraw", "mail"}

NameLinks(n) ==
  /\ ~Claimed(n) => Unnamed(n)
  /\ n \in seen.dead => \A e \in Emails : redis.index[e] # n
  /\ \A h \in Handlers : At(h, "remove") /\ req[h].approved = n => \A e \in Emails : redis.index[e] # n
  /\ \A e, f \in Emails : redis.index[e] = n /\ redis.index[f] = n => e = f
  /\ \A h \in Handlers : req[h].approved = n =>
       req[h].flow \in {"invite", "revoke"} /\ \A e \in Emails : redis.index[e] = n => e = req[h].email

(* It reached its addressee, or is about to. *)
Mailing(n) == n \in seen.mailed \/ \E h \in Handlers : At(h, "mail") /\ req[h].id = n

NameInv ==
  \A n \in Ids : NameLinks(n) /\ (n \in seen.dead /\ Mailing(n) => redis.vault[n].kind # "invite")

-----------------------------------------------------------------------------
(* The cached facts *)

CacheInv ==
  /\ CacheFollows
  /\ \A u \in Users : ~Exists(u) => redis.status[u].val = None /\ redis.verified[u].val = None

-----------------------------------------------------------------------------
(* A token against the clock *)

Outlived == now >= 2 * TokenLife

OfToken(q) == q.flow \in {"bearer", "verify", "ticket", "redeem"}

Late(q) ==
  /\ q.slip.late => OfToken(q) \/ q.flow = "useKey"
  /\ OfToken(q) => /\ q.user = Owner /\ q.slip.since <= now
                   /\ q.pc # "getdel" => q.slip.since < 2 * TokenLife
  /\ OfToken(q) /\ q.slip.late =>
       /\ q.pc = "getdel" => Ended \/ q.slip.since >= 2 * TokenLife
       /\ q.pc = "blacklist" => Ended
       /\ q.pc = "bulk" => redis.epoch[Owner] > 0 \/ Outlived
       /\ q.pc \notin {"getdel", "blacklist", "bulk"} => Outlived
       /\ q.pc # "mintTicket"
  /\ q.pc = "mintTicket" =>
       now <= q.slip.since + 2 /\ 2 * q.slip.life + 2 + q.slip.since <= 2 * TokenLife
  /\ q.pc = "revokeToken" => 2 * q.slip.life + now >= 2 * TokenLife

TicketInv ==
  /\ \A n \in Ids : ws.tickets[n] <= 2 * TokenLife
  /\ ws.out => ws.black >= 2 * TokenLife
  /\ \A h \in Handlers : Late(req[h])

-----------------------------------------------------------------------------
(* API keys *)

(* A row that will not verify again. *)
Over(row) == row.state = "revoked" \/ (row.until # 0 /\ row.until <= now)

KeyDead(n) ==
  \/ keys[n].state = "revoked"
  \/ /\ Over(keys[n])
     /\ \A g \in Handlers : req[g].flow = "rotateKey" /\ req[g].pc \in {"createKey", "retireKey"}
          /\ req[g].proof = n => req[g].slip.row.until # 0 /\ req[g].slip.row.until <= now

KeyLinks(q) ==
  /\ q.flow \in {"rotateKey", "revokeKey", "useKey"} => keys[q.proof].held
  /\ q.pc # "idle" => ~keys[q.id].held
  /\ q.flow = "revokeKey" => "revokeKey" \in mix.requests
  /\ q.flow = "rotateKey" /\ q.pc \in {"retireKey", "handOver"} =>
       keys[q.id].state = "active" /\ keys[q.id].until = 0
  /\ q.flow = "useKey" /\ q.slip.late =>
       /\ q.pc = "readRow" => KeyDead(q.proof)
       /\ q.pc = "judge" => Over(q.slip.row)
       /\ q.pc # "audit"

Supplied ==
  \E n \in Rows :
    /\ keys[n].state = "active" /\ keys[n].until = 0
    /\ \/ keys[n].held
       \/ \E h \in Handlers : At(h, "handOver") /\ req[h].flow = "rotateKey" /\ req[h].id = n

KeyInv ==
  /\ \A h \in Handlers : KeyLinks(req[h])
  /\ \A n \in Ids : n > starts => ~keys[n].held
  /\ "revokeKey" \notin mix.requests => Supplied

-----------------------------------------------------------------------------

IInv ==
  /\ TypeInv /\ IdInv /\ GuessInv /\ DateInv /\ SessionInv /\ NameInv /\ CacheInv /\ TicketInv /\ KeyInv

-----------------------------------------------------------------------------
(* What a step changes, field by field *)

(* h moves, alone. *)
Moved(h) ==
  /\ req' \in [Handlers -> Handler]
  /\ \A g \in Handlers : g # h => req'[g] = req[g]

Ends(h) == Moved(h) /\ starts' = starts /\ req'[h] = Idle

(* Of what r carries, q differs only in the fields of F. *)
Same(q, r, F) ==
  /\ q.flow = r.flow /\ q.id = r.id /\ q.word = r.word /\ q.fresh = r.fresh /\ q.proof = r.proof
  /\ "email" \in F \/ q.email = r.email
  /\ "user" \in F \/ q.user = r.user
  /\ "account" \in F \/ q.account = r.account
  /\ "data" \in F \/ q.data = r.data
  /\ "approved" \in F \/ q.approved = r.approved
  /\ "kept" \in F \/ q.kept = r.kept
  /\ "slip" \in F \/ q.slip = r.slip
  /\ "age" \in F \/ q.age = r.age

(* h goes on at pc. *)
Goes(h, pc, F) == Moved(h) /\ starts' = starts /\ req'[h].pc = pc /\ Same(req'[h], req[h], F)

(* Of the keys, or of the history, only those of F change. *)
KeysBut(F) ==
  /\ redis' \in Redis
  /\ "otp" \in F \/ redis'.otp = redis.otp
  /\ "failures" \in F \/ redis'.failures = redis.failures
  /\ "vault" \in F \/ redis'.vault = redis.vault
  /\ "index" \in F \/ redis'.index = redis.index
  /\ "status" \in F \/ redis'.status = redis.status
  /\ "verified" \in F \/ redis'.verified = redis.verified
  /\ "epoch" \in F \/ redis'.epoch = redis.epoch

SeenBut(F) ==
  /\ seen' \in History
  /\ "mailed" \in F \/ seen'.mailed = seen.mailed
  /\ "spent" \in F \/ seen'.spent = seen.spent
  /\ "wrong" \in F \/ seen'.wrong = seen.wrong
  /\ "guesses" \in F \/ seen'.guesses = seen.guesses
  /\ "dead" \in F \/ seen'.dead = seen.dead

LEMMA Nulls == NoUser \in User /\ NoEntry \in Entry /\ NoSlip \in Slip /\ NoKey \in KeyRow
BY DEF NoUser, NoEntry, NoSlip, User, Entry, Slip, NoKey, KeyRow

LEMMA IdleType == Idle \in Handler
<1>1. "idle" \in PCs /\ "none" \in Flows
  BY DEF PCs, Flows
<1>. QED
  BY <1>1, Nulls DEF Idle, Handler

LEMMA IdleLinks == FlowLinks(Idle) /\ DataLinks(Idle)
BY DEF FlowLinks, DataLinks, EntryLinks, OnPath, HasEmail, HasUser, Idle, NoEntry

(* What the invariant types. *)
LEMMA Typed ==
  ASSUME TypeInv
  PROVE  /\ users \in [Users -> User] /\ redis \in Redis /\ seen \in History
         /\ req \in [Handlers -> Handler] /\ starts \in Nat /\ mix \in Mix /\ now \in Nat
         /\ ws \in Sockets /\ keys \in [Rows -> KeyRow] /\ jobs \subseteq Job
         /\ grants \in [sessions : SUBSET Session, access : SUBSET Access]
<1>1. mix \in Mix
  BY AccountAssumption DEF TypeInv, TypeOK, StoreTypeOK
<1>2. now \in Nat
  BY <1>1 DEF TypeInv, TypeOK, TicketTypeOK, Mix
<1>. QED
  BY <1>1, <1>2 DEF TypeInv, TypeOK, StoreTypeOK, TicketTypeOK, KeyTypeOK

LEMMA HandlerFields ==
  ASSUME NEW q \in Handler
  PROVE  /\ q.pc \in PCs /\ q.flow \in Flows /\ q.id \in {0} \cup Ids /\ q.email \in Emails \cup {None}
         /\ q.word \in Words \cup {None} /\ q.fresh \in Words \cup {None} /\ q.proof \in {0} \cup Ids
         /\ q.user \in Users \cup {None} /\ q.account \in User /\ q.data \in Entry
         /\ q.approved \in {0} \cup Ids /\ q.tries \in Nat /\ q.kept \in Session \cup {None}
         /\ q.slip \in Slip /\ q.age \in Nat
BY DEF Handler

LEMMA QuietFields ==
  ASSUME TypeInv
  PROVE  (redis' = redis => KeysBut({})) /\ (seen' = seen => SeenBut({}))
BY Typed DEF KeysBut, SeenBut

LEMMA MoveFields ==
  ASSUME TypeInv, NEW h \in Handlers, NEW q \in Handler, req' = [req EXCEPT ![h] = q]
  PROVE  Moved(h) /\ req'[h] = q
BY Typed DEF Moved

LEMMA FinishEnds ==
  ASSUME TypeInv, NEW h \in Handlers, Finish(h), starts' = starts
  PROVE  Ends(h)
BY MoveFields, IdleType DEF Finish, Ends

LEMMA PutGoes ==
  ASSUME TypeInv, NEW h \in Handlers, NEW q \in Handler, NEW F, Same(q, req[h], F),
         req' = [req EXCEPT ![h] = q], starts' = starts
  PROVE  Goes(h, q.pc, F) /\ req'[h] = q
BY MoveFields DEF Goes

(* The assignments there are. *)
UserPut(h, pc, u) == req' = [req EXCEPT ![h].pc = pc, ![h].user = u]

FoundPut(h, pc, u) == req' = [req EXCEPT ![h].user = u, ![h].pc = pc]

AccountPut(h, pc, a) == req' = [req EXCEPT ![h].pc = pc, ![h].account = a]

SignerPut(h, pc, u, a) == req' = [req EXCEPT ![h].pc = pc, ![h].user = u, ![h].account = a]

DataPut(h, pc, d) == req' = [req EXCEPT ![h].pc = pc, ![h].data = d]

ApprovedPut(h, pc, n) == req' = [req EXCEPT ![h].pc = pc, ![h].approved = n]

KeptPut(h, pc, s) == req' = [req EXCEPT ![h].pc = pc, ![h].kept = s]

AgePut(h, pc, n) == req' = [req EXCEPT ![h].pc = pc, ![h].age = n]

SlipPut(h, pc, s) == req' = [req EXCEPT ![h].pc = pc, ![h].slip = s]

TriesPut(h, pc, n) == req' = [req EXCEPT ![h].pc = pc, ![h].tries = n]

LEMMA GotoGoes ==
  ASSUME TypeInv, NEW h \in Handlers, NEW pc \in PCs, starts' = starts
  PROVE  Goto(h, pc) => Goes(h, pc, {})
<1>. DEFINE q == [req[h] EXCEPT !.pc = pc]
<1>1. req[h] \in Handler
  BY Typed
<1>2. q \in Handler
  BY <1>1 DEF Handler
<1>3. q.pc = pc /\ Same(q, req[h], {})
  BY <1>1 DEF Handler, Same
<1>4. HAVE Goto(h, pc)
<1>5. req' = [req EXCEPT ![h] = q]
  BY <1>4 DEF Goto
<1>. HIDE DEF q
<1>. QED
  BY <1>2, <1>3, <1>5, PutGoes

LEMMA UserGoes ==
  ASSUME TypeInv, NEW h \in Handlers, NEW pc \in PCs, NEW u \in Users, starts' = starts
  PROVE  UserPut(h, pc, u) => Goes(h, pc, {"user"}) /\ req'[h].user = u
<1>. DEFINE q == [req[h] EXCEPT !.pc = pc, !.user = u]
<1>1. req[h] \in Handler
  BY Typed
<1>2. q \in Handler
  BY <1>1 DEF Handler
<1>3. q.pc = pc /\ Same(q, req[h], {"user"}) /\ q.user = u
  BY <1>1 DEF Handler, Same
<1>4. HAVE UserPut(h, pc, u)
<1>5. req' = [req EXCEPT ![h] = q]
  BY <1>4 DEF UserPut
<1>. HIDE DEF q
<1>. QED
  BY <1>2, <1>3, <1>5, PutGoes

LEMMA FoundGoes ==
  ASSUME TypeInv, NEW h \in Handlers, NEW pc \in PCs, NEW u \in Users, starts' = starts
  PROVE  FoundPut(h, pc, u) => Goes(h, pc, {"user"}) /\ req'[h].user = u
<1>. DEFINE q == [req[h] EXCEPT !.user = u, !.pc = pc]
<1>1. req[h] \in Handler
  BY Typed
<1>2. q \in Handler
  BY <1>1 DEF Handler
<1>3. q.pc = pc /\ Same(q, req[h], {"user"}) /\ q.user = u
  BY <1>1 DEF Handler, Same
<1>4. HAVE FoundPut(h, pc, u)
<1>5. req' = [req EXCEPT ![h] = q]
  BY <1>4 DEF FoundPut
<1>. HIDE DEF q
<1>. QED
  BY <1>2, <1>3, <1>5, PutGoes

LEMMA AccountGoes ==
  ASSUME TypeInv, NEW h \in Handlers, NEW pc \in PCs, NEW a \in User, starts' = starts
  PROVE  AccountPut(h, pc, a) => Goes(h, pc, {"account"}) /\ req'[h].account = a
<1>. DEFINE q == [req[h] EXCEPT !.pc = pc, !.account = a]
<1>1. req[h] \in Handler
  BY Typed
<1>2. q \in Handler
  BY <1>1 DEF Handler
<1>3. q.pc = pc /\ Same(q, req[h], {"account"}) /\ q.account = a
  BY <1>1 DEF Handler, Same
<1>4. HAVE AccountPut(h, pc, a)
<1>5. req' = [req EXCEPT ![h] = q]
  BY <1>4 DEF AccountPut
<1>. HIDE DEF q
<1>. QED
  BY <1>2, <1>3, <1>5, PutGoes

LEMMA SignerGoes ==
  ASSUME TypeInv, NEW h \in Handlers, NEW pc \in PCs, NEW u \in Users, NEW a \in User, starts' = starts
  PROVE  SignerPut(h, pc, u, a) => Goes(h, pc, {"user", "account"}) /\ req'[h].user = u /\ req'[h].account = a
<1>. DEFINE q == [req[h] EXCEPT !.pc = pc, !.user = u, !.account = a]
<1>1. req[h] \in Handler
  BY Typed
<1>2. q \in Handler
  BY <1>1 DEF Handler
<1>3. q.pc = pc /\ Same(q, req[h], {"user", "account"}) /\ q.user = u /\ q.account = a
  BY <1>1 DEF Handler, Same
<1>4. HAVE SignerPut(h, pc, u, a)
<1>5. req' = [req EXCEPT ![h] = q]
  BY <1>4 DEF SignerPut
<1>. HIDE DEF q
<1>. QED
  BY <1>2, <1>3, <1>5, PutGoes

LEMMA DataGoes ==
  ASSUME TypeInv, NEW h \in Handlers, NEW pc \in PCs, NEW d \in Entry, starts' = starts
  PROVE  DataPut(h, pc, d) => Goes(h, pc, {"data"}) /\ req'[h].data = d
<1>. DEFINE q == [req[h] EXCEPT !.pc = pc, !.data = d]
<1>1. req[h] \in Handler
  BY Typed
<1>2. q \in Handler
  BY <1>1 DEF Handler
<1>3. q.pc = pc /\ Same(q, req[h], {"data"}) /\ q.data = d
  BY <1>1 DEF Handler, Same
<1>4. HAVE DataPut(h, pc, d)
<1>5. req' = [req EXCEPT ![h] = q]
  BY <1>4 DEF DataPut
<1>. HIDE DEF q
<1>. QED
  BY <1>2, <1>3, <1>5, PutGoes

LEMMA ApprovedGoes ==
  ASSUME TypeInv, NEW h \in Handlers, NEW pc \in PCs, NEW n \in {0} \cup Ids, starts' = starts
  PROVE  ApprovedPut(h, pc, n) => Goes(h, pc, {"approved"}) /\ req'[h].approved = n
<1>. DEFINE q == [req[h] EXCEPT !.pc = pc, !.approved = n]
<1>1. req[h] \in Handler
  BY Typed
<1>2. q \in Handler
  BY <1>1 DEF Handler
<1>3. q.pc = pc /\ Same(q, req[h], {"approved"}) /\ q.approved = n
  BY <1>1 DEF Handler, Same
<1>4. HAVE ApprovedPut(h, pc, n)
<1>5. req' = [req EXCEPT ![h] = q]
  BY <1>4 DEF ApprovedPut
<1>. HIDE DEF q
<1>. QED
  BY <1>2, <1>3, <1>5, PutGoes

LEMMA KeptGoes ==
  ASSUME TypeInv, NEW h \in Handlers, NEW pc \in PCs, NEW s \in Session \cup {None}, starts' = starts
  PROVE  KeptPut(h, pc, s) => Goes(h, pc, {"kept"}) /\ req'[h].kept = s
<1>. DEFINE q == [req[h] EXCEPT !.pc = pc, !.kept = s]
<1>1. req[h] \in Handler
  BY Typed
<1>2. q \in Handler
  BY <1>1 DEF Handler
<1>3. q.pc = pc /\ Same(q, req[h], {"kept"}) /\ q.kept = s
  BY <1>1 DEF Handler, Same
<1>4. HAVE KeptPut(h, pc, s)
<1>5. req' = [req EXCEPT ![h] = q]
  BY <1>4 DEF KeptPut
<1>. HIDE DEF q
<1>. QED
  BY <1>2, <1>3, <1>5, PutGoes

LEMMA AgeGoes ==
  ASSUME TypeInv, NEW h \in Handlers, NEW pc \in PCs, NEW n \in Nat, starts' = starts
  PROVE  AgePut(h, pc, n) => Goes(h, pc, {"age"}) /\ req'[h].age = n
<1>. DEFINE q == [req[h] EXCEPT !.pc = pc, !.age = n]
<1>1. req[h] \in Handler
  BY Typed
<1>2. q \in Handler
  BY <1>1 DEF Handler
<1>3. q.pc = pc /\ Same(q, req[h], {"age"}) /\ q.age = n
  BY <1>1 DEF Handler, Same
<1>4. HAVE AgePut(h, pc, n)
<1>5. req' = [req EXCEPT ![h] = q]
  BY <1>4 DEF AgePut
<1>. HIDE DEF q
<1>. QED
  BY <1>2, <1>3, <1>5, PutGoes

LEMMA SlipGoes ==
  ASSUME TypeInv, NEW h \in Handlers, NEW pc \in PCs, NEW s \in Slip, starts' = starts
  PROVE  SlipPut(h, pc, s) => Goes(h, pc, {"slip"}) /\ req'[h].slip = s
<1>. DEFINE q == [req[h] EXCEPT !.pc = pc, !.slip = s]
<1>1. req[h] \in Handler
  BY Typed
<1>2. q \in Handler
  BY <1>1 DEF Handler
<1>3. q.pc = pc /\ Same(q, req[h], {"slip"}) /\ q.slip = s
  BY <1>1 DEF Handler, Same
<1>4. HAVE SlipPut(h, pc, s)
<1>5. req' = [req EXCEPT ![h] = q]
  BY <1>4 DEF SlipPut
<1>. HIDE DEF q
<1>. QED
  BY <1>2, <1>3, <1>5, PutGoes

LEMMA TriesGoes ==
  ASSUME TypeInv, NEW h \in Handlers, NEW pc \in PCs, NEW n \in Nat, starts' = starts
  PROVE  TriesPut(h, pc, n) => Goes(h, pc, {})
<1>. DEFINE q == [req[h] EXCEPT !.pc = pc, !.tries = n]
<1>1. req[h] \in Handler
  BY Typed
<1>2. q \in Handler
  BY <1>1 DEF Handler
<1>3. q.pc = pc /\ Same(q, req[h], {})
  BY <1>1 DEF Handler, Same
<1>4. HAVE TriesPut(h, pc, n)
<1>5. req' = [req EXCEPT ![h] = q]
  BY <1>4 DEF TriesPut
<1>. HIDE DEF q
<1>. QED
  BY <1>2, <1>3, <1>5, PutGoes

-----------------------------------------------------------------------------
(* What the steps of a handler have in common *)

(* Where a step takes a handler, if it does not answer. *)
Leads(a, b) ==
  \/ a = "lockout" /\ b \in {"find", "clear", "fail"}
  \/ a = "find" /\ b \in {"clear", "fail"}
  \/ a = "clear" /\ b \in {"epoch", "keep", "free"}
  \/ a = "admit" /\ b = "epoch"
  \/ a = "epoch" /\ b = "session"
  \/ a = "reread" /\ b = "upgrade"
  \/ a = "cool" /\ b = "account"
  \/ a = "account" /\ b \in {"fingerprint", "code", "release"}
  \/ a = "code" /\ b \in {"mail", "release"}
  \/ a = "fingerprint" /\ b = "mint"
  \/ a = "mint" /\ b \in {"confirm", "mail"}
  \/ a = "mail" /\ b = "epoch"
  \/ a = "verify" /\ b = "owner"
  \/ a = "owner" /\ b \in {"fingerprint", "write", "flag"}
  \/ a = "take" /\ b \in {"bound", "unindex", "exchange"}
  \/ a = "bound" /\ b \in {"write", "free"}
  \/ a = "self" /\ b = "lockout"
  \/ a = "keep" /\ b = "write"
  \/ a = "write" /\ b = "sweep"
  \/ a = "sweep" /\ b = "bump"
  \/ a = "bump" /\ b = "notify"
  \/ a = "free" /\ b \in {"move", "mint"}
  \/ a = "flag" /\ b = "dropVerified"
  \/ a = "dropVerified" /\ b = "dropStatus"
  \/ a = "getStatus" /\ b \in {"getVerified", "resolve", "lookUp"}
  \/ a = "getVerified" /\ b \in {"resolve", "lookUp"}
  \/ a = "resolve" /\ b = "setStatus"
  \/ a = "setStatus" /\ b \in {"setVerified", "lookUp"}
  \/ a = "setVerified" /\ b = "lookUp"
  \/ a = "known" /\ b = "create"
  \/ a = "create" /\ b \in {"code", "admit", "epoch"}
  \/ a = "inviter" /\ b = "index"
  \/ a = "index" /\ b \in {"pending", "claim"}
  \/ a = "pending" /\ b \in {"claim", "unindex"}
  \/ a = "claim" /\ b \in {"mint", "remove", "index"}
  \/ a = "remove" /\ b = "mint"
  \/ a = "confirm" /\ b \in {"mail", "withdraw"}
  \/ a = "unindex" /\ b \in {"remove", "authority"}
  \/ a = "authority" /\ b = "known"
  \/ a = "exchange" /\ b \in {"known", "link"}
  \/ a = "link" /\ b = "admit"
  \/ a = "blacklist" /\ b = "bulk"
  \/ a = "bulk" /\ b \in {"getStatus", "pass"}
  \/ a = "lookUp" /\ b = "measure"
  \/ a = "measure" /\ b = "mintTicket"
  \/ a = "getdel" /\ b = "blacklist"
  \/ a = "findKey" /\ b = "createKey"
  \/ a = "createKey" /\ b \in {"retireKey", "handOver"}
  \/ a = "retireKey" /\ b = "handOver"
  \/ a = "readRow" /\ b = "judge"
  \/ a = "judge" /\ b = "audit"

(* And what it changes of what the handler carries. *)
Follows(q, r) ==
  \/ q = Idle
  \/ /\ Leads(r.pc, q.pc)
     /\ q.flow = r.flow /\ q.id = r.id /\ q.word = r.word /\ q.fresh = r.fresh /\ q.proof = r.proof
     /\ r.pc # "take" => q.email = r.email
     /\ r.pc \notin {"find", "account", "owner", "take", "create", "exchange"} => q.user = r.user
     /\ r.pc \notin {"find", "self", "getStatus", "resolve", "inviter"} =>
          q.account = r.account
     /\ r.pc \notin {"fingerprint", "take", "free"} => q.data = r.data
     /\ r.pc # "index" => q.approved = r.approved
     /\ r.pc # "keep" => q.kept = r.kept
     /\ r.pc \notin {"measure", "findKey", "readRow"} => q.slip = r.slip
     /\ r.pc \notin {"take", "write"} => q.age = r.age

Advances(h) ==
  /\ Moved(h) /\ starts' = starts /\ Follows(req'[h], req[h])
  /\ FlowLinks(req'[h]) /\ DataLinks(req'[h])

(* The store is well-typed, and changes only where it is said here. *)
StoreFrame(pc) ==
  /\ users' \in [Users -> User] /\ redis' \in Redis /\ seen' \in History /\ jobs' \subseteq Job
  /\ grants' \in [sessions : SUBSET Session, access : SUBSET Access]
  /\ pc \notin {"upgrade", "write", "move", "flag", "create", "link"} => users' = users
  /\ pc \notin {"code", "verify"} => redis'.otp = redis.otp
  /\ pc \notin {"fail", "clear"} => redis'.failures = redis.failures
  /\ pc \notin {"mint", "mail", "take", "remove", "withdraw"} => redis'.vault = redis.vault
  /\ pc \notin {"claim", "unindex"} => redis'.index = redis.index
  /\ pc \notin {"setStatus", "dropStatus"} => redis'.status = redis.status
  /\ pc \notin {"setVerified", "dropVerified"} => redis'.verified = redis.verified
  /\ pc # "bump" => redis'.epoch = redis.epoch
  /\ pc \notin {"mint", "mail", "mintTicket"} => seen'.mailed = seen.mailed
  /\ pc \notin {"verify", "take", "getdel"} => seen'.spent = seen.spent
  /\ pc # "verify" => seen'.wrong = seen.wrong
  /\ pc \notin {"lockout", "find", "clear"} => seen'.guesses = seen.guesses
  /\ pc # "remove" => seen'.dead = seen.dead
  /\ pc \notin {"epoch", "session", "sweep"} => grants' = grants
  /\ pc # "clear" => jobs' = jobs

LEMMA StillFrame ==
  ASSUME TypeInv, UNCHANGED <<users, redis, grants, jobs, seen>>, NEW pc
  PROVE  StoreFrame(pc)
BY Typed DEF StoreFrame

LEMMA EndsAdvances ==
  ASSUME NEW h \in Handlers, Ends(h)
  PROVE  Advances(h)
BY IdleLinks DEF Ends, Advances, Follows

LEMMA GoesAdvances ==
  ASSUME NEW h \in Handlers, NEW pc, Goes(h, pc, {}), Leads(req[h].pc, pc),
         FlowLinks(req'[h]), DataLinks(req'[h])
  PROVE  Advances(h) /\ req'[h].pc = pc
BY DEF Goes, Same, Follows, Advances

LEMMA OldLinks ==
  ASSUME TypeInv, NEW h \in Handlers
  PROVE  FlowLinks(req[h]) /\ DataLinks(req[h])
BY DEF TypeInv

LEMMA AdmitEffect ==
  ASSUME TypeInv, NEW h \in Handlers, Admit(h)
  PROVE  At(h, "admit") /\ Advances(h) /\ StoreFrame("admit")
<1>1. At(h, "admit") /\ StoreFrame("admit") /\ starts' = starts
  BY StillFrame DEF Admit
<1>2. CASE Goto(h, "epoch")
  <2>1. Goes(h, "epoch", {})
    BY <1>1, <1>2, GotoGoes DEF PCs
  <2>2. FlowLinks(req'[h]) /\ DataLinks(req'[h])
    BY <1>1, <1>2, <2>1, OldLinks DEF Goes, Same, At, FlowLinks, DataLinks, HasEmail, HasUser, OnPath
  <2>. QED
    BY <1>1, <2>1, <2>2, GoesAdvances DEF Leads, At
<1>. QED
  BY <1>1, <1>2, FinishEnds, EndsAdvances DEF Admit

LEMMA RereadEffect ==
  ASSUME TypeInv, NEW h \in Handlers, Reread(h)
  PROVE  At(h, "reread") /\ Advances(h) /\ StoreFrame("reread")
<1>1. At(h, "reread") /\ StoreFrame("reread") /\ starts' = starts
  BY StillFrame DEF Reread
<1>2. CASE Goto(h, "upgrade")
  <2>1. Goes(h, "upgrade", {})
    BY <1>1, <1>2, GotoGoes DEF PCs
  <2>2. FlowLinks(req'[h]) /\ DataLinks(req'[h])
    BY <1>1, <1>2, <2>1, OldLinks DEF Goes, Same, At, FlowLinks, DataLinks, HasEmail, HasUser, OnPath
  <2>. QED
    BY <1>1, <2>1, <2>2, GoesAdvances DEF Leads, At
<1>. QED
  BY <1>1, <1>2, FinishEnds, EndsAdvances DEF Reread

LEMMA BoundEffect ==
  ASSUME TypeInv, NEW h \in Handlers, Bound(h)
  PROVE  At(h, "bound") /\ Advances(h) /\ StoreFrame("bound")
<1>1. At(h, "bound") /\ StoreFrame("bound") /\ starts' = starts
  BY StillFrame DEF Bound
<1>2. CASE req[h].flow = "reset" /\ Goto(h, "write")
  <2>1. Goes(h, "write", {})
    BY <1>1, <1>2, GotoGoes DEF PCs
  <2>2. FlowLinks(req'[h]) /\ DataLinks(req'[h])
    BY <1>1, <1>2, <2>1, OldLinks DEF Goes, Same, At, FlowLinks, DataLinks, HasEmail, HasUser, OnPath
  <2>. QED
    BY <1>1, <2>1, <2>2, GoesAdvances DEF Leads, At
<1>3. CASE req[h].flow # "reset" /\ Goto(h, "free")
  <2>1. Goes(h, "free", {})
    BY <1>1, <1>3, GotoGoes DEF PCs
  <2>2. FlowLinks(req'[h]) /\ DataLinks(req'[h])
    BY <1>1, <1>3, <2>1, OldLinks DEF Goes, Same, At, FlowLinks, DataLinks, HasEmail, HasUser, OnPath
  <2>. QED
    BY <1>1, <2>1, <2>2, GoesAdvances DEF Leads, At
<1>. QED
  BY <1>1, <1>2, <1>3, FinishEnds, EndsAdvances DEF Bound

LEMMA KnownEffect ==
  ASSUME TypeInv, NEW h \in Handlers, Known(h)
  PROVE  At(h, "known") /\ Advances(h) /\ StoreFrame("known")
<1>1. At(h, "known") /\ StoreFrame("known") /\ starts' = starts
  BY StillFrame DEF Known
<1>2. CASE Goto(h, "create")
  <2>1. Goes(h, "create", {})
    BY <1>1, <1>2, GotoGoes DEF PCs
  <2>2. FlowLinks(req'[h]) /\ DataLinks(req'[h])
    BY <1>1, <1>2, <2>1, OldLinks DEF Goes, Same, At, FlowLinks, DataLinks, HasEmail, HasUser, OnPath
  <2>. QED
    BY <1>1, <2>1, <2>2, GoesAdvances DEF Leads, At
<1>. QED
  BY <1>1, <1>2, FinishEnds, EndsAdvances DEF Known

LEMMA PendingEffect ==
  ASSUME TypeInv, NEW h \in Handlers, Pending(h)
  PROVE  At(h, "pending") /\ Advances(h) /\ StoreFrame("pending")
<1>1. At(h, "pending") /\ StoreFrame("pending") /\ starts' = starts
  BY StillFrame DEF Pending
<1>2. CASE req[h].flow = "invite" /\ Goto(h, "claim")
  <2>1. Goes(h, "claim", {})
    BY <1>1, <1>2, GotoGoes DEF PCs
  <2>2. FlowLinks(req'[h]) /\ DataLinks(req'[h])
    BY <1>1, <1>2, <2>1, OldLinks DEF Goes, Same, At, FlowLinks, DataLinks, HasEmail, HasUser, OnPath
  <2>. QED
    BY <1>1, <2>1, <2>2, GoesAdvances DEF Leads, At
<1>3. CASE req[h].flow # "invite" /\ Goto(h, "unindex")
  <2>1. Goes(h, "unindex", {})
    BY <1>1, <1>3, GotoGoes DEF PCs
  <2>2. FlowLinks(req'[h]) /\ DataLinks(req'[h])
    BY <1>1, <1>3, <2>1, OldLinks DEF Goes, Same, At, FlowLinks, DataLinks, HasEmail, HasUser, OnPath
  <2>. QED
    BY <1>1, <2>1, <2>2, GoesAdvances DEF Leads, At
<1>. QED
  BY <1>1, <1>2, <1>3, FinishEnds, EndsAdvances DEF Pending

LEMMA ConfirmEffect ==
  ASSUME TypeInv, NEW h \in Handlers, Confirm(h)
  PROVE  At(h, "confirm") /\ Advances(h) /\ StoreFrame("confirm")
<1>1. At(h, "confirm") /\ StoreFrame("confirm") /\ starts' = starts
  BY StillFrame DEF Confirm
<1>2. CASE Goto(h, "mail")
  <2>1. Goes(h, "mail", {})
    BY <1>1, <1>2, GotoGoes DEF PCs
  <2>2. FlowLinks(req'[h]) /\ DataLinks(req'[h])
    BY <1>1, <1>2, <2>1, OldLinks DEF Goes, Same, At, FlowLinks, DataLinks, HasEmail, HasUser, OnPath
  <2>. QED
    BY <1>1, <2>1, <2>2, GoesAdvances DEF Leads, At
<1>3. CASE Goto(h, "withdraw")
  <2>1. Goes(h, "withdraw", {})
    BY <1>1, <1>3, GotoGoes DEF PCs
  <2>2. FlowLinks(req'[h]) /\ DataLinks(req'[h])
    BY <1>1, <1>3, <2>1, OldLinks DEF Goes, Same, At, FlowLinks, DataLinks, HasEmail, HasUser, OnPath
  <2>. QED
    BY <1>1, <2>1, <2>2, GoesAdvances DEF Leads, At
<1>. QED
  BY <1>1, <1>2, <1>3 DEF Confirm

LEMMA AuthorityEffect ==
  ASSUME TypeInv, NEW h \in Handlers, Authority(h)
  PROVE  At(h, "authority") /\ Advances(h) /\ StoreFrame("authority")
<1>1. At(h, "authority") /\ StoreFrame("authority") /\ starts' = starts
  BY StillFrame DEF Authority
<1>2. CASE Goto(h, "known")
  <2>1. Goes(h, "known", {})
    BY <1>1, <1>2, GotoGoes DEF PCs
  <2>2. FlowLinks(req'[h]) /\ DataLinks(req'[h])
    BY <1>1, <1>2, <2>1, OldLinks DEF Goes, Same, At, FlowLinks, DataLinks, HasEmail, HasUser, OnPath
  <2>. QED
    BY <1>1, <2>1, <2>2, GoesAdvances DEF Leads, At
<1>. QED
  BY <1>1, <1>2, FinishEnds, EndsAdvances DEF Authority

LEMMA NotifyEffect ==
  ASSUME TypeInv, NEW h \in Handlers, Notify(h)
  PROVE  At(h, "notify") /\ Advances(h) /\ StoreFrame("notify")
<1>1. At(h, "notify") /\ StoreFrame("notify") /\ starts' = starts
  BY StillFrame DEF Notify
<1>. QED
  BY <1>1, FinishEnds, EndsAdvances DEF Notify

LEMMA PassEffect ==
  ASSUME TypeInv, NEW h \in Handlers, Pass(h)
  PROVE  At(h, "pass") /\ Advances(h) /\ StoreFrame("pass")
<1>1. At(h, "pass") /\ StoreFrame("pass") /\ starts' = starts
  BY StillFrame DEF Pass
<1>. QED
  BY <1>1, FinishEnds, EndsAdvances DEF Pass

LEMMA ReadBlacklistEffect ==
  ASSUME TypeInv, NEW h \in Handlers, ReadBlacklist(h)
  PROVE  At(h, "blacklist") /\ Advances(h) /\ StoreFrame("blacklist")
<1>1. At(h, "blacklist") /\ StoreFrame("blacklist") /\ starts' = starts
  BY StillFrame DEF ReadBlacklist
<1>2. CASE Goto(h, "bulk")
  <2>1. Goes(h, "bulk", {})
    BY <1>1, <1>2, GotoGoes DEF PCs
  <2>2. FlowLinks(req'[h]) /\ DataLinks(req'[h])
    BY <1>1, <1>2, <2>1, OldLinks DEF Goes, Same, At, FlowLinks, DataLinks, HasEmail, HasUser, OnPath
  <2>. QED
    BY <1>1, <2>1, <2>2, GoesAdvances DEF Leads, At
<1>. QED
  BY <1>1, <1>2, FinishEnds, EndsAdvances DEF ReadBlacklist

LEMMA ReadEpochEffect ==
  ASSUME TypeInv, NEW h \in Handlers, ReadEpoch(h)
  PROVE  At(h, "bulk") /\ Advances(h) /\ StoreFrame("bulk")
<1>1. At(h, "bulk") /\ StoreFrame("bulk") /\ starts' = starts
  BY StillFrame DEF ReadEpoch
<1>2. CASE req[h].flow \in {"ticket", "verify"} /\ Goto(h, "getStatus")
  <2>1. Goes(h, "getStatus", {})
    BY <1>1, <1>2, GotoGoes DEF PCs
  <2>2. FlowLinks(req'[h]) /\ DataLinks(req'[h])
    BY <1>1, <1>2, <2>1, OldLinks DEF Goes, Same, At, FlowLinks, DataLinks, HasEmail, HasUser, OnPath
  <2>. QED
    BY <1>1, <2>1, <2>2, GoesAdvances DEF Leads, At
<1>3. CASE req[h].flow \notin {"ticket", "verify"} /\ Goto(h, "pass")
  <2>1. Goes(h, "pass", {})
    BY <1>1, <1>3, GotoGoes DEF PCs
  <2>2. FlowLinks(req'[h]) /\ DataLinks(req'[h])
    BY <1>1, <1>3, <2>1, OldLinks DEF Goes, Same, At, FlowLinks, DataLinks, HasEmail, HasUser, OnPath
  <2>. QED
    BY <1>1, <2>1, <2>2, GoesAdvances DEF Leads, At
<1>. QED
  BY <1>1, <1>2, <1>3, FinishEnds, EndsAdvances DEF ReadEpoch

LEMMA LookUpEffect ==
  ASSUME TypeInv, NEW h \in Handlers, LookUp(h)
  PROVE  At(h, "lookUp") /\ Advances(h) /\ StoreFrame("lookUp")
<1>1. At(h, "lookUp") /\ StoreFrame("lookUp") /\ starts' = starts
  BY StillFrame DEF LookUp
<1>2. CASE Goto(h, "measure")
  <2>1. Goes(h, "measure", {})
    BY <1>1, <1>2, GotoGoes DEF PCs
  <2>2. FlowLinks(req'[h]) /\ DataLinks(req'[h])
    BY <1>1, <1>2, <2>1, OldLinks DEF Goes, Same, At, FlowLinks, DataLinks, HasEmail, HasUser, OnPath
  <2>. QED
    BY <1>1, <2>1, <2>2, GoesAdvances DEF Leads, At
<1>. QED
  BY <1>1, <1>2, FinishEnds, EndsAdvances DEF LookUp

LEMMA JudgeEffect ==
  ASSUME TypeInv, NEW h \in Handlers, Judge(h)
  PROVE  At(h, "judge") /\ Advances(h) /\ StoreFrame("judge")
<1>1. At(h, "judge") /\ StoreFrame("judge") /\ starts' = starts
  BY StillFrame DEF Judge
<1>2. CASE Goto(h, "audit")
  <2>1. Goes(h, "audit", {})
    BY <1>1, <1>2, GotoGoes DEF PCs
  <2>2. FlowLinks(req'[h]) /\ DataLinks(req'[h])
    BY <1>1, <1>2, <2>1, OldLinks DEF Goes, Same, At, FlowLinks, DataLinks, HasEmail, HasUser, OnPath
  <2>. QED
    BY <1>1, <2>1, <2>2, GoesAdvances DEF Leads, At
<1>. QED
  BY <1>1, <1>2, FinishEnds, EndsAdvances DEF Judge

LEMMA AuditEffect ==
  ASSUME TypeInv, NEW h \in Handlers, Audit(h)
  PROVE  At(h, "audit") /\ Advances(h) /\ StoreFrame("audit")
<1>1. At(h, "audit") /\ StoreFrame("audit") /\ starts' = starts
  BY StillFrame DEF Audit
<1>. QED
  BY <1>1, FinishEnds, EndsAdvances DEF Audit

(* Each key, and each history, on its own. *)
LEMMA RedisFields ==
  ASSUME NEW r \in Redis
  PROVE  /\ r.otp \in [Purposes \X Emails -> [code : {0} \cup Ids, tries : Nat]]
         /\ r.cool \subseteq Purposes \X Emails
         /\ r.failures \in [Counters -> Nat]
         /\ r.vault \in [Ids -> Entry]
         /\ r.index \in [Emails -> {0} \cup Ids]
         /\ r.status \in [Users -> Fact({"active", "blocked"})]
         /\ r.verified \in [Users -> Fact(BOOLEAN)]
         /\ r.epoch \in [Users -> Nat]
BY DEF Redis

LEMMA SeenFields ==
  ASSUME NEW s \in History
  PROVE  /\ s.mailed \subseteq Ids /\ s.spent \in [Ids -> Nat] /\ s.wrong \in [Ids -> Nat]
         /\ s.guesses \in [Counters -> Nat] /\ s.dead \subseteq Ids
BY DEF History

LEMMA OtpKeys ==
  ASSUME TypeInv, NEW f \in [Purposes \X Emails -> [code : {0} \cup Ids, tries : Nat]]
  PROVE  redis' = [redis EXCEPT !.otp = f] => KeysBut({"otp"}) /\ redis'.otp = f
<1>1. redis \in Redis
  BY Typed
<1>. DEFINE r == [redis EXCEPT !.otp = f]
<1>2. r \in Redis
  BY <1>1 DEF Redis
<1>. QED
  BY <1>1, <1>2 DEF KeysBut, Redis

LEMMA FailuresKeys ==
  ASSUME TypeInv, NEW f \in [Counters -> Nat]
  PROVE  redis' = [redis EXCEPT !.failures = f] => KeysBut({"failures"}) /\ redis'.failures = f
<1>1. redis \in Redis
  BY Typed
<1>. DEFINE r == [redis EXCEPT !.failures = f]
<1>2. r \in Redis
  BY <1>1 DEF Redis
<1>. QED
  BY <1>1, <1>2 DEF KeysBut, Redis

LEMMA VaultKeys ==
  ASSUME TypeInv, NEW f \in [Ids -> Entry]
  PROVE  redis' = [redis EXCEPT !.vault = f] => KeysBut({"vault"}) /\ redis'.vault = f
<1>1. redis \in Redis
  BY Typed
<1>. DEFINE r == [redis EXCEPT !.vault = f]
<1>2. r \in Redis
  BY <1>1 DEF Redis
<1>. QED
  BY <1>1, <1>2 DEF KeysBut, Redis

LEMMA IndexKeys ==
  ASSUME TypeInv, NEW f \in [Emails -> {0} \cup Ids]
  PROVE  redis' = [redis EXCEPT !.index = f] => KeysBut({"index"}) /\ redis'.index = f
<1>1. redis \in Redis
  BY Typed
<1>. DEFINE r == [redis EXCEPT !.index = f]
<1>2. r \in Redis
  BY <1>1 DEF Redis
<1>. QED
  BY <1>1, <1>2 DEF KeysBut, Redis

LEMMA StatusKeys ==
  ASSUME TypeInv, NEW f \in [Users -> Fact({"active", "blocked"})]
  PROVE  redis' = [redis EXCEPT !.status = f] => KeysBut({"status"}) /\ redis'.status = f
<1>1. redis \in Redis
  BY Typed
<1>. DEFINE r == [redis EXCEPT !.status = f]
<1>2. r \in Redis
  BY <1>1 DEF Redis
<1>. QED
  BY <1>1, <1>2 DEF KeysBut, Redis

LEMMA VerifiedKeys ==
  ASSUME TypeInv, NEW f \in [Users -> Fact(BOOLEAN)]
  PROVE  redis' = [redis EXCEPT !.verified = f] => KeysBut({"verified"}) /\ redis'.verified = f
<1>1. redis \in Redis
  BY Typed
<1>. DEFINE r == [redis EXCEPT !.verified = f]
<1>2. r \in Redis
  BY <1>1 DEF Redis
<1>. QED
  BY <1>1, <1>2 DEF KeysBut, Redis

LEMMA EpochKeys ==
  ASSUME TypeInv, NEW f \in [Users -> Nat]
  PROVE  redis' = [redis EXCEPT !.epoch = f] => KeysBut({"epoch"}) /\ redis'.epoch = f
<1>1. redis \in Redis
  BY Typed
<1>. DEFINE r == [redis EXCEPT !.epoch = f]
<1>2. r \in Redis
  BY <1>1 DEF Redis
<1>. QED
  BY <1>1, <1>2 DEF KeysBut, Redis

LEMMA CoolKeys ==
  ASSUME TypeInv, NEW f \in SUBSET (Purposes \X Emails)
  PROVE  redis' = [redis EXCEPT !.cool = f] => KeysBut({}) /\ redis'.cool = f
<1>1. redis \in Redis
  BY Typed
<1>. DEFINE r == [redis EXCEPT !.cool = f]
<1>2. r \in Redis
  BY <1>1 DEF Redis
<1>. QED
  BY <1>1, <1>2 DEF KeysBut, Redis

LEMMA MailedSeen ==
  ASSUME TypeInv, NEW f \in SUBSET Ids
  PROVE  seen' = [seen EXCEPT !.mailed = f] => SeenBut({"mailed"}) /\ seen'.mailed = f
<1>1. seen \in History
  BY Typed
<1>. DEFINE s == [seen EXCEPT !.mailed = f]
<1>2. s \in History
  BY <1>1 DEF History
<1>. QED
  BY <1>1, <1>2 DEF SeenBut, History

LEMMA SpentSeen ==
  ASSUME TypeInv, NEW f \in [Ids -> Nat]
  PROVE  seen' = [seen EXCEPT !.spent = f] => SeenBut({"spent"}) /\ seen'.spent = f
<1>1. seen \in History
  BY Typed
<1>. DEFINE s == [seen EXCEPT !.spent = f]
<1>2. s \in History
  BY <1>1 DEF History
<1>. QED
  BY <1>1, <1>2 DEF SeenBut, History

LEMMA WrongSeen ==
  ASSUME TypeInv, NEW f \in [Ids -> Nat]
  PROVE  seen' = [seen EXCEPT !.wrong = f] => SeenBut({"wrong"}) /\ seen'.wrong = f
<1>1. seen \in History
  BY Typed
<1>. DEFINE s == [seen EXCEPT !.wrong = f]
<1>2. s \in History
  BY <1>1 DEF History
<1>. QED
  BY <1>1, <1>2 DEF SeenBut, History

LEMMA GuessesSeen ==
  ASSUME TypeInv, NEW f \in [Counters -> Nat]
  PROVE  seen' = [seen EXCEPT !.guesses = f] => SeenBut({"guesses"}) /\ seen'.guesses = f
<1>1. seen \in History
  BY Typed
<1>. DEFINE s == [seen EXCEPT !.guesses = f]
<1>2. s \in History
  BY <1>1 DEF History
<1>. QED
  BY <1>1, <1>2 DEF SeenBut, History

LEMMA DeadSeen ==
  ASSUME TypeInv, NEW f \in SUBSET Ids
  PROVE  seen' = [seen EXCEPT !.dead = f] => SeenBut({"dead"}) /\ seen'.dead = f
<1>1. seen \in History
  BY Typed
<1>. DEFINE s == [seen EXCEPT !.dead = f]
<1>2. s \in History
  BY <1>1 DEF History
<1>. QED
  BY <1>1, <1>2 DEF SeenBut, History

LEMMA FieldTypes ==
  ASSUME TypeInv, NEW h \in Handlers
  PROVE  /\ HasUser(req[h]) => req[h].user \in Users
         /\ HasEmail(req[h]) => req[h].email \in Emails
         /\ req[h].pc # "idle" => req[h].id \in Ids
         /\ req[h].pc = "take" => req[h].proof \in Ids
         /\ req[h].pc = "getdel" => req[h].proof \in Ids
<1>1. req[h] \in Handler
  BY Typed
<1>. QED
  BY <1>1, HandlerFields, OldLinks DEF FlowLinks

LEMMA CounterType ==
  ASSUME TypeInv, NEW h \in Handlers, req[h].pc \in {"lockout", "find", "fail", "clear"}
  PROVE  Counter(h) \in Counters
<1>1. \/ req[h].flow = "login" /\ req[h].email \in Emails
      \/ req[h].flow \in {"change", "requestMove"} /\ req[h].user \in Users
  BY FieldTypes, OldLinks DEF FlowLinks, OnPath, HasUser, HasEmail
<1>. QED
  BY <1>1 DEF Counter, Counters

LEMMA KeyType ==
  ASSUME TypeInv, NEW h \in Handlers, req[h].pc \in {"cool", "account", "release", "code", "verify"}
  PROVE  Key(h) \in Purposes \X Emails
<1>1. req[h].email \in Emails
  BY FieldTypes, OldLinks DEF FlowLinks, OnPath, HasEmail
<1>2. Purpose(req[h].flow) \in Purposes
  BY DEF Purpose, Purposes
<1>. QED
  BY <1>1, <1>2 DEF Key

LEMMA KeysFrame ==
  ASSUME TypeInv, UNCHANGED <<users, grants, jobs>>, NEW pc, NEW F, NEW G, KeysBut(F), SeenBut(G),
         "otp" \in F => pc \in {"code", "verify"},
         "failures" \in F => pc \in {"fail", "clear"},
         "vault" \in F => pc \in {"mint", "mail", "take", "remove", "withdraw"},
         "index" \in F => pc \in {"claim", "unindex"},
         "status" \in F => pc \in {"setStatus", "dropStatus"},
         "verified" \in F => pc \in {"setVerified", "dropVerified"},
         "epoch" \in F => pc = "bump",
         "mailed" \in G => pc \in {"mint", "mail", "mintTicket"},
         "spent" \in G => pc \in {"verify", "take", "getdel"},
         "wrong" \in G => pc = "verify",
         "guesses" \in G => pc \in {"lockout", "find", "clear"},
         "dead" \in G => pc = "remove"
  PROVE  StoreFrame(pc)
BY Typed DEF StoreFrame, KeysBut, SeenBut

-----------------------------------------------------------------------------
(* Signing in, and the failure counter *)

(* A wrong password is counted in the history. *)
Mistakes(h) ==
  seen' = [seen EXCEPT !.guesses = [seen.guesses EXCEPT ![Counter(h)] = seen.guesses[Counter(h)] + 1]]

LEMMA MistakeFrame ==
  ASSUME TypeInv, NEW h \in Handlers, NEW pc \in {"lockout", "find"}, At(h, pc), Mistakes(h),
         UNCHANGED <<users, redis, grants, jobs>>
  PROVE  StoreFrame(pc) /\ seen' \in History
         /\ seen'.guesses = [seen.guesses EXCEPT ![Counter(h)] = seen.guesses[Counter(h)] + 1]
<1>1. Counter(h) \in Counters /\ seen.guesses \in [Counters -> Nat]
  BY CounterType, Typed, SeenFields DEF At
<1>. DEFINE f == [seen.guesses EXCEPT ![Counter(h)] = seen.guesses[Counter(h)] + 1]
<1>2. f \in [Counters -> Nat]
  BY <1>1
<1>3. SeenBut({"guesses"}) /\ seen'.guesses = f
  BY <1>2, GuessesSeen DEF Mistakes
<1>4. StoreFrame(pc)
  BY <1>3, QuietFields, KeysFrame
<1>. QED
  BY <1>3, <1>4 DEF SeenBut

LEMMA GuessEffect ==
  ASSUME TypeInv, NEW h \in Handlers, At(h, "lockout"), Guess(h, req[h].account, "clear"),
         req[h].flow # "login", starts' = starts, UNCHANGED <<users, redis, grants, jobs>>
  PROVE  /\ Advances(h) /\ StoreFrame("lockout")
         /\ \/ req'[h].pc = "clear" /\ seen' = seen
            \/ /\ req'[h].pc = "fail"
               /\ seen'.guesses = [seen.guesses EXCEPT ![Counter(h)] = seen.guesses[Counter(h)] + 1]
<1>1. CASE /\ Fits(req[h].word, req[h].account) /\ seen' = seen
           /\ req' = [req EXCEPT ![h].pc = "clear", ![h].account = req[h].account]
  <2>0. AccountPut(h, "clear", req[h].account)
    BY <1>1 DEF AccountPut
  <2>1. req[h].account \in User
    BY Typed, HandlerFields
  <2>2. Goes(h, "clear", {"account"}) /\ req'[h].account = req[h].account
    BY <2>0, <2>1, AccountGoes DEF PCs
  <2>3. Goes(h, "clear", {})
    BY <2>2 DEF Goes, Same
  <2>4. req[h].account.hash # None
    BY <1>1 DEF Fits
  <2>5. FlowLinks(req'[h]) /\ DataLinks(req'[h])
    BY <2>2, <2>3, <2>4, OldLinks DEF Goes, Same, At, FlowLinks, DataLinks, HasEmail, HasUser, OnPath
  <2>6. StoreFrame("lockout") /\ seen' = seen
    BY <1>1, StillFrame
  <2>. QED
    BY <2>3, <2>5, <2>6, GoesAdvances DEF Leads, At
<1>2. CASE Goto(h, "fail") /\ Mistakes(h)
  <2>1. Goes(h, "fail", {})
    BY <1>2, GotoGoes DEF PCs
  <2>2. FlowLinks(req'[h]) /\ DataLinks(req'[h])
    BY <2>1, OldLinks DEF Goes, Same, At, FlowLinks, DataLinks, HasEmail, HasUser, OnPath
  <2>. QED
    BY <1>2, <2>1, <2>2, GoesAdvances, MistakeFrame DEF Leads, At
<1>. QED
  BY <1>1, <1>2 DEF Guess, Mistakes

LEMMA LockoutEffect ==
  ASSUME TypeInv, NEW h \in Handlers, Lockout(h)
  PROVE  /\ At(h, "lockout") /\ Advances(h) /\ StoreFrame("lockout")
         /\ req'[h].pc \in {"find", "fail"} => ~LockedOut(Counter(h))
         /\ req'[h].pc = "clear" => req[h].flow # "login"
         /\ \/ req'[h].pc # "fail" /\ seen' = seen
            \/ /\ req'[h].pc = "fail"
               /\ seen'.guesses = [seen.guesses EXCEPT ![Counter(h)] = seen.guesses[Counter(h)] + 1]
<1>1. At(h, "lockout") /\ starts' = starts /\ UNCHANGED <<users, redis, grants, jobs>>
  BY DEF Lockout
<1>2. CASE Finish(h) /\ seen' = seen
  BY <1>1, <1>2, FinishEnds, EndsAdvances, StillFrame DEF Ends, Idle
<1>3. CASE ~LockedOut(Counter(h)) /\ req[h].flow = "login" /\ Goto(h, "find") /\ seen' = seen
  <2>1. Goes(h, "find", {}) /\ StoreFrame("lockout")
    BY <1>1, <1>3, GotoGoes, StillFrame DEF PCs
  <2>2. FlowLinks(req'[h]) /\ DataLinks(req'[h])
    BY <1>1, <1>3, <2>1, OldLinks DEF Goes, Same, At, FlowLinks, DataLinks, HasEmail, HasUser, OnPath
  <2>. QED
    BY <1>1, <1>3, <2>1, <2>2, GoesAdvances DEF Leads, At
<1>4. CASE /\ ~LockedOut(Counter(h)) /\ req[h].flow # "login"
           /\ Guess(h, req[h].account, "clear")
  BY <1>1, <1>4, GuessEffect
<1>. QED
  BY <1>1, <1>2, <1>3, <1>4 DEF Lockout

LEMMA FindEffect ==
  ASSUME TypeInv, NEW h \in Handlers, Find(h)
  PROVE  /\ At(h, "find") /\ Advances(h) /\ StoreFrame("find")
         /\ \/ req'[h].pc # "fail" /\ seen' = seen
            \/ /\ req'[h].pc = "fail"
               /\ seen'.guesses = [seen.guesses EXCEPT ![Counter(h)] = seen.guesses[Counter(h)] + 1]
         /\ req'[h].pc = "clear" => Exists(req'[h].user)
<1>1. At(h, "find") /\ starts' = starts /\ UNCHANGED <<users, redis, grants, jobs>>
  BY DEF Find
<1>2. CASE Finish(h) /\ seen' = seen
  BY <1>1, <1>2, FinishEnds, EndsAdvances, StillFrame DEF Ends, Idle
<1>3. CASE Goto(h, "fail") /\ Mistakes(h)
  <2>1. Goes(h, "fail", {})
    BY <1>1, <1>3, GotoGoes DEF PCs
  <2>2. FlowLinks(req'[h]) /\ DataLinks(req'[h])
    BY <1>1, <2>1, OldLinks DEF Goes, Same, At, FlowLinks, DataLinks, HasEmail, HasUser, OnPath
  <2>. QED
    BY <1>1, <1>3, <2>1, <2>2, GoesAdvances, MistakeFrame DEF Leads, At
<1>4. ASSUME NEW u \in Users, Exists(u), Fits(req[h].word, users[u]), seen' = seen,
             req' = [req EXCEPT ![h].pc = "clear", ![h].user = u, ![h].account = users[u]]
      PROVE  Advances(h) /\ StoreFrame("find") /\ req'[h].pc = "clear" /\ Exists(req'[h].user)
  <2>0. SignerPut(h, "clear", u, users[u])
    BY <1>4 DEF SignerPut
  <2>1. users[u] \in User
    BY Typed
  <2>2. Goes(h, "clear", {"user", "account"}) /\ req'[h].user = u /\ req'[h].account = users[u]
    BY <1>1, <2>0, <2>1, SignerGoes DEF PCs
  <2>3. StoreFrame("find")
    BY <1>1, <1>4, StillFrame
  <2>4. FlowLinks(req'[h]) /\ DataLinks(req'[h])
    <3>1. u # None /\ users[u].hash # None
      BY <1>4, AccountAssumption DEF Users, Fits
    <3>. QED
      BY <1>1, <2>2, <3>1, OldLinks DEF Goes, Same, At, FlowLinks, DataLinks, HasEmail, HasUser, OnPath
  <2>5. Follows(req'[h], req[h])
    BY <1>1, <2>2 DEF Goes, Same, At, Follows, Leads
  <2>. QED
    BY <1>4, <2>2, <2>3, <2>4, <2>5 DEF Goes, Advances
<1>. QED
  BY <1>1, <1>2, <1>3, <1>4 DEF Find, Holder, Exists, Mistakes

LEMMA FailEffect ==
  ASSUME TypeInv, NEW h \in Handlers, Fail(h)
  PROVE  /\ At(h, "fail") /\ Advances(h) /\ Ends(h) /\ StoreFrame("fail") /\ seen' = seen
         /\ redis'.failures = [redis.failures EXCEPT ![Counter(h)] = redis.failures[Counter(h)] + 1]
<1>. DEFINE c == Counter(h)
            f == [redis.failures EXCEPT ![c] = redis.failures[c] + 1]
<1>1. At(h, "fail") /\ Ends(h) /\ seen' = seen
  BY FinishEnds DEF Fail
<1>2. c \in Counters /\ redis.failures \in [Counters -> Nat]
  BY <1>1, CounterType, Typed, RedisFields DEF At
<1>. HIDE DEF c
<1>3. f \in [Counters -> Nat]
  BY <1>2
<1>4. redis' = [redis EXCEPT !.failures = f]
  BY DEF Fail, c
<1>. HIDE DEF f
<1>5. KeysBut({"failures"}) /\ redis'.failures = f
  BY <1>3, <1>4, FailuresKeys
<1>6. StoreFrame("fail")
  BY <1>1, <1>5, QuietFields, KeysFrame DEF Fail
<1>. QED
  BY <1>1, <1>5, <1>6, EndsAdvances DEF f, c

LEMMA ClearEffect ==
  ASSUME TypeInv, NEW h \in Handlers, Clear(h)
  PROVE  /\ At(h, "clear") /\ Advances(h) /\ StoreFrame("clear")
         /\ req'[h].pc # "idle"
         /\ redis'.failures = [redis.failures EXCEPT ![Counter(h)] = 0]
         /\ seen'.guesses = [seen.guesses EXCEPT ![Counter(h)] = 0]
         /\ \A job \in jobs' : (job \in jobs \/ job.user = req[h].user)
<1>. DEFINE c == Counter(h)
            f == [redis.failures EXCEPT ![c] = 0]
            g == [seen.guesses EXCEPT ![c] = 0]
            account == req[h].account
            job == [user |-> req[h].user, word |-> req[h].word, hash |-> account.hash]
<1>1. At(h, "clear") /\ starts' = starts
  BY DEF Clear
<1>2. c \in Counters /\ redis.failures \in [Counters -> Nat] /\ seen.guesses \in [Counters -> Nat]
  BY <1>1, CounterType, Typed, RedisFields, SeenFields DEF At
<1>3. KeysBut({"failures"}) /\ redis'.failures = f
  <2>1. redis' = [redis EXCEPT !.failures = f]
    BY DEF Clear
  <2>2. f \in [Counters -> Nat]
    BY <1>2
  <2>. HIDE DEF f
  <2>. QED
    BY <2>1, <2>2, FailuresKeys
<1>4. SeenBut({"guesses"}) /\ seen'.guesses = g
  <2>1. seen' = [seen EXCEPT !.guesses = g]
    BY DEF Clear
  <2>2. g \in [Counters -> Nat]
    BY <1>2
  <2>. HIDE DEF g
  <2>. QED
    BY <2>1, <2>2, GuessesSeen
<1>5. \/ req[h].flow = "login" /\ Goto(h, "epoch")
      \/ req[h].flow = "change" /\ Goto(h, "keep")
      \/ req[h].flow = "requestMove" /\ Goto(h, "free")
  BY <1>1, OldLinks DEF Clear, At, FlowLinks, OnPath
<1>6. Advances(h) /\ req'[h].pc # "idle"
  <2>1. ASSUME NEW pc \in PCs, Goto(h, pc),
               <<req[h].flow, pc>> \in {<<"login", "epoch">>, <<"change", "keep">>, <<"requestMove", "free">>}
        PROVE  Advances(h) /\ req'[h].pc # "idle"
    <3>1. Goes(h, pc, {})
      BY <1>1, <2>1, GotoGoes
    <3>2. FlowLinks(req'[h]) /\ DataLinks(req'[h])
      BY <1>1, <2>1, <3>1, OldLinks DEF Goes, Same, At, FlowLinks, DataLinks, HasEmail, HasUser, OnPath
    <3>. QED
      BY <1>1, <2>1, <3>1, <3>2, GoesAdvances DEF Leads, At
  <2>2. "epoch" \in PCs /\ "keep" \in PCs /\ "free" \in PCs
    BY DEF PCs
  <2>3. CASE req[h].flow = "login" /\ Goto(h, "epoch")
    BY <2>1, <2>2, <2>3
  <2>4. CASE req[h].flow = "change" /\ Goto(h, "keep")
    BY <2>1, <2>2, <2>4
  <2>5. CASE req[h].flow = "requestMove" /\ Goto(h, "free")
    BY <2>1, <2>2, <2>5
  <2>. QED
    BY <1>5, <2>3, <2>4, <2>5
<1>7. jobs' \subseteq Job /\ (\A j \in jobs' : j \in jobs \/ j.user = req[h].user)
  <2>1. jobs' = jobs \/ (req[h].flow = "login" /\ jobs' = jobs \cup {job})
    BY DEF Clear
  <2>2. CASE req[h].flow = "login" /\ jobs' = jobs \cup {job}
    <3>1. req[h].user \in Users /\ req[h].word \in Words /\ account.hash # None
      BY <1>1, <2>2, FieldTypes, Typed, HandlerFields, OldLinks DEF FlowLinks, HasUser, At
    <3>2. account.hash \in Hash
      BY <3>1, Typed, HandlerFields DEF User
    <3>3. job \in Job /\ job.user = req[h].user
      BY <3>1, <3>2 DEF Job
    <3>. HIDE DEF job
    <3>. QED
      BY <2>2, <3>3, Typed
  <2>. QED
    BY <2>1, <2>2, Typed
<1>8. StoreFrame("clear")
  <2>1. users' = users /\ grants' = grants
    BY DEF Clear
  <2>. QED
    BY <1>3, <1>4, <1>7, <2>1, Typed DEF StoreFrame, KeysBut, SeenBut
<1>. QED
  BY <1>1, <1>3, <1>4, <1>6, <1>7, <1>8

LEMMA SignAccessEffect ==
  ASSUME TypeInv, NEW h \in Handlers, SignAccess(h)
  PROVE  /\ At(h, "epoch") /\ Advances(h) /\ StoreFrame("epoch") /\ UNCHANGED <<users, redis, seen>>
         /\ req'[h].pc = "session" /\ grants'.sessions = grants.sessions
         /\ grants'.access = grants.access \cup
              {[user |-> req[h].user, epoch |-> redis.epoch[req[h].user], age |-> users[req[h].user].writes]}
<1>. DEFINE u == req[h].user
            t == [user |-> u, epoch |-> redis.epoch[u], age |-> users[u].writes]
<1>1. At(h, "epoch") /\ starts' = starts /\ UNCHANGED <<users, redis, jobs, seen>>
  BY DEF SignAccess
<1>2. Goes(h, "session", {})
  BY GotoGoes DEF SignAccess, PCs
<1>3. FlowLinks(req'[h]) /\ DataLinks(req'[h])
  BY <1>1, <1>2, OldLinks DEF Goes, Same, At, FlowLinks, DataLinks, HasEmail, HasUser, OnPath
<1>4. Advances(h) /\ req'[h].pc = "session"
  BY <1>1, <1>2, <1>3, GoesAdvances DEF Leads, At
<1>5. u \in Users
  BY <1>1, FieldTypes DEF At, HasUser
<1>. HIDE DEF u
<1>6. t \in Access
  BY <1>5, Typed, RedisFields DEF Access, User
<1>7. grants' = [grants EXCEPT !.access = grants.access \cup {t}]
  BY DEF SignAccess, u
<1>. HIDE DEF t
<1>8. /\ grants' \in [sessions : SUBSET Session, access : SUBSET Access]
      /\ grants'.sessions = grants.sessions /\ grants'.access = grants.access \cup {t}
  BY <1>6, <1>7, Typed
<1>9. StoreFrame("epoch")
  BY <1>1, <1>8, Typed DEF StoreFrame
<1>. QED
  BY <1>1, <1>4, <1>8, <1>9 DEF t, u

LEMMA WriteSessionEffect ==
  ASSUME TypeInv, NEW h \in Handlers, WriteSession(h)
  PROVE  /\ At(h, "session") /\ Advances(h) /\ Ends(h) /\ StoreFrame("session")
         /\ UNCHANGED <<users, redis, seen>> /\ grants'.access = grants.access
         /\ grants'.sessions = grants.sessions \cup
              {[user |-> req[h].user, id |-> req[h].id, age |-> users[req[h].user].writes]}
<1>. DEFINE u == req[h].user
            s == [user |-> u, id |-> req[h].id, age |-> users[u].writes]
<1>1. At(h, "session") /\ Ends(h) /\ UNCHANGED <<users, redis, jobs, seen>>
  BY FinishEnds DEF WriteSession
<1>2. u \in Users
  BY <1>1, FieldTypes DEF At, HasUser
<1>. HIDE DEF u
<1>3. s \in Session
  BY <1>2, Typed, HandlerFields DEF Session, User
<1>4. grants' = [grants EXCEPT !.sessions = grants.sessions \cup {s}]
  BY DEF WriteSession, u
<1>. HIDE DEF s
<1>5. /\ grants' \in [sessions : SUBSET Session, access : SUBSET Access]
      /\ grants'.access = grants.access /\ grants'.sessions = grants.sessions \cup {s}
  BY <1>3, <1>4, Typed
<1>6. StoreFrame("session")
  BY <1>1, <1>5, Typed DEF StoreFrame
<1>. QED
  BY <1>1, <1>5, <1>6, EndsAdvances DEF s, u

LEMMA StoredFields ==
  ASSUME TypeInv, NEW u \in Users, NEW hash \in Hash, users' = Stored(u, hash)
  PROVE  /\ users' \in [Users -> User]
         /\ users'[u].hash = hash /\ users'[u].writes = users[u].writes + 1
         /\ users'[u].state = users[u].state /\ users'[u].email = users[u].email
         /\ users'[u].verified = users[u].verified
         /\ \A v \in Users : v # u => users'[v] = users[v]
<1>1. users[u] \in User /\ users \in [Users -> User]
  BY Typed
<1>2. users[u].writes + 1 \in Nat
  BY <1>1 DEF User
<1>. DEFINE p == [users[u] EXCEPT !.hash = hash, !.writes = users[u].writes + 1]
<1>3. p \in User /\ p.hash = hash /\ p.writes = users[u].writes + 1 /\ p.state = users[u].state
      /\ p.email = users[u].email /\ p.verified = users[u].verified
  BY <1>1, <1>2 DEF User
<1>4. users' = [users EXCEPT ![u] = p]
  BY DEF Stored
<1>. HIDE DEF p
<1>. QED
  BY <1>1, <1>3, <1>4

LEMMA NewHash ==
  ASSUME TypeInv, NEW h \in Handlers, req[h].pc # "idle"
  PROVE  /\ req[h].word # None => [word |-> req[h].word, salt |-> req[h].id] \in Hash
         /\ req[h].fresh # None => [word |-> req[h].fresh, salt |-> req[h].id] \in Hash
BY Typed, HandlerFields, FieldTypes DEF Hash

LEMMA UpgradeEffect ==
  ASSUME TypeInv, NEW h \in Handlers, Upgrade(h)
  PROVE  /\ At(h, "upgrade") /\ Advances(h) /\ Ends(h) /\ StoreFrame("upgrade")
         /\ req[h].user \in Users /\ [word |-> req[h].word, salt |-> req[h].id] \in Hash
         /\ users' = Stored(req[h].user, [word |-> req[h].word, salt |-> req[h].id])
<1>1. At(h, "upgrade") /\ Ends(h) /\ UNCHANGED <<redis, grants, jobs, seen>>
  BY FinishEnds DEF Upgrade
<1>2. req[h].user \in Users /\ req[h].word # None
  BY <1>1, FieldTypes, OldLinks DEF At, HasUser, FlowLinks, OnPath
<1>3. [word |-> req[h].word, salt |-> req[h].id] \in Hash
  BY <1>1, <1>2, NewHash DEF At
<1>4. users' = Stored(req[h].user, [word |-> req[h].word, salt |-> req[h].id])
  BY DEF Upgrade
<1>5. users' \in [Users -> User]
  BY <1>2, <1>3, <1>4, StoredFields
<1>6. StoreFrame("upgrade")
  BY <1>1, <1>5, Typed DEF StoreFrame
<1>. QED
  BY <1>1, <1>2, <1>3, <1>4, <1>6, EndsAdvances

-----------------------------------------------------------------------------
(* Codes and links asked for *)

LEMMA CoolFrame ==
  ASSUME TypeInv, NEW h \in Handlers, NEW pc \in {"cool", "release"}, At(h, pc),
         UNCHANGED <<users, grants, jobs, seen>>
  PROVE  /\ redis' = [redis EXCEPT !.cool = redis.cool \cup {Key(h)}] => StoreFrame(pc)
         /\ redis' = [redis EXCEPT !.cool = redis.cool \ {Key(h)}] => StoreFrame(pc)
<1>1. Key(h) \in Purposes \X Emails /\ redis.cool \subseteq Purposes \X Emails
  BY KeyType, Typed, RedisFields DEF At
<1>2. redis.cool \cup {Key(h)} \in SUBSET (Purposes \X Emails)
      /\ redis.cool \ {Key(h)} \in SUBSET (Purposes \X Emails)
  BY <1>1
<1>3. redis' = [redis EXCEPT !.cool = redis.cool \cup {Key(h)}] => KeysBut({})
  BY <1>2, CoolKeys
<1>4. redis' = [redis EXCEPT !.cool = redis.cool \ {Key(h)}] => KeysBut({})
  BY <1>2, CoolKeys
<1>5. KeysBut({}) => StoreFrame(pc)
  BY QuietFields, KeysFrame
<1>. QED
  BY <1>3, <1>4, <1>5

LEMMA CoolEffect ==
  ASSUME TypeInv, NEW h \in Handlers, Cool(h)
  PROVE  At(h, "cool") /\ Advances(h) /\ StoreFrame("cool")
<1>1. At(h, "cool") /\ starts' = starts
  BY DEF Cool
<1>2. StoreFrame("cool")
  BY <1>1, CoolFrame DEF Cool
<1>3. CASE Goto(h, "account")
  <2>1. Goes(h, "account", {})
    BY <1>1, <1>3, GotoGoes DEF PCs
  <2>2. FlowLinks(req'[h]) /\ DataLinks(req'[h])
    BY <1>1, <1>3, <2>1, OldLinks DEF Goes, Same, At, FlowLinks, DataLinks, HasEmail, HasUser, OnPath
  <2>. QED
    BY <1>1, <1>2, <2>1, <2>2, GoesAdvances DEF Leads, At
<1>. QED
  BY <1>1, <1>2, <1>3, FinishEnds, EndsAdvances DEF Cool

LEMMA ReleaseEffect ==
  ASSUME TypeInv, NEW h \in Handlers, Release(h)
  PROVE  At(h, "release") /\ Advances(h) /\ StoreFrame("release")
<1>1. At(h, "release") /\ starts' = starts
  BY DEF Release
<1>2. StoreFrame("release")
  BY <1>1, CoolFrame DEF Release
<1>. QED
  BY <1>1, <1>2, FinishEnds, EndsAdvances DEF Release

LEMMA FaultAdvances ==
  ASSUME TypeInv, NEW h \in Handlers, NEW pc \in {"account", "code"}, At(h, pc), Fault(h), starts' = starts
  PROVE  Advances(h) /\ req'[h].pc \in {"idle", "release"}
<1>1. CASE Finish(h)
  BY <1>1, FinishEnds, EndsAdvances DEF Ends, Idle
<1>2. CASE req[h].flow \in {"forgot", "resendOtp"} /\ Goto(h, "release")
  <2>1. Goes(h, "release", {})
    BY <1>2, GotoGoes DEF PCs
  <2>2. FlowLinks(req'[h]) /\ DataLinks(req'[h])
    BY <1>2, <2>1, OldLinks DEF Goes, Same, At, FlowLinks, DataLinks, HasEmail, HasUser, OnPath
  <2>. QED
    BY <2>1, <2>2, GoesAdvances DEF Leads, At
<1>. QED
  BY <1>1, <1>2 DEF Fault

LEMMA AccountEffect ==
  ASSUME TypeInv, NEW h \in Handlers, Account(h)
  PROVE  /\ At(h, "account") /\ Advances(h) /\ StoreFrame("account")
         /\ req'[h].pc \notin {"idle", "release"} => Exists(req'[h].user)
<1>1. At(h, "account") /\ starts' = starts /\ StoreFrame("account")
  BY StillFrame DEF Account
<1>2. ASSUME NEW u \in Users, Exists(u), NEW pc \in PCs, FoundPut(h, pc, u),
             pc = IF req[h].flow = "forgot" /\ mix.method = "token" THEN "fingerprint" ELSE "code"
      PROVE  Advances(h) /\ Exists(req'[h].user)
  <2>1. Goes(h, pc, {"user"}) /\ req'[h].user = u
    BY <1>1, <1>2, FoundGoes
  <2>2. u # None
    BY AccountAssumption DEF Users
  <2>3. FlowLinks(req'[h]) /\ DataLinks(req'[h])
    BY <1>1, <1>2, <2>1, <2>2, OldLinks DEF Goes, Same, At, FlowLinks, DataLinks, HasEmail, HasUser, OnPath
  <2>4. Follows(req'[h], req[h])
    BY <1>1, <1>2, <2>1 DEF Goes, Same, At, Follows, Leads
  <2>. QED
    BY <1>2, <2>1, <2>3, <2>4 DEF Goes, Advances
<1>3. CASE Finish(h)
  BY <1>1, <1>3, FinishEnds, EndsAdvances DEF Ends, Idle
<1>4. CASE Fault(h)
  BY <1>1, <1>4, FaultAdvances
<1>5. CASE \E u \in Holder(req[h].email) :
             req' = [req EXCEPT ![h].user = u, ![h].pc =
               IF req[h].flow = "forgot" /\ mix.method = "token" THEN "fingerprint" ELSE "code"]
  <2>. DEFINE pc == IF req[h].flow = "forgot" /\ mix.method = "token" THEN "fingerprint" ELSE "code"
  <2>1. PICK u \in Users : Exists(u) /\ req' = [req EXCEPT ![h].user = u, ![h].pc = pc]
    BY <1>5 DEF Holder, Exists
  <2>2. pc \in PCs
    BY DEF PCs
  <2>3. FoundPut(h, pc, u)
    BY <2>1 DEF FoundPut
  <2>. QED
    BY <1>1, <1>2, <2>1, <2>2, <2>3
<1>. QED
  BY <1>1, <1>3, <1>4, <1>5 DEF Account

LEMMA StoreCodeEffect ==
  ASSUME TypeInv, NEW h \in Handlers, StoreCode(h)
  PROVE  /\ At(h, "code") /\ Advances(h) /\ StoreFrame("code") /\ seen' = seen /\ Key(h) \in Purposes \X Emails
         /\ \/ /\ req'[h].pc = "mail"
               /\ redis'.otp = [redis.otp EXCEPT ![Key(h)] = [code |-> req[h].id, tries |-> 0]]
            \/ redis' = redis /\ req'[h].pc \in {"idle", "release"}
<1>1. At(h, "code") /\ starts' = starts /\ UNCHANGED <<users, grants, jobs, seen>>
  BY DEF StoreCode
<1>2. Key(h) \in Purposes \X Emails /\ req[h].id \in Ids
  BY <1>1, KeyType, FieldTypes DEF At
<1>3. CASE redis' = redis /\ Fault(h)
  BY <1>1, <1>2, <1>3, FaultAdvances, StillFrame
<1>4. CASE /\ redis' = [redis EXCEPT !.otp[Key(h)] = [code |-> req[h].id, tries |-> 0]]
           /\ Goto(h, "mail")
  <2>. DEFINE k == Key(h)
              f == [redis.otp EXCEPT ![k] = [code |-> req[h].id, tries |-> 0]]
  <2>1. redis' = [redis EXCEPT !.otp = f]
    BY <1>4
  <2>2. f \in [Purposes \X Emails -> [code : {0} \cup Ids, tries : Nat]]
    BY <1>2, Typed, RedisFields
  <2>. HIDE DEF f
  <2>3. KeysBut({"otp"}) /\ redis'.otp = f
    BY <2>1, <2>2, OtpKeys
  <2>4. StoreFrame("code")
    BY <1>1, <2>3, QuietFields, KeysFrame
  <2>5. Goes(h, "mail", {})
    BY <1>1, <1>4, GotoGoes DEF PCs
  <2>6. FlowLinks(req'[h]) /\ DataLinks(req'[h])
    BY <1>1, <2>5, OldLinks DEF Goes, Same, At, FlowLinks, DataLinks, HasEmail, HasUser, OnPath
  <2>7. Advances(h) /\ req'[h].pc = "mail"
    BY <1>1, <2>5, <2>6, GoesAdvances DEF Leads, At
  <2>. QED
    BY <1>1, <1>2, <2>3, <2>4, <2>7 DEF f
<1>. QED
  BY <1>1, <1>3, <1>4 DEF StoreCode

LEMMA FingerprintEffect ==
  ASSUME TypeInv, NEW h \in Handlers, Fingerprint(h)
  PROVE  /\ At(h, "fingerprint") /\ Advances(h) /\ StoreFrame("fingerprint") /\ req'[h].pc = "mint"
         /\ UNCHANGED <<users, redis, grants, seen>>
         /\ req'[h].data.user = req[h].user /\ req'[h].data.bound = users[req[h].user].hash
         /\ req'[h].data.age = users[req[h].user].writes
         /\ req'[h].data.kind \in {"reset", "vtok"}
<1>. DEFINE u == req[h].user
            d == [kind |-> IF req[h].flow = "forgot" THEN "reset" ELSE "vtok", user |-> u,
                  email |-> req[h].email, rank |-> 0, bound |-> FingerprintOf(u), age |-> users[u].writes]
<1>1. At(h, "fingerprint") /\ starts' = starts /\ UNCHANGED <<users, redis, grants, jobs, seen>>
  BY DEF Fingerprint
<1>2. req[h].flow \in {"forgot", "verifyOtp"} /\ u \in Users /\ req[h].email \in Emails
  BY <1>1, FieldTypes, OldLinks DEF At, HasUser, HasEmail, FlowLinks, OnPath
<1>3. DataPut(h, "mint", d)
  BY DEF Fingerprint, DataPut
<1>. HIDE DEF u
<1>4. users[u] \in User
  BY <1>2, Typed
<1>5. /\ d \in Entry /\ d.user = u /\ d.bound = users[u].hash /\ d.age = users[u].writes
      /\ d.user # None /\ d.email # None
      /\ d.kind = IF req[h].flow = "forgot" THEN "reset" ELSE "vtok"
  BY <1>2, <1>4, AccountAssumption DEF Entry, User, FingerprintOf, Users
<1>. HIDE DEF d
<1>6. Goes(h, "mint", {"data"}) /\ req'[h].data = d
  BY <1>1, <1>3, <1>5, DataGoes DEF PCs
<1>7. FlowLinks(req'[h]) /\ DataLinks(req'[h])
  BY <1>1, <1>2, <1>5, <1>6, OldLinks
     DEF Goes, Same, At, FlowLinks, DataLinks, EntryLinks, HasEmail, HasUser, OnPath
<1>8. Follows(req'[h], req[h])
  BY <1>1, <1>6 DEF Goes, Same, At, Follows, Leads
<1>9. StoreFrame("fingerprint")
  BY <1>1, StillFrame
<1>. QED
  BY <1>1, <1>5, <1>6, <1>7, <1>8, <1>9 DEF Goes, Advances, u

(* What a handler before its write draws, and how it leaves the place. *)
LEMMA MintEffect ==
  ASSUME TypeInv, NEW h \in Handlers, Mint(h)
  PROVE  /\ At(h, "mint") /\ Advances(h) /\ StoreFrame("mint") /\ req[h].id \in Ids
         /\ redis'.vault = [redis.vault EXCEPT ![req[h].id] = req[h].data]
         /\ \/ /\ req[h].flow \in {"verifyOtp", "authorize"} /\ Ends(h)
               /\ seen'.mailed = seen.mailed \cup {req[h].id}
            \/ /\ req[h].flow \notin {"verifyOtp", "authorize"} /\ seen' = seen
               /\ req'[h].pc = IF req[h].flow = "invite" THEN "confirm" ELSE "mail"
<1>. DEFINE n == req[h].id
            f == [redis.vault EXCEPT ![n] = req[h].data]
<1>1. At(h, "mint") /\ starts' = starts /\ UNCHANGED <<users, grants, jobs>>
  BY DEF Mint
<1>2. n \in Ids /\ req[h].data \in Entry
  BY <1>1, FieldTypes, Typed, HandlerFields DEF At
<1>3. KeysBut({"vault"}) /\ redis'.vault = f
  <2>1. redis' = [redis EXCEPT !.vault = f]
    BY DEF Mint
  <2>2. f \in [Ids -> Entry]
    BY <1>2, Typed, RedisFields
  <2>. HIDE DEF f
  <2>. QED
    BY <2>1, <2>2, VaultKeys
<1>. HIDE DEF f
<1>4. CASE /\ req[h].flow \in {"verifyOtp", "authorize"} /\ Finish(h)
           /\ seen' = [seen EXCEPT !.mailed = seen.mailed \cup {n}]
  <2>1. seen.mailed \cup {n} \in SUBSET Ids
    BY <1>2, Typed, SeenFields
  <2>2. SeenBut({"mailed"}) /\ seen'.mailed = seen.mailed \cup {n}
    BY <1>4, <2>1, MailedSeen
  <2>3. StoreFrame("mint")
    BY <1>1, <1>3, <2>2, KeysFrame
  <2>. QED
    BY <1>1, <1>2, <1>3, <1>4, <2>2, <2>3, FinishEnds, EndsAdvances DEF f
<1>5. ASSUME NEW pc \in PCs, pc = (IF req[h].flow = "invite" THEN "confirm" ELSE "mail"), Goto(h, pc),
             seen' = seen, req[h].flow \notin {"verifyOtp", "authorize"}
      PROVE  Advances(h) /\ StoreFrame("mint") /\ req'[h].pc = pc
  <2>1. Goes(h, pc, {})
    BY <1>1, <1>5, GotoGoes
  <2>2. FlowLinks(req'[h]) /\ DataLinks(req'[h])
    BY <1>1, <1>5, <2>1, OldLinks DEF Goes, Same, At, FlowLinks, DataLinks, HasEmail, HasUser, OnPath
  <2>3. StoreFrame("mint")
    BY <1>1, <1>3, <1>5, QuietFields, KeysFrame
  <2>. QED
    BY <1>1, <1>5, <2>1, <2>2, <2>3, GoesAdvances DEF Leads, At
<1>6. CASE /\ req[h].flow \notin {"verifyOtp", "authorize"} /\ seen' = seen
           /\ Goto(h, IF req[h].flow = "invite" THEN "confirm" ELSE "mail")
  <2>1. (IF req[h].flow = "invite" THEN "confirm" ELSE "mail") \in PCs
    BY DEF PCs
  <2>. QED
    BY <1>1, <1>2, <1>3, <1>5, <1>6, <2>1 DEF f
<1>. QED
  BY <1>4, <1>6 DEF Mint

LEMMA MailEffect ==
  ASSUME TypeInv, NEW h \in Handlers, Mail(h)
  PROVE  /\ At(h, "mail") /\ Advances(h) /\ StoreFrame("mail") /\ req[h].id \in Ids
         /\ \/ redis' = redis /\ seen'.mailed = seen.mailed \cup {req[h].id}
            \/ seen' = seen /\ redis' = redis
            \/ seen' = seen /\ redis'.vault = [redis.vault EXCEPT ![req[h].id] = NoEntry]
         /\ req'[h].pc \in {"idle", "epoch"}
<1>. DEFINE n == req[h].id
            f == [redis.vault EXCEPT ![n] = NoEntry]
<1>1. At(h, "mail") /\ starts' = starts /\ UNCHANGED <<users, grants, jobs>>
  BY DEF Mail
<1>2. n \in Ids
  BY <1>1, FieldTypes DEF At
<1>3. Advances(h) /\ req'[h].pc \in {"idle", "epoch"}
  <2>1. CASE Finish(h)
    BY <1>1, <2>1, FinishEnds, EndsAdvances DEF Ends, Idle
  <2>2. CASE req[h].flow = "register" /\ Goto(h, "epoch")
    <3>1. Goes(h, "epoch", {})
      BY <1>1, <2>2, GotoGoes DEF PCs
    <3>2. FlowLinks(req'[h]) /\ DataLinks(req'[h])
      BY <1>1, <2>2, <3>1, OldLinks DEF Goes, Same, At, FlowLinks, DataLinks, HasEmail, HasUser, OnPath
    <3>. QED
      BY <1>1, <3>1, <3>2, GoesAdvances DEF Leads, At
  <2>. QED
    BY <2>1, <2>2 DEF Mail
<1>4. CASE redis' = redis /\ seen' = [seen EXCEPT !.mailed = seen.mailed \cup {n}]
  <2>1. seen.mailed \cup {n} \in SUBSET Ids
    BY <1>2, Typed, SeenFields
  <2>2. SeenBut({"mailed"}) /\ seen'.mailed = seen.mailed \cup {n}
    BY <1>4, <2>1, MailedSeen
  <2>3. StoreFrame("mail")
    BY <1>1, <1>4, <2>2, QuietFields, KeysFrame
  <2>. QED
    BY <1>1, <1>2, <1>3, <1>4, <2>2, <2>3
<1>5. CASE redis' = redis /\ seen' = seen
  BY <1>1, <1>2, <1>3, <1>5, StillFrame
<1>6. CASE seen' = seen /\ redis' = [redis EXCEPT !.vault = f]
  <2>1. f \in [Ids -> Entry]
    BY <1>2, Typed, RedisFields, Nulls
  <2>. HIDE DEF f
  <2>2. KeysBut({"vault"}) /\ redis'.vault = f
    BY <1>6, <2>1, VaultKeys
  <2>3. StoreFrame("mail")
    BY <1>1, <1>6, <2>2, QuietFields, KeysFrame
  <2>. QED
    BY <1>1, <1>2, <1>3, <1>6, <2>2, <2>3 DEF f
<1>. QED
  BY <1>4, <1>5, <1>6 DEF Mail

-----------------------------------------------------------------------------
(* Codes and links presented *)

LEMMA CodeTypes ==
  ASSUME TypeInv, NEW k \in Purposes \X Emails
  PROVE  /\ redis.otp[k] \in [code : {0} \cup Ids, tries : Nat] /\ NoCode \in [code : {0} \cup Ids, tries : Nat]
         /\ redis.otp[k] # NoCode => redis.otp[k].code \in Ids
         /\ redis.otp \in [Purposes \X Emails -> [code : {0} \cup Ids, tries : Nat]]
<1>1. redis.otp \in [Purposes \X Emails -> [code : {0} \cup Ids, tries : Nat]]
  BY Typed, RedisFields
<1>2. redis.otp[k].code = 0 => redis.otp[k] = NoCode
  BY DEF TypeInv
<1>. QED
  BY <1>1, <1>2 DEF NoCode

LEMMA VerifyCodeEffect ==
  ASSUME TypeInv, NEW h \in Handlers, VerifyCode(h), NEW k, k = Key(h)
  PROVE  /\ At(h, "verify") /\ Advances(h) /\ StoreFrame("verify") /\ k \in Purposes \X Emails
         /\ \/ Ends(h) /\ seen' = seen
               /\ (redis' = redis \/ redis'.otp = [redis.otp EXCEPT ![k] = NoCode])
            \/ /\ req'[h].pc = "owner" /\ redis.otp[k].code \in Ids
               /\ redis'.otp = [redis.otp EXCEPT ![k] = NoCode] /\ seen'.wrong = seen.wrong
               /\ seen'.spent = [seen.spent EXCEPT ![redis.otp[k].code] = seen.spent[redis.otp[k].code] + 1]
            \/ /\ Ends(h) /\ redis.otp[k].code \in Ids /\ redis.otp[k].tries < MaxCodeAttempts
               /\ redis'.otp = [redis.otp EXCEPT ![k] =
                                  [code |-> redis.otp[k].code, tries |-> redis.otp[k].tries + 1]]
               /\ seen'.wrong = [seen.wrong EXCEPT ![redis.otp[k].code] = seen.wrong[redis.otp[k].code] + 1]
               /\ seen'.spent = seen.spent
<1>. DEFINE record == redis.otp[k]
            gone == [redis.otp EXCEPT ![k] = NoCode]
            worse == [redis.otp EXCEPT ![k] = [code |-> record.code, tries |-> record.tries + 1]]
            spent == [seen.spent EXCEPT ![record.code] = seen.spent[record.code] + 1]
            wrong == [seen.wrong EXCEPT ![record.code] = seen.wrong[record.code] + 1]
<1>1. At(h, "verify") /\ starts' = starts /\ UNCHANGED <<users, grants, jobs>>
  BY DEF VerifyCode
<1>2. k \in Purposes \X Emails
  BY <1>1, KeyType DEF At
<1>3. /\ record \in [code : {0} \cup Ids, tries : Nat] /\ (record # NoCode => record.code \in Ids)
      /\ gone \in [Purposes \X Emails -> [code : {0} \cup Ids, tries : Nat]]
      /\ worse \in [Purposes \X Emails -> [code : {0} \cup Ids, tries : Nat]]
  BY <1>2, CodeTypes
<1>4. seen.spent \in [Ids -> Nat] /\ seen.wrong \in [Ids -> Nat]
  BY Typed, SeenFields
<1>5. redis' = [redis EXCEPT !.otp = gone] => KeysBut({"otp"}) /\ redis'.otp = gone
  BY <1>3, OtpKeys
<1>6. CASE Finish(h) /\ seen' = seen /\ redis' = redis
  BY <1>1, <1>2, <1>6, FinishEnds, EndsAdvances, StillFrame
<1>7. CASE Finish(h) /\ seen' = seen /\ redis' = [redis EXCEPT !.otp = gone]
  <2>1. StoreFrame("verify")
    BY <1>1, <1>5, <1>7, QuietFields, KeysFrame
  <2>. QED
    BY <1>1, <1>2, <1>5, <1>7, <2>1, FinishEnds, EndsAdvances
<1>8. CASE /\ record # NoCode /\ redis' = [redis EXCEPT !.otp = gone]
           /\ seen' = [seen EXCEPT !.spent = spent] /\ Goto(h, "owner")
  <2>1. spent \in [Ids -> Nat]
    BY <1>3, <1>4, <1>8
  <2>. HIDE DEF spent
  <2>2. SeenBut({"spent"}) /\ seen'.spent = spent
    BY <1>8, <2>1, SpentSeen
  <2>3. StoreFrame("verify")
    BY <1>1, <1>5, <1>8, <2>2, KeysFrame
  <2>4. Goes(h, "owner", {})
    BY <1>1, <1>8, GotoGoes DEF PCs
  <2>5. FlowLinks(req'[h]) /\ DataLinks(req'[h])
    BY <1>1, <2>4, OldLinks DEF Goes, Same, At, FlowLinks, DataLinks, HasEmail, HasUser, OnPath
  <2>6. Advances(h) /\ req'[h].pc = "owner"
    BY <1>1, <2>4, <2>5, GoesAdvances DEF Leads, At
  <2>7. seen'.wrong = seen.wrong /\ redis'.otp = gone /\ record.code \in Ids
    BY <1>3, <1>5, <1>8, <2>2 DEF SeenBut
  <2>. QED
    BY <1>1, <1>2, <2>2, <2>3, <2>6, <2>7 DEF spent
<1>9. CASE /\ record # NoCode /\ ~Exhausted(record) /\ redis' = [redis EXCEPT !.otp = worse]
           /\ seen' = [seen EXCEPT !.wrong = wrong] /\ Finish(h)
  <2>1. wrong \in [Ids -> Nat]
    BY <1>3, <1>4, <1>9
  <2>. HIDE DEF wrong, worse
  <2>2. SeenBut({"wrong"}) /\ seen'.wrong = wrong
    BY <1>9, <2>1, WrongSeen
  <2>3. KeysBut({"otp"}) /\ redis'.otp = worse
    BY <1>3, <1>9, OtpKeys
  <2>4. StoreFrame("verify")
    BY <1>1, <2>2, <2>3, KeysFrame
  <2>5. seen'.spent = seen.spent /\ record.code \in Ids
    BY <1>3, <1>9, <2>2 DEF SeenBut
  <2>6. record.tries < MaxCodeAttempts
    BY <1>3, <1>9, AccountAssumption DEF Exhausted
  <2>. QED
    BY <1>1, <1>2, <1>9, <2>2, <2>3, <2>4, <2>5, <2>6, FinishEnds, EndsAdvances DEF wrong, worse
<1>10. /\ redis' = [redis EXCEPT !.otp[Key(h)] = NoCode] => redis' = [redis EXCEPT !.otp = gone]
       /\ redis' = [redis EXCEPT !.otp[Key(h)].tries = @ + 1] => redis' = [redis EXCEPT !.otp = worse]
  <2>1. [record EXCEPT !.tries = record.tries + 1] = [code |-> record.code, tries |-> record.tries + 1]
    BY <1>3
  <2>2. k = Key(h) /\ Key(h) \in DOMAIN redis.otp
    BY <1>2, Typed, RedisFields
  <2>. QED
    BY <2>1, <2>2
<1>. QED
  BY <1>6, <1>7, <1>8, <1>9, <1>10 DEF VerifyCode

LEMMA FindOwnerEffect ==
  ASSUME TypeInv, NEW h \in Handlers, FindOwner(h)
  PROVE  /\ At(h, "owner") /\ Advances(h) /\ StoreFrame("owner")
         /\ req'[h].pc # "idle" => Exists(req'[h].user)
<1>1. At(h, "owner") /\ starts' = starts /\ StoreFrame("owner")
  BY StillFrame DEF FindOwner
<1>2. CASE Finish(h)
  BY <1>1, <1>2, FinishEnds, EndsAdvances DEF Ends, Idle
<1>3. req[h].flow \in {"verifyOtp", "resetOtp", "verifyEmail"}
  BY <1>1, OldLinks DEF At, FlowLinks, OnPath
<1>. DEFINE pc == CASE req[h].flow = "verifyOtp" -> "fingerprint" [] req[h].flow = "resetOtp" -> "write"
                    [] req[h].flow = "verifyEmail" -> "flag"
<1>4. /\ pc \in PCs /\ (req[h].flow = "verifyOtp" => pc = "fingerprint")
      /\ req[h].flow = "resetOtp" => pc = "write"
      /\ req[h].flow = "verifyEmail" => pc = "flag"
  BY <1>3 DEF PCs
<1>5. ASSUME NEW u \in Users, Exists(u), FoundPut(h, pc, u)
      PROVE  Advances(h) /\ Exists(req'[h].user)
  <2>. HIDE DEF pc
  <2>1. Goes(h, pc, {"user"}) /\ req'[h].user = u
    BY <1>1, <1>4, <1>5, FoundGoes
  <2>2. u # None
    BY AccountAssumption DEF Users
  <2>3. FlowLinks(req'[h]) /\ DataLinks(req'[h])
    BY <1>1, <1>3, <1>4, <2>1, <2>2, OldLinks DEF Goes, Same, At, FlowLinks, DataLinks, HasEmail, HasUser, OnPath
  <2>4. Follows(req'[h], req[h])
    BY <1>1, <1>3, <1>4, <2>1 DEF Goes, Same, At, Follows, Leads
  <2>. QED
    BY <1>5, <2>1, <2>3, <2>4 DEF Goes, Advances
<1>6. Finish(h) \/ \E u \in Users : Exists(u) /\ FoundPut(h, pc, u)
  BY DEF FindOwner, Holder, Exists, FoundPut
<1>. HIDE DEF pc
<1>. QED
  BY <1>1, <1>2, <1>5, <1>6

TakePut(h, pc, d, u, e, n) ==
  req' = [req EXCEPT ![h].pc = pc, ![h].data = d, ![h].user = u, ![h].email = e, ![h].age = n]

LEMMA TakeGoes ==
  ASSUME TypeInv, NEW h \in Handlers, NEW pc \in PCs, NEW d \in Entry, NEW u \in Users \cup {None},
         NEW e \in Emails \cup {None}, NEW n \in Nat, starts' = starts
  PROVE  TakePut(h, pc, d, u, e, n) =>
           /\ Goes(h, pc, {"data", "user", "email", "age"})
           /\ req'[h].data = d /\ req'[h].user = u /\ req'[h].email = e /\ req'[h].age = n
<1>. DEFINE q == [req[h] EXCEPT !.pc = pc, !.data = d, !.user = u, !.email = e, !.age = n]
<1>1. req[h] \in Handler
  BY Typed
<1>2. q \in Handler
  BY <1>1 DEF Handler
<1>3. /\ q.pc = pc /\ Same(q, req[h], {"data", "user", "email", "age"})
      /\ q.data = d /\ q.user = u /\ q.email = e /\ q.age = n
  BY <1>1 DEF Handler, Same
<1>4. HAVE TakePut(h, pc, d, u, e, n)
<1>5. req' = [req EXCEPT ![h] = q]
  BY <1>4 DEF TakePut
<1>. HIDE DEF q
<1>. QED
  BY <1>2, <1>3, <1>5, PutGoes

LEMMA EntryFields ==
  ASSUME NEW entry \in Entry
  PROVE  /\ entry.user \in Users \cup {None} /\ entry.email \in Emails \cup {None}
         /\ entry.rank \in 0..2 /\ entry.bound \in Hash \cup {None} /\ entry.age \in Nat
         /\ entry.kind \in {"none", "reset", "vtok", "move", "invite", "state"}
BY DEF Entry

LEMMA TakeEffect ==
  ASSUME TypeInv, NEW h \in Handlers, Take(h), NEW n, n = req[h].proof, NEW entry, entry = redis.vault[n]
  PROVE  /\ At(h, "take") /\ Advances(h) /\ StoreFrame("take") /\ n \in Ids
         /\ \/ Ends(h) /\ redis' = redis /\ seen' = seen
            \/ Ends(h) /\ redis'.vault = [redis.vault EXCEPT ![n] = NoEntry] /\ seen' = seen
            \/ /\ redis'.vault = [redis.vault EXCEPT ![n] = NoEntry]
               /\ seen'.spent = [seen.spent EXCEPT ![n] = seen.spent[n] + 1]
               /\ entry.kind # "none" /\ req'[h].pc = AfterTake(req[h].flow)
               /\ req'[h].data = entry /\ req'[h].user = entry.user
               /\ req[h].flow # "callback" => req'[h].email = entry.email
               /\ entry.user # None => req'[h].age = users[entry.user].writes
<1>. DEFINE flow == req[h].flow
            gone == [redis.vault EXCEPT ![n] = NoEntry]
            spent == [seen.spent EXCEPT ![n] = seen.spent[n] + 1]
<1>1. At(h, "take") /\ starts' = starts /\ UNCHANGED <<users, grants, jobs>>
  BY DEF Take
<1>2. n \in Ids /\ flow \in {"reset", "confirmMove", "accept", "callback"}
  BY <1>1, FieldTypes, OldLinks DEF At, FlowLinks, OnPath
<1>3. entry \in Entry /\ EntryLinks(entry) /\ gone \in [Ids -> Entry]
  BY <1>2, Typed, RedisFields, Nulls DEF TypeInv
<1>4. seen.spent \in [Ids -> Nat]
  BY Typed, SeenFields
<1>5. redis' = [redis EXCEPT !.vault = gone] => KeysBut({"vault"}) /\ redis'.vault = gone
  <2>. HIDE DEF gone
  <2>. QED
    BY <1>3, VaultKeys
<1>6. CASE Finish(h) /\ redis' = redis /\ seen' = seen
  BY <1>1, <1>2, <1>6, FinishEnds, EndsAdvances, StillFrame
<1>7. CASE Finish(h) /\ redis' = [redis EXCEPT !.vault = gone] /\ seen' = seen
  <2>1. StoreFrame("take")
    BY <1>1, <1>5, <1>7, QuietFields, KeysFrame
  <2>. QED
    BY <1>1, <1>2, <1>5, <1>7, <2>1, FinishEnds, EndsAdvances
<1>. DEFINE pc == AfterTake(flow)
            e == IF flow = "callback" THEN req[h].email ELSE entry.email
            age == IF entry.user = None THEN 0 ELSE users[entry.user].writes
<1>8. ASSUME pc \in PCs, entry.kind = Opens(flow), TakePut(h, pc, entry, entry.user, e, age)
      PROVE  /\ Advances(h) /\ entry.kind # "none" /\ req'[h].pc = pc
             /\ req'[h].data = entry /\ req'[h].user = entry.user /\ req'[h].email = e /\ req'[h].age = age
  <2>0. /\ pc = AfterTake(flow)
        /\ e = (IF flow = "callback" THEN req[h].email ELSE entry.email)
        /\ age = (IF entry.user = None THEN 0 ELSE users[entry.user].writes)
    OBVIOUS
  <2>. HIDE DEF pc, e, age
  <2>1. entry.user \in Users \cup {None} /\ e \in Emails \cup {None} /\ age \in Nat
    <3>1. req[h].email \in Emails \cup {None}
      BY Typed, HandlerFields
    <3>2. \A u \in Users : users[u].writes \in Nat
      BY Typed DEF User
    <3>. QED
      BY <1>3, <2>0, <3>1, <3>2, EntryFields
  <2>2. /\ pc \in PCs /\ TakePut(h, pc, entry, entry.user, e, age)
        /\ entry \in Entry /\ starts' = starts
    BY <1>1, <1>3, <1>8
  <2>. DEFINE u == entry.user
  <2>. HIDE DEF u, flow
  <2>3. /\ Goes(h, pc, {"data", "user", "email", "age"})
        /\ req'[h].data = entry /\ req'[h].user = entry.user /\ req'[h].email = e /\ req'[h].age = age
    <3>1. u \in Users \cup {None} /\ TakePut(h, pc, entry, u, e, age)
      BY <2>1, <2>2 DEF u
    <3>2. Goes(h, pc, {"data", "user", "email", "age"}) /\ req'[h].user = u
          /\ req'[h].data = entry /\ req'[h].email = e /\ req'[h].age = age
      BY <2>1, <2>2, <3>1, TakeGoes
    <3>. QED
      BY <3>2 DEF u
  <2>. USE DEF flow
  <2>4. /\ flow = "reset" => pc = "bound" /\ entry.kind \in {"reset", "vtok"}
        /\ flow = "confirmMove" => pc = "bound" /\ entry.kind = "move"
        /\ flow = "accept" => pc = "unindex" /\ entry.kind = "invite"
        /\ flow = "callback" => pc = "exchange" /\ entry.kind = "state"
    BY <1>8, <2>0 DEF AfterTake, Opens
  <2>5. Follows(req'[h], req[h])
    BY <1>1, <1>2, <2>3, <2>4 DEF Goes, Same, At, Follows, Leads
  <2>6. /\ flow # "callback" => entry.user # None /\ e # None
        /\ flow = "callback" => e = req[h].email
    BY <1>2, <1>3, <2>0, <2>4 DEF EntryLinks
  <2>7. FlowLinks(req'[h])
    <3>. DEFINE q == req'[h]
    <3>1. /\ q.flow = flow /\ q.id = req[h].id /\ q.fresh = req[h].fresh /\ q.pc = pc
          /\ q.user = entry.user /\ q.email = e
      BY <2>3 DEF Goes, Same
    <3>2. req[h].id # 0 /\ (flow \in {"reset", "accept"} => req[h].fresh # None)
          /\ (flow = "callback" => req[h].email # None)
      BY <1>1, OldLinks DEF At, FlowLinks, HasEmail
    <3>. HIDE DEF q, flow
    <3>3. FlowLinks(q)
      BY <1>2, <2>4, <2>6, <3>1, <3>2 DEF FlowLinks, HasEmail, HasUser, OnPath
    <3>. QED
      BY <3>3 DEF q
  <2>8. DataLinks(req'[h])
    BY <1>1, <1>2, <1>3, <2>3, <2>4 DEF Goes, Same, At, DataLinks
  <2>9. entry.kind # "none"
    BY <1>2, <2>4
  <2>. QED
    BY <1>1, <2>3, <2>5, <2>7, <2>8, <2>9 DEF Goes, Advances
<1>9. CASE /\ entry.kind = Opens(flow) /\ redis' = [redis EXCEPT !.vault = gone]
           /\ seen' = [seen EXCEPT !.spent = spent]
           /\ req' = [req EXCEPT ![h].pc = AfterTake(flow), ![h].data = entry, ![h].user = entry.user,
                         ![h].email = IF flow = "callback" THEN @ ELSE entry.email,
                         ![h].age = IF entry.user = None THEN 0 ELSE users[entry.user].writes]
  <2>1. AfterTake(flow) \in PCs
    BY <1>2 DEF AfterTake, PCs
  <2>2. TakePut(h, AfterTake(flow), entry, entry.user, e, age)
    <3>1. req \in [Handlers -> Handler]
      BY Typed
    <3>2. req[h].email = [req EXCEPT ![h].pc = AfterTake(flow), ![h].data = entry, ![h].user = entry.user][h].email
      BY <3>1 DEF Handler
    <3>. QED
      BY <1>9, <3>2 DEF TakePut
  <2>3. entry.kind = Opens(flow)
    BY <1>9
  <2>4. /\ Advances(h) /\ entry.kind # "none" /\ req'[h].pc = AfterTake(flow)
        /\ req'[h].data = entry /\ req'[h].user = entry.user /\ req'[h].email = e /\ req'[h].age = age
    BY <1>8, <2>1, <2>2, <2>3
  <2>5. spent \in [Ids -> Nat]
    BY <1>2, <1>4
  <2>. HIDE DEF e, age, spent, gone
  <2>6. SeenBut({"spent"}) /\ seen'.spent = spent
    BY <1>9, <2>5, SpentSeen
  <2>7. StoreFrame("take") /\ redis'.vault = gone
    BY <1>1, <1>5, <1>9, <2>6, KeysFrame
  <2>. QED
    BY <1>1, <1>2, <2>4, <2>6, <2>7 DEF e, age, spent, gone
<1>10. redis' = [redis EXCEPT !.vault = Taken(req[h].proof)] => redis' = [redis EXCEPT !.vault = gone]
  BY DEF Taken
<1>11. seen' = [seen EXCEPT !.spent[req[h].proof] = @ + 1] => seen' = [seen EXCEPT !.spent = spent]
  OBVIOUS
<1>. QED
  BY <1>6, <1>7, <1>9, <1>10, <1>11 DEF Take

-----------------------------------------------------------------------------
(* Changing a password and an address *)

LEMMA FindSelfEffect ==
  ASSUME TypeInv, NEW h \in Handlers, FindSelf(h)
  PROVE  /\ At(h, "self") /\ Advances(h) /\ StoreFrame("self")
         /\ req'[h].pc # "idle" => req'[h].pc = "lockout" /\ req'[h].account = users[req[h].user]
<1>. DEFINE a == users[req[h].user]
<1>1. At(h, "self") /\ starts' = starts /\ StoreFrame("self")
  BY StillFrame DEF FindSelf
<1>2. CASE Finish(h)
  BY <1>1, <1>2, FinishEnds, EndsAdvances DEF Ends, Idle
<1>3. CASE AccountPut(h, "lockout", a)
  <2>1. a \in User
    BY <1>1, FieldTypes, OldLinks, Typed DEF At, HasUser, FlowLinks, OnPath
  <2>. HIDE DEF a
  <2>2. Goes(h, "lockout", {"account"}) /\ req'[h].account = a
    BY <1>1, <1>3, <2>1, AccountGoes DEF PCs
  <2>3. FlowLinks(req'[h]) /\ DataLinks(req'[h])
    BY <1>1, <2>2, OldLinks DEF Goes, Same, At, FlowLinks, DataLinks, HasEmail, HasUser, OnPath
  <2>4. Follows(req'[h], req[h])
    BY <1>1, <2>2 DEF Goes, Same, At, Follows, Leads
  <2>. QED
    BY <1>1, <2>2, <2>3, <2>4 DEF Goes, Advances, a
<1>. QED
  BY <1>1, <1>2, <1>3 DEF FindSelf, AccountPut

LEMMA KeepEffect ==
  ASSUME TypeInv, NEW h \in Handlers, Keep(h)
  PROVE  At(h, "keep") /\ Advances(h) /\ StoreFrame("keep")
<1>1. At(h, "keep") /\ starts' = starts /\ StoreFrame("keep")
  BY StillFrame DEF Keep
<1>2. PICK s \in Session \cup {None} : KeptPut(h, "write", s)
  BY Typed DEF Keep, KeptPut
<1>3. Goes(h, "write", {"kept"})
  BY <1>1, <1>2, KeptGoes DEF PCs
<1>4. FlowLinks(req'[h]) /\ DataLinks(req'[h])
  BY <1>1, <1>3, OldLinks DEF Goes, Same, At, FlowLinks, DataLinks, HasEmail, HasUser, OnPath
<1>5. Follows(req'[h], req[h])
  BY <1>1, <1>3 DEF Goes, Same, At, Follows, Leads
<1>. QED
  BY <1>1, <1>3, <1>4, <1>5 DEF Goes, Advances

LEMMA WriteEffect ==
  ASSUME TypeInv, NEW h \in Handlers, Write(h)
  PROVE  /\ At(h, "write") /\ Advances(h) /\ StoreFrame("write") /\ req'[h].pc = "sweep"
         /\ req[h].user \in Users /\ [word |-> req[h].fresh, salt |-> req[h].id] \in Hash
         /\ users' = Stored(req[h].user, [word |-> req[h].fresh, salt |-> req[h].id])
         /\ req'[h].age = users'[req[h].user].writes
<1>. DEFINE u == req[h].user
            hash == [word |-> req[h].fresh, salt |-> req[h].id]
            n == users'[u].writes
<1>1. At(h, "write") /\ starts' = starts /\ UNCHANGED <<redis, grants, jobs, seen>>
      /\ users' = Stored(u, hash)
  BY DEF Write
<1>2. u \in Users /\ req[h].fresh # None
  BY <1>1, FieldTypes, OldLinks DEF At, HasUser, FlowLinks, OnPath
<1>3. hash \in Hash
  BY <1>1, <1>2, NewHash DEF At
<1>4. AgePut(h, "sweep", n)
  BY DEF Write, AgePut
<1>. HIDE DEF hash, u
<1>5. users' \in [Users -> User]
  BY <1>1, <1>2, <1>3, StoredFields
<1>6. n \in Nat
  BY <1>2, <1>5 DEF User
<1>7. StoreFrame("write")
  BY <1>1, <1>5, Typed DEF StoreFrame
<1>. HIDE DEF n
<1>8. Goes(h, "sweep", {"age"}) /\ req'[h].age = n
  BY <1>1, <1>4, <1>6, AgeGoes DEF PCs
<1>9. FlowLinks(req'[h]) /\ DataLinks(req'[h])
  BY <1>1, <1>8, OldLinks DEF Goes, Same, At, FlowLinks, DataLinks, HasEmail, HasUser, OnPath
<1>10. Follows(req'[h], req[h])
  BY <1>1, <1>8 DEF Goes, Same, At, Follows, Leads
<1>. QED
  BY <1>1, <1>2, <1>3, <1>7, <1>8, <1>9, <1>10 DEF Goes, Advances, n, hash, u

LEMMA SweepEffect ==
  ASSUME TypeInv, NEW h \in Handlers, Sweep(h)
  PROVE  /\ At(h, "sweep") /\ Advances(h) /\ StoreFrame("sweep") /\ req'[h].pc = "bump"
         /\ grants'.access = grants.access
         /\ grants'.sessions = {s \in grants.sessions : s.user # req[h].user \/ s = req[h].kept}
<1>. DEFINE S == {s \in grants.sessions : s.user # req[h].user \/ s = req[h].kept}
<1>1. At(h, "sweep") /\ starts' = starts /\ UNCHANGED <<users, redis, jobs, seen>>
      /\ grants' = [grants EXCEPT !.sessions = S]
  BY DEF Sweep
<1>2. S \subseteq Session
  BY Typed
<1>. HIDE DEF S
<1>3. /\ grants' \in [sessions : SUBSET Session, access : SUBSET Access]
      /\ grants'.access = grants.access /\ grants'.sessions = S
  BY <1>1, <1>2, Typed
<1>4. StoreFrame("sweep")
  BY <1>1, <1>3, Typed DEF StoreFrame
<1>5. Goes(h, "bump", {})
  BY <1>1, GotoGoes DEF Sweep, PCs
<1>6. FlowLinks(req'[h]) /\ DataLinks(req'[h])
  BY <1>1, <1>5, OldLinks DEF Goes, Same, At, FlowLinks, DataLinks, HasEmail, HasUser, OnPath
<1>7. Advances(h) /\ req'[h].pc = "bump"
  BY <1>1, <1>5, <1>6, GoesAdvances DEF Leads, At
<1>. QED
  BY <1>1, <1>3, <1>4, <1>7 DEF S

LEMMA BumpEffect ==
  ASSUME TypeInv, NEW h \in Handlers, Bump(h)
  PROVE  /\ At(h, "bump") /\ Advances(h) /\ StoreFrame("bump") /\ req'[h].pc = "notify"
         /\ req[h].user \in Users
         /\ redis'.epoch = [redis.epoch EXCEPT ![req[h].user] = redis.epoch[req[h].user] + 1]
<1>. DEFINE u == req[h].user
            f == [redis.epoch EXCEPT ![u] = redis.epoch[u] + 1]
<1>1. At(h, "bump") /\ starts' = starts /\ UNCHANGED <<users, grants, jobs, seen>>
      /\ redis' = [redis EXCEPT !.epoch = f]
  BY DEF Bump, Bumped
<1>2. u \in Users
  BY <1>1, FieldTypes DEF At, HasUser
<1>3. f \in [Users -> Nat]
  BY <1>2, Typed, RedisFields
<1>. HIDE DEF f
<1>4. KeysBut({"epoch"}) /\ redis'.epoch = f
  BY <1>1, <1>3, EpochKeys
<1>5. StoreFrame("bump")
  BY <1>1, <1>4, QuietFields, KeysFrame
<1>6. Goes(h, "notify", {})
  BY <1>1, GotoGoes DEF Bump, PCs
<1>7. FlowLinks(req'[h]) /\ DataLinks(req'[h])
  BY <1>1, <1>6, OldLinks DEF Goes, Same, At, FlowLinks, DataLinks, HasEmail, HasUser, OnPath
<1>8. Advances(h) /\ req'[h].pc = "notify"
  BY <1>1, <1>6, <1>7, GoesAdvances DEF Leads, At
<1>. QED
  BY <1>1, <1>2, <1>4, <1>5, <1>8 DEF f

LEMMA FreeEffect ==
  ASSUME TypeInv, NEW h \in Handlers, Free(h)
  PROVE  /\ At(h, "free") /\ Advances(h) /\ StoreFrame("free")
         /\ req'[h].pc = "move" => req[h].flow = "confirmMove" /\ req'[h].data = req[h].data
         /\ req'[h].pc = "mint" =>
              /\ req[h].flow = "requestMove" /\ req'[h].data.kind = "move"
              /\ req'[h].data.user = req[h].user /\ req'[h].data.bound = req[h].account.hash
              /\ req'[h].data.age = req[h].account.writes
         /\ req'[h].pc \in {"idle", "move", "mint"}
<1>. DEFINE a == req[h].account
            d == [kind |-> "move", user |-> req[h].user, email |-> req[h].email, rank |-> 0,
                  bound |-> a.hash, age |-> a.writes]
<1>1. At(h, "free") /\ starts' = starts /\ StoreFrame("free")
  BY StillFrame DEF Free
<1>2. /\ req[h].flow \in {"confirmMove", "requestMove"}
      /\ req[h].user \in Users /\ req[h].email \in Emails /\ a \in User
  BY <1>1, FieldTypes, OldLinks, Typed, HandlerFields DEF At, HasUser, HasEmail, FlowLinks, OnPath
<1>3. CASE Finish(h)
  BY <1>1, <1>3, FinishEnds, EndsAdvances DEF Ends, Idle
<1>4. CASE req[h].flow = "confirmMove" /\ Goto(h, "move")
  <2>1. Goes(h, "move", {})
    BY <1>1, <1>4, GotoGoes DEF PCs
  <2>2. FlowLinks(req'[h]) /\ DataLinks(req'[h])
    BY <1>1, <1>4, <2>1, OldLinks DEF Goes, Same, At, FlowLinks, DataLinks, HasEmail, HasUser, OnPath
  <2>3. req'[h].data = req[h].data
    BY <2>1 DEF Goes, Same
  <2>. QED
    BY <1>1, <1>4, <2>1, <2>2, <2>3, GoesAdvances DEF Leads, At
<1>5. CASE req[h].flow = "requestMove" /\ DataPut(h, "mint", d)
  <2>1. /\ d \in Entry /\ d.kind = "move" /\ d.user = req[h].user /\ d.bound = a.hash /\ d.age = a.writes
        /\ d.user # None /\ d.email # None
    BY <1>2, AccountAssumption DEF Entry, User, Users
  <2>. HIDE DEF d
  <2>2. Goes(h, "mint", {"data"}) /\ req'[h].data = d
    BY <1>1, <1>5, <2>1, DataGoes DEF PCs
  <2>3. FlowLinks(req'[h]) /\ DataLinks(req'[h])
    BY <1>1, <1>5, <2>1, <2>2, OldLinks
       DEF Goes, Same, At, FlowLinks, DataLinks, EntryLinks, HasEmail, HasUser, OnPath
  <2>4. Follows(req'[h], req[h])
    BY <1>1, <2>2 DEF Goes, Same, At, Follows, Leads
  <2>. QED
    BY <1>1, <1>5, <2>1, <2>2, <2>3, <2>4 DEF Goes, Advances
<1>. QED
  BY <1>1, <1>2, <1>3, <1>4, <1>5 DEF Free, DataPut

(* Nobody stops existing, and addresses stay unique. *)
Standings ==
  /\ \A u \in Users : Exists(u) => Exists(u)'
  /\ \A u \in Users : IF Exists(u)' THEN users'[u].email # None ELSE users'[u] = NoUser
  /\ \A u, v \in Users : u # v /\ Exists(u)' => users'[u].email # users'[v].email

(* What a step changes of an account. *)
UserFrame(pc) ==
  /\ Standings
  /\ \A u \in Users :
       /\ pc \notin {"upgrade", "write", "create"} => users'[u].hash = users[u].hash
       /\ pc \notin {"upgrade", "write"} => users'[u].writes = users[u].writes
       /\ users[u].writes <= users'[u].writes
       /\ pc \notin {"create", "flag"} => users'[u].verified = users[u].verified
       /\ pc # "create" => users'[u].state = users[u].state

LEMMA StillUsers ==
  ASSUME TypeInv, users' = users, NEW pc
  PROVE  UserFrame(pc)
<1>1. \A u \in Users : users[u].writes \in Nat
  BY Typed DEF User
<1>. QED
  BY <1>1 DEF TypeInv, TypeOK, StoreTypeOK, Standing, UserFrame, Standings, Exists

(* One account changes, and keeps its address. *)
LEMMA OneUser ==
  ASSUME TypeInv, NEW u \in Users, NEW p \in User, Exists(u), users' = [users EXCEPT ![u] = p],
         p.state # "none", p.email = users[u].email
  PROVE  Standings /\ users' \in [Users -> User] /\ users'[u] = p /\ \A v \in Users : v # u => users'[v] = users[v]
<1>1. users \in [Users -> User]
  BY Typed
<1>2. users' \in [Users -> User] /\ users'[u] = p /\ \A v \in Users : v # u => users'[v] = users[v]
  BY <1>1
<1>3. \A v \in Users : users'[v].email = users[v].email /\ (Exists(v)' <=> Exists(v))
  BY <1>2 DEF Exists
<1>. QED
  BY <1>2, <1>3 DEF TypeInv, TypeOK, StoreTypeOK, Standing, Standings, Exists

LEMMA UpgradeUsers ==
  ASSUME TypeInv, NEW u \in Users, NEW hash \in Hash, Exists(u), users' = Stored(u, hash), NEW pc \in {"upgrade", "write"}
  PROVE  UserFrame(pc)
<1>1. users \in [Users -> User] /\ users[u] \in User
  BY Typed
<1>2. users[u].writes + 1 \in Nat
  BY <1>1 DEF User
<1>. DEFINE p == [users[u] EXCEPT !.hash = hash, !.writes = users[u].writes + 1]
<1>3. /\ p \in User /\ p.writes = users[u].writes + 1 /\ p.state = users[u].state
      /\ p.email = users[u].email /\ p.verified = users[u].verified
  BY <1>1, <1>2 DEF User
<1>4. users' = [users EXCEPT ![u] = p]
  BY DEF Stored
<1>. HIDE DEF p
<1>5. Standings /\ users'[u] = p /\ \A v \in Users : v # u => users'[v] = users[v]
  BY <1>3, <1>4, OneUser DEF Exists
<1>6. \A v \in Users : users[v].writes \in Nat
  BY Typed DEF User
<1>. QED
  BY <1>3, <1>5, <1>6 DEF UserFrame

LEMMA FlagEffect ==
  ASSUME TypeInv, NEW h \in Handlers, Flag(h)
  PROVE  /\ At(h, "flag") /\ Advances(h) /\ StoreFrame("flag") /\ UserFrame("flag")
         /\ req'[h].pc = "dropVerified"
         /\ \A v \in Users : v # req[h].user => users'[v].verified = users[v].verified
<1>. DEFINE u == req[h].user
            p == [users[u] EXCEPT !.verified = TRUE]
<1>1. At(h, "flag") /\ starts' = starts /\ UNCHANGED <<redis, grants, jobs, seen>>
      /\ users' = [users EXCEPT ![u] = p]
  BY DEF Flag
<1>2. u \in Users /\ Exists(u)
  BY <1>1, FieldTypes DEF At, HasUser, TypeInv, Standing
<1>3. users[u] \in User /\ users \in [Users -> User]
  BY <1>2, Typed
<1>4. /\ p \in User /\ p.writes = users[u].writes /\ p.state = users[u].state /\ p.hash = users[u].hash
      /\ p.email = users[u].email
  BY <1>3 DEF User
<1>. HIDE DEF p
<1>5. /\ Standings /\ users' \in [Users -> User] /\ users'[u] = p
      /\ \A v \in Users : v # u => users'[v] = users[v]
  BY <1>1, <1>2, <1>4, OneUser DEF Exists
<1>6. \A v \in Users : users[v].writes \in Nat
  BY Typed DEF User
<1>7. UserFrame("flag")
  BY <1>4, <1>5, <1>6 DEF UserFrame
<1>8. StoreFrame("flag")
  BY <1>1, <1>5, Typed DEF StoreFrame
<1>9. Goes(h, "dropVerified", {})
  BY <1>1, GotoGoes DEF Flag, PCs
<1>10. FlowLinks(req'[h]) /\ DataLinks(req'[h])
  BY <1>1, <1>9, OldLinks DEF Goes, Same, At, FlowLinks, DataLinks, HasEmail, HasUser, OnPath
<1>11. Advances(h) /\ req'[h].pc = "dropVerified"
  BY <1>1, <1>9, <1>10, GoesAdvances DEF Leads, At
<1>. QED
  BY <1>1, <1>5, <1>7, <1>8, <1>11

LEMMA LinkEffect ==
  ASSUME TypeInv, NEW h \in Handlers, Link(h)
  PROVE  At(h, "link") /\ Advances(h) /\ StoreFrame("link") /\ UserFrame("link")
<1>. DEFINE u == req[h].user
            p == [users[u] EXCEPT !.oauth = req[h].email]
<1>1. At(h, "link") /\ starts' = starts /\ UNCHANGED <<redis, grants, jobs, seen>>
      /\ users' = [users EXCEPT ![u] = p]
  BY DEF Link
<1>2. u \in Users /\ Exists(u) /\ req[h].email \in Emails \cup {None}
  BY <1>1, FieldTypes, Typed, HandlerFields DEF At, HasUser, TypeInv, Standing
<1>3. users[u] \in User /\ users \in [Users -> User]
  BY <1>2, Typed
<1>4. /\ p \in User /\ p.writes = users[u].writes /\ p.state = users[u].state /\ p.hash = users[u].hash
      /\ p.email = users[u].email /\ p.verified = users[u].verified
  BY <1>2, <1>3 DEF User
<1>. HIDE DEF p
<1>5. /\ Standings /\ users' \in [Users -> User] /\ users'[u] = p
      /\ \A v \in Users : v # u => users'[v] = users[v]
  BY <1>1, <1>2, <1>4, OneUser DEF Exists
<1>6. \A v \in Users : users[v].writes \in Nat
  BY Typed DEF User
<1>7. UserFrame("link")
  BY <1>4, <1>5, <1>6 DEF UserFrame
<1>8. StoreFrame("link")
  BY <1>1, <1>5, Typed DEF StoreFrame
<1>9. Goes(h, "admit", {})
  BY <1>1, GotoGoes DEF Link, PCs
<1>10. FlowLinks(req'[h]) /\ DataLinks(req'[h])
  BY <1>1, <1>9, OldLinks DEF Goes, Same, At, FlowLinks, DataLinks, HasEmail, HasUser, OnPath
<1>. QED
  BY <1>1, <1>7, <1>8, <1>9, <1>10, GoesAdvances DEF Leads, At

LEMMA MoveEffect ==
  ASSUME TypeInv, NEW h \in Handlers, Move(h)
  PROVE  At(h, "move") /\ Advances(h) /\ StoreFrame("move") /\ UserFrame("move")
<1>. DEFINE u == req[h].user
            e == req[h].email
            p == [users[u] EXCEPT !.email = e]
<1>1. At(h, "move") /\ starts' = starts /\ UNCHANGED <<redis, grants, jobs, seen>> /\ Ends(h)
  BY FinishEnds DEF Move
<1>2. CASE users' = users
  BY <1>1, <1>2, StillFrame, StillUsers, EndsAdvances
<1>3. CASE ~Conflict(e, u) /\ users' = [users EXCEPT ![u] = p]
  <2>1. u \in Users /\ Exists(u) /\ e \in Emails /\ e # None
    BY <1>1, FieldTypes, OldLinks, AccountAssumption
       DEF At, HasUser, HasEmail, FlowLinks, OnPath, TypeInv, Standing
  <2>2. users[u] \in User /\ users \in [Users -> User]
    BY <2>1, Typed
  <2>3. /\ p \in User /\ p.writes = users[u].writes /\ p.state = users[u].state /\ p.hash = users[u].hash
        /\ p.email = e /\ p.verified = users[u].verified
    BY <2>1, <2>2 DEF User
  <2>4. \A v \in Users : v # u /\ Exists(v) => users[v].email # e
    BY <1>3 DEF Conflict, Holder, Exists
  <2>5. \A v \in Users : v # u /\ ~Exists(v) => users[v].email # e
    BY <2>1 DEF TypeInv, Standing, NoUser
  <2>. HIDE DEF p, e, u
  <2>6. users' \in [Users -> User] /\ users'[u] = p /\ \A v \in Users : v # u => users'[v] = users[v]
    BY <1>3, <2>1, <2>2, <2>3
  <2>7. Standings
    <3>1. \A v \in Users : Exists(v)' <=> Exists(v)
      BY <2>3, <2>6 DEF Exists
    <3>2. \A v \in Users : IF Exists(v)' THEN users'[v].email # None ELSE users'[v] = NoUser
      BY <2>1, <2>3, <2>6, <3>1 DEF TypeInv, Standing
    <3>3. \A v, w \in Users : v # w /\ Exists(v)' => users'[v].email # users'[w].email
      BY <2>3, <2>4, <2>5, <2>6, <3>1 DEF TypeInv, TypeOK, StoreTypeOK, Exists
    <3>. QED
      BY <3>1, <3>2, <3>3 DEF Standings
  <2>8. \A v \in Users : users[v].writes \in Nat
    BY Typed DEF User
  <2>9. UserFrame("move")
    BY <2>3, <2>6, <2>7, <2>8 DEF UserFrame
  <2>10. StoreFrame("move")
    BY <1>1, <2>6, Typed DEF StoreFrame
  <2>. QED
    BY <1>1, <2>9, <2>10, EndsAdvances
<1>. QED
  BY <1>2, <1>3 DEF Move

-----------------------------------------------------------------------------
(* The cached facts *)

LEMMA DropVerifiedEffect ==
  ASSUME TypeInv, NEW h \in Handlers, DropVerified(h)
  PROVE  /\ At(h, "dropVerified") /\ Advances(h) /\ StoreFrame("dropVerified") /\ users' = users
         /\ req[h].user \in Users /\ req'[h].pc = "dropStatus"
         /\ redis'.verified = [redis.verified EXCEPT ![req[h].user] = NoFact]
<1>. DEFINE u == req[h].user
            f == [redis.verified EXCEPT ![u] = NoFact]
<1>1. At(h, "dropVerified") /\ starts' = starts /\ UNCHANGED <<users, grants, jobs, seen>>
      /\ redis' = [redis EXCEPT !.verified = f]
  BY DEF DropVerified
<1>2. u \in Users
  BY <1>1, FieldTypes DEF At, HasUser
<1>3. NoFact \in Fact(BOOLEAN)
  BY DEF NoFact, Fact
<1>4. f \in [Users -> Fact(BOOLEAN)]
  BY <1>2, <1>3, Typed, RedisFields
<1>. HIDE DEF f
<1>5. KeysBut({"verified"}) /\ redis'.verified = f
  BY <1>1, <1>4, VerifiedKeys
<1>6. StoreFrame("dropVerified")
  BY <1>1, <1>5, QuietFields, KeysFrame
<1>7. Goes(h, "dropStatus", {})
  BY <1>1, GotoGoes DEF DropVerified, PCs
<1>8. FlowLinks(req'[h]) /\ DataLinks(req'[h])
  BY <1>1, <1>7, OldLinks DEF Goes, Same, At, FlowLinks, DataLinks, HasEmail, HasUser, OnPath
<1>9. Advances(h) /\ req'[h].pc = "dropStatus"
  BY <1>1, <1>7, <1>8, GoesAdvances DEF Leads, At
<1>. QED
  BY <1>1, <1>2, <1>5, <1>6, <1>9 DEF f

LEMMA DropStatusEffect ==
  ASSUME TypeInv, NEW h \in Handlers, DropStatus(h)
  PROVE  /\ At(h, "dropStatus") /\ Advances(h) /\ StoreFrame("dropStatus") /\ users' = users /\ Ends(h)
         /\ req[h].user \in Users
         /\ redis'.status = [redis.status EXCEPT ![req[h].user] = NoFact]
<1>. DEFINE u == req[h].user
            f == [redis.status EXCEPT ![u] = NoFact]
<1>1. At(h, "dropStatus") /\ Ends(h) /\ UNCHANGED <<users, grants, jobs, seen>>
      /\ redis' = [redis EXCEPT !.status = f]
  BY FinishEnds DEF DropStatus, WithoutStatus
<1>2. u \in Users
  BY <1>1, FieldTypes DEF At, HasUser
<1>3. NoFact \in Fact({"active", "blocked"})
  BY DEF NoFact, Fact
<1>4. f \in [Users -> Fact({"active", "blocked"})]
  BY <1>2, <1>3, Typed, RedisFields
<1>. HIDE DEF f
<1>5. KeysBut({"status"}) /\ redis'.status = f
  BY <1>1, <1>4, StatusKeys
<1>6. StoreFrame("dropStatus")
  BY <1>1, <1>5, QuietFields, KeysFrame
<1>. QED
  BY <1>1, <1>2, <1>5, <1>6, EndsAdvances DEF f

LEMMA JudgedAdvances ==
  ASSUME TypeInv, NEW h \in Handlers, NEW pc \in {"getStatus", "getVerified", "setStatus", "setVerified"},
         At(h, pc), NEW a, req' = Judged(h, a), starts' = starts
  PROVE  Advances(h) /\ req'[h].pc \in {"idle", "lookUp"}
<1>1. CASE Finish(h)
  BY <1>1, FinishEnds, EndsAdvances DEF Ends, Idle
<1>2. CASE req[h].flow = "ticket" /\ Goto(h, "lookUp")
  <2>1. Goes(h, "lookUp", {})
    BY <1>2, GotoGoes DEF PCs
  <2>2. FlowLinks(req'[h]) /\ DataLinks(req'[h])
    BY <1>2, <2>1, OldLinks DEF Goes, Same, At, FlowLinks, DataLinks, HasEmail, HasUser, OnPath
  <2>. QED
    BY <1>2, <2>1, <2>2, GoesAdvances DEF Leads, At
<1>3. CASE req[h].flow = "ticket" /\ MaySignIn(a)
  BY <1>2, <1>3 DEF Judged, Goto
<1>4. CASE ~(req[h].flow = "ticket" /\ MaySignIn(a))
  BY <1>1, <1>4 DEF Judged, Finish
<1>. QED
  BY <1>3, <1>4

LEMMA GetStatusEffect ==
  ASSUME TypeInv, NEW h \in Handlers, GetStatus(h)
  PROVE  At(h, "getStatus") /\ Advances(h) /\ StoreFrame("getStatus")
<1>. DEFINE val == redis.status[req[h].user].val
            a == IF val = None THEN NoUser ELSE [NoUser EXCEPT !.state = val]
<1>1. At(h, "getStatus") /\ starts' = starts /\ StoreFrame("getStatus")
  BY StillFrame DEF GetStatus
<1>2. CASE AccountPut(h, "getVerified", a)
  <2>1. val \in {"active", "blocked", None}
    <3>1. req[h].user \in Users
      BY <1>1, FieldTypes, OldLinks DEF At, HasUser, FlowLinks, OnPath
    <3>2. redis.status[req[h].user] \in Fact({"active", "blocked"})
      BY <3>1, Typed, RedisFields
    <3>. QED
      BY <3>2 DEF Fact
  <2>. HIDE DEF val
  <2>2. a \in User
    <3>1. CASE val = None
      BY <3>1, Nulls
    <3>2. CASE val # None
      <4>1. [NoUser EXCEPT !.state = val] \in User
        BY <2>1, <3>2, Nulls DEF User
      <4>. QED
        BY <3>2, <4>1
    <3>. QED
      BY <3>1, <3>2
  <2>. HIDE DEF a
  <2>3. Goes(h, "getVerified", {"account"})
    BY <1>1, <1>2, <2>2, AccountGoes DEF PCs
  <2>4. FlowLinks(req'[h]) /\ DataLinks(req'[h])
    BY <1>1, <2>3, OldLinks DEF Goes, Same, At, FlowLinks, DataLinks, HasEmail, HasUser, OnPath
  <2>5. Follows(req'[h], req[h])
    BY <1>1, <2>3 DEF Goes, Same, At, Follows, Leads
  <2>. QED
    BY <1>1, <2>3, <2>4, <2>5 DEF Goes, Advances
<1>3. CASE Goto(h, "resolve")
  <2>1. Goes(h, "resolve", {})
    BY <1>1, <1>3, GotoGoes DEF PCs
  <2>2. FlowLinks(req'[h]) /\ DataLinks(req'[h])
    BY <1>1, <2>1, OldLinks DEF Goes, Same, At, FlowLinks, DataLinks, HasEmail, HasUser, OnPath
  <2>. QED
    BY <1>1, <2>1, <2>2, GoesAdvances DEF Leads, At
<1>4. CASE req' = Judged(h, a)
  <2>. HIDE DEF a
  <2>. QED
    BY <1>1, <1>4, JudgedAdvances
<1>. QED
  BY <1>1, <1>2, <1>3, <1>4 DEF GetStatus, AccountPut

LEMMA GetVerifiedEffect ==
  ASSUME TypeInv, NEW h \in Handlers, GetVerified(h)
  PROVE  At(h, "getVerified") /\ Advances(h) /\ StoreFrame("getVerified")
<1>. DEFINE a == [req[h].account EXCEPT !.verified = redis.verified[req[h].user].val]
<1>1. At(h, "getVerified") /\ starts' = starts /\ StoreFrame("getVerified")
  BY StillFrame DEF GetVerified
<1>2. CASE Goto(h, "resolve")
  <2>1. Goes(h, "resolve", {})
    BY <1>1, <1>2, GotoGoes DEF PCs
  <2>2. FlowLinks(req'[h]) /\ DataLinks(req'[h])
    BY <1>1, <2>1, OldLinks DEF Goes, Same, At, FlowLinks, DataLinks, HasEmail, HasUser, OnPath
  <2>. QED
    BY <1>1, <2>1, <2>2, GoesAdvances DEF Leads, At
<1>3. CASE req' = Judged(h, a)
  <2>. HIDE DEF a
  <2>. QED
    BY <1>1, <1>3, JudgedAdvances
<1>. QED
  BY <1>1, <1>2, <1>3 DEF GetVerified

LEMMA ResolveEffect ==
  ASSUME TypeInv, NEW h \in Handlers, Resolve(h)
  PROVE  At(h, "resolve") /\ Advances(h) /\ StoreFrame("resolve")
<1>. DEFINE a == users[req[h].user]
<1>1. At(h, "resolve") /\ starts' = starts /\ StoreFrame("resolve") /\ AccountPut(h, "setStatus", a)
  BY StillFrame DEF Resolve, AccountPut
<1>2. req[h].user \in Users /\ Exists(req[h].user)
  BY <1>1, FieldTypes, OldLinks DEF At, HasUser, FlowLinks, OnPath, TypeInv, Standing
<1>3. a \in User /\ a.state # "none"
  BY <1>2, Typed DEF Exists
<1>. HIDE DEF a
<1>4. Goes(h, "setStatus", {"account"}) /\ req'[h].account = a
  BY <1>1, <1>3, AccountGoes DEF PCs
<1>5. FlowLinks(req'[h]) /\ DataLinks(req'[h])
  BY <1>1, <1>3, <1>4, OldLinks DEF Goes, Same, At, FlowLinks, DataLinks, HasEmail, HasUser, OnPath
<1>6. Follows(req'[h], req[h])
  BY <1>1, <1>4 DEF Goes, Same, At, Follows, Leads
<1>. QED
  BY <1>1, <1>4, <1>5, <1>6 DEF Goes, Advances

LEMMA SetStatusEffect ==
  ASSUME TypeInv, NEW h \in Handlers, SetStatus(h)
  PROVE  /\ At(h, "setStatus") /\ Advances(h) /\ StoreFrame("setStatus") /\ users' = users
         /\ req[h].user \in Users /\ Exists(req[h].user) /\ req'[h].pc \in {"idle", "setVerified", "lookUp"}
         /\ \E val : redis'.status = [redis.status EXCEPT ![req[h].user] =
                                        [val |-> val, current |-> val = users[req[h].user].state]]
<1>. DEFINE u == req[h].user
            val == req[h].account.state
            f == [redis.status EXCEPT ![u] = [val |-> val, current |-> val = users[u].state]]
<1>1. At(h, "setStatus") /\ starts' = starts /\ UNCHANGED <<users, grants, jobs, seen>>
      /\ redis' = [redis EXCEPT !.status = f]
  BY DEF SetStatus
<1>2. u \in Users /\ Exists(u)
  BY <1>1, FieldTypes, OldLinks DEF At, HasUser, FlowLinks, OnPath, TypeInv, Standing
<1>3. val \in {"active", "blocked"}
  <2>1. req[h].account \in User /\ val # "none"
    BY <1>1, Typed, HandlerFields, OldLinks DEF At, FlowLinks
  <2>. QED
    BY <2>1 DEF User
<1>. HIDE DEF val
<1>4. f \in [Users -> Fact({"active", "blocked"})]
  BY <1>2, <1>3, Typed, RedisFields DEF Fact
<1>. HIDE DEF f
<1>5. KeysBut({"status"}) /\ redis'.status = f
  BY <1>1, <1>4, StatusKeys
<1>6. StoreFrame("setStatus")
  BY <1>1, <1>5, QuietFields, KeysFrame
<1>7. Advances(h) /\ req'[h].pc \in {"idle", "setVerified", "lookUp"}
  <2>1. CASE Goto(h, "setVerified")
    <3>1. Goes(h, "setVerified", {})
      BY <1>1, <2>1, GotoGoes DEF PCs
    <3>2. FlowLinks(req'[h]) /\ DataLinks(req'[h])
      BY <1>1, <3>1, OldLinks DEF Goes, Same, At, FlowLinks, DataLinks, HasEmail, HasUser, OnPath
    <3>. QED
      BY <1>1, <3>1, <3>2, GoesAdvances DEF Leads, At
  <2>2. CASE req' = Judged(h, req[h].account)
    BY <1>1, <2>2, JudgedAdvances
  <2>. QED
    BY <2>1, <2>2 DEF SetStatus
<1>. QED
  BY <1>1, <1>2, <1>5, <1>6, <1>7 DEF f

LEMMA SetVerifiedEffect ==
  ASSUME TypeInv, NEW h \in Handlers, SetVerified(h)
  PROVE  /\ At(h, "setVerified") /\ Advances(h) /\ StoreFrame("setVerified") /\ users' = users
         /\ req[h].user \in Users /\ Exists(req[h].user) /\ req'[h].pc \in {"idle", "lookUp"}
         /\ \E val : redis'.verified = [redis.verified EXCEPT ![req[h].user] =
                                          [val |-> val, current |-> val = users[req[h].user].verified]]
<1>. DEFINE u == req[h].user
            val == req[h].account.verified
            f == [redis.verified EXCEPT ![u] = [val |-> val, current |-> val = users[u].verified]]
<1>1. At(h, "setVerified") /\ starts' = starts /\ UNCHANGED <<users, grants, jobs, seen>>
      /\ redis' = [redis EXCEPT !.verified = f] /\ req' = Judged(h, req[h].account)
  BY DEF SetVerified
<1>2. u \in Users /\ Exists(u)
  BY <1>1, FieldTypes, OldLinks DEF At, HasUser, FlowLinks, OnPath, TypeInv, Standing
<1>3. val \in BOOLEAN
  BY Typed, HandlerFields DEF User
<1>. HIDE DEF val
<1>4. [val |-> val, current |-> val = users[u].verified] \in Fact(BOOLEAN)
  BY <1>3 DEF Fact
<1>5. f \in [Users -> Fact(BOOLEAN)]
  BY <1>2, <1>4, Typed, RedisFields
<1>. HIDE DEF f
<1>6. KeysBut({"verified"}) /\ redis'.verified = f
  BY <1>1, <1>5, VerifiedKeys
<1>7. StoreFrame("setVerified")
  BY <1>1, <1>6, QuietFields, KeysFrame
<1>8. Advances(h) /\ req'[h].pc \in {"idle", "lookUp"}
  BY <1>1, JudgedAdvances
<1>. QED
  BY <1>1, <1>2, <1>6, <1>7, <1>8 DEF f

-----------------------------------------------------------------------------
(* Invitations, and accounts created *)

LEMMA InviterEffect ==
  ASSUME TypeInv, NEW h \in Handlers, Inviter(h)
  PROVE  At(h, "inviter") /\ Advances(h) /\ StoreFrame("inviter")
<1>. DEFINE a == users[req[h].user]
<1>1. At(h, "inviter") /\ starts' = starts /\ StoreFrame("inviter")
  BY StillFrame DEF Inviter
<1>2. CASE AccountPut(h, "index", a)
  <2>1. a \in User
    BY <1>1, FieldTypes, OldLinks, Typed DEF At, HasUser, FlowLinks, OnPath
  <2>. HIDE DEF a
  <2>2. Goes(h, "index", {"account"})
    BY <1>1, <1>2, <2>1, AccountGoes DEF PCs
  <2>3. FlowLinks(req'[h]) /\ DataLinks(req'[h])
    BY <1>1, <2>2, OldLinks DEF Goes, Same, At, FlowLinks, DataLinks, HasEmail, HasUser, OnPath
  <2>4. Follows(req'[h], req[h])
    BY <1>1, <2>2 DEF Goes, Same, At, Follows, Leads
  <2>. QED
    BY <1>1, <2>2, <2>3, <2>4 DEF Goes, Advances
<1>. QED
  BY <1>1, <1>2, FinishEnds, EndsAdvances DEF Inviter, AccountPut

LEMMA IndexEffect ==
  ASSUME TypeInv, NEW h \in Handlers, Index(h)
  PROVE  /\ At(h, "index") /\ Advances(h) /\ StoreFrame("index") /\ req[h].email \in Emails
         /\ \/ Ends(h)
            \/ req'[h].pc = "pending" /\ req'[h].approved = redis.index[req[h].email] /\ req'[h].approved # 0
            \/ req'[h].pc = "claim" /\ req'[h].approved = 0
<1>. DEFINE n == redis.index[req[h].email]
<1>1. At(h, "index") /\ starts' = starts /\ StoreFrame("index")
  BY StillFrame DEF Index
<1>2. req[h].email \in Emails /\ n \in {0} \cup Ids
  BY <1>1, FieldTypes, OldLinks, Typed, RedisFields DEF At, HasEmail, FlowLinks, OnPath
<1>3. CASE Finish(h)
  BY <1>1, <1>2, <1>3, FinishEnds, EndsAdvances
<1>4. CASE n # 0 /\ ApprovedPut(h, "pending", n)
  <2>. HIDE DEF n
  <2>1. Goes(h, "pending", {"approved"}) /\ req'[h].approved = n
    BY <1>1, <1>2, <1>4, ApprovedGoes DEF PCs
  <2>2. FlowLinks(req'[h]) /\ DataLinks(req'[h])
    BY <1>1, <1>4, <2>1, OldLinks DEF Goes, Same, At, FlowLinks, DataLinks, HasEmail, HasUser, OnPath
  <2>3. Follows(req'[h], req[h])
    BY <1>1, <2>1 DEF Goes, Same, At, Follows, Leads
  <2>. QED
    BY <1>1, <1>2, <1>4, <2>1, <2>2, <2>3 DEF Goes, Advances, n
<1>5. CASE req[h].flow # "revoke" /\ ApprovedPut(h, "claim", 0)
  <2>1. Goes(h, "claim", {"approved"}) /\ req'[h].approved = 0
    BY <1>1, <1>5, ApprovedGoes DEF PCs
  <2>2. FlowLinks(req'[h]) /\ DataLinks(req'[h])
    BY <1>1, <1>5, <2>1, OldLinks DEF Goes, Same, At, FlowLinks, DataLinks, HasEmail, HasUser, OnPath
  <2>3. Follows(req'[h], req[h])
    BY <1>1, <2>1 DEF Goes, Same, At, Follows, Leads
  <2>. QED
    BY <1>1, <1>2, <2>1, <2>2, <2>3 DEF Goes, Advances
<1>. QED
  BY <1>1, <1>2, <1>3, <1>4, <1>5 DEF Index, ApprovedPut

LEMMA ClaimEffect ==
  ASSUME TypeInv, NEW h \in Handlers, Claim(h)
  PROVE  /\ At(h, "claim") /\ Advances(h) /\ StoreFrame("claim") /\ req[h].email \in Emails /\ req[h].id \in Ids
         /\ \/ /\ redis.index[req[h].email] = req[h].approved
               /\ redis'.index = [redis.index EXCEPT ![req[h].email] = req[h].id]
               /\ req'[h].pc = IF req[h].approved = 0 THEN "mint" ELSE "remove"
            \/ redis' = redis /\ req'[h].pc \in {"idle", "index"}
<1>. DEFINE e == req[h].email
            f == [redis.index EXCEPT ![e] = req[h].id]
<1>1. At(h, "claim") /\ starts' = starts /\ UNCHANGED <<users, grants, jobs, seen>>
  BY DEF Claim
<1>2. e \in Emails /\ req[h].id \in Ids /\ req[h].flow = "invite"
  BY <1>1, FieldTypes, OldLinks DEF At, HasEmail, FlowLinks, OnPath
<1>3. CASE redis' = redis /\ Finish(h)
  BY <1>1, <1>2, <1>3, FinishEnds, EndsAdvances, StillFrame DEF Ends, Idle
<1>4. CASE redis' = redis /\ TriesPut(h, "index", req[h].tries + 1)
  <2>1. req[h].tries + 1 \in Nat
    BY Typed, HandlerFields
  <2>2. Goes(h, "index", {})
    BY <1>1, <1>4, <2>1, TriesGoes DEF PCs
  <2>3. FlowLinks(req'[h]) /\ DataLinks(req'[h])
    BY <1>1, <2>2, OldLinks DEF Goes, Same, At, FlowLinks, DataLinks, HasEmail, HasUser, OnPath
  <2>. QED
    BY <1>1, <1>2, <1>4, <2>2, <2>3, GoesAdvances, StillFrame DEF Leads, At
<1>5. CASE /\ redis.index[e] = req[h].approved /\ redis' = [redis EXCEPT !.index = f]
           /\ Goto(h, IF req[h].approved = 0 THEN "mint" ELSE "remove")
  <2>1. f \in [Emails -> {0} \cup Ids]
    BY <1>2, Typed, RedisFields
  <2>. HIDE DEF f
  <2>2. KeysBut({"index"}) /\ redis'.index = f
    BY <1>5, <2>1, IndexKeys
  <2>3. StoreFrame("claim")
    BY <1>1, <2>2, QuietFields, KeysFrame
  <2>4. ASSUME NEW pc \in PCs, pc = (IF req[h].approved = 0 THEN "mint" ELSE "remove"), Goto(h, pc)
        PROVE  Advances(h) /\ req'[h].pc = pc
    <3>1. Goes(h, pc, {})
      BY <1>1, <2>4, GotoGoes
    <3>2. FlowLinks(req'[h]) /\ DataLinks(req'[h])
      BY <1>1, <1>2, <2>4, <3>1, OldLinks DEF Goes, Same, At, FlowLinks, DataLinks, HasEmail, HasUser, OnPath
    <3>. QED
      BY <1>1, <2>4, <3>1, <3>2, GoesAdvances DEF Leads, At
  <2>5. (IF req[h].approved = 0 THEN "mint" ELSE "remove") \in PCs
    BY DEF PCs
  <2>6. Advances(h) /\ req'[h].pc = IF req[h].approved = 0 THEN "mint" ELSE "remove"
    BY <1>5, <2>4, <2>5
  <2>. QED
    BY <1>1, <1>2, <1>5, <2>2, <2>3, <2>6 DEF f
<1>. QED
  BY <1>3, <1>4, <1>5 DEF Claim, TriesPut

LEMMA RemoveEffect ==
  ASSUME TypeInv, NEW h \in Handlers, Remove(h)
  PROVE  /\ At(h, "remove") /\ Advances(h) /\ StoreFrame("remove") /\ req[h].approved \in Ids
         /\ redis'.vault = [redis.vault EXCEPT ![req[h].approved] = NoEntry]
         /\ seen'.dead = seen.dead \cup {req[h].approved}
         /\ req'[h].pc \in {"idle", "mint"}
<1>. DEFINE n == req[h].approved
            f == [redis.vault EXCEPT ![n] = NoEntry]
<1>1. At(h, "remove") /\ starts' = starts /\ UNCHANGED <<users, grants, jobs>>
      /\ redis' = [redis EXCEPT !.vault = f] /\ seen' = [seen EXCEPT !.dead = seen.dead \cup {n}]
  BY DEF Remove
<1>2. n \in Ids
  BY <1>1, Typed, HandlerFields, OldLinks DEF At, FlowLinks
<1>. HIDE DEF n
<1>3. f \in [Ids -> Entry]
  BY <1>2, Typed, RedisFields, Nulls
<1>. HIDE DEF f
<1>4. KeysBut({"vault"}) /\ redis'.vault = f
  BY <1>1, <1>3, VaultKeys
<1>5. seen.dead \cup {n} \in SUBSET Ids
  BY <1>2, Typed, SeenFields
<1>6. SeenBut({"dead"}) /\ seen'.dead = seen.dead \cup {n}
  BY <1>1, <1>5, DeadSeen
<1>7. StoreFrame("remove")
  BY <1>1, <1>4, <1>6, KeysFrame
<1>8. Advances(h) /\ req'[h].pc \in {"idle", "mint"}
  <2>1. CASE Finish(h)
    BY <1>1, <2>1, FinishEnds, EndsAdvances DEF Ends, Idle
  <2>2. CASE req[h].flow = "invite" /\ Goto(h, "mint")
    <3>1. Goes(h, "mint", {})
      BY <1>1, <2>2, GotoGoes DEF PCs
    <3>2. FlowLinks(req'[h]) /\ DataLinks(req'[h])
      BY <1>1, <2>2, <3>1, OldLinks DEF Goes, Same, At, FlowLinks, DataLinks, HasEmail, HasUser, OnPath
    <3>. QED
      BY <1>1, <3>1, <3>2, GoesAdvances DEF Leads, At
  <2>. QED
    BY <2>1, <2>2 DEF Remove
<1>. QED
  BY <1>1, <1>2, <1>4, <1>6, <1>7, <1>8 DEF f, n

LEMMA WithdrawEffect ==
  ASSUME TypeInv, NEW h \in Handlers, Withdraw(h)
  PROVE  /\ At(h, "withdraw") /\ Advances(h) /\ Ends(h) /\ StoreFrame("withdraw") /\ req[h].id \in Ids
         /\ (redis' = redis \/ redis'.vault = [redis.vault EXCEPT ![req[h].id] = NoEntry])
<1>. DEFINE n == req[h].id
            f == [redis.vault EXCEPT ![n] = NoEntry]
<1>1. At(h, "withdraw") /\ Ends(h) /\ UNCHANGED <<users, grants, jobs, seen>>
  BY FinishEnds DEF Withdraw
<1>2. n \in Ids
  BY <1>1, FieldTypes DEF At
<1>3. CASE redis' = redis
  BY <1>1, <1>2, <1>3, EndsAdvances, StillFrame
<1>4. CASE redis' = [redis EXCEPT !.vault = f]
  <2>1. f \in [Ids -> Entry]
    BY <1>2, Typed, RedisFields, Nulls
  <2>. HIDE DEF f
  <2>2. KeysBut({"vault"}) /\ redis'.vault = f
    BY <1>4, <2>1, VaultKeys
  <2>3. StoreFrame("withdraw")
    BY <1>1, <2>2, QuietFields, KeysFrame
  <2>. QED
    BY <1>1, <1>2, <2>2, <2>3, EndsAdvances DEF f
<1>. QED
  BY <1>3, <1>4 DEF Withdraw

LEMMA UnindexEffect ==
  ASSUME TypeInv, NEW h \in Handlers, Unindex(h)
  PROVE  /\ At(h, "unindex") /\ Advances(h) /\ StoreFrame("unindex") /\ req[h].email \in Emails
         /\ redis'.index = [redis.index EXCEPT ![req[h].email] = 0]
         /\ req'[h].pc = IF req[h].flow = "revoke" THEN "remove" ELSE "authority"
<1>. DEFINE e == req[h].email
            f == [redis.index EXCEPT ![e] = 0]
            pc == IF req[h].flow = "revoke" THEN "remove" ELSE "authority"
<1>1. At(h, "unindex") /\ starts' = starts /\ UNCHANGED <<users, grants, jobs, seen>>
      /\ redis' = [redis EXCEPT !.index = f] /\ Goto(h, pc)
  BY DEF Unindex
<1>2. e \in Emails /\ req[h].flow \in {"revoke", "accept"}
  BY <1>1, FieldTypes, OldLinks DEF At, HasEmail, FlowLinks, OnPath
<1>3. f \in [Emails -> {0} \cup Ids]
  BY <1>2, Typed, RedisFields
<1>. HIDE DEF f
<1>4. KeysBut({"index"}) /\ redis'.index = f
  BY <1>1, <1>3, IndexKeys
<1>5. StoreFrame("unindex")
  BY <1>1, <1>4, QuietFields, KeysFrame
<1>6. CASE req[h].flow = "revoke" /\ Goto(h, "remove")
  <2>1. Goes(h, "remove", {})
    BY <1>1, <1>6, GotoGoes DEF PCs
  <2>2. FlowLinks(req'[h]) /\ DataLinks(req'[h])
    BY <1>1, <1>6, <2>1, OldLinks DEF Goes, Same, At, FlowLinks, DataLinks, HasEmail, HasUser, OnPath
  <2>. QED
    BY <1>1, <1>2, <1>4, <1>5, <1>6, <2>1, <2>2, GoesAdvances DEF Leads, At, f
<1>7. CASE req[h].flow = "accept" /\ Goto(h, "authority")
  <2>1. Goes(h, "authority", {})
    BY <1>1, <1>7, GotoGoes DEF PCs
  <2>2. FlowLinks(req'[h]) /\ DataLinks(req'[h])
    BY <1>1, <1>7, <2>1, OldLinks DEF Goes, Same, At, FlowLinks, DataLinks, HasEmail, HasUser, OnPath
  <2>. QED
    BY <1>1, <1>2, <1>4, <1>5, <1>7, <2>1, <2>2, GoesAdvances DEF Leads, At, f
<1>. QED
  BY <1>1, <1>2, <1>6, <1>7

LEMMA ExchangeEffect ==
  ASSUME TypeInv, NEW h \in Handlers, Exchange(h)
  PROVE  /\ At(h, "exchange") /\ Advances(h) /\ StoreFrame("exchange")
         /\ req'[h].pc = "link" => Exists(req'[h].user)
         /\ req'[h].pc \in {"idle", "known", "link"}
<1>1. At(h, "exchange") /\ starts' = starts /\ StoreFrame("exchange")
  BY StillFrame DEF Exchange
<1>2. CASE Finish(h)
  BY <1>1, <1>2, FinishEnds, EndsAdvances DEF Ends, Idle
<1>3. CASE Goto(h, "known")
  <2>1. Goes(h, "known", {})
    BY <1>1, <1>3, GotoGoes DEF PCs
  <2>2. FlowLinks(req'[h]) /\ DataLinks(req'[h])
    BY <1>1, <2>1, OldLinks DEF Goes, Same, At, FlowLinks, DataLinks, HasEmail, HasUser, OnPath
  <2>. QED
    BY <1>1, <2>1, <2>2, GoesAdvances DEF Leads, At
<1>4. ASSUME NEW u \in Users, users[u].oauth = req[h].email, UserPut(h, "link", u)
      PROVE  Advances(h) /\ req'[h].pc = "link" /\ Exists(req'[h].user)
  <2>1. req[h].email # None /\ u # None
    BY <1>1, OldLinks, AccountAssumption DEF At, HasEmail, FlowLinks, OnPath, Users
  <2>2. Exists(u)
    BY <1>4, <2>1 DEF TypeInv, Standing, NoUser
  <2>3. UserPut(h, "link", u)
    BY <1>4
  <2>4. Goes(h, "link", {"user"}) /\ req'[h].user = u
    BY <1>1, <2>3, UserGoes DEF PCs
  <2>5. FlowLinks(req'[h]) /\ DataLinks(req'[h])
    BY <1>1, <2>1, <2>4, OldLinks DEF Goes, Same, At, FlowLinks, DataLinks, HasEmail, HasUser, OnPath
  <2>6. Follows(req'[h], req[h])
    BY <1>1, <2>4 DEF Goes, Same, At, Follows, Leads
  <2>. QED
    BY <1>1, <2>2, <2>4, <2>5, <2>6 DEF Goes, Advances
<1>5. Finish(h) \/ Goto(h, "known") \/ \E u \in Users : users[u].oauth = req[h].email /\ UserPut(h, "link", u)
  BY DEF Exchange, UserPut
<1>. QED
  BY <1>1, <1>2, <1>3, <1>4, <1>5

LEMMA CreateEffect ==
  ASSUME TypeInv, NEW h \in Handlers, Create(h)
  PROVE  /\ At(h, "create") /\ Advances(h) /\ StoreFrame("create") /\ UserFrame("create")
         /\ \/ Ends(h) /\ users' = users
            \/ \E u \in Users :
                 /\ ~Exists(u) /\ Exists(u)' /\ req'[h].user = u /\ req'[h].pc \in {"code", "admit", "epoch"}
                 /\ users'[u].hash \in {None, [word |-> req[h].fresh, salt |-> req[h].id]}
                 /\ \A v \in Users : v # u => users'[v] = users[v]
<1>1. At(h, "create") /\ starts' = starts /\ UNCHANGED <<redis, grants, jobs, seen>>
  BY DEF Create
<1>2. /\ req[h].flow \in {"register", "accept", "callback"} /\ req[h].email \in Emails /\ req[h].email # None
      /\ req[h].data.rank \in 0..2
      /\ req[h].flow # "callback" => [word |-> req[h].fresh, salt |-> req[h].id] \in Hash
  BY <1>1, FieldTypes, OldLinks, AccountAssumption, Typed, HandlerFields, EntryFields, NewHash
     DEF At, HasEmail, FlowLinks, OnPath
<1>3. CASE Finish(h) /\ users' = users
  BY <1>1, <1>3, FinishEnds, EndsAdvances, StillFrame, StillUsers
<1>4. ASSUME Holder(req[h].email) = {}, NEW u \in Users, ~Exists(u), NEW verified \in BOOLEAN,
             users' = [users EXCEPT ![u] = NewUser(h, verified)], NEW pc \in PCs, FoundPut(h, pc, u),
             pc = IF req[h].flow = "register" /\ mix.required THEN "code"
                  ELSE IF req[h].flow = "callback" THEN "admit" ELSE "epoch"
      PROVE  /\ Advances(h) /\ StoreFrame("create") /\ UserFrame("create")
             /\ Exists(u)' /\ req'[h].user = u /\ req'[h].pc \in {"code", "admit", "epoch"}
             /\ users'[u].hash \in {None, [word |-> req[h].fresh, salt |-> req[h].id]}
             /\ \A v \in Users : v # u => users'[v] = users[v]
  <2>. DEFINE p == NewUser(h, verified)
              e == req[h].email
              hash == [word |-> req[h].fresh, salt |-> req[h].id]
  <2>1. p.state = "active" /\ p.email = e /\ p.writes = 0 /\ p.hash \in {None, hash}
    BY DEF NewUser
  <2>2. p \in User
    <3>1. (IF req[h].flow = "accept" THEN req[h].data.rank ELSE 1) \in 0..2
      BY <1>2
    <3>2. (IF req[h].flow = "callback" THEN None ELSE hash) \in Hash \cup {None}
      BY <1>2
    <3>3. (IF req[h].flow = "callback" THEN e ELSE None) \in Emails \cup {None}
      BY <1>2
    <3>. HIDE DEF hash, e
    <3>4. p = [state |-> "active", email |-> e, verified |-> verified, writes |-> 0,
               rank |-> IF req[h].flow = "accept" THEN req[h].data.rank ELSE 1,
               hash |-> IF req[h].flow = "callback" THEN None ELSE hash,
               oauth |-> IF req[h].flow = "callback" THEN e ELSE None]
      BY DEF NewUser, hash, e
    <3>. HIDE DEF p
    <3>. QED
      BY <1>2, <3>1, <3>2, <3>3, <3>4 DEF User, e
  <2>3. users \in [Users -> User] /\ users' = [users EXCEPT ![u] = p]
    BY <1>4, Typed
  <2>. HIDE DEF p, hash
  <2>4. users' \in [Users -> User] /\ users'[u] = p /\ \A v \in Users : v # u => users'[v] = users[v]
    BY <2>2, <2>3
  <2>5. users[u] = NoUser
    BY <1>4 DEF TypeInv, Standing
  <2>6. \A v \in Users : users[v].email # e
    BY <1>2, <1>4 DEF Holder, TypeInv, Standing, NoUser, Exists
  <2>7. Standings
    <3>1. \A v \in Users : v # u => (Exists(v)' <=> Exists(v))
      BY <2>4 DEF Exists
    <3>2. Exists(u)'
      BY <2>1, <2>4 DEF Exists
    <3>3. \A v \in Users : IF Exists(v)' THEN users'[v].email # None ELSE users'[v] = NoUser
      BY <1>2, <2>1, <2>4, <3>1, <3>2 DEF TypeInv, Standing
    <3>4. \A v, w \in Users : v # w /\ Exists(v)' => users'[v].email # users'[w].email
      BY <2>1, <2>4, <2>6, <3>1 DEF TypeInv, TypeOK, StoreTypeOK, Exists
    <3>. QED
      BY <3>1, <3>2, <3>3, <3>4 DEF Standings
  <2>8. \A v \in Users : users[v].writes \in Nat
    BY Typed DEF User
  <2>9. UserFrame("create")
    BY <2>1, <2>4, <2>5, <2>7, <2>8 DEF UserFrame, NoUser
  <2>10. StoreFrame("create")
    BY <1>1, <2>4, Typed DEF StoreFrame
  <2>11. FoundPut(h, pc, u) /\ u # None
    BY <1>4, AccountAssumption DEF Users
  <2>12. Goes(h, pc, {"user"}) /\ req'[h].user = u
    BY <1>1, <2>11, FoundGoes
  <2>13. /\ req[h].flow = "callback" => pc = "admit"
         /\ req[h].flow = "accept" => pc = "epoch"
         /\ req[h].flow = "register" => pc \in {"code", "epoch"}
    BY <1>4
  <2>14. FlowLinks(req'[h]) /\ DataLinks(req'[h])
    BY <1>1, <1>2, <2>11, <2>12, <2>13, OldLinks
       DEF Goes, Same, At, FlowLinks, DataLinks, HasEmail, HasUser, OnPath
  <2>15. Follows(req'[h], req[h])
    BY <1>1, <1>2, <2>12, <2>13 DEF Goes, Same, At, Follows, Leads
  <2>16. Exists(u)'
    BY <2>1, <2>4 DEF Exists
  <2>. QED
    BY <1>2, <2>1, <2>4, <2>9, <2>10, <2>12, <2>13, <2>14, <2>15, <2>16 DEF Goes, Advances, hash
<1>5. \/ Finish(h) /\ users' = users
      \/ /\ Holder(req[h].email) = {}
         /\ \E u \in Users, verified \in BOOLEAN :
              /\ ~Exists(u) /\ users' = [users EXCEPT ![u] = NewUser(h, verified)]
              /\ FoundPut(h, IF req[h].flow = "register" /\ mix.required THEN "code"
                             ELSE IF req[h].flow = "callback" THEN "admit" ELSE "epoch", u)
  <2>1. Verdicts(h) \subseteq BOOLEAN
    BY <1>2 DEF Verdicts
  <2>2. Slots \subseteq Users
    BY DEF Users
  <2>. QED
    BY <2>1, <2>2 DEF Create, Refused, FoundPut
<1>6. (IF req[h].flow = "register" /\ mix.required THEN "code"
       ELSE IF req[h].flow = "callback" THEN "admit" ELSE "epoch") \in PCs
  BY DEF PCs
<1>7. CASE /\ Holder(req[h].email) = {}
           /\ \E u \in Users, verified \in BOOLEAN :
                /\ ~Exists(u) /\ users' = [users EXCEPT ![u] = NewUser(h, verified)]
                /\ FoundPut(h, IF req[h].flow = "register" /\ mix.required THEN "code"
                               ELSE IF req[h].flow = "callback" THEN "admit" ELSE "epoch", u)
  <2>. DEFINE pc == IF req[h].flow = "register" /\ mix.required THEN "code"
                    ELSE IF req[h].flow = "callback" THEN "admit" ELSE "epoch"
  <2>1. PICK u \in Users, verified \in BOOLEAN :
          ~Exists(u) /\ users' = [users EXCEPT ![u] = NewUser(h, verified)] /\ FoundPut(h, pc, u)
    BY <1>7
  <2>2. /\ Advances(h) /\ StoreFrame("create") /\ UserFrame("create")
        /\ Exists(u)' /\ req'[h].user = u /\ req'[h].pc \in {"code", "admit", "epoch"}
        /\ users'[u].hash \in {None, [word |-> req[h].fresh, salt |-> req[h].id]}
        /\ \A v \in Users : v # u => users'[v] = users[v]
    BY <1>4, <1>6, <1>7, <2>1
  <2>. QED
    BY <1>1, <2>1, <2>2
<1>. QED
  BY <1>3, <1>5, <1>7

-----------------------------------------------------------------------------
(* Tickets *)

(* What a step changes of the tickets, of the blacklist and of the keys. *)
TicketFrame(pc) ==
  /\ ws' \in Sockets /\ now' = now
  /\ pc \notin {"mintTicket", "getdel"} => ws'.tickets = ws.tickets
  /\ pc # "revokeToken" => ws'.black = ws.black /\ ws'.out = ws.out

KeyFrame(pc) ==
  /\ keys' \in [Rows -> KeyRow]
  /\ pc \notin {"createKey", "retireKey", "handOver", "markRevoked"} => keys' = keys

LEMMA StillSockets ==
  ASSUME TypeInv, UNCHANGED <<now, ws>>, NEW pc
  PROVE  TicketFrame(pc)
BY Typed DEF TicketFrame

LEMMA StillKeys ==
  ASSUME TypeInv, UNCHANGED keys, NEW pc
  PROVE  KeyFrame(pc)
BY Typed DEF KeyFrame

LEMMA LifetimeType ==
  ASSUME TypeInv
  PROVE  Lifetime \in Int /\ Lifetime <= TokenLife - Ceil - 1 /\ Ceil \in Nat /\ now <= 2 * Ceil
<1>1. now \in Nat /\ TokenLife \in Nat /\ TicketTtl \in Nat
  BY Typed, TicketAssumption
<1>2. Ceil \in Nat /\ now <= 2 * Ceil
  BY <1>1 DEF Ceil
<1>. QED
  BY <1>1, <1>2 DEF Lifetime, Min2

LEMMA MeasureEffect ==
  ASSUME TypeInv, NEW h \in Handlers, Measure(h)
  PROVE  /\ At(h, "measure") /\ Advances(h) /\ StoreFrame("measure") /\ TicketFrame("measure")
         /\ req'[h].pc # "idle" => /\ Lifetime > 0 /\ req'[h].pc = "mintTicket"
                                   /\ req'[h].slip.life = Lifetime /\ req'[h].slip.since = now
                                   /\ req'[h].slip.late = req[h].slip.late
<1>1. At(h, "measure") /\ starts' = starts /\ StoreFrame("measure") /\ TicketFrame("measure")
  BY StillFrame, StillSockets DEF Measure
<1>2. CASE Finish(h)
  BY <1>1, <1>2, FinishEnds, EndsAdvances DEF Ends, Idle
<1>3. CASE /\ Lifetime > 0
           /\ req' = [req EXCEPT ![h].pc = "mintTicket", ![h].slip.life = Lifetime, ![h].slip.since = now]
  <2>. DEFINE r == req[h]
              s == [r.slip EXCEPT !.life = Lifetime, !.since = now]
  <2>1. Lifetime \in Nat /\ now \in Nat /\ r \in Handler /\ r.slip \in Slip
    BY <1>3, Typed, LifetimeType, HandlerFields
  <2>2. s \in Slip /\ s.life = Lifetime /\ s.since = now /\ s.late = r.slip.late
    <3>. HIDE DEF r
    <3>. QED
      BY <2>1 DEF Slip
  <2>3. SlipPut(h, "mintTicket", s)
    BY <1>3, Typed DEF SlipPut, Handler
  <2>. HIDE DEF s
  <2>4. Goes(h, "mintTicket", {"slip"}) /\ req'[h].slip = s
    BY <1>1, <2>2, <2>3, SlipGoes DEF PCs
  <2>5. FlowLinks(req'[h]) /\ DataLinks(req'[h])
    BY <1>1, <2>4, OldLinks DEF Goes, Same, At, FlowLinks, DataLinks, HasEmail, HasUser, OnPath
  <2>6. Follows(req'[h], req[h])
    BY <1>1, <2>4 DEF Goes, Same, At, Follows, Leads
  <2>. QED
    BY <1>1, <1>3, <2>2, <2>4, <2>5, <2>6 DEF Goes, Advances
<1>. QED
  BY <1>1, <1>2, <1>3 DEF Measure

LEMMA MintTicketEffect ==
  ASSUME TypeInv, NEW h \in Handlers, MintTicket(h)
  PROVE  /\ At(h, "mintTicket") /\ Advances(h) /\ Ends(h) /\ StoreFrame("mintTicket") /\ TicketFrame("mintTicket")
         /\ req[h].id \in Ids /\ redis' = redis
         /\ ws'.tickets = [ws.tickets EXCEPT ![req[h].id] = now + 2 * req[h].slip.life]
         /\ seen'.mailed = seen.mailed \cup {req[h].id}
<1>. DEFINE n == req[h].id
            f == [ws.tickets EXCEPT ![n] = now + 2 * req[h].slip.life]
<1>1. /\ At(h, "mintTicket") /\ Ends(h) /\ UNCHANGED <<users, redis, grants, jobs, now>>
      /\ ws' = [ws EXCEPT !.tickets = f] /\ seen' = [seen EXCEPT !.mailed = seen.mailed \cup {n}]
  BY FinishEnds DEF MintTicket
<1>2. n \in Ids
  BY <1>1, FieldTypes DEF At
<1>3. seen.mailed \cup {n} \in SUBSET Ids
  BY <1>2, Typed, SeenFields
<1>4. SeenBut({"mailed"}) /\ seen'.mailed = seen.mailed \cup {n}
  BY <1>1, <1>3, MailedSeen
<1>5. StoreFrame("mintTicket")
  BY <1>1, <1>4, QuietFields, KeysFrame
<1>6. f \in [Ids -> Nat]
  <2>1. req[h].slip.life \in Nat /\ now \in Nat
    BY Typed, HandlerFields DEF Slip
  <2>2. now + 2 * req[h].slip.life \in Nat
    BY <2>1
  <2>. QED
    BY <1>2, <2>2, Typed DEF Sockets
<1>. HIDE DEF f
<1>7. TicketFrame("mintTicket") /\ ws'.tickets = f
  BY <1>1, <1>6, Typed DEF TicketFrame, Sockets
<1>. QED
  BY <1>1, <1>2, <1>4, <1>5, <1>7, EndsAdvances DEF f

LEMMA TakeTicketEffect ==
  ASSUME TypeInv, NEW h \in Handlers, TakeTicket(h), NEW n, n = req[h].proof
  PROVE  /\ At(h, "getdel") /\ Advances(h) /\ StoreFrame("getdel") /\ TicketFrame("getdel")
         /\ n \in Ids /\ redis' = redis
         /\ \/ Ends(h) /\ ws' = ws /\ seen' = seen
            \/ /\ now < ws.tickets[n] /\ ws'.tickets = [ws.tickets EXCEPT ![n] = 0]
               /\ seen'.spent = [seen.spent EXCEPT ![n] = seen.spent[n] + 1]
               /\ req'[h].pc = "blacklist"
<1>. DEFINE f == [ws.tickets EXCEPT ![n] = 0]
            g == [seen.spent EXCEPT ![n] = seen.spent[n] + 1]
<1>1. At(h, "getdel") /\ starts' = starts /\ UNCHANGED <<users, redis, grants, jobs, now>>
  BY DEF TakeTicket
<1>2. n \in Ids
  BY <1>1, FieldTypes DEF At
<1>3. CASE Finish(h) /\ UNCHANGED <<ws, seen>>
  BY <1>1, <1>2, <1>3, FinishEnds, EndsAdvances, StillFrame, StillSockets
<1>4. CASE /\ now < ws.tickets[n] /\ ws' = [ws EXCEPT !.tickets = f]
           /\ seen' = [seen EXCEPT !.spent = g] /\ Goto(h, "blacklist")
  <2>1. f \in [Ids -> Nat] /\ g \in [Ids -> Nat]
    BY <1>2, Typed, SeenFields DEF Sockets
  <2>. HIDE DEF f, g
  <2>2. SeenBut({"spent"}) /\ seen'.spent = g
    BY <1>4, <2>1, SpentSeen
  <2>3. StoreFrame("getdel")
    BY <1>1, <2>2, QuietFields, KeysFrame
  <2>4. TicketFrame("getdel") /\ ws'.tickets = f
    BY <1>1, <1>4, <2>1, Typed DEF TicketFrame, Sockets
  <2>5. Goes(h, "blacklist", {})
    BY <1>1, <1>4, GotoGoes DEF PCs
  <2>6. FlowLinks(req'[h]) /\ DataLinks(req'[h])
    BY <1>1, <2>5, OldLinks DEF Goes, Same, At, FlowLinks, DataLinks, HasEmail, HasUser, OnPath
  <2>7. Advances(h) /\ req'[h].pc = "blacklist"
    BY <1>1, <2>5, <2>6, GoesAdvances DEF Leads, At
  <2>. QED
    BY <1>1, <1>2, <1>4, <2>2, <2>3, <2>4, <2>7 DEF f, g
<1>. QED
  BY <1>3, <1>4 DEF TakeTicket

LEMMA BlacklistEffect ==
  ASSUME TypeInv, NEW h \in Handlers, Blacklist(h)
  PROVE  /\ At(h, "revokeToken") /\ Advances(h) /\ Ends(h) /\ StoreFrame("revokeToken") /\ TicketFrame("revokeToken")
         /\ ws'.black = now + 2 * req[h].slip.life /\ ws'.out = TRUE
<1>. DEFINE n == now + 2 * req[h].slip.life
<1>1. /\ At(h, "revokeToken") /\ Ends(h) /\ StoreFrame("revokeToken") /\ now' = now
      /\ ws' = [ws EXCEPT !.black = n, !.out = TRUE]
  BY FinishEnds, StillFrame DEF Blacklist
<1>2. n \in Nat
  <2>1. req[h].slip.life \in Nat /\ now \in Nat
    BY Typed, HandlerFields DEF Slip
  <2>. QED
    BY <2>1
<1>. HIDE DEF n
<1>3. TicketFrame("revokeToken") /\ ws'.black = n /\ ws'.out = TRUE
  BY <1>1, <1>2, Typed DEF TicketFrame, Sockets
<1>. QED
  BY <1>1, <1>3, EndsAdvances DEF n

-----------------------------------------------------------------------------
(* API keys *)

LEMMA RowTypes ==
  ASSUME TypeInv, NEW h \in Handlers
  PROVE  req[h].proof \in Rows /\ req[h].id \in Rows /\ \A n \in Rows : keys[n] \in KeyRow
BY Typed, HandlerFields DEF Rows

(* One row changes. *)
OneRow(n, row) ==
  /\ n \in Rows /\ keys' \in [Rows -> KeyRow] /\ keys'[n] = row
  /\ \A m \in Rows : m # n => keys'[m] = keys[m]

LEMMA RowPut ==
  ASSUME TypeInv, NEW n \in Rows, NEW row \in KeyRow, keys' = [keys EXCEPT ![n] = row]
  PROVE  OneRow(n, row)
BY Typed DEF OneRow

LEMMA SlipRow ==
  ASSUME TypeInv, NEW h \in Handlers, NEW row \in KeyRow, NEW pc
  PROVE  /\ [req[h].slip EXCEPT !.row = row] \in Slip
         /\ req' = [req EXCEPT ![h].pc = pc, ![h].slip.row = row] =>
              SlipPut(h, pc, [req[h].slip EXCEPT !.row = row])
<1>. DEFINE r == req[h]
<1>1. r \in Handler /\ r.slip \in Slip
  BY Typed, HandlerFields
<1>2. [r.slip EXCEPT !.row = row] \in Slip
  <2>. HIDE DEF r
  <2>. QED
    BY <1>1 DEF Slip
<1>3. req' = [req EXCEPT ![h].pc = pc, ![h].slip.row = row] =>
        SlipPut(h, pc, [req[h].slip EXCEPT !.row = row])
  BY Typed DEF SlipPut, Handler
<1>. QED
  BY <1>2, <1>3

LEMMA FindKeyEffect ==
  ASSUME TypeInv, NEW h \in Handlers, FindKey(h)
  PROVE  /\ At(h, "findKey") /\ Advances(h) /\ StoreFrame("findKey") /\ TicketFrame("findKey") /\ keys' = keys
         /\ req'[h].pc # "idle" => /\ req'[h].pc = "createKey"
                                   /\ Active(keys[req[h].proof], req[h].slip.since)
                                   /\ req'[h].slip = [req[h].slip EXCEPT !.row = keys[req[h].proof]]
<1>. DEFINE row == keys[req[h].proof]
            s == [req[h].slip EXCEPT !.row = row]
<1>1. /\ At(h, "findKey") /\ starts' = starts /\ StoreFrame("findKey") /\ TicketFrame("findKey") /\ keys' = keys
  BY StillFrame, StillSockets DEF FindKey
<1>2. CASE Finish(h)
  BY <1>1, <1>2, FinishEnds, EndsAdvances DEF Ends, Idle
<1>3. CASE Active(row, req[h].slip.since) /\ req' = [req EXCEPT ![h].pc = "createKey", ![h].slip.row = row]
  <2>1. row \in KeyRow
    BY RowTypes
  <2>. HIDE DEF row
  <2>2. s \in Slip /\ SlipPut(h, "createKey", s)
    BY <1>3, <2>1, SlipRow
  <2>. HIDE DEF s
  <2>3. Goes(h, "createKey", {"slip"}) /\ req'[h].slip = s
    BY <1>1, <2>2, SlipGoes DEF PCs
  <2>4. FlowLinks(req'[h]) /\ DataLinks(req'[h])
    BY <1>1, <2>3, OldLinks DEF Goes, Same, At, FlowLinks, DataLinks, HasEmail, HasUser, OnPath
  <2>5. Follows(req'[h], req[h])
    BY <1>1, <2>3 DEF Goes, Same, At, Follows, Leads
  <2>. QED
    BY <1>1, <1>3, <2>3, <2>4, <2>5 DEF Goes, Advances, s, row
<1>. QED
  BY <1>1, <1>2, <1>3 DEF FindKey, After

LEMMA ReadRowEffect ==
  ASSUME TypeInv, NEW h \in Handlers, ReadRow(h)
  PROVE  /\ At(h, "readRow") /\ Advances(h) /\ StoreFrame("readRow") /\ TicketFrame("readRow") /\ keys' = keys
         /\ req'[h].pc = "judge" /\ req'[h].slip = [req[h].slip EXCEPT !.row = keys[req[h].proof]]
<1>. DEFINE row == keys[req[h].proof]
            s == [req[h].slip EXCEPT !.row = row]
<1>1. /\ At(h, "readRow") /\ starts' = starts /\ StoreFrame("readRow") /\ TicketFrame("readRow") /\ keys' = keys
      /\ req' = [req EXCEPT ![h].pc = "judge", ![h].slip.row = row]
  BY StillFrame, StillSockets DEF ReadRow
<1>2. row \in KeyRow
  BY RowTypes
<1>. HIDE DEF row
<1>3. s \in Slip /\ SlipPut(h, "judge", s)
  BY <1>1, <1>2, SlipRow
<1>. HIDE DEF s
<1>4. Goes(h, "judge", {"slip"}) /\ req'[h].slip = s
  BY <1>1, <1>3, SlipGoes DEF PCs
<1>5. FlowLinks(req'[h]) /\ DataLinks(req'[h])
  <2>1. At(h, "readRow")
    BY <1>1
  <2>2. req[h].flow = "useKey" /\ req[h].id # 0
    BY <2>1, OldLinks DEF At, FlowLinks, OnPath
  <2>3. req'[h].flow = "useKey" /\ req'[h].id # 0 /\ req'[h].pc = "judge"
    BY <1>4, <2>2 DEF Goes, Same
  <2>4. FlowLinks(req'[h])
    BY <2>3 DEF FlowLinks, HasEmail, HasUser, OnPath
  <2>. QED
    BY <1>4, <2>2, <2>3, <2>4, OldLinks DEF Goes, Same, DataLinks
<1>6. Follows(req'[h], req[h])
  BY <1>1, <1>4 DEF Goes, Same, At, Follows, Leads
<1>. QED
  BY <1>1, <1>4, <1>5, <1>6 DEF Goes, Advances, s, row

LEMMA CreateKeyEffect ==
  ASSUME TypeInv, NEW h \in Handlers, CreateKey(h)
  PROVE  /\ At(h, "createKey") /\ Advances(h) /\ StoreFrame("createKey") /\ TicketFrame("createKey")
         /\ KeyFrame("createKey")
         /\ \/ Ends(h) /\ keys' = keys
            \/ /\ \E row \in KeyRow :
                    /\ OneRow(req[h].id, row) /\ row.state = "active" /\ row.held = keys[req[h].id].held
                    /\ row.until = IF req[h].flow = "issueKey" THEN req[h].slip.row.until ELSE 0
               /\ req'[h].pc = IF req[h].flow = "issueKey" THEN "handOver" ELSE "retireKey"
<1>. DEFINE n == req[h].id
            until == IF req[h].flow = "issueKey" THEN req[h].slip.row.until ELSE 0
            row == [keys[n] EXCEPT !.state = "active", !.until = until]
<1>1. At(h, "createKey") /\ starts' = starts /\ StoreFrame("createKey") /\ TicketFrame("createKey")
  BY StillFrame, StillSockets DEF CreateKey
<1>2. CASE Finish(h) /\ keys' = keys
  BY <1>1, <1>2, FinishEnds, EndsAdvances, StillKeys
<1>3. CASE /\ keys' = [keys EXCEPT ![n].state = "active", ![n].until = until]
           /\ Goto(h, IF req[h].flow = "issueKey" THEN "handOver" ELSE "retireKey")
  <2>1. n \in Rows /\ keys[n] \in KeyRow
    BY RowTypes
  <2>2. until \in Nat
    <3>1. req[h].slip \in Slip
      BY Typed, HandlerFields
    <3>2. req[h].slip.row.until \in Nat
      BY <3>1 DEF Slip, KeyRow
    <3>. QED
      BY <3>2
  <2>. HIDE DEF until, n
  <2>3. row \in KeyRow /\ row.state = "active" /\ row.until = until /\ row.held = keys[n].held
    BY <2>1, <2>2 DEF KeyRow
  <2>4. keys' = [keys EXCEPT ![n] = row]
    BY <1>3
  <2>. HIDE DEF row
  <2>5. OneRow(n, row) /\ KeyFrame("createKey")
    BY <2>1, <2>3, <2>4, RowPut DEF KeyFrame, OneRow
  <2>6. CASE req[h].flow = "issueKey" /\ Goto(h, "handOver")
    <3>1. Goes(h, "handOver", {})
      BY <1>1, <2>6, GotoGoes DEF PCs
    <3>2. FlowLinks(req'[h]) /\ DataLinks(req'[h])
      BY <1>1, <2>6, <3>1, OldLinks DEF Goes, Same, At, FlowLinks, DataLinks, HasEmail, HasUser, OnPath
    <3>. QED
      BY <1>1, <2>3, <2>5, <2>6, <3>1, <3>2, GoesAdvances DEF Leads, At, until, n
  <2>7. CASE req[h].flow # "issueKey" /\ Goto(h, "retireKey")
    <3>1. Goes(h, "retireKey", {})
      BY <1>1, <2>7, GotoGoes DEF PCs
    <3>2. FlowLinks(req'[h]) /\ DataLinks(req'[h])
      BY <1>1, <2>7, <3>1, OldLinks DEF Goes, Same, At, FlowLinks, DataLinks, HasEmail, HasUser, OnPath
    <3>. QED
      BY <1>1, <2>3, <2>5, <2>7, <3>1, <3>2, GoesAdvances DEF Leads, At, until, n
  <2>. QED
    BY <1>3, <2>6, <2>7
<1>. QED
  BY <1>2, <1>3 DEF CreateKey, After

LEMMA RetireKeyEffect ==
  ASSUME TypeInv, NEW h \in Handlers, RetireKey(h)
  PROVE  /\ At(h, "retireKey") /\ Advances(h) /\ StoreFrame("retireKey") /\ TicketFrame("retireKey")
         /\ KeyFrame("retireKey")
         /\ \/ Ends(h) /\ keys' = keys
            \/ /\ req'[h].pc = "handOver"
               /\ \E row \in KeyRow :
                    /\ OneRow(req[h].proof, row) /\ row.held = keys[req[h].proof].held
                    /\ \/ req[h].slip.life = 0 /\ row.state = "revoked"
                       \/ /\ req[h].slip.life > 0 /\ row.state = keys[req[h].proof].state
                          /\ req[h].slip.row.until # 0 => row.until <= req[h].slip.row.until
                          /\ row.until # 0
<1>. DEFINE n == req[h].proof
            slip == req[h].slip
            retireAt == slip.since + 2 * slip.life
            until == IF slip.row.until # 0 THEN Min2(slip.row.until, retireAt) ELSE retireAt
<1>1. At(h, "retireKey") /\ starts' = starts /\ StoreFrame("retireKey") /\ TicketFrame("retireKey")
  BY StillFrame, StillSockets DEF RetireKey
<1>2. n \in Rows /\ keys[n] \in KeyRow
  BY RowTypes
<1>3. slip.life \in Nat /\ slip.since \in Nat /\ slip.row.until \in Nat
  <2>1. req[h].slip \in Slip
    BY Typed, HandlerFields
  <2>. QED
    BY <2>1 DEF Slip, KeyRow
<1>4. CASE Finish(h) /\ keys' = keys
  BY <1>1, <1>4, FinishEnds, EndsAdvances, StillKeys
<1>5. ASSUME Goto(h, "handOver")
      PROVE  Advances(h) /\ req'[h].pc = "handOver"
  <2>1. Goes(h, "handOver", {})
    BY <1>1, <1>5, GotoGoes DEF PCs
  <2>2. FlowLinks(req'[h]) /\ DataLinks(req'[h])
    BY <1>1, <2>1, OldLinks DEF Goes, Same, At, FlowLinks, DataLinks, HasEmail, HasUser, OnPath
  <2>. QED
    BY <1>1, <2>1, <2>2, GoesAdvances DEF Leads, At
<1>6. CASE slip.life = 0 /\ keys' = [keys EXCEPT ![n].state = "revoked"] /\ Goto(h, "handOver")
  <2>. DEFINE row == [keys[n] EXCEPT !.state = "revoked"]
  <2>1. row \in KeyRow /\ row.state = "revoked" /\ row.held = keys[n].held
    BY <1>2 DEF KeyRow
  <2>2. keys' = [keys EXCEPT ![n] = row]
    BY <1>6
  <2>. HIDE DEF row
  <2>3. OneRow(n, row)
    BY <1>2, <2>1, <2>2, RowPut
  <2>4. KeyFrame("retireKey")
    BY <2>3 DEF KeyFrame, OneRow
  <2>. QED
    BY <1>1, <1>5, <1>6, <2>1, <2>3, <2>4
<1>7. CASE slip.life # 0 /\ keys' = [keys EXCEPT ![n].until = until] /\ Goto(h, "handOver")
  <2>. DEFINE row == [keys[n] EXCEPT !.until = until]
  <2>1. until \in Nat /\ until # 0 /\ (slip.row.until # 0 => until <= slip.row.until)
    BY <1>3, <1>7 DEF Min2
  <2>. HIDE DEF until
  <2>2. row \in KeyRow /\ row.until = until /\ row.held = keys[n].held /\ row.state = keys[n].state
    BY <1>2, <2>1 DEF KeyRow
  <2>3. keys' = [keys EXCEPT ![n] = row]
    BY <1>7
  <2>. HIDE DEF row
  <2>4. OneRow(n, row)
    BY <1>2, <2>2, <2>3, RowPut
  <2>5. KeyFrame("retireKey")
    BY <2>4 DEF KeyFrame, OneRow
  <2>. QED
    BY <1>1, <1>3, <1>5, <1>7, <2>1, <2>2, <2>4, <2>5
<1>. QED
  BY <1>4, <1>6, <1>7 DEF RetireKey, Retired, After

LEMMA HandOverEffect ==
  ASSUME TypeInv, NEW h \in Handlers, HandOver(h)
  PROVE  /\ At(h, "handOver") /\ Advances(h) /\ Ends(h) /\ StoreFrame("handOver") /\ TicketFrame("handOver")
         /\ KeyFrame("handOver")
         /\ \E row \in KeyRow :
              /\ OneRow(req[h].id, row) /\ row.state = keys[req[h].id].state
              /\ row.until = keys[req[h].id].until /\ row.held
<1>. DEFINE n == req[h].id
            row == [keys[n] EXCEPT !.held = TRUE]
<1>1. At(h, "handOver") /\ Ends(h) /\ StoreFrame("handOver") /\ TicketFrame("handOver")
      /\ keys' = [keys EXCEPT ![n].held = TRUE]
  BY FinishEnds, StillFrame, StillSockets DEF HandOver
<1>2. n \in Rows /\ keys[n] \in KeyRow
  BY RowTypes
<1>. HIDE DEF n
<1>3. row \in KeyRow /\ row.state = keys[n].state /\ row.until = keys[n].until /\ row.held
  BY <1>2 DEF KeyRow
<1>4. keys' = [keys EXCEPT ![n] = row]
  BY <1>1
<1>. HIDE DEF row
<1>5. OneRow(n, row)
  BY <1>2, <1>3, <1>4, RowPut
<1>6. KeyFrame("handOver")
  BY <1>5 DEF KeyFrame, OneRow
<1>. QED
  BY <1>1, <1>3, <1>5, <1>6, EndsAdvances DEF n

LEMMA MarkRevokedEffect ==
  ASSUME TypeInv, NEW h \in Handlers, MarkRevoked(h)
  PROVE  /\ At(h, "markRevoked") /\ Advances(h) /\ Ends(h) /\ StoreFrame("markRevoked")
         /\ TicketFrame("markRevoked") /\ KeyFrame("markRevoked")
         /\ \/ keys' = keys
            \/ OneRow(req[h].proof, [state |-> "revoked", until |-> keys[req[h].proof].until,
                                     held |-> keys[req[h].proof].held])
<1>. DEFINE n == req[h].proof
            row == [state |-> "revoked", until |-> keys[n].until, held |-> keys[n].held]
<1>1. At(h, "markRevoked") /\ Ends(h) /\ StoreFrame("markRevoked") /\ TicketFrame("markRevoked")
  BY FinishEnds, StillFrame, StillSockets DEF MarkRevoked
<1>2. CASE keys' = keys
  BY <1>1, <1>2, EndsAdvances, StillKeys
<1>3. CASE keys' = [keys EXCEPT ![n].state = "revoked"]
  <2>1. n \in Rows /\ keys[n] \in KeyRow
    BY RowTypes
  <2>. HIDE DEF n
  <2>2. row \in KeyRow /\ [keys[n] EXCEPT !.state = "revoked"] = row
    BY <2>1 DEF KeyRow
  <2>3. keys' = [keys EXCEPT ![n] = row]
    BY <1>3, <2>2
  <2>. HIDE DEF row
  <2>4. OneRow(n, row)
    BY <2>1, <2>2, <2>3, RowPut
  <2>5. KeyFrame("markRevoked")
    BY <2>4 DEF KeyFrame, OneRow
  <2>. QED
    BY <1>1, <2>4, <2>5, EndsAdvances DEF row, n
<1>. QED
  BY <1>2, <1>3 DEF MarkRevoked

-----------------------------------------------------------------------------
(* Requests *)

NewKey(q) ==
  /\ q.flow \in {"rotateKey", "revokeKey", "useKey"} => keys[q.proof].held
  /\ q.flow = "useKey" /\ q.slip.late => KeyDead(q.proof)

(* What starts where others arrive. *)
Entrance(q) ==
  /\ q.pc = "lockout" => q.flow = "login"
  /\ q.pc = "mint" => q.flow = "authorize"
  /\ q.pc = "createKey" => q.flow = "issueKey"
  /\ q.flow = "revokeKey" => "revokeKey" \in mix.requests

(* h begins, with a number nobody had. *)
Begins(h) ==
  /\ Moved(h) /\ At(h, "idle") /\ starts' = starts + 1 /\ starts + 1 \in Ids
  /\ req'[h].id = starts + 1 /\ req'[h].approved = 0
  /\ req'[h].pc \in {"lockout", "admit", "getStatus", "dropVerified", "reread", "cool", "verify", "take",
                     "self", "known", "inviter", "mint", "blacklist", "getdel", "revokeToken", "findKey",
                     "createKey", "markRevoked", "readRow"}
  /\ FlowLinks(req'[h]) /\ DataLinks(req'[h])
  /\ HasUser(req'[h]) => Exists(req'[h].user)
  /\ req'[h].data.user # None => Exists(req'[h].data.user)
  /\ req'[h].data.kind \in {"none", "state", "invite"}
  /\ Late(req'[h]) /\ NewKey(req'[h]) /\ Entrance(req'[h])

LEMMA Opening ==
  ASSUME TypeInv, NEW h \in Handlers, NEW flow, NEW s \in Handler, Begin(h, flow, s)
  PROVE  /\ Moved(h) /\ At(h, "idle") /\ starts' = starts + 1 /\ starts + 1 \in Ids
         /\ req'[h].pc = s.pc /\ req'[h].flow = flow /\ req'[h].id = starts + 1 /\ req'[h].email = s.email
         /\ req'[h].word = s.word /\ req'[h].fresh = s.fresh /\ req'[h].proof = s.proof
         /\ req'[h].user = s.user /\ req'[h].account = s.account /\ req'[h].data = s.data
         /\ req'[h].approved = s.approved /\ req'[h].slip = s.slip /\ flow \in mix.requests \cup {"rehash"}
<1>. DEFINE q == [s EXCEPT !.flow = flow, !.id = starts + 1]
<1>1. starts + 1 \in Ids /\ flow \in Flows
  BY Typed DEF Begin, Ids, Mix, Flows
<1>2. /\ q \in Handler /\ q.pc = s.pc /\ q.flow = flow /\ q.id = starts + 1 /\ q.email = s.email
      /\ q.word = s.word /\ q.fresh = s.fresh /\ q.proof = s.proof /\ q.user = s.user
      /\ q.account = s.account /\ q.data = s.data /\ q.approved = s.approved /\ q.slip = s.slip
  BY <1>1 DEF Handler
<1>3. /\ req' = [req EXCEPT ![h] = q] /\ At(h, "idle") /\ starts' = starts + 1
      /\ flow \in mix.requests \cup {"rehash"}
  BY DEF Begin
<1>. HIDE DEF q
<1>4. Moved(h) /\ req'[h] = q
  BY <1>2, <1>3, MoveFields
<1>. QED
  BY <1>1, <1>2, <1>3, <1>4

LEMMA IdleFields ==
  /\ Idle.email = None /\ Idle.word = None /\ Idle.fresh = None /\ Idle.proof = 0 /\ Idle.user = None
  /\ Idle.account = NoUser /\ Idle.data = NoEntry /\ Idle.approved = 0 /\ Idle.slip = NoSlip
  /\ NoSlip.late = FALSE /\ NoEntry.kind = "none" /\ NoEntry.user = None /\ NoEntry.email = None
BY DEF Idle, NoSlip, NoEntry

LEMMA EmailTypes ==
  ASSUME TypeInv
  PROVE  /\ mix.emails \subseteq Emails /\ None \notin Emails /\ None \notin Words /\ None \notin Users
         /\ Admin \in Users /\ Owner \in Users /\ Exists(Admin) /\ Exists(Owner)
         /\ \A n \in Ids : n \in {0} \cup Ids /\ n # 0
BY Typed, AccountAssumption DEF Mix, Users, Ids, TypeInv, Standing

LEMMA LoginBegins ==
  ASSUME TypeInv, NEW h \in Handlers, NEW e \in Emails, NEW w \in Words, Login(h, e, w)
  PROVE  Begins(h)
<1>. DEFINE s == [Idle EXCEPT !.pc = "lockout", !.email = e, !.word = w]
<1>1. "lockout" \in PCs
  BY DEF PCs
<1>2. s \in Handler
  BY <1>1, IdleType, EmailTypes DEF Handler
<1>3. /\ s.pc = "lockout" /\ s.approved = 0 /\ s.email = e /\ s.word = w /\ s.fresh = None /\ s.proof = 0 /\ s.user = None
      /\ s.account = NoUser /\ s.data = NoEntry /\ s.slip = NoSlip
  BY DEF Idle
<1>4. Begin(h, "login", s)
  BY DEF Login
<1>. HIDE DEF s
<1>. QED
  BY <1>2, <1>3, <1>4, Opening, IdleFields, EmailTypes
     DEF Begins, FlowLinks, DataLinks, EntryLinks, OnPath, HasEmail, HasUser, Late, OfToken, NewKey, Entrance

LEMMA ForUserBegins ==
  ASSUME TypeInv, NEW h \in Handlers, ForUser(h, Owner)
  PROVE  Begins(h)
<1>. DEFINE s == [Idle EXCEPT !.pc = "admit", !.user = Owner]
<1>1. "admit" \in PCs
  BY DEF PCs
<1>2. s \in Handler
  BY <1>1, IdleType, EmailTypes DEF Handler
<1>3. /\ s.pc = "admit" /\ s.approved = 0 /\ s.email = None /\ s.word = None /\ s.fresh = None /\ s.proof = 0 /\ s.user = Owner
      /\ s.account = NoUser /\ s.data = NoEntry /\ s.slip = NoSlip
  BY DEF Idle
<1>4. Begin(h, "forUser", s)
  BY DEF ForUser
<1>. HIDE DEF s
<1>. QED
  BY <1>2, <1>3, <1>4, Opening, IdleFields, EmailTypes
     DEF Begins, FlowLinks, DataLinks, EntryLinks, OnPath, HasEmail, HasUser, Late, OfToken, NewKey, Entrance

LEMMA GuardBegins ==
  ASSUME TypeInv, NEW h \in Handlers, Guard(h, Owner)
  PROVE  Begins(h)
<1>. DEFINE s == [Idle EXCEPT !.pc = "getStatus", !.user = Owner]
<1>1. "getStatus" \in PCs
  BY DEF PCs
<1>2. s \in Handler
  BY <1>1, IdleType, EmailTypes DEF Handler
<1>3. /\ s.pc = "getStatus" /\ s.approved = 0 /\ s.email = None /\ s.word = None /\ s.fresh = None /\ s.proof = 0 /\ s.user = Owner
      /\ s.account = NoUser /\ s.data = NoEntry /\ s.slip = NoSlip
  BY DEF Idle
<1>4. Begin(h, "guard", s)
  BY DEF Guard
<1>. HIDE DEF s
<1>. QED
  BY <1>2, <1>3, <1>4, Opening, IdleFields, EmailTypes
     DEF Begins, FlowLinks, DataLinks, EntryLinks, OnPath, HasEmail, HasUser, Late, OfToken, NewKey, Entrance

LEMMA AskBegins ==
  ASSUME TypeInv, NEW h \in Handlers, NEW flow \in {"forgot", "resendOtp", "resendVerification"}, NEW e \in Emails, Ask(h, flow, e)
  PROVE  Begins(h)
<1>. DEFINE s == [Idle EXCEPT !.pc = "cool", !.email = e]
<1>1. "cool" \in PCs
  BY DEF PCs
<1>2. s \in Handler
  BY <1>1, IdleType, EmailTypes DEF Handler
<1>3. /\ s.pc = "cool" /\ s.approved = 0 /\ s.email = e /\ s.word = None /\ s.fresh = None /\ s.proof = 0 /\ s.user = None
      /\ s.account = NoUser /\ s.data = NoEntry /\ s.slip = NoSlip
  BY DEF Idle
<1>4. Begin(h, flow, s)
  BY DEF Ask
<1>. HIDE DEF s
<1>. QED
  BY <1>2, <1>3, <1>4, Opening, IdleFields, EmailTypes
     DEF Begins, FlowLinks, DataLinks, EntryLinks, OnPath, HasEmail, HasUser, Late, OfToken, NewKey, Entrance

LEMMA RegisterBegins ==
  ASSUME TypeInv, NEW h \in Handlers, NEW e \in Emails, NEW w \in Words, Register(h, e, w)
  PROVE  Begins(h)
<1>. DEFINE s == [Idle EXCEPT !.pc = "known", !.email = e, !.fresh = w]
<1>1. "known" \in PCs
  BY DEF PCs
<1>2. s \in Handler
  BY <1>1, IdleType, EmailTypes DEF Handler
<1>3. /\ s.pc = "known" /\ s.approved = 0 /\ s.email = e /\ s.word = None /\ s.fresh = w /\ s.proof = 0 /\ s.user = None
      /\ s.account = NoUser /\ s.data = NoEntry /\ s.slip = NoSlip
  BY DEF Idle
<1>4. Begin(h, "register", s)
  BY DEF Register
<1>. HIDE DEF s
<1>. QED
  BY <1>2, <1>3, <1>4, Opening, IdleFields, EmailTypes
     DEF Begins, FlowLinks, DataLinks, EntryLinks, OnPath, HasEmail, HasUser, Late, OfToken, NewKey, Entrance

LEMMA RevokeBegins ==
  ASSUME TypeInv, NEW h \in Handlers, NEW u \in {Admin, Owner}, NEW e \in Emails, Revoke(h, u, e)
  PROVE  Begins(h)
<1>. DEFINE s == [Idle EXCEPT !.pc = "inviter", !.user = u, !.email = e]
<1>1. "inviter" \in PCs
  BY DEF PCs
<1>2. s \in Handler
  BY <1>1, IdleType, EmailTypes DEF Handler
<1>3. /\ s.pc = "inviter" /\ s.approved = 0 /\ s.email = e /\ s.word = None /\ s.fresh = None /\ s.proof = 0 /\ s.user = u
      /\ s.account = NoUser /\ s.data = NoEntry /\ s.slip = NoSlip
  BY DEF Idle
<1>4. Begin(h, "revoke", s)
  BY DEF Revoke
<1>. HIDE DEF s
<1>. QED
  BY <1>2, <1>3, <1>4, Opening, IdleFields, EmailTypes
     DEF Begins, FlowLinks, DataLinks, EntryLinks, OnPath, HasEmail, HasUser, Late, OfToken, NewKey, Entrance

LEMMA PresentBegins ==
  ASSUME TypeInv, NEW h \in Handlers, NEW flow \in {"verifyOtp", "verifyEmail", "resetOtp"}, NEW e \in Emails, NEW code \in {0} \cup Ids, NEW w \in Words \cup {None}, Present(h, flow, e, code, w)
  PROVE  Begins(h)
<1>. DEFINE s == [Idle EXCEPT !.pc = "verify", !.email = e, !.proof = code, !.fresh = w]
<1>1. "verify" \in PCs
  BY DEF PCs
<1>2. s \in Handler
  BY <1>1, IdleType, EmailTypes DEF Handler
<1>3. /\ s.pc = "verify" /\ s.approved = 0 /\ s.email = e /\ s.word = None /\ s.fresh = w /\ s.proof = code /\ s.user = None
      /\ s.account = NoUser /\ s.data = NoEntry /\ s.slip = NoSlip
  BY DEF Idle
<1>4. Begin(h, flow, s)
  BY DEF Present
<1>. HIDE DEF s
<1>. QED
  BY <1>2, <1>3, <1>4, Opening, IdleFields, EmailTypes
     DEF Begins, FlowLinks, DataLinks, EntryLinks, OnPath, HasEmail, HasUser, Late, OfToken, NewKey, Entrance, Present

LEMMA RedeemBegins ==
  ASSUME TypeInv, NEW h \in Handlers, NEW flow \in {"reset", "confirmMove", "accept", "callback"}, NEW e \in Emails \cup {None}, NEW n \in Ids, NEW w \in Words \cup {None}, Redeem(h, flow, e, n, w)
  PROVE  Begins(h)
<1>. DEFINE s == [Idle EXCEPT !.pc = "take", !.email = e, !.proof = n, !.fresh = w]
<1>1. "take" \in PCs
  BY DEF PCs
<1>2. s \in Handler
  BY <1>1, IdleType, EmailTypes DEF Handler
<1>3. /\ s.pc = "take" /\ s.approved = 0 /\ s.email = e /\ s.word = None /\ s.fresh = w /\ s.proof = n /\ s.user = None
      /\ s.account = NoUser /\ s.data = NoEntry /\ s.slip = NoSlip
  BY DEF Idle
<1>4. Begin(h, flow, s)
  BY DEF Redeem
<1>. HIDE DEF s
<1>. QED
  BY <1>2, <1>3, <1>4, Opening, IdleFields, EmailTypes
     DEF Begins, FlowLinks, DataLinks, EntryLinks, OnPath, HasEmail, HasUser, Late, OfToken, NewKey, Entrance, Redeem

LEMMA ChangeBegins ==
  ASSUME TypeInv, NEW h \in Handlers, NEW flow \in {"change", "requestMove"}, NEW w \in Words, NEW fresh \in Words \cup {None}, NEW e \in Emails \cup {None}, Change(h, flow, Owner, w, fresh, e)
  PROVE  Begins(h)
<1>. DEFINE s == [Idle EXCEPT !.pc = "self", !.user = Owner, !.word = w, !.fresh = fresh, !.email = e]
<1>1. "self" \in PCs
  BY DEF PCs
<1>2. s \in Handler
  BY <1>1, IdleType, EmailTypes DEF Handler
<1>3. /\ s.pc = "self" /\ s.approved = 0 /\ s.email = e /\ s.word = w /\ s.fresh = fresh /\ s.proof = 0 /\ s.user = Owner
      /\ s.account = NoUser /\ s.data = NoEntry /\ s.slip = NoSlip
  BY DEF Idle
<1>4. Begin(h, flow, s)
  BY DEF Change
<1>. HIDE DEF s
<1>. QED
  BY <1>2, <1>3, <1>4, Opening, IdleFields, EmailTypes
     DEF Begins, FlowLinks, DataLinks, EntryLinks, OnPath, HasEmail, HasUser, Late, OfToken, NewKey, Entrance, Change

LEMMA SuspendBegins ==
  ASSUME TypeInv, NEW h \in Handlers, NEW u \in Users, Suspend(h, u)
  PROVE  Begins(h)
<1>. DEFINE s == [Idle EXCEPT !.pc = "dropVerified", !.user = u]
<1>1. "dropVerified" \in PCs
  BY DEF PCs
<1>2. s \in Handler
  BY <1>1, IdleType, EmailTypes DEF Handler
<1>3. /\ s.pc = "dropVerified" /\ s.approved = 0 /\ s.email = None /\ s.word = None /\ s.fresh = None /\ s.proof = 0 /\ s.user = u
      /\ s.account = NoUser /\ s.data = NoEntry /\ s.slip = NoSlip
  BY DEF Idle
<1>4. Begin(h, "suspend", s)
  BY DEF Suspend
<1>. HIDE DEF s
<1>. QED
  BY <1>2, <1>3, <1>4, Opening, IdleFields, EmailTypes
     DEF Begins, FlowLinks, DataLinks, EntryLinks, OnPath, HasEmail, HasUser, Late, OfToken, NewKey, Entrance, Suspend

LEMMA RevokeKeyBegins ==
  ASSUME TypeInv, NEW h \in Handlers, NEW n \in Rows, RevokeKey(h, n)
  PROVE  Begins(h)
<1>. DEFINE s == [Idle EXCEPT !.pc = "markRevoked", !.proof = n]
<1>1. "markRevoked" \in PCs
  BY DEF PCs
<1>2. s \in Handler
  BY <1>1, IdleType, EmailTypes DEF Handler, Rows
<1>3. /\ s.pc = "markRevoked" /\ s.approved = 0 /\ s.email = None /\ s.word = None /\ s.fresh = None /\ s.proof = n /\ s.user = None
      /\ s.account = NoUser /\ s.data = NoEntry /\ s.slip = NoSlip
  BY DEF Idle
<1>4. Begin(h, "revokeKey", s)
  BY DEF RevokeKey
<1>. HIDE DEF s
<1>. QED
  BY <1>2, <1>3, <1>4, Opening, IdleFields, EmailTypes
     DEF Begins, FlowLinks, DataLinks, EntryLinks, OnPath, HasEmail, HasUser, Late, OfToken, NewKey, Entrance, RevokeKey

LEMMA RehashBegins ==
  ASSUME TypeInv, NEW h \in Handlers, NEW job \in jobs, Rehash(h, job)
  PROVE  Begins(h)
<1>. DEFINE a == [Idle.account EXCEPT !.hash = job.hash]
            s == [Idle EXCEPT !.pc = "reread", !.user = job.user, !.word = job.word, !.account = a]
<1>1. "reread" \in PCs
  BY DEF PCs
<1>2. job \in Job /\ Exists(job.user)
  BY Typed DEF TypeInv, Standing
<1>3. job.user \in Users /\ job.word \in Words /\ job.hash \in Hash
  BY <1>2 DEF Job
<1>4. a \in User
  BY <1>3, IdleFields, Nulls DEF User
<1>5. Begin(h, "rehash", s)
  BY DEF Rehash
<1>. HIDE DEF a
<1>6. s \in Handler
  BY <1>1, <1>3, <1>4, IdleType DEF Handler
<1>7. /\ s.pc = "reread" /\ s.approved = 0 /\ s.email = None /\ s.word = job.word /\ s.user = job.user
      /\ s.data = NoEntry /\ s.slip = NoSlip
  BY DEF Idle
<1>. HIDE DEF s
<1>. QED
  BY <1>2, <1>3, <1>5, <1>6, <1>7, Opening, IdleFields, EmailTypes
     DEF Begins, FlowLinks, DataLinks, EntryLinks, OnPath, HasEmail, HasUser, Late, OfToken, NewKey, Entrance

LEMMA AuthorizeBegins ==
  ASSUME TypeInv, NEW h \in Handlers, Authorize(h)
  PROVE  Begins(h)
<1>. DEFINE d == [Idle.data EXCEPT !.kind = "state"]
            s == [Idle EXCEPT !.pc = "mint", !.data = d]
<1>1. "mint" \in PCs
  BY DEF PCs
<1>2. d \in Entry /\ d.kind = "state" /\ d.user = None
  BY IdleFields, Nulls DEF Entry
<1>3. Begin(h, "authorize", s)
  BY DEF Authorize
<1>. HIDE DEF d
<1>4. s \in Handler
  <2>. DEFINE r == [Idle EXCEPT !.pc = "mint"]
  <2>1. r \in Handler
    BY <1>1, IdleType DEF Handler
  <2>2. s = [r EXCEPT !.data = d]
    OBVIOUS
  <2>. HIDE DEF r, s
  <2>. QED
    BY <1>2, <2>1, <2>2 DEF Handler
<1>5. s.pc = "mint" /\ s.approved = 0 /\ s.email = None /\ s.user = None /\ s.data = d /\ s.slip = NoSlip
  BY DEF Idle
<1>. HIDE DEF s
<1>. QED
  BY <1>2, <1>3, <1>4, <1>5, Opening, IdleFields, EmailTypes
     DEF Begins, FlowLinks, DataLinks, EntryLinks, OnPath, HasEmail, HasUser, Late, OfToken, NewKey, Entrance

LEMMA InviteBegins ==
  ASSUME TypeInv, NEW h \in Handlers, NEW u \in {Admin, Owner}, NEW e \in Emails, NEW rank \in 1..2,
         Invite(h, u, e, rank)
  PROVE  Begins(h)
<1>. DEFINE d == [NoEntry EXCEPT !.kind = "invite", !.user = u, !.email = e, !.rank = rank]
            s == [Idle EXCEPT !.pc = "inviter", !.user = u, !.email = e, !.data = d]
<1>1. "inviter" \in PCs
  BY DEF PCs
<1>2. d \in Entry /\ d.kind = "invite" /\ d.user = u /\ d.email = e
  <2>1. u \in Users /\ rank \in 0..2
    BY EmailTypes
  <2>2. d \in Entry
    BY <2>1, Nulls DEF Entry
  <2>. QED
    BY <2>2, Nulls DEF Entry
<1>3. Begin(h, "invite", s)
  BY DEF Invite
<1>. HIDE DEF d
<1>4. s \in Handler
  BY <1>1, <1>2, IdleType, EmailTypes DEF Handler
<1>5. s.pc = "inviter" /\ s.approved = 0 /\ s.email = e /\ s.user = u /\ s.data = d /\ s.slip = NoSlip
  BY DEF Idle
<1>. HIDE DEF s
<1>. QED
  BY <1>2, <1>3, <1>4, <1>5, Opening, IdleFields, EmailTypes
     DEF Begins, FlowLinks, DataLinks, EntryLinks, OnPath, HasEmail, HasUser, Late, OfToken, NewKey, Entrance

LEMMA PresentedFields ==
  ASSUME TypeInv, NEW late \in BOOLEAN, NEW s, s = Presented(late)
  PROVE  /\ s \in Handler /\ s.pc = "blacklist" /\ s.approved = 0 /\ s.email = None /\ s.user = Owner
         /\ s.data = NoEntry /\ s.slip.late = late /\ s.slip.since = now
<1>. DEFINE p == [Idle.slip EXCEPT !.late = late, !.since = now]
            q == [Idle EXCEPT !.pc = "blacklist", !.user = Owner, !.slip = p]
<1>1. "blacklist" \in PCs
  BY DEF PCs
<1>2. p \in Slip /\ p.late = late /\ p.since = now
  BY IdleFields, Nulls, Typed DEF Slip
<1>3. s = q
  <2>1. [Idle EXCEPT !.pc = "blacklist", !.user = Owner, !.slip.late = late, !.slip.since = now] = q
    BY IdleType DEF Handler
  <2>. QED
    BY <2>1 DEF Presented
<1>. HIDE DEF p
<1>4. q \in Handler
  BY <1>1, <1>2, IdleType, EmailTypes DEF Handler
<1>5. q.pc = "blacklist" /\ q.approved = 0 /\ q.email = None /\ q.user = Owner /\ q.data = NoEntry /\ q.slip = p
  BY DEF Idle
<1>. QED
  BY <1>2, <1>3, <1>4, <1>5

LEMMA Clock ==
  ASSUME TypeInv
  PROVE  /\ Ended \in BOOLEAN /\ Unexpired \in BOOLEAN /\ (Unexpired <=> now < 2 * TokenLife)
         /\ TokenLife \in Nat /\ Remaining \in Int /\ 2 * Remaining + now >= 2 * TokenLife
<1>1. TokenLife \in Nat /\ now \in Nat
  BY Typed, TicketAssumption
<1>2. now = 2 * (now \div 2) \/ now = 2 * (now \div 2) + 1
  BY <1>1
<1>. QED
  BY <1>1, <1>2 DEF Ended, Unexpired, Remaining, Floor

LEMMA TokenBegins ==
  ASSUME TypeInv, NEW h \in Handlers, NEW flow \in {"bearer", "verify", "ticket"},
         Unexpired, Begin(h, flow, Presented(Ended))
  PROVE  Begins(h)
<1>. DEFINE s == Presented(Ended)
<1>1. /\ s \in Handler /\ s.pc = "blacklist" /\ s.approved = 0 /\ s.email = None /\ s.user = Owner
      /\ s.data = NoEntry /\ s.slip.late = Ended /\ s.slip.since = now
  BY PresentedFields, Clock
<1>2. Begin(h, flow, s)
  OBVIOUS
<1>. HIDE DEF s
<1>. QED
  BY <1>1, <1>2, Opening, IdleFields, EmailTypes, Clock, Typed
     DEF Begins, FlowLinks, DataLinks, EntryLinks, OnPath, HasEmail, HasUser, Late, OfToken, NewKey, Entrance

LEMMA OpenSocketBegins ==
  ASSUME TypeInv, NEW h \in Handlers, NEW n \in Ids, OpenSocket(h, n)
  PROVE  Begins(h)
<1>. DEFINE r == Presented(Ended \/ ~Unexpired)
            s == [r EXCEPT !.pc = "getdel", !.proof = n]
<1>1. "getdel" \in PCs
  BY DEF PCs
<1>2. /\ r \in Handler /\ r.approved = 0 /\ r.email = None /\ r.user = Owner
      /\ r.data = NoEntry /\ r.slip.late = (Ended \/ ~Unexpired) /\ r.slip.since = now
  BY PresentedFields, Clock
<1>3. Begin(h, "redeem", s)
  BY DEF OpenSocket
<1>. HIDE DEF r
<1>4. s \in Handler
  <2>1. r \in Handler
    BY <1>2
  <2>. QED
    BY <1>1, <2>1 DEF Handler
<1>5. /\ s.pc = "getdel" /\ s.approved = 0 /\ s.email = None /\ s.user = Owner /\ s.proof = n
      /\ s.data = NoEntry /\ s.slip.late = (Ended \/ ~Unexpired) /\ s.slip.since = now
  BY <1>2 DEF Handler
<1>. HIDE DEF s
<1>. QED
  BY <1>3, <1>4, <1>5, Opening, IdleFields, EmailTypes, Clock, Typed
     DEF Begins, FlowLinks, DataLinks, EntryLinks, OnPath, HasEmail, HasUser, Late, OfToken, NewKey, Entrance

LEMMA SignOutBegins ==
  ASSUME TypeInv, NEW h \in Handlers, SignOut(h)
  PROVE  Begins(h)
<1>. DEFINE p == [Idle.slip EXCEPT !.life = Remaining]
            s == [Idle EXCEPT !.pc = "revokeToken", !.slip = p]
<1>1. "revokeToken" \in PCs
  BY DEF PCs
<1>2. Remaining \in Nat
  BY Clock DEF SignOut
<1>3. p \in Slip /\ p.late = FALSE /\ p.life = Remaining
  BY <1>2, IdleFields, Nulls DEF Slip
<1>4. Begin(h, "signOut", s)
  BY DEF SignOut
<1>. HIDE DEF p
<1>5. s \in Handler
  BY <1>1, <1>3, IdleType DEF Handler
<1>6. s.pc = "revokeToken" /\ s.approved = 0 /\ s.email = None /\ s.user = None /\ s.data = NoEntry /\ s.slip = p
  BY DEF Idle
<1>. HIDE DEF s
<1>. QED
  BY <1>3, <1>4, <1>5, <1>6, Opening, IdleFields, EmailTypes, Clock, Typed
     DEF Begins, FlowLinks, DataLinks, EntryLinks, OnPath, HasEmail, HasUser, Late, OfToken, NewKey, Entrance

LEMMA IssueKeyBegins ==
  ASSUME TypeInv, NEW h \in Handlers, NEW until \in Expiries, IssueKey(h, until)
  PROVE  Begins(h)
<1>. DEFINE p == [Idle.slip EXCEPT !.row.until = until]
            s == [Idle EXCEPT !.pc = "createKey", !.slip = p]
<1>1. "createKey" \in PCs
  BY DEF PCs
<1>2. until \in Nat
  BY Typed DEF Expiries
<1>3. p \in Slip /\ p.late = FALSE
  BY <1>2, IdleFields, Nulls DEF Slip, KeyRow, NoSlip
<1>4. Begin(h, "issueKey", s)
  BY DEF IssueKey
<1>. HIDE DEF p
<1>5. s \in Handler
  BY <1>1, <1>3, IdleType DEF Handler
<1>6. s.pc = "createKey" /\ s.approved = 0 /\ s.email = None /\ s.user = None /\ s.data = NoEntry /\ s.slip = p
  BY DEF Idle
<1>. HIDE DEF s
<1>. QED
  BY <1>3, <1>4, <1>5, <1>6, Opening, IdleFields, EmailTypes
     DEF Begins, FlowLinks, DataLinks, EntryLinks, OnPath, HasEmail, HasUser, Late, OfToken, NewKey, Entrance

LEMMA RotateKeyBegins ==
  ASSUME TypeInv, NEW h \in Handlers, NEW n \in Rows, NEW overlap \in 0..1, RotateKey(h, n, overlap)
  PROVE  Begins(h)
<1>. DEFINE p == [Idle.slip EXCEPT !.since = now, !.life = overlap]
            s == [Idle EXCEPT !.pc = "findKey", !.proof = n, !.slip = p]
<1>1. "findKey" \in PCs
  BY DEF PCs
<1>2. p \in Slip /\ p.late = FALSE
  <2>1. now \in Nat /\ overlap \in Nat
    BY Typed
  <2>2. p \in Slip
    BY <2>1, IdleFields, Nulls DEF Slip
  <2>. QED
    BY <2>2, IdleFields, Nulls DEF Slip
<1>3. Begin(h, "rotateKey", s) /\ keys[n].held
  <2>1. [Idle EXCEPT !.pc = "findKey", !.proof = n, !.slip.since = now, !.slip.life = overlap] = s
    BY IdleType DEF Handler
  <2>. QED
    BY <2>1 DEF RotateKey
<1>. HIDE DEF p
<1>4. s \in Handler
  BY <1>1, <1>2, IdleType DEF Handler, Rows
<1>5. /\ s.pc = "findKey" /\ s.approved = 0 /\ s.email = None /\ s.user = None /\ s.proof = n
      /\ s.data = NoEntry /\ s.slip = p
  BY DEF Idle
<1>. HIDE DEF s
<1>. QED
  BY <1>2, <1>3, <1>4, <1>5, Opening, IdleFields, EmailTypes
     DEF Begins, FlowLinks, DataLinks, EntryLinks, OnPath, HasEmail, HasUser, Late, OfToken, NewKey, Entrance

LEMMA UseKeyBegins ==
  ASSUME TypeInv, NEW h \in Handlers, NEW n \in Rows, UseKey(h, n)
  PROVE  Begins(h)
<1>. DEFINE p == [Idle.slip EXCEPT !.late = Dead(n)]
            s == [Idle EXCEPT !.pc = "readRow", !.proof = n, !.slip = p]
<1>1. "readRow" \in PCs
  BY DEF PCs
<1>2. Dead(n) \in BOOLEAN /\ (Dead(n) => KeyDead(n))
  BY DEF Dead, KeyDead, Over
<1>3. p \in Slip /\ p.late = Dead(n)
  BY <1>2, IdleFields, Nulls DEF Slip
<1>4. Begin(h, "useKey", s) /\ keys[n].held
  BY DEF UseKey
<1>. HIDE DEF p
<1>5. s \in Handler
  BY <1>1, <1>3, IdleType DEF Handler, Rows
<1>6. /\ s.pc = "readRow" /\ s.approved = 0 /\ s.email = None /\ s.user = None /\ s.proof = n
      /\ s.data = NoEntry /\ s.slip = p
  BY DEF Idle
<1>. HIDE DEF s
<1>. QED
  BY <1>2, <1>3, <1>4, <1>5, <1>6, Opening, IdleFields, EmailTypes
     DEF Begins, FlowLinks, DataLinks, EntryLinks, OnPath, HasEmail, HasUser, Late, OfToken, NewKey, Entrance

-----------------------------------------------------------------------------
(* Steps and requests at large *)

LEMMA FrameUsers ==
  ASSUME TypeInv, NEW pc, pc \notin {"upgrade", "write", "move", "flag", "create", "link"}, StoreFrame(pc)
  PROVE  UserFrame(pc)
BY StillUsers DEF StoreFrame

(* A step of h, from where it is. *)
StepFrame(h) ==
  /\ ~At(h, "idle") /\ Advances(h) /\ StoreFrame(req[h].pc) /\ UserFrame(req[h].pc)
  /\ TicketFrame(req[h].pc) /\ KeyFrame(req[h].pc)

LEMMA UpgradeFrame ==
  ASSUME TypeInv, NEW h \in Handlers
  PROVE  (Upgrade(h) => UserFrame("upgrade")) /\ (Write(h) => UserFrame("write"))
<1>1. ASSUME At(h, "upgrade") \/ At(h, "write")
      PROVE  Exists(req[h].user)
  BY <1>1, OldLinks DEF TypeInv, Standing, HasUser, FlowLinks, OnPath, At
<1>2. ASSUME Upgrade(h) PROVE UserFrame("upgrade")
  BY <1>1, <1>2, UpgradeEffect, UpgradeUsers
<1>3. ASSUME Write(h) PROVE UserFrame("write")
  BY <1>1, <1>3, WriteEffect, UpgradeUsers
<1>. QED
  BY <1>2, <1>3

LEMMA CredentialFrame ==
  ASSUME TypeInv, NEW h \in Handlers, CredentialStep(h), UNCHANGED <<now, ws, keys>>
  PROVE  StepFrame(h)
<1>1. CASE Lockout(h)
  BY <1>1, LockoutEffect, FrameUsers, StillSockets, StillKeys DEF StepFrame, At
<1>2. CASE Fail(h)
  BY <1>2, FailEffect, FrameUsers, StillSockets, StillKeys DEF StepFrame, At
<1>3. CASE Clear(h)
  BY <1>3, ClearEffect, FrameUsers, StillSockets, StillKeys DEF StepFrame, At
<1>4. CASE Find(h)
  BY <1>4, FindEffect, FrameUsers, StillSockets, StillKeys DEF StepFrame, At
<1>5. CASE Admit(h)
  BY <1>5, AdmitEffect, FrameUsers, StillSockets, StillKeys DEF StepFrame, At
<1>6. CASE SignAccess(h)
  BY <1>6, SignAccessEffect, FrameUsers, StillSockets, StillKeys DEF StepFrame, At
<1>7. CASE WriteSession(h)
  BY <1>7, WriteSessionEffect, FrameUsers, StillSockets, StillKeys DEF StepFrame, At
<1>8. CASE Reread(h)
  BY <1>8, RereadEffect, FrameUsers, StillSockets, StillKeys DEF StepFrame, At
<1>9. CASE Upgrade(h)
  BY <1>9, UpgradeEffect, UpgradeFrame, StillSockets, StillKeys DEF StepFrame, At
<1>10. CASE Cool(h)
  BY <1>10, CoolEffect, FrameUsers, StillSockets, StillKeys DEF StepFrame, At
<1>11. CASE Account(h)
  BY <1>11, AccountEffect, FrameUsers, StillSockets, StillKeys DEF StepFrame, At
<1>12. CASE Release(h)
  BY <1>12, ReleaseEffect, FrameUsers, StillSockets, StillKeys DEF StepFrame, At
<1>13. CASE StoreCode(h)
  BY <1>13, StoreCodeEffect, FrameUsers, StillSockets, StillKeys DEF StepFrame, At
<1>14. CASE Fingerprint(h)
  BY <1>14, FingerprintEffect, FrameUsers, StillSockets, StillKeys DEF StepFrame, At
<1>15. CASE Mint(h)
  BY <1>15, MintEffect, FrameUsers, StillSockets, StillKeys DEF StepFrame, At
<1>16. CASE Mail(h)
  BY <1>16, MailEffect, FrameUsers, StillSockets, StillKeys DEF StepFrame, At
<1>17. CASE VerifyCode(h)
  BY <1>17, VerifyCodeEffect, FrameUsers, StillSockets, StillKeys DEF StepFrame, At
<1>18. CASE FindOwner(h)
  BY <1>18, FindOwnerEffect, FrameUsers, StillSockets, StillKeys DEF StepFrame, At
<1>19. CASE Take(h)
  BY <1>19, TakeEffect, FrameUsers, StillSockets, StillKeys DEF StepFrame, At
<1>20. CASE Bound(h)
  BY <1>20, BoundEffect, FrameUsers, StillSockets, StillKeys DEF StepFrame, At
<1>21. CASE FindSelf(h)
  BY <1>21, FindSelfEffect, FrameUsers, StillSockets, StillKeys DEF StepFrame, At
<1>22. CASE Keep(h)
  BY <1>22, KeepEffect, FrameUsers, StillSockets, StillKeys DEF StepFrame, At
<1>23. CASE Write(h)
  BY <1>23, WriteEffect, UpgradeFrame, StillSockets, StillKeys DEF StepFrame, At
<1>24. CASE Sweep(h)
  BY <1>24, SweepEffect, FrameUsers, StillSockets, StillKeys DEF StepFrame, At
<1>25. CASE Bump(h)
  BY <1>25, BumpEffect, FrameUsers, StillSockets, StillKeys DEF StepFrame, At
<1>26. CASE Notify(h)
  BY <1>26, NotifyEffect, FrameUsers, StillSockets, StillKeys DEF StepFrame, At
<1>27. CASE Free(h)
  BY <1>27, FreeEffect, FrameUsers, StillSockets, StillKeys DEF StepFrame, At
<1>28. CASE Move(h)
  BY <1>28, MoveEffect, StillSockets, StillKeys DEF StepFrame, At
<1>29. CASE Flag(h)
  BY <1>29, FlagEffect, StillSockets, StillKeys DEF StepFrame, At
<1>30. CASE DropVerified(h)
  BY <1>30, DropVerifiedEffect, FrameUsers, StillSockets, StillKeys DEF StepFrame, At
<1>31. CASE DropStatus(h)
  BY <1>31, DropStatusEffect, FrameUsers, StillSockets, StillKeys DEF StepFrame, At
<1>32. CASE GetStatus(h)
  BY <1>32, GetStatusEffect, FrameUsers, StillSockets, StillKeys DEF StepFrame, At
<1>33. CASE GetVerified(h)
  BY <1>33, GetVerifiedEffect, FrameUsers, StillSockets, StillKeys DEF StepFrame, At
<1>34. CASE Resolve(h)
  BY <1>34, ResolveEffect, FrameUsers, StillSockets, StillKeys DEF StepFrame, At
<1>35. CASE SetStatus(h)
  BY <1>35, SetStatusEffect, FrameUsers, StillSockets, StillKeys DEF StepFrame, At
<1>36. CASE SetVerified(h)
  BY <1>36, SetVerifiedEffect, FrameUsers, StillSockets, StillKeys DEF StepFrame, At
<1>. QED
  BY <1>1, <1>2, <1>3, <1>4, <1>5, <1>6, <1>7, <1>8, <1>9, <1>10, <1>11, <1>12, <1>13, <1>14, <1>15, <1>16, <1>17, <1>18, <1>19, <1>20, <1>21, <1>22, <1>23, <1>24, <1>25, <1>26, <1>27, <1>28, <1>29, <1>30, <1>31, <1>32, <1>33, <1>34, <1>35, <1>36 DEF CredentialStep

LEMMA OnboardingFrame ==
  ASSUME TypeInv, NEW h \in Handlers, OnboardingStep(h), UNCHANGED <<now, ws, keys>>
  PROVE  StepFrame(h)
<1>1. CASE Known(h)
  BY <1>1, KnownEffect, FrameUsers, StillSockets, StillKeys DEF StepFrame, At
<1>2. CASE Create(h)
  BY <1>2, CreateEffect, StillSockets, StillKeys DEF StepFrame, At
<1>3. CASE Inviter(h)
  BY <1>3, InviterEffect, FrameUsers, StillSockets, StillKeys DEF StepFrame, At
<1>4. CASE Index(h)
  BY <1>4, IndexEffect, FrameUsers, StillSockets, StillKeys DEF StepFrame, At
<1>5. CASE Pending(h)
  BY <1>5, PendingEffect, FrameUsers, StillSockets, StillKeys DEF StepFrame, At
<1>6. CASE Claim(h)
  BY <1>6, ClaimEffect, FrameUsers, StillSockets, StillKeys DEF StepFrame, At
<1>7. CASE Remove(h)
  BY <1>7, RemoveEffect, FrameUsers, StillSockets, StillKeys DEF StepFrame, At
<1>8. CASE Confirm(h)
  BY <1>8, ConfirmEffect, FrameUsers, StillSockets, StillKeys DEF StepFrame, At
<1>9. CASE Withdraw(h)
  BY <1>9, WithdrawEffect, FrameUsers, StillSockets, StillKeys DEF StepFrame, At
<1>10. CASE Unindex(h)
  BY <1>10, UnindexEffect, FrameUsers, StillSockets, StillKeys DEF StepFrame, At
<1>11. CASE Authority(h)
  BY <1>11, AuthorityEffect, FrameUsers, StillSockets, StillKeys DEF StepFrame, At
<1>12. CASE Exchange(h)
  BY <1>12, ExchangeEffect, FrameUsers, StillSockets, StillKeys DEF StepFrame, At
<1>13. CASE Link(h)
  BY <1>13, LinkEffect, StillSockets, StillKeys DEF StepFrame, At
<1>. QED
  BY <1>1, <1>2, <1>3, <1>4, <1>5, <1>6, <1>7, <1>8, <1>9, <1>10, <1>11, <1>12, <1>13 DEF OnboardingStep

TicketStep(h) ==
  ReadBlacklist(h) \/ ReadEpoch(h) \/ Pass(h) \/ LookUp(h) \/ Measure(h)
  \/ MintTicket(h) \/ TakeTicket(h) \/ Blacklist(h)

LEMMA TicketStepFrame ==
  ASSUME TypeInv, NEW h \in Handlers, TicketStep(h), UNCHANGED keys
  PROVE  StepFrame(h)
<1>1. CASE ReadBlacklist(h)
  BY <1>1, ReadBlacklistEffect, FrameUsers, StillSockets, StillKeys DEF StepFrame, At, ReadBlacklist
<1>2. CASE ReadEpoch(h)
  BY <1>2, ReadEpochEffect, FrameUsers, StillSockets, StillKeys DEF StepFrame, At, ReadEpoch
<1>3. CASE Pass(h)
  BY <1>3, PassEffect, FrameUsers, StillSockets, StillKeys DEF StepFrame, At, Pass
<1>4. CASE LookUp(h)
  BY <1>4, LookUpEffect, FrameUsers, StillSockets, StillKeys DEF StepFrame, At, LookUp
<1>5. CASE Measure(h)
  BY <1>5, MeasureEffect, FrameUsers, StillKeys DEF StepFrame, At
<1>6. CASE MintTicket(h)
  BY <1>6, MintTicketEffect, FrameUsers, StillKeys DEF StepFrame, At
<1>7. CASE TakeTicket(h)
  BY <1>7, TakeTicketEffect, FrameUsers, StillKeys DEF StepFrame, At
<1>8. CASE Blacklist(h)
  BY <1>8, BlacklistEffect, FrameUsers, StillKeys DEF StepFrame, At
<1>. QED
  BY <1>1, <1>2, <1>3, <1>4, <1>5, <1>6, <1>7, <1>8 DEF TicketStep

KeyStep(h) ==
  FindKey(h) \/ CreateKey(h) \/ RetireKey(h) \/ HandOver(h) \/ MarkRevoked(h)
  \/ ReadRow(h) \/ Judge(h) \/ Audit(h)

LEMMA KeyStepFrame ==
  ASSUME TypeInv, NEW h \in Handlers, KeyStep(h)
  PROVE  StepFrame(h)
<1>1. CASE FindKey(h)
  BY <1>1, FindKeyEffect, FrameUsers, StillKeys DEF StepFrame, At
<1>2. CASE CreateKey(h)
  BY <1>2, CreateKeyEffect, FrameUsers DEF StepFrame, At
<1>3. CASE RetireKey(h)
  BY <1>3, RetireKeyEffect, FrameUsers DEF StepFrame, At
<1>4. CASE HandOver(h)
  BY <1>4, HandOverEffect, FrameUsers DEF StepFrame, At
<1>5. CASE MarkRevoked(h)
  BY <1>5, MarkRevokedEffect, FrameUsers DEF StepFrame, At
<1>6. CASE ReadRow(h)
  BY <1>6, ReadRowEffect, FrameUsers, StillKeys DEF StepFrame, At
<1>7. CASE Judge(h)
  BY <1>7, JudgeEffect, FrameUsers, StillSockets, StillKeys DEF StepFrame, At, Judge
<1>8. CASE Audit(h)
  BY <1>8, AuditEffect, FrameUsers, StillSockets, StillKeys DEF StepFrame, At, Audit
<1>. QED
  BY <1>1, <1>2, <1>3, <1>4, <1>5, <1>6, <1>7, <1>8 DEF KeyStep

Step(h) ==
  \/ (CredentialStep(h) \/ OnboardingStep(h)) /\ UNCHANGED <<now, ws, keys>>
  \/ TicketStep(h) /\ UNCHANGED keys
  \/ KeyStep(h)

LEMMA StepFrames ==
  ASSUME TypeInv, NEW h \in Handlers, Step(h)
  PROVE  StepFrame(h)
BY CredentialFrame, OnboardingFrame, TicketStepFrame, KeyStepFrame DEF Step

(* A step is the action of the place its handler is at. *)
LEMMA StepPlace ==
  ASSUME NEW h \in Handlers, Step(h)
  PROVE  /\ (At(h, "lockout") => Lockout(h)) /\ (At(h, "fail") => Fail(h)) /\ (At(h, "clear") => Clear(h))
         /\ (At(h, "find") => Find(h)) /\ (At(h, "admit") => Admit(h)) /\ (At(h, "epoch") => SignAccess(h))
         /\ (At(h, "session") => WriteSession(h)) /\ (At(h, "reread") => Reread(h)) /\ (At(h, "upgrade") => Upgrade(h))
         /\ (At(h, "cool") => Cool(h)) /\ (At(h, "account") => Account(h)) /\ (At(h, "release") => Release(h))
         /\ (At(h, "code") => StoreCode(h)) /\ (At(h, "fingerprint") => Fingerprint(h)) /\ (At(h, "mint") => Mint(h))
         /\ (At(h, "mail") => Mail(h)) /\ (At(h, "verify") => VerifyCode(h)) /\ (At(h, "owner") => FindOwner(h))
         /\ (At(h, "take") => Take(h)) /\ (At(h, "bound") => Bound(h)) /\ (At(h, "self") => FindSelf(h))
         /\ (At(h, "keep") => Keep(h)) /\ (At(h, "write") => Write(h)) /\ (At(h, "sweep") => Sweep(h))
         /\ (At(h, "bump") => Bump(h)) /\ (At(h, "notify") => Notify(h)) /\ (At(h, "free") => Free(h))
         /\ (At(h, "move") => Move(h)) /\ (At(h, "flag") => Flag(h)) /\ (At(h, "dropVerified") => DropVerified(h))
         /\ (At(h, "dropStatus") => DropStatus(h)) /\ (At(h, "getStatus") => GetStatus(h)) /\ (At(h, "getVerified") => GetVerified(h))
         /\ (At(h, "resolve") => Resolve(h)) /\ (At(h, "setStatus") => SetStatus(h)) /\ (At(h, "setVerified") => SetVerified(h))
         /\ (At(h, "known") => Known(h)) /\ (At(h, "create") => Create(h)) /\ (At(h, "inviter") => Inviter(h))
         /\ (At(h, "index") => Index(h)) /\ (At(h, "pending") => Pending(h)) /\ (At(h, "claim") => Claim(h))
         /\ (At(h, "remove") => Remove(h)) /\ (At(h, "confirm") => Confirm(h)) /\ (At(h, "withdraw") => Withdraw(h))
         /\ (At(h, "unindex") => Unindex(h)) /\ (At(h, "authority") => Authority(h)) /\ (At(h, "exchange") => Exchange(h))
         /\ (At(h, "link") => Link(h)) /\ (At(h, "blacklist") => ReadBlacklist(h)) /\ (At(h, "bulk") => ReadEpoch(h))
         /\ (At(h, "pass") => Pass(h)) /\ (At(h, "lookUp") => LookUp(h)) /\ (At(h, "measure") => Measure(h))
         /\ (At(h, "mintTicket") => MintTicket(h)) /\ (At(h, "getdel") => TakeTicket(h)) /\ (At(h, "revokeToken") => Blacklist(h))
         /\ (At(h, "findKey") => FindKey(h)) /\ (At(h, "createKey") => CreateKey(h)) /\ (At(h, "retireKey") => RetireKey(h))
         /\ (At(h, "handOver") => HandOver(h)) /\ (At(h, "markRevoked") => MarkRevoked(h)) /\ (At(h, "readRow") => ReadRow(h))
         /\ (At(h, "judge") => Judge(h)) /\ (At(h, "audit") => Audit(h))
<1>1. Lockout(h) => At(h, "lockout")
  BY DEF Lockout
<1>2. Fail(h) => At(h, "fail")
  BY DEF Fail
<1>3. Clear(h) => At(h, "clear")
  BY DEF Clear
<1>4. Find(h) => At(h, "find")
  BY DEF Find
<1>5. Admit(h) => At(h, "admit")
  BY DEF Admit
<1>6. SignAccess(h) => At(h, "epoch")
  BY DEF SignAccess
<1>7. WriteSession(h) => At(h, "session")
  BY DEF WriteSession
<1>8. Reread(h) => At(h, "reread")
  BY DEF Reread
<1>9. Upgrade(h) => At(h, "upgrade")
  BY DEF Upgrade
<1>10. Cool(h) => At(h, "cool")
  BY DEF Cool
<1>11. Account(h) => At(h, "account")
  BY DEF Account
<1>12. Release(h) => At(h, "release")
  BY DEF Release
<1>13. StoreCode(h) => At(h, "code")
  BY DEF StoreCode
<1>14. Fingerprint(h) => At(h, "fingerprint")
  BY DEF Fingerprint
<1>15. Mint(h) => At(h, "mint")
  BY DEF Mint
<1>16. Mail(h) => At(h, "mail")
  BY DEF Mail
<1>17. VerifyCode(h) => At(h, "verify")
  BY DEF VerifyCode
<1>18. FindOwner(h) => At(h, "owner")
  BY DEF FindOwner
<1>19. Take(h) => At(h, "take")
  BY DEF Take
<1>20. Bound(h) => At(h, "bound")
  BY DEF Bound
<1>21. FindSelf(h) => At(h, "self")
  BY DEF FindSelf
<1>22. Keep(h) => At(h, "keep")
  BY DEF Keep
<1>23. Write(h) => At(h, "write")
  BY DEF Write
<1>24. Sweep(h) => At(h, "sweep")
  BY DEF Sweep
<1>25. Bump(h) => At(h, "bump")
  BY DEF Bump
<1>26. Notify(h) => At(h, "notify")
  BY DEF Notify
<1>27. Free(h) => At(h, "free")
  BY DEF Free
<1>28. Move(h) => At(h, "move")
  BY DEF Move
<1>29. Flag(h) => At(h, "flag")
  BY DEF Flag
<1>30. DropVerified(h) => At(h, "dropVerified")
  BY DEF DropVerified
<1>31. DropStatus(h) => At(h, "dropStatus")
  BY DEF DropStatus
<1>32. GetStatus(h) => At(h, "getStatus")
  BY DEF GetStatus
<1>33. GetVerified(h) => At(h, "getVerified")
  BY DEF GetVerified
<1>34. Resolve(h) => At(h, "resolve")
  BY DEF Resolve
<1>35. SetStatus(h) => At(h, "setStatus")
  BY DEF SetStatus
<1>36. SetVerified(h) => At(h, "setVerified")
  BY DEF SetVerified
<1>37. Known(h) => At(h, "known")
  BY DEF Known
<1>38. Create(h) => At(h, "create")
  BY DEF Create
<1>39. Inviter(h) => At(h, "inviter")
  BY DEF Inviter
<1>40. Index(h) => At(h, "index")
  BY DEF Index
<1>41. Pending(h) => At(h, "pending")
  BY DEF Pending
<1>42. Claim(h) => At(h, "claim")
  BY DEF Claim
<1>43. Remove(h) => At(h, "remove")
  BY DEF Remove
<1>44. Confirm(h) => At(h, "confirm")
  BY DEF Confirm
<1>45. Withdraw(h) => At(h, "withdraw")
  BY DEF Withdraw
<1>46. Unindex(h) => At(h, "unindex")
  BY DEF Unindex
<1>47. Authority(h) => At(h, "authority")
  BY DEF Authority
<1>48. Exchange(h) => At(h, "exchange")
  BY DEF Exchange
<1>49. Link(h) => At(h, "link")
  BY DEF Link
<1>50. ReadBlacklist(h) => At(h, "blacklist")
  BY DEF ReadBlacklist
<1>51. ReadEpoch(h) => At(h, "bulk")
  BY DEF ReadEpoch
<1>52. Pass(h) => At(h, "pass")
  BY DEF Pass
<1>53. LookUp(h) => At(h, "lookUp")
  BY DEF LookUp
<1>54. Measure(h) => At(h, "measure")
  BY DEF Measure
<1>55. MintTicket(h) => At(h, "mintTicket")
  BY DEF MintTicket
<1>56. TakeTicket(h) => At(h, "getdel")
  BY DEF TakeTicket
<1>57. Blacklist(h) => At(h, "revokeToken")
  BY DEF Blacklist
<1>58. FindKey(h) => At(h, "findKey")
  BY DEF FindKey
<1>59. CreateKey(h) => At(h, "createKey")
  BY DEF CreateKey
<1>60. RetireKey(h) => At(h, "retireKey")
  BY DEF RetireKey
<1>61. HandOver(h) => At(h, "handOver")
  BY DEF HandOver
<1>62. MarkRevoked(h) => At(h, "markRevoked")
  BY DEF MarkRevoked
<1>63. ReadRow(h) => At(h, "readRow")
  BY DEF ReadRow
<1>64. Judge(h) => At(h, "judge")
  BY DEF Judge
<1>65. Audit(h) => At(h, "audit")
  BY DEF Audit
<1>. QED
  BY <1>1, <1>2, <1>3, <1>4, <1>5, <1>6, <1>7, <1>8, <1>9, <1>10, <1>11, <1>12, <1>13, <1>14,
     <1>15, <1>16, <1>17, <1>18, <1>19, <1>20, <1>21, <1>22, <1>23, <1>24, <1>25, <1>26, <1>27, <1>28,
     <1>29, <1>30, <1>31, <1>32, <1>33, <1>34, <1>35, <1>36, <1>37, <1>38, <1>39, <1>40, <1>41, <1>42,
     <1>43, <1>44, <1>45, <1>46, <1>47, <1>48, <1>49, <1>50, <1>51, <1>52, <1>53, <1>54, <1>55, <1>56,
     <1>57, <1>58, <1>59, <1>60, <1>61, <1>62, <1>63, <1>64, <1>65
     DEF Step, CredentialStep, OnboardingStep, TicketStep, KeyStep, At

(* A request begins, and may suspend or restore an account. *)
Toggled(h) ==
  /\ users' \in [Users -> User] /\ Standings
  /\ \A u \in Users :
       /\ users'[u].hash = users[u].hash /\ users'[u].writes = users[u].writes
       /\ users'[u].verified = users[u].verified
       /\ users'[u].state = users[u].state \/ (req'[h].pc = "dropVerified" /\ req'[h].user = u)

Enters(h) ==
  /\ Begins(h) /\ Toggled(h) /\ UNCHANGED <<redis, grants, seen, now, ws, keys>> /\ jobs' \subseteq jobs

LEMMA NotToggled ==
  ASSUME TypeInv, NEW h, users' = users
  PROVE  Toggled(h)
<1>1. UserFrame("idle")
  BY StillUsers
<1>. QED
  BY <1>1, Typed DEF Toggled, UserFrame

LEMMA SuspendToggles ==
  ASSUME TypeInv, NEW h \in Handlers, NEW u \in Users, Suspend(h, u)
  PROVE  Begins(h) /\ Toggled(h)
<1>. DEFINE p == [users[u] EXCEPT !.state = IF users[u].state = "active" THEN "blocked" ELSE "active"]
<1>1. Begins(h)
  BY SuspendBegins
<1>2. Exists(u) /\ users' = [users EXCEPT ![u] = p]
  BY DEF Suspend
<1>3. users[u] \in User /\ users \in [Users -> User]
  BY Typed
<1>4. /\ p \in User /\ p.writes = users[u].writes /\ p.hash = users[u].hash /\ p.state # "none"
      /\ p.email = users[u].email /\ p.verified = users[u].verified
  BY <1>3 DEF User
<1>. HIDE DEF p
<1>5. /\ Standings /\ users' \in [Users -> User] /\ users'[u] = p
      /\ \A v \in Users : v # u => users'[v] = users[v]
  BY <1>2, <1>4, OneUser
<1>6. req'[h].pc = "dropVerified" /\ req'[h].user = u
  <2>. DEFINE s == [Idle EXCEPT !.pc = "dropVerified", !.user = u]
  <2>1. s \in Handler /\ s.pc = "dropVerified" /\ s.user = u
    <3>1. "dropVerified" \in PCs
      BY DEF PCs
    <3>2. s \in Handler
      BY <3>1, IdleType DEF Handler
    <3>. QED
      BY <3>2 DEF Idle
  <2>2. Begin(h, "suspend", s)
    BY DEF Suspend
  <2>. HIDE DEF s
  <2>. QED
    BY <2>1, <2>2, Opening
<1>. QED
  BY <1>1, <1>4, <1>5, <1>6 DEF Toggled

LEMMA NamedTypes ==
  ASSUME TypeInv
  PROVE  /\ mix.emails \subseteq Emails /\ NewWords \subseteq Words /\ {Admin, Owner} \subseteq Users
BY Typed DEF Mix, NewWords, Users

LEMMA CredentialEnters ==
  ASSUME TypeInv, NEW h \in Handlers, CredentialRequest(h), UNCHANGED <<now, ws, keys>>
  PROVE  Enters(h)
<1>1. ASSUME NEW job \in jobs, Rehash(h, job) PROVE Enters(h)
  <2>1. Begins(h)
    BY <1>1, RehashBegins
  <2>2. UNCHANGED <<users, redis, grants, seen>> /\ jobs' \subseteq jobs
    BY <1>1 DEF Rehash
  <2>. QED
    BY <2>1, <2>2, NotToggled DEF Enters
<1>2. CASE ForUser(h, Owner)
  BY <1>2, ForUserBegins, NotToggled DEF Enters, ForUser
<1>3. CASE Guard(h, Owner)
  BY <1>3, GuardBegins, NotToggled DEF Enters, Guard
<1>4. ASSUME NEW u \in {Admin, Owner}, Suspend(h, u) PROVE Enters(h)
  <2>1. u \in Users
    BY NamedTypes
  <2>. QED
    BY <1>4, <2>1, SuspendToggles DEF Enters, Suspend
<1>5. ASSUME NEW e \in mix.emails, NEW w \in Words, Login(h, e, w) PROVE Enters(h)
  <2>1. e \in Emails
    BY NamedTypes
  <2>. QED
    BY <1>5, <2>1, LoginBegins, NotToggled DEF Enters, Login
<1>6. ASSUME NEW flow \in {"forgot", "resendOtp", "resendVerification"} \cap mix.requests,
             NEW e \in mix.emails, Ask(h, flow, e)
      PROVE  Enters(h)
  <2>1. e \in Emails /\ flow \in {"forgot", "resendOtp", "resendVerification"}
    BY NamedTypes
  <2>. QED
    BY <1>6, <2>1, AskBegins, NotToggled DEF Enters, Ask
<1>7. ASSUME NEW flow \in {"verifyOtp", "verifyEmail", "resetOtp"} \cap mix.requests, NEW e \in mix.emails,
             NEW code \in {0} \cup Ids, NEW w \in NewWords \cup {None}, Present(h, flow, e, code, w)
      PROVE  Enters(h)
  <2>1. e \in Emails /\ flow \in {"verifyOtp", "verifyEmail", "resetOtp"} /\ w \in Words \cup {None}
    BY NamedTypes
  <2>. QED
    BY <1>7, <2>1, PresentBegins, NotToggled DEF Enters, Present
<1>8. ASSUME NEW flow \in {"reset", "confirmMove"} \cap mix.requests, NEW e \in mix.emails \cup {None},
             NEW n \in Ids, NEW w \in NewWords \cup {None}, Redeem(h, flow, e, n, w)
      PROVE  Enters(h)
  <2>1. /\ e \in Emails \cup {None} /\ flow \in {"reset", "confirmMove", "accept", "callback"}
        /\ w \in Words \cup {None}
    BY NamedTypes
  <2>. QED
    <3>1. UNCHANGED <<users, redis, grants, jobs, seen>>
      BY <1>8 DEF Redeem
    <3>2. Begins(h)
      BY <1>8, <2>1, RedeemBegins
    <3>. QED
      BY <3>1, <3>2, NotToggled DEF Enters
<1>9. ASSUME NEW flow \in {"change", "requestMove"} \cap mix.requests, NEW w \in Words,
             NEW fresh \in NewWords \cup {None}, NEW e \in mix.emails \cup {None},
             Change(h, flow, Owner, w, fresh, e)
      PROVE  Enters(h)
  <2>1. e \in Emails \cup {None} /\ flow \in {"change", "requestMove"} /\ fresh \in Words \cup {None}
    BY NamedTypes
  <2>. QED
    BY <1>9, <2>1, ChangeBegins, NotToggled DEF Enters, Change
<1>. QED
  BY <1>1, <1>2, <1>3, <1>4, <1>5, <1>6, <1>7, <1>8, <1>9 DEF CredentialRequest

LEMMA OnboardingEnters ==
  ASSUME TypeInv, NEW h \in Handlers, OnboardingRequest(h), UNCHANGED <<now, ws, keys>>
  PROVE  Enters(h)
<1>1. ASSUME NEW e \in mix.emails, NEW w \in NewWords, Register(h, e, w) PROVE Enters(h)
  <2>1. e \in Emails /\ w \in Words
    BY NamedTypes
  <2>. QED
    BY <1>1, <2>1, RegisterBegins, NotToggled DEF Enters, Register
<1>2. ASSUME NEW u \in {Admin, Owner}, NEW e \in mix.emails, NEW rank \in 1..2, Invite(h, u, e, rank)
      PROVE  Enters(h)
  <2>1. e \in Emails
    BY NamedTypes
  <2>. QED
    BY <1>2, <2>1, InviteBegins, NotToggled DEF Enters, Invite
<1>3. ASSUME NEW u \in {Admin, Owner}, NEW e \in mix.emails, Revoke(h, u, e) PROVE Enters(h)
  <2>1. e \in Emails
    BY NamedTypes
  <2>. QED
    BY <1>3, <2>1, RevokeBegins, NotToggled DEF Enters, Revoke
<1>4. ASSUME NEW flow \in {"accept", "callback"}, NEW n \in Ids, NEW e \in mix.emails \cup {None},
             NEW w \in NewWords \cup {None}, Redeem(h, flow, e, n, w)
      PROVE  Enters(h)
  <2>1. /\ e \in Emails \cup {None} /\ flow \in {"reset", "confirmMove", "accept", "callback"}
        /\ w \in Words \cup {None}
    BY NamedTypes
  <2>. QED
    <3>1. UNCHANGED <<users, redis, grants, jobs, seen>>
      BY <1>4 DEF Redeem
    <3>2. Begins(h)
      BY <1>4, <2>1, RedeemBegins
    <3>. QED
      BY <3>1, <3>2, NotToggled DEF Enters
<1>5. CASE Authorize(h)
  BY <1>5, AuthorizeBegins, NotToggled DEF Enters, Authorize
<1>. QED
  BY <1>1, <1>2, <1>3, <1>4, <1>5 DEF OnboardingRequest

LEMMA TicketEnters ==
  ASSUME TypeInv, NEW h \in Handlers, UNCHANGED keys,
         Bearer(h) \/ Verify(h) \/ AskTicket(h) \/ SignOut(h) \/ \E n \in Ids : OpenSocket(h, n)
  PROVE  Enters(h)
<1>1. CASE Bearer(h)
  BY <1>1, TokenBegins, NotToggled DEF Enters, Bearer
<1>2. CASE Verify(h)
  BY <1>2, TokenBegins, NotToggled DEF Enters, Verify
<1>3. CASE AskTicket(h)
  BY <1>3, TokenBegins, NotToggled DEF Enters, AskTicket
<1>4. CASE SignOut(h)
  BY <1>4, SignOutBegins, NotToggled DEF Enters, SignOut
<1>5. ASSUME NEW n \in Ids, OpenSocket(h, n) PROVE Enters(h)
  BY <1>5, OpenSocketBegins, NotToggled DEF Enters, OpenSocket
<1>. QED
  BY <1>1, <1>2, <1>3, <1>4, <1>5

LEMMA KeyEnters ==
  ASSUME TypeInv, NEW h \in Handlers,
         \/ \E until \in Expiries : IssueKey(h, until)
         \/ \E n \in Rows : UseKey(h, n) \/ RevokeKey(h, n) \/ \E overlap \in 0..1 : RotateKey(h, n, overlap)
  PROVE  Enters(h)
<1>1. ASSUME NEW until \in Expiries, IssueKey(h, until) PROVE Enters(h)
  BY <1>1, IssueKeyBegins, NotToggled DEF Enters, IssueKey
<1>2. ASSUME NEW n \in Rows, UseKey(h, n) PROVE Enters(h)
  BY <1>2, UseKeyBegins, NotToggled DEF Enters, UseKey
<1>3. ASSUME NEW n \in Rows, RevokeKey(h, n) PROVE Enters(h)
  BY <1>3, RevokeKeyBegins, NotToggled DEF Enters, RevokeKey
<1>4. ASSUME NEW n \in Rows, NEW overlap \in 0..1, RotateKey(h, n, overlap) PROVE Enters(h)
  BY <1>4, RotateKeyBegins, NotToggled DEF Enters, RotateKey
<1>. QED
  BY <1>1, <1>2, <1>3, <1>4

(* Keys expire, counters are reset and time passes. *)
Drifts ==
  /\ UNCHANGED <<users, grants, jobs, req, ws, keys>>
  /\ starts' \in {starts, starts + 1} /\ starts' <= mix.starts
  /\ KeysBut({"otp", "failures", "vault", "status", "verified"}) /\ SeenBut({"guesses"})
  /\ \A n \in Ids : redis'.vault[n] \in {redis.vault[n], NoEntry}
  /\ \A k \in Purposes \X Emails : redis'.otp[k] \in {redis.otp[k], NoCode}
  /\ \A c \in Counters : \/ redis'.failures[c] = redis.failures[c] /\ seen'.guesses[c] = seen.guesses[c]
                         \/ redis'.failures[c] = 0 /\ seen'.guesses[c] = 0
  /\ \A u \in Users : /\ redis'.status[u] \in {redis.status[u], NoFact}
                      /\ redis'.verified[u] \in {redis.verified[u], NoFact}
  /\ \/ now' = now
     \/ /\ now' = now + 1 /\ now' \in 0..mix.clock
        /\ \A h \in Handlers : At(h, "mintTicket") => now < req[h].slip.since + 2

LEMMA KeepsUsed ==
  ASSUME TypeInv
  PROVE  starts \in {starts, starts + 1} /\ starts <= mix.starts
BY DEF TypeInv, Numbered

LEMMA VaultDrift ==
  ASSUME TypeInv, NEW n \in Ids, VaultLapses(n), UNCHANGED <<now, ws, keys>>
  PROVE  Drifts
<1>. DEFINE f == [redis.vault EXCEPT ![n] = NoEntry]
<1>1. redis.vault \in [Ids -> Entry]
  BY Typed, RedisFields
<1>2. f \in [Ids -> Entry]
  BY <1>1, Nulls
<1>3. redis' = [redis EXCEPT !.vault = f] /\ UNCHANGED <<users, grants, jobs, req, starts, seen>>
  BY DEF VaultLapses
<1>4. \A m \in Ids : f[m] \in {redis.vault[m], NoEntry}
  BY <1>1
<1>. HIDE DEF f
<1>5. KeysBut({"vault"}) /\ redis'.vault = f
  BY <1>2, <1>3, VaultKeys
<1>. QED
  BY <1>3, <1>4, <1>5, KeepsUsed, QuietFields DEF Drifts, KeysBut, SeenBut

LEMMA OtpDrift ==
  ASSUME TypeInv, NEW k \in Purposes \X Emails, OtpLapses(k), UNCHANGED <<now, ws, keys>>
  PROVE  Drifts
<1>. DEFINE f == [redis.otp EXCEPT ![k] = NoCode]
<1>1. redis.otp \in [Purposes \X Emails -> [code : {0} \cup Ids, tries : Nat]]
  BY Typed, RedisFields
<1>2. f \in [Purposes \X Emails -> [code : {0} \cup Ids, tries : Nat]]
  BY <1>1, CodeTypes
<1>3. redis' = [redis EXCEPT !.otp = f] /\ UNCHANGED <<users, grants, jobs, req, starts, seen>>
  BY DEF OtpLapses
<1>4. \A j \in Purposes \X Emails : f[j] \in {redis.otp[j], NoCode}
  BY <1>1
<1>. HIDE DEF f
<1>5. KeysBut({"otp"}) /\ redis'.otp = f
  BY <1>2, <1>3, OtpKeys
<1>. QED
  BY <1>3, <1>4, <1>5, KeepsUsed, QuietFields DEF Drifts, KeysBut, SeenBut

LEMMA CoolDrift ==
  ASSUME TypeInv, NEW k \in Purposes \X Emails, CoolLapses(k), UNCHANGED <<now, ws, keys>>
  PROVE  Drifts
<1>. DEFINE f == redis.cool \ {k}
<1>1. f \in SUBSET (Purposes \X Emails)
  BY Typed, RedisFields
<1>2. redis' = [redis EXCEPT !.cool = f] /\ UNCHANGED <<users, grants, jobs, req, starts, seen>>
  BY DEF CoolLapses
<1>. HIDE DEF f
<1>3. KeysBut({})
  BY <1>1, <1>2, CoolKeys
<1>. QED
  BY <1>2, <1>3, KeepsUsed, QuietFields DEF Drifts, KeysBut, SeenBut

LEMMA Uncounted ==
  ASSUME TypeInv, NEW c \in Counters, redis' = [redis EXCEPT !.failures[c] = 0],
         seen' = [seen EXCEPT !.guesses[c] = 0]
  PROVE  /\ KeysBut({"failures"}) /\ SeenBut({"guesses"})
         /\ \A d \in Counters : \/ redis'.failures[d] = redis.failures[d] /\ seen'.guesses[d] = seen.guesses[d]
                                \/ redis'.failures[d] = 0 /\ seen'.guesses[d] = 0
<1>. DEFINE f == [redis.failures EXCEPT ![c] = 0]
            g == [seen.guesses EXCEPT ![c] = 0]
<1>1. redis.failures \in [Counters -> Nat] /\ seen.guesses \in [Counters -> Nat]
  BY Typed, RedisFields, SeenFields
<1>2. f \in [Counters -> Nat] /\ g \in [Counters -> Nat]
  BY <1>1
<1>3. redis' = [redis EXCEPT !.failures = f] /\ seen' = [seen EXCEPT !.guesses = g]
  OBVIOUS
<1>4. \A d \in Counters : (f[d] = redis.failures[d] /\ g[d] = seen.guesses[d]) \/ (f[d] = 0 /\ g[d] = 0)
  BY <1>1
<1>. HIDE DEF f, g
<1>5. KeysBut({"failures"}) /\ redis'.failures = f
  BY <1>2, <1>3, FailuresKeys
<1>6. SeenBut({"guesses"}) /\ seen'.guesses = g
  BY <1>2, <1>3, GuessesSeen
<1>. QED
  BY <1>4, <1>5, <1>6

LEMMA CounterDrift ==
  ASSUME TypeInv, NEW c \in Counters, CounterLapses(c), UNCHANGED <<now, ws, keys>>
  PROVE  Drifts
<1>1. /\ redis' = [redis EXCEPT !.failures[c] = 0] /\ seen' = [seen EXCEPT !.guesses[c] = 0]
      /\ UNCHANGED <<users, grants, jobs, req, starts>>
  BY DEF CounterLapses
<1>2. /\ KeysBut({"failures"}) /\ SeenBut({"guesses"})
      /\ \A d \in Counters : \/ redis'.failures[d] = redis.failures[d] /\ seen'.guesses[d] = seen.guesses[d]
                             \/ redis'.failures[d] = 0 /\ seen'.guesses[d] = 0
  BY <1>1, Uncounted
<1>3. UNCHANGED <<users, grants, jobs, req, starts>>
  BY <1>1
<1>. QED
  BY <1>2, <1>3, KeepsUsed DEF Drifts, KeysBut, SeenBut

LEMMA UnlockDrift ==
  ASSUME TypeInv, NEW e \in Emails, Unlock(e), UNCHANGED <<now, ws, keys>>
  PROVE  Drifts
<1>. DEFINE c == <<"login", e>>
<1>0. c \in Counters
  BY DEF Counters
<1>1. /\ redis' = [redis EXCEPT !.failures[c] = 0] /\ seen' = [seen EXCEPT !.guesses[c] = 0]
      /\ starts' = starts + 1 /\ starts < mix.starts /\ UNCHANGED <<users, grants, jobs, req>>
  BY DEF Unlock
<1>. HIDE DEF c
<1>2. /\ KeysBut({"failures"}) /\ SeenBut({"guesses"})
      /\ \A d \in Counters : \/ redis'.failures[d] = redis.failures[d] /\ seen'.guesses[d] = seen.guesses[d]
                             \/ redis'.failures[d] = 0 /\ seen'.guesses[d] = 0
  BY <1>0, <1>1, Uncounted
<1>3. starts' = starts + 1 /\ starts + 1 <= mix.starts /\ UNCHANGED <<users, grants, jobs, req>>
  BY <1>1, Typed DEF Mix
<1>. QED
  BY <1>2, <1>3 DEF Drifts, KeysBut, SeenBut

LEMMA StatusDrift ==
  ASSUME TypeInv, NEW u \in Users, StatusLapses(u), UNCHANGED <<now, ws, keys>>
  PROVE  Drifts
<1>. DEFINE f == [redis.status EXCEPT ![u] = NoFact]
<1>1. redis.status \in [Users -> Fact({"active", "blocked"})] /\ NoFact \in Fact({"active", "blocked"})
  BY Typed, RedisFields DEF NoFact, Fact
<1>2. f \in [Users -> Fact({"active", "blocked"})]
  BY <1>1
<1>3. redis' = [redis EXCEPT !.status = f] /\ UNCHANGED <<users, grants, jobs, req, starts, seen>>
  BY DEF StatusLapses
<1>4. \A v \in Users : f[v] \in {redis.status[v], NoFact}
  BY <1>1
<1>. HIDE DEF f
<1>5. KeysBut({"status"}) /\ redis'.status = f
  BY <1>2, <1>3, StatusKeys
<1>. QED
  BY <1>3, <1>4, <1>5, KeepsUsed, QuietFields DEF Drifts, KeysBut, SeenBut

LEMMA VerifiedDrift ==
  ASSUME TypeInv, NEW u \in Users, VerifiedLapses(u), UNCHANGED <<now, ws, keys>>
  PROVE  Drifts
<1>. DEFINE f == [redis.verified EXCEPT ![u] = NoFact]
<1>1. redis.verified \in [Users -> Fact(BOOLEAN)] /\ NoFact \in Fact(BOOLEAN)
  BY Typed, RedisFields DEF NoFact, Fact
<1>2. f \in [Users -> Fact(BOOLEAN)]
  BY <1>1
<1>3. redis' = [redis EXCEPT !.verified = f] /\ UNCHANGED <<users, grants, jobs, req, starts, seen>>
  BY DEF VerifiedLapses
<1>4. \A v \in Users : f[v] \in {redis.verified[v], NoFact}
  BY <1>1
<1>. HIDE DEF f
<1>5. KeysBut({"verified"}) /\ redis'.verified = f
  BY <1>2, <1>3, VerifiedKeys
<1>. QED
  BY <1>3, <1>4, <1>5, KeepsUsed, QuietFields DEF Drifts, KeysBut, SeenBut

LEMMA StillDrift ==
  ASSUME TypeInv, UNCHANGED <<users, redis, grants, jobs, req, starts, seen, ws, keys>>,
         \/ now' = now
         \/ /\ now' = now + 1 /\ now' \in 0..mix.clock
            /\ \A h \in Handlers : At(h, "mintTicket") => now < req[h].slip.since + 2
  PROVE  Drifts
BY KeepsUsed, QuietFields DEF Drifts, KeysBut, SeenBut

LEMMA TickDrift ==
  ASSUME TypeInv, Tick, UNCHANGED keys
  PROVE  Drifts
<1>1. now \in Nat /\ mix.clock \in Nat
  BY Typed DEF Mix
<1>2. now < mix.clock /\ now' = now + 1 /\ UNCHANGED <<users, redis, grants, jobs, req, starts, seen, ws>>
      /\ \A h \in Handlers : At(h, "mintTicket") => now < req[h].slip.since + 2
  BY DEF Tick
<1>3. now' \in 0..mix.clock
  BY <1>1, <1>2
<1>. QED
  BY <1>2, <1>3, StillDrift

LEMMA RestDrift ==
  ASSUME TypeInv, Rest, UNCHANGED <<now, ws, keys>>
  PROVE  Drifts
BY StillDrift DEF Rest

LEMMA LapseDrift ==
  ASSUME TypeInv, Lapse, UNCHANGED <<now, ws, keys>>
  PROVE  Drifts
BY VaultDrift, OtpDrift, CoolDrift, CounterDrift, StatusDrift, VerifiedDrift DEF Lapse

(* Whatever happens, a request begins, a handler steps, or the store drifts. *)
LEMMA NextCases ==
  ASSUME TypeInv, Next
  PROVE  /\ mix' = mix
         /\ \/ \E h \in Handlers : Enters(h)
            \/ \E h \in Handlers : Step(h)
            \/ Drifts
<1>. DEFINE Goal == \/ \E h \in Handlers : Enters(h)
                    \/ \E h \in Handlers : Step(h)
                    \/ Drifts
<1>1. ASSUME CredentialNext, UNCHANGED <<now, ws, keys>> PROVE Goal
  <2>1. ASSUME NEW h \in Handlers, CredentialRequest(h) PROVE Goal
    BY <1>1, <2>1, CredentialEnters
  <2>2. ASSUME NEW h \in Handlers, CredentialStep(h) PROVE Goal
    BY <1>1, <2>2 DEF Step
  <2>3. ASSUME NEW e \in Emails, Unlock(e) PROVE Goal
    BY <1>1, <2>3, UnlockDrift
  <2>. QED
    BY <1>1, <2>1, <2>2, <2>3 DEF CredentialNext
<1>2. ASSUME OnboardingNext, UNCHANGED <<now, ws, keys>> PROVE Goal
  <2>1. ASSUME NEW h \in Handlers, OnboardingRequest(h) PROVE Goal
    BY <1>2, <2>1, OnboardingEnters
  <2>2. ASSUME NEW h \in Handlers, OnboardingStep(h) PROVE Goal
    BY <1>2, <2>2 DEF Step
  <2>. QED
    BY <1>2, <2>1, <2>2 DEF OnboardingNext
<1>3. ASSUME TicketNext, UNCHANGED keys PROVE Goal
  <2>1. CASE Tick
    BY <1>3, <2>1, TickDrift
  <2>2. ASSUME NEW h \in Handlers,
               Bearer(h) \/ Verify(h) \/ AskTicket(h) \/ SignOut(h) \/ \E n \in Ids : OpenSocket(h, n)
        PROVE  Goal
    BY <1>3, <2>2, TicketEnters
  <2>3. ASSUME NEW h \in Handlers, TicketStep(h) PROVE Goal
    BY <1>3, <2>3 DEF Step
  <2>. QED
    BY <1>3, <2>1, <2>2, <2>3 DEF TicketNext, TicketStep
<1>4. ASSUME KeyNext PROVE Goal
  <2>1. ASSUME NEW h \in Handlers,
               \/ \E until \in Expiries : IssueKey(h, until)
               \/ \E n \in Rows : UseKey(h, n) \/ RevokeKey(h, n) \/ \E overlap \in 0..1 : RotateKey(h, n, overlap)
        PROVE  Goal
    BY <2>1, KeyEnters
  <2>2. ASSUME NEW h \in Handlers, KeyStep(h) PROVE Goal
    BY <2>2 DEF Step
  <2>. QED
    BY <1>4, <2>1, <2>2 DEF KeyNext, KeyStep
<1>5. ASSUME Lapse \/ Rest, UNCHANGED <<now, ws, keys>> PROVE Goal
  BY <1>5, LapseDrift, RestDrift
<1>. QED
  BY <1>1, <1>2, <1>3, <1>4, <1>5 DEF Next

-----------------------------------------------------------------------------
(* The types *)

(* What a step leaves in the vault, and of the codes and jobs. *)
LEMMA StepVault ==
  ASSUME TypeInv, NEW h \in Handlers, Step(h), NEW n \in Ids
  PROVE  redis'.vault[n] \in {redis.vault[n], NoEntry} \/ (At(h, "mint") /\ n = req[h].id /\ redis'.vault[n] = req[h].data)
<1>1. StoreFrame(req[h].pc)
  BY StepFrames DEF StepFrame
<1>2. redis.vault \in [Ids -> Entry]
  BY Typed, RedisFields
<1>3. CASE At(h, "mint")
  BY <1>2, <1>3, StepPlace, MintEffect
<1>4. CASE At(h, "mail")
  BY <1>2, <1>4, StepPlace, MailEffect
<1>5. CASE At(h, "take")
  BY <1>2, <1>5, StepPlace, TakeEffect
<1>6. CASE At(h, "remove")
  BY <1>2, <1>6, StepPlace, RemoveEffect
<1>7. CASE At(h, "withdraw")
  BY <1>2, <1>7, StepPlace, WithdrawEffect
<1>. QED
  BY <1>1, <1>3, <1>4, <1>5, <1>6, <1>7 DEF StoreFrame, At

LEMMA StepOtp ==
  ASSUME TypeInv, NEW h \in Handlers, Step(h), NEW k \in Purposes \X Emails
  PROVE  redis'.otp[k].code = 0 => redis'.otp[k] = NoCode
<1>1. StoreFrame(req[h].pc)
  BY StepFrames DEF StepFrame
<1>2. redis.otp \in [Purposes \X Emails -> [code : {0} \cup Ids, tries : Nat]]
  BY Typed, RedisFields
<1>3. redis.otp[k].code = 0 => redis.otp[k] = NoCode
  BY DEF TypeInv
<1>4. 0 \notin Ids /\ (~At(h, "idle") => req[h].id \in Ids)
  BY FieldTypes DEF Ids, At
<1>. DEFINE j == Key(h)
            put == [code |-> req[h].id, tries |-> 0]
<1>5. CASE At(h, "code")
  <2>1. j \in Purposes \X Emails /\ (redis'.otp = [redis.otp EXCEPT ![j] = put] \/ redis' = redis)
    BY <1>5, StepPlace, StoreCodeEffect
  <2>2. put.code # 0
    BY <1>4, <1>5 DEF At
  <2>. HIDE DEF put, j
  <2>. QED
    BY <1>2, <1>3, <2>1, <2>2
<1>6. CASE At(h, "verify")
  <2>. DEFINE raised == [code |-> redis.otp[j].code, tries |-> redis.otp[j].tries + 1]
  <2>1. j \in Purposes \X Emails
        /\ \/ redis' = redis
           \/ redis'.otp = [redis.otp EXCEPT ![j] = NoCode]
           \/ redis.otp[j].code \in Ids /\ redis'.otp = [redis.otp EXCEPT ![j] = raised]
    BY <1>6, StepPlace, VerifyCodeEffect
  <2>2. raised.code = redis.otp[j].code
    OBVIOUS
  <2>. HIDE DEF raised, j
  <2>. QED
    BY <1>2, <1>3, <1>4, <2>1, <2>2
<1>. QED
  BY <1>1, <1>3, <1>5, <1>6 DEF StoreFrame, At

(* What Take carries away, when it goes on. *)
LEMMA TakeFields ==
  ASSUME TypeInv, NEW h \in Handlers, Take(h), NEW n, n = req[h].proof, NEW entry, entry = redis.vault[n]
  PROVE  /\ n \in Ids
         /\ \/ Ends(h)
            \/ /\ entry.kind # "none" /\ req'[h].pc = AfterTake(req[h].flow)
               /\ req'[h].data = entry /\ req'[h].user = entry.user
               /\ req[h].flow # "callback" => req'[h].email = entry.email
               /\ entry.user # None => req'[h].age = users[entry.user].writes
<1>1. /\ At(h, "take") /\ Advances(h) /\ StoreFrame("take") /\ n \in Ids
      /\ \/ Ends(h) /\ redis' = redis /\ seen' = seen
         \/ Ends(h) /\ redis'.vault = [redis.vault EXCEPT ![n] = NoEntry] /\ seen' = seen
         \/ /\ redis'.vault = [redis.vault EXCEPT ![n] = NoEntry]
            /\ seen'.spent = [seen.spent EXCEPT ![n] = seen.spent[n] + 1]
            /\ entry.kind # "none" /\ req'[h].pc = AfterTake(req[h].flow)
            /\ req'[h].data = entry /\ req'[h].user = entry.user
            /\ req[h].flow # "callback" => req'[h].email = entry.email
            /\ entry.user # None => req'[h].age = users[entry.user].writes
  BY TakeEffect
<1>. QED
  BY <1>1

(* Who a handler is about exists after the step. *)
Lives(u) == users'[u].state # "none"

LEMMA UserCarries ==
  ASSUME NEW q, NEW r, Follows(q, r), FlowLinks(q), FlowLinks(r), HasUser(q),
         r.pc \notin {"find", "account", "owner", "take", "create", "exchange", "lockout"}
  PROVE  HasUser(r) /\ q.user = r.user
<1>1. q # Idle
  BY IdleLinks, IdleFields DEF FlowLinks, HasUser, OnPath, Idle
<1>2. q.user = r.user /\ q.flow = r.flow /\ Leads(r.pc, q.pc) /\ OnPath(q.flow, q.pc) /\ OnPath(r.flow, r.pc)
  BY <1>1 DEF Follows, FlowLinks
<1>3. CASE q.flow \in {"change", "requestMove", "guard", "suspend", "forUser", "rehash", "bearer", "verify",
                       "ticket", "redeem", "invite", "revoke"}
  BY <1>2, <1>3 DEF HasUser
<1>4. CASE q.pc \in {"clear", "admit", "fingerprint", "bound", "flag", "link"}
  BY <1>2, <1>4 DEF HasUser, Leads
<1>5. CASE q.pc \in {"sweep", "bump", "notify", "move", "dropVerified", "dropStatus", "session"}
  BY <1>2, <1>5 DEF HasUser, Leads
<1>6. CASE q.pc \in {"write", "free"}
  BY <1>2, <1>6 DEF HasUser, Leads, OnPath
<1>7. CASE q.pc = "epoch"
  <2>1. r.pc \in {"clear", "admit", "mail"}
    BY <1>2, <1>7 DEF Leads
  <2>. QED
    BY <1>2, <1>7, <2>1 DEF HasUser, OnPath
<1>8. CASE q.flow = "register" /\ q.pc \in {"code", "mail"}
  <2>1. r.pc = "code" \/ r.pc = "mint" \/ r.pc = "confirm" \/ r.pc = "account"
    BY <1>2, <1>8 DEF Leads
  <2>. QED
    BY <1>2, <1>8, <2>1 DEF HasUser, OnPath
<1>. QED
  BY <1>3, <1>4, <1>5, <1>6, <1>7, <1>8 DEF HasUser

LEMMA StepUser ==
  ASSUME TypeInv, NEW h \in Handlers, Step(h), HasUser(req'[h])
  PROVE  Lives(req'[h].user)
<1>1. Advances(h) /\ Standings /\ StoreFrame(req[h].pc) /\ FlowLinks(req[h]) /\ FlowLinks(req'[h])
  BY StepFrames, OldLinks DEF StepFrame, UserFrame, Advances
<1>2. req'[h] \in Handler /\ Follows(req'[h], req[h])
  BY <1>1 DEF Advances, Moved
<1>3. req'[h].user \in Users
  BY <1>1, <1>2, HandlerFields DEF FlowLinks
<1>4. ASSUME Exists(req'[h].user) PROVE Lives(req'[h].user)
  BY <1>1, <1>3, <1>4 DEF Standings, Lives, Exists
<1>5. CASE At(h, "find")
  <2>1. req'[h].pc \in {"idle", "fail", "clear"} /\ req[h].flow = "login"
    BY <1>1, <1>2, <1>5 DEF Follows, Leads, At, Idle, FlowLinks, OnPath
  <2>2. req'[h].pc = "clear"
    BY <1>2, <2>1 DEF HasUser, Follows, Idle
  <2>. QED
    BY <1>4, <1>5, <2>2, StepPlace, FindEffect
<1>6. CASE At(h, "lockout")
  <2>1. req'[h].pc \in {"idle", "find", "fail", "clear"} /\ Lockout(h)
    BY <1>1, <1>2, <1>6, StepPlace DEF Follows, Leads, At, Idle
  <2>2. req'[h].user = req[h].user /\ req'[h].flow = req[h].flow
    BY <1>2, <1>6, IdleLinks DEF Follows, At, HasUser, Idle
  <2>3. HasUser(req[h])
    BY <1>1, <2>1, <2>2, LockoutEffect DEF HasUser, FlowLinks, OnPath
  <2>. QED
    BY <1>4, <2>2, <2>3 DEF TypeInv, Standing
<1>7. CASE At(h, "account")
  <2>1. req'[h].pc \notin {"idle", "release"}
    BY <1>1 DEF HasUser, FlowLinks, OnPath
  <2>. QED
    BY <1>4, <1>7, <2>1, StepPlace, AccountEffect
<1>8. CASE At(h, "owner")
  <2>1. req'[h].pc # "idle"
    BY <1>1 DEF HasUser, FlowLinks, OnPath
  <2>. QED
    BY <1>4, <1>8, <2>1, StepPlace, FindOwnerEffect
<1>9. CASE At(h, "take")
  <2>1. req'[h].pc # "idle" /\ req'[h].user # None
    BY <1>1 DEF HasUser, FlowLinks, OnPath
  <2>2. ~Ends(h)
    BY <2>1, IdleFields DEF Ends, Idle
  <2>3. Take(h)
    BY <1>9, StepPlace
  <2>4. PICK n, entry : n = req[h].proof /\ entry = redis.vault[n]
    OBVIOUS
  <2>5. n \in Ids /\ req'[h].user = entry.user
    BY <2>2, <2>3, <2>4, TakeFields
  <2>. QED
    BY <1>4, <2>1, <2>4, <2>5 DEF TypeInv, Standing
<1>10. CASE At(h, "create")
  <2>1. req'[h] # Idle
    BY IdleLinks DEF HasUser, Idle
  <2>. QED
    BY <1>10, <2>1, StepPlace, CreateEffect DEF Ends, Lives, Exists
<1>11. CASE At(h, "exchange")
  <2>1. req[h].flow = "callback" /\ req'[h].pc \in {"idle", "known", "link"}
    BY <1>1, <1>11, StepPlace, ExchangeEffect DEF FlowLinks, OnPath, At
  <2>2. req'[h].pc = "link"
    BY <1>2, <2>1 DEF HasUser, Follows, Idle
  <2>. QED
    BY <1>4, <1>11, <2>2, StepPlace, ExchangeEffect
<1>12. CASE req[h].pc \notin {"find", "account", "owner", "take", "create", "exchange", "lockout"}
  <2>1. HasUser(req[h]) /\ req'[h].user = req[h].user
    BY <1>1, <1>2, <1>12, UserCarries
  <2>. QED
    BY <1>4, <2>1 DEF TypeInv, Standing
<1>. QED
  BY <1>5, <1>6, <1>7, <1>8, <1>9, <1>10, <1>11, <1>12 DEF At

LEMMA StepData ==
  ASSUME TypeInv, NEW h \in Handlers, Step(h), req'[h].data.user # None
  PROVE  Lives(req'[h].data.user)
<1>1. Advances(h) /\ Standings /\ FlowLinks(req[h]) /\ req'[h] \in Handler /\ Follows(req'[h], req[h])
  BY StepFrames, OldLinks DEF StepFrame, UserFrame, Advances, Moved
<1>2. req'[h].data.user \in Users
  BY <1>1, HandlerFields, EntryFields
<1>3. ASSUME Exists(req'[h].data.user) PROVE Lives(req'[h].data.user)
  BY <1>1, <1>2, <1>3 DEF Standings, Lives, Exists
<1>4. req'[h] # Idle
  BY IdleFields
<1>5. ASSUME HasUser(req[h]), req'[h].data.user = req[h].user PROVE Lives(req'[h].data.user)
  BY <1>3, <1>5 DEF TypeInv, Standing
<1>6. ASSUME req'[h].data = req[h].data PROVE Lives(req'[h].data.user)
  BY <1>3, <1>6 DEF TypeInv, Standing
<1>7. CASE At(h, "fingerprint")
  BY <1>5, <1>7, StepPlace, FingerprintEffect DEF HasUser, At
<1>8. CASE At(h, "free")
  <2>1. Free(h) /\ HasUser(req[h])
    BY <1>8, StepPlace DEF HasUser, At
  <2>2. req'[h].pc \in {"move", "mint"}
    BY <1>1, <1>4, <1>8 DEF Follows, Leads, At
  <2>. QED
    BY <1>5, <1>6, <2>1, <2>2, FreeEffect
<1>9. CASE At(h, "take")
  <2>1. Take(h) /\ ~Ends(h)
    BY <1>4, <1>9, StepPlace DEF Ends
  <2>2. PICK n, entry : n = req[h].proof /\ entry = redis.vault[n]
    OBVIOUS
  <2>3. n \in Ids /\ req'[h].data = entry
    BY <2>1, <2>2, TakeFields
  <2>. QED
    BY <1>3, <2>2, <2>3 DEF TypeInv, Standing
<1>10. CASE req[h].pc \notin {"fingerprint", "take", "free"}
  BY <1>1, <1>4, <1>6, <1>10 DEF Follows
<1>. QED
  BY <1>7, <1>8, <1>9, <1>10 DEF At

LEMMA StepJobs ==
  ASSUME TypeInv, NEW h \in Handlers, Step(h), NEW job \in jobs'
  PROVE  Lives(job.user)
<1>1. Standings /\ StoreFrame(req[h].pc)
  BY StepFrames DEF StepFrame, UserFrame
<1>2. ASSUME job \in jobs PROVE Exists(job.user) /\ job.user \in Users
  BY <1>2, Typed DEF TypeInv, Standing, Job
<1>3. CASE At(h, "clear")
  <2>1. job \in jobs \/ job.user = req[h].user
    BY <1>3, StepPlace, ClearEffect
  <2>2. Exists(req[h].user) /\ req[h].user \in Users
    BY <1>3, OldLinks, FieldTypes DEF At, HasUser, TypeInv, Standing
  <2>. QED
    BY <1>1, <1>2, <2>1, <2>2 DEF Standings, Lives, Exists
<1>4. CASE ~At(h, "clear")
  BY <1>1, <1>2, <1>4 DEF StoreFrame, At, Standings, Lives, Exists
<1>. QED
  BY <1>3, <1>4

(* The types depend on the deployment alone. *)
LEMMA TypesKept ==
  ASSUME mix' = mix
  PROVE  /\ Ids' = Ids /\ Redis' = Redis /\ History' = History /\ Handler' = Handler /\ User' = User
         /\ Session' = Session /\ Job' = Job /\ Sockets' = Sockets /\ Rows' = Rows
<1>1. Ids' = Ids
  BY DEF Ids
<1>2. Hash' = Hash
  BY <1>1 DEF Hash
<1>3. User' = User /\ Entry' = Entry
  BY <1>2 DEF User, Entry
<1>4. Session' = Session /\ Sockets' = Sockets /\ Rows' = Rows /\ History' = History
  BY <1>1 DEF Session, Sockets, Rows, History
<1>5. Job' = Job
  BY <1>2 DEF Job
<1>6. Redis' = Redis
  BY <1>1, <1>3 DEF Redis
<1>7. Handler' = Handler
  BY <1>1, <1>3, <1>4 DEF Handler
<1>. QED
  BY <1>1, <1>3, <1>4, <1>5, <1>6, <1>7

(* The parts of the types, after a step. *)
LEMMA TypesAfter ==
  ASSUME mix' = mix, mix \in Mixes, users' \in [Users -> User], Standings, redis' \in Redis,
         grants' \in [sessions : SUBSET Session, access : SUBSET Access], jobs' \subseteq Job,
         req' \in [Handlers -> Handler], starts' \in Nat, seen' \in History,
         now' \in 0..mix.clock, ws' \in Sockets, keys' \in [Rows -> KeyRow]
  PROVE  TypeOK'
<1>1. \A u, v \in Users : u # v /\ users'[u].state # "none" => users'[u].email # users'[v].email
  BY DEF Standings, Exists
<1>2. StoreTypeOK'
  BY <1>1, TypesKept DEF StoreTypeOK
<1>3. TicketTypeOK' /\ KeyTypeOK'
  BY TypesKept DEF TicketTypeOK, KeyTypeOK
<1>. QED
  BY <1>2, <1>3 DEF TypeOK

(* And whom the state refers to. *)
LEMMA StandingAfter ==
  ASSUME TypeInv, mix' = mix, Standings, users' \in [Users -> User],
         \A h \in Handlers : HasUser(req'[h]) => Lives(req'[h].user),
         \A h \in Handlers : req'[h].data.user # None => Lives(req'[h].data.user),
         \A n \in Ids : redis'.vault[n].user # None => Lives(redis'.vault[n].user),
         \A job \in jobs' : Lives(job.user)
  PROVE  Standing'
<1>1. Lives(Admin) /\ Lives(Owner)
  BY EmailTypes DEF Standings, Lives, Exists
<1>. QED
  BY <1>1, TypesKept DEF Standing, Standings, Lives, Exists

LEMMA StepTypes ==
  ASSUME TypeInv, NEW h \in Handlers, Step(h), mix' = mix
  PROVE  TypeInv'
<1>1. /\ StepFrame(h) /\ StoreFrame(req[h].pc) /\ Standings /\ Moved(h) /\ Advances(h) /\ starts' = starts
      /\ TicketFrame(req[h].pc) /\ KeyFrame(req[h].pc)
  BY StepFrames DEF StepFrame, UserFrame, Advances
<1>2. \A g \in Handlers : g # h => req'[g] = req[g]
  BY <1>1 DEF Moved
<1>3. TypeOK'
  <2>1. mix \in Mixes /\ jobs' \subseteq Job /\ starts' \in Nat /\ now' \in 0..mix.clock
    BY <1>1 DEF StoreFrame, TypeInv, TypeOK, StoreTypeOK, TicketTypeOK, TicketFrame
  <2>2. /\ users' \in [Users -> User] /\ redis' \in Redis /\ seen' \in History
        /\ grants' \in [sessions : SUBSET Session, access : SUBSET Access] /\ req' \in [Handlers -> Handler]
        /\ ws' \in Sockets /\ keys' \in [Rows -> KeyRow]
    BY <1>1 DEF StoreFrame, Moved, TicketFrame, KeyFrame
  <2>. QED
    BY <1>1, <2>1, <2>2, TypesAfter
<1>4. Standing'
  <2>1. \A u \in Users : Exists(u) => Lives(u)
    BY <1>1 DEF Standings, Exists, Lives
  <2>2. ASSUME NEW g \in Handlers, HasUser(req'[g]) PROVE Lives(req'[g].user)
    BY <1>2, <2>1, <2>2, StepUser, FieldTypes DEF TypeInv, Standing
  <2>3. ASSUME NEW g \in Handlers, req'[g].data.user # None PROVE Lives(req'[g].data.user)
    <3>1. req[g].data.user \in Users \cup {None}
      BY Typed, HandlerFields, EntryFields
    <3>. QED
      BY <1>2, <2>1, <2>3, <3>1, StepData DEF TypeInv, Standing
  <2>4. ASSUME NEW n \in Ids, redis'.vault[n].user # None PROVE Lives(redis'.vault[n].user)
    <3>1. redis.vault[n].user \in Users \cup {None} /\ req[h].data.user \in Users \cup {None}
      BY Typed, HandlerFields, EntryFields, RedisFields
    <3>2. redis'.vault[n] \in {redis.vault[n], NoEntry, req[h].data}
      BY StepVault
    <3>. QED
      BY <2>1, <2>4, <3>1, <3>2, IdleFields DEF TypeInv, Standing
  <2>. QED
    BY <1>1, <2>2, <2>3, <2>4, StepJobs, StandingAfter DEF StoreFrame
<1>5. Numbered'
  <2>1. \A g \in Handlers : req'[g].id \in {req[g].id, 0}
    BY <1>1, <1>2 DEF Advances, Follows, Idle
  <2>2. starts \in Nat /\ starts <= mix.starts /\ \A g \in Handlers : req[g].id <= starts
    BY Typed DEF TypeInv, Numbered
  <2>3. starts' = starts
    BY <1>1
  <2>4. \A g \in Handlers : req'[g].id <= starts
    BY <2>1, <2>2
  <2>. QED
    BY <2>2, <2>3, <2>4 DEF Numbered
<1>6. \A g \in Handlers : FlowLinks(req'[g]) /\ DataLinks(req'[g])
  BY <1>1, <1>2 DEF Advances, TypeInv
<1>7. \A n \in Ids : EntryLinks(redis'.vault[n])
  <2>1. EntryLinks(NoEntry) /\ EntryLinks(req[h].data)
    BY OldLinks, IdleLinks, IdleFields DEF DataLinks
  <2>2. ASSUME NEW n \in Ids PROVE EntryLinks(redis'.vault[n])
    <3>1. redis'.vault[n] \in {redis.vault[n], NoEntry, req[h].data}
      BY StepVault
    <3>2. EntryLinks(redis.vault[n])
      BY DEF TypeInv
    <3>. QED
      BY <2>1, <3>1, <3>2
  <2>. QED
    BY <2>2
<1>8. \A k \in Purposes \X Emails : redis'.otp[k].code = 0 => redis'.otp[k] = NoCode
  BY StepOtp
<1>. QED
  BY <1>3, <1>4, <1>5, <1>6, <1>7, <1>8, TypesKept DEF TypeInv

LEMMA EnterTypes ==
  ASSUME TypeInv, NEW h \in Handlers, Enters(h), mix' = mix
  PROVE  TypeInv'
<1>1. /\ Begins(h) /\ Moved(h) /\ Toggled(h) /\ Standings /\ jobs' \subseteq jobs
      /\ redis' = redis /\ grants' = grants /\ seen' = seen /\ now' = now /\ ws' = ws /\ keys' = keys
  BY DEF Enters, Begins, Toggled
<1>2. \A g \in Handlers : g # h => req'[g] = req[g]
  BY <1>1 DEF Moved
<1>3. TypeOK'
  <2>1. mix \in Mixes /\ jobs' \subseteq Job /\ starts' \in Nat /\ now' \in 0..mix.clock
    BY <1>1, Typed DEF TypeInv, TypeOK, StoreTypeOK, TicketTypeOK, Begins
  <2>2. /\ users' \in [Users -> User] /\ redis' \in Redis /\ seen' \in History
        /\ grants' \in [sessions : SUBSET Session, access : SUBSET Access] /\ req' \in [Handlers -> Handler]
        /\ ws' \in Sockets /\ keys' \in [Rows -> KeyRow]
    BY <1>1, Typed DEF Toggled, Moved
  <2>. QED
    BY <1>1, <2>1, <2>2, TypesAfter
<1>4. Standing'
  <2>1. \A u \in Users : Exists(u) => Lives(u)
    BY <1>1 DEF Standings, Exists, Lives
  <2>2. /\ HasUser(req'[h]) => req'[h].user \in Users /\ Exists(req'[h].user)
        /\ req'[h].data.user # None => req'[h].data.user \in Users /\ Exists(req'[h].data.user)
    BY <1>1, HandlerFields, EntryFields DEF Begins, FlowLinks, Moved
  <2>3. ASSUME NEW g \in Handlers, HasUser(req'[g]) PROVE Lives(req'[g].user)
    BY <1>2, <2>1, <2>2, <2>3, FieldTypes DEF TypeInv, Standing
  <2>4. ASSUME NEW g \in Handlers, req'[g].data.user # None PROVE Lives(req'[g].data.user)
    <3>1. req[g].data.user \in Users \cup {None}
      BY Typed, HandlerFields, EntryFields
    <3>. QED
      BY <1>2, <2>1, <2>2, <2>4, <3>1 DEF TypeInv, Standing
  <2>5. ASSUME NEW n \in Ids, redis'.vault[n].user # None PROVE Lives(redis'.vault[n].user)
    <3>1. redis.vault[n].user \in Users \cup {None}
      BY Typed, EntryFields, RedisFields
    <3>. QED
      BY <1>1, <2>1, <2>5, <3>1 DEF TypeInv, Standing
  <2>6. ASSUME NEW job \in jobs' PROVE Lives(job.user)
    BY <1>1, <2>1, Typed DEF TypeInv, Standing, Job
  <2>. QED
    BY <1>1, <2>3, <2>4, <2>5, <2>6, StandingAfter DEF Toggled
<1>5. Numbered'
  <2>1. starts' = starts + 1 /\ starts + 1 <= mix.starts /\ req'[h].id = starts + 1
    BY <1>1 DEF Begins, Ids
  <2>2. starts \in Nat /\ \A g \in Handlers : req[g].id \in Int /\ req[g].id <= starts
    <3>1. \A g \in Handlers : req[g].id \in {0} \cup Ids
      BY Typed, HandlerFields
    <3>. QED
      BY <3>1, Typed DEF TypeInv, Numbered, Ids
  <2>3. \A g \in Handlers : req'[g].id <= starts + 1
    BY <1>2, <2>1, <2>2
  <2>. QED
    BY <2>1, <2>3 DEF Numbered
<1>6. \A g \in Handlers : FlowLinks(req'[g]) /\ DataLinks(req'[g])
  BY <1>1, <1>2 DEF Begins, TypeInv
<1>7. \A n \in Ids : EntryLinks(redis'.vault[n])
  BY <1>1 DEF TypeInv
<1>8. \A k \in Purposes \X Emails : redis'.otp[k].code = 0 => redis'.otp[k] = NoCode
  BY <1>1 DEF TypeInv
<1>. QED
  BY <1>3, <1>4, <1>5, <1>6, <1>7, <1>8, TypesKept DEF TypeInv

LEMMA DriftTypes ==
  ASSUME TypeInv, Drifts, mix' = mix
  PROVE  TypeInv'
<1>1. /\ users' = users /\ grants' = grants /\ jobs' = jobs /\ req' = req /\ ws' = ws /\ keys' = keys
      /\ redis' \in Redis /\ seen' \in History /\ starts' \in {starts, starts + 1} /\ starts' <= mix.starts
  BY DEF Drifts, KeysBut, SeenBut
<1>2. UserFrame("idle")
  BY <1>1, StillUsers
<1>3. TypeOK'
  <2>1. mix \in Mixes /\ jobs' \subseteq Job /\ starts' \in Nat /\ now' \in 0..mix.clock
    BY <1>1, Typed DEF TypeInv, TypeOK, StoreTypeOK, TicketTypeOK, Drifts
  <2>. QED
    BY <1>1, <1>2, <2>1, Typed, TypesAfter DEF UserFrame
<1>4. Standing'
  <2>1. \A u : Exists(u) => Lives(u)
    BY <1>1 DEF Exists, Lives
  <2>2. ASSUME NEW n \in Ids, redis'.vault[n].user # None PROVE Lives(redis'.vault[n].user)
    <3>1. redis'.vault[n] \in {redis.vault[n], NoEntry}
      BY DEF Drifts
    <3>. QED
      BY <2>1, <2>2, <3>1, IdleFields DEF TypeInv, Standing
  <2>3. /\ \A g \in Handlers : HasUser(req'[g]) => Lives(req'[g].user)
        /\ \A g \in Handlers : req'[g].data.user # None => Lives(req'[g].data.user)
        /\ \A job \in jobs' : Lives(job.user)
    BY <1>1, <2>1 DEF TypeInv, Standing
  <2>. QED
    BY <1>1, <1>2, <2>2, <2>3, Typed, StandingAfter DEF UserFrame
<1>5. Numbered'
  <2>1. starts \in Nat /\ \A g \in Handlers : req[g].id \in Int /\ req[g].id <= starts
    <3>1. \A g \in Handlers : req[g].id \in {0} \cup Ids
      BY Typed, HandlerFields
    <3>. QED
      BY <3>1, Typed DEF TypeInv, Numbered, Ids
  <2>. QED
    BY <1>1, <2>1 DEF Numbered
<1>6. \A g \in Handlers : FlowLinks(req'[g]) /\ DataLinks(req'[g])
  BY <1>1 DEF TypeInv
<1>7. ASSUME NEW n \in Ids PROVE EntryLinks(redis'.vault[n])
  <2>1. redis'.vault[n] \in {redis.vault[n], NoEntry}
    BY DEF Drifts
  <2>2. EntryLinks(redis.vault[n]) /\ EntryLinks(NoEntry)
    BY IdleLinks, IdleFields DEF DataLinks, TypeInv
  <2>. QED
    BY <2>1, <2>2
<1>8. ASSUME NEW k \in Purposes \X Emails, redis'.otp[k].code = 0 PROVE redis'.otp[k] = NoCode
  BY <1>8 DEF Drifts, TypeInv
<1>. QED
  BY <1>3, <1>4, <1>5, <1>6, <1>7, <1>8, TypesKept DEF TypeInv

(* At the start nothing is in flight and nothing has been drawn. *)
LEMMA TypeStart == Init => TypeInv
<1>. SUFFICES ASSUME Init PROVE TypeInv
  OBVIOUS
<1>1. mix \in Mixes /\ mix \in Mix /\ mix.starts \in Nat /\ mix.clock \in Nat /\ mix.password \in BOOLEAN
  BY AccountAssumption DEF Init, StoreInit, Mix
<1>2. /\ AdminEmail \in Emails /\ OwnerEmail \in Emails /\ AdminEmail # OwnerEmail /\ None \notin Emails
      /\ Admin # Owner /\ OwnerWord \in Words
  BY AccountAssumption
<1>3. [word |-> OwnerWord, salt |-> 0] \in Hash
  BY <1>2 DEF Hash
<1>4. /\ users \in [Users -> User] /\ users[Admin].state = "active" /\ users[Admin].email = AdminEmail
      /\ users[Owner].state = "active" /\ users[Owner].email = OwnerEmail
      /\ \A u \in Users : u \notin {Admin, Owner} => users[u] = NoUser
  <2>. DEFINE a == [NoUser EXCEPT !.state = "active", !.email = AdminEmail, !.rank = 2, !.verified = TRUE]
              hash == IF mix.password THEN [word |-> OwnerWord, salt |-> 0] ELSE None
              o(v) == [NoUser EXCEPT !.state = "active", !.email = OwnerEmail, !.rank = 1, !.verified = v,
                                     !.oauth = OwnerEmail, !.hash = hash]
  <2>1. PICK v \in {~mix.required, FALSE} :
          users = [u \in Users |-> CASE u = Admin -> a [] u = Owner -> o(v) [] OTHER -> NoUser]
    BY DEF Init, StoreInit
  <2>2. a \in User /\ a.state = "active" /\ a.email = AdminEmail
    <3>1. ASSUME NEW e \in Emails, NEW r \in 0..2
          PROVE  [NoUser EXCEPT !.state = "active", !.email = e, !.rank = r, !.verified = TRUE] \in User
      BY Nulls DEF User
    <3>2. 2 \in 0..2
      OBVIOUS
    <3>3. a \in User
      BY <1>2, <3>1, <3>2
    <3>. QED
      BY <3>3, Nulls DEF User
  <2>3. hash \in Hash \cup {None} /\ v \in BOOLEAN
    BY <1>3
  <2>. HIDE DEF hash
  <2>4. o(v) \in User /\ o(v).state = "active" /\ o(v).email = OwnerEmail
    <3>1. ASSUME NEW e \in Emails, NEW r \in 0..2, NEW b \in BOOLEAN, NEW p \in Hash \cup {None}
          PROVE  [NoUser EXCEPT !.state = "active", !.email = e, !.rank = r, !.verified = b, !.oauth = e,
                                !.hash = p] \in User
      BY Nulls DEF User
    <3>2. 1 \in 0..2
      OBVIOUS
    <3>3. o(v) \in User
      BY <1>2, <2>3, <3>1, <3>2
    <3>. QED
      BY <3>3, Nulls DEF User
  <2>. HIDE DEF a, o
  <2>5. Admin \in Users /\ Owner \in Users
    BY DEF Users
  <2>. QED
    BY <1>2, <2>1, <2>2, <2>4, <2>5, Nulls
<1>5. redis \in Redis /\ redis.vault = [n \in Ids |-> NoEntry] /\ redis.otp = [k \in Purposes \X Emails |-> NoCode]
  <2>1. NoCode \in [code : {0} \cup Ids, tries : Nat]
    BY DEF NoCode
  <2>2. NoFact \in Fact({"active", "blocked"}) /\ NoFact \in Fact(BOOLEAN)
    BY DEF NoFact, Fact
  <2>. QED
    BY <2>1, <2>2, Nulls DEF Init, StoreInit, Redis
<1>6. /\ grants = [sessions |-> {[user |-> Owner, id |-> 0, age |-> 0]},
                   access |-> {[user |-> Owner, epoch |-> 0, age |-> 0]}]
      /\ jobs = {} /\ starts = 0 /\ req = [h \in Handlers |-> Idle]
  BY DEF Init, StoreInit
<1>7. grants \in [sessions : SUBSET Session, access : SUBSET Access]
  <2>1. [user |-> Owner, id |-> 0, age |-> 0] \in Session /\ [user |-> Owner, epoch |-> 0, age |-> 0] \in Access
    BY DEF Session, Access, Users
  <2>. QED
    BY <1>6, <2>1
<1>8. seen \in History
  BY DEF Init, StoreInit, History
<1>9. TypeOK
  <2>1. \A u, v \in Users : u # v /\ users[u].state # "none" => users[u].email # users[v].email
    BY <1>2, <1>4 DEF NoUser, Users
  <2>2. StoreTypeOK
    BY <1>1, <1>4, <1>5, <1>6, <1>7, <1>8, <2>1, IdleType DEF StoreTypeOK
  <2>3. TicketTypeOK
    BY <1>1 DEF Init, TicketInit, TicketTypeOK, Sockets
  <2>4. KeyTypeOK
    <3>1. \A n \in Rows : [NoKey EXCEPT !.state = IF n = 0 THEN "active" ELSE "none", !.held = (n = 0)] \in KeyRow
      BY DEF NoKey, KeyRow
    <3>. QED
      BY <3>1 DEF Init, KeyInit, KeyTypeOK
  <2>. QED
    BY <2>2, <2>3, <2>4 DEF TypeOK
<1>10. Standing
  <2>1. Exists(Admin) /\ Exists(Owner)
    BY <1>4 DEF Exists
  <2>2. \A u \in Users : IF Exists(u) THEN users[u].email # None ELSE users[u] = NoUser
    BY <1>2, <1>4 DEF Exists, NoUser
  <2>3. ~HasUser(Idle)
    BY IdleLinks, IdleFields DEF FlowLinks
  <2>. QED
    BY <1>5, <1>6, <2>1, <2>2, <2>3, IdleFields DEF Standing
<1>11. Numbered
  BY <1>1, <1>6 DEF Numbered, Idle
<1>12. /\ \A h \in Handlers : FlowLinks(req[h]) /\ DataLinks(req[h])
       /\ \A n \in Ids : EntryLinks(redis.vault[n])
       /\ \A k \in Purposes \X Emails : redis.otp[k].code = 0 => redis.otp[k] = NoCode
  <2>1. EntryLinks(NoEntry)
    BY IdleLinks, IdleFields DEF DataLinks
  <2>. QED
    BY <1>5, <1>6, <2>1, IdleLinks
<1>. QED
  BY <1>9, <1>10, <1>11, <1>12 DEF TypeInv

LEMMA TypeNext == TypeInv /\ [Next]_vars => TypeInv'
<1>. SUFFICES ASSUME TypeInv, [Next]_vars PROVE TypeInv'
  OBVIOUS
<1>1. CASE Next
  BY <1>1, NextCases, EnterTypes, StepTypes, DriftTypes
<1>2. CASE UNCHANGED vars
  <2>1. mix' = mix /\ Drifts
    BY <1>2, StillDrift DEF vars, storeVars
  <2>. QED
    BY <2>1, DriftTypes
<1>. QED
  BY <1>1, <1>2

(* Everything is well-typed: whatever a handler does with what it read some *)
(* awaits ago, who it is about exists and has an address.                   *)
THEOREM TypeCorrect == Spec => []TypeOK
<1>1. TypeInv => TypeOK
  BY DEF TypeInv
<1>. QED
  BY <1>1, TypeStart, TypeNext, PTL DEF Spec
=============================================================================
