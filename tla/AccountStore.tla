----------------------------- MODULE AccountStore -----------------------------
(***************************************************************************)
(* What the account services share: the host's user repository, which      *)
(* reads and writes one account at a time and has no transactions, and the *)
(* keys in Redis each flow reads, takes and writes around it.              *)
(*                                                                         *)
(* Handlers are numbered as they begin.  A handler draws at most one       *)
(* random value -- a salt, a code, a token, an invitation -- and the value *)
(* is named by that number; zero is a value nobody drew.  One tenant.      *)
(***************************************************************************)
EXTENDS Integers, FiniteSets

CONSTANTS Handlers, Emails, Words, None,
          Admin, Owner,     \* the accounts there are: one that outranks the other
          Slots,            \* accounts yet to be created
          OwnerEmail, AdminEmail, OwnerWord,
          MaxAttempts,      \* bruteForce.maxAttempts
          MaxCodeAttempts,  \* MAX_ATTEMPTS of OtpService
          SupersedeAttempts,
          Mixes             \* the deployments and workloads explored, see Mix below

Requests == {"login", "forUser", "forgot", "resendOtp", "resendVerification", "verifyOtp",
             "verifyEmail", "reset", "resetOtp", "change", "requestMove", "confirmMove", "unlock",
             "guard", "suspend", "register", "invite", "revoke", "accept", "authorize", "callback",
             "bearer", "verify", "ticket", "redeem", "signOut",
             "issueKey", "rotateKey", "revokeKey", "useKey"}

Mix == [method : {"token", "otp"},         \* passwordReset.method
        required : BOOLEAN,                \* emailVerification.required
        password : BOOLEAN,                \* whether the owner has one
        emails : SUBSET Emails,            \* the addresses requests name
        requests : SUBSET Requests,
        lapses : SUBSET {"vault", "otp", "cool", "counter", "cache"},  \* keys that expire
        fails : BOOLEAN,                   \* mail, lookups and stores may fail
        starts : Nat,                      \* bound on handlers begun
        clock : Nat]                       \* bound on the clock of Tickets

ASSUME AccountAssumption ==
  /\ Mixes \subseteq Mix
  /\ {MaxAttempts, MaxCodeAttempts, SupersedeAttempts} \subseteq Nat \ {0}
  /\ Admin # Owner /\ Slots \cap {Admin, Owner} = {}
  /\ {OwnerEmail, AdminEmail} \subseteq Emails /\ OwnerEmail # AdminEmail
  /\ OwnerWord \in Words
  /\ IsFiniteSet(Handlers)
  /\ None \notin Words \cup Emails \cup Slots \cup {Admin, Owner}

VARIABLES mix,        \* the deployment, fixed
          users,      \* the repository
          redis,      \* the keys, see Redis below
          grants,     \* sessions written and access tokens signed
          jobs,       \* rehashes queued by sign-ins
          req,        \* the handlers in flight
          starts,     \* handlers begun (bound)
          seen        \* history and the mailboxes, see History below

storeVars == <<mix, users, redis, grants, jobs, req, starts, seen>>

-----------------------------------------------------------------------------
(* Types and null values *)

Users == {Admin, Owner} \cup Slots

Ids == 1..mix.starts

(* A hash is the word under a salt; salt zero marks the retired parameters. *)
Hash == [word : Words, salt : {0} \cup Ids]

User == [state : {"none", "active", "blocked"}, email : Emails \cup {None},
         hash : Hash \cup {None}, verified : BOOLEAN, rank : 0..2,
         oauth : Emails \cup {None},        \* the provider's identity, named by its address
         writes : Nat]                      \* history: password writes

NoUser == [state |-> "none", email |-> None, hash |-> None, verified |-> FALSE, rank |-> 0,
           oauth |-> None, writes |-> 0]

(* A single-use record: pw_reset:, pw_vtok:, ec:, inv: and os:. *)
Entry == [kind : {"none", "reset", "vtok", "move", "invite", "state"},
          user : Users \cup {None}, email : Emails \cup {None}, rank : 0..2,
          bound : Hash \cup {None},         \* the fingerprint; None is the empty one
          age : Nat]                        \* history: the owner's writes when it was read

NoEntry == [kind |-> "none", user |-> None, email |-> None, rank |-> 0, bound |-> None, age |-> 0]

Purposes == {"reset", "verify"}

NoCode == [code |-> 0, tries |-> 0]

(* lockoutIdentifier is keyed by the address, the others by the account. *)
Counters == ({"login"} \X Emails) \cup ({"change", "requestMove"} \X Users)

(* A cached fact and, for history, whether it held when it was written. *)
Fact(V) == [val : V \cup {None}, current : BOOLEAN]

NoFact == [val |-> None, current |-> TRUE]

Redis == [otp : [Purposes \X Emails -> [code : {0} \cup Ids, tries : Nat]],   \* otp:
          cool : SUBSET (Purposes \X Emails),                \* resend:
          failures : [Counters -> Nat],                      \* lf:
          vault : [Ids -> Entry],
          index : [Emails -> {0} \cup Ids],                  \* the invitee index
          status : [Users -> Fact({"active", "blocked"})],   \* us:
          verified : [Users -> Fact(BOOLEAN)],               \* uev:
          epoch : [Users -> Nat]]                            \* ep:

Session == [user : Users, id : {0} \cup Ids, age : Nat]

Access == [user : Users, epoch : Nat, age : Nat]

Job == [user : Users, word : Words, hash : Hash]

(* A row of the host's API keys.  until: the instant the key stops          *)
(* verifying, zero for never.                                               *)
KeyRow == [state : {"none", "active", "revoked"}, until : Nat,
           held : BOOLEAN]             \* history: its plaintext was handed to the operator

NoKey == [state |-> "none", until |-> 0, held |-> FALSE]

(* What the flows of Tickets and ApiKeys carry. *)
Slip == [life : Nat,                   \* a life or an overlap, in seconds
         since : Nat,                  \* the clock as last read
         row : KeyRow,
         late : BOOLEAN]               \* history: what is presented was dead by then

NoSlip == [life |-> 0, since |-> 0, row |-> NoKey, late |-> FALSE]

Flows == Requests \cup {"none", "rehash"}

(* The awaits a handler can be at. *)
PCs == {"idle", "lockout", "find", "fail", "clear", "admit", "epoch", "session", "reread", "upgrade",
        "cool", "account", "release", "code", "fingerprint", "mint", "mail", "verify", "owner",
        "take", "bound", "self", "keep", "write", "sweep", "bump", "notify", "free", "move",
        "flag", "dropVerified", "dropStatus", "getStatus", "getVerified", "resolve", "setStatus",
        "setVerified", "known", "create", "inviter", "index", "pending", "claim", "remove",
        "confirm", "withdraw", "unindex", "authority", "exchange", "link", "blacklist", "bulk",
        "pass", "lookUp", "measure", "mintTicket", "getdel", "revokeToken", "findKey",
        "createKey", "retireKey", "handOver", "markRevoked", "readRow", "judge", "audit"}

Handler == [pc : PCs, flow : Flows, id : {0} \cup Ids,
            email : Emails \cup {None},
            word : Words \cup {None},       \* the password submitted as current
            fresh : Words \cup {None},      \* the password submitted as new
            proof : {0} \cup Ids,           \* the code or token submitted
            user : Users \cup {None},
            account : User,                 \* the account as last read
            data : Entry,                   \* the record taken, or to be written
            approved : {0} \cup Ids,        \* the invitation the rank check approved
            tries : Nat,
            kept : Session \cup {None},
            slip : Slip,
            age : Nat]                      \* history: see Take and Write

Idle == [pc |-> "idle", flow |-> "none", id |-> 0, email |-> None, word |-> None,
         fresh |-> None, proof |-> 0, user |-> None, account |-> NoUser, data |-> NoEntry,
         approved |-> 0, tries |-> 0, kept |-> None, slip |-> NoSlip, age |-> 0]

History == [mailed : SUBSET Ids,            \* values that reached their addressee
            spent : [Ids -> Nat],           \* how often a code or token was accepted
            wrong : [Ids -> Nat],           \* wrong guesses compared with a code
            guesses : [Counters -> Nat],    \* wrong passwords since the counter restarted
            dead : SUBSET Ids]              \* invitations superseded or revoked

(* The store is well-typed, and no two accounts share an address. *)
StoreTypeOK ==
  /\ mix \in Mixes
  /\ users \in [Users -> User]
  /\ \A u, v \in Users : u # v /\ users[u].state # "none" => users[u].email # users[v].email
  /\ redis \in Redis
  /\ grants \in [sessions : SUBSET Session, access : SUBSET Access]
  /\ jobs \in SUBSET Job
  /\ req \in [Handlers -> Handler]
  /\ starts \in Nat
  /\ seen \in History

-----------------------------------------------------------------------------
(* Helper formulae *)

At(h, pc) == req[h].pc = pc

Goto(h, pc) == req' = [req EXCEPT ![h].pc = pc]

(* The handler answers, with success or an error. *)
Finish(h) == req' = [req EXCEPT ![h] = Idle]

Begin(h, flow, state) ==
  /\ flow \in mix.requests \cup {"rehash"}
  /\ At(h, "idle") /\ starts < mix.starts
  /\ starts' = starts + 1
  /\ req' = [req EXCEPT ![h] = [state EXCEPT !.flow = flow, !.id = starts + 1]]

(* findByEmail and findById. *)
Holder(e) == {u \in Users : users[u].state # "none" /\ users[u].email = e}

Exists(u) == users[u].state # "none"

(* assertNotBlocked, then the verification gate. *)
MaySignIn(user) == user.state = "active" /\ (mix.required => user.verified)

(* The host's unique index on the address. *)
Conflict(e, u) == Holder(e) \ {u} # {}

Failing == mix.fails

StoreInit ==
  /\ mix \in Mixes
  /\ \E verified \in {~mix.required, FALSE} :
       users = [u \in Users |->
         CASE u = Admin -> [NoUser EXCEPT !.state = "active", !.email = AdminEmail, !.rank = 2,
                              !.verified = TRUE]
           [] u = Owner -> [NoUser EXCEPT !.state = "active", !.email = OwnerEmail, !.rank = 1,
                              !.verified = verified, !.oauth = OwnerEmail,
                              !.hash = IF mix.password THEN [word |-> OwnerWord, salt |-> 0]
                                       ELSE None]
           [] OTHER -> NoUser]
  /\ redis = [otp |-> [k \in Purposes \X Emails |-> NoCode], cool |-> {},
              failures |-> [c \in Counters |-> 0], vault |-> [n \in Ids |-> NoEntry],
              index |-> [e \in Emails |-> 0], status |-> [u \in Users |-> NoFact],
              verified |-> [u \in Users |-> NoFact], epoch |-> [u \in Users |-> 0]]
  /\ grants = [sessions |-> {[user |-> Owner, id |-> 0, age |-> 0]},
               access |-> {[user |-> Owner, epoch |-> 0, age |-> 0]}]
  /\ jobs = {} /\ starts = 0
  /\ req = [h \in Handlers |-> Idle]
  /\ seen = [mailed |-> {}, spent |-> [n \in Ids |-> 0], wrong |-> [n \in Ids |-> 0],
             guesses |-> [c \in Counters |-> 0], dead |-> {}]

-----------------------------------------------------------------------------
(* Keys that expire.  An index entry outlives the invitation it names.      *)

VaultLapses(n) ==
  /\ "vault" \in mix.lapses
  /\ n \in seen.mailed /\ redis.vault[n] # NoEntry
  /\ redis' = [redis EXCEPT !.vault[n] = NoEntry]
  /\ UNCHANGED <<users, grants, jobs, req, starts, seen>>

OtpLapses(k) ==
  /\ "otp" \in mix.lapses
  /\ redis.otp[k].code \in seen.mailed
  /\ redis' = [redis EXCEPT !.otp[k] = NoCode]
  /\ UNCHANGED <<users, grants, jobs, req, starts, seen>>

CoolLapses(k) ==
  /\ "cool" \in mix.lapses
  /\ k \in redis.cool
  /\ redis' = [redis EXCEPT !.cool = @ \ {k}]
  /\ UNCHANGED <<users, grants, jobs, req, starts, seen>>

CounterLapses(c) ==
  /\ "counter" \in mix.lapses
  /\ redis.failures[c] > 0
  /\ redis' = [redis EXCEPT !.failures[c] = 0]
  /\ seen' = [seen EXCEPT !.guesses[c] = 0]
  /\ UNCHANGED <<users, grants, jobs, req, starts>>

StatusLapses(u) ==
  /\ "cache" \in mix.lapses
  /\ redis.status[u] # NoFact
  /\ redis' = [redis EXCEPT !.status[u] = NoFact]
  /\ UNCHANGED <<users, grants, jobs, req, starts, seen>>

VerifiedLapses(u) ==
  /\ "cache" \in mix.lapses
  /\ redis.verified[u] # NoFact
  /\ redis' = [redis EXCEPT !.verified[u] = NoFact]
  /\ UNCHANGED <<users, grants, jobs, req, starts, seen>>

Lapse ==
  \/ \E n \in Ids : VaultLapses(n)
  \/ \E k \in Purposes \X Emails : OtpLapses(k) \/ CoolLapses(k)
  \/ \E c \in Counters : CounterLapses(c)
  \/ \E u \in Users : StatusLapses(u) \/ VerifiedLapses(u)
=============================================================================
