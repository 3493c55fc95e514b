------------------------------- MODULE Tickets ---------------------------------
(***************************************************************************)
(* An access token against a clock: the check every guard runs on it, the  *)
(* logout that blacklists it, and the single-use ticket it is exchanged    *)
(* for to open a socket.                                                    *)
(*                                                                         *)
(* The token is the owner's first one, stamped with epoch zero.  The clock *)
(* counts half seconds, tokens and keys live in whole ones: what is rounded *)
(* up and what is rounded down shows.                                       *)
(***************************************************************************)
EXTENDS AccountStore

CONSTANTS TokenLife,   \* seconds until the token's exp
          TicketTtl    \* WS_TICKET_TTL_SECONDS

ASSUME TicketAssumption == {TokenLife, TicketTtl} \subseteq Nat \ {0}

VARIABLES now,   \* half seconds
          ws     \* the keys, see Sockets

Sockets == [tickets : [Ids -> Nat],   \* wst:, by the instant each lapses
            black : Nat,              \* rv:, likewise
            out : BOOLEAN]            \* history: a logout was answered

TicketTypeOK == now \in 0..mix.clock /\ ws \in Sockets

TicketInit ==
  /\ now = 0
  /\ ws = [tickets |-> [n \in Ids |-> 0], black |-> 0, out |-> FALSE]

-----------------------------------------------------------------------------

Floor == now \div 2

Ceil == (now + 1) \div 2

Min2(a, b) == IF a < b THEN a ELSE b

(* verifyWithRotation *)
Unexpired == Floor < TokenLife

(* The token was revoked and whoever did it was told. *)
Ended == ws.out \/ redis.epoch[Owner] > 0

(* lifetimeFor.  Mutant: nothing is held back for the write's way to Redis. *)
LifetimeWhole == Min2(TicketTtl, TokenLife - Ceil)

Lifetime == Min2(TicketTtl, TokenLife - Ceil - 1)

(* blacklistWrites.  Mutant: the remaining life is rounded down. *)
RemainingShort == TokenLife - Ceil

Remaining == TokenLife - Floor

(* Time passes, but a ticket's write reaches Redis within a second of the   *)
(* reading its life was measured by.                                        *)
Tick ==
  /\ now < mix.clock
  /\ \A h \in Handlers : At(h, "mintTicket") => now < req[h].slip.since + 2
  /\ now' = now + 1
  /\ UNCHANGED <<users, redis, grants, jobs, req, starts, seen, ws>>

-----------------------------------------------------------------------------
(* A bearer token at a socket, at the service a host's own transport calls, *)
(* and at the route that issues tickets.                                    *)

(* Verified by signature and expiry; the revocation checks are next. *)
Presented(late) == [Idle EXCEPT !.pc = "blacklist", !.user = Owner, !.slip.late = late,
                                 !.slip.since = now]

Bearer(h) ==
  /\ Unexpired
  /\ Begin(h, "bearer", Presented(Ended))
  /\ UNCHANGED <<users, redis, grants, jobs, seen, now, ws>>

Verify(h) ==
  /\ Unexpired
  /\ Begin(h, "verify", Presented(Ended))
  /\ UNCHANGED <<users, redis, grants, jobs, seen, now, ws>>

AskTicket(h) ==
  /\ Unexpired
  /\ Begin(h, "ticket", Presented(Ended))
  /\ UNCHANGED <<users, redis, grants, jobs, seen, now, ws>>

(* isAccessTokenRevoked: two reads. *)
ReadBlacklist(h) ==
  /\ At(h, "blacklist")
  /\ IF now < ws.black THEN Finish(h) ELSE Goto(h, "bulk")
  /\ UNCHANGED <<users, redis, grants, jobs, starts, seen, now, ws>>

(* The status is then read through its cache (GetStatus), but for a socket. *)
ReadEpoch(h) ==
  /\ At(h, "bulk")
  /\ IF redis.epoch[req[h].user] > 0 THEN Finish(h)
     ELSE Goto(h, IF req[h].flow \in {"ticket", "verify"} THEN "getStatus" ELSE "pass")
  /\ UNCHANGED <<users, redis, grants, jobs, starts, seen, now, ws>>

(* The request is let through. *)
Pass(h) ==
  /\ At(h, "pass")
  /\ Finish(h)
  /\ UNCHANGED <<users, redis, grants, jobs, starts, seen, now, ws>>

(* issue: the account is read, and the life left measured before and after. *)
LookUp(h) ==
  /\ At(h, "lookUp")
  /\ IF Lifetime > 0 /\ users[req[h].user].state = "active" THEN Goto(h, "measure") ELSE Finish(h)
  /\ UNCHANGED <<users, redis, grants, jobs, starts, seen, now, ws>>

Measure(h) ==
  /\ At(h, "measure")
  /\ IF Lifetime > 0
       THEN req' = [req EXCEPT ![h].pc = "mintTicket", ![h].slip.life = Lifetime,
                               ![h].slip.since = now]
       ELSE Finish(h)
  /\ UNCHANGED <<users, redis, grants, jobs, starts, seen, now, ws>>

MintTicket(h) ==
  /\ At(h, "mintTicket")
  /\ ws' = [ws EXCEPT !.tickets[req[h].id] = now + 2 * req[h].slip.life]
  /\ seen' = [seen EXCEPT !.mailed = @ \cup {req[h].id}]
  /\ Finish(h)
  /\ UNCHANGED <<users, redis, grants, jobs, starts, now>>

(* A socket opened with a ticket: GETDEL, then the same two reads. *)
OpenSocket(h, n) ==
  /\ n \in seen.mailed
  /\ Begin(h, "redeem", [Presented(Ended \/ ~Unexpired) EXCEPT !.pc = "getdel", !.proof = n])
  /\ UNCHANGED <<users, redis, grants, jobs, seen, now, ws>>

TakeTicket(h) ==
  /\ At(h, "getdel")
  /\ LET n == req[h].proof IN
     IF now < ws.tickets[n]
       THEN /\ ws' = [ws EXCEPT !.tickets[n] = 0]
            /\ seen' = [seen EXCEPT !.spent[n] = @ + 1]
            /\ Goto(h, "blacklist")
       ELSE Finish(h) /\ UNCHANGED <<ws, seen>>
  /\ UNCHANGED <<users, redis, grants, jobs, starts, now>>

(* The blacklist write of a logout; Logout has its other writes. *)
SignOut(h) ==
  /\ Remaining > 0
  /\ Begin(h, "signOut", [Idle EXCEPT !.pc = "revokeToken", !.slip.life = Remaining])
  /\ UNCHANGED <<users, redis, grants, jobs, seen, now, ws>>

Blacklist(h) ==
  /\ At(h, "revokeToken")
  /\ ws' = [ws EXCEPT !.black = now + 2 * req[h].slip.life, !.out = TRUE]
  /\ Finish(h)
  /\ UNCHANGED <<users, redis, grants, jobs, starts, seen, now>>

-----------------------------------------------------------------------------

TicketNext ==
  \/ Tick
  \/ \E h \in Handlers :
       \/ Bearer(h) \/ Verify(h) \/ AskTicket(h) \/ SignOut(h) \/ \E n \in Ids : OpenSocket(h, n)
       \/ ReadBlacklist(h) \/ ReadEpoch(h) \/ Pass(h) \/ LookUp(h) \/ Measure(h)
       \/ MintTicket(h) \/ TakeTicket(h) \/ Blacklist(h)
=============================================================================
