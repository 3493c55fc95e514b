------------------------------- MODULE Accounts -------------------------------
(***************************************************************************)
(* The account services together, and what they promise about accounts,    *)
(* codes, links, invitations, sessions and the cached status.               *)
(***************************************************************************)
EXTENDS Onboarding, ApiKeys

vars == <<storeVars, now, ws, keys>>

Init == StoreInit /\ TicketInit /\ KeyInit

(* Nothing in flight: only the bounds on handlers and on the clock end a    *)
(* behaviour.                                                               *)
Rest ==
  /\ starts = mix.starts \/ (mix.clock > 0 /\ now = mix.clock)
  /\ \A h \in Handlers : At(h, "idle") \/ At(h, "create")
  /\ UNCHANGED <<users, redis, grants, jobs, req, starts, seen>>

Next ==
  /\ \/ (CredentialNext \/ OnboardingNext \/ Lapse \/ Rest) /\ UNCHANGED <<now, ws, keys>>
     \/ TicketNext /\ UNCHANGED keys
     \/ KeyNext
  /\ UNCHANGED mix

Spec == Init /\ [][Next]_vars

-----------------------------------------------------------------------------
(* Correctness *)

(* Everything is well-typed. *)
TypeOK == StoreTypeOK /\ TicketTypeOK /\ KeyTypeOK

(* Every code, link, invitation, state and ticket is accepted once, however its     *)
(* presentations overlap, and a code is compared with at most as many wrong *)
(* guesses as OtpService allows.                                            *)
ProofsSpentOnce ==
  \A n \in Ids : seen.spent[n] <= 1 /\ seen.wrong[n] <= MaxCodeAttempts

(* Until its counter is cleared or expires, a sign-in or a change takes at  *)
(* most one wrong password per handler beyond the limit, those that passed  *)
(* the check together.                                                      *)
LockoutBounds ==
  \A c \in Counters : seen.guesses[c] <= MaxAttempts - 1 + Cardinality(Handlers)

(* A link or verified token bound to a password does nothing once that      *)
(* password was replaced before it was presented, whoever replaced it: of   *)
(* several sent for one password, the first one used is the last.           *)
StaleProofRefused ==
  \A h \in Handlers :
    /\ req[h].flow \in {"reset", "confirmMove"} /\ req[h].pc \in {"write", "free", "move"}
    /\ req[h].data.bound # None
    => req[h].data.age = req[h].age

(* By the time a reset or a change answers, no session and no access token  *)
(* from before its password write is left, but for the session that asked   *)
(* to be kept.                                                              *)
ResetEndsSessions ==
  \A h \in Handlers : At(h, "notify") =>
    LET u == req[h].user IN
    /\ \A s \in grants.sessions : s.user = u /\ s.age < req[h].age => s = req[h].kept
    /\ \A t \in grants.access : t.user = u /\ t.age < req[h].age => t.epoch < redis.epoch[u]

(* An invitation whose successor or revocation deleted it can no longer be  *)
(* accepted, even when it was still being written at the time.              *)
SupersededStaysDead ==
  \A n \in seen.dead \cap seen.mailed : redis.vault[n].kind # "invite"

(* A cached status or verification that held when it was written is never   *)
(* left standing once the invalidation that follows every change is through: *)
(* what can be stale is only what a guard read before the change.           *)
CacheFollows ==
  \A u \in Users :
    /\ redis.status[u].val # None /\ redis.status[u].current
         /\ redis.status[u].val # users[u].state
       => \E h \in Handlers : req[h].user = u /\ req[h].pc \in {"dropVerified", "dropStatus"}
    /\ redis.verified[u].val # None /\ redis.verified[u].current
         /\ redis.verified[u].val # users[u].verified
       => \E h \in Handlers : req[h].user = u /\ At(h, "dropVerified")

(* Nothing is let through on a credential that was dead before it was       *)
(* presented: a token or ticket whose session was signed out or swept, or   *)
(* whose token had expired; an API key that was revoked or expired.  A      *)
(* blacklist entry lapses with its token: only a token that expires while   *)
(* it is being checked slips past.                                          *)
RevokedRefused ==
  \A h \in Handlers : req[h].slip.late =>
    /\ req[h].pc \notin {"mintTicket", "audit"}
    /\ At(h, "pass") => req[h].slip.since < 2 * TokenLife /\ ~Unexpired

(* As long as nobody revokes a key, the operator holds one that works, or a *)
(* rotation is about to hand one over: it never leaves its caller without.  *)
KeyInHand ==
  "revokeKey" \notin mix.requests =>
    \E n \in Rows :
      /\ Active(keys[n], now)
      /\ keys[n].held \/ \E h \in Handlers : At(h, "handOver") /\ req[h].id = n
=============================================================================
