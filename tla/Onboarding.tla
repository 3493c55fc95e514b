------------------------------ MODULE Onboarding ------------------------------
(***************************************************************************)
(* How an account comes to be: AuthService.register, InvitationService and *)
(* OAuthService.  An invitation is a record under the hash of its token and *)
(* an index from the invited address to that hash, which is all the issuing *)
(* side can later find it by.                                              *)
(***************************************************************************)
EXTENDS Credentials

-----------------------------------------------------------------------------
(* Creating the account: register, acceptInvitation and an OAuth callback   *)
(* look the address up, then insert; the host's index decides a tie.        *)

Register(h, e, w) ==
  /\ Begin(h, "register", [Idle EXCEPT !.pc = "known", !.email = e, !.fresh = w])
  /\ UNCHANGED <<users, redis, grants, jobs, seen>>

Known(h) ==
  /\ At(h, "known")
  /\ IF Holder(req[h].email) # {} THEN Finish(h) ELSE Goto(h, "create")
  /\ UNCHANGED <<users, redis, grants, jobs, starts, seen>>

(* An invitee has shown to own the address; a provider says whether.  The   *)
(* host gives a registered account the lowest rank.                         *)
NewUser(h, verified) ==
  [state |-> "active", email |-> req[h].email, verified |-> verified, writes |-> 0,
   rank |-> IF req[h].flow = "accept" THEN req[h].data.rank ELSE 1,
   hash |-> IF req[h].flow = "callback" THEN None ELSE [word |-> req[h].fresh, salt |-> req[h].id],
   oauth |-> IF req[h].flow = "callback" THEN req[h].email ELSE None]

Verdicts(h) ==
  CASE req[h].flow = "accept" -> {TRUE} [] req[h].flow = "callback" -> BOOLEAN
    [] req[h].flow = "register" -> IF mix.required THEN {FALSE} ELSE BOOLEAN

(* Mutant: the host has no unique index. *)
RefusedNever(h) == FALSE

Refused(h) == Holder(req[h].email) # {}

Create(h) ==
  /\ At(h, "create")
  /\ IF Refused(h) THEN Finish(h) /\ UNCHANGED users
     ELSE \E u \in {v \in Slots : ~Exists(v)}, verified \in Verdicts(h) :
            /\ users' = [users EXCEPT ![u] = NewUser(h, verified)]
            /\ req' = [req EXCEPT ![h].user = u, ![h].pc =
                 IF req[h].flow = "register" /\ mix.required THEN "code"
                 ELSE IF req[h].flow = "callback" THEN "admit" ELSE "epoch"]
  /\ UNCHANGED <<redis, grants, jobs, starts, seen>>

-----------------------------------------------------------------------------
(* invite: the index is claimed first, then the record is written, then the *)
(* claim is confirmed and only then is the invitation mailed.               *)

Invite(h, u, e, rank) ==
  /\ Begin(h, "invite", [Idle EXCEPT !.pc = "inviter", !.user = u, !.email = e,
       !.data = [NoEntry EXCEPT !.kind = "invite", !.user = u, !.email = e, !.rank = rank]])
  /\ UNCHANGED <<users, redis, grants, jobs, seen>>

Revoke(h, u, e) ==
  /\ Begin(h, "revoke", [Idle EXCEPT !.pc = "inviter", !.user = u, !.email = e])
  /\ UNCHANGED <<users, redis, grants, jobs, seen>>

(* Who invites has to outrank what it grants; who revokes, to be in good    *)
(* standing.                                                                *)
Inviter(h) ==
  /\ At(h, "inviter")
  /\ LET user == users[req[h].user] IN
     IF IF req[h].flow = "invite" THEN user.rank >= req[h].data.rank ELSE user.state = "active"
       THEN req' = [req EXCEPT ![h].pc = "index", ![h].account = user]
       ELSE Finish(h)
  /\ UNCHANGED <<users, redis, grants, jobs, starts, seen>>

Index(h) ==
  /\ At(h, "index")
  /\ LET named == redis.index[req[h].email] IN
     IF named # 0 THEN req' = [req EXCEPT ![h].pc = "pending", ![h].approved = named]
     ELSE IF req[h].flow = "revoke" THEN Finish(h)
     ELSE req' = [req EXCEPT ![h].pc = "claim", ![h].approved = 0]
  /\ UNCHANGED <<users, redis, grants, jobs, starts, seen>>

(* mayWithdraw: a record that is not there is nobody's to protect. *)
MayWithdraw(h, entry) == entry.kind = "invite" => req[h].account.rank >= entry.rank

Pending(h) ==
  /\ At(h, "pending")
  /\ IF MayWithdraw(h, redis.vault[req[h].approved])
       THEN Goto(h, IF req[h].flow = "invite" THEN "claim" ELSE "unindex")
       ELSE Finish(h)
  /\ UNCHANGED <<users, redis, grants, jobs, starts, seen>>

(* claimInviteeIndex: a compare-and-set.  A lost claim starts over. *)
Claim(h) ==
  /\ At(h, "claim")
  /\ IF redis.index[req[h].email] = req[h].approved
       THEN /\ redis' = [redis EXCEPT !.index[req[h].email] = req[h].id]
            /\ Goto(h, IF req[h].approved = 0 THEN "mint" ELSE "remove")
       ELSE /\ UNCHANGED redis
            /\ IF req[h].tries + 1 < SupersedeAttempts
                 THEN req' = [req EXCEPT ![h].pc = "index", ![h].tries = @ + 1]
                 ELSE Finish(h)
  /\ UNCHANGED <<users, grants, jobs, starts, seen>>

(* The record of the invitation superseded, or revoked, is deleted. *)
Remove(h) ==
  /\ At(h, "remove")
  /\ redis' = [redis EXCEPT !.vault[req[h].approved] = NoEntry]
  /\ seen' = [seen EXCEPT !.dead = @ \cup {req[h].approved}]
  /\ IF req[h].flow = "invite" THEN Goto(h, "mint") ELSE Finish(h)
  /\ UNCHANGED <<users, grants, jobs, starts>>

(* The claim is repeated against this invitation's own hash.  Mutant: the   *)
(* invitation is mailed whatever became of it.                              *)
StillNamedAlways(h) == TRUE

StillNamed(h) == redis.index[req[h].email] = req[h].id

Confirm(h) ==
  /\ At(h, "confirm")
  /\ \/ Goto(h, IF StillNamed(h) THEN "mail" ELSE "withdraw")
     \/ Failing /\ Goto(h, "withdraw")
  /\ UNCHANGED <<users, redis, grants, jobs, starts, seen>>

(* withdrawRecord, best-effort. *)
Withdraw(h) ==
  /\ At(h, "withdraw")
  /\ \/ redis' = [redis EXCEPT !.vault[req[h].id] = NoEntry]
     \/ Failing /\ UNCHANGED redis
  /\ Finish(h)
  /\ UNCHANGED <<users, grants, jobs, starts, seen>>

(* Revoking deletes the index before the record; accepting, whichever       *)
(* invitation it names by then.                                             *)
Unindex(h) ==
  /\ At(h, "unindex")
  /\ redis' = [redis EXCEPT !.index[req[h].email] = 0]
  /\ Goto(h, IF req[h].flow = "revoke" THEN "remove" ELSE "authority")
  /\ UNCHANGED <<users, grants, jobs, starts, seen>>

(* assertInviterStillAuthorised *)
Authority(h) ==
  /\ At(h, "authority")
  /\ LET inviter == users[req[h].data.user] IN
     IF inviter.state = "active" /\ inviter.rank >= req[h].data.rank
       THEN Goto(h, "known") ELSE Finish(h)
  /\ UNCHANGED <<users, redis, grants, jobs, starts, seen>>

-----------------------------------------------------------------------------
(* OAuth: a state goes out with the redirect and comes back with a profile. *)

Authorize(h) ==
  /\ Begin(h, "authorize", [Idle EXCEPT !.pc = "mint", !.data.kind = "state"])
  /\ UNCHANGED <<users, redis, grants, jobs, seen>>

(* exchangeCode, fetchProfile and findByOAuthId; then the host's hook says  *)
(* to create an account, to link the one found, or to refuse.               *)
Exchange(h) ==
  /\ At(h, "exchange")
  /\ \/ Goto(h, "known")
     \/ \E u \in Users : users[u].oauth = req[h].email
                         /\ req' = [req EXCEPT ![h].pc = "link", ![h].user = u]
     \/ Finish(h)
  /\ UNCHANGED <<users, redis, grants, jobs, starts, seen>>

(* linkOAuth; the account is read again and its standing checked (Admit). *)
Link(h) ==
  /\ At(h, "link")
  /\ users' = [users EXCEPT ![req[h].user].oauth = req[h].email]
  /\ Goto(h, "admit")
  /\ UNCHANGED <<redis, grants, jobs, starts, seen>>

-----------------------------------------------------------------------------

OnboardingStep(h) ==
  \/ Known(h) \/ Create(h) \/ Inviter(h) \/ Index(h) \/ Pending(h) \/ Claim(h) \/ Remove(h)
  \/ Confirm(h) \/ Withdraw(h) \/ Unindex(h) \/ Authority(h) \/ Exchange(h) \/ Link(h)

OnboardingRequest(h) ==
  \/ \E e \in mix.emails, w \in NewWords : Register(h, e, w)
  \/ \E u \in {Admin, Owner}, e \in mix.emails, rank \in 1..2 :
       Invite(h, u, e, rank) \/ Revoke(h, u, e)
  \/ \E n \in Ids, w \in NewWords : Redeem(h, "accept", None, n, w)
  \/ \E n \in Ids, e \in mix.emails : Redeem(h, "callback", e, n, None)
  \/ Authorize(h)

OnboardingNext == \E h \in Handlers : OnboardingRequest(h) \/ OnboardingStep(h)
=============================================================================
