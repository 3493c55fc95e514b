------------------------------- MODULE ApiKeys ---------------------------------
(***************************************************************************)
(* Service API keys: rows in the host's repository that an operator        *)
(* issues, rotates and revokes and that a guard reads on every request.    *)
(* A key is named by the handler that issued it; the operator begins with  *)
(* key zero.  Scopes and the secret's comparison are left out.             *)
(***************************************************************************)
EXTENDS Tickets

VARIABLE keys

Rows == {0} \cup Ids

KeyTypeOK == keys \in [Rows -> KeyRow]

KeyInit ==
  keys = [n \in Rows |-> [NoKey EXCEPT !.state = IF n = 0 THEN "active" ELSE "none", !.held = n = 0]]

-----------------------------------------------------------------------------

(* Mutant: a key still verifies at the instant it expires. *)
ActiveLate(row, t) == row.state = "active" /\ (row.until = 0 \/ row.until >= t)

(* isActive, rejection *)
Active(row, t) == row.state = "active" /\ (row.until = 0 \/ row.until > t)

(* What rotate does one after the other.  Mutant: it retires first. *)
AfterRetiring(pc) ==
  CASE pc = "findKey" -> "retireKey" [] pc = "retireKey" -> "createKey" [] OTHER -> "handOver"

After(pc) ==
  CASE pc = "findKey" -> "createKey" [] pc = "createKey" -> "retireKey" [] OTHER -> "handOver"

(* An expiry is asked for only where the operator also revokes keys. *)
Expiries == {0} \cup {now + 2 : flow \in {"revokeKey"} \cap mix.requests}

IssueKey(h, until) ==
  /\ Begin(h, "issueKey", [Idle EXCEPT !.pc = "createKey", !.slip.row.until = until])
  /\ UNCHANGED <<users, redis, grants, jobs, seen, now, ws, keys>>

RotateKey(h, n, overlap) ==
  /\ keys[n].held
  /\ Begin(h, "rotateKey", [Idle EXCEPT !.pc = "findKey", !.proof = n, !.slip.since = now,
                                        !.slip.life = overlap])
  /\ UNCHANGED <<users, redis, grants, jobs, seen, now, ws, keys>>

(* The row as read, judged by the clock the rotation began with. *)
FindKey(h) ==
  /\ At(h, "findKey")
  /\ LET row == keys[req[h].proof] IN
     IF Active(row, req[h].slip.since)
       THEN req' = [req EXCEPT ![h].pc = After("findKey"), ![h].slip.row = row]
       ELSE Finish(h)
  /\ UNCHANGED <<users, redis, grants, jobs, starts, seen, now, ws, keys>>

CreateKey(h) ==
  /\ At(h, "createKey")
  /\ LET issuing == req[h].flow = "issueKey" IN
     \/ /\ keys' = [keys EXCEPT ![req[h].id].state = "active",
                       ![req[h].id].until = IF issuing THEN req[h].slip.row.until ELSE 0]
        /\ Goto(h, IF issuing THEN "handOver" ELSE After("createKey"))
     \/ Failing /\ Finish(h) /\ UNCHANGED keys
  /\ UNCHANGED <<users, redis, grants, jobs, starts, seen, now, ws>>

(* Revoked at once, or expired after the overlap or when it would have been. *)
Retired(h) ==
  LET slip == req[h].slip
      retireAt == slip.since + 2 * slip.life IN
  IF slip.life = 0 THEN [keys EXCEPT ![req[h].proof].state = "revoked"]
  ELSE [keys EXCEPT ![req[h].proof].until =
          IF slip.row.until # 0 THEN Min2(slip.row.until, retireAt) ELSE retireAt]

RetireKey(h) ==
  /\ At(h, "retireKey")
  /\ \/ keys' = Retired(h) /\ Goto(h, After("retireKey"))
     \/ Failing /\ Finish(h) /\ UNCHANGED keys
  /\ UNCHANGED <<users, redis, grants, jobs, starts, seen, now, ws>>

(* The answer, with the plaintext. *)
HandOver(h) ==
  /\ At(h, "handOver")
  /\ keys' = [keys EXCEPT ![req[h].id].held = TRUE]
  /\ Finish(h)
  /\ UNCHANGED <<users, redis, grants, jobs, starts, seen, now, ws>>

RevokeKey(h, n) ==
  /\ keys[n].held
  /\ Begin(h, "revokeKey", [Idle EXCEPT !.pc = "markRevoked", !.proof = n])
  /\ UNCHANGED <<users, redis, grants, jobs, seen, now, ws, keys>>

MarkRevoked(h) ==
  /\ At(h, "markRevoked")
  /\ \/ keys' = [keys EXCEPT ![req[h].proof].state = "revoked"]
     \/ Failing /\ UNCHANGED keys
  /\ Finish(h)
  /\ UNCHANGED <<users, redis, grants, jobs, starts, seen, now, ws>>

-----------------------------------------------------------------------------
(* The guard.  History: a key is presented late when it was revoked, or     *)
(* expired with no rotation under way that may still move its expiry.       *)
Dead(n) ==
  \/ keys[n].state = "revoked"
  \/ /\ keys[n].until # 0 /\ keys[n].until <= now
     /\ ~\E h \in Handlers : req[h].pc \in {"createKey", "retireKey"} /\ req[h].proof = n

UseKey(h, n) ==
  /\ keys[n].held
  /\ Begin(h, "useKey", [Idle EXCEPT !.pc = "readRow", !.proof = n, !.slip.late = Dead(n)])
  /\ UNCHANGED <<users, redis, grants, jobs, seen, now, ws, keys>>

ReadRow(h) ==
  /\ At(h, "readRow")
  /\ req' = [req EXCEPT ![h].pc = "judge", ![h].slip.row = keys[req[h].proof]]
  /\ UNCHANGED <<users, redis, grants, jobs, starts, seen, now, ws, keys>>

(* By the clock after the read. *)
Judge(h) ==
  /\ At(h, "judge")
  /\ IF Active(req[h].slip.row, now) THEN Goto(h, "audit") ELSE Finish(h)
  /\ UNCHANGED <<users, redis, grants, jobs, starts, seen, now, ws, keys>>

(* The request is let through, or refused for want of its audit record. *)
Audit(h) ==
  /\ At(h, "audit")
  /\ Finish(h)
  /\ UNCHANGED <<users, redis, grants, jobs, starts, seen, now, ws, keys>>

-----------------------------------------------------------------------------

KeyNext ==
  \E h \in Handlers :
    \/ \E until \in Expiries : IssueKey(h, until)
    \/ \E n \in Rows : UseKey(h, n) \/ RevokeKey(h, n) \/ \E overlap \in 0..1 : RotateKey(h, n, overlap)
    \/ FindKey(h) \/ CreateKey(h) \/ RetireKey(h) \/ HandOver(h) \/ MarkRevoked(h)
    \/ ReadRow(h) \/ Judge(h) \/ Audit(h)
=============================================================================
