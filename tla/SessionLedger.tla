---------------------------- MODULE SessionLedger ----------------------------
(***************************************************************************)
(* What TokenManagerService promises its callers, with none of the keys it  *)
(* keeps the promise with: a ledger of refresh tokens.  A token is issued   *)
(* once, stands for a session until that ends, and is exchanged for the     *)
(* next one; every operation is one step.  No index, family set, grace      *)
(* pointer or reuse marker appears here, and no request half-way.           *)
(***************************************************************************)
CONSTANTS Users, Families, Hashes, None, NoFamily

VARIABLES holds,        \* the session a token stands for, or None
          issued,       \* the session a token was issued with, or None
          exchanged,    \* tokens exchanged for a successor
          recovered,    \* tokens whose exchange was repeated in the grace window
          out,          \* accounts signed out everywhere and not signed in since
          dead          \* lineages ended because a token of theirs was replayed

ledgerVars == <<holds, issued, exchanged, recovered, out, dead>>

-----------------------------------------------------------------------------
(* Helper formulae *)

Issue(t, s) ==
  /\ issued[t] = None
  /\ issued' = [issued EXCEPT ![t] = s]

NewLineage(f) == \A t \in Hashes : issued[t] # None => issued[t].family # f

HeldBy(u) == {t \in Hashes : holds[t] # None /\ holds[t].user = u}

HeldIn(f) == {t \in Hashes : holds[t] # None /\ holds[t].family = f}

(* The sessions of these tokens end, and no other. *)
EndAll(tokens) == holds' = [t \in Hashes |-> IF t \in tokens THEN None ELSE holds[t]]

-----------------------------------------------------------------------------
Init ==
  /\ holds \in [Hashes -> {None} \cup
                   {[user |-> u, family |-> NoFamily, mfa |-> FALSE] : u \in Users}]
  /\ issued = holds
  /\ exchanged = {}
  /\ recovered = {}
  /\ out = {}
  /\ dead = {}

SignIn(u, f, verified, t) ==
  LET s == [user |-> u, family |-> f, mfa |-> verified]
  IN  /\ NewLineage(f)
      /\ Issue(t, s)
      /\ holds' = [holds EXCEPT ![t] = s]
      /\ out' = out \ {u}
      /\ UNCHANGED <<exchanged, recovered, dead>>

(* The first exchange of a token hands its session to the successor.        *)
Exchange(t, next) ==
  /\ holds[t] # None
  /\ t \notin exchanged
  /\ Issue(next, holds[t])
  /\ holds' = [holds EXCEPT ![next] = holds[t], ![t] = None]
  /\ exchanged' = exchanged \cup {t}
  /\ UNCHANGED <<recovered, out, dead>>

(* The one repetition opens a second session of the same account, lineage   *)
(* and factor; not once either was ended.                                   *)
Recover(t, next) ==
  /\ t \in exchanged
  /\ t \notin recovered
  /\ issued[t].user \notin out
  /\ issued[t].family \notin dead
  /\ Issue(next, issued[t])
  /\ holds' = [holds EXCEPT ![next] = issued[t]]
  /\ recovered' = recovered \cup {t}
  /\ UNCHANGED <<exchanged, out, dead>>

(* A session is revoked from the list, or its time is over. *)
End(t) ==
  /\ holds[t] # None
  /\ holds' = [holds EXCEPT ![t] = None]
  /\ UNCHANGED <<issued, exchanged, recovered, out, dead>>

SignOutEverywhere(u) ==
  /\ EndAll(HeldBy(u))
  /\ out' = out \cup {u}
  /\ UNCHANGED <<issued, exchanged, recovered, dead>>

(* Only an exchanged token of the lineage gets the lineage ended. *)
EndLineage(f) ==
  /\ \E t \in exchanged : issued[t].family = f
  /\ EndAll(HeldIn(f))
  /\ dead' = dead \cup {f}
  /\ UNCHANGED <<issued, exchanged, recovered, out>>

Next ==
  \/ \E u \in Users, f \in Families, verified \in BOOLEAN, t \in Hashes :
       SignIn(u, f, verified, t)
  \/ \E t, next \in Hashes : Exchange(t, next) \/ Recover(t, next)
  \/ \E t \in Hashes : End(t)
  \/ \E u \in Users : SignOutEverywhere(u)
  \/ \E f \in Families : EndLineage(f)

Spec == Init /\ [][Next]_ledgerVars
=============================================================================
