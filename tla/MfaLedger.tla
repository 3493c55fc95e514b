------------------------------ MODULE MfaLedger ------------------------------
(***************************************************************************)
(* What a second factor promises its owner: the account has one secret or  *)
(* none; a recovery code is printed once, works once, and stops working    *)
(* when the list it belongs to is replaced or the factor removed.  Each    *)
(* change is one step.                                                     *)
(***************************************************************************)
EXTENDS FiniteSets

CONSTANTS Secrets, Codes, None

VARIABLES factor,        \* the secret codes are checked against, or None
          codes,         \* the recovery codes that still work
          printed        \* every code that ever worked

ledgerVars == <<factor, codes, printed>>

Init ==
  /\ factor \in Secrets \cup {None}
  /\ codes \in SUBSET Codes
  /\ factor = None => codes = {}
  /\ printed = codes

(* A new list has no code of an earlier one. *)
NewList(C) == C \cap printed = {} /\ codes' = C /\ printed' = printed \cup C

Enroll(s, C) == s # factor /\ factor' = s /\ NewList(C)

Remove == factor' = None /\ codes' = {} /\ UNCHANGED printed

Spend(c) == c \in codes /\ codes' = codes \ {c} /\ UNCHANGED <<factor, printed>>

Reprint(C) == factor # None /\ NewList(C) /\ UNCHANGED factor

Next ==
  \/ \E C \in SUBSET Codes : Reprint(C) \/ \E s \in Secrets : Enroll(s, C)
  \/ Remove
  \/ \E c \in Codes : Spend(c)

Spec == Init /\ [][Next]_ledgerVars
=============================================================================
