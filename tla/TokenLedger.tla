----------------------------- MODULE TokenLedger -----------------------------
(***************************************************************************)
(* TokenRotation implements SessionLedger.  A session is a live record; how *)
(* a token was exchanged is read off the tokens minted from it.             *)
(***************************************************************************)
EXTENDS TokenRotation

(* The session each token was minted with. *)
IssuedRecords == [h \in Hashes |-> IF minted[h] = None THEN None ELSE minted[h].session]

(* The tokens a later one was minted from, by a rotation or by a recovery.  *)
Exchanged(how) ==
  {h \in Hashes : \E g \in Hashes :
     minted[g] # None /\ minted[g].from = h /\ minted[g].by = how}

Ledger == INSTANCE SessionLedger WITH
            holds <- live,
            issued <- IssuedRecords,
            exchanged <- Exchanged("rotate"),
            recovered <- Exchanged("recover"),
            out <- signedOut,
            dead <- revoked

(* Whatever handlers interleave, die or race an expiry, a client sees a     *)
(* ledger: each answer of login, refresh and revocation is one step of      *)
(* SessionLedger, and everything else the code does is none.                *)
LedgerKept == Ledger!Spec
=============================================================================
