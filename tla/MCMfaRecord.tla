----------------------------- MODULE MCMfaRecord -----------------------------
(* Model values, bounds and symmetry for MfaRecord. *)
EXTENDS MfaRecord, TLC

(* Recovery-code challenges, removals and new codes under a lock that       *)
(* expires; three administrative resets and new lists under it; three       *)
(* challenges and resets; every flow, two at a time, while keys expire;     *)
(* TOTP codes over three steps; the set-up of an account without a password. *)
MCMixes ==
  {[plane |-> "platform", password |-> TRUE, requests |-> {"challenge", "disable", "regenerate"},
    lapses |-> {"lock"}, starts |-> 2, time |-> 0],
   [plane |-> "platform", password |-> TRUE, requests |-> {"reset", "regenerate"},
    lapses |-> {"lock"}, starts |-> 3, time |-> 0],
   [plane |-> "platform", password |-> TRUE, requests |-> {"challenge", "reset"},
    lapses |-> {}, starts |-> 3, time |-> 0],
   [plane |-> "dashboard", password |-> TRUE,
    requests |-> {"login", "challenge", "setup", "enable", "disable", "reset", "regenerate"},
    lapses |-> {"claim", "setup", "temp", "counter"}, starts |-> 2, time |-> 0],
   [plane |-> "dashboard", password |-> TRUE, requests |-> {"challenge", "disable"},
    lapses |-> {}, starts |-> 2, time |-> 2],
   [plane |-> "dashboard", password |-> FALSE, requests |-> {"setup", "enable"},
    lapses |-> {"lock", "setup"}, starts |-> 3, time |-> 0]}

(* Handlers, codes, challenge tokens and secrets are interchangeable. *)
Symmetry == Permutations(Handlers) \cup Permutations(Codes) \cup Permutations(Tokens)
              \cup Permutations(Secrets)
=============================================================================
