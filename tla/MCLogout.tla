------------------------------- MODULE MCLogout -------------------------------
(* The workloads Logout is explored under. *)
EXTENDS Logout

(* Two attempts beside each other while two commands fail, the same beside  *)
(* refreshes and while one fails, with a third attempt too, and one client  *)
(* that tries again after each answer while four commands fail.             *)
MCMixes ==
  {[handlers |-> 2, begun |-> 2, failures |-> 2, refreshes |-> FALSE],
   [handlers |-> 2, begun |-> 2, failures |-> 1, refreshes |-> TRUE],
   [handlers |-> 2, begun |-> 3, failures |-> 1, refreshes |-> FALSE],
   [handlers |-> 1, begun |-> 5, failures |-> 4, refreshes |-> FALSE]}
=============================================================================
