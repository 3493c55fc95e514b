------------------------------ MODULE MCAccounts ------------------------------
(* Model values, bounds and symmetry for Accounts. *)
EXTENDS AccountClaims, TLC

Base == [method |-> "token", required |-> FALSE, password |-> TRUE, emails |-> {OwnerEmail},
         requests |-> {}, lapses |-> {}, fails |-> FALSE, starts |-> 3, clock |-> 0]

Vacant == Emails \ {OwnerEmail, AdminEmail}

Both == {OwnerEmail} \cup Vacant

(* The deployments and workloads. *)
MCMixes ==
  {[Base EXCEPT !.requests = {"forgot", "reset", "login"}, !.lapses = {"cool"}, !.starts = 4],
   [Base EXCEPT !.requests = {"forgot", "reset", "change"}, !.lapses = {"cool"}],
   [Base EXCEPT !.requests = {"forgot", "reset"}, !.password = FALSE, !.fails = TRUE,
                !.lapses = {"cool", "vault"}, !.emails = Both],
   [Base EXCEPT !.method = "otp", !.requests = {"forgot", "verifyOtp", "resetOtp", "reset"},
                !.lapses = {"otp", "cool"}, !.starts = 4],
   [Base EXCEPT !.requests = {"requestMove", "confirmMove", "change", "register"}, !.fails = TRUE,
                !.emails = Both],
   [Base EXCEPT !.requests = {"login", "unlock"}, !.lapses = {"counter"}, !.starts = 4],
   [Base EXCEPT !.requests = {"resendOtp", "resendVerification", "verifyEmail", "guard"},
                !.required = TRUE, !.fails = TRUE, !.emails = Both],
   [Base EXCEPT !.requests = {"resendVerification", "verifyEmail", "guard", "suspend"},
                !.required = TRUE, !.lapses = {"cache"}, !.starts = 4],
   [Base EXCEPT !.requests = {"invite", "revoke", "accept"}, !.fails = TRUE, !.emails = Vacant],
   [Base EXCEPT !.requests = {"invite", "accept", "suspend", "register"},
                !.emails = Vacant],
   [Base EXCEPT !.requests = {"authorize", "callback", "register"}, !.required = TRUE,
                !.emails = Both],
   [Base EXCEPT !.requests = {"register", "forUser", "suspend", "callback", "authorize"},
                !.emails = Vacant],
   [Base EXCEPT !.requests = {"ticket", "redeem", "bearer", "signOut"}, !.clock = 2 * TokenLife + 1],
   [Base EXCEPT !.requests = {"ticket", "redeem", "change"}],
   [Base EXCEPT !.requests = {"ticket", "verify", "suspend"}, !.lapses = {"cache"}],
   [Base EXCEPT !.requests = {"rotateKey", "useKey", "revokeKey"}, !.clock = 2],
   [Base EXCEPT !.requests = {"issueKey", "useKey", "revokeKey"}, !.clock = 2],
   [Base EXCEPT !.requests = {"issueKey", "rotateKey"}, !.fails = TRUE, !.starts = 4]}

RehashMix == {[Base EXCEPT !.requests = {"login", "change"}]}

InvitationMix == {[Base EXCEPT !.requests = {"invite", "accept"}, !.emails = Vacant]}

Symmetry == Permutations(Handlers)
=============================================================================
