----------------------------- MODULE BrowserClaims -----------------------------
(***************************************************************************)
(* What the delivery of cookies says of itself and the deletions contradict. *)
(***************************************************************************)
EXTENDS BrowserSession

(* clearAuthSession "clears all auth cookies on the resolved domains": once  *)
(* a sign-out at the API is answered, the jar holds none of the three.  Its  *)
(* lines lack the Secure the cookies were planted with, and where the name's *)
(* prefix or SameSite=None requires it the browser drops them.               *)
SignOutClears ==
  [][\A c \in Calls :
       Completes(c, "logout") /\ mix.dep.via = "api" => jar' = Empty]_vars
=============================================================================
