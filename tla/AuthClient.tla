------------------------------- MODULE AuthClient -------------------------------
(***************************************************************************)
(* createAuthFetch under AuthProvider, one of each per tab.  A call is sent *)
(* with the cookies of its moment, served, and received: three steps, with  *)
(* everything else in between.  An expired access token makes the wrapper   *)
(* refresh once for all the calls that need it, then retry each once.       *)
(*                                                                          *)
(*   view[t]   the provider's state: the reducer's, the generation object   *)
(*             (as a number) and, as history, how many deliberate           *)
(*             transitions the tab made and at which of them what it shows  *)
(*             was asked for.  onSessionExpired only notifies.              *)
(*   slot[t]   inFlightRefresh: the call that owns it                       *)
(*   calls[c]  the calls, in the order they were made                       *)
(***************************************************************************)
EXTENDS Browser

VARIABLES view, slot, calls,
          ended    \* history: sessions a tab was told are over

clientVars == <<view, slot, calls, ended>>

View == [status : {"loading", "in", "out"},
         line : Numbers \cup {Nothing},     \* the user shown
         mounted : BOOLEAN,
         gen : Nat,                         \* sessionGenerationRef
         turns : Nat,                       \* history: deliberate transitions
         asOf : Nat]                        \* history: turns when what is shown was asked for

Call == [pc : {"unborn", "ready", "sent", "answered", "refreshing", "refreshed", "waiting", "done"},
         tab : Tabs \cup {Nothing},
         op : {"me", "login", "logout", "none"},
         gen : Nat, turn : Nat,
         retried : BOOLEAN,
         cred : Jar,
         answer : Answer]

(* What a tab was told, by whom, over which presented number. *)
Told == [by : {"fetch", "logout"}, tab : Tabs, cred : Numbers \cup {Nothing}]

Unmade == [pc |-> "unborn", tab |-> Nothing, op |-> "none", gen |-> 0, turn |-> 0,
           retried |-> FALSE, cred |-> Empty, answer |-> Says("ok")]

ClientTypeOK ==
  /\ view \in [Tabs -> View]
  /\ slot \in [Tabs -> Calls \cup {Nothing}]
  /\ calls \in [Calls -> Call]
  /\ ended \subseteq Told

At(c, pc) == calls[c].pc = pc

Tab(c) == calls[c].tab

-----------------------------------------------------------------------------
(* AuthProvider *)

Showing(v, line, turn) == [v EXCEPT !.status = "in", !.line = line, !.asOf = turn]

Hiding(v, turn) == [v EXCEPT !.status = "out", !.line = Nothing, !.asOf = turn]

(* login, register and the MFA gate, clearSession: the generation moves     *)
(* with the state.  Mutant: the MFA gate leaves the generation alone.       *)
BumpedUnlessMfa(t, kind) ==
  [view[t] EXCEPT !.gen = IF kind = "mfa" THEN @ ELSE @ + 1, !.turns = @ + 1]

Bumped(t, kind) == [view[t] EXCEPT !.gen = @ + 1, !.turns = @ + 1]

(* isFinalAnswer.  Mutant: an answer of any kind is final. *)
FinalEvenThrottled(answer) == answer.kind # "lost"

Final(answer) == answer.kind \notin {"throttled", "down", "lost"}

(* revalidate, once getMe has settled.  Mutant: no generation is compared. *)
AnyAge(c) == TRUE

Current(c) == calls[c].gen = view[Tab(c)].gen

Revalidated(c) ==
  LET a == calls[c].answer  v == view[Tab(c)] IN
  IF ~Current(c) THEN v
  ELSE IF a.kind = "ok" THEN Showing(v, a.line, calls[c].turn)
  ELSE Hiding(v, calls[c].turn)

LoggedIn(c) ==
  LET a == calls[c].answer
      v == view[Tab(c)]
      b == Bumped(Tab(c), a.kind) IN
  CASE a.kind = "ok" -> Showing(b, a.line, b.turns)
    [] a.kind = "mfa" -> Hiding(b, b.turns)
    [] OTHER -> Hiding(v, v.asOf)

LoggedOut(c) ==
  LET b == Bumped(Tab(c), "logout") IN
  IF Final(calls[c].answer) THEN Hiding(b, b.turns) ELSE view[Tab(c)]

-----------------------------------------------------------------------------
(* createAuthFetch *)

NextCall == {c \in Calls : At(c, "unborn") /\ \A d \in Calls : d < c => ~At(d, "unborn")}

(* The provider's effects and callbacks: the mount probe first, then a      *)
(* revalidation (the interval's or refresh()), a login or a logout.         *)
Begin(c) ==
  /\ c \in NextCall /\ c <= mix.calls
  /\ \E t \in 1..mix.tabs, op \in mix.ops :
       /\ view[t].mounted \/ op = "me"
       /\ calls' = [calls EXCEPT ![c] = [Unmade EXCEPT !.pc = "ready", !.tab = t, !.op = op,
                                           !.gen = view[t].gen, !.turn = view[t].turns]]
       /\ view' = [view EXCEPT ![t].mounted = TRUE,
                               ![t].status = IF op = "login" THEN "loading" ELSE @]
  /\ UNCHANGED <<sharedVars, slot, ended>>

Send(c) ==
  /\ At(c, "ready")
  /\ calls' = [calls EXCEPT ![c].pc = "sent", ![c].cred = Presented(mix.dep.via)]
  /\ UNCHANGED <<sharedVars, view, slot, ended>>

Serve(c) ==
  /\ At(c, "sent")
  /\ LET cred == calls[c].cred IN
     \E o \in Served(CASE calls[c].op = "me" -> Named(cred["access"])
                       [] calls[c].op = "login" -> IF Room THEN SignedIn ELSE {Untouched("denied")}
                       [] OTHER -> SignedOut(cred)) :
       /\ srv' = o.srv
       /\ calls' = [calls EXCEPT ![c].pc = "answered", ![c].answer = o.answer]
  /\ UNCHANGED <<mix, jar, due, view, slot, ended>>

(* getOrStartRefresh.  Mutant: every call refreshes for itself. *)
SharedNever(t) == FALSE

Shared(t) == slot[t] # Nothing

(* The first 401 of a call whose route a refresh can help. *)
Intercepted(c) ==
  /\ calls[c].op = "me" /\ calls[c].answer.kind = "refused" /\ ~calls[c].retried

(* The answer reaches the page, with what cookies it sets or clears. *)
Receive(c) ==
  LET t == Tab(c)  a == calls[c].answer  op == calls[c].op IN
  /\ At(c, "answered")
  /\ ~Intercepted(c)
  /\ calls' = [calls EXCEPT ![c] = [Unmade EXCEPT !.pc = "done"]]
  /\ view' = [view EXCEPT ![t] = CASE op = "me" -> Revalidated(c)
                                   [] op = "login" -> LoggedIn(c)
                                   [] OTHER -> LoggedOut(c)]
  /\ jar' = CASE a.kind = "ok" /\ op = "login" -> Planting(a.number)
              [] a.kind = "ok" /\ op = "logout" -> Clearing(mix.dep.via)
              [] OTHER -> jar
  /\ ended' = IF op = "logout" /\ Final(a)
                THEN ended \cup {[by |-> "logout", tab |-> t, cred |-> calls[c].cred["refresh"]]}
                ELSE ended
  /\ UNCHANGED <<mix, srv, due, slot>>

Intercept(c) ==
  /\ At(c, "answered")
  /\ Intercepted(c)
  /\ LET t == Tab(c) IN
     IF Shared(t)
       THEN /\ calls' = [calls EXCEPT ![c].pc = "waiting"]
            /\ UNCHANGED slot
       ELSE /\ calls' = [calls EXCEPT ![c].pc = "refreshing", ![c].cred = Presented(mix.dep.via)]
            /\ slot' = [slot EXCEPT ![t] = c]
  /\ UNCHANGED <<sharedVars, view, ended>>

(* The refresh route itself, or createClientRefreshHandler in front of it,  *)
(* which answers 401 to every failure of the upstream, no answer included.  *)
Relayed(answer) ==
  IF mix.dep.via = "api" \/ answer.kind = "ok" THEN {answer}
  ELSE {Says("refused")} \cup (IF answer.kind = "lost" THEN {answer} ELSE {})

ServeRefresh(c) ==
  /\ At(c, "refreshing")
  /\ Room
  /\ \E o \in Served(Refreshed(calls[c].cred["refresh"])) : \E a \in Relayed(o.answer) :
       /\ srv' = o.srv
       /\ calls' = [calls EXCEPT ![c].pc = "refreshed", ![c].answer = a]
  /\ UNCHANGED <<mix, jar, due, view, slot, ended>>

(* performRefresh's classification: a refusal, by status or by code.        *)
(* Mutant: no answer but a session counts as a refusal. *)
RejectedUnlessOk(answer) == answer.kind \notin {"ok", "lost"}

Rejected(answer) == answer.kind \in {"refused", "blocked"}

(* The refresh settles for the call that owns it and for those waiting: a   *)
(* session, and each is retried; none, and each keeps the 401 it had.  Only *)
(* a refusal ends the session.                                              *)
RefreshSettles(c) ==
  /\ At(c, "refreshed")
  /\ LET t == Tab(c)
         a == calls[c].answer
         party == {c} \cup {d \in Calls : At(d, "waiting") /\ Tab(d) = t /\ slot[t] = c} IN
     /\ jar' = IF a.kind = "ok" THEN Planting(a.number) ELSE jar
     /\ slot' = [slot EXCEPT ![t] = Nothing]
     /\ calls' = [d \in Calls |->
          IF d \notin party THEN calls[d]
          ELSE [calls[d] EXCEPT !.retried = TRUE, !.cred = Empty,
                                !.pc = IF a.kind = "ok" THEN "ready" ELSE "answered",
                                !.answer = IF a.kind = "ok" THEN Says("ok") ELSE Says("refused")]]
     /\ ended' = IF Rejected(a)
                   THEN ended \cup {[by |-> "fetch", tab |-> t, cred |-> calls[c].cred["refresh"]]}
                   ELSE ended
  /\ UNCHANGED <<mix, srv, due, view>>

ClientInit ==
  /\ \E mounted \in BOOLEAN :
       view = [t \in Tabs |-> [status |-> IF mounted THEN "in" ELSE "loading",
                               line |-> IF mounted THEN 1 ELSE Nothing,
                               mounted |-> mounted, gen |-> 0, turns |-> 0, asOf |-> 0]]
  /\ slot = [t \in Tabs |-> Nothing]
  /\ calls = [c \in Calls |-> Unmade]
  /\ ended = {}
=============================================================================
