------------------------ MODULE BrowserSession_proofs ------------------------
(***************************************************************************)
(* The safety of BrowserSession for every number of tabs, calls and page   *)
(* loads, every deployment the module's options allow, and whatever fails. *)
(*                                                                         *)
(* A number once born only ages: what has stopped yielding a session never *)
(* yields one again.  IInv says what a call between its steps still knows  *)
(* of the number it presented, and, for a tab that works alone, which one  *)
(* place each number that can still be rotated is in.                      *)
(***************************************************************************)
EXTENDS BrowserSession, WellFoundedInduction, TLAPS

-----------------------------------------------------------------------------
(* The server *)

(* What was issued has a line, and what replaced it was issued too.         *)
SrvLinks(s) ==
  \A n \in Numbers :
    /\ s.to[n] # Nothing => s.state[s.to[n]] # "unborn"
    /\ s.state[n] = "grace" => s.to[n] # Nothing
    /\ s.state[n] # "unborn" => s.line[n] # Nothing

(* From s to t nothing is unborn again, and nothing yields a session again. *)
Ages(s, t) ==
  \A n \in Numbers : s.state[n] # "unborn" =>
    t.state[n] # "unborn" /\ (~Honoured(s, n) => ~Honoured(t, n))

(* No number but n is rotated. *)
Spares(s, t, n) ==
  \A m \in Numbers : m # n /\ s.state[m] \in {"live", "dead"} => t.state[m] \in {"live", "dead"}

Born(n) == n # Nothing => srv.state[n] # "unborn"

SrvInv == srv \in Server /\ SrvLinks(srv)

LEMMA NumberType == Numbers \subseteq Nat /\ Nothing \notin Numbers /\ 1 \in Numbers
BY BrowserAssumption DEF Numbers, Nothing

LEMMA NewNumber ==
  ASSUME SrvInv, Room
  PROVE  Next1 \in Numbers /\ srv.state[Next1] = "unborn"
<1>1. Unborn \subseteq Nat /\ Unborn # {}
  BY NumberType DEF Unborn, Room
<1>. DEFINE R == {r \in Nat \X Nat : r[1] < r[2]}
<1>2. IsWellFoundedOn(R, Nat)
  <2>1. R = OpToRel(<, Nat)
    BY DEF OpToRel
  <2>. QED
    BY <2>1, NatLessThanWellFounded
<1>. HIDE DEF R
<1>3. PICK n \in Unborn : \A m \in Unborn : ~(<<m, n>> \in R)
  BY <1>1, <1>2, WFMin
<1>4. ASSUME NEW m \in Unborn
      PROVE  n <= m
  <2>1. m \in Nat /\ n \in Nat /\ <<m, n>> \notin R
    BY <1>1, <1>3
  <2>2. <<m, n>> \in Nat \X Nat /\ <<m, n>>[1] = m /\ <<m, n>>[2] = n
    BY <2>1
  <2>3. ~(m < n)
    BY <2>1, <2>2 DEF R
  <2>. QED
    BY <2>1, <2>3
<1>5. Next1 \in Unborn
  BY <1>4 DEF Next1
<1>. QED
  BY <1>5 DEF Unborn

LEMMA KillInOutcome ==
  ASSUME SrvInv, NEW dying
  PROVE  LET t == KillIn(srv, dying) IN
         /\ t \in Server /\ SrvLinks(t) /\ Ages(srv, t) /\ t.reused = srv.reused
         /\ \A m \in Numbers : srv.state[m] \in {"live", "dead"} => t.state[m] \in {"live", "dead"}
         /\ \A m \in dying \cap Numbers : srv.state[m] # "unborn" => t.state[m] = "dead"
         /\ t.good = srv.good /\ t.fresh = srv.fresh /\ t.line = srv.line
<1>. DEFINE f == [n \in Numbers |-> IF n \in dying /\ srv.state[n] # "unborn" THEN "dead"
                                    ELSE srv.state[n]]
            t == [srv EXCEPT !.state = f]
<1>0. KillIn(srv, dying) = t
  BY DEF KillIn
<1>1. f \in [Numbers -> {"unborn", "live", "grace", "spent", "dead"}]
  BY DEF SrvInv, Server
<1>2. \A n \in Numbers : f[n] = IF n \in dying /\ srv.state[n] # "unborn" THEN "dead"
                                ELSE srv.state[n]
  OBVIOUS
<1>. HIDE DEF f
<1>3. /\ t \in Server /\ t.state = f /\ t.to = srv.to /\ t.line = srv.line /\ t.reused = srv.reused
      /\ t.good = srv.good /\ t.fresh = srv.fresh
  BY <1>1 DEF SrvInv, Server
<1>. HIDE DEF t
<1>4. SrvLinks(t)
  BY <1>2, <1>3 DEF SrvLinks, SrvInv, Server
<1>5. Ages(srv, t)
  BY <1>2, <1>3 DEF Ages, Honoured, SrvInv, Server, SrvLinks
<1>. QED
  BY <1>0, <1>2, <1>3, <1>4, <1>5

LEMMA KillAllOutcome ==
  ASSUME SrvInv
  PROVE  LET t == KillAll(srv) IN
         /\ t \in Server /\ SrvLinks(t) /\ Ages(srv, t) /\ t.reused = srv.reused
         /\ \A m \in Numbers : srv.state[m] # "unborn" => t.state[m] = "dead"
<1>. DEFINE k == KillIn(srv, Numbers)
            t == [k EXCEPT !.good = {}]
<1>1. /\ k \in Server /\ SrvLinks(k) /\ Ages(srv, k) /\ k.reused = srv.reused
      /\ \A m \in Numbers : srv.state[m] # "unborn" => k.state[m] = "dead"
  BY KillInOutcome
<1>2. KillAll(srv) = t
  BY DEF KillAll
<1>. HIDE DEF k
<1>3. /\ t \in Server /\ t.state = k.state /\ t.to = k.to /\ t.line = k.line /\ t.reused = k.reused
  BY <1>1 DEF Server
<1>. HIDE DEF t
<1>. QED
  BY <1>1, <1>2, <1>3 DEF SrvLinks, Ages, Honoured

LEMMA GrantedFields ==
  ASSUME NEW s \in Server, NEW m \in Numbers, NEW l \in Numbers,
         NEW t, t = Granted(s, m, l)
  PROVE  /\ t \in Server /\ t.to = s.to /\ t.reused = s.reused
         /\ t.state = [s.state EXCEPT ![m] = "live"] /\ t.line = [s.line EXCEPT ![m] = l]
BY DEF Granted, Server

(* A new number. *)
LEMMA GrantedOutcome ==
  ASSUME SrvInv, NEW m \in Numbers, srv.state[m] = "unborn", NEW l \in Numbers
  PROVE  LET t == Granted(srv, m, l) IN
         /\ t \in Server /\ SrvLinks(t) /\ Ages(srv, t) /\ t.reused = srv.reused
         /\ t.state[m] = "live"
         /\ \A n \in Numbers : n # m => t.state[n] = srv.state[n]
<1>. DEFINE t == Granted(srv, m, l)
<1>1. /\ t \in Server /\ t.to = srv.to /\ t.reused = srv.reused
      /\ t.state = [srv.state EXCEPT ![m] = "live"] /\ t.line = [srv.line EXCEPT ![m] = l]
  <2>1. srv \in Server /\ t = Granted(srv, m, l)
    BY DEF SrvInv
  <2>. HIDE DEF t
  <2>. QED
    BY <2>1, GrantedFields
<1>. HIDE DEF t
<1>2. /\ t.state[m] = "live" /\ t.line[m] = l /\ l # Nothing
      /\ \A n \in Numbers : n # m => t.state[n] = srv.state[n] /\ t.line[n] = srv.line[n]
  BY <1>1, NumberType DEF SrvInv, Server
<1>3. SrvLinks(t)
  BY <1>1, <1>2 DEF SrvLinks, SrvInv, Server
<1>4. Ages(srv, t)
  BY <1>1, <1>2 DEF Ages, Honoured, SrvInv, Server, SrvLinks
<1>. QED
  BY <1>1, <1>2, <1>3, <1>4 DEF t

(* What a request with a number may come to.                                *)
Outcome == [srv : Server, answer : Answer]

Follows(t) == t \in Server /\ SrvLinks(t) /\ Ages(srv, t)

Issues(t, m) ==
  m \in Numbers /\ srv.state[m] = "unborn" /\ t.state[m] = "live" /\ t.reused = srv.reused

LEMMA SaysType ==
  /\ \A k \in {"ok", "refused", "denied", "blocked", "mfa"} \cup Faults :
       Says(k) \in Answer /\ Says(k).kind = k /\ Says(k).number = Nothing
  /\ \A m, l \in Numbers : Carrying(m, l) \in Answer /\ Carrying(m, l).kind = "ok" /\ Carrying(m, l).number = m
BY DEF Says, Carrying, Answer, Faults

LEMMA SameFollows ==
  ASSUME SrvInv
  PROVE  Follows(srv)
BY DEF SrvInv, Follows, Ages

LEMMA RefreshedOutcome ==
  ASSUME SrvInv, NEW n \in Numbers \cup {Nothing}, Born(n), Room, NEW o \in Refreshed(n)
  PROVE  /\ o \in Outcome /\ Follows(o.srv)
         /\ o.answer.kind \in {"ok", "refused", "blocked"}
         /\ o.answer.kind = "ok" =>
              /\ Issues(o.srv, o.answer.number) /\ Spares(srv, o.srv, n) /\ n # Nothing
         /\ o.answer.kind # "ok" => ~Honoured(o.srv, n) /\ o.answer.number = Nothing
         /\ o.answer.kind # "ok" /\ (n = Nothing \/ srv.state[n] \in {"live", "dead"}) =>
              /\ o.srv.reused = srv.reused
              /\ \A m \in Numbers : srv.state[m] \in {"live", "dead"} => o.srv.state[m] \in {"live", "dead"}
<1>. USE SaysType
<1>1. CASE n = Nothing \/ srv.state[n] = "dead"
  <2>1. o = [srv |-> srv, answer |-> Says("refused")]
    BY <1>1 DEF Refreshed
  <2>. QED
    BY <1>1, <2>1, SameFollows DEF Outcome, SrvInv, Honoured
<1>2. CASE ~(n = Nothing \/ srv.state[n] = "dead") /\ ~Honoured(srv, n)
  <2>. DEFINE l == srv.line[n]
              k == KillIn(srv, LineOf(srv, l))
              t == [k EXCEPT !.reused = @ \cup {l}]
  <2>1. o = [srv |-> t, answer |-> Says("refused")]
    BY <1>2 DEF Refreshed
  <2>2. n \in Numbers /\ l \in Numbers /\ n \in LineOf(srv, l)
    BY <1>2 DEF Born, SrvInv, SrvLinks, Server, LineOf
  <2>3. k \in Server /\ SrvLinks(k) /\ Ages(srv, k) /\ k.state[n] = "dead"
    BY <1>2, <2>2, KillInOutcome DEF Born
  <2>. HIDE DEF k
  <2>4. t \in Server /\ t.state = k.state /\ t.to = k.to /\ t.line = k.line
    <3>. DEFINE R == k.reused \cup {l}
    <3>1. R \in SUBSET Numbers /\ t = [k EXCEPT !.reused = R]
      BY <2>2, <2>3 DEF Server
    <3>. HIDE DEF R, t, l
    <3>. QED
      BY <2>3, <3>1 DEF Server
  <2>. HIDE DEF t
  <2>5. Follows(t) /\ ~Honoured(t, n)
    BY <2>3, <2>4 DEF Follows, SrvLinks, Ages, Honoured
  <2>6. srv.state[n] \notin {"live", "dead"}
    BY <1>2 DEF Honoured
  <2>. QED
    BY <1>2, <2>1, <2>4, <2>5, <2>6 DEF Outcome
<1>3. CASE ~(n = Nothing \/ srv.state[n] = "dead") /\ Honoured(srv, n) /\ srv.blocked
  <2>1. o = [srv |-> KillAll(srv), answer |-> Says("blocked")]
    BY <1>3 DEF Refreshed
  <2>. DEFINE t == KillAll(srv)
  <2>2. /\ t \in Server /\ SrvLinks(t) /\ Ages(srv, t) /\ t.reused = srv.reused
        /\ \A m \in Numbers : srv.state[m] # "unborn" => t.state[m] = "dead"
    BY KillAllOutcome
  <2>. HIDE DEF t
  <2>3. ~Honoured(t, n)
    BY <1>3, <2>2 DEF Honoured, Born
  <2>. QED
    BY <2>1, <2>2, <2>3 DEF Outcome, Follows, t
<1>4. CASE ~(n = Nothing \/ srv.state[n] = "dead") /\ Honoured(srv, n) /\ ~srv.blocked
  <2>. DEFINE m == Next1
              l == srv.line[n]
              s == [srv EXCEPT !.state[n] = IF @ = "live" THEN "grace" ELSE "spent", !.to[n] = m]
              t == Granted(s, m, l)
  <2>1. o = [srv |-> t, answer |-> Carrying(m, l)]
    BY <1>4 DEF Refreshed
  <2>2. /\ m \in Numbers /\ srv.state[m] = "unborn" /\ n \in Numbers /\ l \in Numbers
        /\ m # n /\ srv.state[n] \in {"live", "grace"} /\ m # Nothing
    BY <1>4, NewNumber, NumberType DEF Born, SrvInv, SrvLinks, Server, Honoured
  <2>. HIDE DEF m, l
  <2>. DEFINE f == [srv.state EXCEPT ![n] = IF @ = "live" THEN "grace" ELSE "spent"]
              g == [srv.to EXCEPT ![n] = m]
  <2>3. /\ f \in [Numbers -> {"unborn", "live", "grace", "spent", "dead"}]
        /\ g \in [Numbers -> Numbers \cup {Nothing}]
        /\ f[n] \in {"grace", "spent"} /\ g[n] = m
        /\ \A p \in Numbers : p # n => f[p] = srv.state[p] /\ g[p] = srv.to[p]
    BY <2>2 DEF SrvInv, Server
  <2>4. s = [srv EXCEPT !.state = f, !.to = g]
    BY <2>2 DEF SrvInv, Server
  <2>. HIDE DEF f, g
  <2>5. s \in Server /\ s.state = f /\ s.to = g /\ s.line = srv.line /\ s.reused = srv.reused
    BY <2>3, <2>4 DEF SrvInv, Server
  <2>. HIDE DEF s
  <2>6. /\ t \in Server /\ t.to = s.to /\ t.reused = s.reused
        /\ t.state = [s.state EXCEPT ![m] = "live"] /\ t.line = [s.line EXCEPT ![m] = l]
    <3>1. t = Granted(s, m, l)
      OBVIOUS
    <3>. HIDE DEF t
    <3>. QED
      BY <2>2, <2>5, <3>1, GrantedFields
  <2>. HIDE DEF t
  <2>7. /\ t.state[m] = "live" /\ t.line[m] = l /\ t.to[n] = m /\ t.state[n] \in {"grace", "spent"}
        /\ \A p \in Numbers : p # m => t.line[p] = srv.line[p]
        /\ \A p \in Numbers : p # n => t.to[p] = srv.to[p]
        /\ \A p \in Numbers : p # m /\ p # n => t.state[p] = srv.state[p]
        /\ t.reused = srv.reused
    BY <2>2, <2>3, <2>5, <2>6 DEF Server
  <2>8. SrvLinks(t)
    <3>. SUFFICES ASSUME NEW p \in Numbers
                  PROVE  /\ t.to[p] # Nothing => t.state[t.to[p]] # "unborn"
                         /\ t.state[p] = "grace" => t.to[p] # Nothing
                         /\ t.state[p] # "unborn" => t.line[p] # Nothing
      BY DEF SrvLinks
    <3>1. t.to[p] # Nothing => t.state[t.to[p]] # "unborn"
      <4>1. CASE p = n
        BY <2>7, <4>1
      <4>2. CASE p # n /\ srv.to[p] # Nothing
        <5>. DEFINE q == srv.to[p]
        <5>1. q \in Numbers /\ srv.state[q] # "unborn" /\ t.to[p] = q
          BY <2>7, <4>2 DEF SrvLinks, SrvInv, Server
        <5>. HIDE DEF q
        <5>2. t.state[q] # "unborn"
          BY <2>2, <2>7, <5>1
        <5>. QED
          BY <5>1, <5>2
      <4>3. CASE p # n /\ srv.to[p] = Nothing
        BY <2>7, <4>3
      <4>. QED
        BY <4>1, <4>2, <4>3
    <3>2. t.state[p] = "grace" => t.to[p] # Nothing
      <4>1. CASE p = n
        BY <2>2, <2>7, <4>1
      <4>2. CASE p # n /\ p # m
        BY <2>7, <4>2 DEF SrvLinks, SrvInv
      <4>. QED
        BY <2>7, <4>1, <4>2
    <3>3. t.state[p] # "unborn" => t.line[p] # Nothing
      <4>1. CASE p = m
        BY <2>2, <2>7, <4>1, NumberType
      <4>2. CASE p # m
        <5>1. srv.state[p] # "unborn" => srv.line[p] # Nothing
          BY DEF SrvLinks, SrvInv
        <5>. QED
          BY <2>2, <2>7, <4>2, <5>1
      <4>. QED
        BY <4>1, <4>2
    <3>. QED
      BY <3>1, <3>2, <3>3
  <2>9. Ages(srv, t)
    <3>. SUFFICES ASSUME NEW p \in Numbers, srv.state[p] # "unborn"
                  PROVE  t.state[p] # "unborn" /\ (~Honoured(srv, p) => ~Honoured(t, p))
      BY DEF Ages
    <3>1. p # m
      BY <2>2
    <3>2. CASE p = n
      BY <1>4, <2>7, <3>2
    <3>3. CASE p # n /\ srv.state[p] = "grace" /\ ~Honoured(srv, p)
      <4>. DEFINE q == srv.to[p]
      <4>1. q \in Numbers /\ srv.state[q] # "live" /\ srv.state[q] # "unborn"
        BY <3>3, NumberType DEF Honoured, SrvLinks, SrvInv, Server
      <4>2. t.state[q] # "live"
        BY <2>2, <2>7, <4>1
      <4>. QED
        BY <2>7, <3>1, <3>3, <4>2 DEF Honoured
    <3>4. CASE p # n /\ (srv.state[p] # "grace" \/ Honoured(srv, p))
      BY <2>7, <3>1, <3>4 DEF Honoured
    <3>. QED
      BY <3>2, <3>3, <3>4
  <2>10. Spares(srv, t, n)
    BY <2>2, <2>7 DEF Spares
  <2>11. /\ o \in Outcome /\ o.srv = t /\ o.answer.kind = "ok" /\ o.answer.number = m
    BY <2>1, <2>2, <2>6 DEF Outcome
  <2>. QED
    BY <1>4, <2>2, <2>6, <2>7, <2>8, <2>9, <2>10, <2>11 DEF Follows, Issues
<1>. QED
  BY <1>1, <1>2, <1>3, <1>4

LEMMA SignedInOutcome ==
  ASSUME SrvInv, Room, NEW o \in SignedIn
  PROVE  /\ o \in Outcome /\ Follows(o.srv) /\ Spares(srv, o.srv, Nothing)
         /\ o.srv.reused = srv.reused
         /\ o.answer.kind = "ok" => Issues(o.srv, o.answer.number)
         /\ o.answer.kind # "ok" => o.answer.number = Nothing /\ o.srv = srv
<1>. USE SaysType
<1>1. CASE \E k \in {"denied", "mfa", "blocked"} : o = [srv |-> srv, answer |-> Says(k)]
  BY <1>1, SameFollows DEF Outcome, SrvInv, Spares
<1>2. CASE o = [srv |-> Granted(srv, Next1, Next1), answer |-> Carrying(Next1, Next1)]
  <2>. DEFINE m == Next1
              t == Granted(srv, m, m)
  <2>1. m \in Numbers /\ srv.state[m] = "unborn"
    BY NewNumber
  <2>. HIDE DEF m
  <2>2. /\ t \in Server /\ SrvLinks(t) /\ Ages(srv, t) /\ t.reused = srv.reused
        /\ t.state[m] = "live"
        /\ \A n \in Numbers : n # m => t.state[n] = srv.state[n]
    BY <2>1, GrantedOutcome
  <2>. HIDE DEF t
  <2>3. Spares(srv, t, Nothing)
    BY <2>1, <2>2 DEF Spares
  <2>4. o = [srv |-> t, answer |-> Carrying(m, m)]
    BY <1>2 DEF t, m
  <2>. QED
    BY <2>1, <2>2, <2>3, <2>4 DEF Outcome, Follows, Issues
<1>. QED
  BY <1>1, <1>2 DEF SignedIn

LEMMA SignedOutOutcome ==
  ASSUME SrvInv, NEW cred \in Jar, Born(cred["refresh"]), NEW o \in SignedOut(cred)
  PROVE  /\ o \in Outcome /\ Follows(o.srv) /\ Spares(srv, o.srv, Nothing)
         /\ o.srv.reused = srv.reused /\ o.answer = Says("ok")
         /\ ~Honoured(o.srv, cred["refresh"])
<1>. DEFINE n == cred["refresh"]
            k == KillIn(srv, {n})
            t == [k EXCEPT !.good = @ \ {cred["access"]}]
<1>1. /\ k \in Server /\ SrvLinks(k) /\ Ages(srv, k) /\ k.reused = srv.reused
      /\ \A m \in Numbers : srv.state[m] \in {"live", "dead"} => k.state[m] \in {"live", "dead"}
      /\ n \in Numbers => k.state[n] = "dead"
  BY KillInOutcome, NumberType DEF Born
<1>2. o = [srv |-> t, answer |-> Says("ok")]
  BY DEF SignedOut
<1>3. n \in Numbers \cup {Nothing}
  BY DEF Jar, Cookies
<1>. HIDE DEF k
<1>4. t \in Server /\ t.state = k.state /\ t.to = k.to /\ t.line = k.line /\ t.reused = k.reused
  BY <1>1 DEF Server
<1>. HIDE DEF t
<1>5. Follows(t) /\ ~Honoured(t, n) /\ Spares(srv, t, Nothing)
  BY <1>1, <1>3, <1>4 DEF Follows, SrvLinks, Ages, Honoured, Spares
<1>. QED
  BY <1>1, <1>2, <1>4, <1>5, SaysType DEF Outcome

LEMMA NamedOutcome ==
  ASSUME SrvInv, NEW n \in Numbers \cup {Nothing}, NEW o \in Named(n)
  PROVE  o \in Outcome /\ o.srv = srv /\ o.answer.number = Nothing
<1>1. CASE n # Nothing /\ Accepted(n)
  <2>1. o = [srv |-> srv, answer |-> [Says("ok") EXCEPT !.line = srv.line[n]]]
    BY <1>1 DEF Named
  <2>2. srv.line[n] \in Numbers \cup {Nothing}
    BY <1>1 DEF SrvInv, Server
  <2>. QED
    BY <2>1, <2>2 DEF Outcome, SrvInv, Says, Answer
<1>2. CASE ~(n # Nothing /\ Accepted(n))
  <2>1. o = [srv |-> srv, answer |-> Says("refused")]
    BY <1>2 DEF Named
  <2>. QED
    BY <2>1, SaysType DEF Outcome, SrvInv
<1>. QED
  BY <1>1, <1>2

(* What the network makes of it. *)
LEMMA ServedOutcome ==
  ASSUME SrvInv, NEW outs \in SUBSET Outcome, NEW o \in Served(outs)
  PROVE  /\ o \in Outcome
         /\ \/ o \in outs
            \/ /\ o.answer.kind \in mix.faults \cap Faults /\ o.answer.number = Nothing
               /\ o.srv = srv \/ (o.answer.kind \in {"down", "lost"} /\ \E p \in outs : o.srv = p.srv)
<1>. USE SaysType
<1>1. CASE o \in outs
  BY <1>1
<1>2. ASSUME NEW k \in Faults \cap mix.faults, o = Untouched(k)
      PROVE  /\ o \in Outcome /\ o.srv = srv
             /\ o.answer.kind \in mix.faults \cap Faults /\ o.answer.number = Nothing
  BY <1>2 DEF Untouched, Outcome, SrvInv
<1>3. ASSUME NEW k \in {"down", "lost"}, k \in mix.faults, NEW p \in outs,
             o = [p EXCEPT !.answer = Says(k)]
      PROVE  /\ o \in Outcome /\ o.srv = p.srv /\ o.answer.kind \in {"down", "lost"}
             /\ o.answer.kind \in mix.faults \cap Faults /\ o.answer.number = Nothing
  <2>1. k \in Faults
    BY DEF Faults
  <2>2. Says(k) \in Answer /\ Says(k).kind = k /\ Says(k).number = Nothing
    BY <2>1
  <2>3. p \in Outcome
    OBVIOUS
  <2>4. o \in Outcome /\ o.srv = p.srv /\ o.answer = Says(k)
    BY <1>3, <2>2, <2>3 DEF Outcome
  <2>. QED
    BY <1>3, <2>1, <2>2, <2>4
<1>4. \/ o \in outs
      \/ "throttled" \in mix.faults /\ o = Untouched("throttled")
      \/ \E k \in {"down", "lost"} : k \in mix.faults /\
           (o = Untouched(k) \/ \E p \in outs : o = [p EXCEPT !.answer = Says(k)])
  BY DEF Served, Disturbed
<1>. QED
  BY <1>1, <1>2, <1>3, <1>4 DEF Faults

-----------------------------------------------------------------------------
(* The invariant *)

(* The generation counts the deliberate transitions, so an answer that is   *)
(* still current was asked for since the last one.                          *)
ViewLinks(t) == view[t].gen = view[t].turns /\ view[t].asOf = view[t].turns

CallLinks(c) ==
  /\ calls[c].gen = calls[c].turn
  /\ calls[c].pc \notin {"unborn", "done"} => Tab(c) \in 1..mix.tabs
  /\ calls[c].pc \in {"refreshing", "refreshed", "waiting"} => calls[c].op = "me"
  /\ calls[c].pc \in {"refreshing", "refreshed"} => slot[Tab(c)] = c

(* Whatever number is in hand was issued. *)
BornLinks ==
  /\ \A k \in Cookies : Born(jar[k])
  /\ \A c \in Calls : Born(calls[c].answer.number) /\ \A k \in Cookies : Born(calls[c].cred[k])
  /\ Born(nav.cred) /\ Born(nav.answer.number)
  /\ \A told \in ended : Born(told.cred)

(* Behind the Next.js route a refusal may stand for a fault. *)
Plain == mix.dep.via = "api" \/ mix.faults = {}

SaidOver(c) ==
  \/ At(c, "answered") /\ calls[c].op = "logout" /\ Final(calls[c].answer)
  \/ At(c, "refreshed") /\ Rejected(calls[c].answer) /\ Plain

OverLinks ==
  /\ \A told \in ended : told.by = "logout" \/ Plain => ~Honoured(srv, told.cred)
  /\ \A c \in Calls : SaidOver(c) => ~Honoured(srv, calls[c].cred["refresh"])

(* A refresh with n is not taken for reuse. *)
Sound(n) == n # Nothing => srv.state[n] \in {"live", "dead"}

Renewed(c) == At(c, "refreshed") /\ calls[c].answer.kind = "ok"

Pending(c) ==
  \/ Renewed(c)
  \/ At(c, "answered") /\ calls[c].op = "login" /\ calls[c].answer.kind = "ok"

(* Alone in its jar, a tab rotates one number at a time, and what is on its *)
(* way to the jar is nowhere else.                                          *)
AloneLinks ==
  /\ srv.reused = {} /\ nav.pc = "idle"
  /\ Sound(jar["refresh"]) \/ \E c \in Calls : Renewed(c)
  /\ \A c \in Calls : At(c, "refreshing") => Sound(calls[c].cred["refresh"])
  /\ \A c \in Calls : Pending(c) =>
       /\ calls[c].answer.number # Nothing /\ Sound(calls[c].answer.number)
       /\ calls[c].answer.number # jar["refresh"]
  /\ \A c, d \in Calls : Pending(c) /\ At(d, "refreshing") =>
       calls[c].answer.number # calls[d].cred["refresh"]
  /\ \A c, d \in Calls : Pending(c) /\ Pending(d) /\ c # d =>
       calls[c].answer.number # calls[d].answer.number

BaseInv == TypeOK /\ Validated(mix.dep) /\ SrvLinks(srv) /\ BornLinks

IInv ==
  /\ BaseInv
  /\ \A t \in Tabs : ViewLinks(t)
  /\ \A c \in Calls : CallLinks(c)
  /\ OverLinks
  /\ Alone => AloneLinks

-----------------------------------------------------------------------------
(* The jar *)

(* A deployment the options admit plants cookies the browser takes.         *)
LEMMA Plants ==
  ASSUME Validated(mix.dep), NEW n
  PROVE  Planting(n) = [k \in Cookies |-> n]
<1>1. ASSUME NEW k \in Cookies
      PROVE  Taken(mix.dep, Planted(mix.dep, k))
  BY DEF Taken, Planted, Validated, PrefixesKept, SameSiteKept, SameSiteOf, Https
<1>. QED
  BY <1>1 DEF Planting

(* Handlers that agree with the API delete every cookie.                    *)
LEMMA Clears ==
  ASSUME Validated(mix.dep), HandlersAgree(mix.dep)
  PROVE  Clearing("next") = Empty
<1>1. ASSUME NEW k \in Cookies
      PROVE  Deletes(mix.dep, k, ClearedByNext(mix.dep, k))
  <2>. DEFINE line == ClearedByNext(mix.dep, k)
  <2>1. /\ line.domain = mix.dep.resolveDomains /\ line.path = PathOf(mix.dep, k)
        /\ line.secure = TRUE /\ line.sameSite = "strict"
    BY DEF ClearedByNext, HandlersAgree, PathOf
  <2>2. mix.dep.prefix = "__Host-" => ~mix.dep.resolveDomains /\ PathOf(mix.dep, k) = "/"
    BY DEF Validated, PrefixesKept
  <2>3. Https(mix.dep)
    BY DEF HandlersAgree
  <2>. HIDE DEF line
  <2>. QED
    BY <2>1, <2>2, <2>3 DEF Deletes, Taken, line
<1>2. DeletedBy(mix.dep, "next") = Cookies
  BY <1>1 DEF DeletedBy
<1>. QED
  BY <1>2 DEF Clearing, Empty

LEMMA PresentedType ==
  ASSUME BaseInv, NEW via
  PROVE  /\ Presented(via) \in Jar
         /\ \A k \in Cookies : Born(Presented(via)[k]) /\ Presented(via)[k] \in {jar[k], Nothing}
BY DEF BaseInv, TypeOK, SharedTypeOK, Jar, Presented, BornLinks, Born

LEMMA ClearingType ==
  ASSUME BaseInv, NEW via
  PROVE  /\ Clearing(via) \in Jar
         /\ \A k \in Cookies : Clearing(via)[k] \in {jar[k], Nothing}
BY DEF BaseInv, TypeOK, SharedTypeOK, Jar, Clearing

(* What was issued stays so, and what has ended stays so.                   *)
LEMMA Aged ==
  ASSUME Follows(srv'), NEW n \in Numbers \cup {Nothing}
  PROVE  /\ Born(n) => Born(n)'
         /\ Born(n) /\ ~Honoured(srv, n) => ~Honoured(srv', n)
BY DEF Follows, Ages, Born, Honoured

LEMMA BaseType ==
  ASSUME BaseInv
  PROVE  /\ SrvInv /\ mix \in Mix /\ jar \in Jar /\ due \in [Events -> Nat]
         /\ \A k \in Cookies : jar[k] \in Numbers \cup {Nothing} /\ Born(jar[k])
         /\ view \in [Tabs -> View] /\ slot \in [Tabs -> Calls \cup {Nothing}]
         /\ calls \in [Calls -> Call] /\ ended \subseteq Told
         /\ \A c \in Calls :
              /\ calls[c] \in Call /\ calls[c].answer \in Answer /\ calls[c].cred \in Jar
              /\ calls[c].answer.number \in Numbers \cup {Nothing} /\ Born(calls[c].answer.number)
              /\ \A k \in Cookies : calls[c].cred[k] \in Numbers \cup {Nothing} /\ Born(calls[c].cred[k])
         /\ nav \in Nav /\ navsMade \in Nat /\ nav.cred \in Numbers \cup {Nothing}
         /\ nav.answer \in Answer /\ nav.answer.number \in Numbers \cup {Nothing}
         /\ Nothing \notin Calls /\ 1..mix.tabs \subseteq Tabs
<1>1. /\ SrvInv /\ mix \in Mix /\ jar \in Jar /\ due \in [Events -> Nat]
      /\ \A k \in Cookies : jar[k] \in Numbers \cup {Nothing} /\ Born(jar[k])
      /\ view \in [Tabs -> View] /\ slot \in [Tabs -> Calls \cup {Nothing}]
      /\ calls \in [Calls -> Call] /\ ended \subseteq Told
      /\ nav \in Nav /\ navsMade \in Nat /\ nav.cred \in Numbers \cup {Nothing}
  BY DEF BaseInv, TypeOK, SharedTypeOK, ClientTypeOK, NavTypeOK, SrvInv, Jar, BornLinks, Nav
<1>2. nav.answer \in Answer /\ nav.answer.number \in Numbers \cup {Nothing}
  BY <1>1 DEF Nav, Answer
<1>3. ASSUME NEW c \in Calls
      PROVE  /\ calls[c] \in Call /\ calls[c].answer \in Answer /\ calls[c].cred \in Jar
             /\ calls[c].answer.number \in Numbers \cup {Nothing} /\ Born(calls[c].answer.number)
             /\ \A k \in Cookies : calls[c].cred[k] \in Numbers \cup {Nothing} /\ Born(calls[c].cred[k])
  <2>1. calls[c] \in Call
    BY <1>1
  <2>2. calls[c].answer \in Answer /\ calls[c].cred \in Jar
    BY <2>1 DEF Call
  <2>. QED
    BY <2>1, <2>2 DEF Answer, Jar, BaseInv, BornLinks
<1>4. Nothing \notin Calls /\ 1..mix.tabs \subseteq Tabs
  <2>1. mix.tabs \in Tabs
    BY <1>1 DEF Mix
  <2>. QED
    BY <2>1, BrowserAssumption DEF Calls, Tabs, Nothing
<1>. QED
  BY <1>1, <1>2, <1>3, <1>4

-----------------------------------------------------------------------------
(* What each step does *)

(* The types, what never changes and the ageing of the server. *)
Well == TypeOK' /\ mix' = mix /\ Follows(srv')

(* No call but c changes. *)
OnlyCall(c) == \A d \in Calls : d # c => calls'[d] = calls[d]

(* The views keep what ViewLinks is about. *)
ViewsKeep ==
  \A t \in Tabs : view'[t].gen = view[t].gen /\ view'[t].turns = view[t].turns
                  /\ view'[t].asOf = view[t].asOf

LEMMA BeginOutline ==
  ASSUME BaseInv, NEW c \in Calls, Begin(c), UNCHANGED navVars
  PROVE  /\ Well /\ OnlyCall(c) /\ ViewsKeep /\ At(c, "unborn")
         /\ srv' = srv /\ jar' = jar /\ slot' = slot /\ ended' = ended
         /\ \E t \in 1..mix.tabs :
              /\ calls'[c].tab = t /\ calls'[c].gen = view[t].gen /\ calls'[c].turn = view[t].turns
              /\ calls'[c].pc = "ready" /\ calls'[c].cred = Empty /\ calls'[c].answer = Says("ok")
<1>. USE BaseType, SameFollows
<1>1. PICK t \in 1..mix.tabs, op \in mix.ops :
        /\ calls' = [calls EXCEPT ![c] = [Unmade EXCEPT !.pc = "ready", !.tab = t, !.op = op,
                                           !.gen = view[t].gen, !.turn = view[t].turns]]
        /\ view' = [view EXCEPT ![t].mounted = TRUE,
                                ![t].status = IF op = "login" THEN "loading" ELSE @]
  BY DEF Begin
<1>2. /\ t \in Tabs /\ op \in {"me", "login", "logout"} /\ view[t] \in View
      /\ view[t].gen \in Nat /\ view[t].turns \in Nat
  BY <1>1 DEF Mix, View
<1>. DEFINE q == [Unmade EXCEPT !.pc = "ready", !.tab = t, !.op = op,
                                !.gen = view[t].gen, !.turn = view[t].turns]
            v == [view[t] EXCEPT !.mounted = TRUE, !.status = IF op = "login" THEN "loading" ELSE @]
<1>3. /\ q \in Call /\ q.tab = t /\ q.gen = view[t].gen /\ q.turn = view[t].turns
      /\ q.pc = "ready" /\ q.cred = Empty /\ q.answer = Says("ok")
  <2>1. Empty \in Jar /\ Says("ok") \in Answer
    BY SaysType DEF Empty, Jar
  <2>. QED
    BY <1>2, <2>1 DEF Unmade, Call
<1>4. v \in View /\ v.gen = view[t].gen /\ v.turns = view[t].turns /\ v.asOf = view[t].asOf
  BY <1>2 DEF View
<1>5. calls' = [calls EXCEPT ![c] = q] /\ view' = [view EXCEPT ![t] = v]
  BY <1>1
<1>. HIDE DEF q, v
<1>6. /\ calls' \in [Calls -> Call] /\ OnlyCall(c) /\ calls'[c] = q
      /\ view' \in [Tabs -> View] /\ ViewsKeep
  BY <1>2, <1>3, <1>4, <1>5 DEF OnlyCall, ViewsKeep
<1>7. /\ At(c, "unborn") /\ srv' = srv /\ jar' = jar /\ slot' = slot /\ ended' = ended
      /\ UNCHANGED <<mix, due, nav, navsMade>>
  BY DEF Begin, NextCall, sharedVars, navVars
<1>8. Well
  BY <1>6, <1>7 DEF Well, TypeOK, SharedTypeOK, ClientTypeOK, NavTypeOK, SrvInv
<1>. QED
  BY <1>1, <1>3, <1>6, <1>7, <1>8

LEMMA SendOutline ==
  ASSUME BaseInv, NEW c \in Calls, Send(c), UNCHANGED navVars
  PROVE  /\ Well /\ OnlyCall(c) /\ view' = view /\ At(c, "ready")
         /\ srv' = srv /\ jar' = jar /\ slot' = slot /\ ended' = ended
         /\ calls'[c] = [calls[c] EXCEPT !.pc = "sent", !.cred = Presented(mix.dep.via)]
<1>. USE BaseType, SameFollows
<1>. DEFINE q == [calls[c] EXCEPT !.pc = "sent", !.cred = Presented(mix.dep.via)]
<1>1. calls' = [calls EXCEPT ![c] = q]
  BY DEF Send
<1>2. q \in Call
  <2>1. calls[c] \in Call /\ Presented(mix.dep.via) \in Jar
    BY PresentedType
  <2>. QED
    BY <2>1 DEF Call
<1>. HIDE DEF q
<1>3. calls' \in [Calls -> Call] /\ OnlyCall(c) /\ calls'[c] = q
  BY <1>1, <1>2 DEF OnlyCall
<1>4. /\ At(c, "ready") /\ view' = view /\ srv' = srv /\ jar' = jar /\ slot' = slot /\ ended' = ended
      /\ UNCHANGED <<mix, due, nav, navsMade>>
  BY DEF Send, sharedVars, navVars
<1>5. Well
  BY <1>3, <1>4 DEF Well, TypeOK, SharedTypeOK, ClientTypeOK, NavTypeOK, SrvInv
<1>. QED
  BY <1>3, <1>4, <1>5 DEF q

(* What a call's answer, once served, says of the number in it.             *)
LEMMA ServeOutcomes ==
  ASSUME BaseInv, NEW c \in Calls,
         NEW o \in Served(CASE calls[c].op = "me" -> Named(calls[c].cred["access"])
                       [] calls[c].op = "login" -> IF Room THEN SignedIn ELSE {Untouched("denied")}
                       [] OTHER -> SignedOut(calls[c].cred))
  PROVE  /\ o \in Outcome /\ Follows(o.srv) /\ Spares(srv, o.srv, Nothing)
         /\ o.srv.reused = srv.reused
         /\ o.answer.number = Nothing \/ Issues(o.srv, o.answer.number)
         /\ calls[c].op = "login" /\ o.answer.kind = "ok" => Issues(o.srv, o.answer.number)
         /\ calls[c].op = "logout" /\ Final(o.answer) => ~Honoured(o.srv, calls[c].cred["refresh"])
<1>. USE BaseType
<1>. DEFINE outs == CASE calls[c].op = "me" -> Named(calls[c].cred["access"])
                       [] calls[c].op = "login" -> IF Room THEN SignedIn ELSE {Untouched("denied")}
                       [] OTHER -> SignedOut(calls[c].cred)
            Good(p) == /\ p \in Outcome /\ Follows(p.srv) /\ Spares(srv, p.srv, Nothing)
                       /\ p.srv.reused = srv.reused
                       /\ p.answer.number = Nothing \/ Issues(p.srv, p.answer.number)
                       /\ calls[c].op = "login" /\ p.answer.kind = "ok" => Issues(p.srv, p.answer.number)
                       /\ calls[c].op = "logout" /\ Final(p.answer) =>
                            ~Honoured(p.srv, calls[c].cred["refresh"])
<1>0. "refresh" \in Cookies /\ "access" \in Cookies
  BY DEF Cookies
<1>1. Spares(srv, srv, Nothing)
  BY DEF Spares
<1>2. ASSUME NEW p \in outs
      PROVE  Good(p)
  <2>1. CASE calls[c].op = "me"
    <3>1. p \in Named(calls[c].cred["access"])
      BY <2>1
    <3>. HIDE DEF outs
    <3>2. p \in Outcome /\ p.srv = srv /\ p.answer.number = Nothing
      BY <1>0, <3>1, NamedOutcome
    <3>. QED
      BY <1>1, <2>1, <3>2, SameFollows
  <2>2. CASE calls[c].op = "login" /\ Room
    <3>1. p \in SignedIn
      BY <2>2
    <3>. HIDE DEF outs
    <3>2. /\ p \in Outcome /\ Follows(p.srv) /\ Spares(srv, p.srv, Nothing)
          /\ p.srv.reused = srv.reused
          /\ p.answer.kind = "ok" => Issues(p.srv, p.answer.number)
          /\ p.answer.kind # "ok" => p.answer.number = Nothing
      BY <2>2, <3>1, SignedInOutcome
    <3>. QED
      BY <2>2, <3>2
  <2>3. CASE calls[c].op = "login" /\ ~Room
    <3>1. p = Untouched("denied")
      BY <2>3
    <3>. HIDE DEF outs
    <3>2. p \in Outcome /\ p.srv = srv /\ p.answer.kind = "denied" /\ p.answer.number = Nothing
      BY <3>1, SaysType DEF Untouched, Outcome, SrvInv
    <3>. QED
      BY <1>1, <2>3, <3>2, SameFollows
  <2>4. CASE calls[c].op \notin {"me", "login"}
    <3>1. p \in SignedOut(calls[c].cred)
      BY <2>4
    <3>. HIDE DEF outs
    <3>2. /\ p \in Outcome /\ Follows(p.srv) /\ Spares(srv, p.srv, Nothing)
          /\ p.srv.reused = srv.reused /\ p.answer = Says("ok")
          /\ ~Honoured(p.srv, calls[c].cred["refresh"])
      BY <1>0, <3>1, SignedOutOutcome
    <3>. QED
      BY <2>4, <3>2, SaysType
  <2>. QED
    BY <2>1, <2>2, <2>3, <2>4
<1>. HIDE DEF outs
<1>3. o \in Served(outs)
  BY DEF outs
<1>4. outs \in SUBSET Outcome
  BY <1>2
<1>5. CASE o \in outs
  BY <1>2, <1>5
<1>6. CASE o \notin outs
  <2>1. /\ o \in Outcome /\ o.answer.kind \in Faults /\ o.answer.number = Nothing
        /\ o.srv = srv \/ \E p \in outs : o.srv = p.srv
    BY <1>3, <1>4, <1>6, ServedOutcome
  <2>2. Follows(o.srv) /\ Spares(srv, o.srv, Nothing) /\ o.srv.reused = srv.reused
    BY <1>1, <1>2, <2>1, SameFollows
  <2>3. ~Final(o.answer) /\ o.answer.kind # "ok"
    BY <2>1 DEF Faults, Final
  <2>. QED
    BY <2>1, <2>2, <2>3
<1>. QED
  BY <1>5, <1>6

LEMMA ServeOutline ==
  ASSUME BaseInv, NEW c \in Calls, Serve(c), UNCHANGED navVars
  PROVE  /\ Well /\ OnlyCall(c) /\ view' = view /\ At(c, "sent")
         /\ jar' = jar /\ slot' = slot /\ ended' = ended
         /\ calls'[c] = [calls[c] EXCEPT !.pc = "answered", !.answer = calls'[c].answer]
         /\ Spares(srv, srv', Nothing) /\ srv'.reused = srv.reused
         /\ calls'[c].answer.number = Nothing \/ Issues(srv', calls'[c].answer.number)
         /\ calls[c].op = "login" /\ calls'[c].answer.kind = "ok" => Issues(srv', calls'[c].answer.number)
         /\ calls[c].op = "logout" /\ Final(calls'[c].answer) => ~Honoured(srv', calls[c].cred["refresh"])
<1>. USE BaseType
<1>1. PICK o \in Served(CASE calls[c].op = "me" -> Named(calls[c].cred["access"])
                       [] calls[c].op = "login" -> IF Room THEN SignedIn ELSE {Untouched("denied")}
                       [] OTHER -> SignedOut(calls[c].cred)) :
        srv' = o.srv /\ calls' = [calls EXCEPT ![c].pc = "answered", ![c].answer = o.answer]
  BY DEF Serve
<1>2. /\ o \in Outcome /\ Follows(o.srv) /\ Spares(srv, o.srv, Nothing)
      /\ o.srv.reused = srv.reused
      /\ o.answer.number = Nothing \/ Issues(o.srv, o.answer.number)
      /\ calls[c].op = "login" /\ o.answer.kind = "ok" => Issues(o.srv, o.answer.number)
      /\ calls[c].op = "logout" /\ Final(o.answer) => ~Honoured(o.srv, calls[c].cred["refresh"])
  BY ServeOutcomes
<1>. DEFINE q == [calls[c] EXCEPT !.pc = "answered", !.answer = o.answer]
<1>3. q \in Call /\ q.answer = o.answer
  <2>1. calls[c] \in Call /\ o.answer \in Answer
    BY <1>2 DEF Outcome
  <2>. QED
    BY <2>1 DEF Call
<1>4. calls' = [calls EXCEPT ![c] = q]
  BY <1>1
<1>. HIDE DEF q
<1>5. calls' \in [Calls -> Call] /\ OnlyCall(c) /\ calls'[c] = q
  BY <1>3, <1>4 DEF OnlyCall
<1>6. /\ At(c, "sent") /\ view' = view /\ jar' = jar /\ slot' = slot /\ ended' = ended
      /\ UNCHANGED <<mix, due, nav, navsMade>>
  BY DEF Serve, navVars
<1>7. Well
  BY <1>1, <1>2, <1>5, <1>6 DEF Well, TypeOK, SharedTypeOK, ClientTypeOK, NavTypeOK, SrvInv, Follows
<1>8. calls'[c] = [calls[c] EXCEPT !.pc = "answered", !.answer = calls'[c].answer]
  BY <1>3, <1>5 DEF q
<1>. QED
  BY <1>1, <1>2, <1>3, <1>5, <1>6, <1>7, <1>8

(* An answer that is received leaves the view as of the last transition.    *)
LEMMA ReceivedView ==
  ASSUME BaseInv, NEW c \in Calls, Tab(c) \in Tabs, CallLinks(c), ViewLinks(Tab(c)),
         NEW v \in {Revalidated(c), LoggedIn(c), LoggedOut(c)}
  PROVE  v \in View /\ v.gen = v.turns /\ v.asOf = v.turns
<1>. DEFINE w == view[Tab(c)]
            a == calls[c].answer
<1>1. /\ w \in View /\ a.line \in Numbers \cup {Nothing} /\ calls[c].turn \in Nat
      /\ w.gen = w.turns /\ w.asOf = w.turns /\ calls[c].gen = calls[c].turn
  <2>1. w \in View /\ a \in Answer /\ calls[c] \in Call
    BY BaseType
  <2>. HIDE DEF w, a
  <2>2. a.line \in Numbers \cup {Nothing}
    BY <2>1 DEF Answer
  <2>3. calls[c].turn \in Nat
    BY <2>1 DEF Call
  <2>. QED
    BY <2>1, <2>2, <2>3 DEF CallLinks, ViewLinks, w
<1>2. ASSUME NEW k
      PROVE  LET b == Bumped(Tab(c), k) IN b \in View /\ b.gen = b.turns
  <2>. DEFINE g == w.gen + 1
              n == w.turns + 1
  <2>1. Bumped(Tab(c), k) = [w EXCEPT !.gen = g, !.turns = n]
    BY DEF Bumped
  <2>. HIDE DEF w
  <2>2. w.gen \in Nat /\ w.turns \in Nat
    BY <1>1 DEF View
  <2>3. g \in Nat /\ n \in Nat /\ g = n
    BY <1>1, <2>2
  <2>. HIDE DEF g, n
  <2>. QED
    BY <1>1, <2>1, <2>3 DEF View
<1>3. ASSUME NEW b \in View, b.gen = b.turns, NEW n \in Numbers \cup {Nothing}
      PROVE  /\ LET s == Showing(b, n, b.turns) IN s \in View /\ s.gen = s.turns /\ s.asOf = s.turns
             /\ LET s == Hiding(b, b.turns) IN s \in View /\ s.gen = s.turns /\ s.asOf = s.turns
  BY <1>3 DEF Showing, Hiding, View
<1>4. CASE v = Revalidated(c)
  <2>1. CASE ~Current(c)
    BY <1>1, <1>4, <2>1 DEF Revalidated
  <2>2. CASE Current(c)
    <3>1. calls[c].turn = w.turns
      BY <1>1, <2>2 DEF Current
    <3>2. v = Showing(w, a.line, w.turns) \/ v = Hiding(w, w.turns)
      BY <1>4, <2>2, <3>1 DEF Revalidated
    <3>. HIDE DEF w, a
    <3>. QED
      BY <1>1, <1>3, <3>2
  <2>. QED
    BY <2>1, <2>2
<1>5. CASE v = LoggedIn(c)
  <2>. DEFINE b == Bumped(Tab(c), a.kind)
  <2>1. v = Showing(b, a.line, b.turns) \/ v = Hiding(b, b.turns) \/ v = Hiding(w, w.asOf)
    <3>1. CASE a.kind = "ok"
      BY <1>5, <3>1 DEF LoggedIn
    <3>2. CASE a.kind = "mfa"
      BY <1>5, <3>2 DEF LoggedIn
    <3>3. CASE a.kind \notin {"ok", "mfa"}
      BY <1>5, <3>3 DEF LoggedIn
    <3>. QED
      BY <3>1, <3>2, <3>3
  <2>2. b \in View /\ b.gen = b.turns
    BY <1>2
  <2>. HIDE DEF b, w, a
  <2>. QED
    BY <1>1, <1>3, <2>1, <2>2
<1>6. CASE v = LoggedOut(c)
  <2>. DEFINE b == Bumped(Tab(c), "logout")
  <2>1. v = Hiding(b, b.turns) \/ v = w
    BY <1>6 DEF LoggedOut
  <2>2. b \in View /\ b.gen = b.turns
    BY <1>2
  <2>. HIDE DEF b, w, a
  <2>. QED
    BY <1>1, <1>3, <2>1, <2>2
<1>. QED
  BY <1>4, <1>5, <1>6

(* The cookies of an answer. *)
LEMMA PlantedJar ==
  ASSUME BaseInv, NEW n \in Numbers \cup {Nothing}
  PROVE  Planting(n) \in Jar /\ \A k \in Cookies : Planting(n)[k] = n
BY Plants DEF BaseInv, Jar

LEMMA ReceiveOutline ==
  ASSUME BaseInv, NEW c \in Calls, Receive(c), CallLinks(c), \A t \in Tabs : ViewLinks(t),
         UNCHANGED navVars
  PROVE  /\ Well /\ OnlyCall(c) /\ \A t \in Tabs : ViewLinks(t)'
         /\ srv' = srv /\ slot' = slot /\ At(c, "answered")
         /\ calls'[c] = [Unmade EXCEPT !.pc = "done"]
         /\ IF calls[c].answer.kind = "ok" /\ calls[c].op = "login"
              THEN \A k \in Cookies : jar'[k] = calls[c].answer.number
              ELSE \A k \in Cookies : jar'[k] \in {jar[k], Nothing}
         /\ \A told \in ended' : \/ told \in ended
                                 \/ told.by = "logout" /\ SaidOver(c)
                                    /\ told.cred = calls[c].cred["refresh"]
<1>. USE BaseType, SameFollows
<1>. DEFINE t == Tab(c)
            a == calls[c].answer
            v == CASE calls[c].op = "me" -> Revalidated(c)
                   [] calls[c].op = "login" -> LoggedIn(c)
                   [] OTHER -> LoggedOut(c)
            new == [by |-> "logout", tab |-> t, cred |-> calls[c].cred["refresh"]]
            q == [Unmade EXCEPT !.pc = "done"]
<1>1. /\ At(c, "answered") /\ srv' = srv /\ slot' = slot
      /\ UNCHANGED <<mix, due, nav, navsMade>>
      /\ calls' = [calls EXCEPT ![c] = q] /\ view' = [view EXCEPT ![t] = v]
      /\ jar' = CASE a.kind = "ok" /\ calls[c].op = "login" -> Planting(a.number)
              [] a.kind = "ok" /\ calls[c].op = "logout" -> Clearing(mix.dep.via)
              [] OTHER -> jar
      /\ ended' = IF calls[c].op = "logout" /\ Final(a) THEN ended \cup {new} ELSE ended
  BY DEF Receive, navVars
<1>2. t \in Tabs
  BY <1>1 DEF CallLinks, At
<1>3. v \in View /\ v.gen = v.turns /\ v.asOf = v.turns
  <2>1. v \in {Revalidated(c), LoggedIn(c), LoggedOut(c)}
    <3>1. CASE calls[c].op = "me"
      BY <3>1
    <3>2. CASE calls[c].op = "login"
      BY <3>2
    <3>3. CASE calls[c].op \notin {"me", "login"}
      BY <3>3
    <3>. QED
      BY <3>1, <3>2, <3>3
  <2>. HIDE DEF v
  <2>. QED
    BY <1>2, <2>1, ReceivedView
<1>4. q \in Call
  BY SaysType DEF Unmade, Call, Empty, Jar
<1>5. new \in Told /\ new.by = "logout" /\ new.cred = calls[c].cred["refresh"]
  BY <1>2 DEF Told, Cookies
<1>6. /\ jar' \in Jar
      /\ IF a.kind = "ok" /\ calls[c].op = "login"
              THEN \A k \in Cookies : jar'[k] = a.number
              ELSE \A k \in Cookies : jar'[k] \in {jar[k], Nothing}
  <2>1. CASE a.kind = "ok" /\ calls[c].op = "login"
    <3>1. jar' = Planting(a.number)
      BY <1>1, <2>1
    <3>2. a.number \in Numbers \cup {Nothing}
      OBVIOUS
    <3>. HIDE DEF a
    <3>. QED
      BY <2>1, <3>1, <3>2, PlantedJar
  <2>2. CASE a.kind = "ok" /\ calls[c].op = "logout"
    <3>1. jar' = Clearing(mix.dep.via)
      BY <1>1, <2>2
    <3>. QED
      BY <2>2, <3>1, ClearingType
  <2>3. CASE ~(a.kind = "ok" /\ calls[c].op \in {"login", "logout"})
    <3>1. jar' = jar
      BY <1>1, <2>3
    <3>. QED
      BY <2>3, <3>1
  <2>. QED
    BY <2>1, <2>2, <2>3
<1>7. /\ ended' \subseteq Told
      /\ \A told \in ended' : \/ told \in ended
                              \/ told = new /\ SaidOver(c)
  BY <1>1, <1>5 DEF SaidOver
<1>. HIDE DEF t, v, new, q, a
<1>8. /\ calls' \in [Calls -> Call] /\ OnlyCall(c) /\ calls'[c] = q
      /\ view' \in [Tabs -> View]
  BY <1>1, <1>2, <1>3, <1>4 DEF OnlyCall
<1>9. \A u \in Tabs : ViewLinks(u)'
  BY <1>1, <1>2, <1>3 DEF ViewLinks
<1>10. Well
  BY <1>1, <1>6, <1>7, <1>8 DEF Well, TypeOK, SharedTypeOK, ClientTypeOK, NavTypeOK, SrvInv
<1>. QED
  BY <1>1, <1>5, <1>6, <1>7, <1>8, <1>9, <1>10 DEF a, q

LEMMA InterceptOutline ==
  ASSUME BaseInv, NEW c \in Calls, Intercept(c), CallLinks(c), UNCHANGED navVars
  PROVE  /\ Well /\ OnlyCall(c) /\ view' = view /\ srv' = srv /\ jar' = jar /\ ended' = ended
         /\ At(c, "answered") /\ calls[c].op = "me" /\ Tab(c) \in 1..mix.tabs
         /\ \/ slot' = slot /\ calls'[c] = [calls[c] EXCEPT !.pc = "waiting"]
            \/ /\ slot[Tab(c)] = Nothing /\ slot' = [slot EXCEPT ![Tab(c)] = c]
               /\ calls'[c] = [calls[c] EXCEPT !.pc = "refreshing", !.cred = Presented(mix.dep.via)]
<1>. USE BaseType, SameFollows
<1>. DEFINE t == Tab(c)
            q1 == [calls[c] EXCEPT !.pc = "waiting"]
            q2 == [calls[c] EXCEPT !.pc = "refreshing", !.cred = Presented(mix.dep.via)]
<1>1. /\ At(c, "answered") /\ calls[c].op = "me" /\ view' = view /\ srv' = srv /\ jar' = jar
      /\ ended' = ended /\ UNCHANGED <<mix, due, nav, navsMade>>
      /\ \/ slot' = slot /\ calls' = [calls EXCEPT ![c] = q1]
         \/ /\ slot[t] = Nothing /\ slot' = [slot EXCEPT ![t] = c]
            /\ calls' = [calls EXCEPT ![c] = q2]
  BY DEF Intercept, Intercepted, Shared, sharedVars, navVars
<1>2. t \in 1..mix.tabs /\ t \in Tabs
  BY <1>1 DEF CallLinks, At
<1>3. q1 \in Call /\ q2 \in Call
  <2>1. calls[c] \in Call /\ Presented(mix.dep.via) \in Jar
    BY PresentedType
  <2>. QED
    BY <2>1 DEF Call
<1>. HIDE DEF q1, q2
<1>4. /\ OnlyCall(c) /\ calls' \in [Calls -> Call] /\ slot' \in [Tabs -> Calls \cup {Nothing}]
      /\ \/ slot' = slot /\ calls'[c] = q1
         \/ slot[t] = Nothing /\ slot' = [slot EXCEPT ![t] = c] /\ calls'[c] = q2
  BY <1>1, <1>2, <1>3 DEF OnlyCall
<1>5. Well
  BY <1>1, <1>4 DEF Well, TypeOK, SharedTypeOK, ClientTypeOK, NavTypeOK, SrvInv
<1>. QED
  BY <1>1, <1>2, <1>4, <1>5 DEF q1, q2

LEMMA RefreshOutcomes ==
  ASSUME BaseInv, Room, NEW n \in Numbers \cup {Nothing}, Born(n), NEW o \in Served(Refreshed(n)),
         NEW a \in Relayed(o.answer)
  PROVE  /\ Follows(o.srv) /\ a \in Answer
         /\ a.kind = "ok" => Issues(o.srv, a.number) /\ Spares(srv, o.srv, n) /\ n # Nothing
         /\ a.kind # "ok" => a.number = Nothing
         /\ Rejected(a) /\ Plain => ~Honoured(o.srv, n)
         /\ a.kind # "ok" /\ mix.faults \subseteq {"throttled"} /\ Sound(n) =>
              o.srv.reused = srv.reused /\ Spares(srv, o.srv, Nothing)
<1>. USE BaseType
<1>. DEFINE outs == Refreshed(n)
<1>1. ASSUME NEW p \in outs
      PROVE  /\ p \in Outcome /\ Follows(p.srv)
             /\ p.answer.kind \in {"ok", "refused", "blocked"}
             /\ p.answer.kind = "ok" => Issues(p.srv, p.answer.number) /\ Spares(srv, p.srv, n) /\ n # Nothing
             /\ p.answer.kind # "ok" => ~Honoured(p.srv, n) /\ p.answer.number = Nothing
             /\ p.answer.kind # "ok" /\ (n = Nothing \/ srv.state[n] \in {"live", "dead"}) =>
                  p.srv.reused = srv.reused /\ Spares(srv, p.srv, Nothing)
  BY RefreshedOutcome DEF Spares
<1>. HIDE DEF outs
<1>2. outs \in SUBSET Outcome
  BY <1>1
<1>3. o \in Served(outs)
  BY DEF outs
<1>4. /\ o \in Outcome
      /\ \/ o \in outs
         \/ /\ o.answer.kind \in mix.faults \cap Faults /\ o.answer.number = Nothing
            /\ o.srv = srv \/ (o.answer.kind \in {"down", "lost"} /\ \E p \in outs : o.srv = p.srv)
  BY <1>2, <1>3, ServedOutcome
<1>5. \/ a = o.answer
      \/ mix.dep.via # "api" /\ o.answer.kind # "ok" /\ a = Says("refused")
  BY DEF Relayed
<1>6. a \in Answer /\ (a.kind = "ok" => a = o.answer) /\ o.answer \in Answer
  BY <1>4, <1>5, SaysType DEF Outcome
<1>7. Spares(srv, srv, Nothing) /\ Follows(srv)
  BY SameFollows DEF Spares
<1>8. Follows(o.srv)
  BY <1>1, <1>4, <1>7
<1>9. a.kind = "ok" => o \in outs
  BY <1>4, <1>6 DEF Faults
<1>10. a.kind # "ok" => a.number = Nothing /\ o.answer.kind # "ok"
  BY <1>1, <1>4, <1>5, SaysType DEF Faults
<1>11. Rejected(a) /\ Plain => o \in outs /\ a.kind # "ok"
  <2>1. CASE o \in outs
    BY <2>1 DEF Rejected
  <2>2. CASE o.answer.kind \in mix.faults \cap Faults
    <3>1. mix.faults # {} /\ o.answer.kind \notin {"refused", "blocked"}
      BY <2>2 DEF Faults
    <3>. QED
      BY <1>5, <3>1 DEF Plain, Rejected
  <2>. QED
    BY <1>4, <2>1, <2>2
<1>12. mix.faults \subseteq {"throttled"} => o \in outs \/ o.srv = srv
  BY <1>4
<1>13. a.kind = "ok" => Issues(o.srv, a.number) /\ Spares(srv, o.srv, n) /\ n # Nothing
  BY <1>1, <1>6, <1>9
<1>14. Rejected(a) /\ Plain => ~Honoured(o.srv, n)
  BY <1>1, <1>10, <1>11
<1>15. a.kind # "ok" /\ mix.faults \subseteq {"throttled"} /\ Sound(n) =>
         o.srv.reused = srv.reused /\ Spares(srv, o.srv, Nothing)
  BY <1>1, <1>7, <1>10, <1>12 DEF Sound
<1>. QED
  BY <1>6, <1>8, <1>10, <1>13, <1>14, <1>15

LEMMA ServeRefreshOutline ==
  ASSUME BaseInv, NEW c \in Calls, ServeRefresh(c), UNCHANGED navVars
  PROVE  LET n == calls[c].cred["refresh"]
             a == calls'[c].answer IN
         /\ Well /\ OnlyCall(c) /\ view' = view /\ At(c, "refreshing")
         /\ jar' = jar /\ slot' = slot /\ ended' = ended
         /\ calls'[c] = [calls[c] EXCEPT !.pc = "refreshed", !.answer = a]
         /\ a.kind = "ok" => Issues(srv', a.number) /\ Spares(srv, srv', n) /\ n # Nothing
         /\ a.kind # "ok" => a.number = Nothing
         /\ Rejected(a) /\ Plain => ~Honoured(srv', n)
         /\ a.kind # "ok" /\ mix.faults \subseteq {"throttled"} /\ Sound(n) =>
              srv'.reused = srv.reused /\ Spares(srv, srv', Nothing)
<1>. USE BaseType
<1>1. PICK o \in Served(Refreshed(calls[c].cred["refresh"])) : \E a \in Relayed(o.answer) :
        srv' = o.srv /\ calls' = [calls EXCEPT ![c].pc = "refreshed", ![c].answer = a]
  BY DEF ServeRefresh
<1>2. PICK a \in Relayed(o.answer) :
        srv' = o.srv /\ calls' = [calls EXCEPT ![c].pc = "refreshed", ![c].answer = a]
  BY <1>1
<1>3. PICK n \in Numbers \cup {Nothing} : n = calls[c].cred["refresh"] /\ Born(n)
  BY DEF Cookies
<1>4. Room
  BY DEF ServeRefresh
<1>5. /\ Follows(o.srv) /\ a \in Answer
      /\ a.kind = "ok" => Issues(o.srv, a.number) /\ Spares(srv, o.srv, n) /\ n # Nothing
      /\ a.kind # "ok" => a.number = Nothing
      /\ Rejected(a) /\ Plain => ~Honoured(o.srv, n)
      /\ a.kind # "ok" /\ mix.faults \subseteq {"throttled"} /\ Sound(n) =>
           o.srv.reused = srv.reused /\ Spares(srv, o.srv, Nothing)
  BY <1>3, <1>4, RefreshOutcomes
<1>. DEFINE q == [calls[c] EXCEPT !.pc = "refreshed", !.answer = a]
<1>6. q \in Call /\ q.answer = a
  <2>1. calls[c] \in Call
    OBVIOUS
  <2>. QED
    BY <1>5, <2>1 DEF Call
<1>7. calls' = [calls EXCEPT ![c] = q]
  BY <1>2
<1>8. calls'[c] = q
  BY <1>7
<1>9. q = [calls[c] EXCEPT !.pc = "refreshed", !.answer = calls'[c].answer]
  BY <1>6, <1>8
<1>. HIDE DEF q
<1>10. calls' \in [Calls -> Call] /\ OnlyCall(c)
  BY <1>6, <1>7 DEF OnlyCall
<1>11. /\ At(c, "refreshing") /\ view' = view /\ jar' = jar /\ slot' = slot /\ ended' = ended
       /\ UNCHANGED <<mix, due, nav, navsMade>>
  BY DEF ServeRefresh, navVars
<1>12. Well
  BY <1>2, <1>5, <1>10, <1>11 DEF Well, TypeOK, SharedTypeOK, ClientTypeOK, NavTypeOK, SrvInv, Follows
<1>. QED
  BY <1>2, <1>3, <1>5, <1>6, <1>8, <1>9, <1>10, <1>11, <1>12

(* The calls a refresh settles for: its own and those that wait for it.     *)
Party(c) == {c} \cup {d \in Calls : At(d, "waiting") /\ Tab(d) = Tab(c) /\ slot[Tab(c)] = c}

LEMMA SettlesOutline ==
  ASSUME BaseInv, NEW c \in Calls, RefreshSettles(c), CallLinks(c), UNCHANGED navVars
  PROVE  LET a == calls[c].answer
             ok == a.kind = "ok" IN
         /\ Well /\ view' = view /\ srv' = srv /\ At(c, "refreshed") /\ slot[Tab(c)] = c
         /\ Tab(c) \in 1..mix.tabs
         /\ slot' = [slot EXCEPT ![Tab(c)] = Nothing]
         /\ \A d \in Calls \ Party(c) : calls'[d] = calls[d]
         /\ \A d \in Party(c) :
              /\ d = c \/ At(d, "waiting")
              /\ calls'[d] = [calls[d] EXCEPT !.retried = TRUE, !.cred = Empty,
                                !.pc = IF ok THEN "ready" ELSE "answered",
                                !.answer = IF ok THEN Says("ok") ELSE Says("refused")]
         /\ IF ok THEN \A k \in Cookies : jar'[k] = a.number ELSE jar' = jar
         /\ \A told \in ended' : \/ told \in ended
                                 \/ told.by = "fetch" /\ (Plain => SaidOver(c))
                                    /\ told.cred = calls[c].cred["refresh"]
<1>. USE BaseType, SameFollows
<1>. DEFINE t == Tab(c)
            a == calls[c].answer
            ok == a.kind = "ok"
            party == {c} \cup {d \in Calls : At(d, "waiting") /\ Tab(d) = t /\ slot[t] = c}
            q(d) == [calls[d] EXCEPT !.retried = TRUE, !.cred = Empty,
                                !.pc = IF ok THEN "ready" ELSE "answered",
                                !.answer = IF ok THEN Says("ok") ELSE Says("refused")]
            new == [by |-> "fetch", tab |-> t, cred |-> calls[c].cred["refresh"]]
<1>1. /\ At(c, "refreshed") /\ view' = view /\ srv' = srv
      /\ UNCHANGED <<mix, due, nav, navsMade>>
      /\ slot' = [slot EXCEPT ![t] = Nothing]
      /\ calls' = [d \in Calls |-> IF d \notin party THEN calls[d] ELSE q(d)]
      /\ jar' = IF ok THEN Planting(a.number) ELSE jar
      /\ ended' = IF Rejected(a) THEN ended \cup {new} ELSE ended
  BY DEF RefreshSettles, navVars
<1>2. t \in 1..mix.tabs /\ t \in Tabs /\ slot[t] = c
  BY <1>1 DEF CallLinks, At
<1>3. ASSUME NEW d \in Calls
      PROVE  q(d) \in Call
  <2>1. calls[d] \in Call /\ Empty \in Jar /\ Says("ok") \in Answer /\ Says("refused") \in Answer
    BY SaysType DEF Empty, Jar
  <2>. QED
    BY <2>1 DEF Call
<1>4. new \in Told /\ new.by = "fetch" /\ new.cred = calls[c].cred["refresh"]
  BY <1>2 DEF Told, Cookies
<1>5. jar' \in Jar /\ IF ok THEN \A k \in Cookies : jar'[k] = a.number ELSE jar' = jar
  <2>1. a.number \in Numbers \cup {Nothing}
    OBVIOUS
  <2>2. ok => jar' = Planting(a.number)
    BY <1>1
  <2>3. ~ok => jar' = jar
    BY <1>1
  <2>. HIDE DEF a, ok
  <2>. QED
    BY <2>1, <2>2, <2>3, PlantedJar
<1>6. party = Party(c) /\ party \subseteq Calls /\ \A d \in party : d = c \/ At(d, "waiting")
  BY DEF Party
<1>. HIDE DEF q, party
<1>7. /\ calls' \in [Calls -> Call]
      /\ \A d \in Calls \ party : calls'[d] = calls[d]
      /\ \A d \in party : calls'[d] = q(d)
  BY <1>1, <1>3, <1>6
<1>8. /\ ended' \subseteq Told
      /\ \A told \in ended' : told \in ended \/ (told = new /\ (Plain => SaidOver(c)))
  BY <1>1, <1>4 DEF SaidOver
<1>9. slot' \in [Tabs -> Calls \cup {Nothing}]
  BY <1>1, <1>2
<1>10. Well
  BY <1>1, <1>5, <1>7, <1>8, <1>9 DEF Well, TypeOK, SharedTypeOK, ClientTypeOK, NavTypeOK, SrvInv
<1>. HIDE DEF new
<1>. QED
  BY <1>1, <1>2, <1>4, <1>5, <1>6, <1>7, <1>8, <1>10 DEF q

-----------------------------------------------------------------------------
(* Page loads *)

LEMMA NavTypes ==
  ASSUME BaseInv
  PROVE  /\ Shown \in Nav /\ Shown.cred = Nothing /\ Shown.answer = Says("ok")
         /\ \A path \in Paths, n \in 0..MaxAttempts, r \in BOOLEAN :
              LET v == Visit(path, n, r) IN
              v \in Nav /\ v.cred = Nothing /\ v.answer = Says("ok")
         /\ ~LoopBroken =>
              /\ ThroughSilent \in Nav /\ ThroughSilent.answer = nav.answer
              /\ ThroughSilent.cred = Presented("next")["refresh"]
<1>1. /\ 0 \in 0..MaxAttempts /\ Says("ok") \in Answer /\ Nothing \in Numbers \cup {Nothing}
      /\ nav \in Nav
  BY SaysType, BaseType, BrowserAssumption
<1>2. Shown \in Nav /\ Shown.cred = Nothing /\ Shown.answer = Says("ok")
  BY <1>1 DEF Shown, Unvisited, Nav, Paths
<1>3. ASSUME NEW path \in Paths, NEW n \in 0..MaxAttempts, NEW r \in BOOLEAN
      PROVE  LET v == Visit(path, n, r) IN v \in Nav /\ v.cred = Nothing /\ v.answer = Says("ok")
  BY <1>1 DEF Visit, Nav
<1>4. ASSUME ~LoopBroken
      PROVE  /\ ThroughSilent \in Nav /\ ThroughSilent.answer = nav.answer
             /\ ThroughSilent.cred = Presented("next")["refresh"]
  <2>1. Presented("next")["refresh"] \in Numbers \cup {Nothing}
    BY PresentedType DEF Jar, Cookies
  <2>. DEFINE n == nav.count + 1
              v == [nav EXCEPT !.pc = "silent", !.cred = Presented("next")["refresh"], !.count = n,
                               !.reason = FALSE]
  <2>2. n \in 0..MaxAttempts
    <3>1. nav.count \in 0..MaxAttempts /\ ~(nav.count >= MaxAttempts)
      BY <1>1, <1>4 DEF Nav, LoopBroken
    <3>. QED
      BY <3>1, BrowserAssumption
  <2>3. ThroughSilent = v
    BY DEF ThroughSilent
  <2>. HIDE DEF n
  <2>4. v \in Nav /\ v.answer = nav.answer /\ v.cred = Presented("next")["refresh"]
    BY <1>1, <2>1, <2>2 DEF Nav
  <2>. QED
    BY <2>3, <2>4
<1>. QED
  BY <1>2, <1>3, <1>4

(* Whatever the proxy answers, the navigation carries a number that was in  *)
(* the jar, or the answer it had.                                           *)
LEMMA ProxyOutline ==
  ASSUME BaseInv, Proxy
  PROVE  /\ nav' \in Nav /\ nav'.cred \in {Nothing, Presented("next")["refresh"]}
         /\ nav'.answer \in {Says("ok"), nav.answer}
<1>1. 0 \in 0..MaxAttempts /\ nav \in Nav
  BY BaseType, BrowserAssumption
<1>2. nav.path \in Paths /\ {"app", "login"} \subseteq Paths
  BY <1>1 DEF Nav, Paths
<1>3. \/ nav' = Shown
      \/ \E path \in {"app", "login"}, r \in BOOLEAN : nav' = Visit(path, 0, r)
      \/ ~LoopBroken /\ nav' = ThroughSilent
  BY DEF Proxy, OnPublic, OnProtected, ToLogin
<1>. QED
  BY <1>1, <1>2, <1>3, NavTypes

LEMMA SilentOutline ==
  ASSUME BaseInv, SilentServed, UNCHANGED clientVars
  PROVE  /\ Well /\ jar' = jar /\ nav'.cred = nav.cred
         /\ nav'.answer.number = Nothing \/ Issues(srv', nav'.answer.number)
<1>. USE BaseType, SaysType, SameFollows
<1>. DEFINE outs == IF Room THEN Refreshed(nav.cred) ELSE {Untouched("down")}
            Good(p) == /\ p \in Outcome /\ Follows(p.srv)
                       /\ p.answer.number = Nothing \/ Issues(p.srv, p.answer.number)
<1>1. PICK o \in Served(outs) : srv' = o.srv /\ nav' = [nav EXCEPT !.pc = "relayed", !.answer = o.answer]
  BY DEF SilentServed
<1>2. ASSUME NEW p \in outs
      PROVE  Good(p)
  <2>1. CASE Room
    <3>1. p \in Refreshed(nav.cred) /\ Born(nav.cred)
      BY <2>1 DEF BaseInv, BornLinks
    <3>. HIDE DEF outs
    <3>2. /\ p \in Outcome /\ Follows(p.srv)
          /\ p.answer.kind = "ok" => Issues(p.srv, p.answer.number)
          /\ p.answer.kind # "ok" => p.answer.number = Nothing
      BY <2>1, <3>1, RefreshedOutcome
    <3>. QED
      BY <3>2
  <2>2. CASE ~Room
    <3>1. p = Untouched("down")
      BY <2>2
    <3>. HIDE DEF outs
    <3>. QED
      BY <3>1 DEF Untouched, Outcome, SrvInv, Faults
  <2>. QED
    BY <2>1, <2>2
<1>. HIDE DEF outs
<1>3. /\ o \in Outcome
      /\ o \in outs \/ (o.answer.number = Nothing /\ (o.srv = srv \/ \E p \in outs : o.srv = p.srv))
  <2>1. outs \in SUBSET Outcome
    BY <1>2
  <2>. QED
    BY <2>1, ServedOutcome
<1>4. Good(o)
  BY <1>2, <1>3
<1>5. nav' \in Nav /\ nav'.cred = nav.cred /\ nav'.answer = o.answer
  <2>1. nav \in Nav /\ o.answer \in Answer
    BY <1>3 DEF Outcome
  <2>. QED
    BY <1>1, <2>1 DEF Nav
<1>6. UNCHANGED <<mix, jar, due, view, slot, calls, ended, navsMade>>
  BY DEF SilentServed, clientVars
<1>7. Well
  BY <1>1, <1>4, <1>5, <1>6 DEF Well, TypeOK, SharedTypeOK, ClientTypeOK, NavTypeOK, SrvInv, Follows
<1>. QED
  BY <1>1, <1>4, <1>5, <1>6, <1>7

LEMMA SilentAnsweredOutline ==
  ASSUME BaseInv, SilentAnswered
  PROVE  /\ nav' \in Nav /\ nav'.cred = Nothing /\ nav'.answer = Says("ok") /\ jar' \in Jar
         /\ \/ \A k \in Cookies : jar'[k] = nav.answer.number
            \/ \A k \in Cookies : jar'[k] \in {jar[k], Nothing}
<1>. USE BaseType
<1>1. nav.path \in Paths /\ nav.count \in 0..MaxAttempts /\ "login" \in Paths /\ 0 \in 0..MaxAttempts
  <2>1. nav \in Nav
    OBVIOUS
  <2>. QED
    BY <2>1, BrowserAssumption DEF Nav, Paths
<1>2. CASE nav.answer.kind = "ok"
  <2>1. nav' = Visit(nav.path, nav.count, FALSE) /\ jar' = Planting(nav.answer.number)
    BY <1>2 DEF SilentAnswered
  <2>2. nav.answer.number \in Numbers \cup {Nothing}
    OBVIOUS
  <2>3. Planting(nav.answer.number) \in Jar
        /\ \A k \in Cookies : Planting(nav.answer.number)[k] = nav.answer.number
    BY <2>2, PlantedJar
  <2>. QED
    BY <1>1, <2>1, <2>3, NavTypes
<1>3. CASE nav.answer.kind # "ok"
  <2>1. nav' = Visit("login", 0, TRUE) /\ jar' = Clearing("next")
    BY <1>3 DEF SilentAnswered, SignedOutPage, ToLogin
  <2>. QED
    BY <1>1, <2>1, NavTypes, ClearingType
<1>. QED
  BY <1>2, <1>3

LEMMA NavOutline ==
  ASSUME BaseInv, StartNav \/ NavStep, UNCHANGED clientVars
  PROVE  /\ Well /\ UNCHANGED clientVars
         /\ StartNav => navsMade < mix.navs
         /\ NavStep => nav.pc # "idle"
         /\ \/ \A k \in Cookies : jar'[k] = nav.answer.number
            \/ \A k \in Cookies : jar'[k] \in {jar[k], Nothing}
         /\ nav'.cred \in {Nothing, nav.cred, Presented("next")["refresh"]}
         /\ \/ nav'.answer.number \in {Nothing, nav.answer.number}
            \/ Issues(srv', nav'.answer.number)
<1>. USE BaseType, SaysType, SameFollows DEF clientVars
<1>1. CASE StartNav
  <2>1. PICK path \in Paths, kind \in {"page", "cross", "background"} :
           nav' = [Unvisited EXCEPT !.pc = "edge", !.kind = kind, !.path = path]
    BY <1>1 DEF StartNav
  <2>2. nav' \in Nav /\ nav'.cred = Nothing /\ nav'.answer = Says("ok")
    <3>1. 0 \in 0..MaxAttempts /\ Says("ok") \in Answer
      BY BrowserAssumption
    <3>. QED
      BY <2>1, <3>1 DEF Unvisited, Nav
  <2>3. /\ navsMade' = navsMade + 1 /\ UNCHANGED <<mix, srv, jar, due>> /\ navsMade < mix.navs
        /\ nav.pc = "idle"
    BY <1>1 DEF StartNav, sharedVars
  <2>4. Well
    BY <2>2, <2>3 DEF Well, TypeOK, SharedTypeOK, ClientTypeOK, NavTypeOK, SrvInv
  <2>5. ~NavStep
    BY <2>3 DEF NavStep, Proxy, SilentRefused, SilentServed, SilentAnswered
  <2>. QED
    BY <2>2, <2>3, <2>4, <2>5
<1>2. ASSUME ~(nav.pc = "idle")
      PROVE  ~StartNav
  BY <1>2 DEF StartNav
<1>3. CASE Proxy
  <2>1. UNCHANGED <<mix, srv, jar, due, navsMade>> /\ nav.pc = "edge"
    BY <1>3 DEF Proxy, sharedVars
  <2>2. /\ nav' \in Nav /\ nav'.cred \in {Nothing, Presented("next")["refresh"]}
        /\ nav'.answer \in {Says("ok"), nav.answer}
    BY <1>3, ProxyOutline
  <2>3. Well
    BY <2>1, <2>2 DEF Well, TypeOK, SharedTypeOK, ClientTypeOK, NavTypeOK, SrvInv
  <2>. QED
    BY <1>2, <2>1, <2>2, <2>3
<1>4. CASE SilentRefused
  <2>1. UNCHANGED <<mix, srv, jar, due, navsMade>> /\ nav.pc = "silent"
    BY <1>4 DEF SilentRefused, sharedVars
  <2>2. nav' \in Nav /\ nav'.cred = Nothing /\ nav'.answer = Says("ok")
    <3>1. "login" \in Paths /\ 0 \in 0..MaxAttempts /\ TRUE \in BOOLEAN
      BY BrowserAssumption DEF Paths
    <3>2. nav' = Visit("login", 0, TRUE)
      BY <1>4 DEF SilentRefused, ToLogin
    <3>. QED
      BY <3>1, <3>2, NavTypes
  <2>3. Well
    BY <2>1, <2>2 DEF Well, TypeOK, SharedTypeOK, ClientTypeOK, NavTypeOK, SrvInv
  <2>. QED
    BY <1>2, <2>1, <2>2, <2>3
<1>5. CASE SilentServed
  <2>1. nav.pc = "silent"
    BY <1>5 DEF SilentServed
  <2>. QED
    BY <1>2, <1>5, <2>1, SilentOutline
<1>6. CASE SilentAnswered
  <2>1. UNCHANGED <<mix, srv, due, navsMade>> /\ nav.pc = "relayed"
    BY <1>6 DEF SilentAnswered
  <2>2. /\ nav' \in Nav /\ nav'.cred = Nothing /\ nav'.answer = Says("ok") /\ jar' \in Jar
        /\ \/ \A k \in Cookies : jar'[k] = nav.answer.number
           \/ \A k \in Cookies : jar'[k] \in {jar[k], Nothing}
    BY <1>6, SilentAnsweredOutline
  <2>3. Well
    BY <2>1, <2>2 DEF Well, TypeOK, SharedTypeOK, ClientTypeOK, NavTypeOK, SrvInv
  <2>. QED
    BY <1>2, <2>1, <2>2, <2>3
<1>. QED
  BY <1>1, <1>3, <1>4, <1>5, <1>6 DEF NavStep

-----------------------------------------------------------------------------
(* The server beside the browser *)

LEMMA DueType ==
  ASSUME NEW e \in Events, Happens(e), due \in [Events -> Nat]
  PROVE  due' \in [Events -> Nat]
<1>. DEFINE n == due[e] - 1
<1>1. n \in Nat
  <2>1. due[e] \in Nat /\ due[e] > 0
    BY DEF Happens
  <2>. QED
    BY <2>1
<1>2. due' = [due EXCEPT ![e] = n]
  BY DEF Happens
<1>. HIDE DEF n
<1>. QED
  BY <1>1, <1>2

LEMMA ServerOutline ==
  ASSUME BaseInv, ServerStep
  PROVE  /\ Well /\ jar' = jar /\ UNCHANGED <<clientVars, navVars>>
         /\ srv'.reused = srv.reused /\ Spares(srv, srv', Nothing)
<1>. USE BaseType
<1>0. UNCHANGED <<mix, jar, view, slot, calls, ended, nav, navsMade>>
  BY DEF ServerStep, Expire, GraceLapses, RevokedElsewhere, Blocked, clientVars, navVars
<1>1. due' \in [Events -> Nat]
  BY DueType DEF ServerStep, Expire, GraceLapses, RevokedElsewhere, Blocked, Events
<1>2. ASSUME NEW t, t \in Server, t.state = srv.state, t.to = srv.to, t.line = srv.line,
             t.reused = srv.reused
      PROVE  Follows(t) /\ Spares(srv, t, Nothing) /\ t.reused = srv.reused
  BY <1>2 DEF Follows, SrvInv, SrvLinks, Ages, Honoured, Spares
<1>3. Follows(srv') /\ srv'.reused = srv.reused /\ Spares(srv, srv', Nothing)
  <2>1. CASE Expire
    <3>1. PICK n \in srv.fresh : srv' = [srv EXCEPT !.fresh = {m \in @ : m > n}]
      BY <2>1 DEF Expire
    <3>2. /\ srv' \in Server /\ srv'.state = srv.state /\ srv'.to = srv.to /\ srv'.line = srv.line
          /\ srv'.reused = srv.reused
      BY <3>1 DEF SrvInv, Server
    <3>. QED
      BY <1>2, <3>2
  <2>2. CASE GraceLapses
    <3>1. PICK n \in Numbers : srv.state[n] = "grace" /\ srv' = [srv EXCEPT !.state[n] = "spent"]
      BY <2>2 DEF GraceLapses
    <3>. DEFINE f == [srv.state EXCEPT ![n] = "spent"]
    <3>2. /\ f \in [Numbers -> {"unborn", "live", "grace", "spent", "dead"}] /\ f[n] = "spent"
          /\ \A m \in Numbers : m # n => f[m] = srv.state[m]
      BY DEF SrvInv, Server
    <3>3. srv' = [srv EXCEPT !.state = f]
      BY <3>1
    <3>. HIDE DEF f
    <3>4. /\ srv' \in Server /\ srv'.state = f /\ srv'.to = srv.to /\ srv'.line = srv.line
          /\ srv'.reused = srv.reused
      BY <3>2, <3>3 DEF SrvInv, Server
    <3>5. SrvLinks(srv')
      BY <3>1, <3>2, <3>4 DEF SrvLinks, SrvInv, Server
    <3>6. Ages(srv, srv')
      BY <3>1, <3>2, <3>4 DEF Ages, Honoured, SrvInv, Server, SrvLinks
    <3>7. Spares(srv, srv', Nothing)
      BY <3>1, <3>2, <3>4 DEF Spares
    <3>. QED
      BY <3>4, <3>5, <3>6, <3>7 DEF Follows
  <2>3. CASE RevokedElsewhere
    <3>1. srv' = KillAll(srv)
      BY <2>3 DEF RevokedElsewhere
    <3>2. /\ srv' \in Server /\ SrvLinks(srv') /\ Ages(srv, srv') /\ srv'.reused = srv.reused
          /\ \A m \in Numbers : srv.state[m] # "unborn" => srv'.state[m] = "dead"
      BY <3>1, KillAllOutcome
    <3>. QED
      BY <3>2 DEF Follows, Spares
  <2>4. CASE Blocked
    <3>1. srv' = [srv EXCEPT !.blocked = TRUE]
      BY <2>4 DEF Blocked
    <3>2. /\ srv' \in Server /\ srv'.state = srv.state /\ srv'.to = srv.to /\ srv'.line = srv.line
          /\ srv'.reused = srv.reused
      BY <3>1 DEF SrvInv, Server
    <3>. QED
      BY <1>2, <3>2
  <2>. QED
    BY <2>1, <2>2, <2>3, <2>4 DEF ServerStep
<1>4. Well
  BY <1>0, <1>1, <1>3 DEF Well, TypeOK, SharedTypeOK, ClientTypeOK, NavTypeOK, SrvInv, Follows
<1>. QED
  BY <1>0, <1>3, <1>4 DEF clientVars, navVars

-----------------------------------------------------------------------------
(* The parts of the invariant, over one step *)

(* A number in hand after the step was in hand before it, or is new.        *)
Known(n) == n \in Numbers \cup {Nothing} /\ (Born(n) \/ Issues(srv', n))

LEMMA Knew ==
  ASSUME BaseInv
  PROVE  /\ Known(Nothing) /\ \A k \in Cookies : Known(jar[k])
         /\ \A c \in Calls :
              Known(calls[c].answer.number) /\ \A k \in Cookies : Known(calls[c].cred[k])
         /\ Known(nav.cred) /\ Known(nav.answer.number)
         /\ \A told \in ended : Known(told.cred)
         /\ \A via : \A k \in Cookies : Known(Presented(via)[k])
<1>1. Known(Nothing)
  BY DEF Known, Born
<1>2. \A told \in ended : Known(told.cred)
  BY BaseType DEF Known, BaseInv, BornLinks, Told
<1>3. Known(nav.cred) /\ Known(nav.answer.number)
  BY BaseType DEF Known, BaseInv, BornLinks
<1>4. \A k \in Cookies : Known(jar[k])
  BY BaseType DEF Known
<1>5. \A c \in Calls :
        Known(calls[c].answer.number) /\ \A k \in Cookies : Known(calls[c].cred[k])
  BY BaseType DEF Known
<1>6. \A via : \A k \in Cookies : Known(Presented(via)[k])
  <2>. SUFFICES ASSUME NEW via, NEW k \in Cookies
                PROVE  Known(Presented(via)[k])
    OBVIOUS
  <2>1. Presented(via)[k] \in {jar[k], Nothing}
    BY PresentedType
  <2>. QED
    BY <1>1, <1>4, <2>1
<1>. QED
  BY <1>1, <1>2, <1>3, <1>4, <1>5, <1>6

LEMMA BaseStep ==
  ASSUME BaseInv, Well,
         \A k \in Cookies : Known(jar'[k]),
         \A c \in Calls :
              Known(calls'[c].answer.number) /\ \A k \in Cookies : Known(calls'[c].cred[k]),
         Known(nav'.cred), Known(nav'.answer.number),
         \A told \in ended' : Known(told.cred)
  PROVE  BaseInv'
<1>1. ASSUME NEW n, Known(n)
      PROVE  n # Nothing => srv'.state[n] # "unborn"
  <2>1. CASE Born(n)
    <3>1. n \in Numbers \cup {Nothing} /\ Ages(srv, srv')
      BY <1>1 DEF Known, Well, Follows
    <3>. QED
      BY <2>1, <3>1 DEF Ages, Born
  <2>2. CASE Issues(srv', n)
    BY <2>2 DEF Issues
  <2>. QED
    BY <1>1, <2>1, <2>2 DEF Known
<1>2. BornLinks'
  BY <1>1 DEF BornLinks, Born
<1>. QED
  BY <1>2 DEF Well, BaseInv, Follows

LEMMA OverStep ==
  ASSUME BaseInv, OverLinks, Well,
         \A told \in ended' :
           \/ told \in ended
           \/ \E c \in Calls :
                /\ told.cred = calls[c].cred["refresh"]
                /\ told.by = "logout" \/ Plain => SaidOver(c),
         \A c \in Calls : SaidOver(c)' =>
           \/ SaidOver(c) /\ calls'[c].cred = calls[c].cred
           \/ ~Honoured(srv', calls'[c].cred["refresh"])
  PROVE  OverLinks'
<1>. USE BaseType
<1>0. Plain' <=> Plain
  BY DEF Plain, Well
<1>1. ASSUME NEW n \in Numbers \cup {Nothing}, Born(n), ~Honoured(srv, n)
      PROVE  ~Honoured(srv', n)
  BY <1>1, Aged DEF Well
<1>2. ASSUME NEW c \in Calls, SaidOver(c)
      PROVE  ~Honoured(srv', calls[c].cred["refresh"])
  BY <1>1, <1>2 DEF OverLinks, Cookies
<1>3. ASSUME NEW told \in ended', told.by = "logout" \/ Plain
      PROVE  ~Honoured(srv', told.cred)
  <2>1. CASE told \in ended
    <3>1. told.cred \in Numbers \cup {Nothing} /\ Born(told.cred)
      BY <2>1 DEF Told, BaseInv, BornLinks
    <3>2. ~Honoured(srv, told.cred)
      BY <1>3, <2>1 DEF OverLinks
    <3>. QED
      BY <1>1, <3>1, <3>2
  <2>2. CASE told \notin ended
    BY <1>2, <1>3, <2>2
  <2>. QED
    BY <2>1, <2>2
<1>4. ASSUME NEW c \in Calls, SaidOver(c)'
      PROVE  ~Honoured(srv', calls'[c].cred["refresh"])
  BY <1>2, <1>4
<1>. QED
  BY <1>0, <1>3, <1>4 DEF OverLinks

(* Alone, at most one call is at its refresh. *)
LEMMA OneRefresh ==
  ASSUME BaseInv, Alone, NEW c \in Calls, NEW d \in Calls, CallLinks(c), CallLinks(d),
         calls[c].pc \in {"refreshing", "refreshed"}
  PROVE  /\ slot[1] = c /\ Tab(c) = 1
         /\ calls[d].pc \notin {"unborn", "done"} => Tab(d) = 1
         /\ calls[d].pc \in {"refreshing", "refreshed"} => d = c
<1>1. mix.tabs = 1
  BY DEF Alone
<1>2. calls[c].pc \notin {"unborn", "done"} => Tab(c) = 1
  BY <1>1 DEF CallLinks
<1>3. calls[d].pc \notin {"unborn", "done"} => Tab(d) = 1
  BY <1>1 DEF CallLinks
<1>. QED
  BY <1>2, <1>3 DEF CallLinks

(* What AloneLinks needs of a step. *)
LEMMA SoundKept ==
  ASSUME BaseInv, NEW m \in Numbers \cup {Nothing}, Spares(srv, srv', m)
  PROVE  \A n \in Numbers \cup {Nothing} : Sound(n) /\ (n # m \/ n = Nothing) => Sound(n)'
BY DEF Spares, Sound

LEMMA NewIsSound ==
  ASSUME BaseInv, NEW m, Issues(srv', m)
  PROVE  /\ m # Nothing /\ m \in Numbers /\ Sound(m)'
         /\ \A n : Born(n) => n # m
BY NumberType DEF Issues, Sound, Born

-----------------------------------------------------------------------------
(* Every step keeps the invariant *)

LEMMA Parts ==
  ASSUME IInv
  PROVE  /\ BaseInv /\ OverLinks /\ \A t \in Tabs : ViewLinks(t)
         /\ \A c \in Calls : CallLinks(c)
         /\ Alone => AloneLinks
BY DEF IInv

LEMMA Joined ==
  ASSUME Well, BaseInv', OverLinks', \A t \in Tabs : ViewLinks(t)', \A c \in Calls : CallLinks(c)',
         Alone => AloneLinks'
  PROVE  IInv'
BY DEF IInv, Alone, Well

(* The calls a step leaves alone keep what CallLinks says of them.          *)
LEMMA CallKept ==
  ASSUME Well, NEW d \in Calls, CallLinks(d), calls'[d] = calls[d],
         calls[d].pc \in {"refreshing", "refreshed"} => slot'[Tab(d)] = slot[Tab(d)]
  PROVE  CallLinks(d)'
BY DEF CallLinks, Tab, Well

LEMMA ViewsKept ==
  ASSUME \A t \in Tabs : ViewLinks(t), view' = view \/ ViewsKeep
  PROVE  \A t \in Tabs : ViewLinks(t)'
BY DEF ViewLinks, ViewsKeep

LEMMA BeginKeeps ==
  ASSUME IInv, NEW c \in Calls, Begin(c), UNCHANGED navVars
  PROVE  IInv'
<1>. USE Parts, BaseType
<1>1. /\ Well /\ OnlyCall(c) /\ ViewsKeep /\ At(c, "unborn")
      /\ srv' = srv /\ jar' = jar /\ slot' = slot /\ ended' = ended
      /\ \E t \in 1..mix.tabs :
           /\ calls'[c].tab = t /\ calls'[c].gen = view[t].gen /\ calls'[c].turn = view[t].turns
           /\ calls'[c].pc = "ready" /\ calls'[c].cred = Empty /\ calls'[c].answer = Says("ok")
  BY BeginOutline
<1>2. nav' = nav /\ navsMade' = navsMade
  BY DEF navVars
<1>3. BaseInv'
  <2>1. /\ Known(calls'[c].answer.number) /\ \A k \in Cookies : Known(calls'[c].cred[k])
    BY <1>1, Knew, SaysType DEF Empty
  <2>. QED
    BY <1>1, <1>2, <2>1, Knew, BaseStep DEF OnlyCall
<1>4. OverLinks'
  <2>1. ~SaidOver(c)'
    BY <1>1 DEF SaidOver, At
  <2>2. \A d \in Calls : d # c => (SaidOver(d)' <=> SaidOver(d)) /\ calls'[d].cred = calls[d].cred
    BY <1>1 DEF SaidOver, At, OnlyCall, Plain, Well
  <2>. QED
    BY <1>1, <2>1, <2>2, OverStep
<1>5. \A t \in Tabs : ViewLinks(t)'
  BY <1>1, ViewsKept
<1>6. ASSUME NEW d \in Calls
      PROVE  CallLinks(d)'
  <2>1. CASE d = c
    <3>1. PICK t \in 1..mix.tabs : /\ calls'[c].tab = t /\ calls'[c].gen = view[t].gen
                                   /\ calls'[c].turn = view[t].turns
      BY <1>1
    <3>2. view[t].gen = view[t].turns
      BY <3>1 DEF ViewLinks
    <3>. QED
      BY <1>1, <2>1, <3>1, <3>2 DEF CallLinks, Tab, Well
  <2>2. CASE d # c
    BY <1>1, <2>2, CallKept DEF OnlyCall
  <2>. QED
    BY <2>1, <2>2
<1>7. ASSUME Alone
      PROVE  AloneLinks'
  <2>1. AloneLinks
    BY <1>7
  <2>2. \A d \in Calls :
          /\ (Renewed(d)' <=> Renewed(d)) /\ (Pending(d)' <=> Pending(d))
          /\ At(d, "refreshing")' => At(d, "refreshing")
          /\ At(d, "refreshing") \/ Pending(d) => calls'[d] = calls[d]
    BY <1>1 DEF Renewed, Pending, At, OnlyCall
  <2>. QED
    BY <1>1, <1>2, <2>1, <2>2 DEF AloneLinks, Sound
<1>. QED
  BY <1>1, <1>3, <1>4, <1>5, <1>6, <1>7, Joined

LEMMA SendKeeps ==
  ASSUME IInv, NEW c \in Calls, Send(c), UNCHANGED navVars
  PROVE  IInv'
<1>. USE Parts, BaseType
<1>1. /\ Well /\ OnlyCall(c) /\ view' = view /\ At(c, "ready")
      /\ srv' = srv /\ jar' = jar /\ slot' = slot /\ ended' = ended
      /\ calls'[c] = [calls[c] EXCEPT !.pc = "sent", !.cred = Presented(mix.dep.via)]
  BY SendOutline
<1>2. nav' = nav /\ navsMade' = navsMade
  BY DEF navVars
<1>3. /\ calls'[c].pc = "sent" /\ calls'[c].cred = Presented(mix.dep.via) /\ calls'[c].op = calls[c].op
      /\ calls'[c].answer = calls[c].answer /\ calls'[c].gen = calls[c].gen
      /\ calls'[c].turn = calls[c].turn /\ calls'[c].tab = calls[c].tab
  <2>1. calls[c] \in Call
    OBVIOUS
  <2>. QED
    BY <1>1, <2>1 DEF Call
<1>4. BaseInv'
  <2>1. /\ Known(calls'[c].answer.number) /\ \A k \in Cookies : Known(calls'[c].cred[k])
    BY <1>3, Knew
  <2>. QED
    BY <1>1, <1>2, <2>1, Knew, BaseStep DEF OnlyCall
<1>5. OverLinks'
  <2>1. ~SaidOver(c)'
    BY <1>3 DEF SaidOver, At
  <2>2. \A d \in Calls : d # c => (SaidOver(d)' <=> SaidOver(d)) /\ calls'[d].cred = calls[d].cred
    BY <1>1 DEF SaidOver, At, OnlyCall, Plain, Well
  <2>. QED
    BY <1>1, <2>1, <2>2, OverStep
<1>6. \A t \in Tabs : ViewLinks(t)'
  BY <1>1, ViewsKept
<1>7. ASSUME NEW d \in Calls
      PROVE  CallLinks(d)'
  <2>1. CASE d = c
    BY <1>1, <1>3, <2>1 DEF CallLinks, Tab, Well, At
  <2>2. CASE d # c
    BY <1>1, <2>2, CallKept DEF OnlyCall
  <2>. QED
    BY <2>1, <2>2
<1>8. ASSUME Alone
      PROVE  AloneLinks'
  <2>1. AloneLinks
    BY <1>8
  <2>2. \A d \in Calls :
          /\ (Renewed(d)' <=> Renewed(d)) /\ (Pending(d)' <=> Pending(d))
          /\ At(d, "refreshing")' => At(d, "refreshing")
          /\ At(d, "refreshing") \/ Pending(d) => calls'[d] = calls[d]
    BY <1>1, <1>3 DEF Renewed, Pending, At, OnlyCall
  <2>. QED
    BY <1>1, <1>2, <2>1, <2>2 DEF AloneLinks, Sound
<1>. QED
  BY <1>1, <1>4, <1>5, <1>6, <1>7, <1>8, Joined

LEMMA ServeKeeps ==
  ASSUME IInv, NEW c \in Calls, Serve(c), UNCHANGED navVars
  PROVE  IInv'
<1>. USE Parts, BaseType
<1>. DEFINE a == calls'[c].answer
<1>1. /\ Well /\ OnlyCall(c) /\ view' = view /\ At(c, "sent")
      /\ jar' = jar /\ slot' = slot /\ ended' = ended
      /\ calls'[c] = [calls[c] EXCEPT !.pc = "answered", !.answer = a]
      /\ Spares(srv, srv', Nothing) /\ srv'.reused = srv.reused
      /\ a.number = Nothing \/ Issues(srv', a.number)
      /\ calls[c].op = "login" /\ a.kind = "ok" => Issues(srv', a.number)
      /\ calls[c].op = "logout" /\ Final(a) => ~Honoured(srv', calls[c].cred["refresh"])
  BY ServeOutline
<1>2. nav' = nav /\ navsMade' = navsMade
  BY DEF navVars
<1>3. /\ calls'[c].pc = "answered" /\ calls'[c].cred = calls[c].cred /\ calls'[c].op = calls[c].op
      /\ calls'[c].gen = calls[c].gen
      /\ calls'[c].turn = calls[c].turn /\ calls'[c].tab = calls[c].tab
  <2>1. calls[c] \in Call
    OBVIOUS
  <2>. QED
    BY <1>1, <2>1 DEF Call
<1>4. BaseInv'
  <2>1. Known(a.number)
    BY <1>1, Knew DEF Known, Issues
  <2>2. \A k \in Cookies : Known(calls'[c].cred[k])
    BY <1>3, Knew
  <2>. QED
    BY <1>1, <1>2, <2>1, <2>2, Knew, BaseStep DEF OnlyCall
<1>5. OverLinks'
  <2>1. SaidOver(c)' => ~Honoured(srv', calls'[c].cred["refresh"])
    BY <1>1, <1>3 DEF SaidOver, At
  <2>2. \A d \in Calls : d # c => (SaidOver(d)' <=> SaidOver(d)) /\ calls'[d].cred = calls[d].cred
    BY <1>1 DEF SaidOver, At, OnlyCall, Plain, Well
  <2>. QED
    BY <1>1, <2>1, <2>2, OverStep
<1>6. \A t \in Tabs : ViewLinks(t)'
  BY <1>1, ViewsKept
<1>7. ASSUME NEW d \in Calls
      PROVE  CallLinks(d)'
  <2>1. CASE d = c
    BY <1>1, <1>3, <2>1 DEF CallLinks, Tab, Well, At
  <2>2. CASE d # c
    BY <1>1, <2>2, CallKept DEF OnlyCall
  <2>. QED
    BY <2>1, <2>2
<1>8. ASSUME Alone
      PROVE  AloneLinks'
  <2>1. AloneLinks
    BY <1>8
  <2>2. \A d \in Calls :
          /\ (Renewed(d)' <=> Renewed(d)) /\ (Pending(d)' => Pending(d) \/ d = c)
          /\ At(d, "refreshing")' => At(d, "refreshing")
          /\ d # c => calls'[d] = calls[d]
    BY <1>1, <1>3 DEF Renewed, Pending, At, OnlyCall
  <2>3. Pending(c)' => Issues(srv', a.number)
    BY <1>1, <1>3 DEF Pending, Renewed, At
  <2>4. ~Pending(c) /\ ~At(c, "refreshing")
    BY <1>1 DEF Pending, Renewed, At
  <2>5. \A n \in Numbers \cup {Nothing} : Sound(n) => Sound(n)'
    BY <1>1, SoundKept
  <2>6. Pending(c)' => /\ a.number # Nothing /\ Sound(calls[c].answer.number)' /\ \A n : Born(n) => n # a.number
    BY <2>3, NewIsSound DEF Sound
  <2>7. "refresh" \in Cookies
    BY DEF Cookies
  <2>8. nav'.pc = "idle" /\ srv'.reused = {}
    BY <1>1, <1>2, <2>1 DEF AloneLinks
  <2>9. Sound(jar["refresh"])' \/ (\E d \in Calls : Renewed(d))'
    BY <1>1, <2>1, <2>2, <2>5, <2>7 DEF AloneLinks, Sound
  <2>10. \A d \in Calls : At(d, "refreshing")' => Sound(calls[d].cred["refresh"])'
    BY <1>1, <2>1, <2>2, <2>4, <2>5, <2>7 DEF AloneLinks, Sound
  <2>11. \A d \in Calls : Pending(d)' =>
           /\ calls'[d].answer.number # Nothing /\ Sound(calls[d].answer.number)'
           /\ calls'[d].answer.number # jar'["refresh"]
    BY <1>1, <2>1, <2>2, <2>4, <2>5, <2>6, <2>7 DEF AloneLinks, Sound
  <2>12. \A d, e \in Calls : Pending(d)' /\ At(e, "refreshing")' =>
           calls'[d].answer.number # calls'[e].cred["refresh"]
    BY <1>1, <2>1, <2>2, <2>4, <2>6, <2>7 DEF AloneLinks
  <2>13. \A d, e \in Calls : Pending(d)' /\ Pending(e)' /\ d # e =>
           calls'[d].answer.number # calls'[e].answer.number
    BY <1>1, <2>1, <2>2, <2>4, <2>6 DEF AloneLinks
  <2>. QED
    BY <2>8, <2>9, <2>10, <2>11, <2>12, <2>13 DEF AloneLinks
<1>. QED
  BY <1>1, <1>4, <1>5, <1>6, <1>7, <1>8, Joined

LEMMA ReceiveKeeps ==
  ASSUME IInv, NEW c \in Calls, Receive(c), UNCHANGED navVars
  PROVE  IInv'
<1>. USE Parts, BaseType
<1>1. /\ Well /\ OnlyCall(c) /\ \A t \in Tabs : ViewLinks(t)'
      /\ srv' = srv /\ slot' = slot /\ At(c, "answered")
      /\ calls'[c] = [Unmade EXCEPT !.pc = "done"]
      /\ IF calls[c].answer.kind = "ok" /\ calls[c].op = "login"
           THEN \A k \in Cookies : jar'[k] = calls[c].answer.number
           ELSE \A k \in Cookies : jar'[k] \in {jar[k], Nothing}
      /\ \A told \in ended' : \/ told \in ended
                              \/ told.by = "logout" /\ SaidOver(c)
                                 /\ told.cred = calls[c].cred["refresh"]
  BY ReceiveOutline
<1>2. nav' = nav /\ navsMade' = navsMade
  BY DEF navVars
<1>3. /\ calls'[c].pc = "done" /\ calls'[c].cred = Empty /\ calls'[c].answer = Says("ok")
      /\ calls'[c].gen = calls'[c].turn
  BY <1>1 DEF Unmade
<1>4. BaseInv'
  <2>1. Known(calls'[c].answer.number) /\ \A k \in Cookies : Known(calls'[c].cred[k])
    BY <1>3, Knew, SaysType DEF Empty
  <2>2. \A k \in Cookies : Known(jar'[k])
    BY <1>1, Knew
  <2>3. \A told \in ended' : Known(told.cred)
    BY <1>1, Knew DEF Cookies
  <2>. QED
    BY <1>1, <1>2, <2>1, <2>2, <2>3, Knew, BaseStep DEF OnlyCall
<1>5. OverLinks'
  <2>1. ~SaidOver(c)'
    BY <1>3 DEF SaidOver, At
  <2>2. \A d \in Calls : d # c => (SaidOver(d)' <=> SaidOver(d)) /\ calls'[d].cred = calls[d].cred
    BY <1>1 DEF SaidOver, At, OnlyCall, Plain, Well
  <2>. QED
    BY <1>1, <2>1, <2>2, OverStep
<1>6. ASSUME NEW d \in Calls
      PROVE  CallLinks(d)'
  <2>1. CASE d = c
    BY <1>3, <2>1 DEF CallLinks
  <2>2. CASE d # c
    BY <1>1, <2>2, CallKept DEF OnlyCall
  <2>. QED
    BY <2>1, <2>2
<1>7. ASSUME Alone
      PROVE  AloneLinks'
  <2>1. AloneLinks /\ "refresh" \in Cookies
    BY <1>7 DEF Cookies
  <2>2. \A d \in Calls :
          /\ (Renewed(d)' <=> Renewed(d)) /\ (Pending(d)' => Pending(d) /\ d # c)
          /\ At(d, "refreshing")' => At(d, "refreshing")
          /\ d # c => calls'[d] = calls[d]
    BY <1>1, <1>3 DEF Renewed, Pending, At, OnlyCall
  <2>3. ~At(c, "refreshing")
    BY <1>1 DEF At
  <2>4. \/ Pending(c) /\ jar'["refresh"] = calls[c].answer.number
        \/ jar'["refresh"] \in {jar["refresh"], Nothing}
    BY <1>1, <2>1 DEF Pending, At
  <2>5. Sound(jar["refresh"])' \/ (\E d \in Calls : Renewed(d))'
    BY <1>1, <2>1, <2>2, <2>4 DEF AloneLinks, Sound
  <2>6. \A d \in Calls : Pending(d)' =>
          /\ calls'[d].answer.number # Nothing /\ Sound(calls[d].answer.number)'
          /\ calls'[d].answer.number # jar'["refresh"]
    BY <1>1, <2>1, <2>2, <2>4 DEF AloneLinks, Sound
  <2>7. \A d \in Calls : At(d, "refreshing")' => Sound(calls[d].cred["refresh"])'
    BY <1>1, <2>1, <2>2, <2>3 DEF AloneLinks, Sound
  <2>. QED
    BY <1>1, <1>2, <2>1, <2>2, <2>3, <2>5, <2>6, <2>7 DEF AloneLinks
<1>. QED
  BY <1>1, <1>4, <1>5, <1>6, <1>7, Joined

LEMMA InterceptKeeps ==
  ASSUME IInv, NEW c \in Calls, Intercept(c), UNCHANGED navVars
  PROVE  IInv'
<1>. USE Parts, BaseType
<1>1. /\ Well /\ OnlyCall(c) /\ view' = view /\ srv' = srv /\ jar' = jar /\ ended' = ended
      /\ At(c, "answered") /\ calls[c].op = "me" /\ Tab(c) \in 1..mix.tabs
      /\ \/ slot' = slot /\ calls'[c] = [calls[c] EXCEPT !.pc = "waiting"]
         \/ /\ slot[Tab(c)] = Nothing /\ slot' = [slot EXCEPT ![Tab(c)] = c]
            /\ calls'[c] = [calls[c] EXCEPT !.pc = "refreshing", !.cred = Presented(mix.dep.via)]
  BY InterceptOutline
<1>2. nav' = nav /\ navsMade' = navsMade
  BY DEF navVars
<1>3. /\ calls'[c].op = calls[c].op /\ calls'[c].answer = calls[c].answer /\ calls'[c].gen = calls[c].gen
      /\ calls'[c].turn = calls[c].turn /\ calls'[c].tab = calls[c].tab
      /\ \/ slot' = slot /\ calls'[c].pc = "waiting" /\ calls'[c].cred = calls[c].cred
         \/ /\ slot[Tab(c)] = Nothing /\ slot' = [slot EXCEPT ![Tab(c)] = c]
            /\ calls'[c].pc = "refreshing" /\ calls'[c].cred = Presented(mix.dep.via)
  <2>1. calls[c] \in Call
    OBVIOUS
  <2>. QED
    BY <1>1, <2>1 DEF Call
<1>4. BaseInv'
  <2>1. Known(calls'[c].answer.number) /\ \A k \in Cookies : Known(calls'[c].cred[k])
    BY <1>3, Knew
  <2>. QED
    BY <1>1, <1>2, <2>1, Knew, BaseStep DEF OnlyCall
<1>5. OverLinks'
  <2>1. ~SaidOver(c)'
    BY <1>3 DEF SaidOver, At
  <2>2. \A d \in Calls : d # c => (SaidOver(d)' <=> SaidOver(d)) /\ calls'[d].cred = calls[d].cred
    BY <1>1 DEF SaidOver, At, OnlyCall, Plain, Well
  <2>. QED
    BY <1>1, <2>1, <2>2, OverStep
<1>6. \A t \in Tabs : ViewLinks(t)'
  BY <1>1, ViewsKept
<1>7. ASSUME NEW d \in Calls
      PROVE  CallLinks(d)'
  <2>1. CASE d = c
    BY <1>1, <1>3, <2>1 DEF CallLinks, Tab, Well, At
  <2>2. CASE d # c
    <3>1. calls'[d] = calls[d]
      BY <1>1, <2>2 DEF OnlyCall
    <3>2. calls[d].pc \in {"refreshing", "refreshed"} => slot'[Tab(d)] = slot[Tab(d)]
      <4>1. calls[d].pc \in {"refreshing", "refreshed"} => slot[Tab(d)] = d /\ Tab(d) \in Tabs
        BY DEF CallLinks
      <4>. QED
        BY <1>3, <4>1
    <3>. QED
      BY <1>1, <3>1, <3>2, CallKept
  <2>. QED
    BY <2>1, <2>2
<1>8. ASSUME Alone
      PROVE  AloneLinks'
  <2>1. AloneLinks /\ "refresh" \in Cookies
    BY <1>8 DEF Cookies
  <2>2. \A d \in Calls :
          /\ (Renewed(d)' <=> Renewed(d)) /\ (Pending(d)' <=> Pending(d)) /\ (Pending(d) => d # c)
          /\ At(d, "refreshing")' => d = c \/ At(d, "refreshing")
          /\ d # c => calls'[d] = calls[d]
    BY <1>1, <1>3 DEF Renewed, Pending, At, OnlyCall
  <2>3. CASE At(c, "refreshing")'
    <3>1. slot[Tab(c)] = Nothing /\ calls'[c].cred = Presented(mix.dep.via)
      BY <1>3, <2>3 DEF At
    <3>2. mix.tabs = 1 /\ Tab(c) = 1
      BY <1>1, <1>8 DEF Alone
    <3>3. \A d \in Calls : ~Renewed(d) /\ ~At(d, "refreshing")
      <4>1. ASSUME NEW d \in Calls, calls[d].pc \in {"refreshing", "refreshed"}
            PROVE  FALSE
        <5>1. Tab(d) = 1 /\ slot[1] = d
          BY <1>8, <4>1, OneRefresh
        <5>. QED
          BY <3>1, <3>2, <5>1
      <4>. QED
        BY <4>1 DEF Renewed, At
    <3>4. Sound(jar["refresh"])
      BY <2>1, <3>3 DEF AloneLinks
    <3>5. Presented(mix.dep.via)["refresh"] \in {jar["refresh"], Nothing}
      BY <2>1, PresentedType
    <3>6. \A d \in Calls : At(d, "refreshing")' => d = c /\ Sound(calls[d].cred["refresh"])'
      BY <1>1, <2>2, <3>1, <3>3, <3>4, <3>5 DEF Sound
    <3>7. Sound(jar["refresh"])'
      BY <1>1, <3>4 DEF Sound
    <3>8. \A d \in Calls : Pending(d)' =>
            /\ calls'[d].answer.number # Nothing /\ Sound(calls[d].answer.number)'
            /\ calls'[d].answer.number # jar'["refresh"]
            /\ calls'[d].answer.number # calls'[c].cred["refresh"]
      BY <1>1, <2>1, <2>2, <3>1, <3>5 DEF AloneLinks, Sound
    <3>9. \A d, e \in Calls : Pending(d)' /\ Pending(e)' /\ d # e =>
            calls'[d].answer.number # calls'[e].answer.number
      BY <2>1, <2>2 DEF AloneLinks
    <3>. QED
      BY <1>1, <1>2, <2>1, <3>6, <3>7, <3>8, <3>9 DEF AloneLinks
  <2>4. CASE ~At(c, "refreshing")'
    <3>1. \A d \in Calls : At(d, "refreshing")' => d # c /\ At(d, "refreshing")
      BY <2>2, <2>4
    <3>. QED
      BY <1>1, <1>2, <2>1, <2>2, <3>1 DEF AloneLinks, Sound
  <2>. QED
    BY <2>3, <2>4
<1>. QED
  BY <1>1, <1>4, <1>5, <1>6, <1>7, <1>8, Joined

LEMMA ServeRefreshKeeps ==
  ASSUME IInv, NEW c \in Calls, ServeRefresh(c), UNCHANGED navVars
  PROVE  IInv'
<1>. USE Parts, BaseType
<1>. DEFINE n == calls[c].cred["refresh"]
            a == calls'[c].answer
<1>1. /\ Well /\ OnlyCall(c) /\ view' = view /\ At(c, "refreshing")
      /\ jar' = jar /\ slot' = slot /\ ended' = ended
      /\ calls'[c] = [calls[c] EXCEPT !.pc = "refreshed", !.answer = a]
      /\ a.kind = "ok" => Issues(srv', a.number) /\ Spares(srv, srv', n) /\ n # Nothing
      /\ a.kind # "ok" => a.number = Nothing
      /\ Rejected(a) /\ Plain => ~Honoured(srv', n)
      /\ a.kind # "ok" /\ mix.faults \subseteq {"throttled"} /\ Sound(n) =>
           srv'.reused = srv.reused /\ Spares(srv, srv', Nothing)
  BY ServeRefreshOutline
<1>2. nav' = nav /\ navsMade' = navsMade
  BY DEF navVars
<1>3. /\ calls'[c].pc = "refreshed" /\ calls'[c].cred = calls[c].cred /\ calls'[c].op = calls[c].op
      /\ calls'[c].gen = calls[c].gen
      /\ calls'[c].turn = calls[c].turn /\ calls'[c].tab = calls[c].tab
  <2>1. calls[c] \in Call
    OBVIOUS
  <2>. QED
    BY <1>1, <2>1 DEF Call
<1>4. BaseInv'
  <2>1. Known(a.number)
    BY <1>1, Knew DEF Known, Issues
  <2>2. \A k \in Cookies : Known(calls'[c].cred[k])
    BY <1>3, Knew
  <2>. QED
    BY <1>1, <1>2, <2>1, <2>2, Knew, BaseStep DEF OnlyCall
<1>5. OverLinks'
  <2>1. SaidOver(c)' => ~Honoured(srv', calls'[c].cred["refresh"])
    BY <1>1, <1>3 DEF SaidOver, At, Plain, Well
  <2>2. \A d \in Calls : d # c => (SaidOver(d)' <=> SaidOver(d)) /\ calls'[d].cred = calls[d].cred
    BY <1>1 DEF SaidOver, At, OnlyCall, Plain, Well
  <2>. QED
    BY <1>1, <2>1, <2>2, OverStep
<1>6. \A t \in Tabs : ViewLinks(t)'
  BY <1>1, ViewsKept
<1>7. ASSUME NEW d \in Calls
      PROVE  CallLinks(d)'
  <2>1. CASE d = c
    BY <1>1, <1>3, <2>1 DEF CallLinks, Tab, Well, At
  <2>2. CASE d # c
    BY <1>1, <2>2, CallKept DEF OnlyCall
  <2>. QED
    BY <2>1, <2>2
<1>8. ASSUME Alone
      PROVE  AloneLinks'
  <2>1. AloneLinks /\ "refresh" \in Cookies /\ mix.faults \subseteq {"throttled"}
    BY <1>8 DEF Cookies, Alone
  <2>2. \A d \in Calls : d # c =>
          /\ (Renewed(d)' <=> Renewed(d)) /\ (Pending(d)' <=> Pending(d))
          /\ At(d, "refreshing")' <=> At(d, "refreshing")
          /\ calls'[d] = calls[d]
    BY <1>1 DEF Renewed, Pending, At, OnlyCall
  <2>3. \A d \in Calls : ~At(d, "refreshing")'
    <3>1. ASSUME NEW d \in Calls, At(d, "refreshing")
          PROVE  d = c
      BY <1>1, <1>8, <3>1, OneRefresh DEF At
    <3>. QED
      BY <1>3, <2>2, <3>1 DEF At
  <2>4. (Pending(c)' <=> a.kind = "ok") /\ (Renewed(c)' <=> a.kind = "ok")
    BY <1>3 DEF Pending, Renewed, At
  <2>5. ~Pending(c) /\ ~Renewed(c)
    BY <1>1 DEF Pending, Renewed, At
  <2>6. Sound(n) /\ n \in Numbers \cup {Nothing}
    BY <1>1, <2>1 DEF AloneLinks
  <2>7. \A d \in Calls : Pending(d) =>
          /\ calls[d].answer.number # n /\ calls[d].answer.number # Nothing
          /\ Sound(calls[d].answer.number)
    BY <1>1, <2>1 DEF AloneLinks
  <2>8. CASE a.kind = "ok"
    <3>1. srv'.reused = {} /\ Issues(srv', a.number)
      BY <1>1, <2>1, <2>8 DEF AloneLinks, Issues
    <3>2. a.number # Nothing /\ Sound(calls[c].answer.number)' /\ \A p : Born(p) => p # a.number
      BY <3>1, NewIsSound DEF Sound
    <3>3. \A p \in Numbers \cup {Nothing} : Sound(p) /\ p # n => Sound(p)'
      BY <1>1, <2>6, <2>8, SoundKept
    <3>4. \A d \in Calls : Pending(d)' =>
            /\ calls'[d].answer.number # Nothing /\ Sound(calls[d].answer.number)'
            /\ calls'[d].answer.number # jar'["refresh"]
      <4>1. ASSUME NEW d \in Calls, Pending(d), d # c
            PROVE  /\ calls'[d].answer.number # Nothing /\ Sound(calls[d].answer.number)'
                   /\ calls'[d].answer.number # jar'["refresh"]
        <5>1. Sound(calls[d].answer.number) /\ calls[d].answer.number # n
              /\ calls[d].answer.number \in Numbers \cup {Nothing}
              /\ calls[d].answer.number # Nothing /\ calls[d].answer.number # jar["refresh"]
          BY <2>1, <2>7, <4>1 DEF AloneLinks
        <5>. QED
          BY <1>1, <2>2, <3>3, <4>1, <5>1 DEF Sound
      <4>. QED
        BY <1>1, <2>1, <2>2, <3>2, <4>1
    <3>5. \A d, e \in Calls : Pending(d)' /\ Pending(e)' /\ d # e =>
            calls'[d].answer.number # calls'[e].answer.number
      BY <2>1, <2>2, <3>2 DEF AloneLinks
    <3>6. (\E d \in Calls : Renewed(d))'
      BY <2>4, <2>8
    <3>. QED
      BY <1>2, <2>1, <2>3, <3>1, <3>4, <3>5, <3>6 DEF AloneLinks
  <2>9. CASE a.kind # "ok"
    <3>1. srv'.reused = {} /\ Spares(srv, srv', Nothing)
      BY <1>1, <2>1, <2>6, <2>9 DEF AloneLinks
    <3>2. \A p \in Numbers \cup {Nothing} : Sound(p) => Sound(p)'
      BY <3>1, SoundKept
    <3>3. \A d \in Calls : (Pending(d)' => Pending(d) /\ d # c) /\ (Renewed(d) => Renewed(d)')
      BY <2>2, <2>4, <2>5, <2>9
    <3>4. \A d \in Calls : Pending(d)' =>
            /\ calls'[d].answer.number # Nothing /\ Sound(calls[d].answer.number)'
            /\ calls'[d].answer.number # jar'["refresh"]
      BY <1>1, <2>1, <2>2, <3>2, <3>3 DEF AloneLinks, Sound
    <3>5. \A d, e \in Calls : Pending(d)' /\ Pending(e)' /\ d # e =>
            calls'[d].answer.number # calls'[e].answer.number
      BY <2>1, <2>2, <3>3 DEF AloneLinks
    <3>6. Sound(jar["refresh"])' \/ (\E d \in Calls : Renewed(d))'
      BY <1>1, <2>1, <3>2, <3>3 DEF AloneLinks, Sound
    <3>. QED
      BY <1>2, <2>1, <2>3, <3>1, <3>4, <3>5, <3>6 DEF AloneLinks
  <2>. QED
    BY <2>8, <2>9
<1>. QED
  BY <1>1, <1>4, <1>5, <1>6, <1>7, <1>8, Joined

LEMMA SettlesKeeps ==
  ASSUME IInv, NEW c \in Calls, RefreshSettles(c), UNCHANGED navVars
  PROVE  IInv'
<1>. USE Parts, BaseType
<1>. DEFINE a == calls[c].answer
            ok == a.kind = "ok"
<1>1. /\ Well /\ view' = view /\ srv' = srv /\ At(c, "refreshed") /\ slot[Tab(c)] = c
      /\ Tab(c) \in 1..mix.tabs
      /\ slot' = [slot EXCEPT ![Tab(c)] = Nothing]
      /\ \A d \in Calls \ Party(c) : calls'[d] = calls[d]
      /\ \A d \in Party(c) :
           /\ d = c \/ At(d, "waiting")
           /\ calls'[d] = [calls[d] EXCEPT !.retried = TRUE, !.cred = Empty,
                             !.pc = IF ok THEN "ready" ELSE "answered",
                             !.answer = IF ok THEN Says("ok") ELSE Says("refused")]
      /\ IF ok THEN \A k \in Cookies : jar'[k] = a.number ELSE jar' = jar
      /\ \A told \in ended' : \/ told \in ended
                              \/ told.by = "fetch" /\ (Plain => SaidOver(c))
                                 /\ told.cred = calls[c].cred["refresh"]
  BY SettlesOutline
<1>2. nav' = nav /\ navsMade' = navsMade /\ c \in Party(c)
  BY DEF navVars, Party
<1>3. ASSUME NEW d \in Calls, d \in Party(c)
      PROVE  /\ calls'[d].pc \in {"ready", "answered"} /\ calls'[d].cred = Empty
             /\ calls'[d].answer \in {Says("ok"), Says("refused")} /\ calls'[d].op = calls[d].op
             /\ calls'[d].gen = calls[d].gen /\ calls'[d].turn = calls[d].turn
             /\ calls'[d].tab = calls[d].tab /\ calls[d].pc \in {"refreshed", "waiting"}
  <2>1. calls[d] \in Call
    OBVIOUS
  <2>. HIDE DEF ok
  <2>2. calls[d].pc \in {"refreshed", "waiting"}
    BY <1>1, <1>3 DEF At
  <2>3. calls'[d] = [calls[d] EXCEPT !.retried = TRUE, !.cred = Empty,
                             !.pc = IF ok THEN "ready" ELSE "answered",
                             !.answer = IF ok THEN Says("ok") ELSE Says("refused")]
    BY <1>1, <1>3
  <2>. QED
    BY <2>1, <2>2, <2>3 DEF Call
<1>4. \A d \in Calls : d \notin Party(c) => calls'[d] = calls[d]
  BY <1>1
<1>5. ASSUME NEW d \in Calls, d \in Party(c)
      PROVE  calls[d].op = "me" /\ ~SaidOver(d)' /\ ~Pending(d)' /\ ~Renewed(d)' /\ ~At(d, "refreshing")'
  <2>1. calls[d].op = "me"
    BY <1>3, <1>5 DEF CallLinks
  <2>. QED
    BY <1>3, <1>5, <2>1 DEF SaidOver, Pending, Renewed, At
<1>6. BaseInv'
  <2>1. ASSUME NEW d \in Calls
        PROVE  Known(calls'[d].answer.number) /\ \A k \in Cookies : Known(calls'[d].cred[k])
    <3>1. CASE d \in Party(c)
      <4>1. calls'[d].answer.number = Nothing /\ calls'[d].cred = Empty
        BY <1>3, <3>1, SaysType
      <4>. QED
        BY <4>1, Knew DEF Empty
    <3>2. CASE d \notin Party(c)
      BY <1>4, <3>2, Knew
    <3>. QED
      BY <3>1, <3>2
  <2>2. \A k \in Cookies : Known(jar'[k])
    BY <1>1, Knew
  <2>3. \A told \in ended' : Known(told.cred)
    BY <1>1, Knew DEF Cookies
  <2>. QED
    BY <1>1, <1>2, <2>1, <2>2, <2>3, Knew, BaseStep
<1>7. OverLinks'
  <2>1. \A d \in Calls : SaidOver(d)' => SaidOver(d) /\ calls'[d].cred = calls[d].cred
    <3>1. ASSUME NEW d \in Calls, d \notin Party(c)
          PROVE  (SaidOver(d)' <=> SaidOver(d)) /\ calls'[d].cred = calls[d].cred
      <4>1. calls'[d] = calls[d]
        BY <1>4, <3>1
      <4>. QED
        BY <1>1, <4>1 DEF SaidOver, At, Plain, Well
    <3>. QED
      BY <1>5, <3>1
  <2>2. \A told \in ended' :
           \/ told \in ended
           \/ /\ told.cred = calls[c].cred["refresh"]
              /\ told.by = "logout" \/ Plain => SaidOver(c)
    BY <1>1
  <2>. QED
    BY <1>1, <2>1, <2>2, OverStep
<1>8. \A t \in Tabs : ViewLinks(t)'
  BY <1>1, ViewsKept
<1>9. ASSUME NEW d \in Calls
      PROVE  CallLinks(d)'
  <2>1. CASE d \in Party(c)
    <3>1. Tab(d) \in 1..mix.tabs /\ calls[d].gen = calls[d].turn
      BY <1>3, <2>1 DEF CallLinks
    <3>. QED
      BY <1>1, <1>3, <2>1, <3>1 DEF CallLinks, Tab, Well
  <2>2. CASE d \notin Party(c)
    <3>1. calls'[d] = calls[d] /\ d # c
      BY <1>2, <1>4, <2>2
    <3>2. calls[d].pc \in {"refreshing", "refreshed"} => slot'[Tab(d)] = slot[Tab(d)]
      <4>1. calls[d].pc \in {"refreshing", "refreshed"} => slot[Tab(d)] = d /\ Tab(d) \in Tabs
        BY DEF CallLinks
      <4>. QED
        BY <1>1, <3>1, <4>1
    <3>. QED
      BY <1>1, <3>1, <3>2, CallKept
  <2>. QED
    BY <2>1, <2>2
<1>10. ASSUME Alone
       PROVE  AloneLinks'
  <2>1. AloneLinks /\ "refresh" \in Cookies
    BY <1>10 DEF Cookies
  <2>2. \A d \in Calls :
          /\ Renewed(d)' => Renewed(d) /\ d \notin Party(c)
          /\ Pending(d)' => Pending(d) /\ d \notin Party(c)
          /\ At(d, "refreshing")' => At(d, "refreshing") /\ d \notin Party(c)
    <3>1. ASSUME NEW d \in Calls, d \notin Party(c)
          PROVE  /\ Renewed(d)' <=> Renewed(d)
                 /\ Pending(d)' <=> Pending(d)
                 /\ At(d, "refreshing")' <=> At(d, "refreshing")
      <4>1. calls'[d] = calls[d]
        BY <1>4, <3>1
      <4>. QED
        BY <4>1 DEF Renewed, Pending, At
    <3>. QED
      BY <1>5, <3>1
  <2>3. \A d \in Calls : ~At(d, "refreshing")'
    <3>1. ASSUME NEW d \in Calls, At(d, "refreshing")
          PROVE  d = c
      BY <1>1, <1>10, <3>1, OneRefresh DEF At
    <3>. QED
      BY <1>2, <2>2, <3>1
  <2>4. \A d \in Calls : Renewed(d) => d = c
    <3>1. ASSUME NEW d \in Calls, Renewed(d)
          PROVE  d = c
      BY <1>1, <1>10, <3>1, OneRefresh DEF At, Renewed
    <3>. QED
      BY <3>1
  <2>5. Sound(jar["refresh"])'
    <3>1. CASE ok
      <4>1. Pending(c) /\ jar'["refresh"] = a.number
        BY <1>1, <2>1, <3>1 DEF Pending, Renewed
      <4>2. Sound(a.number)
        BY <2>1, <4>1 DEF AloneLinks
      <4>. QED
        BY <1>1, <4>1, <4>2 DEF Sound
    <3>2. CASE ~ok
      <4>1. \A d \in Calls : ~Renewed(d)
        BY <2>4, <3>2 DEF Renewed
      <4>2. Sound(jar["refresh"]) /\ jar' = jar
        BY <1>1, <2>1, <3>2, <4>1 DEF AloneLinks
      <4>. QED
        BY <1>1, <4>2 DEF Sound
    <3>. QED
      BY <3>1, <3>2
  <2>6. \A d \in Calls : Pending(d)' =>
          /\ calls'[d].answer.number # Nothing /\ Sound(calls[d].answer.number)'
          /\ calls'[d].answer.number # jar'["refresh"]
    <3>. SUFFICES ASSUME NEW d \in Calls, Pending(d), d \notin Party(c)
                  PROVE  /\ calls'[d].answer.number # Nothing /\ Sound(calls[d].answer.number)'
                         /\ calls'[d].answer.number # jar'["refresh"]
      BY <2>2
    <3>1. /\ calls'[d] = calls[d] /\ d # c /\ calls[d].answer.number # Nothing
          /\ Sound(calls[d].answer.number) /\ calls[d].answer.number # jar["refresh"]
      BY <1>2, <1>4, <2>1 DEF AloneLinks
    <3>2. CASE ok
      <4>1. Pending(c) /\ jar'["refresh"] = a.number
        BY <1>1, <2>1, <3>2 DEF Pending, Renewed
      <4>2. calls[d].answer.number # a.number
        BY <2>1, <3>1, <4>1 DEF AloneLinks
      <4>. QED
        BY <1>1, <3>1, <4>1, <4>2 DEF Sound
    <3>3. CASE ~ok
      BY <1>1, <3>1, <3>3 DEF Sound
    <3>. QED
      BY <3>2, <3>3
  <2>7. \A d, e \in Calls : Pending(d)' /\ Pending(e)' /\ d # e =>
          calls'[d].answer.number # calls'[e].answer.number
    BY <1>4, <2>1, <2>2 DEF AloneLinks
  <2>. QED
    BY <1>1, <1>2, <2>1, <2>3, <2>5, <2>6, <2>7 DEF AloneLinks
<1>. QED
  BY <1>1, <1>6, <1>7, <1>8, <1>9, <1>10, Joined

(* Steps that leave the tabs and their calls alone.                         *)
LEMMA AsideKeeps ==
  ASSUME IInv, Well, UNCHANGED clientVars, \A k \in Cookies : Known(jar'[k]),
         Known(nav'.cred), Known(nav'.answer.number), Alone => AloneLinks'
  PROVE  IInv'
<1>. USE Parts
<1>1. view' = view /\ slot' = slot /\ calls' = calls /\ ended' = ended
  BY DEF clientVars
<1>2. BaseInv'
  BY <1>1, Knew, BaseStep
<1>3. OverLinks'
  <2>1. \A c \in Calls : SaidOver(c)' => SaidOver(c) /\ calls'[c].cred = calls[c].cred
    BY <1>1 DEF SaidOver, At, Plain, Well
  <2>. QED
    BY <1>1, <2>1, OverStep
<1>4. \A t \in Tabs : ViewLinks(t)'
  BY <1>1, ViewsKept
<1>5. \A c \in Calls : CallLinks(c)'
  BY <1>1, CallKept
<1>. QED
  BY <1>2, <1>3, <1>4, <1>5, Joined

LEMMA NavKeeps ==
  ASSUME IInv, NavigationStep
  PROVE  IInv'
<1>. USE Parts, BaseType
<1>1. /\ Well /\ UNCHANGED clientVars
      /\ StartNav \/ NavStep
      /\ StartNav => navsMade < mix.navs
      /\ NavStep => nav.pc # "idle"
      /\ \/ \A k \in Cookies : jar'[k] = nav.answer.number
         \/ \A k \in Cookies : jar'[k] \in {jar[k], Nothing}
      /\ nav'.cred \in {Nothing, nav.cred, Presented("next")["refresh"]}
      /\ \/ nav'.answer.number \in {Nothing, nav.answer.number}
         \/ Issues(srv', nav'.answer.number)
  <2>1. (StartNav \/ NavStep) /\ UNCHANGED clientVars
    BY DEF NavigationStep
  <2>. QED
    BY <2>1, NavOutline
<1>2. \A k \in Cookies : Known(jar'[k])
  BY <1>1, Knew
<1>3. Known(nav'.cred)
  BY <1>1, Knew DEF Cookies
<1>4. Known(nav'.answer.number)
  BY <1>1, Knew DEF Known, Issues
<1>5. ~Alone
  <2>. SUFFICES ASSUME Alone
                PROVE  FALSE
    OBVIOUS
  <2>1. mix.navs = 0 /\ nav.pc = "idle" /\ navsMade \in Nat
    BY DEF Alone, AloneLinks
  <2>. QED
    BY <1>1, <2>1
<1>. QED
  BY <1>1, <1>2, <1>3, <1>4, <1>5, AsideKeeps

LEMMA ServerKeeps ==
  ASSUME IInv, ServerStep
  PROVE  IInv'
<1>. USE Parts, BaseType
<1>1. /\ Well /\ jar' = jar /\ UNCHANGED clientVars /\ UNCHANGED navVars
      /\ srv'.reused = srv.reused /\ Spares(srv, srv', Nothing)
  BY ServerOutline
<1>2. nav' = nav
  BY <1>1 DEF navVars
<1>3. ASSUME Alone
      PROVE  AloneLinks'
  <2>1. AloneLinks /\ "refresh" \in Cookies /\ calls' = calls
    BY <1>1, <1>3 DEF Cookies, clientVars
  <2>2. \A n \in Numbers \cup {Nothing} : Sound(n) => Sound(n)'
    BY <1>1, SoundKept
  <2>3. \A c \in Calls :
          /\ Renewed(c)' <=> Renewed(c)
          /\ Pending(c)' <=> Pending(c)
          /\ At(c, "refreshing")' <=> At(c, "refreshing")
    BY <2>1 DEF Renewed, Pending, At
  <2>4. Sound(jar["refresh"]) => Sound(jar["refresh"])'
    BY <1>1, <2>1, <2>2 DEF Sound
  <2>5. ASSUME NEW c \in Calls
        PROVE  /\ Sound(calls[c].cred["refresh"]) => Sound(calls[c].cred["refresh"])'
               /\ Sound(calls[c].answer.number) => Sound(calls[c].answer.number)'
    BY <2>1, <2>2 DEF Sound
  <2>. QED
    BY <1>1, <1>2, <2>1, <2>3, <2>4, <2>5 DEF AloneLinks
<1>. QED
  BY <1>1, <1>2, <1>3, Knew, AsideKeeps

LEMMA StutterKeeps ==
  ASSUME IInv, UNCHANGED vars
  PROVE  IInv'
<1>1. UNCHANGED <<mix, srv, jar, due, view, slot, calls, ended, nav, navsMade>>
  BY DEF vars, sharedVars, clientVars, navVars
<1>2. Well
  BY <1>1, Parts, BaseType, SameFollows DEF Well, BaseInv, TypeOK, SharedTypeOK, ClientTypeOK, NavTypeOK
<1>3. Alone => AloneLinks'
  BY <1>1, Parts DEF AloneLinks, Sound, Renewed, Pending, At
<1>. QED
  BY <1>1, <1>2, <1>3, Parts, Knew, AsideKeeps DEF clientVars

LEMMA InitIInv == Init => IInv
<1>. SUFFICES ASSUME Init
              PROVE  IInv
  OBVIOUS
<1>. USE NumberType, SaysType
<1>1. /\ mix \in Mix /\ due = mix.events /\ Validated(mix.dep) /\ jar = [k \in Cookies |-> 1]
      /\ srv = [state |-> [n \in Numbers |-> IF n = 1 THEN "live" ELSE "unborn"],
                line |-> [n \in Numbers |-> IF n = 1 THEN 1 ELSE Nothing],
                to |-> [n \in Numbers |-> Nothing],
                fresh |-> {1}, good |-> {1}, reused |-> {}, blocked |-> FALSE]
      /\ slot = [t \in Tabs |-> Nothing] /\ calls = [c \in Calls |-> Unmade] /\ ended = {}
      /\ nav = Unvisited /\ navsMade = 0
  BY BrowserAssumption DEF Init, SharedInit, ClientInit, NavInit
<1>2. /\ srv \in Server /\ srv.state[1] = "live" /\ srv.to = [n \in Numbers |-> Nothing]
      /\ srv.state = [n \in Numbers |-> IF n = 1 THEN "live" ELSE "unborn"]
      /\ srv.line = [n \in Numbers |-> IF n = 1 THEN 1 ELSE Nothing] /\ srv.reused = {}
  BY <1>1 DEF Server
<1>3. SrvLinks(srv)
  BY <1>2 DEF SrvLinks
<1>4. SharedTypeOK
  <2>1. mix.events \in [Events -> Nat]
    BY <1>1 DEF Mix
  <2>. QED
    BY <1>1, <1>2, <2>1 DEF SharedTypeOK, Jar
<1>5. PICK mounted \in BOOLEAN :
        view = [t \in Tabs |-> [status |-> IF mounted THEN "in" ELSE "loading",
                                line |-> IF mounted THEN 1 ELSE Nothing,
                                mounted |-> mounted, gen |-> 0, turns |-> 0, asOf |-> 0]]
  BY DEF Init, ClientInit
<1>6. view \in [Tabs -> View] /\ \A t \in Tabs : ViewLinks(t)
  BY <1>5 DEF View, ViewLinks
<1>7. Unmade \in Call /\ Unmade.pc = "unborn" /\ Unmade.cred = Empty /\ Unmade.answer = Says("ok")
      /\ Unmade.gen = Unmade.turn
  BY DEF Unmade, Call, Empty, Jar
<1>8. ClientTypeOK
  BY <1>1, <1>6, <1>7 DEF ClientTypeOK
<1>9. nav \in Nav /\ nav.cred = Nothing /\ nav.answer = Says("ok") /\ nav.pc = "idle"
  <2>1. 0 \in 0..MaxAttempts /\ Says("ok") \in Answer
    BY BrowserAssumption
  <2>. QED
    BY <1>1, <2>1 DEF Unvisited, Nav, Paths
<1>10. NavTypeOK
  BY <1>1, <1>9 DEF NavTypeOK
<1>11. BornLinks
  BY <1>1, <1>2, <1>7, <1>9 DEF BornLinks, Born, Empty
<1>12. BaseInv
  BY <1>1, <1>3, <1>4, <1>8, <1>10, <1>11 DEF BaseInv, TypeOK
<1>13. \A c \in Calls : CallLinks(c) /\ ~SaidOver(c) /\ ~Renewed(c) /\ ~Pending(c) /\ ~At(c, "refreshing")
  BY <1>1, <1>7 DEF CallLinks, SaidOver, Renewed, Pending, At
<1>14. OverLinks
  BY <1>1, <1>13 DEF OverLinks
<1>15. AloneLinks
  BY <1>1, <1>2, <1>9, <1>13 DEF AloneLinks, Sound, Cookies
<1>. QED
  BY <1>6, <1>12, <1>13, <1>14, <1>15 DEF IInv

LEMMA NextIInv == IInv /\ [Next]_vars => IInv'
<1>. SUFFICES ASSUME IInv, [Next]_vars
              PROVE  IInv'
  OBVIOUS
<1>1. CASE ClientStep
  <2>1. PICK c \in Calls : \/ Begin(c) \/ Send(c) \/ Serve(c) \/ Receive(c)
                           \/ Intercept(c) \/ ServeRefresh(c) \/ RefreshSettles(c)
    BY <1>1 DEF ClientStep
  <2>2. UNCHANGED navVars
    BY <1>1 DEF ClientStep
  <2>. QED
    BY <2>1, <2>2, BeginKeeps, SendKeeps, ServeKeeps, ReceiveKeeps, InterceptKeeps,
       ServeRefreshKeeps, SettlesKeeps
<1>2. CASE NavigationStep
  BY <1>2, NavKeeps
<1>3. CASE ServerStep
  BY <1>3, ServerKeeps
<1>4. CASE UNCHANGED vars
  BY <1>4, StutterKeeps
<1>. QED
  BY <1>1, <1>2, <1>3, <1>4 DEF Next

LEMMA Invariance == Spec => []IInv
<1>. QED
  BY InitIInv, NextIInv, PTL DEF Spec

-----------------------------------------------------------------------------
(* The theorems *)

(* The state of the browser, the server and the page loads is well-typed    *)
(* throughout.                                                              *)
THEOREM TypeCorrect == Spec => []TypeOK
<1>1. IInv => TypeOK
  BY DEF IInv, BaseInv
<1>. QED
  BY <1>1, Invariance, PTL

(* No answer that was on its way at a sign-in, a second-factor gate or a    *)
(* sign-out overwrites what the tab shows since: the generation in          *)
(* AuthProvider, for every number of tabs and calls and every order of      *)
(* their answers.                                                           *)
THEOREM TransitionsPrevail == Spec => []NotOverwritten
<1>1. IInv => NotOverwritten
  BY DEF IInv, ViewLinks, NotOverwritten
<1>. QED
  BY <1>1, Invariance, PTL

(* A tab is told its session is over only when the number it presented      *)
(* yields none any more, and a tab that works alone never has its own       *)
(* refreshes taken for reuse: performRefresh's classification, the shared   *)
(* refresh slot and the provider's final answers.                           *)
THEOREM ToldTheTruth == Spec => []EndedForReal
<1>1. IInv => EndedForReal
  BY DEF IInv, OverLinks, AloneLinks, EndedForReal, Plain
<1>. QED
  BY <1>1, Invariance, PTL

(* Only its receipt completes a call that was answered. *)
LEMMA Completion ==
  ASSUME IInv, [Next]_vars, NEW c \in Calls, At(c, "answered"), calls'[c].pc = "done"
  PROVE  Receive(c)
<1>. USE Parts, BaseType DEF At
<1>1. calls'[c] # calls[c]
  OBVIOUS
<1>2. ~(calls' = calls)
  BY <1>1
<1>3. ~NavigationStep /\ ~ServerStep /\ ~UNCHANGED vars
  BY <1>2 DEF NavigationStep, ServerStep, clientVars, vars
<1>4. ClientStep
  BY <1>3 DEF Next
<1>5. PICK d \in Calls : \/ Begin(d) \/ Send(d) \/ Serve(d) \/ Receive(d)
                         \/ Intercept(d) \/ ServeRefresh(d) \/ RefreshSettles(d)
  BY <1>4 DEF ClientStep
<1>6. UNCHANGED navVars
  BY <1>4 DEF ClientStep
<1>7. ASSUME OnlyCall(d)
      PROVE  d = c
  BY <1>1, <1>7 DEF OnlyCall
<1>8. CASE Receive(d)
  BY <1>6, <1>7, <1>8, ReceiveOutline
<1>9. CASE Begin(d)
  BY <1>6, <1>7, <1>9, BeginOutline
<1>10. CASE Send(d)
  BY <1>6, <1>7, <1>10, SendOutline
<1>11. CASE Serve(d)
  BY <1>6, <1>7, <1>11, ServeOutline
<1>12. CASE Intercept(d)
  <2>1. /\ OnlyCall(d)
        /\ \/ calls'[d] = [calls[d] EXCEPT !.pc = "waiting"]
           \/ calls'[d] = [calls[d] EXCEPT !.pc = "refreshing", !.cred = Presented(mix.dep.via)]
    BY <1>6, <1>12, InterceptOutline
  <2>2. d = c /\ calls[c] \in Call
    BY <1>7, <2>1
  <2>. QED
    BY <2>1, <2>2 DEF Call
<1>13. CASE ServeRefresh(d)
  BY <1>6, <1>7, <1>13, ServeRefreshOutline
<1>14. CASE RefreshSettles(d)
  <2>1. /\ At(d, "refreshed")
        /\ \A e \in Calls \ Party(d) : calls'[e] = calls[e]
        /\ \A e \in Party(d) : e = d \/ At(e, "waiting")
    BY <1>6, <1>14, SettlesOutline
  <2>2. c \in Party(d)
    BY <1>1, <2>1
  <2>. QED
    BY <2>1, <2>2
<1>. QED
  BY <1>5, <1>8, <1>9, <1>10, <1>11, <1>12, <1>13, <1>14

(* A completed sign-in leaves its three cookies in the jar under every      *)
(* deployment the options admit, and a completed sign-out through Next.js   *)
(* handlers that were told the API's path and domain leaves none.           *)
THEOREM CookiesPlantedAndCleared == Spec => CookiesFollow
<1>. DEFINE Follow(c) ==
       /\ Completes(c, "login") => jar' = [k \in Cookies |-> calls[c].answer.number]
       /\ Completes(c, "logout") /\ mix.dep.via = "next" /\ HandlersAgree(mix.dep)
            => jar' = Empty
<1>1. ASSUME IInv, [Next]_vars, NEW c \in Calls
      PROVE  Follow(c)
  <2>1. Validated(mix.dep)
    BY <1>1 DEF IInv, BaseInv
  <2>2. CASE Completes(c, "login")
    <3>1. Receive(c)
      BY <1>1, <2>2, Completion DEF Completes
    <3>2. jar' = Planting(calls[c].answer.number)
      BY <2>2, <3>1 DEF Receive, Completes
    <3>. QED
      BY <2>1, <2>2, <3>2, Plants DEF Completes
  <2>3. CASE Completes(c, "logout")
    <3>1. Receive(c)
      BY <1>1, <2>3, Completion DEF Completes
    <3>2. jar' = Clearing(mix.dep.via)
      BY <2>3, <3>1 DEF Receive, Completes
    <3>. QED
      BY <2>1, <2>3, <3>2, Clears DEF Completes
  <2>. QED
    BY <2>2, <2>3
<1>2. IInv /\ [Next]_vars => [\A c \in Calls : Follow(c)]_vars
  BY <1>1
<1>3. [][\A c \in Calls : Follow(c)]_vars => CookiesFollow
  BY DEF CookiesFollow
<1>. QED
  BY <1>2, <1>3, Invariance, PTL DEF Spec
=============================================================================
