---------------------------- MODULE Accounts_proofs ----------------------------
(***************************************************************************)
(* The safety of Accounts for every set of accounts, addresses, passwords  *)
(* and handlers, every limit and lifetime, and whichever requests arrive,  *)
(* keys expire and calls fail.  Each part of IInv is kept by every kind of *)
(* step AccountSteps_proofs distinguishes, and gives the property it was   *)
(* made for.                                                               *)
(***************************************************************************)
EXTENDS AccountSteps_proofs, FiniteSetTheorems

-----------------------------------------------------------------------------
(* Wrong passwords *)

(* Two sets of handlers that differ in h at most. *)
LEMMA OneApart ==
  ASSUME NEW h \in Handlers, NEW S \in SUBSET Handlers, NEW T \in SUBSET Handlers, S \ {h} = T \ {h}
  PROVE  /\ Cardinality(S) \in Nat /\ Cardinality(T) \in Nat /\ Cardinality(Handlers) \in Nat
         /\ Cardinality(T) <= Cardinality(Handlers)
         /\ (h \in S <=> h \in T) => Cardinality(T) = Cardinality(S)
         /\ h \notin S /\ h \in T => Cardinality(T) = Cardinality(S) + 1
         /\ h \in S /\ h \notin T => Cardinality(T) = Cardinality(S) - 1
<1>1. IsFiniteSet(S) /\ IsFiniteSet(T) /\ IsFiniteSet(Handlers)
  BY AccountAssumption, FS_Subset
<1>2. Cardinality(S) \in Nat /\ Cardinality(T) \in Nat /\ Cardinality(Handlers) \in Nat
  BY <1>1, FS_CardinalityType
<1>3. Cardinality(T) <= Cardinality(Handlers)
  BY <1>1, AccountAssumption, FS_Subset
<1>4. ASSUME h \in S <=> h \in T PROVE T = S
  BY <1>4
<1>5. ASSUME h \notin S, h \in T PROVE Cardinality(T) = Cardinality(S) + 1
  <2>1. T = S \cup {h}
    BY <1>5
  <2>. QED
    BY <1>1, <1>5, <2>1, FS_AddElement
<1>6. ASSUME h \in S, h \notin T PROVE Cardinality(T) = Cardinality(S) - 1
  <2>1. T = S \ {h}
    BY <1>6
  <2>. QED
    BY <1>1, <1>6, <2>1, FS_RemoveElement
<1>. QED
  BY <1>2, <1>3, <1>4, <1>5, <1>6

(* What the invariant says of one counter, by its numbers. *)
Held(guesses, failures, mistaken, guessing) ==
  /\ guesses <= failures + mistaken
  /\ failures + guessing <= MaxAttempts - 1 + Cardinality(Handlers)

LEMMA CounterTypes ==
  ASSUME TypeInv, NEW c \in Counters
  PROVE  /\ redis.failures[c] \in Nat /\ seen.guesses[c] \in Nat /\ MaxAttempts \in Nat /\ MaxAttempts > 0
         /\ redis.failures \in [Counters -> Nat] /\ seen.guesses \in [Counters -> Nat]
BY Typed, RedisFields, SeenFields, AccountAssumption

(* The counter of a handler that goes on guessing is the one it came with. *)
LEMMA CounterKept ==
  ASSUME TypeInv, NEW h \in Handlers, Advances(h), req'[h].pc \in {"find", "fail"}
  PROVE  /\ req[h].pc \in {"lockout", "find"} /\ req'[h].flow = req[h].flow /\ req'[h].email = req[h].email
         /\ req[h].flow # "login" => req'[h].user = req[h].user
<1>1. Follows(req'[h], req[h]) /\ req'[h] # Idle
  BY DEF Advances, Idle
<1>2. req[h].pc \in {"lockout", "find"}
  BY <1>1 DEF Follows, Leads
<1>3. req[h].pc = "find" => req[h].flow = "login"
  BY OldLinks DEF FlowLinks, OnPath
<1>. QED
  BY <1>1, <1>2, <1>3 DEF Follows

LEMMA GuessStep ==
  ASSUME TypeInv, GuessInv, NEW h \in Handlers, Step(h), NEW c \in Counters
  PROVE  Held(seen'.guesses[c], redis'.failures[c], Cardinality(Mistaken(c)'), Cardinality(Guessing(c)'))
<1>. DEFINE S == Guessing(c)
            T == {g \in Handlers : req'[g].pc \in {"find", "fail"} /\ Counter(g)' = c}
            M == Mistaken(c)
            N == {g \in Handlers : req'[g].pc = "fail" /\ Counter(g)' = c}
<1>1. Advances(h) /\ Moved(h) /\ StoreFrame(req[h].pc)
  BY StepFrames DEF StepFrame, Advances
<1>2. \A g \in Handlers : g # h => req'[g] = req[g] /\ Counter(g)' = Counter(g)
  BY <1>1 DEF Moved, Counter
<1>3. S \ {h} = T \ {h} /\ M \ {h} = N \ {h}
  BY <1>2 DEF Guessing, Mistaken, At
<1>4. S \in SUBSET Handlers /\ T \in SUBSET Handlers /\ M \in SUBSET Handlers /\ N \in SUBSET Handlers
  BY DEF Guessing, Mistaken
<1>5. /\ h \in S <=> req[h].pc \in {"find", "fail"} /\ Counter(h) = c
      /\ h \in M <=> req[h].pc = "fail" /\ Counter(h) = c
      /\ h \in T <=> req'[h].pc \in {"find", "fail"} /\ Counter(h) = c
      /\ h \in N <=> req'[h].pc = "fail" /\ Counter(h) = c
  <2>1. req'[h].pc \in {"find", "fail"} => Counter(h)' = Counter(h)
    BY <1>1, CounterKept DEF Counter
  <2>. QED
    BY <2>1 DEF Guessing, Mistaken, At
<1>6. Mistaken(c)' = N /\ Guessing(c)' = T
  BY DEF Guessing, Mistaken, At
<1>7. Held(seen.guesses[c], redis.failures[c], Cardinality(M), Cardinality(S))
  BY DEF GuessInv, Held
<1>. HIDE DEF S, T, M, N
<1>8. /\ Cardinality(S) \in Nat /\ Cardinality(T) \in Nat /\ Cardinality(Handlers) \in Nat
      /\ Cardinality(T) <= Cardinality(Handlers)
      /\ (h \in S <=> h \in T) => Cardinality(T) = Cardinality(S)
      /\ h \notin S /\ h \in T => Cardinality(T) = Cardinality(S) + 1
      /\ h \in S /\ h \notin T => Cardinality(T) = Cardinality(S) - 1
  BY <1>3, <1>4, OneApart
<1>9. /\ Cardinality(M) \in Nat /\ Cardinality(N) \in Nat
      /\ (h \in M <=> h \in N) => Cardinality(N) = Cardinality(M)
      /\ h \notin M /\ h \in N => Cardinality(N) = Cardinality(M) + 1
      /\ h \in M /\ h \notin N => Cardinality(N) = Cardinality(M) - 1
  BY <1>3, <1>4, OneApart
<1>10. SUFFICES Held(seen'.guesses[c], redis'.failures[c], Cardinality(N), Cardinality(T))
  BY <1>6
<1>11. /\ redis.failures[c] \in Nat /\ seen.guesses[c] \in Nat /\ MaxAttempts \in Nat /\ MaxAttempts > 0
       /\ redis.failures \in [Counters -> Nat] /\ seen.guesses \in [Counters -> Nat]
  BY CounterTypes
<1>12. CASE At(h, "lockout")
  <2>1. redis'.failures = redis.failures /\ Counter(h) \in Counters
    BY <1>1, <1>12, CounterType DEF StoreFrame, At
  <2>2. /\ req'[h].pc \in {"find", "fail"} => redis.failures[Counter(h)] < MaxAttempts
        /\ \/ req'[h].pc # "fail" /\ seen'.guesses = seen.guesses
           \/ /\ req'[h].pc = "fail"
              /\ seen'.guesses = [seen.guesses EXCEPT ![Counter(h)] = seen.guesses[Counter(h)] + 1]
    <3>1. Lockout(h)
      BY <1>12, StepPlace
    <3>2. /\ req'[h].pc \in {"find", "fail"} => ~LockedOut(Counter(h))
          /\ \/ req'[h].pc # "fail" /\ seen' = seen
             \/ /\ req'[h].pc = "fail"
                /\ seen'.guesses = [seen.guesses EXCEPT ![Counter(h)] = seen.guesses[Counter(h)] + 1]
      BY <3>1, LockoutEffect
    <3>3. redis.failures[Counter(h)] \in Nat
      BY <2>1, CounterTypes
    <3>4. ~LockedOut(Counter(h)) => redis.failures[Counter(h)] < MaxAttempts
      BY <1>11, <3>3 DEF LockedOut
    <3>5. seen' = seen => seen'.guesses = seen.guesses
      OBVIOUS
    <3>. QED
      BY <3>2, <3>4, <3>5
  <2>3. seen'.guesses[c] = IF req'[h].pc = "fail" /\ Counter(h) = c THEN seen.guesses[c] + 1 ELSE seen.guesses[c]
    BY <1>11, <2>1, <2>2
  <2>4. h \notin S /\ h \notin M
    BY <1>5, <1>12 DEF At
  <2>. QED
    BY <1>5, <1>7, <1>8, <1>9, <1>11, <2>1, <2>2, <2>3, <2>4 DEF Held
<1>13. CASE At(h, "find")
  <2>1. redis'.failures = redis.failures /\ Counter(h) \in Counters
    BY <1>1, <1>13, CounterType DEF StoreFrame, At
  <2>2. \/ req'[h].pc # "fail" /\ seen'.guesses = seen.guesses
        \/ /\ req'[h].pc = "fail"
           /\ seen'.guesses = [seen.guesses EXCEPT ![Counter(h)] = seen.guesses[Counter(h)] + 1]
    BY <1>11, <1>13, StepPlace, FindEffect
  <2>3. seen'.guesses[c] = IF req'[h].pc = "fail" /\ Counter(h) = c THEN seen.guesses[c] + 1 ELSE seen.guesses[c]
    BY <1>11, <2>1, <2>2
  <2>4. (h \in S <=> Counter(h) = c) /\ h \notin M
    BY <1>5, <1>13 DEF At
  <2>. QED
    BY <1>5, <1>7, <1>8, <1>9, <1>11, <2>1, <2>3, <2>4 DEF Held
<1>14. CASE At(h, "fail")
  <2>1. Counter(h) \in Counters
    BY <1>14, CounterType DEF At
  <2>2. /\ redis'.failures = [redis.failures EXCEPT ![Counter(h)] = redis.failures[Counter(h)] + 1]
        /\ seen'.guesses = seen.guesses /\ req'[h].pc = "idle"
    BY <1>11, <1>14, StepPlace, FailEffect DEF Ends, Idle
  <2>3. redis'.failures[c] = IF Counter(h) = c THEN redis.failures[c] + 1 ELSE redis.failures[c]
    BY <1>11, <2>1, <2>2
  <2>4. (h \in S <=> Counter(h) = c) /\ (h \in M <=> Counter(h) = c) /\ h \notin T /\ h \notin N
    BY <1>5, <1>14, <2>2 DEF At
  <2>. QED
    BY <1>7, <1>8, <1>9, <1>11, <2>2, <2>3, <2>4 DEF Held
<1>15. CASE At(h, "clear")
  <2>1. Counter(h) \in Counters
    BY <1>15, CounterType DEF At
  <2>2. /\ redis'.failures = [redis.failures EXCEPT ![Counter(h)] = 0]
        /\ seen'.guesses = [seen.guesses EXCEPT ![Counter(h)] = 0]
    BY <1>11, <1>15, StepPlace, ClearEffect
  <2>3. /\ redis'.failures[c] = IF Counter(h) = c THEN 0 ELSE redis.failures[c]
        /\ seen'.guesses[c] = IF Counter(h) = c THEN 0 ELSE seen.guesses[c]
    BY <1>11, <2>1, <2>2
  <2>4. req'[h].pc \notin {"find", "fail"}
    BY <1>1, <1>15, CounterKept DEF At
  <2>5. h \notin S /\ h \notin M /\ h \notin T /\ h \notin N
    BY <1>5, <1>15, <2>4 DEF At
  <2>. QED
    BY <1>7, <1>8, <1>9, <1>11, <2>3, <2>5 DEF Held
<1>16. CASE req[h].pc \notin {"lockout", "find", "fail", "clear"}
  <2>1. redis'.failures = redis.failures /\ seen'.guesses = seen.guesses
    BY <1>1, <1>16 DEF StoreFrame
  <2>2. req'[h].pc \notin {"find", "fail"}
    BY <1>1, <1>16, CounterKept
  <2>3. h \notin S /\ h \notin M /\ h \notin T /\ h \notin N
    BY <1>5, <1>16, <2>2
  <2>. QED
    BY <1>7, <1>8, <1>9, <1>11, <2>1, <2>3 DEF Held
<1>. QED
  BY <1>12, <1>13, <1>14, <1>15, <1>16 DEF At

(* Where nobody starts or stops guessing and the counters stay or restart. *)
LEMMA GuessQuiet ==
  ASSUME TypeInv, GuessInv, mix' = mix, NEW c \in Counters,
         \/ redis'.failures[c] = redis.failures[c] /\ seen'.guesses[c] = seen.guesses[c]
         \/ redis'.failures[c] = 0 /\ seen'.guesses[c] = 0,
         \A g \in Handlers : \/ req'[g] = req[g]
                             \/ req[g].pc \notin {"find", "fail"} /\ req'[g].pc \notin {"find", "fail"}
  PROVE  Held(seen'.guesses[c], redis'.failures[c], Cardinality(Mistaken(c)'), Cardinality(Guessing(c)'))
<1>1. Mistaken(c)' = Mistaken(c) /\ Guessing(c)' = Guessing(c)
  BY DEF Mistaken, Guessing, Counter, At
<1>2. Held(seen.guesses[c], redis.failures[c], Cardinality(Mistaken(c)), Cardinality(Guessing(c)))
  BY DEF GuessInv, Held
<1>3. /\ Cardinality(Mistaken(c)) \in Nat /\ Cardinality(Guessing(c)) \in Nat /\ Cardinality(Handlers) \in Nat
      /\ Cardinality(Guessing(c)) <= Cardinality(Handlers)
  <2>1. Mistaken(c) \in SUBSET Handlers /\ Guessing(c) \in SUBSET Handlers
    BY DEF Mistaken, Guessing
  <2>. QED
    BY <2>1, AccountAssumption, FS_Subset, FS_CardinalityType
<1>. QED
  BY <1>1, <1>2, <1>3, CounterTypes DEF Held

LEMMA GuessNext == TypeInv /\ GuessInv /\ [Next]_vars => GuessInv'
<1>. SUFFICES ASSUME TypeInv, GuessInv, [Next]_vars PROVE GuessInv'
  OBVIOUS
<1>1. mix' = mix
  BY NextCases DEF vars, storeVars
<1>2. SUFFICES ASSUME NEW c \in Counters
               PROVE  Held(seen'.guesses[c], redis'.failures[c], Cardinality(Mistaken(c)'), Cardinality(Guessing(c)'))
  BY <1>1 DEF GuessInv, Held, Counters, Users
<1>3. ASSUME NEW h \in Handlers, Enters(h)
      PROVE  Held(seen'.guesses[c], redis'.failures[c], Cardinality(Mistaken(c)'), Cardinality(Guessing(c)'))
  <2>1. /\ redis' = redis /\ seen' = seen /\ req[h].pc = "idle" /\ req'[h].pc \notin {"find", "fail"}
        /\ \A g \in Handlers : g # h => req'[g] = req[g]
    BY <1>3 DEF Enters, Begins, Moved, At
  <2>. QED
    BY <1>1, <2>1, GuessQuiet
<1>4. ASSUME Drifts
      PROVE  Held(seen'.guesses[c], redis'.failures[c], Cardinality(Mistaken(c)'), Cardinality(Guessing(c)'))
  BY <1>1, <1>4, GuessQuiet DEF Drifts
<1>5. CASE UNCHANGED vars
  BY <1>1, <1>5, GuessQuiet DEF vars, storeVars
<1>. QED
  BY <1>3, <1>4, <1>5, NextCases, GuessStep

LEMMA GuessStart == Init => GuessInv
<1>. SUFFICES ASSUME Init, NEW c \in Counters
              PROVE  /\ seen.guesses[c] <= redis.failures[c] + Cardinality(Mistaken(c))
                     /\ redis.failures[c] + Cardinality(Guessing(c)) <= MaxAttempts - 1 + Cardinality(Handlers)
  BY DEF GuessInv
<1>1. seen.guesses[c] = 0 /\ redis.failures[c] = 0 /\ req = [h \in Handlers |-> Idle]
  BY DEF Init, StoreInit
<1>2. Mistaken(c) = {} /\ Guessing(c) = {}
  BY <1>1 DEF Mistaken, Guessing, At, Idle
<1>. QED
  BY <1>1, <1>2, FS_EmptySet, FS_CardinalityType, AccountAssumption

(* No more wrong passwords than the limit, and one for every handler that   *)
(* passed the check together with the last (BruteForceService).             *)
THEOREM LockoutHolds == Spec => []LockoutBounds
<1>1. TypeInv /\ GuessInv => LockoutBounds
  <2>. SUFFICES ASSUME TypeInv, GuessInv, NEW c \in Counters
                PROVE  seen.guesses[c] <= MaxAttempts - 1 + Cardinality(Handlers)
    BY DEF LockoutBounds
  <2>1. Mistaken(c) \subseteq Guessing(c) /\ Guessing(c) \subseteq Handlers
    BY DEF Mistaken, Guessing, At
  <2>2. /\ Cardinality(Mistaken(c)) <= Cardinality(Guessing(c)) /\ Cardinality(Mistaken(c)) \in Nat
        /\ Cardinality(Guessing(c)) \in Nat /\ Cardinality(Handlers) \in Nat
    <3>1. IsFiniteSet(Guessing(c)) /\ IsFiniteSet(Mistaken(c))
      BY <2>1, AccountAssumption, FS_Subset
    <3>. QED
      BY <2>1, <3>1, AccountAssumption, FS_Subset, FS_CardinalityType
  <2>. QED
    BY <2>2, CounterTypes DEF GuessInv
<1>. QED
  BY <1>1, TypeStart, TypeNext, GuessStart, GuessNext, PTL DEF Spec

-----------------------------------------------------------------------------
(* Sessions and access tokens *)

(* What is signed or written is as new as its account. *)
Grows ==
  /\ \A u \in Users : users[u].writes <= users'[u].writes /\ redis.epoch[u] <= redis'.epoch[u]
  /\ \A s \in grants'.sessions : s \in grants.sessions \/ s.age = users[s.user].writes
  /\ \A t \in grants'.access : \/ t \in grants.access
                               \/ t.age = users[t.user].writes /\ t.epoch = redis.epoch[t.user]

(* SweepLinks of the next state. *)
SweepLinked(q) ==
  /\ q.pc \in {"sweep", "bump", "notify"} => q.age <= users'[q.user].writes
  /\ q.pc \in {"bump", "notify"} =>
       \A s \in grants'.sessions : s.user = q.user /\ s.age < q.age => s = q.kept
  /\ q.pc = "notify" =>
       \A t \in grants'.access : t.user = q.user /\ t.age < q.age => t.epoch < redis'.epoch[q.user]

LEMMA GrantTypes ==
  ASSUME NEW gr, gr \in [sessions : SUBSET Session, access : SUBSET Access]
  PROVE  /\ \A s \in gr.sessions : s.user \in Users /\ s.age \in Nat
         /\ \A t \in gr.access : t.user \in Users /\ t.age \in Nat /\ t.epoch \in Nat
BY DEF Session, Access

LEMMA CountTypes ==
  ASSUME TypeInv, NEW u \in Users
  PROVE  users[u].writes \in Nat /\ redis.epoch[u] \in Nat
BY Typed, RedisFields DEF User

LEMMA CountTypesAfter ==
  ASSUME users' \in [Users -> User], redis' \in Redis, NEW u \in Users
  PROVE  users'[u].writes \in Nat /\ redis'.epoch[u] \in Nat
BY RedisFields DEF User

(* A handler between its write and its answer has a user. *)
LEMMA Sweeps ==
  ASSUME NEW q \in Handler, FlowLinks(q), q.pc \in {"write", "sweep", "bump", "notify"}
  PROVE  q.user \in Users /\ q.age \in Nat /\ q.pc # "idle"
<1>1. q.user # None
  BY DEF FlowLinks, HasUser
<1>. QED
  BY <1>1, HandlerFields

LEMMA SweepKept ==
  ASSUME TypeInv, Grows, NEW q \in Handler, FlowLinks(q), SweepLinks(q),
         users' \in [Users -> User], redis' \in Redis,
         grants' \in [sessions : SUBSET Session, access : SUBSET Access]
  PROVE  SweepLinked(q)
<1>1. CASE q.pc \notin {"sweep", "bump", "notify"}
  BY <1>1 DEF SweepLinked
<1>2. CASE q.pc \in {"sweep", "bump", "notify"}
  <2>. DEFINE u == q.user
  <2>1. u \in Users /\ q.age \in Nat
    BY <1>2, Sweeps
  <2>. HIDE DEF u
  <2>2. /\ users[u].writes \in Nat /\ redis.epoch[u] \in Nat /\ users'[u].writes \in Nat /\ redis'.epoch[u] \in Nat
        /\ users[u].writes <= users'[u].writes /\ redis.epoch[u] <= redis'.epoch[u]
    BY <2>1, CountTypes, CountTypesAfter DEF Grows
  <2>3. q.age <= users[u].writes
    BY <1>2 DEF SweepLinks, u
  <2>4. ASSUME NEW s \in grants'.sessions, s.user = u, s.age < q.age
        PROVE  s \in grants.sessions
    <3>1. s.age \in Nat
      BY GrantTypes
    <3>2. s \in grants.sessions \/ s.age = users[u].writes
      BY <2>4 DEF Grows
    <3>. QED
      BY <2>1, <2>2, <2>3, <2>4, <3>1, <3>2
  <2>5. ASSUME NEW t \in grants'.access, t.user = u, t.age < q.age
        PROVE  t \in grants.access
    <3>1. t.age \in Nat
      BY GrantTypes
    <3>2. t \in grants.access \/ t.age = users[u].writes
      BY <2>5 DEF Grows
    <3>. QED
      BY <2>1, <2>2, <2>3, <2>5, <3>1, <3>2
  <2>6. q.pc \in {"bump", "notify"} => \A s \in grants'.sessions : s.user = u /\ s.age < q.age => s = q.kept
    BY <2>4 DEF SweepLinks, u
  <2>7. ASSUME q.pc = "notify", NEW t \in grants'.access, t.user = u, t.age < q.age
        PROVE  t.epoch < redis'.epoch[u]
    <3>1. t \in grants.access /\ t.epoch \in Nat
      BY <2>5, <2>7, GrantTypes
    <3>2. t.epoch < redis.epoch[u]
      BY <2>7, <3>1 DEF SweepLinks, u
    <3>. QED
      BY <2>2, <3>1, <3>2
  <2>8. q.age <= users'[u].writes
    BY <2>1, <2>2, <2>3
  <2>. QED
    BY <2>6, <2>7, <2>8 DEF SweepLinked, u
<1>. QED
  BY <1>1, <1>2

LEMMA StepGrows ==
  ASSUME TypeInv, NEW h \in Handlers, Step(h)
  PROVE  Grows
<1>1. StoreFrame(req[h].pc) /\ UserFrame(req[h].pc)
  BY StepFrames DEF StepFrame
<1>2. \A u \in Users : users[u].writes <= users'[u].writes
  BY <1>1 DEF UserFrame
<1>3. \A u \in Users : redis.epoch[u] <= redis'.epoch[u]
  <2>1. CASE At(h, "bump")
    <3>1. /\ req[h].user \in Users
          /\ redis'.epoch = [redis.epoch EXCEPT ![req[h].user] = redis.epoch[req[h].user] + 1]
      BY <2>1, StepPlace, BumpEffect
    <3>2. redis.epoch \in [Users -> Nat]
      BY Typed, RedisFields
    <3>. QED
      BY <3>1, <3>2
  <2>2. CASE ~At(h, "bump")
    <3>1. redis'.epoch = redis.epoch
      BY <1>1, <2>2 DEF StoreFrame, At
    <3>. QED
      BY <3>1, CountTypes
  <2>. QED
    BY <2>1, <2>2
<1>4. /\ \A s \in grants'.sessions : s \in grants.sessions \/ s.age = users[s.user].writes
      /\ \A t \in grants'.access : \/ t \in grants.access
                                   \/ t.age = users[t.user].writes /\ t.epoch = redis.epoch[t.user]
  <2>1. CASE At(h, "epoch")
    BY <2>1, StepPlace, SignAccessEffect
  <2>2. CASE At(h, "session")
    BY <2>2, StepPlace, WriteSessionEffect
  <2>3. CASE At(h, "sweep")
    BY <2>3, StepPlace, SweepEffect
  <2>4. CASE req[h].pc \notin {"epoch", "session", "sweep"}
    BY <1>1, <2>4 DEF StoreFrame
  <2>. QED
    BY <2>1, <2>2, <2>3, <2>4 DEF At
<1>. QED
  BY <1>2, <1>3, <1>4 DEF Grows

LEMMA SweepStep ==
  ASSUME TypeInv, SessionInv, NEW h \in Handlers, Step(h)
  PROVE  SweepLinked(req'[h])
<1>1. /\ Advances(h) /\ Grows /\ req[h] \in Handler /\ req'[h] \in Handler
      /\ FlowLinks(req[h]) /\ FlowLinks(req'[h]) /\ SweepLinks(req[h])
      /\ users' \in [Users -> User] /\ redis' \in Redis
      /\ grants' \in [sessions : SUBSET Session, access : SUBSET Access]
  BY StepFrames, StepGrows, OldLinks, Typed DEF StepFrame, StoreFrame, Advances, Moved, SessionInv
<1>2. SweepLinked(req[h])
  BY <1>1, SweepKept
<1>3. Follows(req'[h], req[h])
  BY <1>1 DEF Advances
<1>4. CASE req'[h].pc = "sweep"
  <2>1. At(h, "write") /\ req'[h].user = req[h].user
    BY <1>3, <1>4 DEF Follows, Leads, At, Idle
  <2>2. req'[h].age = users'[req[h].user].writes /\ req[h].user \in Users
    BY <2>1, StepPlace, WriteEffect
  <2>3. users'[req[h].user].writes \in Nat
    BY <1>1, <2>2, CountTypesAfter
  <2>. QED
    BY <1>4, <2>1, <2>2, <2>3 DEF SweepLinked
<1>5. CASE req'[h].pc = "bump"
  <2>1. /\ At(h, "sweep") /\ req'[h].user = req[h].user /\ req'[h].kept = req[h].kept
        /\ req'[h].age = req[h].age
    BY <1>3, <1>5 DEF Follows, Leads, At, Idle
  <2>2. grants'.sessions = {s \in grants.sessions : s.user # req[h].user \/ s = req[h].kept}
    BY <2>1, StepPlace, SweepEffect
  <2>3. req[h].age <= users'[req[h].user].writes
    BY <1>2, <2>1 DEF SweepLinked, At
  <2>. QED
    BY <1>5, <2>1, <2>2, <2>3 DEF SweepLinked
<1>6. CASE req'[h].pc = "notify"
  <2>1. /\ At(h, "bump") /\ req'[h].user = req[h].user /\ req'[h].kept = req[h].kept
        /\ req'[h].age = req[h].age
    BY <1>3, <1>6 DEF Follows, Leads, At, Idle
  <2>2. /\ req[h].user \in Users
        /\ redis'.epoch = [redis.epoch EXCEPT ![req[h].user] = redis.epoch[req[h].user] + 1]
    BY <2>1, StepPlace, BumpEffect
  <2>3. redis.epoch \in [Users -> Nat] /\ redis.epoch[req[h].user] \in Nat
    BY <2>2, Typed, RedisFields
  <2>4. redis'.epoch[req[h].user] = redis.epoch[req[h].user] + 1
    BY <2>2, <2>3
  <2>5. grants' = grants
    BY <2>1, StepFrames DEF StepFrame, StoreFrame, At
  <2>6. \A t \in grants'.access : t.user = req[h].user => t.epoch < redis'.epoch[req[h].user]
    <3>1. \A t \in grants.access : t.epoch <= redis.epoch[t.user] /\ t.epoch \in Nat
      BY Typed, GrantTypes DEF SessionInv
    <3>. QED
      BY <2>3, <2>4, <2>5, <3>1
  <2>. QED
    BY <1>2, <1>6, <2>1, <2>6 DEF SweepLinked, At
<1>7. CASE req'[h].pc \notin {"sweep", "bump", "notify"}
  BY <1>7 DEF SweepLinked
<1>. QED
  BY <1>4, <1>5, <1>6, <1>7

(* Where sessions, tokens and epochs only grow, what h does is what counts. *)
LEMMA SessionsAfter ==
  ASSUME TypeInv, SessionInv, Grows, users' \in [Users -> User], redis' \in Redis,
         grants' \in [sessions : SUBSET Session, access : SUBSET Access],
         \A g \in Handlers : req'[g] = req[g] \/ SweepLinked(req'[g])
  PROVE  SessionInv'
<1>1. ASSUME NEW t \in grants'.access
      PROVE  t.epoch <= redis'.epoch[t.user]
  <2>1. t.user \in Users /\ t.epoch \in Nat
    BY GrantTypes
  <2>2. t.epoch <= redis.epoch[t.user]
    BY <2>1, CountTypes DEF SessionInv, Grows
  <2>3. redis.epoch[t.user] <= redis'.epoch[t.user] /\ redis.epoch[t.user] \in Nat /\ redis'.epoch[t.user] \in Nat
    BY <2>1, CountTypes, CountTypesAfter DEF Grows
  <2>. QED
    BY <2>1, <2>2, <2>3
<1>2. ASSUME NEW g \in Handlers
      PROVE  SweepLinked(req'[g])
  <2>1. req[g] \in Handler /\ FlowLinks(req[g]) /\ SweepLinks(req[g])
    BY Typed, OldLinks DEF SessionInv
  <2>2. SweepLinked(req[g])
    BY <2>1, SweepKept
  <2>. QED
    BY <2>2
<1>. QED
  BY <1>1, <1>2 DEF SessionInv, SweepLinks, SweepLinked

LEMMA SessionNext == TypeInv /\ SessionInv /\ [Next]_vars => SessionInv'
<1>. SUFFICES ASSUME TypeInv, SessionInv, [Next]_vars PROVE SessionInv'
  OBVIOUS
<1>1. ASSUME NEW h \in Handlers, Enters(h)
      PROVE  SessionInv'
  <2>1. /\ redis' = redis /\ grants' = grants /\ users' \in [Users -> User]
        /\ \A u \in Users : users'[u].writes = users[u].writes
        /\ req'[h].pc \notin {"sweep", "bump", "notify"} /\ \A g \in Handlers : g # h => req'[g] = req[g]
    BY <1>1 DEF Enters, Toggled, Begins, Moved
  <2>2. Grows
    BY <2>1, CountTypes DEF Grows
  <2>3. SweepLinked(req'[h])
    BY <2>1 DEF SweepLinked
  <2>. QED
    BY <2>1, <2>2, <2>3, Typed, SessionsAfter
<1>2. ASSUME NEW h \in Handlers, Step(h)
      PROVE  SessionInv'
  <2>1. /\ users' \in [Users -> User] /\ redis' \in Redis
        /\ grants' \in [sessions : SUBSET Session, access : SUBSET Access]
        /\ \A g \in Handlers : g # h => req'[g] = req[g]
    BY <1>2, StepFrames DEF StepFrame, StoreFrame, Advances, Moved
  <2>. QED
    BY <1>2, <2>1, StepGrows, SweepStep, SessionsAfter
<1>3. ASSUME Drifts
      PROVE  SessionInv'
  <2>1. users' = users /\ grants' = grants /\ req' = req /\ redis' \in Redis /\ redis'.epoch = redis.epoch
    BY <1>3 DEF Drifts, KeysBut
  <2>2. Grows
    BY <2>1, CountTypes DEF Grows
  <2>. QED
    BY <2>1, <2>2, Typed, SessionsAfter
<1>4. CASE UNCHANGED vars
  BY <1>4 DEF vars, storeVars, SessionInv, SweepLinks
<1>. QED
  BY <1>1, <1>2, <1>3, <1>4, NextCases

LEMMA SessionStart == Init => SessionInv
<1>. SUFFICES ASSUME Init PROVE SessionInv
  OBVIOUS
<1>1. /\ grants.access = {[user |-> Owner, epoch |-> 0, age |-> 0]}
      /\ redis.epoch = [u \in Users |-> 0] /\ req = [h \in Handlers |-> Idle]
  BY DEF Init, StoreInit
<1>. QED
  BY <1>1 DEF SessionInv, SweepLinks, Idle, Users

(* When a reset or a change answers, no session and no token from before    *)
(* it is left but the one that asked (applyPasswordReset, changePassword).  *)
THEOREM SessionsEnded == Spec => []ResetEndsSessions
<1>1. SessionInv => ResetEndsSessions
  BY DEF SessionInv, SweepLinks, ResetEndsSessions, At
<1>. QED
  BY <1>1, TypeStart, TypeNext, SessionStart, SessionNext, PTL DEF Spec

-----------------------------------------------------------------------------
(* The cached facts *)

Dropping(u) == \E h \in Handlers : req[h].user = u /\ req[h].pc \in {"dropVerified", "dropStatus"}

Unverifying(u) == \E h \in Handlers : req[h].user = u /\ At(h, "dropVerified")

(* A fact held when it was written, and does no more. *)
Stale(fact, truth) == fact.val # None /\ fact.current /\ fact.val # truth

Followed(u) ==
  /\ Stale(redis.status[u], users[u].state) => Dropping(u)
  /\ Stale(redis.verified[u], users[u].verified) => Unverifying(u)
  /\ ~Exists(u) => redis.status[u].val = None /\ redis.verified[u].val = None

LEMMA CacheForm == CacheInv <=> \A u \in Users : Followed(u)
BY DEF CacheInv, CacheFollows, Followed, Stale, Dropping, Unverifying

LEMMA CacheFormAfter ==
  ASSUME \A u \in Users : Followed(u)'
  PROVE  CacheInv'
BY DEF CacheInv, CacheFollows, Followed, Stale, Dropping, Unverifying, Users

LEMMA WrittenTrue ==
  ASSUME NEW val, NEW truth, NEW fact, fact = [val |-> val, current |-> val = truth]
  PROVE  ~Stale(fact, truth)
<1>1. CASE val = truth
  BY <1>1 DEF Stale
<1>2. CASE val # truth
  <2>1. (val = truth) = FALSE
    BY <1>2
  <2>2. fact = [val |-> val, current |-> FALSE]
    BY <2>1
  <2>. QED
    BY <2>2 DEF Stale
<1>. QED
  BY <1>1, <1>2

(* Where neither the account nor what is cached of it changes. *)
LEMMA CacheQuiet ==
  ASSUME NEW u \in Users, Followed(u),
         users'[u].state = users[u].state, users'[u].verified = users[u].verified,
         redis'.status[u] \in {redis.status[u], NoFact}, redis'.verified[u] \in {redis.verified[u], NoFact},
         \A g \in Handlers : \/ req'[g] = req[g]
                             \/ req[g].pc \notin {"dropVerified", "dropStatus"}
                             \/ req[g].user # u
  PROVE  Followed(u)'
<1>1. (Dropping(u) => Dropping(u)') /\ (Unverifying(u) => Unverifying(u)')
  BY DEF Dropping, Unverifying, At
<1>2. NoFact.val = None
  BY DEF NoFact
<1>. QED
  BY <1>1, <1>2 DEF Followed, Stale, Exists

LEMMA StepsAlone ==
  ASSUME TypeInv, NEW h \in Handlers, Step(h)
  PROVE  \A g \in Handlers : g # h => req'[g] = req[g]
BY StepFrames DEF StepFrame, Advances, Moved

LEMMA DropVerifiedFollowed ==
  ASSUME TypeInv, CacheInv, NEW h \in Handlers, Step(h), At(h, "dropVerified"), NEW u \in Users
  PROVE  Followed(u)'
<1>1. /\ users' = users /\ req[h].user \in Users /\ req'[h].pc = "dropStatus"
      /\ redis'.verified = [redis.verified EXCEPT ![req[h].user] = NoFact]
  BY StepPlace, DropVerifiedEffect
<1>2. redis'.status = redis.status /\ redis.verified \in [Users -> Fact(BOOLEAN)] /\ req'[h].user = req[h].user
  BY <1>1, StepFrames, Typed, RedisFields DEF StepFrame, StoreFrame, Advances, Follows, At, Idle
<1>3. Followed(u)
  BY CacheForm
<1>4. CASE u # req[h].user
  BY <1>1, <1>2, <1>3, <1>4, StepsAlone, CacheQuiet
<1>5. CASE u = req[h].user
  <2>1. redis'.verified[u].val = None
    BY <1>1, <1>2, <1>5 DEF NoFact
  <2>2. Dropping(u)'
    BY <1>1, <1>2, <1>5 DEF Dropping
  <2>. QED
    BY <1>1, <1>2, <1>3, <2>1, <2>2 DEF Followed, Stale, Exists
<1>. QED
  BY <1>4, <1>5

LEMMA DropStatusFollowed ==
  ASSUME TypeInv, CacheInv, NEW h \in Handlers, Step(h), At(h, "dropStatus"), NEW u \in Users
  PROVE  Followed(u)'
<1>1. /\ users' = users /\ req[h].user \in Users
      /\ redis'.status = [redis.status EXCEPT ![req[h].user] = NoFact]
  BY StepPlace, DropStatusEffect
<1>2. redis'.verified = redis.verified /\ redis.status \in [Users -> Fact({"active", "blocked"})]
  BY StepFrames, Typed, RedisFields DEF StepFrame, StoreFrame, At
<1>3. Followed(u)
  BY CacheForm
<1>4. CASE u # req[h].user
  BY <1>1, <1>2, <1>3, <1>4, StepsAlone, CacheQuiet
<1>5. CASE u = req[h].user
  <2>1. redis'.status[u].val = None
    BY <1>1, <1>2, <1>5 DEF NoFact
  <2>2. Unverifying(u) => Unverifying(u)'
    BY StepsAlone DEF Unverifying, At
  <2>. QED
    BY <1>1, <1>2, <1>3, <2>1, <2>2 DEF Followed, Stale, Exists
<1>. QED
  BY <1>4, <1>5

LEMMA SetStatusFollowed ==
  ASSUME TypeInv, CacheInv, NEW h \in Handlers, Step(h), At(h, "setStatus"), NEW u \in Users
  PROVE  Followed(u)'
<1>1. /\ users' = users /\ req[h].user \in Users /\ Exists(req[h].user)
      /\ \E val : redis'.status = [redis.status EXCEPT ![req[h].user] =
                                     [val |-> val, current |-> val = users[req[h].user].state]]
  BY StepPlace, SetStatusEffect
<1>2. redis'.verified = redis.verified /\ redis.status \in [Users -> Fact({"active", "blocked"})]
  BY StepFrames, Typed, RedisFields DEF StepFrame, StoreFrame, At
<1>3. Followed(u)
  BY CacheForm
<1>4. CASE u # req[h].user
  BY <1>1, <1>2, <1>3, <1>4, StepsAlone, CacheQuiet DEF At
<1>5. CASE u = req[h].user
  <2>1. ~Stale(redis'.status[u], users[u].state)
    <3>1. PICK val : redis'.status[u] = [val |-> val, current |-> val = users[u].state]
      BY <1>1, <1>2, <1>5
    <3>. QED
      BY <3>1, WrittenTrue
  <2>2. Unverifying(u) => Unverifying(u)'
    BY StepsAlone DEF Unverifying, At
  <2>. QED
    BY <1>1, <1>2, <1>3, <1>5, <2>1, <2>2 DEF Followed, Stale, Exists
<1>. QED
  BY <1>4, <1>5

LEMMA SetVerifiedFollowed ==
  ASSUME TypeInv, CacheInv, NEW h \in Handlers, Step(h), At(h, "setVerified"), NEW u \in Users
  PROVE  Followed(u)'
<1>1. /\ users' = users /\ req[h].user \in Users /\ Exists(req[h].user)
      /\ \E val : redis'.verified = [redis.verified EXCEPT ![req[h].user] =
                                       [val |-> val, current |-> val = users[req[h].user].verified]]
  BY StepPlace, SetVerifiedEffect
<1>2. redis'.status = redis.status /\ redis.verified \in [Users -> Fact(BOOLEAN)]
  BY StepFrames, Typed, RedisFields DEF StepFrame, StoreFrame, At
<1>3. Followed(u)
  BY CacheForm
<1>4. CASE u # req[h].user
  BY <1>1, <1>2, <1>3, <1>4, StepsAlone, CacheQuiet DEF At
<1>5. CASE u = req[h].user
  <2>1. ~Stale(redis'.verified[u], users[u].verified)
    <3>1. PICK val : redis'.verified[u] = [val |-> val, current |-> val = users[u].verified]
      BY <1>1, <1>2, <1>5
    <3>. QED
      BY <3>1, WrittenTrue
  <2>2. Dropping(u) => Dropping(u)'
    BY StepsAlone DEF Dropping, At
  <2>. QED
    BY <1>1, <1>2, <1>3, <1>5, <2>1, <2>2 DEF Followed, Stale, Exists
<1>. QED
  BY <1>4, <1>5

LEMMA FlagFollowed ==
  ASSUME TypeInv, CacheInv, NEW h \in Handlers, Step(h), At(h, "flag"), NEW u \in Users
  PROVE  Followed(u)'
<1>1. req'[h].pc = "dropVerified" /\ \A v \in Users : v # req[h].user => users'[v].verified = users[v].verified
  BY StepPlace, FlagEffect
<1>2. /\ redis'.status = redis.status /\ redis'.verified = redis.verified /\ req'[h].user = req[h].user
      /\ users'[u].state = users[u].state
  BY <1>1, StepFrames DEF StepFrame, StoreFrame, UserFrame, Advances, Follows, At, Idle
<1>3. Followed(u)
  BY CacheForm
<1>4. CASE u # req[h].user
  BY <1>1, <1>2, <1>3, <1>4, StepsAlone, CacheQuiet
<1>5. CASE u = req[h].user
  <2>1. Unverifying(u)' /\ Dropping(u)'
    BY <1>1, <1>2, <1>5 DEF Unverifying, Dropping, At
  <2>. QED
    BY <1>2, <1>3, <2>1 DEF Followed, Stale, Exists
<1>. QED
  BY <1>4, <1>5

LEMMA CreateFollowed ==
  ASSUME TypeInv, CacheInv, NEW h \in Handlers, Step(h), At(h, "create"), NEW u \in Users
  PROVE  Followed(u)'
<1>1. /\ redis'.status = redis.status /\ redis'.verified = redis.verified
  BY StepFrames DEF StepFrame, StoreFrame, At
<1>2. Followed(u)
  BY CacheForm
<1>3. \/ users' = users
      \/ \E v \in Users : ~Exists(v) /\ \A w \in Users : w # v => users'[w] = users[w]
  BY StepPlace, CreateEffect
<1>4. CASE users'[u] = users[u]
  BY <1>1, <1>2, <1>4, StepsAlone, CacheQuiet DEF At
<1>5. CASE ~Exists(u)
  BY <1>1, <1>2, <1>5 DEF Followed, Stale
<1>. QED
  BY <1>3, <1>4, <1>5

LEMMA CacheNext == TypeInv /\ CacheInv /\ [Next]_vars => CacheInv'
<1>. SUFFICES ASSUME TypeInv, CacheInv, [Next]_vars PROVE CacheInv'
  OBVIOUS
<1>2. SUFFICES ASSUME NEW u \in Users PROVE Followed(u)'
  BY CacheFormAfter
<1>3. Followed(u)
  BY CacheForm
<1>4. ASSUME NEW h \in Handlers, Enters(h)
      PROVE  Followed(u)'
  <2>1. /\ redis' = redis /\ users'[u].verified = users[u].verified
        /\ users'[u].state = users[u].state \/ (req'[h].pc = "dropVerified" /\ req'[h].user = u)
        /\ \A g \in Handlers : g # h => req'[g] = req[g]
        /\ req[h].pc = "idle" /\ (Exists(u) => Exists(u)')
    BY <1>4 DEF Enters, Toggled, Begins, Moved, At, Standings
  <2>2. CASE users'[u].state = users[u].state
    BY <1>3, <2>1, <2>2, CacheQuiet
  <2>3. CASE req'[h].pc = "dropVerified" /\ req'[h].user = u
    <3>1. Dropping(u)' /\ Unverifying(u)'
      BY <2>3 DEF Dropping, Unverifying, At
    <3>. QED
      BY <1>3, <2>1, <3>1 DEF Followed
  <2>. QED
    BY <2>1, <2>2, <2>3
<1>5. ASSUME NEW h \in Handlers, Step(h)
      PROVE  Followed(u)'
  <2>1. CASE req[h].pc \notin {"dropVerified", "dropStatus", "setStatus", "setVerified", "flag", "create"}
    <3>1. /\ redis'.status = redis.status /\ redis'.verified = redis.verified
          /\ users'[u].state = users[u].state /\ users'[u].verified = users[u].verified
      BY <1>5, <2>1, StepFrames DEF StepFrame, StoreFrame, UserFrame
    <3>. QED
      BY <1>3, <1>5, <2>1, <3>1, StepsAlone, CacheQuiet
  <2>. QED
    BY <1>5, <2>1, DropVerifiedFollowed, DropStatusFollowed, SetStatusFollowed, SetVerifiedFollowed,
       FlagFollowed, CreateFollowed DEF At
<1>6. CASE Drifts
  <2>1. /\ users' = users /\ req' = req
        /\ redis'.status[u] \in {redis.status[u], NoFact} /\ redis'.verified[u] \in {redis.verified[u], NoFact}
    BY <1>6 DEF Drifts
  <2>. QED
    BY <1>3, <2>1, CacheQuiet
<1>7. CASE UNCHANGED vars
  BY <1>3, <1>7, CacheQuiet DEF vars, storeVars
<1>. QED
  BY <1>4, <1>5, <1>6, <1>7, NextCases

LEMMA CacheStart == Init => CacheInv
<1>. SUFFICES ASSUME Init, NEW u \in Users PROVE Followed(u)
  BY CacheForm
<1>1. redis.status[u] = NoFact /\ redis.verified[u] = NoFact
  BY DEF Init, StoreInit
<1>. QED
  BY <1>1 DEF Followed, Stale, NoFact

(* A cached fact that held when it was written stands only as long as its   *)
(* account agrees or its invalidation is under way (AccountStatusService).  *)
THEOREM CacheIsFollowed == Spec => []CacheFollows
<1>1. CacheInv => CacheFollows
  BY DEF CacheInv
<1>. QED
  BY <1>1, TypeStart, TypeNext, CacheStart, CacheNext, PTL DEF Spec

-----------------------------------------------------------------------------
(* Handlers by number *)

LEMMA StepKeeps ==
  ASSUME TypeInv, NEW h \in Handlers, Step(h)
  PROVE  /\ req[h].pc # "idle" /\ starts' = starts /\ Follows(req'[h], req[h])
         /\ req'[h].pc # "idle" => /\ req'[h].id = req[h].id /\ req'[h].flow = req[h].flow
                                   /\ req'[h].proof = req[h].proof /\ req'[h] # Idle
         /\ req'[h].flow \in {req[h].flow, "none"}
BY StepFrames DEF StepFrame, Advances, Follows, Idle, At

LEMMA OneNext == TypeInv /\ OneHandler /\ [Next]_vars => OneHandler'
<1>. SUFFICES ASSUME TypeInv, OneHandler, [Next]_vars, NEW f \in Handlers, NEW g \in Handlers,
                     req'[f].pc # "idle", req'[g].pc # "idle", req'[f].id = req'[g].id
              PROVE  f = g
  BY DEF OneHandler, At
<1>1. \A k \in Handlers : req[k].id \in Nat /\ req[k].id <= starts /\ starts \in Nat
  <2>1. \A k \in Handlers : req[k].id \in {0} \cup Ids
    BY Typed, HandlerFields
  <2>. QED
    BY <2>1, Typed DEF TypeInv, Numbered, Ids
<1>2. ASSUME NEW h \in Handlers, Enters(h)
      PROVE  f = g
  <2>1. req'[h].id = starts + 1 /\ \A k \in Handlers : k # h => req'[k] = req[k]
    BY <1>2 DEF Enters, Begins, Moved
  <2>. QED
    BY <1>1, <2>1 DEF OneHandler, At
<1>3. ASSUME NEW h \in Handlers, Step(h)
      PROVE  f = g
  BY <1>3, StepKeeps, StepsAlone DEF OneHandler, At
<1>4. CASE Drifts \/ UNCHANGED vars
  BY <1>4 DEF OneHandler, At, Drifts, vars, storeVars
<1>. QED
  BY <1>2, <1>3, <1>4, NextCases

LEMMA OneStart == Init => OneHandler
BY DEF Init, StoreInit, OneHandler, At, Idle

-----------------------------------------------------------------------------
(* API keys *)

LEMMA KeyFlow ==
  ASSUME TypeInv, NEW h \in Handlers
  PROVE  /\ At(h, "retireKey") => req[h].flow = "rotateKey"
         /\ At(h, "markRevoked") => req[h].flow = "revokeKey"
         /\ At(h, "handOver") \/ At(h, "createKey") => req[h].flow \in {"issueKey", "rotateKey"}
         /\ At(h, "readRow") \/ At(h, "judge") => req[h].flow = "useKey"
         /\ req[h].id \in Nat /\ req[h].id <= starts /\ starts \in Nat /\ req[h].proof \in Rows /\ req[h].id \in Rows
<1>1. OnPath(req[h].flow, req[h].pc)
  BY OldLinks DEF FlowLinks
<1>2. req[h].id \in {0} \cup Ids /\ req[h].id <= starts /\ starts \in Nat
  BY Typed, HandlerFields DEF TypeInv, Numbered
<1>3. /\ At(h, "retireKey") => req[h].flow = "rotateKey"
      /\ At(h, "markRevoked") => req[h].flow = "revokeKey"
      /\ At(h, "handOver") \/ At(h, "createKey") => req[h].flow \in {"issueKey", "rotateKey"}
      /\ At(h, "readRow") \/ At(h, "judge") => req[h].flow = "useKey"
  BY <1>1 DEF OnPath, At
<1>. QED
  BY <1>2, <1>3, RowTypes DEF Ids

(* A row changes at the hands of the handler that writes it or retires it. *)
LEMMA RowStep ==
  ASSUME TypeInv, KeyInv, NEW h \in Handlers, Step(h), NEW n \in Rows
  PROVE  \/ keys'[n] = keys[n]
         \/ (At(h, "createKey") \/ At(h, "handOver")) /\ n = req[h].id
         \/ (At(h, "retireKey") \/ At(h, "markRevoked")) /\ n = req[h].proof /\ keys[n].held
<1>1. req[h].flow \in {"rotateKey", "revokeKey"} => keys[req[h].proof].held
  BY DEF KeyInv, KeyLinks
<1>2. CASE At(h, "createKey")
  <2>1. CreateKey(h)
    BY <1>2, StepPlace
  <2>2. keys' = keys \/ \E row \in KeyRow : OneRow(req[h].id, row)
    BY <2>1, CreateKeyEffect
  <2>. QED
    BY <1>2, <2>2 DEF OneRow
<1>3. CASE At(h, "retireKey")
  <2>1. RetireKey(h)
    BY <1>3, StepPlace
  <2>2. keys' = keys \/ \E row \in KeyRow : OneRow(req[h].proof, row)
    BY <2>1, RetireKeyEffect
  <2>. QED
    BY <1>1, <1>3, <2>2, KeyFlow DEF OneRow
<1>4. CASE At(h, "handOver")
  <2>1. HandOver(h)
    BY <1>4, StepPlace
  <2>2. \E row \in KeyRow : OneRow(req[h].id, row)
    BY <2>1, HandOverEffect
  <2>. QED
    BY <1>4, <2>2 DEF OneRow
<1>5. CASE At(h, "markRevoked")
  <2>1. MarkRevoked(h)
    BY <1>5, StepPlace
  <2>2. keys' = keys \/ \E row : OneRow(req[h].proof, row)
    BY <2>1, MarkRevokedEffect
  <2>. QED
    BY <1>1, <1>5, <2>2, KeyFlow DEF OneRow
<1>6. CASE req[h].pc \notin {"createKey", "retireKey", "handOver", "markRevoked"}
  BY <1>6, StepFrames DEF StepFrame, KeyFrame
<1>. QED
  BY <1>2, <1>3, <1>4, <1>5, <1>6 DEF At

(* The row a handler is to write is its own until it hands it over. *)
LEMMA OwnRow ==
  ASSUME TypeInv, KeyInv, OneHandler, NEW h \in Handlers, Step(h), NEW g \in Handlers, g # h, ~At(g, "idle")
  PROVE  keys'[req[g].id] = keys[req[g].id]
<1>1. ~keys[req[g].id].held /\ req[g].id \in Rows
  BY KeyFlow DEF KeyInv, KeyLinks, At
<1>2. req[g].id # req[h].id
  BY StepKeeps DEF OneHandler, At
<1>. QED
  BY <1>1, <1>2, RowStep

(* A key in the operator's hands is retired or revoked, and nothing else. *)
LEMMA HeldRow ==
  ASSUME TypeInv, KeyInv, NEW h \in Handlers, Step(h), NEW n \in Rows, keys[n].held
  PROVE  /\ keys'[n].held
         /\ \/ keys'[n] = keys[n]
            \/ keys'[n].state = "revoked" /\ (At(h, "retireKey") \/ At(h, "markRevoked")) /\ n = req[h].proof
            \/ /\ At(h, "retireKey") /\ n = req[h].proof /\ keys'[n].state = keys[n].state
               /\ req[h].slip.row.until # 0 => keys'[n].until <= req[h].slip.row.until
               /\ keys'[n].until # 0
<1>1. CASE keys'[n] = keys[n]
  BY <1>1
<1>2. CASE (At(h, "createKey") \/ At(h, "handOver")) /\ n = req[h].id
  BY <1>2 DEF KeyInv, KeyLinks, At
<1>3. CASE At(h, "retireKey") /\ n = req[h].proof /\ keys'[n] # keys[n]
  <2>1. RetireKey(h)
    BY <1>3, StepPlace
  <2>2. \E row \in KeyRow :
          /\ OneRow(req[h].proof, row) /\ row.held = keys[req[h].proof].held
          /\ \/ req[h].slip.life = 0 /\ row.state = "revoked"
             \/ /\ req[h].slip.life > 0 /\ row.state = keys[req[h].proof].state
                /\ req[h].slip.row.until # 0 => row.until <= req[h].slip.row.until
                /\ row.until # 0
    <3>1. \/ keys' = keys
          \/ \E row \in KeyRow :
               /\ OneRow(req[h].proof, row) /\ row.held = keys[req[h].proof].held
               /\ \/ req[h].slip.life = 0 /\ row.state = "revoked"
                  \/ /\ req[h].slip.life > 0 /\ row.state = keys[req[h].proof].state
                     /\ req[h].slip.row.until # 0 => row.until <= req[h].slip.row.until
                     /\ row.until # 0
      BY <2>1, RetireKeyEffect
    <3>. QED
      BY <1>3, <3>1
  <2>. QED
    BY <1>3, <2>2 DEF OneRow
<1>4. CASE At(h, "markRevoked") /\ n = req[h].proof /\ keys'[n] # keys[n]
  <2>1. MarkRevoked(h)
    BY <1>4, StepPlace
  <2>2. \/ keys' = keys
        \/ OneRow(req[h].proof, [state |-> "revoked", until |-> keys[req[h].proof].until,
                                 held |-> keys[req[h].proof].held])
    BY <2>1, MarkRevokedEffect
  <2>3. keys'[n] = [state |-> "revoked", until |-> keys[n].until, held |-> keys[n].held]
    BY <1>4, <2>2 DEF OneRow
  <2>4. keys'[n].state = "revoked" /\ keys'[n].held = keys[n].held
    BY <2>3
  <2>. QED
    BY <1>4, <2>4
<1>. QED
  BY <1>1, <1>2, <1>3, <1>4, RowStep

LEMMA RowFields ==
  ASSUME TypeInv, NEW h \in Handlers, NEW n \in Rows
  PROVE  /\ keys[n].until \in Nat /\ now \in Nat /\ req[h].slip.row.until \in Nat
         /\ keys' \in [Rows -> KeyRow] => keys'[n].until \in Nat
         /\ req[h].slip \in Slip
<1>1. req[h].slip \in Slip /\ keys[n] \in KeyRow /\ now \in Nat
  BY Typed, HandlerFields
<1>. QED
  BY <1>1 DEF Slip, KeyRow

(* What a step makes of the rotation its handler is in. *)
LEMMA RotationStep ==
  ASSUME TypeInv, NEW h \in Handlers, Step(h), req'[h].flow = "rotateKey", req'[h].pc \in {"createKey", "retireKey"}
  PROVE  /\ req'[h].proof = req[h].proof
         /\ \/ At(h, "findKey") /\ req'[h].slip.row = keys[req[h].proof]
            \/ req[h].flow = "rotateKey" /\ At(h, "createKey") /\ req'[h].slip = req[h].slip
<1>1. /\ Follows(req'[h], req[h]) /\ req'[h] # Idle /\ req'[h].proof = req[h].proof
      /\ req[h].flow = "rotateKey"
  BY StepKeeps
<1>2. Leads(req[h].pc, req'[h].pc)
  BY <1>1 DEF Follows
<1>3. req[h].pc \in {"findKey", "createKey"}
  BY <1>2 DEF Leads
<1>4. CASE At(h, "findKey")
  <2>1. req'[h].slip = [req[h].slip EXCEPT !.row = keys[req[h].proof]]
    BY <1>4, StepPlace, FindKeyEffect
  <2>2. req'[h].slip.row = keys[req[h].proof]
    BY <2>1, RowFields, KeyFlow DEF Slip
  <2>. QED
    BY <1>1, <1>4, <2>2
<1>5. CASE At(h, "createKey")
  BY <1>1, <1>5 DEF Follows, At
<1>. QED
  BY <1>3, <1>4, <1>5 DEF At

LEMMA DeadStep ==
  ASSUME TypeInv, KeyInv, NEW h \in Handlers, Step(h), NEW n \in Rows, keys[n].held, KeyDead(n)
  PROVE  KeyDead(n)'
<1>1. now' = now /\ keys' \in [Rows -> KeyRow]
  BY StepFrames DEF StepFrame, TicketFrame, KeyFrame
<1>2. \/ keys'[n] = keys[n]
      \/ keys'[n].state = "revoked"
      \/ /\ At(h, "retireKey") /\ n = req[h].proof /\ keys'[n].state = keys[n].state
         /\ req[h].slip.row.until # 0 => keys'[n].until <= req[h].slip.row.until
         /\ keys'[n].until # 0
  BY HeldRow
<1>3. CASE keys[n].state = "revoked"
  BY <1>2, <1>3 DEF KeyDead
<1>4. CASE keys[n].state # "revoked" /\ keys'[n].state # "revoked"
  <2>1. /\ keys[n].until # 0 /\ keys[n].until <= now
        /\ \A g \in Handlers : req[g].flow = "rotateKey" /\ req[g].pc \in {"createKey", "retireKey"}
             /\ req[g].proof = n => req[g].slip.row.until # 0 /\ req[g].slip.row.until <= now
    BY <1>4 DEF KeyDead, Over
  <2>2. keys'[n].until # 0 /\ keys'[n].until <= now
    <3>1. CASE keys'[n] = keys[n]
      BY <2>1, <3>1
    <3>2. CASE /\ At(h, "retireKey") /\ n = req[h].proof
               /\ req[h].slip.row.until # 0 => keys'[n].until <= req[h].slip.row.until
               /\ keys'[n].until # 0
      <4>1. req[h].slip.row.until # 0 /\ req[h].slip.row.until <= now
        BY <2>1, <3>2, KeyFlow DEF At
      <4>. QED
        BY <1>1, <3>2, <4>1, RowFields
    <3>. QED
      BY <1>2, <1>4, <3>1, <3>2
  <2>3. ASSUME NEW g \in Handlers, req'[g].flow = "rotateKey", req'[g].pc \in {"createKey", "retireKey"},
               req'[g].proof = n
        PROVE  req'[g].slip.row.until # 0 /\ req'[g].slip.row.until <= now
    <3>1. CASE g # h
      BY <2>1, <2>3, <3>1, StepsAlone
    <3>2. CASE g = h
      <4>1. /\ req'[h].proof = req[h].proof
            /\ \/ At(h, "findKey") /\ req'[h].slip.row = keys[req[h].proof]
               \/ req[h].flow = "rotateKey" /\ At(h, "createKey") /\ req'[h].slip = req[h].slip
        BY <2>3, <3>2, RotationStep
      <4>. QED
        BY <2>1, <2>3, <3>2, <4>1 DEF At
    <3>. QED
      BY <3>1, <3>2
  <2>. QED
    BY <1>1, <2>2, <2>3 DEF KeyDead, Over
<1>. QED
  BY <1>3, <1>4 DEF KeyDead

(* KeyLinks of the handlers that stand by. *)
LEMMA KeyOthers ==
  ASSUME TypeInv, KeyInv, OneHandler, mix' = mix, NEW h \in Handlers, Step(h), NEW g \in Handlers, g # h
  PROVE  KeyLinks(req[g])'
<1>1. req'[g] = req[g] /\ KeyLinks(req[g]) /\ now' = now /\ req[g].proof \in Rows
  BY StepsAlone, StepFrames, KeyFlow DEF KeyInv, StepFrame, TicketFrame
<1>2. CASE At(g, "idle")
  <2>1. req[g] = Idle
    BY <1>2, OldLinks DEF FlowLinks, At
  <2>2. req'[g].flow = "none" /\ req'[g].pc = "idle"
    BY <1>1, <2>1 DEF Idle
  <2>. QED
    BY <2>2 DEF KeyLinks
<1>3. CASE ~At(g, "idle")
  <2>1. keys'[req[g].id] = keys[req[g].id]
    BY <1>3, OwnRow
  <2>2. keys[req[g].proof].held => keys'[req[g].proof].held
    BY <1>1, HeldRow
  <2>3. keys[req[g].proof].held /\ KeyDead(req[g].proof) => KeyDead(req[g].proof)'
    <3>1. PICK m \in Rows : m = req[g].proof
      BY <1>1
    <3>2. keys[m].held /\ KeyDead(m) => KeyDead(m)'
      BY DeadStep
    <3>3. KeyDead(req[g].proof) <=> KeyDead(m)
      BY <3>1
    <3>4. KeyDead(m)' <=> KeyDead(req[g].proof)'
      BY <1>1, <3>1 DEF KeyDead
    <3>. QED
      BY <3>1, <3>2, <3>3, <3>4
  <2>4. Over(req[g].slip.row) => Over(req[g].slip.row)'
    BY <1>1 DEF Over
  <2>5. /\ req[g].flow \in {"rotateKey", "revokeKey", "useKey"} => keys'[req[g].proof].held
        /\ req[g].pc # "idle" => ~keys'[req[g].id].held
        /\ req[g].flow = "revokeKey" => "revokeKey" \in mix'.requests
        /\ req[g].flow = "rotateKey" /\ req[g].pc \in {"retireKey", "handOver"} =>
             keys'[req[g].id].state = "active" /\ keys'[req[g].id].until = 0
    BY <1>1, <2>1, <2>2 DEF KeyLinks
  <2>6. req[g].flow = "useKey" /\ req[g].slip.late =>
          /\ req[g].pc = "readRow" => KeyDead(req[g].proof)'
          /\ req[g].pc = "judge" => Over(req[g].slip.row)'
          /\ req[g].pc # "audit"
    BY <1>1, <2>3, <2>4 DEF KeyLinks
  <2>. QED
    BY <1>1, <2>5, <2>6 DEF KeyLinks
<1>. QED
  BY <1>2, <1>3

(* The row h is to write stays unheld, and a rotation's is written first. *)
LEMMA MoverRow ==
  ASSUME TypeInv, KeyInv, NEW h \in Handlers, Step(h), req'[h].pc # "idle"
  PROVE  /\ ~keys'[req[h].id].held
         /\ req'[h].flow = "rotateKey" /\ req'[h].pc \in {"retireKey", "handOver"} =>
              keys'[req[h].id].state = "active" /\ keys'[req[h].id].until = 0
<1>1. /\ ~keys[req[h].id].held /\ req[h].id \in Rows /\ req[h].pc # "idle" /\ req'[h].flow = req[h].flow
      /\ Follows(req'[h], req[h]) /\ req'[h] # Idle /\ KeyLinks(req[h])
  BY StepKeeps, KeyFlow DEF KeyInv, KeyLinks
<1>2. CASE At(h, "createKey")
  <2>1. CreateKey(h)
    BY <1>2, StepPlace
  <2>2. \/ Ends(h) /\ keys' = keys
        \/ \E row \in KeyRow :
             /\ OneRow(req[h].id, row) /\ row.state = "active" /\ row.held = keys[req[h].id].held
             /\ row.until = IF req[h].flow = "issueKey" THEN req[h].slip.row.until ELSE 0
    BY <2>1, CreateKeyEffect
  <2>3. PICK row \in KeyRow :
          /\ OneRow(req[h].id, row) /\ row.state = "active" /\ row.held = keys[req[h].id].held
          /\ row.until = IF req[h].flow = "issueKey" THEN req[h].slip.row.until ELSE 0
    BY <1>1, <2>2 DEF Ends
  <2>4. keys'[req[h].id] = row
    BY <2>3 DEF OneRow
  <2>. QED
    BY <1>1, <2>3, <2>4
<1>3. CASE ~At(h, "createKey")
  <2>1. ~At(h, "handOver")
    <3>1. ASSUME At(h, "handOver") PROVE FALSE
      <4>1. Ends(h)
        BY <3>1, StepPlace, HandOverEffect
      <4>. QED
        BY <1>1, <4>1 DEF Ends
    <3>. QED
      BY <3>1
  <2>2. keys'[req[h].id] = keys[req[h].id]
    <3>1. req[h].id = req[h].proof => ~keys[req[h].id].held
      BY <1>1
    <3>. QED
      BY <1>1, <1>3, <2>1, RowStep
  <2>3. req'[h].pc \in {"retireKey", "handOver"} => req[h].pc = "retireKey"
    BY <1>1, <1>3 DEF Follows, Leads, At
  <2>. QED
    BY <1>1, <2>2, <2>3 DEF KeyLinks
<1>. QED
  BY <1>2, <1>3

(* A key that was dead when it was presented does not pass. *)
LEMMA MoverJudges ==
  ASSUME TypeInv, KeyInv, NEW h \in Handlers, Step(h), req'[h].flow = "useKey", req'[h].slip.late
  PROVE  /\ req'[h].pc # "readRow" /\ req'[h].pc # "audit"
         /\ req'[h].pc = "judge" => Over(req'[h].slip.row)
<1>1. /\ Follows(req'[h], req[h]) /\ req'[h] # Idle /\ KeyLinks(req[h]) /\ req[h].flow = "useKey"
  <2>1. req'[h] # Idle
    BY DEF Idle
  <2>. QED
    BY <2>1, StepKeeps DEF KeyInv, Follows
<1>2. Leads(req[h].pc, req'[h].pc)
  BY <1>1 DEF Follows
<1>3. req'[h].pc # "readRow"
  BY <1>2 DEF Leads
<1>4. CASE req'[h].pc = "judge"
  <2>1. At(h, "readRow")
    BY <1>2, <1>4 DEF Leads, At
  <2>2. req'[h].slip = [req[h].slip EXCEPT !.row = keys[req[h].proof]]
    BY <2>1, StepPlace, ReadRowEffect
  <2>3. req'[h].slip.row = keys[req[h].proof] /\ req'[h].slip.late = req[h].slip.late
    BY <2>2, RowFields, KeyFlow DEF Slip
  <2>4. KeyDead(req[h].proof)
    BY <1>1, <2>1, <2>3 DEF KeyLinks, At
  <2>5. Over(keys[req[h].proof])
    BY <2>4 DEF KeyDead, Over
  <2>. QED
    BY <1>4, <2>3, <2>5
<1>5. ASSUME req'[h].pc = "audit" PROVE FALSE
  <2>1. At(h, "judge")
    BY <1>2, <1>5 DEF Leads, At
  <2>2. req'[h].slip = req[h].slip
    BY <1>1, <2>1 DEF Follows, At
  <2>3. Over(req[h].slip.row)
    BY <1>1, <2>1, <2>2 DEF KeyLinks, At
  <2>4. req[h].slip.row.until \in Nat /\ now \in Nat
    BY RowFields, KeyFlow
  <2>5. ~Active(req[h].slip.row, now)
    BY <2>3, <2>4 DEF Over, Active
  <2>6. Judge(h)
    BY <2>1, StepPlace
  <2>7. Finish(h) /\ starts' = starts
    BY <2>5, <2>6 DEF Judge
  <2>8. Ends(h)
    BY <2>7, FinishEnds
  <2>. QED
    BY <1>1, <2>8 DEF Ends
<1>. QED
  BY <1>3, <1>4, <1>5

LEMMA KeyMover ==
  ASSUME TypeInv, KeyInv, mix' = mix, NEW h \in Handlers, Step(h)
  PROVE  KeyLinks(req[h])'
<1>1. CASE req'[h].pc = "idle"
  <2>1. FlowLinks(req'[h])
    BY StepFrames DEF StepFrame, Advances
  <2>2. req'[h].flow = "none"
    BY <1>1, <2>1 DEF FlowLinks, Idle
  <2>. QED
    BY <1>1, <2>2 DEF KeyLinks
<1>2. CASE req'[h].pc # "idle"
  <2>1. /\ req'[h].id = req[h].id /\ req'[h].flow = req[h].flow /\ req'[h].proof = req[h].proof
        /\ KeyLinks(req[h]) /\ req[h].proof \in Rows /\ now' = now
    BY <1>2, StepKeeps, KeyFlow, StepFrames DEF KeyInv, StepFrame, TicketFrame
  <2>2. /\ ~keys'[req'[h].id].held
        /\ req'[h].flow = "rotateKey" /\ req'[h].pc \in {"retireKey", "handOver"} =>
             keys'[req'[h].id].state = "active" /\ keys'[req'[h].id].until = 0
    BY <1>2, <2>1, MoverRow
  <2>3. req'[h].flow \in {"rotateKey", "revokeKey", "useKey"} => keys'[req'[h].proof].held
    BY <2>1, HeldRow DEF KeyLinks
  <2>4. req'[h].flow = "revokeKey" => "revokeKey" \in mix'.requests
    BY <2>1 DEF KeyLinks
  <2>5. req'[h].flow = "useKey" /\ req'[h].slip.late =>
          /\ req'[h].pc # "readRow" /\ req'[h].pc # "audit"
          /\ req'[h].pc = "judge" => Over(req'[h].slip.row)
    BY MoverJudges
  <2>6. Over(req'[h].slip.row) => Over(req[h].slip.row)'
    BY <2>1 DEF Over
  <2>. QED
    BY <2>2, <2>3, <2>4, <2>5, <2>6 DEF KeyLinks
<1>. QED
  BY <1>1, <1>2

(* The key to fall back on. *)
Good(n) ==
  /\ n \in Rows /\ keys[n].state = "active" /\ keys[n].until = 0
  /\ \/ keys[n].held
     \/ \E h \in Handlers : At(h, "handOver") /\ req[h].flow = "rotateKey" /\ req[h].id = n

LEMMA GoodForm == Supplied <=> \E n \in Rows : Good(n)
BY DEF Supplied, Good

LEMMA GoodFormAfter ==
  ASSUME mix' = mix, NEW n \in Rows, Good(n)'
  PROVE  Supplied'
BY TypesKept DEF Supplied, Good

LEMMA SupplyStep ==
  ASSUME TypeInv, KeyInv, OneHandler, mix' = mix, NEW h \in Handlers, Step(h), "revokeKey" \notin mix.requests
  PROVE  Supplied'
<1>1. PICK n \in Rows : Good(n)
  BY GoodForm DEF KeyInv
<1>2. Rows' = Rows
  BY TypesKept
<1>3. CASE At(h, "handOver") /\ n = req[h].id
  <2>1. PICK row \in KeyRow : /\ OneRow(req[h].id, row) /\ row.state = keys[req[h].id].state
                              /\ row.until = keys[req[h].id].until /\ row.held
    BY <1>3, StepPlace, HandOverEffect
  <2>2. keys'[n] = row
    BY <1>3, <2>1 DEF OneRow
  <2>3. Good(n)'
    BY <1>1, <1>2, <1>3, <2>1, <2>2 DEF Good
  <2>. QED
    BY <2>3, GoodFormAfter
<1>4. CASE ~(At(h, "handOver") /\ n = req[h].id) /\ keys'[n] = keys[n]
  <2>1. keys[n].held \/ \E g \in Handlers : g # h /\ At(g, "handOver") /\ req[g].flow = "rotateKey" /\ req[g].id = n
    BY <1>1, <1>4 DEF Good
  <2>2. keys'[n].held \/ \E g \in Handlers : At(g, "handOver")' /\ req'[g].flow = "rotateKey" /\ req'[g].id = n
    BY <1>4, <2>1, StepsAlone DEF At
  <2>3. Good(n)'
    BY <1>1, <1>2, <1>4, <2>2 DEF Good
  <2>. QED
    BY <2>3, GoodFormAfter
<1>5. CASE ~(At(h, "handOver") /\ n = req[h].id) /\ keys'[n] # keys[n]
  <2>1. keys[n].held
    <3>1. ASSUME ~keys[n].held PROVE FALSE
      <4>1. PICK g \in Handlers : At(g, "handOver") /\ req[g].id = n
        BY <1>1, <3>1 DEF Good
      <4>2. g # h
        BY <1>5, <4>1
      <4>3. keys'[n] = keys[n]
        BY <4>1, <4>2, OwnRow DEF At
      <4>. QED
        BY <1>5, <4>3
    <3>. QED
      BY <3>1
  <2>2. ~At(h, "createKey") \/ n # req[h].id
    BY <2>1 DEF KeyInv, KeyLinks, At
  <2>3. At(h, "retireKey") /\ n = req[h].proof
    <3>1. ~At(h, "markRevoked")
      BY KeyFlow DEF KeyInv, KeyLinks
    <3>. QED
      BY <1>5, <2>2, <3>1, RowStep
  <2>4. RetireKey(h)
    BY <2>3, StepPlace
  <2>5. keys' = keys \/ req'[h].pc = "handOver"
    BY <2>4, RetireKeyEffect
  <2>6. req'[h].pc = "handOver"
    BY <1>5, <2>5
  <2>7. req'[h].id = req[h].id /\ req'[h].flow = "rotateKey" /\ req[h].id \in Rows
    BY <2>3, <2>6, StepKeeps, KeyFlow
  <2>8. keys'[req[h].id].state = "active" /\ keys'[req[h].id].until = 0
    BY <2>6, <2>7, MoverRow
  <2>9. PICK m \in Rows : m = req[h].id
    BY <2>7
  <2>10. Good(m)'
    BY <1>2, <2>6, <2>7, <2>8, <2>9 DEF Good, At
  <2>. QED
    BY <2>10, GoodFormAfter
<1>. QED
  BY <1>3, <1>4, <1>5

LEMMA UnheldStep ==
  ASSUME TypeInv, KeyInv, mix' = mix, NEW h \in Handlers, Step(h), NEW n \in Ids, n > starts'
  PROVE  ~keys'[n].held
<1>1. ~keys[n].held /\ n \in Rows /\ n # req[h].id
  BY StepKeeps, KeyFlow DEF KeyInv, Rows, Ids
<1>2. keys'[n] = keys[n]
  BY <1>1, RowStep
<1>. QED
  BY <1>1, <1>2

(* Where the keys stay. *)
LEMMA KeyLinksQuiet ==
  ASSUME TypeInv, KeyInv, mix' = mix, UNCHANGED keys, NEW g \in Handlers, req'[g] = req[g],
         now <= now', now' \in Nat,
         \A k \in Handlers : \/ req'[k] = req[k]
                             \/ req'[k].flow # "rotateKey" \/ req'[k].pc \notin {"createKey", "retireKey"}
  PROVE  KeyLinks(req[g])'
<1>1. KeyLinks(req[g]) /\ req[g].proof \in Rows /\ req[g].id \in Rows /\ now \in Nat
  BY KeyFlow, Typed DEF KeyInv
<1>2. ASSUME NEW row \in KeyRow, Over(row)
      PROVE  row.state = "revoked" \/ (row.until # 0 /\ row.until <= now')
  <2>1. row.until \in Nat
    BY DEF KeyRow
  <2>. QED
    BY <1>1, <1>2, <2>1 DEF Over
<1>3. req[g].slip.row \in KeyRow /\ keys[req[g].proof] \in KeyRow
  BY <1>1, Typed, HandlerFields DEF Slip
<1>4. Over(req[g].slip.row) => Over(req[g].slip.row)'
  BY <1>2, <1>3 DEF Over
<1>5. KeyDead(req[g].proof) => KeyDead(req[g].proof)'
  <2>1. ASSUME NEW k \in Handlers, req'[k].flow = "rotateKey", req'[k].pc \in {"createKey", "retireKey"},
               req'[k].proof = req[g].proof, KeyDead(req[g].proof), keys[req[g].proof].state # "revoked"
        PROVE  req'[k].slip.row.until # 0 /\ req'[k].slip.row.until <= now'
    <3>1. req'[k] = req[k]
      BY <2>1
    <3>2. req[k].slip.row.until # 0 /\ req[k].slip.row.until <= now
      BY <2>1, <3>1 DEF KeyDead
    <3>. QED
      BY <1>1, <3>1, <3>2, RowFields
  <2>2. Over(keys[req[g].proof]) =>
          keys'[req[g].proof].state = "revoked" \/ (keys'[req[g].proof].until # 0 /\ keys'[req[g].proof].until <= now')
    BY <1>2, <1>3
  <2>. QED
    BY <2>1, <2>2 DEF KeyDead, Over
<1>. QED
  BY <1>1, <1>4, <1>5 DEF KeyLinks

LEMMA KeysNext == TypeInv /\ OneHandler /\ KeyInv /\ [Next]_vars => KeyInv'
<1>. SUFFICES ASSUME TypeInv, OneHandler, KeyInv, [Next]_vars PROVE KeyInv'
  OBVIOUS
<1>1. mix' = mix /\ Ids' = Ids /\ now \in Nat /\ starts \in Nat
  BY NextCases, Typed, TypesKept DEF vars, storeVars
<1>2. ASSUME NEW h \in Handlers, Step(h) PROVE KeyInv'
  <2>1. \A g \in Handlers : KeyLinks(req[g])'
    BY <1>1, <1>2, KeyMover, KeyOthers
  <2>2. \A n \in Ids' : n > starts' => ~keys'[n].held
    BY <1>1, <1>2, UnheldStep
  <2>3. "revokeKey" \notin mix'.requests => Supplied'
    BY <1>1, <1>2, SupplyStep
  <2>. QED
    BY <2>1, <2>2, <2>3 DEF KeyInv
<1>3. ASSUME NEW h \in Handlers, Enters(h) PROVE KeyInv'
  <2>1. /\ keys' = keys /\ now' = now /\ starts' = starts + 1 /\ starts + 1 \in Ids /\ req'[h].id = starts + 1
        /\ req[h].pc = "idle" /\ \A g \in Handlers : g # h => req'[g] = req[g]
        /\ req'[h].pc \notin {"retireKey", "handOver", "judge", "audit"}
        /\ NewKey(req'[h]) /\ Entrance(req'[h])
    BY <1>3 DEF Enters, Begins, Moved, At
  <2>2. req'[h].flow # "rotateKey" \/ req'[h].pc \notin {"createKey", "retireKey"}
    BY <2>1 DEF Entrance
  <2>3. \A g \in Handlers : g # h => KeyLinks(req[g])'
    BY <1>1, <2>1, <2>2, KeyLinksQuiet
  <2>4. KeyLinks(req[h])'
    <3>1. ~keys[starts + 1].held
      BY <1>1, <2>1 DEF KeyInv
    <3>2. KeyDead(req'[h].proof) => KeyDead(req[h].proof)'
      <4>1. \A g \in Handlers : req'[g].flow = "rotateKey" /\ req'[g].pc \in {"createKey", "retireKey"} => req'[g] = req[g]
        BY <2>1, <2>2
      <4>. QED
        BY <2>1, <4>1 DEF KeyDead, Over
    <3>3. /\ req'[h].flow \in {"rotateKey", "revokeKey", "useKey"} => keys'[req'[h].proof].held
          /\ req'[h].flow = "revokeKey" => "revokeKey" \in mix'.requests
          /\ ~keys'[req'[h].id].held
          /\ req'[h].flow = "useKey" /\ req'[h].slip.late => KeyDead(req[h].proof)'
      BY <1>1, <2>1, <3>1, <3>2 DEF NewKey, Entrance
    <3>. QED
      BY <2>1, <3>3 DEF KeyLinks
  <2>5. "revokeKey" \notin mix'.requests => Supplied'
    <3>1. HAVE "revokeKey" \notin mix'.requests
    <3>2. PICK n \in Rows : Good(n)
      BY <1>1, <3>1, GoodForm DEF KeyInv
    <3>3. Good(n)'
      BY <1>1, <2>1, <3>2, TypesKept DEF Good, At
    <3>. QED
      BY <1>1, <3>3, GoodFormAfter
  <2>6. \A n \in Ids' : n > starts' => ~keys'[n].held
    BY <1>1, <2>1 DEF KeyInv, Ids
  <2>. QED
    BY <2>3, <2>4, <2>5, <2>6 DEF KeyInv
<1>4. ASSUME UNCHANGED <<keys, req>>, now <= now', now' \in Nat, starts' \in Nat, starts <= starts'
      PROVE  KeyInv'
  <2>1. \A g \in Handlers : KeyLinks(req[g])'
    BY <1>1, <1>4, KeyLinksQuiet
  <2>2. "revokeKey" \notin mix'.requests => Supplied'
    BY <1>1, <1>4, TypesKept DEF KeyInv, Supplied, At
  <2>3. \A n \in Ids' : n > starts' => ~keys'[n].held
    BY <1>1, <1>4 DEF KeyInv, Ids
  <2>. QED
    BY <2>1, <2>2, <2>3 DEF KeyInv
<1>5. ASSUME Drifts PROVE KeyInv'
  BY <1>1, <1>4, <1>5 DEF Drifts
<1>6. CASE UNCHANGED vars
  BY <1>1, <1>4, <1>6 DEF vars, storeVars
<1>. QED
  BY <1>2, <1>3, <1>5, <1>6, NextCases

LEMMA KeysStart == Init => KeyInv
<1>. SUFFICES ASSUME Init PROVE KeyInv
  OBVIOUS
<1>1. /\ keys = [n \in Rows |-> [NoKey EXCEPT !.state = IF n = 0 THEN "active" ELSE "none", !.held = n = 0]]
      /\ req = [h \in Handlers |-> Idle] /\ starts = 0
  BY DEF Init, StoreInit, KeyInit
<1>2. keys[0].state = "active" /\ keys[0].until = 0 /\ keys[0].held /\ 0 \in Rows
  BY <1>1 DEF Rows, NoKey
<1>3. \A n \in Ids : ~keys[n].held
  <2>. TAKE n \in Ids
  <2>1. n \in Rows /\ n # 0
    BY DEF Rows, Ids
  <2>2. (n = 0) = FALSE
    BY <2>1
  <2>. QED
    BY <1>1, <2>1, <2>2 DEF NoKey
<1>4. \A h \in Handlers : KeyLinks(req[h])
  BY <1>1 DEF KeyLinks, Idle
<1>. QED
  BY <1>2, <1>3, <1>4 DEF KeyInv, Supplied

LEMMA KeyReach == Spec => [](TypeInv /\ OneHandler /\ KeyInv)
BY TypeStart, TypeNext, OneStart, OneNext, KeysStart, KeysNext, PTL DEF Spec

(* A rotation never leaves its caller without a key that works              *)
(* (ApiKeyService.rotate).                                                  *)
THEOREM AlwaysAKey == Spec => []KeyInHand
<1>1. KeyInv => KeyInHand
  <2>. SUFFICES ASSUME KeyInv, "revokeKey" \notin mix.requests, Supplied PROVE KeyInHand
    BY DEF KeyInv, KeyInHand
  <2>. QED
    BY DEF Supplied, KeyInHand, Active
<1>. QED
  BY <1>1, KeyReach, PTL

-----------------------------------------------------------------------------
(* A token against the clock *)

LEMMA TokenTypes ==
  ASSUME TypeInv
  PROVE  /\ now \in Nat /\ TokenLife \in Nat /\ TokenLife > 0 /\ ws.black \in Nat
         /\ ws.tickets \in [Ids -> Nat] /\ redis.epoch[Owner] \in Nat /\ Owner \in Users
         /\ \A h \in Handlers : req[h].slip.since \in Nat /\ req[h].slip.life \in Nat
<1>1. \A h \in Handlers : req[h].slip.since \in Nat /\ req[h].slip.life \in Nat
  BY Typed, HandlerFields DEF Slip
<1>2. ws.black \in Nat /\ ws.tickets \in [Ids -> Nat]
  BY Typed DEF Sockets
<1>3. Owner \in Users
  BY DEF Users
<1>. QED
  BY <1>1, <1>2, <1>3, Typed, CountTypes, TicketAssumption

(* Once revoked, a token stays revoked. *)
Hardens ==
  /\ ws.out => ws'.out
  /\ redis.epoch[Owner] > 0 => redis'.epoch[Owner] > 0
  /\ now <= now' /\ now' \in Nat

LEMMA LateQuiet ==
  ASSUME TypeInv, TicketInv, Hardens, NEW g \in Handlers, req'[g] = req[g],
         At(g, "mintTicket") => now' <= req[g].slip.since + 2
  PROVE  Late(req[g])'
<1>1. Late(req[g]) /\ req[g].slip.since \in Nat /\ req[g].slip.life \in Nat /\ now \in Nat /\ TokenLife \in Nat
  BY TokenTypes DEF TicketInv
<1>2. (Ended => Ended') /\ (Outlived => Outlived')
  BY <1>1 DEF Ended, Outlived, Hardens
<1>3. now <= now' /\ now' \in Nat /\ (redis.epoch[Owner] > 0 => redis'.epoch[Owner] > 0)
  BY DEF Hardens
<1>. QED
  BY <1>1, <1>2, <1>3 DEF Late, OfToken, At

LEMMA IdleLate == /\ ~Idle.slip.late /\ ~OfToken(Idle) /\ Idle.pc = "idle"
BY DEF Idle, NoSlip, OfToken

LEMMA StepHardens ==
  ASSUME TypeInv, NEW h \in Handlers, Step(h)
  PROVE  Hardens /\ now' = now
<1>1. now' = now /\ (ws.out => ws'.out)
  <2>1. CASE At(h, "revokeToken")
    BY <2>1, StepPlace, StepFrames, BlacklistEffect DEF StepFrame, TicketFrame
  <2>2. CASE ~At(h, "revokeToken")
    BY <2>2, StepFrames DEF StepFrame, TicketFrame, At
  <2>. QED
    BY <2>1, <2>2
<1>2. redis.epoch[Owner] > 0 => redis'.epoch[Owner] > 0
  <2>1. redis.epoch[Owner] <= redis'.epoch[Owner] /\ redis'.epoch[Owner] \in Nat
    BY StepGrows, StepFrames, TokenTypes, CountTypesAfter DEF Grows, StepFrame, StoreFrame
  <2>. QED
    BY <2>1, TokenTypes
<1>. QED
  BY <1>1, <1>2, TokenTypes DEF Hardens

(* A step on behalf of a token, from each place it is checked at. *)
LEMMA TokenPlaces ==
  ASSUME TypeInv, NEW h \in Handlers, Step(h), req'[h].pc # "idle", OfToken(req[h])
  PROVE  /\ OfToken(req'[h]) /\ req'[h].user = req[h].user
         /\ req'[h].pc \notin {"getdel", "revokeToken"}
         /\ req'[h].pc = "blacklist" => At(h, "getdel")
         /\ req'[h].pc = "bulk" => At(h, "blacklist")
         /\ req'[h].pc = "mintTicket" => At(h, "measure")
         /\ ~At(h, "measure") => req'[h].slip = req[h].slip
         /\ req'[h].pc \notin {"blacklist", "bulk"} => ~At(h, "getdel") /\ ~At(h, "blacklist")
<1>1. Follows(req'[h], req[h]) /\ req'[h] # Idle /\ req'[h].flow = req[h].flow
  BY StepKeeps
<1>2. Leads(req[h].pc, req'[h].pc)
  BY <1>1 DEF Follows
<1>3. req[h].pc \in {"blacklist", "bulk", "getStatus", "getVerified", "resolve", "setStatus", "setVerified",
                     "lookUp", "measure", "mintTicket", "getdel", "pass"}
  BY OldLinks DEF FlowLinks, OnPath, OfToken
<1>4. req'[h].user = req[h].user /\ (~At(h, "measure") => req'[h].slip = req[h].slip)
  BY <1>1, <1>3 DEF Follows, At
<1>5. OfToken(req'[h])
  BY <1>1 DEF OfToken
<1>6. /\ req'[h].pc \notin {"getdel", "revokeToken"}
      /\ req'[h].pc = "blacklist" => At(h, "getdel")
      /\ req'[h].pc = "bulk" => At(h, "blacklist")
      /\ req'[h].pc = "mintTicket" => At(h, "measure")
      /\ req'[h].pc \notin {"blacklist", "bulk"} => ~At(h, "getdel") /\ ~At(h, "blacklist")
  BY <1>2 DEF Leads, At
<1>. QED
  BY <1>4, <1>5, <1>6

(* What each of those places adds. *)
LEMMA MeasureLate ==
  ASSUME TypeInv, TicketInv, NEW h \in Handlers, Step(h), At(h, "measure"), OfToken(req[h]), req'[h].pc # "idle"
  PROVE  /\ ~req'[h].slip.late /\ req'[h].pc = "mintTicket" /\ req'[h].slip.since = now /\ now < 2 * TokenLife
         /\ 2 * req'[h].slip.life + 2 + now <= 2 * TokenLife
<1>1. /\ Lifetime > 0 /\ req'[h].pc = "mintTicket" /\ req'[h].slip.life = Lifetime
      /\ req'[h].slip.since = now /\ req'[h].slip.late = req[h].slip.late
  BY StepPlace, MeasureEffect
<1>2. Lifetime \in Int /\ Lifetime <= TokenLife - Ceil - 1 /\ Ceil \in Nat /\ now <= 2 * Ceil
  BY LifetimeType
<1>3. now < 2 * TokenLife /\ 2 * Lifetime + 2 + now <= 2 * TokenLife
  BY <1>1, <1>2, TokenTypes
<1>4. req[h].slip.late => Outlived
  BY DEF TicketInv, Late, At
<1>5. ~req[h].slip.late
  BY <1>3, <1>4, TokenTypes DEF Outlived
<1>. QED
  BY <1>1, <1>3, <1>5

LEMMA GetdelLate ==
  ASSUME TypeInv, TicketInv, NEW h \in Handlers, Step(h), At(h, "getdel"), OfToken(req[h]), req'[h].pc # "idle"
  PROVE  /\ req[h].slip.since < 2 * TokenLife
         /\ req[h].slip.late => Ended
<1>1. PICK n : n = req[h].proof
  OBVIOUS
<1>2. n \in Ids /\ now < ws.tickets[n]
  <2>1. TakeTicket(h)
    BY StepPlace
  <2>2. /\ n \in Ids
        /\ \/ Ends(h) /\ ws' = ws /\ seen' = seen
           \/ /\ now < ws.tickets[n] /\ ws'.tickets = [ws.tickets EXCEPT ![n] = 0]
              /\ seen'.spent = [seen.spent EXCEPT ![n] = seen.spent[n] + 1]
              /\ req'[h].pc = "blacklist"
    BY <1>1, <2>1, TakeTicketEffect
  <2>3. ~Ends(h)
    BY DEF Ends, Idle
  <2>. QED
    BY <2>2, <2>3
<1>3. ws.tickets[n] <= 2 * TokenLife /\ ws.tickets[n] \in Nat
  BY <1>2, TokenTypes DEF TicketInv
<1>4. /\ req[h].slip.since <= now
      /\ req[h].slip.late => Ended \/ req[h].slip.since >= 2 * TokenLife
  BY DEF TicketInv, Late, At
<1>. QED
  BY <1>2, <1>3, <1>4, TokenTypes

LEMMA BlacklistLate ==
  ASSUME TypeInv, TicketInv, NEW h \in Handlers, Step(h), At(h, "blacklist"), OfToken(req[h]), req'[h].pc # "idle",
         req[h].slip.late
  PROVE  redis.epoch[Owner] > 0 \/ Outlived
<1>1. ~(now < ws.black)
  <2>1. ReadBlacklist(h)
    BY StepPlace
  <2>2. ASSUME now < ws.black PROVE FALSE
    <3>1. Finish(h) /\ starts' = starts
      BY <2>1, <2>2 DEF ReadBlacklist
    <3>. QED
      BY <3>1, FinishEnds DEF Ends, Idle
  <2>. QED
    BY <2>2
<1>2. Ended /\ (ws.out => ws.black >= 2 * TokenLife)
  BY DEF TicketInv, Late, At
<1>. QED
  BY <1>1, <1>2, TokenTypes DEF Ended, Outlived

LEMMA BulkLate ==
  ASSUME TypeInv, TicketInv, NEW h \in Handlers, Step(h), At(h, "bulk"), OfToken(req[h]), req'[h].pc # "idle",
         req[h].slip.late
  PROVE  Outlived
<1>1. req[h].user = Owner /\ (redis.epoch[Owner] > 0 \/ Outlived)
  BY DEF TicketInv, Late, At
<1>2. ~(redis.epoch[Owner] > 0)
  <2>1. ReadEpoch(h)
    BY StepPlace
  <2>2. ASSUME redis.epoch[Owner] > 0 PROVE FALSE
    <3>1. Finish(h) /\ starts' = starts
      BY <1>1, <2>1, <2>2 DEF ReadEpoch
    <3>. QED
      BY <3>1, FinishEnds DEF Ends, Idle
  <2>. QED
    BY <2>2
<1>. QED
  BY <1>1, <1>2

LEMMA TokenMoves ==
  ASSUME TypeInv, TicketInv, NEW h \in Handlers, Step(h), req'[h].pc # "idle", OfToken(req[h])
  PROVE  Late(req[h])'
<1>1. /\ OfToken(req'[h]) /\ req'[h].user = Owner /\ req'[h].pc \notin {"getdel", "revokeToken"}
      /\ req[h].slip.since <= now /\ now' = now /\ Hardens
  BY TokenPlaces, StepHardens DEF TicketInv, Late
<1>2. CASE At(h, "measure")
  <2>1. /\ ~req'[h].slip.late /\ req'[h].pc = "mintTicket" /\ req'[h].slip.since = now /\ now < 2 * TokenLife
        /\ 2 * req'[h].slip.life + 2 + now <= 2 * TokenLife
    BY <1>2, MeasureLate
  <2>2. now \in Nat /\ now <= now + 2
    BY TokenTypes
  <2>. QED
    BY <1>1, <2>1, <2>2 DEF Late, OfToken
<1>3. CASE ~At(h, "measure")
  <2>1. /\ req'[h].slip = req[h].slip /\ req'[h].pc # "mintTicket"
        /\ req'[h].pc = "blacklist" => At(h, "getdel")
        /\ req'[h].pc = "bulk" => At(h, "blacklist")
        /\ req'[h].pc \notin {"blacklist", "bulk"} => ~At(h, "getdel") /\ ~At(h, "blacklist")
    BY <1>3, TokenPlaces
  <2>2. req[h].slip.since < 2 * TokenLife
    BY GetdelLate DEF TicketInv, Late, At
  <2>3. (Ended => Ended') /\ (Outlived => Outlived') /\ (redis.epoch[Owner] > 0 => redis'.epoch[Owner] > 0)
    BY <1>1 DEF Hardens, Ended, Outlived
  <2>4. req[h].slip.late /\ req'[h].pc = "blacklist" => Ended
    BY <2>1, GetdelLate
  <2>5. req[h].slip.late /\ req'[h].pc = "bulk" => redis.epoch[Owner] > 0 \/ Outlived
    BY <2>1, BlacklistLate
  <2>6. req[h].slip.late /\ req'[h].pc \notin {"blacklist", "bulk"} => Outlived
    <3>1. req[h].slip.late /\ req[h].pc \notin {"getdel", "blacklist", "bulk"} => Outlived
      BY DEF TicketInv, Late
    <3>. QED
      BY <2>1, <3>1, BulkLate DEF At
  <2>. QED
    BY <1>1, <2>1, <2>2, <2>3, <2>4, <2>5, <2>6 DEF Late, OfToken
<1>. QED
  BY <1>2, <1>3

LEMMA OtherMoves ==
  ASSUME TypeInv, TicketInv, NEW h \in Handlers, Step(h), req'[h].pc # "idle", ~OfToken(req[h])
  PROVE  Late(req[h])'
<1>1. /\ Follows(req'[h], req[h]) /\ req'[h] # Idle /\ req'[h].flow = req[h].flow
      /\ OnPath(req'[h].flow, req'[h].pc)
  BY StepKeeps, StepFrames DEF StepFrame, Advances, FlowLinks
<1>2. req'[h].pc # "mintTicket" /\ req'[h].pc # "revokeToken"
  <2>1. req'[h].pc # "mintTicket"
    BY <1>1 DEF OnPath, OfToken
  <2>2. req'[h].pc # "revokeToken"
    BY <1>1 DEF Follows, Leads
  <2>. QED
    BY <2>1, <2>2
<1>3. req'[h].slip.late = req[h].slip.late
  <2>1. CASE At(h, "findKey")
    <3>1. req'[h].slip = [req[h].slip EXCEPT !.row = keys[req[h].proof]]
      BY <1>1, <2>1, StepPlace, FindKeyEffect DEF Idle, Follows, Leads
    <3>. QED
      BY <3>1, RowFields, KeyFlow DEF Slip
  <2>2. CASE At(h, "readRow")
    <3>1. req'[h].slip = [req[h].slip EXCEPT !.row = keys[req[h].proof]]
      BY <2>2, StepPlace, ReadRowEffect
    <3>. QED
      BY <3>1, RowFields, KeyFlow DEF Slip
  <2>3. CASE At(h, "measure")
    BY <2>3, OldLinks DEF FlowLinks, OnPath, OfToken, At
  <2>4. CASE req[h].pc \notin {"measure", "findKey", "readRow"}
    BY <1>1, <2>4 DEF Follows
  <2>. QED
    BY <2>1, <2>2, <2>3, <2>4 DEF At
<1>4. req[h].slip.late => req[h].flow = "useKey"
  BY DEF TicketInv, Late
<1>5. ~OfToken(req'[h])
  BY <1>1 DEF OfToken
<1>. QED
  BY <1>1, <1>2, <1>3, <1>4, <1>5 DEF Late, OfToken

LEMMA TicketsStep ==
  ASSUME TypeInv, TicketInv, mix' = mix, NEW h \in Handlers, Step(h)
  PROVE  TicketInv'
<1>1. Hardens /\ now' = now /\ TicketFrame(req[h].pc) /\ Ids' = Ids
  BY StepHardens, StepFrames, TypesKept DEF StepFrame
<1>2. ASSUME NEW g \in Handlers PROVE Late(req[g])'
  <2>1. CASE g # h
    <3>1. At(g, "mintTicket") => now' <= req[g].slip.since + 2
      BY <1>1 DEF TicketInv, Late, At
    <3>. QED
      BY <1>1, <2>1, <3>1, StepsAlone, LateQuiet
  <2>2. CASE g = h /\ req'[h].pc # "idle"
    BY <2>2, TokenMoves, OtherMoves
  <2>3. CASE g = h /\ req'[h].pc = "idle"
    <3>1. req'[h] = Idle
      BY <2>3, StepFrames DEF StepFrame, Advances, FlowLinks
    <3>. QED
      BY <2>3, <3>1, IdleLate DEF Late, OfToken
  <2>. QED
    BY <2>1, <2>2, <2>3
<1>3. ASSUME NEW n \in Ids PROVE ws'.tickets[n] <= 2 * TokenLife
  <2>1. ws.tickets[n] <= 2 * TokenLife
    BY DEF TicketInv
  <2>2. CASE At(h, "mintTicket")
    <3>1. /\ req[h].id \in Ids
          /\ ws'.tickets = [ws.tickets EXCEPT ![req[h].id] = now + 2 * req[h].slip.life]
      BY <2>2, StepPlace, MintTicketEffect
    <3>2. now <= req[h].slip.since + 2 /\ 2 * req[h].slip.life + 2 + req[h].slip.since <= 2 * TokenLife
      BY <2>2 DEF TicketInv, Late, At
    <3>3. now + 2 * req[h].slip.life <= 2 * TokenLife
      BY <3>2, TokenTypes
    <3>. QED
      BY <2>1, <3>1, <3>3, TokenTypes
  <2>3. CASE At(h, "getdel")
    <3>1. PICK m : m = req[h].proof
      OBVIOUS
    <3>2. TakeTicket(h)
      BY <2>3, StepPlace
    <3>3. ws' = ws \/ (ws'.tickets = [ws.tickets EXCEPT ![m] = 0])
      BY <3>1, <3>2, TakeTicketEffect
    <3>. QED
      BY <2>1, <3>3, TokenTypes
  <2>4. CASE req[h].pc \notin {"mintTicket", "getdel"}
    BY <1>1, <2>1, <2>4 DEF TicketFrame
  <2>. QED
    BY <2>2, <2>3, <2>4 DEF At
<1>4. ws'.out => ws'.black >= 2 * TokenLife
  <2>1. CASE At(h, "revokeToken")
    <3>1. ws'.black = now + 2 * req[h].slip.life
      BY <2>1, StepPlace, BlacklistEffect
    <3>2. 2 * req[h].slip.life + now >= 2 * TokenLife
      BY <2>1 DEF TicketInv, Late, At
    <3>. QED
      BY <3>1, <3>2, TokenTypes
  <2>2. CASE ~At(h, "revokeToken")
    BY <1>1, <2>2 DEF TicketFrame, TicketInv, At
  <2>. QED
    BY <2>1, <2>2
<1>. QED
  BY <1>1, <1>2, <1>3, <1>4 DEF TicketInv

LEMMA TicketsNext == TypeInv /\ TicketInv /\ [Next]_vars => TicketInv'
<1>. SUFFICES ASSUME TypeInv, TicketInv, [Next]_vars PROVE TicketInv'
  OBVIOUS
<1>1. mix' = mix /\ Ids' = Ids
  BY NextCases, TypesKept DEF vars, storeVars
<1>2. ASSUME NEW h \in Handlers, Enters(h) PROVE TicketInv'
  <2>1. /\ redis' = redis /\ ws' = ws /\ now' = now /\ Late(req'[h]) /\ \A g \in Handlers : g # h => req'[g] = req[g]
    BY <1>2 DEF Enters, Begins, Moved
  <2>2. \A g \in Handlers : Late(req'[g])
    BY <2>1 DEF TicketInv
  <2>3. \A g \in Handlers : Late(req[g])'
    BY <2>1, <2>2 DEF Late, Ended, Outlived, OfToken
  <2>. QED
    BY <1>1, <2>1, <2>3 DEF TicketInv
<1>3. ASSUME UNCHANGED <<ws, req>>, redis'.epoch = redis.epoch, now <= now', now' \in Nat,
             \A h \in Handlers : At(h, "mintTicket") => now' <= req[h].slip.since + 2
      PROVE  TicketInv'
  <2>1. Hardens
    BY <1>3 DEF Hardens
  <2>2. \A g \in Handlers : Late(req[g])'
    BY <1>3, <2>1, LateQuiet
  <2>. QED
    BY <1>1, <1>3, <2>2 DEF TicketInv
<1>4. \A h \in Handlers : At(h, "mintTicket") => now <= req[h].slip.since + 2
  BY DEF TicketInv, Late, At
<1>5. ASSUME Drifts PROVE TicketInv'
  <2>1. UNCHANGED <<ws, req>> /\ redis'.epoch = redis.epoch
    BY <1>5 DEF Drifts, KeysBut
  <2>2. now <= now' /\ now' \in Nat /\ \A h \in Handlers : At(h, "mintTicket") => now' <= req[h].slip.since + 2
    <3>1. \/ now' = now
          \/ now' = now + 1 /\ \A h \in Handlers : At(h, "mintTicket") => now < req[h].slip.since + 2
      BY <1>5 DEF Drifts
    <3>. QED
      BY <1>4, <3>1, TokenTypes
  <2>. QED
    BY <1>3, <2>1, <2>2
<1>6. CASE UNCHANGED vars
  BY <1>3, <1>4, <1>6, TokenTypes DEF vars, storeVars
<1>. QED
  BY <1>1, <1>2, <1>5, <1>6, NextCases, TicketsStep

LEMMA TicketsStart == Init => TicketInv
<1>. SUFFICES ASSUME Init PROVE TicketInv
  OBVIOUS
<1>1. /\ ws = [tickets |-> [n \in Ids |-> 0], black |-> 0, out |-> FALSE] /\ req = [h \in Handlers |-> Idle]
  BY DEF Init, StoreInit, TicketInit
<1>2. TokenLife \in Nat
  BY TicketAssumption
<1>3. \A h \in Handlers : Late(req[h])
  BY <1>1, IdleLate DEF Late, OfToken
<1>. QED
  BY <1>1, <1>2, <1>3 DEF TicketInv

(* Nothing dead when it was presented is let through, but for a token that  *)
(* expires while it is being checked (AuthRevocationService,                *)
(* WsTicketService, ApiKeyGuard).                                           *)
THEOREM DeadRefused == Spec => []RevokedRefused
<1>1. TypeInv /\ KeyInv /\ TicketInv => RevokedRefused
  <2>. SUFFICES ASSUME TypeInv, KeyInv, TicketInv, NEW h \in Handlers, req[h].slip.late
                PROVE  /\ req[h].pc \notin {"mintTicket", "audit"}
                       /\ At(h, "pass") => req[h].slip.since < 2 * TokenLife /\ ~Unexpired
    BY DEF RevokedRefused
  <2>1. OnPath(req[h].flow, req[h].pc) /\ (OfToken(req[h]) \/ req[h].flow = "useKey")
    BY OldLinks DEF FlowLinks, TicketInv, Late
  <2>2. CASE OfToken(req[h])
    <3>1. req[h].pc \notin {"mintTicket", "audit"}
      BY <2>1, <2>2 DEF OnPath, OfToken, TicketInv, Late
    <3>2. At(h, "pass") => req[h].slip.since < 2 * TokenLife /\ Outlived
      BY <2>2 DEF TicketInv, Late, At
    <3>3. Outlived => ~Unexpired
      BY Clock, TokenTypes DEF Outlived
    <3>. QED
      BY <3>1, <3>2, <3>3
  <2>3. CASE req[h].flow = "useKey"
    BY <2>1, <2>3 DEF OnPath, KeyInv, KeyLinks, At
  <2>. QED
    BY <2>1, <2>2, <2>3
<1>. QED
  BY <1>1, KeyReach, TypeStart, TypeNext, TicketsStart, TicketsNext, PTL DEF Spec

-----------------------------------------------------------------------------
(* Codes, links, invitations, states and tickets *)

(* What handlers do not leave but to begin again. *)
Closed(S) == "idle" \in S /\ \A a \in S : \A b : Leads(a, b) => b \in S

LEMMA ClosedSets == Closed(Drawn) /\ Closed(Settled)
<1>1. Closed(Drawn)
  BY DEF Closed, Drawn, Leads
<1>2. Closed(Settled)
  BY DEF Closed, Settled, Leads
<1>. QED
  BY <1>1, <1>2

(* A value whose handler is past drawing it stays drawn. *)
LEMMA BegunKept ==
  ASSUME TypeInv, [Next]_vars, NEW S, Closed(S), NEW n \in Nat, Begun(n, S)
  PROVE  Begun(n, S)'
<1>1. n <= starts /\ (\A k \in Handlers : req[k].pc \notin S => req[k].id # n) /\ starts \in Nat
  BY Typed DEF Begun
<1>2. ASSUME NEW h \in Handlers, Enters(h) PROVE Begun(n, S)'
  <2>1. starts' = starts + 1 /\ req'[h].id = starts + 1 /\ \A k \in Handlers : k # h => req'[k] = req[k]
    BY <1>2 DEF Enters, Begins, Moved
  <2>. QED
    BY <1>1, <2>1 DEF Begun
<1>3. ASSUME NEW h \in Handlers, Step(h) PROVE Begun(n, S)'
  <2>1. /\ starts' = starts /\ Follows(req'[h], req[h])
        /\ req'[h].pc # "idle" => req'[h].id = req[h].id /\ req'[h] # Idle
    BY <1>3, StepKeeps
  <2>2. req'[h].pc \notin S => req[h].pc \notin S /\ req'[h].id = req[h].id
    BY <2>1 DEF Follows, Closed
  <2>. QED
    BY <1>1, <1>3, <2>1, <2>2, StepsAlone DEF Begun
<1>4. CASE Drifts
  BY <1>1, <1>4 DEF Drifts, Begun
<1>5. CASE UNCHANGED vars
  BY <1>1, <1>5 DEF vars, storeVars, Begun
<1>. QED
  BY <1>2, <1>3, <1>4, <1>5, NextCases

LEMMA StepBegun ==
  ASSUME TypeInv, NEW h \in Handlers, Step(h), NEW S, Closed(S), NEW n \in Nat, Begun(n, S)
  PROVE  Begun(n, S)'
<1>1. n <= starts /\ (\A k \in Handlers : req[k].pc \notin S => req[k].id # n)
  BY DEF Begun
<1>2. /\ starts' = starts /\ Follows(req'[h], req[h])
      /\ req'[h].pc # "idle" => req'[h].id = req[h].id /\ req'[h] # Idle
  BY StepKeeps
<1>3. req'[h].pc \notin S => req[h].pc \notin S /\ req'[h].id = req[h].id
  BY <1>2 DEF Follows, Closed
<1>. QED
  BY <1>1, <1>2, <1>3, StepsAlone DEF Begun

(* A handler that gets past it leaves nobody before it. *)
LEMMA BegunNow ==
  ASSUME TypeInv, OneHandler, NEW h \in Handlers, Step(h), NEW S, "idle" \in S, req'[h].pc \in S,
         NEW n, n = req[h].id
  PROVE  Begun(n, S)'
<1>1. /\ req[h].pc # "idle" /\ starts' = starts /\ n <= starts
  BY StepKeeps, KeyFlow
<1>2. ASSUME NEW g \in Handlers, req'[g].pc \notin S, req'[g].id = n PROVE FALSE
  <2>1. g # h /\ req'[g] = req[g]
    BY <1>2, StepsAlone
  <2>2. req[g].pc # "idle"
    BY <1>2, <2>1
  <2>. QED
    BY <1>1, <1>2, <2>1, <2>2 DEF OneHandler, At
<1>. QED
  BY <1>1, <1>2 DEF Begun

Once(n) == ProofLinks(n) /\ (~Begun(n, Drawn) => Unused(n))

LEMMA CodeLimits ==
  /\ NoCode.code = 0 /\ NoCode.tries = 0 /\ MaxCodeAttempts \in Nat /\ MaxCodeAttempts > 0
BY AccountAssumption DEF NoCode

LEMMA IdTypes ==
  ASSUME TypeInv, NEW n \in Ids
  PROVE  /\ seen.spent[n] \in Nat /\ seen.wrong[n] \in Nat /\ ws.tickets[n] \in Nat /\ n \in Nat /\ n # 0
         /\ \A k \in Purposes \X Emails : redis.otp[k].tries \in Nat /\ redis.otp[k].code \in {0} \cup Ids
<1>1. n \in Nat /\ n # 0
  BY DEF Ids
<1>2. \A k \in Purposes \X Emails : redis.otp[k].tries \in Nat /\ redis.otp[k].code \in {0} \cup Ids
  <2>. TAKE k \in Purposes \X Emails
  <2>1. redis.otp[k] \in [code : {0} \cup Ids, tries : Nat]
    BY CodeTypes
  <2>. QED
    BY <2>1
<1>3. seen.spent[n] \in Nat /\ seen.wrong[n] \in Nat
  BY Typed, SeenFields
<1>4. ws.tickets[n] \in Nat
  BY TokenTypes
<1>. QED
  BY <1>1, <1>2, <1>3, <1>4

LEMMA ProofQuiet ==
  ASSUME NEW n \in Ids, Once(n), Begun(n, Drawn) => Begun(n, Drawn)',
         seen'.spent[n] = seen.spent[n], seen'.wrong[n] = seen.wrong[n],
         n \in seen'.mailed => n \in seen.mailed \/ Begun(n, Drawn)',
         redis'.vault[n] \in {redis.vault[n], NoEntry}, ws'.tickets[n] \in {ws.tickets[n], 0},
         \A k \in Purposes \X Emails : redis'.otp[k].code = n => redis'.otp[k] = redis.otp[k]
  PROVE  Once(n)'
<1>1. ProofLinks(n)'
  BY DEF Once, ProofLinks
<1>2. ~Begun(n, Drawn)' => Unused(n)'
  BY DEF Once, Unused
<1>. QED
  BY <1>1, <1>2 DEF Once

LEMMA OnceForm ==
  /\ IdInv <=> /\ OneHandler /\ \A n \in Ids : Once(n)
               /\ \A k \in Purposes \X Emails : redis.otp[k].tries <= MaxCodeAttempts
BY DEF IdInv, Once

LEMMA OnceFormAfter ==
  ASSUME mix' = mix, OneHandler', \A n \in Ids : Once(n)',
         \A k \in Purposes \X Emails : redis'.otp[k].tries <= MaxCodeAttempts
  PROVE  IdInv'
BY TypesKept DEF IdInv, Once

(* A value its handler is about to draw is nowhere yet. *)
LEMMA NotYet ==
  ASSUME TypeInv, IdInv, NEW h \in Handlers, req[h].pc \notin Drawn, NEW n \in Ids, n = req[h].id
  PROVE  Unused(n)
BY DEF IdInv, Begun

(* What keeps a value as it is, whichever step is taken. *)
LEMMA StepId ==
  ASSUME TypeInv, IdInv, NEW h \in Handlers, Step(h), NEW n \in Ids
  PROVE  /\ Once(n) /\ OneHandler /\ (Begun(n, Drawn) => Begun(n, Drawn)')
         /\ StoreFrame(req[h].pc) /\ TicketFrame(req[h].pc) /\ n \in Nat
<1>1. n \in Nat
  BY IdTypes
<1>2. Begun(n, Drawn) => Begun(n, Drawn)'
  BY <1>1, StepBegun, ClosedSets
<1>. QED
  BY <1>1, <1>2, OnceForm, StepFrames DEF StepFrame

LEMMA MintOnce ==
  ASSUME TypeInv, IdInv, NEW h \in Handlers, Step(h), At(h, "mint"), NEW n \in Ids
  PROVE  Once(n)'
<1>1. /\ Once(n) /\ OneHandler /\ (Begun(n, Drawn) => Begun(n, Drawn)')
      /\ StoreFrame(req[h].pc) /\ TicketFrame(req[h].pc)
  BY StepId
<1>2. /\ seen'.spent = seen.spent /\ seen'.wrong = seen.wrong /\ redis'.otp = redis.otp
      /\ ws'.tickets = ws.tickets
  BY <1>1 DEF StoreFrame, TicketFrame, At
<1>3. /\ req[h].id \in Ids
      /\ redis'.vault = [redis.vault EXCEPT ![req[h].id] = req[h].data]
      /\ (seen'.mailed = seen.mailed \cup {req[h].id} \/ seen'.mailed = seen.mailed)
      /\ (Ends(h) \/ req'[h].pc \in {"confirm", "mail"})
  BY StepPlace, MintEffect
<1>4. req'[h].pc \in Drawn
  BY <1>3 DEF Ends, Idle, Drawn
<1>5. redis.vault \in [Ids -> Entry]
  BY Typed, RedisFields
<1>6. CASE n = req[h].id
  <2>1. Unused(n)
    BY <1>6, NotYet DEF At, Drawn
  <2>2. Begun(n, Drawn)'
    BY <1>1, <1>4, <1>6, BegunNow DEF Drawn
  <2>3. ProofLinks(n)'
    BY <1>1, <1>2, <2>1 DEF Once, ProofLinks, Unused
  <2>. QED
    BY <2>2, <2>3 DEF Once
<1>7. CASE n # req[h].id
  <2>1. redis'.vault[n] = redis.vault[n] /\ (n \in seen'.mailed => n \in seen.mailed)
    BY <1>3, <1>5, <1>7
  <2>. QED
    BY <1>1, <1>2, <2>1, ProofQuiet
<1>. QED
  BY <1>6, <1>7

LEMMA MintTicketOnce ==
  ASSUME TypeInv, IdInv, NEW h \in Handlers, Step(h), At(h, "mintTicket"), NEW n \in Ids
  PROVE  Once(n)'
<1>1. /\ Once(n) /\ OneHandler /\ (Begun(n, Drawn) => Begun(n, Drawn)')
      /\ StoreFrame(req[h].pc) /\ TicketFrame(req[h].pc)
  BY StepId
<1>. DEFINE life == now + 2 * req[h].slip.life
<1>2. /\ req[h].id \in Ids /\ redis' = redis /\ Ends(h)
      /\ ws'.tickets = [ws.tickets EXCEPT ![req[h].id] = life]
      /\ seen'.mailed = seen.mailed \cup {req[h].id}
  BY StepPlace, MintTicketEffect
<1>. HIDE DEF life
<1>3. seen'.spent = seen.spent /\ seen'.wrong = seen.wrong
  BY <1>1 DEF StoreFrame, At
<1>4. req'[h].pc \in Drawn
  BY <1>2 DEF Ends, Idle, Drawn
<1>5. ws.tickets \in [Ids -> Nat]
  BY TokenTypes
<1>6. CASE n = req[h].id
  <2>1. Unused(n)
    BY <1>6, NotYet DEF At, Drawn
  <2>2. Begun(n, Drawn)'
    BY <1>1, <1>4, <1>6, BegunNow DEF Drawn
  <2>3. ProofLinks(n)'
    BY <1>1, <1>2, <1>3, <2>1 DEF Once, ProofLinks, Unused
  <2>. QED
    BY <2>2, <2>3 DEF Once
<1>7. CASE n # req[h].id
  <2>1. ws'.tickets[n] = ws.tickets[n] /\ (n \in seen'.mailed => n \in seen.mailed)
    BY <1>2, <1>5, <1>7
  <2>. QED
    BY <1>1, <1>2, <1>3, <2>1, ProofQuiet
<1>. QED
  BY <1>6, <1>7

LEMMA CodeOnce ==
  ASSUME TypeInv, IdInv, NEW h \in Handlers, Step(h), At(h, "code"), NEW n \in Ids
  PROVE  Once(n)'
<1>1. /\ Once(n) /\ OneHandler /\ (Begun(n, Drawn) => Begun(n, Drawn)')
      /\ StoreFrame(req[h].pc) /\ TicketFrame(req[h].pc)
  BY StepId
<1>2. seen' = seen /\ redis'.vault = redis.vault /\ ws'.tickets = ws.tickets
  BY <1>1, StepPlace, StoreCodeEffect DEF StoreFrame, TicketFrame, At
<1>3. CASE redis' = redis
  BY <1>1, <1>2, <1>3, ProofQuiet
<1>. DEFINE new == [code |-> req[h].id, tries |-> 0]
<1>4. ASSUME req'[h].pc = "mail", NEW k \in Purposes \X Emails, redis'.otp = [redis.otp EXCEPT ![k] = new]
      PROVE  Once(n)'
  <2>1. new.code = req[h].id /\ new.tries = 0
    OBVIOUS
  <2>. HIDE DEF new
  <2>2. redis'.otp[k] = new /\ \A j \in Purposes \X Emails : j # k => redis'.otp[j] = redis.otp[j]
    <3>1. redis.otp \in [Purposes \X Emails -> [code : {0} \cup Ids, tries : Nat]]
      BY Typed, RedisFields
    <3>. QED
      BY <1>4, <3>1
  <2>3. CASE n = req[h].id
    <3>1. Unused(n)
      BY <2>3, NotYet DEF At, Drawn
    <3>2. Begun(n, Drawn)'
      BY <1>1, <1>4, <2>3, BegunNow DEF Drawn
    <3>3. ProofLinks(n)'
      BY <1>1, <1>2, <2>1, <2>2, <3>1 DEF Once, ProofLinks, Unused
    <3>. QED
      BY <3>2, <3>3 DEF Once
  <2>4. CASE n # req[h].id
    <3>1. \A j \in Purposes \X Emails : redis'.otp[j].code = n => redis'.otp[j] = redis.otp[j]
      BY <2>1, <2>2, <2>4
    <3>. QED
      BY <1>1, <1>2, <3>1, ProofQuiet
  <2>. QED
    BY <2>3, <2>4
<1>5. /\ Key(h) \in Purposes \X Emails
      /\ \/ req'[h].pc = "mail" /\ redis'.otp = [redis.otp EXCEPT ![Key(h)] = new]
         \/ redis' = redis
  BY StepPlace, StoreCodeEffect
<1>. HIDE DEF new
<1>. QED
  BY <1>3, <1>4, <1>5

(* The record at k changes. *)
LEMMA OtpAt ==
  ASSUME TypeInv, NEW k \in Purposes \X Emails, NEW c, redis'.otp = [redis.otp EXCEPT ![k] = c]
  PROVE  redis'.otp[k] = c /\ \A j \in Purposes \X Emails : j # k => redis'.otp[j] = redis.otp[j]
<1>1. redis.otp \in [Purposes \X Emails -> [code : {0} \cup Ids, tries : Nat]]
  BY Typed, RedisFields
<1>. QED
  BY <1>1

LEMMA VerifyOnce ==
  ASSUME TypeInv, IdInv, NEW h \in Handlers, Step(h), At(h, "verify"), NEW n \in Ids
  PROVE  Once(n)'
<1>1. /\ Once(n) /\ OneHandler /\ (Begun(n, Drawn) => Begun(n, Drawn)')
      /\ StoreFrame(req[h].pc) /\ TicketFrame(req[h].pc)
  BY StepId
<1>2. seen'.mailed = seen.mailed /\ redis'.vault = redis.vault /\ ws'.tickets = ws.tickets
  BY <1>1 DEF StoreFrame, TicketFrame, At
<1>3. PICK k : k = Key(h)
  OBVIOUS
<1>. DEFINE m == redis.otp[k].code
            spent == [seen.spent EXCEPT ![m] = seen.spent[m] + 1]
            wrong == [seen.wrong EXCEPT ![m] = seen.wrong[m] + 1]
            more == [code |-> m, tries |-> redis.otp[k].tries + 1]
<1>4. /\ k \in Purposes \X Emails
      /\ \/ seen' = seen /\ (redis' = redis \/ redis'.otp = [redis.otp EXCEPT ![k] = NoCode])
         \/ /\ m \in Ids /\ redis'.otp = [redis.otp EXCEPT ![k] = NoCode] /\ seen'.wrong = seen.wrong
            /\ seen'.spent = spent
         \/ /\ m \in Ids /\ redis.otp[k].tries < MaxCodeAttempts
            /\ redis'.otp = [redis.otp EXCEPT ![k] = more] /\ seen'.wrong = wrong /\ seen'.spent = seen.spent
  BY <1>3, StepPlace, VerifyCodeEffect
<1>5. more.code = m /\ more.tries = redis.otp[k].tries + 1
  OBVIOUS
<1>6. /\ spent[n] = IF n = m THEN seen.spent[n] + 1 ELSE seen.spent[n]
      /\ wrong[n] = IF n = m THEN seen.wrong[n] + 1 ELSE seen.wrong[n]
  BY Typed, SeenFields
<1>. HIDE DEF spent, wrong, more
<1>7. n # 0 /\ NoCode.code = 0 /\ seen.spent[n] \in Nat /\ seen.wrong[n] \in Nat /\ MaxCodeAttempts \in Nat
      /\ redis.otp[k].tries \in Nat
  BY <1>4, IdTypes, CodeLimits
<1>8. ASSUME redis'.otp = [redis.otp EXCEPT ![k] = NoCode]
      PROVE  \A j \in Purposes \X Emails : redis'.otp[j].code = n => j # k /\ redis'.otp[j] = redis.otp[j]
  BY <1>4, <1>7, <1>8, OtpAt
<1>9. CASE seen' = seen /\ (redis' = redis \/ redis'.otp = [redis.otp EXCEPT ![k] = NoCode])
  <2>1. \A j \in Purposes \X Emails : redis'.otp[j].code = n => redis'.otp[j] = redis.otp[j]
    BY <1>8, <1>9
  <2>. QED
    BY <1>1, <1>2, <1>9, <2>1, ProofQuiet
<1>10. ASSUME m # n, seen'.spent[n] = seen.spent[n], seen'.wrong[n] = seen.wrong[n],
              \A j \in Purposes \X Emails : redis'.otp[j].code = n => redis'.otp[j] = redis.otp[j]
       PROVE  Once(n)'
  BY <1>1, <1>2, <1>10, ProofQuiet
<1>11. m = n => /\ seen.spent[n] = 0 /\ redis.vault[n] = NoEntry /\ ws.tickets[n] = 0
                /\ seen.wrong[n] <= redis.otp[k].tries /\ Begun(n, Drawn)'
                /\ \A j \in Purposes \X Emails : redis.otp[j].code = n => j = k
  BY <1>1, <1>4 DEF Once, ProofLinks, Unused
<1>12. CASE /\ m \in Ids /\ redis'.otp = [redis.otp EXCEPT ![k] = NoCode] /\ seen'.wrong = seen.wrong
            /\ seen'.spent = spent
  <2>1. CASE m = n
    <3>1. \A j \in Purposes \X Emails : redis'.otp[j].code # n
      BY <1>8, <1>11, <1>12, <2>1
    <3>2. ProofLinks(n)'
      BY <1>1, <1>2, <1>6, <1>7, <1>11, <1>12, <2>1, <3>1 DEF Once, ProofLinks
    <3>. QED
      BY <1>11, <2>1, <3>2 DEF Once
  <2>. QED
    BY <1>6, <1>8, <1>10, <1>12, <2>1
<1>13. CASE /\ m \in Ids /\ redis.otp[k].tries < MaxCodeAttempts
            /\ redis'.otp = [redis.otp EXCEPT ![k] = more] /\ seen'.wrong = wrong /\ seen'.spent = seen.spent
  <2>1. redis'.otp[k] = more /\ \A j \in Purposes \X Emails : j # k => redis'.otp[j] = redis.otp[j]
    BY <1>4, <1>13, OtpAt
  <2>2. CASE m = n
    <3>1. seen'.wrong[n] = seen.wrong[n] + 1 /\ seen'.spent[n] = 0
      BY <1>6, <1>11, <1>13, <2>2
    <3>2. seen'.wrong[n] <= MaxCodeAttempts
      BY <1>7, <1>11, <1>13, <2>2, <3>1
    <3>3. \A j \in Purposes \X Emails : redis'.otp[j].code = n => j = k
      BY <1>11, <2>1, <2>2
    <3>4. redis'.otp[k].tries = redis.otp[k].tries + 1
      BY <1>5, <2>1
    <3>5. seen'.wrong[n] <= redis'.otp[k].tries
      BY <1>7, <1>11, <2>2, <3>1, <3>4
    <3>6. ProofLinks(n)'
      BY <1>1, <1>2, <1>11, <2>2, <3>1, <3>2, <3>3, <3>5 DEF Once, ProofLinks
    <3>. QED
      BY <1>11, <2>2, <3>6 DEF Once
  <2>3. CASE m # n
    <3>1. \A j \in Purposes \X Emails : redis'.otp[j].code = n => redis'.otp[j] = redis.otp[j]
      BY <1>5, <2>1, <2>3
    <3>. QED
      BY <1>6, <1>10, <1>13, <2>3, <3>1
  <2>. QED
    BY <2>2, <2>3
<1>. QED
  BY <1>4, <1>9, <1>12, <1>13

LEMMA TakeOnce ==
  ASSUME TypeInv, IdInv, NEW h \in Handlers, Step(h), At(h, "take"), NEW n \in Ids
  PROVE  Once(n)'
<1>1. /\ Once(n) /\ OneHandler /\ (Begun(n, Drawn) => Begun(n, Drawn)')
      /\ StoreFrame(req[h].pc) /\ TicketFrame(req[h].pc)
  BY StepId
<1>2. /\ seen'.mailed = seen.mailed /\ seen'.wrong = seen.wrong /\ redis'.otp = redis.otp
      /\ ws'.tickets = ws.tickets
  BY <1>1 DEF StoreFrame, TicketFrame, At
<1>3. PICK m : m = req[h].proof
  OBVIOUS
<1>4. PICK entry : entry = redis.vault[m]
  OBVIOUS
<1>5. /\ m \in Ids
      /\ \/ Ends(h) /\ redis' = redis /\ seen' = seen
         \/ Ends(h) /\ redis'.vault = [redis.vault EXCEPT ![m] = NoEntry] /\ seen' = seen
         \/ /\ redis'.vault = [redis.vault EXCEPT ![m] = NoEntry]
            /\ seen'.spent = [seen.spent EXCEPT ![m] = seen.spent[m] + 1]
            /\ entry.kind # "none" /\ req'[h].pc = AfterTake(req[h].flow)
            /\ req'[h].data = entry /\ req'[h].user = entry.user
            /\ req[h].flow # "callback" => req'[h].email = entry.email
            /\ entry.user # None => req'[h].age = users[entry.user].writes
  BY <1>3, <1>4, StepPlace, TakeEffect
<1>6. redis.vault \in [Ids -> Entry] /\ seen.spent \in [Ids -> Nat]
  BY Typed, RedisFields, SeenFields
<1>7. ASSUME seen' = seen PROVE Once(n)'
  <2>1. redis'.vault[n] \in {redis.vault[n], NoEntry}
    BY <1>5, <1>6
  <2>. QED
    BY <1>1, <1>2, <1>7, <2>1, ProofQuiet
<1>8. CASE /\ redis'.vault = [redis.vault EXCEPT ![m] = NoEntry]
           /\ seen'.spent = [seen.spent EXCEPT ![m] = seen.spent[m] + 1]
           /\ entry.kind # "none"
  <2>1. CASE n = m
    <3>1. redis'.vault[n] = NoEntry /\ seen'.spent[n] = seen.spent[n] + 1
      BY <1>6, <1>8, <2>1
    <3>2. redis.vault[n] # NoEntry
      BY <1>4, <1>8, <2>1 DEF NoEntry
    <3>3. /\ seen.spent[n] = 0 /\ ws.tickets[n] = 0 /\ Begun(n, Drawn)'
          /\ \A k \in Purposes \X Emails : redis.otp[k].code # n
      BY <1>1, <3>2 DEF Once, ProofLinks, Unused
    <3>4. ProofLinks(n)'
      BY <1>1, <1>2, <3>1, <3>3 DEF Once, ProofLinks
    <3>. QED
      BY <3>3, <3>4 DEF Once
  <2>2. CASE n # m
    <3>1. redis'.vault[n] = redis.vault[n] /\ seen'.spent[n] = seen.spent[n]
      BY <1>6, <1>8, <2>2
    <3>. QED
      BY <1>1, <1>2, <3>1, ProofQuiet
  <2>. QED
    BY <2>1, <2>2
<1>. QED
  BY <1>5, <1>7, <1>8

LEMMA GetdelOnce ==
  ASSUME TypeInv, IdInv, NEW h \in Handlers, Step(h), At(h, "getdel"), NEW n \in Ids
  PROVE  Once(n)'
<1>1. /\ Once(n) /\ OneHandler /\ (Begun(n, Drawn) => Begun(n, Drawn)')
      /\ StoreFrame(req[h].pc) /\ TicketFrame(req[h].pc)
  BY StepId
<1>2. seen'.mailed = seen.mailed /\ seen'.wrong = seen.wrong
  BY <1>1 DEF StoreFrame, At
<1>3. PICK m : m = req[h].proof
  OBVIOUS
<1>4. /\ m \in Ids /\ redis' = redis
      /\ \/ Ends(h) /\ ws' = ws /\ seen' = seen
         \/ /\ now < ws.tickets[m] /\ ws'.tickets = [ws.tickets EXCEPT ![m] = 0]
            /\ seen'.spent = [seen.spent EXCEPT ![m] = seen.spent[m] + 1]
            /\ req'[h].pc = "blacklist"
  BY <1>3, StepPlace, TakeTicketEffect
<1>5. ws.tickets \in [Ids -> Nat] /\ seen.spent \in [Ids -> Nat] /\ now \in Nat
  BY Typed, SeenFields, TokenTypes
<1>6. CASE ws' = ws /\ seen' = seen
  BY <1>1, <1>4, <1>6, ProofQuiet
<1>7. CASE /\ now < ws.tickets[m] /\ ws'.tickets = [ws.tickets EXCEPT ![m] = 0]
           /\ seen'.spent = [seen.spent EXCEPT ![m] = seen.spent[m] + 1]
  <2>1. CASE n = m
    <3>1. ws'.tickets[n] = 0 /\ seen'.spent[n] = seen.spent[n] + 1 /\ ws.tickets[n] # 0
      BY <1>5, <1>7, <2>1
    <3>2. /\ seen.spent[n] = 0 /\ redis.vault[n] = NoEntry /\ Begun(n, Drawn)'
          /\ \A k \in Purposes \X Emails : redis.otp[k].code # n
      BY <1>1, <3>1 DEF Once, ProofLinks, Unused
    <3>3. ProofLinks(n)'
      BY <1>1, <1>2, <1>4, <3>1, <3>2 DEF Once, ProofLinks
    <3>. QED
      BY <3>2, <3>3 DEF Once
  <2>2. CASE n # m
    <3>1. ws'.tickets[n] = ws.tickets[n] /\ seen'.spent[n] = seen.spent[n]
      BY <1>5, <1>7, <2>2
    <3>. QED
      BY <1>1, <1>2, <1>4, <3>1, ProofQuiet
  <2>. QED
    BY <2>1, <2>2
<1>. QED
  BY <1>4, <1>6, <1>7

(* Elsewhere a value is mailed, its record deleted, or nothing happens to it. *)
LEMMA ElseOnce ==
  ASSUME TypeInv, IdInv, NEW h \in Handlers, Step(h), NEW n \in Ids,
         req[h].pc \notin {"mint", "mintTicket", "code", "verify", "take", "getdel"}
  PROVE  Once(n)'
<1>1. /\ Once(n) /\ OneHandler /\ (Begun(n, Drawn) => Begun(n, Drawn)')
      /\ StoreFrame(req[h].pc) /\ TicketFrame(req[h].pc)
  BY StepId
<1>2. /\ seen'.spent = seen.spent /\ seen'.wrong = seen.wrong /\ redis'.otp = redis.otp
      /\ ws'.tickets = ws.tickets
  BY <1>1 DEF StoreFrame, TicketFrame
<1>3. redis'.vault[n] \in {redis.vault[n], NoEntry}
  BY StepVault DEF At
<1>4. n \in seen'.mailed => n \in seen.mailed \/ Begun(n, Drawn)'
  <2>1. CASE At(h, "mail")
    <3>1. seen'.mailed = seen.mailed \cup {req[h].id} \/ seen' = seen
      BY <2>1, StepPlace, MailEffect
    <3>2. req'[h].pc \in Drawn
      BY <2>1, StepPlace, MailEffect DEF Drawn
    <3>3. n = req[h].id => Begun(n, Drawn)'
      BY <1>1, <3>2, BegunNow DEF Drawn
    <3>. QED
      BY <3>1, <3>3
  <2>2. CASE ~At(h, "mail")
    BY <1>1, <2>2 DEF StoreFrame, At
  <2>. QED
    BY <2>1, <2>2
<1>. QED
  BY <1>1, <1>2, <1>3, <1>4, ProofQuiet

LEMMA StepOnce ==
  ASSUME TypeInv, IdInv, NEW h \in Handlers, Step(h), NEW n \in Ids
  PROVE  Once(n)'
BY MintOnce, MintTicketOnce, CodeOnce, VerifyOnce, TakeOnce, GetdelOnce, ElseOnce DEF At

(* No code takes more guesses than it may. *)
LEMMA StepTries ==
  ASSUME TypeInv, IdInv, NEW h \in Handlers, Step(h), NEW j \in Purposes \X Emails
  PROVE  redis'.otp[j].tries <= MaxCodeAttempts
<1>1. redis.otp[j].tries <= MaxCodeAttempts /\ StoreFrame(req[h].pc)
  BY OnceForm, StepFrames DEF StepFrame
<1>2. PICK k : k = Key(h)
  OBVIOUS
<1>3. CASE At(h, "code")
  <2>. DEFINE new == [code |-> req[h].id, tries |-> 0]
  <2>1. k \in Purposes \X Emails /\ (redis'.otp = [redis.otp EXCEPT ![k] = new] \/ redis' = redis)
    BY <1>2, <1>3, StepPlace, StoreCodeEffect
  <2>2. new.tries = 0
    OBVIOUS
  <2>. HIDE DEF new
  <2>3. CASE redis'.otp = [redis.otp EXCEPT ![k] = new]
    BY <1>1, <2>1, <2>2, <2>3, OtpAt, CodeLimits
  <2>. QED
    BY <1>1, <2>1, <2>3
<1>4. CASE At(h, "verify")
  <2>. DEFINE more == [code |-> redis.otp[k].code, tries |-> redis.otp[k].tries + 1]
  <2>1. /\ k \in Purposes \X Emails
        /\ \/ redis' = redis
           \/ redis'.otp = [redis.otp EXCEPT ![k] = NoCode]
           \/ redis.otp[k].tries < MaxCodeAttempts /\ redis'.otp = [redis.otp EXCEPT ![k] = more]
    BY <1>2, <1>4, StepPlace, VerifyCodeEffect
  <2>2. more.tries = redis.otp[k].tries + 1
    OBVIOUS
  <2>3. redis.otp[k].tries \in Nat
    <3>1. redis.otp[k] \in [code : {0} \cup Ids, tries : Nat]
      BY <2>1, CodeTypes
    <3>. QED
      BY <3>1
  <2>. HIDE DEF more
  <2>4. CASE redis'.otp = [redis.otp EXCEPT ![k] = NoCode]
    BY <1>1, <2>1, <2>4, OtpAt, CodeLimits
  <2>5. CASE redis.otp[k].tries < MaxCodeAttempts /\ redis'.otp = [redis.otp EXCEPT ![k] = more]
    <3>1. more.tries <= MaxCodeAttempts
      BY <2>2, <2>3, <2>5, CodeLimits
    <3>. QED
      BY <1>1, <2>1, <2>5, <3>1, OtpAt
  <2>. QED
    BY <1>1, <2>1, <2>4, <2>5
<1>. QED
  BY <1>1, <1>3, <1>4 DEF StoreFrame, At

LEMMA IdNext == TypeInv /\ IdInv /\ [Next]_vars => IdInv'
<1>. SUFFICES ASSUME TypeInv, IdInv, [Next]_vars PROVE IdInv'
  OBVIOUS
<1>1. mix' = mix
  BY NextCases DEF vars, storeVars
<1>2. OneHandler'
  BY OneNext, OnceForm
<1>3. \A n \in Ids : Once(n) /\ n \in Nat /\ (Begun(n, Drawn) => Begun(n, Drawn)')
  BY OnceForm, IdTypes, BegunKept, ClosedSets
<1>4. \A k \in Purposes \X Emails : redis.otp[k].tries <= MaxCodeAttempts
  BY OnceForm
<1>5. ASSUME UNCHANGED <<ws, seen.spent, seen.wrong, seen.mailed>>,
             \A n \in Ids : redis'.vault[n] \in {redis.vault[n], NoEntry},
             \A k \in Purposes \X Emails : redis'.otp[k] \in {redis.otp[k], NoCode}
      PROVE  IdInv'
  <2>1. ASSUME NEW n \in Ids PROVE Once(n)'
    <3>1. \A k \in Purposes \X Emails : redis'.otp[k].code = n => redis'.otp[k] = redis.otp[k]
      BY <1>5, <2>1, IdTypes, CodeLimits
    <3>. QED
      BY <1>3, <1>5, <2>1, <3>1, ProofQuiet
  <2>2. \A k \in Purposes \X Emails : redis'.otp[k].tries <= MaxCodeAttempts
    BY <1>4, <1>5, CodeLimits
  <2>. QED
    BY <1>1, <1>2, <2>1, <2>2, OnceFormAfter
<1>6. ASSUME NEW h \in Handlers, Enters(h) PROVE IdInv'
  BY <1>5, <1>6 DEF Enters
<1>7. ASSUME NEW h \in Handlers, Step(h) PROVE IdInv'
  BY <1>1, <1>2, <1>7, StepOnce, StepTries, OnceFormAfter
<1>8. CASE Drifts
  BY <1>5, <1>8 DEF Drifts, KeysBut, SeenBut
<1>9. CASE UNCHANGED vars
  BY <1>5, <1>9 DEF vars, storeVars
<1>. QED
  BY <1>6, <1>7, <1>8, <1>9, NextCases

LEMMA IdStart == Init => IdInv
<1>. SUFFICES ASSUME Init PROVE IdInv
  OBVIOUS
<1>1. /\ redis.otp = [k \in Purposes \X Emails |-> NoCode] /\ redis.vault = [n \in Ids |-> NoEntry]
      /\ seen.mailed = {} /\ seen.spent = [n \in Ids |-> 0] /\ seen.wrong = [n \in Ids |-> 0]
  BY DEF Init, StoreInit
<1>2. ws.tickets = [n \in Ids |-> 0]
  BY DEF Init, TicketInit
<1>3. ASSUME NEW n \in Ids PROVE Once(n)
  <2>1. n # 0
    BY DEF Ids
  <2>. QED
    BY <1>1, <1>2, <1>3, <2>1, CodeLimits DEF Once, ProofLinks, Unused
<1>4. \A k \in Purposes \X Emails : redis.otp[k].tries <= MaxCodeAttempts
  BY <1>1, CodeLimits
<1>. QED
  BY <1>3, <1>4, OneStart, OnceForm

(* No code, link, invitation, state or ticket is accepted twice, and none   *)
(* is guessed at more often than it may, whichever handlers present it at   *)
(* once (OTP_VERIFY_LUA, and GETDEL everywhere else).                       *)
THEOREM SpentOnce == Spec => []ProofsSpentOnce
<1>1. IdInv => ProofsSpentOnce
  BY DEF IdInv, ProofLinks, ProofsSpentOnce
<1>. QED
  BY <1>1, TypeStart, TypeNext, IdStart, IdNext, PTL DEF Spec

-----------------------------------------------------------------------------
(* The dates of passwords, step by step *)

(* Dated, Bounded and DateLinks of the next state. *)
OldLater(hash) ==
  hash # None => \/ hash.salt = 0
                 \/ /\ hash.salt <= starts'
                    /\ \A h \in Handlers : req'[h].pc \notin Settled => req'[h].id # hash.salt

DatedLater(u, hash, age) ==
  /\ OldLater(hash) /\ age <= users'[u].writes
  /\ hash # None /\ hash = users'[u].hash => age = users'[u].writes

BoundedLater(entry) ==
  entry.kind \in {"reset", "vtok", "move"} => DatedLater(entry.user, entry.bound, entry.age)

DateLinked(q) ==
  /\ q.flow = "requestMove" /\ q.pc \in {"lockout", "clear", "free"} =>
       DatedLater(q.user, q.account.hash, q.account.writes)
  /\ q.pc \in {"mint", "bound"} => BoundedLater(q.data)
  /\ q.pc = "bound" => q.data.age <= q.age /\ q.age <= users'[q.user].writes
  /\ q.flow \in {"reset", "confirmMove"} /\ q.pc \in {"write", "free", "move"}
       /\ q.data.bound # None => q.data.age = q.age

(* What is dated stays dated. *)
Keeps ==
  /\ \A hash \in Hash \cup {None} : Old(hash) => OldLater(hash)
  /\ \A u \in Users, hash \in Hash \cup {None}, age \in Nat :
       Dated(u, hash, age) => DatedLater(u, hash, age)
  /\ \A u \in Users : users[u].writes <= users'[u].writes

LEMMA PasswordTypes ==
  ASSUME TypeInv, NEW u \in Users
  PROVE  users[u].hash \in Hash \cup {None} /\ users[u].writes \in Nat
BY Typed DEF User

LEMMA HashTypes ==
  ASSUME TypeInv, NEW hash \in Hash
  PROVE  hash.salt \in Nat
BY DEF Hash, Ids

LEMMA OldKept ==
  ASSUME TypeInv, [Next]_vars, NEW hash \in Hash \cup {None}, Old(hash)
  PROVE  OldLater(hash)
<1>. SUFFICES ASSUME hash # None, hash.salt # 0 PROVE OldLater(hash)
  BY DEF OldLater
<1>1. PICK n : n = hash.salt
  OBVIOUS
<1>2. n \in Nat /\ Begun(n, Settled)
  BY <1>1, HashTypes DEF Old
<1>3. Begun(n, Settled)'
  BY <1>2, BegunKept, ClosedSets
<1>. QED
  BY <1>1, <1>3 DEF OldLater, Begun

(* A password that changes is one its handler has yet to store. *)
LEMMA HashStep ==
  ASSUME TypeInv, NEW h \in Handlers, Step(h), NEW u \in Users
  PROVE  \/ users'[u].hash = users[u].hash /\ users'[u].writes = users[u].writes
         \/ users'[u].hash = None
         \/ users'[u].hash.salt = req[h].id /\ req[h].pc \notin Settled /\ req'[h].pc \in Settled
<1>1. UserFrame(req[h].pc)
  BY StepFrames DEF StepFrame
<1>2. ASSUME NEW v \in Users, NEW hash \in Hash, users' = Stored(v, hash), hash.salt = req[h].id,
             req[h].pc \in {"write", "upgrade"}, req'[h].pc \in Settled
      PROVE  \/ users'[u].hash = users[u].hash /\ users'[u].writes = users[u].writes
             \/ users'[u].hash.salt = req[h].id /\ req[h].pc \notin Settled /\ req'[h].pc \in Settled
  <2>1. users'[v].hash = hash /\ (u # v => users'[u] = users[u])
    BY <1>2, Typed DEF Stored, User
  <2>2. req[h].pc \notin Settled
    BY <1>2 DEF Settled
  <2>. QED
    BY <1>2, <2>1, <2>2
<1>3. CASE At(h, "write")
  <2>. DEFINE hash == [word |-> req[h].fresh, salt |-> req[h].id]
  <2>1. req[h].user \in Users /\ hash \in Hash /\ users' = Stored(req[h].user, hash) /\ req'[h].pc = "sweep"
    BY <1>3, StepPlace, WriteEffect
  <2>2. hash.salt = req[h].id
    OBVIOUS
  <2>. HIDE DEF hash
  <2>3. req'[h].pc \in Settled
    BY <2>1 DEF Settled
  <2>. QED
    BY <1>2, <1>3, <2>1, <2>2, <2>3 DEF At
<1>4. CASE At(h, "upgrade")
  <2>. DEFINE hash == [word |-> req[h].word, salt |-> req[h].id]
  <2>1. req[h].user \in Users /\ hash \in Hash /\ users' = Stored(req[h].user, hash) /\ Ends(h)
    BY <1>4, StepPlace, UpgradeEffect
  <2>2. hash.salt = req[h].id
    OBVIOUS
  <2>. HIDE DEF hash
  <2>3. req'[h].pc \in Settled
    BY <2>1 DEF Settled, Ends, Idle
  <2>. QED
    BY <1>2, <1>4, <2>1, <2>2, <2>3 DEF At
<1>5. CASE At(h, "create")
  <2>. DEFINE hash == [word |-> req[h].fresh, salt |-> req[h].id]
  <2>1. \/ users' = users
        \/ \E v \in Users :
             /\ req'[h].pc \in {"code", "admit", "epoch"} /\ users'[v].hash \in {None, hash}
             /\ \A w \in Users : w # v => users'[w] = users[w]
    BY <1>5, StepPlace, CreateEffect
  <2>2. hash.salt = req[h].id
    OBVIOUS
  <2>. HIDE DEF hash
  <2>3. req[h].pc \notin Settled /\ \A pc \in {"code", "admit", "epoch"} : pc \in Settled
    BY <1>5 DEF At, Settled
  <2>. QED
    BY <2>1, <2>2, <2>3
<1>6. CASE req[h].pc \notin {"write", "upgrade", "create"}
  BY <1>1, <1>6 DEF UserFrame
<1>. QED
  BY <1>3, <1>4, <1>5, <1>6 DEF At

(* It is older than no other. *)
LEMMA NewIsNotOld ==
  ASSUME TypeInv, NEW h \in Handlers, req[h].pc \notin Settled, NEW hash, hash # None, hash.salt = req[h].id
  PROVE  ~Old(hash)
<1>1. req[h].id # 0
  BY OldLinks DEF FlowLinks, Settled
<1>. QED
  BY <1>1 DEF Old, Begun

LEMMA StepDates ==
  ASSUME TypeInv, NEW h \in Handlers, Step(h), [Next]_vars
  PROVE  Keeps
<1>1. \A u \in Users : users[u].writes <= users'[u].writes
  BY StepFrames DEF StepFrame, UserFrame
<1>2. ASSUME NEW u \in Users, NEW hash \in Hash \cup {None}, NEW age \in Nat, Dated(u, hash, age)
      PROVE  DatedLater(u, hash, age)
  <2>1. OldLater(hash)
    BY <1>2, OldKept DEF Dated
  <2>2. users'[u].writes \in Nat /\ users[u].writes \in Nat
    BY StepFrames, CountTypesAfter, CountTypes DEF StepFrame, StoreFrame
  <2>3. age <= users'[u].writes
    BY <1>1, <1>2, <2>2 DEF Dated
  <2>4. ASSUME hash # None, hash = users'[u].hash PROVE age = users'[u].writes
    <3>1. ~(users'[u].hash.salt = req[h].id /\ req[h].pc \notin Settled)
      BY <1>2, <2>4, NewIsNotOld DEF Dated
    <3>2. users'[u].hash = users[u].hash /\ users'[u].writes = users[u].writes
      BY <2>4, <3>1, HashStep
    <3>. QED
      BY <1>2, <2>4, <3>2 DEF Dated
  <2>. QED
    BY <2>1, <2>3, <2>4 DEF DatedLater
<1>. QED
  BY <1>1, <1>2, OldKept DEF Keeps

LEMMA BoundedKept ==
  ASSUME Keeps, NEW entry \in Entry, EntryLinks(entry), Bounded(entry)
  PROVE  BoundedLater(entry)
BY EntryFields DEF Keeps, Bounded, BoundedLater, EntryLinks

(* What a handler holds stays dated where it does not move. *)
LEMMA LinksKept ==
  ASSUME TypeInv, Keeps, users' \in [Users -> User], NEW g \in Handlers, DateLinks(req[g])
  PROVE  DateLinked(req[g])
<1>. DEFINE q == req[g]
<1>1. q \in Handler /\ FlowLinks(q) /\ DataLinks(q)
  BY Typed, OldLinks
<1>2. /\ q.data \in Entry /\ q.account \in User /\ q.user \in Users \cup {None} /\ q.age \in Nat
      /\ q.account.hash \in Hash \cup {None} /\ q.account.writes \in Nat
  BY <1>1, HandlerFields DEF User
<1>. HIDE DEF q
<1>3. q.pc = "bound" \/ q.flow = "requestMove" => q.user \in Users
  BY <1>1, <1>2 DEF FlowLinks, HasUser
<1>4. q.pc \in {"mint", "bound"} => BoundedLater(q.data)
  BY <1>1, <1>2, BoundedKept DEF DateLinks, DataLinks, q
<1>5. q.flow = "requestMove" /\ q.pc \in {"lockout", "clear", "free"} =>
        DatedLater(q.user, q.account.hash, q.account.writes)
  BY <1>2, <1>3 DEF DateLinks, Keeps, q
<1>6. q.pc = "bound" => q.data.age <= q.age /\ q.age <= users'[q.user].writes
  <2>. SUFFICES ASSUME q.pc = "bound" PROVE q.data.age <= q.age /\ q.age <= users'[q.user].writes
    OBVIOUS
  <2>1. q.data.age <= q.age /\ q.age <= users[q.user].writes
    BY DEF DateLinks, q
  <2>2. users[q.user].writes \in Nat /\ users'[q.user].writes \in Nat
    BY <1>3, CountTypes DEF User
  <2>3. users[q.user].writes <= users'[q.user].writes
    BY <1>3 DEF Keeps
  <2>. QED
    BY <1>2, <2>1, <2>2, <2>3
<1>7. q.flow \in {"reset", "confirmMove"} /\ q.pc \in {"write", "free", "move"}
        /\ q.data.bound # None => q.data.age = q.age
  BY DEF DateLinks, q
<1>8. DateLinked(q)
  BY <1>4, <1>5, <1>6, <1>7 DEF DateLinked
<1>. QED
  BY <1>8 DEF q

(* A record a step hands its handler is dated. *)
LEMMA MintDates ==
  ASSUME TypeInv, DateInv, Keeps, NEW h \in Handlers, Step(h), req'[h].pc = "mint"
  PROVE  BoundedLater(req'[h].data)
<1>1. /\ Advances(h) /\ req'[h] \in Handler /\ FlowLinks(req[h]) /\ FlowLinks(req'[h]) /\ DataLinks(req'[h])
      /\ DateLinks(req[h])
  BY StepFrames, OldLinks DEF StepFrame, Advances, Moved, DateInv
<1>2. req'[h].data \in Entry /\ EntryLinks(req'[h].data)
  BY <1>1, HandlerFields DEF DataLinks
<1>3. ASSUME Bounded(req'[h].data) PROVE BoundedLater(req'[h].data)
  <2>1. PICK entry \in Entry : entry = req'[h].data
    BY <1>2
  <2>2. Bounded(entry) /\ EntryLinks(entry)
    BY <1>2, <1>3, <2>1
  <2>. QED
    BY <2>1, <2>2, BoundedKept
<1>4. req[h].pc \in {"fingerprint", "free", "claim", "remove"} /\ req'[h].flow = req[h].flow
  BY <1>1 DEF Advances, Follows, Leads, Idle
<1>5. CASE At(h, "fingerprint")
  <2>1. /\ req'[h].data.user = req[h].user /\ req'[h].data.bound = users[req[h].user].hash
        /\ req'[h].data.age = users[req[h].user].writes
    BY <1>5, StepPlace, FingerprintEffect
  <2>2. req[h].user \in Users
    BY <1>1, <1>5, Typed, HandlerFields DEF FlowLinks, HasUser, At
  <2>3. Old(users[req[h].user].hash) /\ users[req[h].user].writes \in Nat
    BY <2>2, PasswordTypes DEF DateInv
  <2>4. Dated(req'[h].data.user, req'[h].data.bound, req'[h].data.age)
    BY <2>1, <2>3 DEF Dated
  <2>. QED
    BY <1>3, <2>4 DEF Bounded
<1>6. CASE At(h, "free")
  <2>1. /\ req[h].flow = "requestMove" /\ req'[h].data.user = req[h].user
        /\ req'[h].data.bound = req[h].account.hash /\ req'[h].data.age = req[h].account.writes
    BY <1>6, StepPlace, FreeEffect
  <2>2. Dated(req[h].user, req[h].account.hash, req[h].account.writes)
    BY <1>1, <1>6, <2>1 DEF DateLinks, At
  <2>. QED
    BY <1>3, <2>1, <2>2 DEF Bounded
<1>7. CASE req[h].pc \in {"claim", "remove"}
  <2>1. req'[h].flow = "invite"
    BY <1>1, <1>4, <1>7 DEF FlowLinks, OnPath
  <2>2. req'[h].data.kind = "invite"
    BY <1>1, <2>1 DEF DataLinks
  <2>. QED
    BY <2>2 DEF BoundedLater
<1>. QED
  BY <1>4, <1>5, <1>6, <1>7 DEF At

LEMMA TakeDates ==
  ASSUME TypeInv, DateInv, Keeps, NEW h \in Handlers, Step(h), req'[h].pc = "bound"
  PROVE  DateLinked(req'[h])
<1>1. /\ Advances(h) /\ req'[h] \in Handler /\ FlowLinks(req'[h]) /\ DataLinks(req'[h]) /\ StoreFrame(req[h].pc)
  BY StepFrames DEF StepFrame, Advances, Moved
<1>2. At(h, "take") /\ Take(h)
  BY <1>1, StepPlace DEF Advances, Follows, Leads, Idle, At
<1>3. users' = users
  BY <1>1, <1>2 DEF StoreFrame, At
<1>4. PICK n, entry : n = req[h].proof /\ entry = redis.vault[n]
  OBVIOUS
<1>5. /\ n \in Ids /\ req'[h].data = entry /\ req'[h].user = entry.user
      /\ entry.user # None => req'[h].age = users[entry.user].writes
  BY <1>1, <1>2, <1>4, TakeFields DEF Ends, Idle
<1>6. entry \in Entry /\ EntryLinks(entry) /\ Bounded(entry)
  BY <1>4, <1>5, Typed, RedisFields DEF TypeInv, DateInv
<1>7. req'[h].flow \in {"reset", "confirmMove"} /\ entry.kind \in {"reset", "vtok", "move"}
  BY <1>1, <1>5 DEF FlowLinks, OnPath, DataLinks
<1>8. entry.user \in Users
  BY <1>6, <1>7, EntryFields DEF EntryLinks
<1>9. BoundedLater(entry)
  BY <1>6, BoundedKept
<1>10. entry.age <= users[entry.user].writes
  BY <1>6, <1>7 DEF Bounded, Dated
<1>11. users[entry.user].writes \in Nat
  BY <1>8, CountTypes
<1>12. req'[h].age = users[entry.user].writes
  BY <1>5, <1>8, EmailTypes
<1>13. req'[h].data.age <= req'[h].age /\ req'[h].age <= users'[req'[h].user].writes
  BY <1>3, <1>5, <1>10, <1>11, <1>12
<1>. QED
  BY <1>1, <1>5, <1>7, <1>9, <1>13 DEF DateLinked

LEMMA MoverDates ==
  ASSUME TypeInv, DateInv, Keeps, NEW h \in Handlers, Step(h)
  PROVE  DateLinked(req'[h])
<1>1. /\ Advances(h) /\ req'[h] \in Handler /\ FlowLinks(req[h]) /\ FlowLinks(req'[h]) /\ DateLinks(req[h])
      /\ StoreFrame(req[h].pc) /\ Follows(req'[h], req[h]) /\ users' \in [Users -> User]
      /\ DataLinks(req[h])
  BY StepFrames, OldLinks DEF StepFrame, StoreFrame, Advances, Moved, DateInv
<1>2. DateLinked(req[h])
  BY <1>1, LinksKept
<1>3. ASSUME req'[h].flow = "requestMove", req'[h].pc \in {"lockout", "clear", "free"}
      PROVE  DatedLater(req'[h].user, req'[h].account.hash, req'[h].account.writes)
  <2>1. req[h].pc \in {"self", "lockout", "clear"} /\ req[h].flow = "requestMove"
    BY <1>1, <1>3 DEF Follows, Leads, Idle, FlowLinks, OnPath
  <2>2. req'[h].user = req[h].user
    BY <1>1, <1>3, <2>1 DEF Follows, Idle
  <2>3. CASE At(h, "self")
    <3>1. req'[h].account = users[req[h].user]
      BY <1>3, <2>3, StepPlace, FindSelfEffect
    <3>2. req[h].user \in Users
      BY <1>1, <2>1, Typed, HandlerFields DEF FlowLinks, HasUser
    <3>3. Old(users[req[h].user].hash) /\ users[req[h].user].writes \in Nat
          /\ users[req[h].user].hash \in Hash \cup {None}
      BY <3>2, PasswordTypes DEF DateInv
    <3>4. Dated(req[h].user, users[req[h].user].hash, users[req[h].user].writes)
      BY <3>3 DEF Dated
    <3>. QED
      BY <2>2, <3>1, <3>2, <3>3, <3>4 DEF Keeps
  <2>4. CASE req[h].pc \in {"lockout", "clear"}
    <3>1. req'[h].account = req[h].account
      BY <1>1, <1>3, <2>4 DEF Follows, Idle
    <3>. QED
      BY <1>2, <2>1, <2>2, <2>4, <3>1 DEF DateLinked
  <2>. QED
    BY <2>1, <2>3, <2>4 DEF At
<1>4. ASSUME req'[h].flow \in {"reset", "confirmMove"}, req'[h].pc \in {"write", "free", "move"},
             req'[h].data.bound # None
      PROVE  req'[h].data.age = req'[h].age
  <2>1. req[h].pc \in {"bound", "free"} /\ req[h].flow \in {"reset", "confirmMove"}
    BY <1>1, <1>4 DEF Follows, Leads, Idle, FlowLinks, OnPath
  <2>2. req'[h].age = req[h].age
    BY <1>1, <1>4, <2>1 DEF Follows, Idle
  <2>3. CASE At(h, "bound")
    <3>1. Bound(h) /\ req'[h].data = req[h].data /\ req'[h].pc # "idle"
      BY <1>1, <1>4, <2>3, StepPlace DEF Follows, Idle, At
    <3>2. ~Finish(h)
      BY <3>1, Typed DEF Finish, Idle
    <3>3. StillBound(req[h].data)
      BY <3>1, <3>2 DEF Bound
    <3>4. /\ req[h].data.kind \in {"reset", "vtok", "move"} /\ req[h].data.user = req[h].user
          /\ Bounded(req[h].data) /\ req[h].data.age <= req[h].age /\ req[h].age <= users[req[h].user].writes
      BY <1>1, <2>1, <2>3 DEF DataLinks, DateLinks, At
    <3>5. req[h].data.age = users[req[h].user].writes
      BY <1>4, <3>1, <3>3, <3>4 DEF Bounded, Dated, StillBound
    <3>6. req[h].data.age \in Nat /\ req[h].age \in Nat
      BY Typed, HandlerFields, EntryFields
    <3>. QED
      BY <2>2, <3>1, <3>4, <3>5, <3>6
  <2>4. CASE At(h, "free")
    <3>1. req'[h].pc = "move"
      BY <1>1, <1>4, <2>1, <2>4, StepPlace, FreeEffect
    <3>2. req'[h].data = req[h].data
      BY <2>4, <3>1, StepPlace, FreeEffect
    <3>. QED
      BY <1>1, <1>4, <2>1, <2>2, <2>4, <3>2 DEF DateLinks, At
  <2>. QED
    BY <2>1, <2>3, <2>4 DEF At
<1>. QED
  BY <1>3, <1>4, MintDates, TakeDates DEF DateLinked

LEMMA DateAfter ==
  ASSUME mix' = mix, \A u \in Users : OldLater(users'[u].hash), \A n \in Ids : BoundedLater(redis'.vault[n]),
         \A g \in Handlers : DateLinked(req'[g])
  PROVE  DateInv'
<1>1. \A u \in Users : Old(users[u].hash)'
  BY DEF OldLater, Old, Begun
<1>2. \A n \in Ids : Bounded(redis.vault[n])'
  BY DEF BoundedLater, DatedLater, OldLater, Bounded, Dated, Old, Begun
<1>3. \A g \in Handlers : DateLinks(req[g])'
  BY DEF DateLinked, DateLinks, BoundedLater, DatedLater, OldLater, Bounded, Dated, Old, Begun
<1>4. Ids' = Ids
  BY TypesKept
<1>. QED
  BY <1>1, <1>2, <1>3, <1>4 DEF DateInv

(* What is in the vault, where no record is written. *)
LEMMA VaultDates ==
  ASSUME TypeInv, DateInv, Keeps, NEW n \in Ids, redis'.vault[n] \in {redis.vault[n], NoEntry}
  PROVE  BoundedLater(redis'.vault[n])
<1>1. PICK entry : entry = redis.vault[n]
  OBVIOUS
<1>2. entry \in Entry /\ EntryLinks(entry) /\ Bounded(entry)
  BY <1>1, Typed, RedisFields DEF TypeInv, DateInv
<1>3. BoundedLater(entry)
  BY <1>2, BoundedKept
<1>4. BoundedLater(NoEntry)
  BY DEF BoundedLater, NoEntry
<1>. QED
  BY <1>1, <1>3, <1>4

LEMMA VaultMints ==
  ASSUME TypeInv, DateInv, Keeps, NEW h \in Handlers, At(h, "mint")
  PROVE  BoundedLater(req[h].data)
<1>1. PICK entry : entry = req[h].data
  OBVIOUS
<1>2. entry \in Entry /\ EntryLinks(entry) /\ Bounded(entry)
  BY <1>1, Typed, HandlerFields, OldLinks DEF DataLinks, DateInv, DateLinks, At
<1>. QED
  BY <1>1, <1>2, BoundedKept

LEMMA StillDates ==
  ASSUME TypeInv, [Next]_vars, users' \in [Users -> User],
         \A u \in Users : users'[u].hash = users[u].hash /\ users'[u].writes = users[u].writes
  PROVE  Keeps
<1>1. \A u \in Users : users[u].writes <= users'[u].writes
  BY PasswordTypes
<1>2. \A u \in Users, hash \in Hash \cup {None}, age \in Nat : Dated(u, hash, age) => DatedLater(u, hash, age)
  BY OldKept DEF Dated, DatedLater
<1>. QED
  BY <1>1, <1>2, OldKept DEF Keeps

LEMMA DateNext == TypeInv /\ OneHandler /\ DateInv /\ [Next]_vars => DateInv'
<1>. SUFFICES ASSUME TypeInv, OneHandler, DateInv, [Next]_vars PROVE DateInv'
  OBVIOUS
<1>1. mix' = mix
  BY NextCases DEF vars, storeVars
<1>2. \A g \in Handlers : DateLinks(req[g])
  BY DEF DateInv
<1>3. ASSUME Keeps, NEW u \in Users, users'[u].hash = users[u].hash PROVE OldLater(users'[u].hash)
  BY <1>3, PasswordTypes DEF Keeps, DateInv
<1>4. ASSUME NEW h \in Handlers, Enters(h) PROVE DateInv'
  <2>1. users' \in [Users -> User] /\ redis' = redis /\ \A g \in Handlers : g # h => req'[g] = req[g]
    BY <1>4 DEF Enters, Begins, Moved, Toggled
  <2>2. Keeps /\ \A u \in Users : users'[u].hash = users[u].hash
    BY <1>4, <2>1, StillDates DEF Enters, Toggled
  <2>3. DateLinked(req'[h])
    <3>1. /\ req'[h].pc \in {"lockout", "admit", "getStatus", "dropVerified", "reread", "cool", "verify",
                             "take", "self", "known", "inviter", "mint", "blacklist", "getdel",
                             "revokeToken", "findKey", "createKey", "markRevoked", "readRow"}
          /\ req'[h].pc = "lockout" => req'[h].flow = "login"
          /\ req'[h].data.kind \in {"none", "state", "invite"}
      BY <1>4 DEF Enters, Begins, Entrance
    <3>. QED
      BY <3>1 DEF DateLinked, BoundedLater
  <2>4. \A g \in Handlers : DateLinked(req'[g])
    BY <1>2, <2>1, <2>2, <2>3, LinksKept
  <2>5. \A n \in Ids : BoundedLater(redis'.vault[n])
    BY <2>1, <2>2, VaultDates
  <2>. QED
    BY <1>1, <1>3, <2>2, <2>4, <2>5, DateAfter
<1>5. ASSUME NEW h \in Handlers, Step(h) PROVE DateInv'
  <2>1. Keeps /\ users' \in [Users -> User] /\ \A g \in Handlers : g # h => req'[g] = req[g]
    BY <1>5, StepDates, StepsAlone, StepFrames DEF StepFrame, StoreFrame
  <2>2. \A g \in Handlers : DateLinked(req'[g])
    BY <1>2, <1>5, <2>1, LinksKept, MoverDates
  <2>3. ASSUME NEW n \in Ids PROVE BoundedLater(redis'.vault[n])
    <3>1. \/ redis'.vault[n] \in {redis.vault[n], NoEntry}
          \/ At(h, "mint") /\ redis'.vault[n] = req[h].data
      BY <1>5, <2>3, StepVault
    <3>. QED
      BY <2>1, <2>3, <3>1, VaultDates, VaultMints
  <2>4. ASSUME NEW u \in Users PROVE OldLater(users'[u].hash)
    <3>1. PICK n : n = req[h].id
      OBVIOUS
    <3>2. CASE users'[u].hash = None
      BY <3>2 DEF OldLater
    <3>3. CASE users'[u].hash.salt = n /\ req'[h].pc \in Settled
      <4>1. Begun(n, Settled)'
        BY <1>5, <3>1, <3>3, BegunNow DEF Settled
      <4>. QED
        BY <3>3, <4>1 DEF OldLater, Begun
    <3>. QED
      BY <1>3, <1>5, <2>1, <2>4, <3>1, <3>2, <3>3, HashStep
  <2>. QED
    BY <1>1, <2>2, <2>3, <2>4, DateAfter
<1>6. ASSUME UNCHANGED <<users, req>>, \A n \in Ids : redis'.vault[n] \in {redis.vault[n], NoEntry}
      PROVE  DateInv'
  <2>1. users' \in [Users -> User] /\ \A u \in Users : users'[u].writes \in Nat
    BY <1>6, Typed, PasswordTypes
  <2>2. Keeps
    BY <1>6, <2>1, StillDates
  <2>3. \A g \in Handlers : DateLinked(req'[g])
    BY <1>2, <1>6, <2>1, <2>2, LinksKept
  <2>. QED
    BY <1>1, <1>3, <1>6, <2>2, <2>3, VaultDates, DateAfter
<1>7. CASE Drifts
  BY <1>6, <1>7 DEF Drifts
<1>8. CASE UNCHANGED vars
  BY <1>6, <1>8 DEF vars, storeVars
<1>. QED
  BY <1>4, <1>5, <1>7, <1>8, NextCases

LEMMA DateStart == Init => DateInv
<1>. SUFFICES ASSUME Init PROVE DateInv
  OBVIOUS
<1>1. redis.vault = [n \in Ids |-> NoEntry] /\ req = [h \in Handlers |-> Idle]
  BY DEF Init, StoreInit
<1>2. \A n \in Ids : Bounded(redis.vault[n])
  BY <1>1 DEF Bounded, NoEntry
<1>3. \A h \in Handlers : DateLinks(req[h])
  BY <1>1 DEF DateLinks, Idle
<1>4. ASSUME NEW u \in Users PROVE Old(users[u].hash)
  <2>1. PICK verified \in BOOLEAN : users = [v \in Users |->
         CASE v = Admin -> [NoUser EXCEPT !.state = "active", !.email = AdminEmail, !.rank = 2,
                              !.verified = TRUE]
           [] v = Owner -> [NoUser EXCEPT !.state = "active", !.email = OwnerEmail, !.rank = 1,
                              !.verified = verified, !.oauth = OwnerEmail,
                              !.hash = IF mix.password THEN [word |-> OwnerWord, salt |-> 0]
                                       ELSE None]
           [] OTHER -> NoUser]
    BY DEF Init, StoreInit
  <2>2. NoUser.hash = None
    BY DEF NoUser
  <2>3. CASE u = Admin
    BY <2>1, <2>2, <2>3 DEF NoUser, Old
  <2>4. CASE u # Admin /\ u # Owner
    BY <2>1, <2>2, <2>4 DEF Old
  <2>5. CASE u = Owner
    <3>1. users[u].hash \in {None, [word |-> OwnerWord, salt |-> 0]}
      BY <1>4, <2>1, <2>5, AccountAssumption DEF NoUser
    <3>2. [word |-> OwnerWord, salt |-> 0].salt = 0
      OBVIOUS
    <3>. QED
      BY <3>1, <3>2 DEF Old
  <2>. QED
    BY <2>3, <2>4, <2>5
<1>. QED
  BY <1>2, <1>3, <1>4 DEF DateInv

(* Of several links or verified tokens sent for one password, the first one *)
(* used is the last: what is bound to a password that was replaced before   *)
(* it was presented goes nowhere (assertResetTokenStillBound,               *)
(* assertStillBound).                                                       *)
THEOREM StaleRefused == Spec => []StaleProofRefused
<1>1. DateInv => StaleProofRefused
  BY DEF DateInv, DateLinks, StaleProofRefused
<1>. QED
  BY <1>1, TypeStart, TypeNext, OneStart, OneNext, DateStart, DateNext, PTL DEF Spec

-----------------------------------------------------------------------------
(* Invitations *)

(* Once a handler has claimed the index with its value, it has. *)
LEMMA ClaimedKept ==
  ASSUME TypeInv, NEW h \in Handlers, Step(h), NEW n \in Ids, Claimed(n)
  PROVE  Claimed(n)'
<1>1. /\ starts' = starts /\ \A g \in Handlers : g # h => req'[g] = req[g]
      /\ Follows(req'[h], req[h])
      /\ req'[h].pc # "idle" => req'[h].id = req[h].id /\ req'[h].flow = req[h].flow
  BY StepKeeps, StepsAlone
<1>2. FlowLinks(req'[h]) /\ req[h].pc # "idle"
  BY StepKeeps, StepFrames DEF StepFrame, Advances
<1>3. ASSUME req'[h].id = n, req'[h].pc # "idle"
      PROVE  req'[h].flow = "invite" /\ req'[h].pc \in {"remove", "mint", "confirm", "withdraw", "mail"}
  <2>1. req[h].flow = "invite" /\ req[h].pc \in {"remove", "mint", "confirm", "withdraw", "mail"}
    BY <1>1, <1>2, <1>3 DEF Claimed, At
  <2>2. req'[h].flow = "invite"
    BY <1>1, <1>3, <2>1
  <2>3. Leads(req[h].pc, req'[h].pc)
    BY <1>1, <1>3, <2>2 DEF Follows, Idle
  <2>4. req'[h].pc # "epoch"
    BY <1>2, <2>2 DEF FlowLinks, OnPath
  <2>. QED
    BY <2>1, <2>2, <2>3, <2>4 DEF Leads
<1>. QED
  BY <1>1, <1>3 DEF Claimed, At

(* Where no invitation is named anew. *)
LEMMA NameQuiet ==
  ASSUME NEW n \in Ids, NameLinks(n), Claimed(n) => Claimed(n)',
         \A e \in Emails : redis'.index[e] = n => redis.index[e] = n,
         n \in seen'.dead => n \in seen.dead,
         \A g \in Handlers : req'[g].approved = n =>
           /\ req[g].approved = n /\ req'[g].email = req[g].email /\ req'[g].flow = req[g].flow
           /\ req'[g].pc = "remove" => At(g, "remove") \/ \A e \in Emails : redis'.index[e] # n
  PROVE  NameLinks(n)'
<1>1. (~Claimed(n) => Unnamed(n))'
  BY DEF NameLinks, Unnamed
<1>2. (n \in seen.dead => \A e \in Emails : redis.index[e] # n)'
  BY DEF NameLinks
<1>3. (\A h \in Handlers : At(h, "remove") /\ req[h].approved = n => \A e \in Emails : redis.index[e] # n)'
  BY DEF NameLinks, At
<1>4. (\A e, f \in Emails : redis.index[e] = n /\ redis.index[f] = n => e = f)'
  BY DEF NameLinks
<1>5. (\A h \in Handlers : req[h].approved = n =>
         req[h].flow \in {"invite", "revoke"} /\ \A e \in Emails : redis.index[e] = n => e = req[h].email)'
  BY DEF NameLinks
<1>. QED
  BY <1>1, <1>2, <1>3, <1>4, <1>5 DEF NameLinks

LEMMA NameMoves ==
  ASSUME NEW n \in Ids, NameLinks(n), Claimed(n) => Claimed(n)',
         \A e \in Emails : redis'.index[e] = n => redis.index[e] = n,
         n \in seen'.dead => n \in seen.dead,
         NEW h \in Handlers, \A g \in Handlers : g # h => req'[g] = req[g],
         req'[h].approved = n =>
           /\ req[h].approved = n /\ req'[h].email = req[h].email /\ req'[h].flow = req[h].flow
           /\ req'[h].pc = "remove" => At(h, "remove") \/ \A e \in Emails : redis'.index[e] # n
  PROVE  NameLinks(n)'
<1>1. ASSUME NEW g \in Handlers, req'[g].approved = n
      PROVE  /\ req[g].approved = n /\ req'[g].email = req[g].email /\ req'[g].flow = req[g].flow
             /\ req'[g].pc = "remove" => At(g, "remove") \/ \A e \in Emails : redis'.index[e] # n
  BY <1>1 DEF At
<1>. QED
  BY <1>1, NameQuiet

(* What holds of an invitation in every step. *)
LEMMA StepName ==
  ASSUME TypeInv, NameInv, NEW h \in Handlers, Step(h), NEW n \in Ids
  PROVE  /\ NameLinks(n) /\ (Claimed(n) => Claimed(n)') /\ StoreFrame(req[h].pc) /\ n # 0
         /\ \A g \in Handlers : g # h => req'[g] = req[g]
         /\ Follows(req'[h], req[h]) /\ FlowLinks(req'[h]) /\ FlowLinks(req[h])
         /\ req'[h].approved = n => req'[h].pc # "idle" /\ req'[h].flow = req[h].flow
<1>1. n # 0 /\ Idle.approved = 0 /\ Idle.pc = "idle"
  BY DEF Ids, Idle
<1>2. /\ StoreFrame(req[h].pc) /\ Follows(req'[h], req[h]) /\ FlowLinks(req'[h]) /\ FlowLinks(req[h])
      /\ \A g \in Handlers : g # h => req'[g] = req[g]
      /\ req'[h].pc # "idle" => req'[h].flow = req[h].flow
  BY StepFrames, StepKeeps, OldLinks DEF StepFrame, Advances, Moved
<1>3. req'[h].approved = n => req'[h].pc # "idle"
  BY <1>1, <1>2 DEF FlowLinks
<1>. QED
  BY <1>1, <1>2, <1>3, ClaimedKept DEF NameInv

LEMMA IndexName ==
  ASSUME TypeInv, NameInv, NEW h \in Handlers, Step(h), At(h, "index"), NEW n \in Ids
  PROVE  NameLinks(n)'
<1>1. /\ NameLinks(n) /\ (Claimed(n) => Claimed(n)') /\ StoreFrame(req[h].pc) /\ n # 0
      /\ \A g \in Handlers : g # h => req'[g] = req[g]
      /\ Follows(req'[h], req[h]) /\ FlowLinks(req[h])
      /\ req'[h].approved = n => req'[h].pc # "idle" /\ req'[h].flow = req[h].flow
  BY StepName
<1>2. redis'.index = redis.index /\ seen'.dead = seen.dead
  BY <1>1 DEF StoreFrame, At
<1>3. /\ req[h].email \in Emails
      /\ \/ Ends(h)
         \/ req'[h].pc = "pending" /\ req'[h].approved = redis.index[req[h].email]
         \/ req'[h].pc = "claim" /\ req'[h].approved = 0
  BY StepPlace, IndexEffect
<1>4. CASE req'[h].approved # n
  BY <1>1, <1>2, <1>4, NameMoves
<1>5. CASE req'[h].approved = n
  <2>1. req'[h].pc = "pending" /\ redis.index[req[h].email] = n
    BY <1>1, <1>3, <1>5 DEF Ends, Idle
  <2>2. req'[h].email = req[h].email /\ req'[h].flow = req[h].flow
    BY <1>1, <1>5, <2>1 DEF Follows, At, Idle
  <2>3. req[h].flow \in {"invite", "revoke"}
    BY <1>1 DEF FlowLinks, OnPath, At
  <2>4. Claimed(n)'
    BY <1>1, <1>3, <2>1 DEF NameLinks, Unnamed
  <2>5. (\A g \in Handlers : At(g, "remove") /\ req[g].approved = n => \A e \in Emails : redis.index[e] # n)'
    BY <1>1, <1>2, <2>1 DEF NameLinks, At
  <2>6. (\A g \in Handlers : req[g].approved = n =>
           req[g].flow \in {"invite", "revoke"} /\ \A e \in Emails : redis.index[e] = n => e = req[g].email)'
    BY <1>1, <1>2, <1>3, <2>1, <2>2, <2>3 DEF NameLinks
  <2>. QED
    BY <1>1, <1>2, <2>4, <2>5, <2>6 DEF NameLinks
<1>. QED
  BY <1>4, <1>5

LEMMA ClaimName ==
  ASSUME TypeInv, OneHandler, NameInv, NEW h \in Handlers, Step(h), At(h, "claim"), NEW n \in Ids
  PROVE  NameLinks(n)'
<1>1. /\ NameLinks(n) /\ (Claimed(n) => Claimed(n)') /\ StoreFrame(req[h].pc) /\ n # 0
      /\ \A g \in Handlers : g # h => req'[g] = req[g]
      /\ Follows(req'[h], req[h]) /\ FlowLinks(req'[h]) /\ FlowLinks(req[h])
      /\ req'[h].approved = n => req'[h].pc # "idle" /\ req'[h].flow = req[h].flow
  BY StepName
<1>2. seen'.dead = seen.dead
  BY <1>1 DEF StoreFrame, At
<1>3. req'[h].approved = n => req[h].approved = n /\ req'[h].email = req[h].email /\ req'[h].flow = req[h].flow
  BY <1>1 DEF Follows, At, Idle
<1>4. /\ req[h].email \in Emails /\ req[h].id \in Ids
      /\ \/ /\ redis.index[req[h].email] = req[h].approved
            /\ redis'.index = [redis.index EXCEPT ![req[h].email] = req[h].id]
            /\ req'[h].pc = IF req[h].approved = 0 THEN "mint" ELSE "remove"
         \/ redis' = redis /\ req'[h].pc \in {"idle", "index"}
  BY StepPlace, ClaimEffect
<1>5. CASE redis' = redis /\ req'[h].pc \in {"idle", "index"}
  BY <1>1, <1>2, <1>3, <1>5, NameMoves
<1>6. CASE /\ redis.index[req[h].email] = req[h].approved
           /\ redis'.index = [redis.index EXCEPT ![req[h].email] = req[h].id]
           /\ req'[h].pc = IF req[h].approved = 0 THEN "mint" ELSE "remove"
  <2>1. /\ redis'.index[req[h].email] = req[h].id
        /\ \A e \in Emails : e # req[h].email => redis'.index[e] = redis.index[e]
    BY <1>4, <1>6, Typed, RedisFields
  <2>2. CASE n = req[h].id
    <3>1. Unnamed(n)
      BY <1>1, <2>2 DEF NameLinks, Claimed, At
    <3>2. req'[h].id = req[h].id /\ req'[h].pc \in {"mint", "remove"} /\ req'[h].flow = req[h].flow
      BY <1>6, StepKeeps
    <3>3. req'[h].flow = "invite"
      BY <1>1, <3>2 DEF FlowLinks, OnPath, At
    <3>4. ASSUME NEW g \in Handlers, req'[g].id = n, g # h PROVE req'[g].pc = "idle"
      BY <1>1, <2>2, <3>4 DEF OneHandler, At
    <3>5. Claimed(n)'
      <4>1. starts' = starts /\ n <= starts
        BY <2>2, StepKeeps, KeyFlow
      <4>. QED
        BY <3>2, <3>3, <3>4, <4>1 DEF Claimed, At
    <3>6. \A g \in Handlers : req'[g].approved # n
      BY <1>1, <1>3, <3>1 DEF Unnamed
    <3>7. \A e \in Emails : redis'.index[e] = n => e = req[h].email
      BY <2>1, <3>1 DEF Unnamed
    <3>. QED
      BY <1>2, <3>1, <3>5, <3>6, <3>7 DEF NameLinks, Unnamed
  <2>3. CASE n # req[h].id
    <3>1. \A e \in Emails : redis'.index[e] = n => e # req[h].email /\ redis.index[e] = n
      BY <2>1, <2>3
    <3>2. req[h].approved = n => \A e \in Emails : redis'.index[e] # n
      BY <1>1, <1>4, <1>6, <3>1 DEF NameLinks
    <3>. QED
      BY <1>1, <1>2, <1>3, <3>1, <3>2, NameMoves
  <2>. QED
    BY <2>2, <2>3
<1>. QED
  BY <1>4, <1>5, <1>6

LEMMA RemoveName ==
  ASSUME TypeInv, NameInv, NEW h \in Handlers, Step(h), At(h, "remove"), NEW n \in Ids
  PROVE  NameLinks(n)'
<1>1. /\ NameLinks(n) /\ (Claimed(n) => Claimed(n)') /\ StoreFrame(req[h].pc) /\ n # 0
      /\ \A g \in Handlers : g # h => req'[g] = req[g]
      /\ Follows(req'[h], req[h])
      /\ req'[h].approved = n => req'[h].pc # "idle" /\ req'[h].flow = req[h].flow
  BY StepName
<1>2. redis'.index = redis.index
  BY <1>1 DEF StoreFrame, At
<1>3. seen'.dead = seen.dead \cup {req[h].approved} /\ req'[h].pc \in {"idle", "mint"}
  BY StepPlace, RemoveEffect
<1>4. req'[h].approved = n => /\ req[h].approved = n /\ req'[h].email = req[h].email
                              /\ req'[h].flow = req[h].flow
  BY <1>1 DEF Follows, At, Idle
<1>5. CASE req[h].approved # n
  BY <1>1, <1>2, <1>3, <1>4, <1>5, NameMoves
<1>6. CASE req[h].approved = n
  <2>1. (\A e \in Emails : redis'.index[e] # n) /\ Claimed(n)'
    BY <1>1, <1>2, <1>6 DEF NameLinks, Unnamed
  <2>2. ASSUME NEW g \in Handlers, req'[g].approved = n PROVE req'[g].flow \in {"invite", "revoke"}
    BY <1>1, <1>4, <1>6, <2>2 DEF NameLinks
  <2>. QED
    BY <2>1, <2>2 DEF NameLinks
<1>. QED
  BY <1>5, <1>6

LEMMA UnindexName ==
  ASSUME TypeInv, NameInv, NEW h \in Handlers, Step(h), At(h, "unindex"), NEW n \in Ids
  PROVE  NameLinks(n)'
<1>1. /\ NameLinks(n) /\ (Claimed(n) => Claimed(n)') /\ StoreFrame(req[h].pc) /\ n # 0
      /\ \A g \in Handlers : g # h => req'[g] = req[g]
      /\ Follows(req'[h], req[h])
      /\ req'[h].approved = n => req'[h].pc # "idle" /\ req'[h].flow = req[h].flow
  BY StepName
<1>2. seen'.dead = seen.dead
  BY <1>1 DEF StoreFrame, At
<1>3. req[h].email \in Emails /\ redis'.index = [redis.index EXCEPT ![req[h].email] = 0]
  BY StepPlace, UnindexEffect
<1>4. redis'.index[req[h].email] = 0 /\ \A e \in Emails : e # req[h].email => redis'.index[e] = redis.index[e]
  BY <1>3, Typed, RedisFields
<1>5. req'[h].approved = n => /\ req[h].approved = n /\ req'[h].email = req[h].email
                              /\ req'[h].flow = req[h].flow
  BY <1>1 DEF Follows, At, Idle
<1>6. \A e \in Emails : redis'.index[e] = n => e # req[h].email /\ redis.index[e] = n
  BY <1>1, <1>4
<1>7. req[h].approved = n => \A e \in Emails : redis'.index[e] # n
  BY <1>1, <1>6 DEF NameLinks
<1>. QED
  BY <1>1, <1>2, <1>5, <1>6, <1>7, NameMoves

LEMMA ElseName ==
  ASSUME TypeInv, NameInv, NEW h \in Handlers, Step(h), NEW n \in Ids,
         req[h].pc \notin {"index", "claim", "remove", "unindex"}
  PROVE  NameLinks(n)'
<1>1. /\ NameLinks(n) /\ (Claimed(n) => Claimed(n)') /\ StoreFrame(req[h].pc)
      /\ \A g \in Handlers : g # h => req'[g] = req[g]
      /\ Follows(req'[h], req[h]) /\ FlowLinks(req[h])
      /\ req'[h].approved = n => req'[h].pc # "idle" /\ req'[h].flow = req[h].flow
  BY StepName
<1>2. redis'.index = redis.index /\ seen'.dead = seen.dead
  BY <1>1 DEF StoreFrame
<1>3. ASSUME req'[h].approved = n
      PROVE  /\ req[h].approved = n /\ req'[h].email = req[h].email /\ req'[h].flow = req[h].flow
             /\ req'[h].pc # "remove"
  <2>1. req[h].approved = n /\ Leads(req[h].pc, req'[h].pc) /\ req'[h].flow = req[h].flow
    BY <1>1, <1>3 DEF Follows, Idle
  <2>2. req[h].pc # "take"
    BY <1>1, <2>1 DEF NameLinks, FlowLinks, OnPath
  <2>3. req'[h].email = req[h].email
    BY <1>1, <1>3, <2>2 DEF Follows, Idle
  <2>. QED
    BY <2>1, <2>3 DEF Leads
<1>. QED
  BY <1>1, <1>2, <1>3, NameMoves

LEMMA StepNames ==
  ASSUME TypeInv, OneHandler, NameInv, NEW h \in Handlers, Step(h), NEW n \in Ids
  PROVE  NameLinks(n)'
BY IndexName, ClaimName, RemoveName, UnindexName, ElseName DEF At

(* Who comes to mail a value. *)
LEMMA StepMailing ==
  ASSUME TypeInv, NEW h \in Handlers, Step(h), NEW n \in Ids, Mailing(n)', ~Mailing(n)
  PROVE  /\ n = req[h].id /\ req[h].pc \in {"mint", "mintTicket", "code", "confirm", "create"}
         /\ At(h, "confirm") => req'[h].pc = "mail"
         /\ At(h, "mint") => req'[h].pc = "mail" \/ seen'.mailed # seen.mailed
<1>1. /\ StoreFrame(req[h].pc) /\ Follows(req'[h], req[h])
      /\ \A g \in Handlers : g # h => req'[g] = req[g]
      /\ req'[h].pc # "idle" => req'[h].id = req[h].id
  BY StepFrames, StepKeeps, StepsAlone DEF StepFrame
<1>2. CASE n \in seen'.mailed
  <2>1. CASE At(h, "mint")
    <3>1. seen'.mailed \in {seen.mailed, seen.mailed \cup {req[h].id}}
      BY <2>1, StepPlace, MintEffect
    <3>. QED
      BY <1>2, <2>1, <3>1 DEF Mailing, At
  <2>2. CASE At(h, "mintTicket")
    <3>1. seen'.mailed = seen.mailed \cup {req[h].id}
      BY <2>2, StepPlace, MintTicketEffect
    <3>. QED
      BY <1>2, <2>2, <3>1 DEF Mailing, At
  <2>3. CASE At(h, "mail")
    <3>1. seen'.mailed = seen.mailed \cup {req[h].id} \/ seen' = seen
      BY <2>3, StepPlace, MailEffect
    <3>. QED
      BY <1>2, <2>3, <3>1 DEF Mailing, At
  <2>4. CASE req[h].pc \notin {"mint", "mintTicket", "mail"}
    BY <1>1, <1>2, <2>4 DEF StoreFrame, Mailing
  <2>. QED
    BY <2>1, <2>2, <2>3, <2>4 DEF At
<1>3. CASE n \notin seen'.mailed
  <2>1. PICK g \in Handlers : req'[g].pc = "mail" /\ req'[g].id = n
    BY <1>3 DEF Mailing, At
  <2>2. g = h
    BY <1>1, <2>1 DEF Mailing, At
  <2>3. Leads(req[h].pc, "mail")
    BY <1>1, <2>1, <2>2 DEF Follows, Idle
  <2>4. req[h].pc \in {"mint", "code", "confirm"}
    BY <2>3 DEF Leads
  <2>. QED
    BY <1>1, <2>1, <2>2, <2>4
<1>. QED
  BY <1>2, <1>3

(* A dead invitation is not there, or not yet mailed. *)
LEMMA StepDead ==
  ASSUME TypeInv, IdInv, NameInv, NEW h \in Handlers, Step(h), NEW n \in Ids,
         n \in seen'.dead, Mailing(n)'
  PROVE  redis'.vault[n].kind # "invite"
<1>1. StoreFrame(req[h].pc) /\ FlowLinks(req[h]) /\ DataLinks(req[h]) /\ FlowLinks(req'[h])
  BY StepFrames, OldLinks DEF StepFrame, Advances
<1>2. NoEntry.kind = "none"
  BY DEF NoEntry
<1>3. CASE At(h, "remove")
  <2>1. /\ redis'.vault = [redis.vault EXCEPT ![req[h].approved] = NoEntry]
        /\ seen'.dead = seen.dead \cup {req[h].approved}
    BY <1>3, StepPlace, RemoveEffect
  <2>2. CASE n = req[h].approved
    BY <1>2, <2>1, <2>2, Typed, RedisFields
  <2>3. CASE n # req[h].approved
    <3>1. n \in seen.dead /\ redis'.vault[n] \in {redis.vault[n], NoEntry}
      BY <1>3, <2>1, <2>3, StepVault DEF At
    <3>2. Mailing(n)
      BY <1>3, StepMailing DEF At
    <3>. QED
      BY <1>2, <3>1, <3>2 DEF NameInv
  <2>. QED
    BY <2>2, <2>3
<1>4. CASE ~At(h, "remove")
  <2>1. n \in seen.dead
    BY <1>1, <1>4 DEF StoreFrame, At
  <2>2. CASE Mailing(n)
    <3>1. CASE At(h, "mint") /\ n = req[h].id
      <4>1. Unused(n)
        BY <3>1, NotYet DEF At, Drawn
      <4>2. PICK g \in Handlers : At(g, "mail") /\ req[g].id = n
        BY <2>2, <4>1 DEF Mailing, Unused
      <4>. QED
        BY <3>1, <4>2 DEF IdInv, OneHandler, At
    <3>2. CASE ~(At(h, "mint") /\ n = req[h].id)
      <4>1. redis'.vault[n] \in {redis.vault[n], NoEntry}
        BY <3>2, StepVault
      <4>. QED
        BY <1>2, <2>1, <2>2, <4>1 DEF NameInv
    <3>. QED
      BY <3>1, <3>2
  <2>3. CASE ~Mailing(n)
    <3>1. /\ n = req[h].id /\ req[h].pc \in {"mint", "mintTicket", "code", "confirm", "create"}
          /\ At(h, "confirm") => req'[h].pc = "mail"
          /\ At(h, "mint") => req'[h].pc = "mail" \/ seen'.mailed # seen.mailed
      BY <2>3, StepMailing
    <3>2. CASE At(h, "confirm")
      <4>1. Confirm(h) /\ req'[h].pc = "mail"
        BY <3>1, <3>2, StepPlace
      <4>2. StillNamed(h)
        <5>1. ~StillNamed(h) => Goto(h, "withdraw")
          BY <4>1 DEF Confirm
        <5>2. req[h] \in Handler
          BY Typed
        <5>3. Goto(h, "withdraw") => req'[h].pc = "withdraw"
          BY <5>2, Typed DEF Goto, Handler
        <5>. QED
          BY <4>1, <5>1, <5>3
      <4>3. req[h].email \in Emails /\ redis.index[req[h].email] = n
        BY <1>1, <3>1, <3>2, <4>2, Typed, HandlerFields DEF StillNamed, FlowLinks, HasEmail, OnPath, At
      <4>. QED
        BY <2>1, <4>3 DEF NameInv, NameLinks
    <3>3. CASE At(h, "mint")
      <4>1. redis'.vault[n] = req[h].data
        BY <3>1, <3>3, StepPlace, MintEffect, Typed, RedisFields
      <4>2. req[h].flow # "invite"
        <5>1. req[h].flow = "invite" => req'[h].pc = "confirm" /\ seen' = seen
          BY <3>3, StepPlace, MintEffect
        <5>. QED
          BY <3>1, <3>3, <5>1
      <4>3. req[h].flow \in {"forgot", "verifyOtp", "requestMove", "authorize"}
        BY <1>1, <3>3, <4>2 DEF FlowLinks, OnPath, At
      <4>. QED
        BY <1>1, <3>3, <4>1, <4>3 DEF DataLinks, At
    <3>4. CASE req[h].pc \in {"mintTicket", "code", "create"}
      <4>1. Unused(n)
        BY <3>1, <3>4, NotYet DEF Drawn
      <4>2. redis'.vault = redis.vault
        BY <1>1, <3>4 DEF StoreFrame
      <4>. QED
        BY <1>2, <4>1, <4>2 DEF Unused
    <3>. QED
      BY <3>1, <3>2, <3>3, <3>4 DEF At
  <2>. QED
    BY <2>2, <2>3
<1>. QED
  BY <1>3, <1>4

LEMMA NameAfter ==
  ASSUME mix' = mix, \A n \in Ids : NameLinks(n)',
         \A n \in Ids : n \in seen'.dead /\ Mailing(n)' => redis'.vault[n].kind # "invite"
  PROVE  NameInv'
BY TypesKept DEF NameInv

LEMMA NameNext == TypeInv /\ IdInv /\ NameInv /\ [Next]_vars => NameInv'
<1>. SUFFICES ASSUME TypeInv, IdInv, NameInv, [Next]_vars PROVE NameInv'
  OBVIOUS
<1>1. mix' = mix /\ OneHandler
  BY NextCases DEF vars, storeVars, IdInv
<1>2. \A n \in Ids : NameLinks(n) /\ (n \in seen.dead /\ Mailing(n) => redis.vault[n].kind # "invite")
  BY DEF NameInv
<1>3. starts \in Nat /\ \A n \in Ids : n \in Nat /\ n # 0
  BY Typed DEF Ids
<1>4. ASSUME NEW h \in Handlers, Enters(h) PROVE NameInv'
  <2>1. /\ redis' = redis /\ seen' = seen /\ starts' = starts + 1 /\ req'[h].id = starts + 1
        /\ req'[h].approved = 0 /\ \A g \in Handlers : g # h => req'[g] = req[g]
        /\ req'[h].pc \in {"lockout", "admit", "getStatus", "dropVerified", "reread", "cool", "verify",
                           "take", "self", "known", "inviter", "mint", "blacklist", "getdel",
                           "revokeToken", "findKey", "createKey", "markRevoked", "readRow"}
    BY <1>4 DEF Enters, Begins, Moved
  <2>2. ASSUME NEW n \in Ids, Claimed(n) PROVE Claimed(n)'
    <3>1. n <= starts /\ n # starts + 1 /\ n <= starts'
      BY <1>3, <2>1, <2>2 DEF Claimed
    <3>. QED
      BY <2>1, <2>2, <3>1 DEF Claimed, At
  <2>3. ASSUME NEW n \in Ids PROVE NameLinks(n)'
    BY <1>2, <1>3, <2>1, <2>2, <2>3, NameMoves
  <2>4. ASSUME NEW n \in Ids, Mailing(n)' PROVE Mailing(n)
    BY <2>1, <2>4 DEF Mailing, At
  <2>. QED
    BY <1>1, <1>2, <2>1, <2>3, <2>4, NameAfter
<1>5. ASSUME NEW h \in Handlers, Step(h) PROVE NameInv'
  BY <1>1, <1>5, StepNames, StepDead, NameAfter
<1>6. ASSUME UNCHANGED req, redis'.index = redis.index, seen'.dead = seen.dead, seen'.mailed = seen.mailed,
             starts' \in {starts, starts + 1}, \A n \in Ids : redis'.vault[n] \in {redis.vault[n], NoEntry}
      PROVE  NameInv'
  <2>1. ASSUME NEW n \in Ids, Claimed(n) PROVE Claimed(n)'
    <3>1. n <= starts'
      BY <1>3, <1>6, <2>1 DEF Claimed
    <3>. QED
      BY <1>6, <2>1, <3>1 DEF Claimed, At
  <2>2. ASSUME NEW n \in Ids PROVE NameLinks(n)'
    <3>1. \A g \in Handlers : req'[g].approved = n =>
            /\ req[g].approved = n /\ req'[g].email = req[g].email /\ req'[g].flow = req[g].flow
            /\ req'[g].pc = "remove" => At(g, "remove") \/ \A e \in Emails : redis'.index[e] # n
      BY <1>6 DEF At
    <3>. QED
      BY <1>2, <1>6, <2>1, <2>2, <3>1, NameQuiet
  <2>3. ASSUME NEW n \in Ids, Mailing(n)' PROVE Mailing(n)
    BY <1>6, <2>3 DEF Mailing, At
  <2>4. NoEntry.kind = "none"
    BY DEF NoEntry
  <2>5. \A n \in Ids : n \in seen'.dead /\ Mailing(n)' => redis'.vault[n].kind # "invite"
    BY <1>2, <1>6, <2>3, <2>4
  <2>. QED
    BY <1>1, <2>2, <2>5, NameAfter
<1>7. CASE Drifts
  BY <1>6, <1>7 DEF Drifts, KeysBut, SeenBut
<1>8. CASE UNCHANGED vars
  BY <1>6, <1>8 DEF vars, storeVars
<1>. QED
  BY <1>4, <1>5, <1>7, <1>8, NextCases

LEMMA NameStart == Init => NameInv
<1>. SUFFICES ASSUME Init, NEW n \in Ids
              PROVE  NameLinks(n) /\ (n \in seen.dead /\ Mailing(n) => redis.vault[n].kind # "invite")
  BY DEF NameInv
<1>1. /\ redis.index = [e \in Emails |-> 0] /\ seen.dead = {} /\ req = [h \in Handlers |-> Idle]
  BY DEF Init, StoreInit
<1>2. n # 0 /\ Idle.approved = 0
  BY DEF Ids, Idle
<1>. QED
  BY <1>1, <1>2 DEF NameLinks, Unnamed

(* An invitation that was superseded or revoked can no longer be accepted,  *)
(* even when it was still being written at the time (InvitationService).    *)
THEOREM DeadInvitations == Spec => []SupersededStaysDead
<1>1. TypeInv /\ NameInv => SupersededStaysDead
  <2>. SUFFICES ASSUME TypeInv, NameInv, NEW n \in seen.dead \cap seen.mailed
                PROVE  redis.vault[n].kind # "invite"
    BY DEF SupersededStaysDead
  <2>1. n \in Ids
    BY Typed, SeenFields
  <2>. QED
    BY <2>1 DEF NameInv, Mailing
<1>. QED
  BY <1>1, TypeStart, TypeNext, IdStart, IdNext, NameStart, NameNext, PTL DEF Spec

(* All of it holds at once. *)
THEOREM Inductive == Spec => []IInv
<1>1. Init => IInv
  BY TypeStart, IdStart, GuessStart, DateStart, SessionStart, NameStart, CacheStart, TicketsStart,
     KeysStart DEF IInv
<1>2. IInv /\ [Next]_vars => IInv'
  <2>1. IInv => OneHandler
    BY DEF IInv, IdInv
  <2>. QED
    BY <2>1, TypeNext, IdNext, GuessNext, DateNext, SessionNext, NameNext, CacheNext, TicketsNext,
       KeysNext DEF IInv
<1>. QED
  BY <1>1, <1>2, PTL DEF Spec
=============================================================================
