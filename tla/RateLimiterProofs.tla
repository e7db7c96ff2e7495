------------------------- MODULE RateLimiterProofs -------------------------
(***************************************************************************)
(* Proofs about RateLimiter, for every number of processes, clients and    *)
(* limits.  The inductive invariant is stated for one key of one process:  *)
(* C is the list in the cache, S and R the calls served and refused, t the *)
(* clock and n the number of the next call.  While the process lives the   *)
(* list holds every served call still inside the window (Covered) and      *)
(* nothing but served calls (Backed), so its length after the clean-up is  *)
(* the number the limit is about.                                          *)
(***************************************************************************)
EXTENDS RateLimiter, FiniteSetTheorems, TLAPS

\* No call lies in the future and every call number was handed out.
Past(S, R, t, n) == \A e \in S \cup R : e.at <= t /\ e.n < n

Covered(C, S, limit, t) == Recent(S, limit, t) \subseteq C

Backed(C, S) == IsFiniteSet(C) /\ C \subseteq S

Small(S, limit, t) ==
    /\ IsFiniteSet(Recent(S, limit, t))
    /\ Cardinality(Recent(S, limit, t)) <= limit.attempts

SmallToDate(S, limit, t) ==
    \A u \in 0..t : Cardinality(InWindow(S, limit, u)) <= limit.attempts

Justified(S, R, limit) ==
    \A r \in R : Cardinality({e \in InWindow(S, limit, r.at) : e.n < r.n}) = limit.attempts

KeyInv(C, S, R, alive, limit, t, n) ==
    /\ Past(S, R, t, n)
    /\ alive => Covered(C, S, limit, t)
    /\ Backed(C, S)
    /\ Small(S, limit, t)
    /\ SmallToDate(S, limit, t)
    /\ Justified(S, R, limit)

Inv(p, c, a) == KeyInv(cache[p][c][a], served[p][c][a], refused[p][c][a],
                       state[p] # "down", Limits[a], now, calls)

IInv == TypeOK /\ \A p \in Procs, c \in Clients, a \in DOMAIN Limits : Inv(p, c, a)

-----------------------------------------------------------------------------
\* One key on its own: what a tick and the two outcomes of a call preserve.

Limit == [attempts : Nat \ {0}, window : Nat \ {0}]

\* A list that covers the recent served calls and holds only served calls
\* counts exactly the recent served calls.
LEMMA RecentAgree ==
  ASSUME NEW S \in SUBSET Entry, NEW C \in SUBSET S, NEW limit \in Limit, NEW t \in Nat,
         Covered(C, S, limit, t)
  PROVE  Recent(C, limit, t) = Recent(S, limit, t)
BY DEF Covered, Recent

\* The window that ends at the clock is what the clean-up keeps.
LEMMA WindowNow ==
  ASSUME NEW S \in SUBSET Entry, NEW limit \in Limit, NEW t \in Nat,
         \A e \in S : e.at <= t
  PROVE  InWindow(S, limit, t) = Recent(S, limit, t)
BY DEF InWindow, Recent

LEMMA KeyTick ==
  ASSUME NEW S \in SUBSET Entry, NEW C \in SUBSET Entry, NEW R \in SUBSET Entry,
         NEW alive \in BOOLEAN, NEW limit \in Limit, NEW t \in Nat, NEW n \in Nat,
         KeyInv(C, S, R, alive, limit, t, n)
  PROVE  KeyInv(C, S, R, alive, limit, t + 1, n)
<1>1. Recent(S, limit, t + 1) \in SUBSET Recent(S, limit, t)
  BY DEF Recent, Limit, Entry
<1>2. IsFiniteSet(Recent(S, limit, t)) /\ Cardinality(Recent(S, limit, t)) <= limit.attempts
  BY DEF KeyInv, Small
<1>3. /\ IsFiniteSet(Recent(S, limit, t + 1))
      /\ Cardinality(Recent(S, limit, t + 1)) <= Cardinality(Recent(S, limit, t))
  BY <1>1, <1>2, FS_Subset
<1>4. /\ Cardinality(Recent(S, limit, t)) \in Nat
      /\ Cardinality(Recent(S, limit, t + 1)) \in Nat
  BY <1>2, <1>3, FS_CardinalityType
<1>5. Small(S, limit, t + 1)
  BY <1>2, <1>3, <1>4 DEF Small, Limit
<1>6. Past(S, R, t + 1, n)
  BY DEF KeyInv, Past, Entry
<1>7. SmallToDate(S, limit, t + 1)
  <2>1. InWindow(S, limit, t + 1) = Recent(S, limit, t + 1)
    BY <1>6, WindowNow DEF Past
  <2>2. \A u \in 0..(t + 1) : u \in 0..t \/ u = t + 1
    OBVIOUS
  <2> QED
    BY <2>1, <2>2, <1>5 DEF KeyInv, SmallToDate, Small
<1>8. alive => Covered(C, S, limit, t + 1)
  BY <1>1 DEF KeyInv, Covered
<1> QED
  BY <1>5, <1>6, <1>7, <1>8 DEF KeyInv

\* A call made elsewhere only uses up a call number.
LEMMA KeyOtherCall ==
  ASSUME NEW S \in SUBSET Entry, NEW C \in SUBSET Entry, NEW R \in SUBSET Entry,
         NEW alive \in BOOLEAN, NEW limit \in Limit, NEW t \in Nat, NEW n \in Nat,
         KeyInv(C, S, R, alive, limit, t, n)
  PROVE  KeyInv(C, S, R, alive, limit, t, n + 1)
<1>1. Past(S, R, t, n + 1)
  BY DEF KeyInv, Past, Entry
<1> QED
  BY <1>1 DEF KeyInv

LEMMA KeyServed ==
  ASSUME NEW S \in SUBSET Entry, NEW C \in SUBSET Entry, NEW R \in SUBSET Entry,
         NEW limit \in Limit, NEW t \in Nat, NEW n \in Nat,
         KeyInv(C, S, R, TRUE, limit, t, n), ~Limited(C, limit, t)
  PROVE  KeyInv(Recorded(C, limit, n, t), S \cup {[n |-> n, at |-> t]}, R, TRUE,
                limit, t, n + 1)
<1> DEFINE new == [n |-> n, at |-> t]
           S1 == S \cup {new}
           C1 == Recorded(C, limit, n, t)
<1>1. new \in Entry /\ S1 \in SUBSET Entry
  BY DEF Entry
<1>2. C \in SUBSET S /\ IsFiniteSet(C) /\ Covered(C, S, limit, t)
  BY DEF KeyInv, Backed
<1>3. Recent(C, limit, t) = Recent(S, limit, t)
  BY <1>2, RecentAgree
<1>4. C1 = Recent(S, limit, t) \cup {new}
  BY <1>3 DEF Recorded
<1>5. Recent(S1, limit, t) = Recent(S, limit, t) \cup {new}
  BY <1>1 DEF Recent, Limit
<1>6. /\ IsFiniteSet(Recent(S, limit, t))
      /\ Cardinality(Recent(S, limit, t)) \in Nat
      /\ Cardinality(Recent(S, limit, t)) < limit.attempts
  <2>1. IsFiniteSet(Recent(S, limit, t))
    BY DEF KeyInv, Small
  <2>2. Cardinality(Recent(S, limit, t)) \in Nat
    BY <2>1, FS_CardinalityType
  <2> QED
    BY <1>3, <2>1, <2>2 DEF Limited, Limit
<1>7. Small(S1, limit, t)
  <2>1. /\ IsFiniteSet(Recent(S, limit, t) \cup {new})
        /\ \/ Cardinality(Recent(S, limit, t) \cup {new}) = Cardinality(Recent(S, limit, t))
           \/ Cardinality(Recent(S, limit, t) \cup {new}) = Cardinality(Recent(S, limit, t)) + 1
    BY <1>6, FS_AddElement
  <2>2. limit.attempts \in Nat
    BY DEF Limit
  <2>3. Cardinality(Recent(S, limit, t) \cup {new}) <= limit.attempts
    BY ONLY <1>6, <2>1, <2>2
  <2>4. IsFiniteSet(Recent(S1, limit, t)) /\ Cardinality(Recent(S1, limit, t)) <= limit.attempts
    BY ONLY <1>5, <2>1, <2>3
  <2> QED
    BY ONLY <2>4 DEF Small
<1>8. Past(S1, R, t, n + 1)
  <2>1. \A e \in S \cup R : e.at <= t /\ e.n < n + 1
    BY DEF KeyInv, Past, Entry
  <2> QED
    BY <2>1 DEF Past
<1>9. Covered(C1, S1, limit, t) /\ Backed(C1, S1)
  <2>1. IsFiniteSet(Recent(S, limit, t) \cup {new})
    BY <1>6, FS_AddElement
  <2>2. IsFiniteSet(C1)
    BY ONLY <2>1, <1>4
  <2> QED
    BY <2>2, <1>4, <1>5 DEF Covered, Backed, Recent
<1>10. SmallToDate(S1, limit, t)
  <2> SUFFICES ASSUME NEW u \in 0..t
               PROVE  Cardinality(InWindow(S1, limit, u)) <= limit.attempts
    BY DEF SmallToDate
  <2>1. CASE u = t
    <3>1. InWindow(S1, limit, t) = Recent(S1, limit, t)
      BY <1>1, <1>8, WindowNow DEF Past
    <3> QED
      BY <2>1, <3>1, <1>7 DEF Small
  <2>2. CASE u < t
    <3>1. InWindow(S1, limit, u) = InWindow(S, limit, u)
      BY <2>2 DEF InWindow, Recent
    <3> QED
      BY <3>1 DEF KeyInv, SmallToDate
  <2> QED
    BY <2>1, <2>2
<1>11. Justified(S1, R, limit)
  <2> SUFFICES ASSUME NEW r \in R
               PROVE  {e \in InWindow(S1, limit, r.at) : e.n < r.n}
                        = {e \in InWindow(S, limit, r.at) : e.n < r.n}
    BY DEF KeyInv, Justified
  <2>1. r.n < n /\ r.n \in Nat
    BY DEF KeyInv, Past, Entry
  <2>2. ~(new.n < r.n)
    BY <2>1
  <2> QED
    BY <2>2 DEF InWindow, Recent
<1> QED
  BY <1>7, <1>8, <1>9, <1>10, <1>11 DEF KeyInv

LEMMA KeyRefused ==
  ASSUME NEW S \in SUBSET Entry, NEW C \in SUBSET Entry, NEW R \in SUBSET Entry,
         NEW limit \in Limit, NEW t \in Nat, NEW n \in Nat,
         KeyInv(C, S, R, TRUE, limit, t, n), Limited(C, limit, t)
  PROVE  KeyInv(Recorded(C, limit, n, t), S, R \cup {[n |-> n, at |-> t]}, TRUE,
                limit, t, n + 1)
<1> DEFINE new == [n |-> n, at |-> t]
           R1 == R \cup {new}
           C1 == Recorded(C, limit, n, t)
<1>1. C \in SUBSET S /\ IsFiniteSet(C) /\ Covered(C, S, limit, t) /\ Small(S, limit, t)
  BY DEF KeyInv, Backed
<1>2. Recent(C, limit, t) = Recent(S, limit, t)
  BY <1>1, RecentAgree
<1>3. C1 = Recent(S, limit, t)
  BY <1>2 DEF Recorded
<1>4. Past(S, R1, t, n + 1)
  <2>1. \A e \in S \cup R : e.at <= t /\ e.n < n + 1
    BY DEF KeyInv, Past, Entry
  <2> QED
    BY <2>1 DEF Past
<1>5. Covered(C1, S, limit, t) /\ Backed(C1, S)
  BY <1>1, <1>3 DEF Covered, Backed, Small, Recent
<1>6. Justified(S, R1, limit)
  <2>1. Cardinality(Recent(S, limit, t)) \in Nat
    BY <1>1, FS_CardinalityType DEF Small
  <2>2. Cardinality(Recent(S, limit, t)) = limit.attempts
    BY <1>1, <1>2, <2>1 DEF Limited, Small, Limit
  <2>3. InWindow(S, limit, t) = Recent(S, limit, t)
    BY WindowNow DEF KeyInv, Past
  <2>4. {e \in InWindow(S, limit, t) : e.n < n} = Recent(S, limit, t)
    BY <2>3 DEF KeyInv, Past, Recent
  <2>5. \A r \in R : Cardinality({e \in InWindow(S, limit, r.at) : e.n < r.n}) = limit.attempts
    BY DEF KeyInv, Justified
  <2>6. Cardinality({e \in InWindow(S, limit, new.at) : e.n < new.n}) = limit.attempts
    BY ONLY <2>2, <2>4
  <2> QED
    BY <2>5, <2>6 DEF Justified
<1> QED
  BY <1>4, <1>5, <1>6 DEF KeyInv

\* The process stops: its list is dropped, its history stays.
LEMMA KeyStop ==
  ASSUME NEW S \in SUBSET Entry, NEW C \in SUBSET Entry, NEW R \in SUBSET Entry,
         NEW limit \in Limit, NEW t \in Nat, NEW n \in Nat,
         KeyInv(C, S, R, TRUE, limit, t, n)
  PROVE  KeyInv({}, S, R, FALSE, limit, t, n)
BY FS_EmptySet DEF KeyInv, Backed

-----------------------------------------------------------------------------
LEMMA TypeStep == TypeOK /\ [Next]_vars => TypeOK'
<1> SUFFICES ASSUME TypeOK, [Next]_vars PROVE TypeOK'
  OBVIOUS
<1> USE DEF TypeOK
<1>1. CASE Tick
  BY <1>1 DEF Tick
<1>2. ASSUME NEW p \in Procs, Start(p) PROVE TypeOK'
  BY <1>2 DEF Start
<1>3. ASSUME NEW p \in Procs, Stop(p) PROVE TypeOK'
  BY <1>3 DEF Stop
<1>4. ASSUME NEW p \in Procs, NEW c \in Clients, NEW a \in Actions, Call(p, c, a)
      PROVE TypeOK'
  <2>1. calls' \in Nat /\ now' \in Nat /\ state' \in [Procs -> {"new", "up", "down"}]
    BY <1>4 DEF Call
  <2>2. [n |-> calls, at |-> now] \in Entry
    BY DEF Entry
  <2>3. CASE CallUnlimited(p, c, a)
    BY <2>1, <2>2, <2>3 DEF CallUnlimited
  <2>4. ASSUME a \in DOMAIN Limits
        PROVE Recorded(cache[p][c][a], Limits[a], calls, now) \in SUBSET Entry
    BY <2>2, <2>4 DEF Recorded, Recent
  <2>5. CASE CallServed(p, c, a)
    BY <2>1, <2>2, <2>4, <2>5 DEF CallServed
  <2>6. CASE CallRefused(p, c, a)
    BY <2>1, <2>2, <2>4, <2>6 DEF CallRefused
  <2> QED
    BY <1>4, <2>3, <2>5, <2>6 DEF Call
<1>5. CASE UNCHANGED vars
  BY <1>5 DEF vars
<1> QED
  BY <1>1, <1>2, <1>3, <1>4, <1>5 DEF Next

\* The reachable values have their types: every cache and history holds
\* entries with natural call numbers and times.
THEOREM TypeCorrect == Spec => []TypeOK
<1>1. Init => TypeOK
  BY DEF Init, TypeOK
<1> QED
  BY <1>1, TypeStep, PTL DEF Spec

-----------------------------------------------------------------------------
LEMMA InitInv == Init => IInv
<1> SUFFICES ASSUME Init PROVE IInv
  OBVIOUS
<1>1. TypeOK
  BY DEF Init, TypeOK
<1>2. ASSUME NEW p \in Procs, NEW c \in Clients, NEW a \in DOMAIN Limits
      PROVE  Inv(p, c, a)
  <2>1. cache[p][c][a] = {} /\ served[p][c][a] = {} /\ refused[p][c][a] = {}
    BY LimitsAssumption DEF Init
  <2>2. Limits[a] \in Limit
    BY LimitsAssumption DEF Limit
  <2>3. ASSUME NEW u PROVE InWindow({}, Limits[a], u) = {} /\ Recent({}, Limits[a], u) = {}
    BY DEF InWindow, Recent
  <2>4. IsFiniteSet({}) /\ Cardinality({}) = 0 /\ 0 <= Limits[a].attempts
    BY <2>2, FS_EmptySet DEF Limit
  <2>5. Small({}, Limits[a], now) /\ SmallToDate({}, Limits[a], now)
    BY <2>3, <2>4 DEF Small, SmallToDate
  <2>6. Backed({}, {}) /\ Covered({}, {}, Limits[a], now) /\ Past({}, {}, now, calls)
    BY <2>3, <2>4 DEF Backed, Covered, Past
  <2>7. Justified({}, {}, Limits[a])
    BY DEF Justified
  <2>8. KeyInv({}, {}, {}, state[p] # "down", Limits[a], now, calls)
    BY <2>5, <2>6, <2>7 DEF KeyInv
  <2> QED
    BY <2>1, <2>8 DEF Inv
<1> QED
  BY <1>1, <1>2 DEF IInv

LEMMA StepInv == IInv /\ [Next]_vars => IInv'
<1> SUFFICES ASSUME IInv, [Next]_vars PROVE IInv'
  OBVIOUS
<1>1. TypeOK /\ TypeOK'
  BY TypeStep DEF IInv
<1> SUFFICES ASSUME NEW p \in Procs, NEW c \in Clients, NEW a \in DOMAIN Limits
             PROVE  Inv(p, c, a)'
  BY <1>1 DEF IInv
<1>2. Inv(p, c, a) /\ Limits[a] \in Limit /\ a \in Actions
  BY LimitsAssumption DEF IInv, Limit
<1>3. /\ cache[p][c][a] \in SUBSET Entry
      /\ served[p][c][a] \in SUBSET Entry
      /\ refused[p][c][a] \in SUBSET Entry
      /\ (state[p] # "down") \in BOOLEAN
      /\ now \in Nat /\ calls \in Nat
  BY <1>1, <1>2 DEF TypeOK
<1>4. CASE Tick
  BY <1>2, <1>3, <1>4, KeyTick DEF Tick, Inv
<1>5. ASSUME NEW q \in Procs, Start(q) PROVE Inv(p, c, a)'
  <2>1. (state[p] # "down")' = (state[p] # "down")
    BY <1>1, <1>5 DEF Start, TypeOK
  <2> QED
    BY <1>2, <1>5, <2>1 DEF Start, Inv
<1>6. ASSUME NEW q \in Procs, Stop(q) PROVE Inv(p, c, a)'
  <2>1. CASE p = q
    <3>1. (state[p] # "down") = TRUE /\ (state[p] # "down")' = FALSE /\ cache'[p][c][a] = {}
      BY <1>1, <1>6, <2>1 DEF Stop, TypeOK
    <3>2. KeyInv(cache[p][c][a], served[p][c][a], refused[p][c][a], TRUE, Limits[a], now, calls)
      BY <1>2, <3>1 DEF Inv
    <3>3. KeyInv({}, served[p][c][a], refused[p][c][a], FALSE, Limits[a], now, calls)
      BY <1>2, <1>3, <3>2, KeyStop
    <3> QED
      BY <1>6, <3>1, <3>3 DEF Stop, Inv
  <2>2. CASE p # q
    <3>1. state'[p] = state[p] /\ cache'[p] = cache[p]
      BY <1>1, <1>6, <2>2 DEF Stop, TypeOK
    <3> QED
      BY <1>2, <1>6, <3>1 DEF Stop, Inv
  <2> QED
    BY <2>1, <2>2
<1>7. ASSUME NEW q \in Procs, NEW d \in Clients, NEW b \in Actions, Call(q, d, b)
      PROVE  Inv(p, c, a)'
  <2>1. now' = now /\ calls' = calls + 1 /\ state' = state /\ (state[q] # "down") = TRUE
    BY <1>7 DEF Call
  <2>2. CASE <<q, d, b>> # <<p, c, a>>
    <3>1. /\ cache'[p][c][a] = cache[p][c][a]
          /\ served'[p][c][a] = served[p][c][a]
          /\ refused'[p][c][a] = refused[p][c][a]
      BY <1>1, <1>2, <1>7, <2>2
      DEF Call, CallUnlimited, CallServed, CallRefused, TypeOK
    <3> QED
      BY <1>2, <1>3, <2>1, <3>1, KeyOtherCall DEF Inv
  <2>3. CASE q = p /\ d = c /\ b = a
    <3>1. CASE CallServed(q, d, b)
      <4>1. /\ ~Limited(cache[p][c][a], Limits[a], now)
            /\ cache'[p][c][a] = Recorded(cache[p][c][a], Limits[a], calls, now)
            /\ served'[p][c][a] = served[p][c][a] \cup {[n |-> calls, at |-> now]}
            /\ refused' = refused
        BY <1>1, <1>2, <2>3, <3>1 DEF CallServed, TypeOK
      <4>2. KeyInv(cache[p][c][a], served[p][c][a], refused[p][c][a], TRUE, Limits[a], now, calls)
        BY <1>2, <2>1, <2>3 DEF Inv
      <4>3. KeyInv(Recorded(cache[p][c][a], Limits[a], calls, now), served[p][c][a] \cup {[n |-> calls, at |-> now]},
                   refused[p][c][a], TRUE,
                   Limits[a], now, calls + 1)
        BY <1>2, <1>3, <4>1, <4>2, KeyServed
      <4> QED
        BY <2>1, <2>3, <4>1, <4>3 DEF Inv
    <3>2. CASE CallRefused(q, d, b)
      <4>1. /\ Limited(cache[p][c][a], Limits[a], now)
            /\ cache'[p][c][a] = Recorded(cache[p][c][a], Limits[a], calls, now)
            /\ refused'[p][c][a] = refused[p][c][a] \cup {[n |-> calls, at |-> now]}
            /\ served' = served
        BY <1>1, <1>2, <2>3, <3>2 DEF CallRefused, TypeOK
      <4>2. KeyInv(cache[p][c][a], served[p][c][a], refused[p][c][a], TRUE, Limits[a], now, calls)
        BY <1>2, <2>1, <2>3 DEF Inv
      <4>3. KeyInv(Recorded(cache[p][c][a], Limits[a], calls, now), served[p][c][a],
                   refused[p][c][a] \cup {[n |-> calls, at |-> now]}, TRUE,
                   Limits[a], now, calls + 1)
        BY <1>2, <1>3, <4>1, <4>2, KeyRefused
      <4> QED
        BY <2>1, <2>3, <4>1, <4>3 DEF Inv
    <3> QED
      BY <1>7, <2>3, <3>1, <3>2 DEF Call, CallUnlimited
  <2> QED
    BY <2>2, <2>3
<1>8. CASE UNCHANGED vars
  BY <1>2, <1>8 DEF vars, Inv
<1> QED
  BY <1>4, <1>5, <1>6, <1>7, <1>8 DEF Next

\* No process ever serves a client more than "attempts" calls inside one
\* window, wherever the window lies.
THEOREM ServedWithinLimit == Spec => []WindowBound
<1>1. IInv => WindowBound
  BY DEF IInv, Inv, KeyInv, SmallToDate, WindowBound
<1> QED
  BY <1>1, InitInv, StepInv, PTL DEF Spec

\* Every refusal is backed by exactly "attempts" served calls.
THEOREM RefusalsJustified == Spec => []RefusedOnlyWhenFull
<1>1. IInv => RefusedOnlyWhenFull
  BY DEF IInv, Inv, KeyInv, Justified, RefusedOnlyWhenFull
<1> QED
  BY <1>1, InitInv, StepInv, PTL DEF Spec

-----------------------------------------------------------------------------
\* The list of a process that runs shows whether the whole history is full.
LEMMA LimitedAgrees ==
  ASSUME IInv, NEW p \in Procs, NEW c \in Clients, NEW a \in DOMAIN Limits, state[p] = "up"
  PROVE  Limited(cache[p][c][a], Limits[a], now) <=> L!Exhausted(p, c, a)
<1> DEFINE S == served[p][c][a]
           C == cache[p][c][a]
<1>1. /\ Limits[a] \in Limit /\ a \in Actions
      /\ S \in SUBSET Entry /\ now \in Nat
  BY LimitsAssumption DEF IInv, TypeOK, Limit
<1>2. C \in SUBSET S /\ Covered(C, S, Limits[a], now)
  BY DEF IInv, Inv, KeyInv, Backed
<1>3. Recent(C, Limits[a], now) = Recent(S, Limits[a], now)
  BY <1>1, <1>2, RecentAgree
<1>4. Recent(S, Limits[a], now) = {e \in S : now - e.at < Limits[a].window}
  BY <1>1 DEF Recent, Limit, Entry
<1>5. \A T : L!Cardinality(T) = Cardinality(T)
  BY DEF Cardinality, L!Cardinality
<1> QED
  BY <1>3, <1>4, <1>5 DEF Limited, L!Exhausted

\* A call is answered as Limiter answers it.
LEMMA CallIsAnswer ==
  ASSUME IInv, NEW p \in Procs, NEW c \in Clients, NEW a \in Actions, Call(p, c, a)
  PROVE  L!Answer(p, c, a)
<1>1. state[p] = "up" /\ calls' = calls + 1 /\ now' = now
  BY DEF Call
<1>2. CASE CallUnlimited(p, c, a)
  <2>1. ~L!Exhausted(p, c, a)
    BY <1>2 DEF CallUnlimited, L!Exhausted
  <2> QED
    BY <1>1, <1>2, <2>1 DEF CallUnlimited, L!Answer, L!Entered
<1>3. CASE CallServed(p, c, a)
  <2>1. ~L!Exhausted(p, c, a)
    BY <1>1, <1>3, LimitedAgrees DEF CallServed
  <2> QED
    BY <1>1, <1>3, <2>1 DEF CallServed, L!Answer, L!Entered
<1>4. CASE CallRefused(p, c, a)
  <2>1. L!Exhausted(p, c, a)
    BY <1>1, <1>4, LimitedAgrees DEF CallRefused
  <2> QED
    BY <1>1, <1>4, <2>1 DEF CallRefused, L!Answer, L!Entered
<1> QED
  BY <1>2, <1>3, <1>4 DEF Call

LEMMA LimiterStep == IInv /\ [Next]_vars => [L!Next]_L!lvars
<1> SUFFICES ASSUME IInv, [Next]_vars PROVE [L!Next]_L!lvars
  OBVIOUS
<1> USE DEF L!Next, L!lvars
<1>1. CASE Tick
  BY <1>1 DEF Tick, L!Tick
<1>2. ASSUME NEW p \in Procs, Start(p) \/ Stop(p) PROVE [L!Next]_L!lvars
  BY <1>2 DEF Start, Stop
<1>3. ASSUME NEW p \in Procs, NEW c \in Clients, NEW a \in Actions, Call(p, c, a)
      PROVE  [L!Next]_L!lvars
  BY <1>3, CallIsAnswer
<1>4. CASE UNCHANGED vars
  BY <1>4 DEF vars
<1> QED
  BY <1>1, <1>2, <1>3, <1>4 DEF Next

(***************************************************************************)
(* is_rate_limited with its pruned lists, which start empty and are lost   *)
(* when a process stops, answers every call as a process with a perfect    *)
(* memory of the calls it served: for any number of processes, clients     *)
(* and limits.                                                             *)
(***************************************************************************)
THEOREM LimiterImplemented == Spec => ImplementsLimiter
<1>1. Init => L!Init
  BY DEF Init, L!Init, L!NoCalls
<1> QED
  BY <1>1, InitInv, StepInv, LimiterStep, PTL DEF Spec, ImplementsLimiter, L!Spec
=============================================================================
