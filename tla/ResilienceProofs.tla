-------------------------- MODULE ResilienceProofs --------------------------
(***************************************************************************)
(* The theorems about the decorators of a call to a dependency: first      *)
(* DependencyGuard, for any callers, pool and breaker (slots, admissions   *)
(* and probes are counted exactly); then RetryBudget, for any dependencies *)
(* and any budget (the balance is never spent twice and the books close).  *)
(***************************************************************************)
EXTENDS DependencyGuard, RetryBudget, FiniteSetTheorems, SequenceTheorems, TLAPS

Busy == In({"entering", "inside", "holding"})
Present == Calls \ In({"out"})

\* The probes in flight that the present cycle of the breaker granted.
Probing == {c \in In({"inside"}) : call[c].ticket = "probe" /\ call[c].current}

\* A call waits once.
WaitsOnce == \A i, j \in DOMAIN pool.waiting : pool.waiting[i] = pool.waiting[j] => i = j

\* Only a half-open breaker has probes of its own.
ProbesAreOfHalfOpen ==
    breaker.state # "halfopen" => breaker.probing = 0 /\ breaker.leaked = 0 /\ Probing = {}

Inv == GuardAccounted /\ WaitsOnce /\ ProbesAreOfHalfOpen

-----------------------------------------------------------------------------
(* Counting.                                                               *)

LEMMA Finite ==
    ASSUME NEW S \in SUBSET Calls
    PROVE  IsFiniteSet(S) /\ Cardinality(S) \in Nat
<1>1. IsFiniteSet(S)
  BY GuardAssumption, FS_Subset
<1> QED BY <1>1, FS_CardinalityType

\* A set of calls with one more, or one less.
LEMMA OneMore ==
    ASSUME NEW S \in SUBSET Calls, NEW c \in Calls
    PROVE  /\ Cardinality(S) \in Nat
           /\ c \notin S => Cardinality(S \cup {c}) = Cardinality(S) + 1
           /\ c \in S => Cardinality(S \ {c}) = Cardinality(S) - 1 /\ Cardinality(S) > 0
<1>1. IsFiniteSet(S) /\ Cardinality(S) \in Nat
  BY Finite
<1>2. c \in S => Cardinality(S) # 0
  BY <1>1, FS_EmptySet
<1>3. c \notin S => Cardinality(S \cup {c}) = Cardinality(S) + 1
  BY <1>1, FS_AddElement
<1>4. c \in S => Cardinality(S \ {c}) = Cardinality(S) - 1
  BY <1>1, FS_RemoveElement
<1> QED BY <1>1, <1>2, <1>3, <1>4

\* The calls of the guard, when one of them changes.
LEMMA OneMoves ==
    ASSUME NEW c \in Calls, call \in [Calls -> Call], call' \in [Calls -> Call],
           \A d \in Calls : d # c => call'[d].stage = call[d].stage
    PROVE  LET old == call[c].stage  new == call'[c].stage
           IN  /\ \A S : /\ old \in S /\ new \in S => In(S)' = In(S)
                         /\ old \notin S /\ new \notin S => In(S)' = In(S)
                         /\ old \in S /\ new \notin S => In(S)' = In(S) \ {c} /\ c \in In(S)
                         /\ old \notin S /\ new \in S => In(S)' = In(S) \cup {c} /\ c \notin In(S)
  BY DEF In

\* A step that leaves the pool alone and moves a call among those that hold a slot.
LEMMA PoolStands ==
    ASSUME Inv, NEW c \in Calls, pool' = pool, call' \in [Calls -> Call],
           \A d \in Calls : d # c => call'[d].stage = call[d].stage,
           call[c].stage \in {"entering", "inside", "holding"},
           call'[c].stage \in {"entering", "inside", "holding"}
    PROVE  PoolAccounted' /\ WaitsOnce'
<1>1. call \in [Calls -> Call]
  BY DEF Inv, GuardAccounted, TypeOK
<1>2. /\ In({"entering", "inside", "holding"})' = In({"entering", "inside", "holding"})
      /\ In({"out"})' = In({"out"}) /\ In({"queued"})' = In({"queued"})
  BY <1>1, OneMoves
<1> QED BY <1>2 DEF Inv, GuardAccounted, PoolAccounted, WaitsOnce

\* The probes are counted by ProbesAccounted.
LEMMA ProbingCounts ==
    ASSUME Inv
    PROVE  /\ Probing \in SUBSET Calls /\ Cardinality(Probing) \in Nat
           /\ breaker.state = "halfopen" => breaker.probing = breaker.leaked + Cardinality(Probing)
           /\ breaker \in BreakerState /\ breaker.probing \in 0..Probes /\ breaker.leaked \in 0..Probes
           /\ Probes \in Nat \ {0}
<1>1. Probing \in SUBSET Calls
  BY DEF Probing, In
<1>2. Cardinality(Probing) \in Nat
  BY <1>1, Finite
<1> QED BY <1>1, <1>2, GuardAssumption
        DEF Inv, GuardAccounted, ProbesAccounted, Probing, TypeOK, BreakerState

-----------------------------------------------------------------------------
(* The pool.                                                               *)

\* A step of the pool alone.
LEMMA BreakerStands ==
    ASSUME Inv, breaker' = breaker, call' \in [Calls -> Call],
           \A d \in Calls : \/ call'[d] = call[d]
                            \/ call[d].stage # "inside" /\ call'[d].stage # "inside"
    PROVE  ProbesAccounted' /\ ProbesAreOfHalfOpen' /\ breaker' \in BreakerState
<1>1. Probing' = Probing
  BY DEF Probing, In
<1> QED BY <1>1 DEF Inv, GuardAccounted, TypeOK, ProbesAccounted, ProbesAreOfHalfOpen, Probing

LEMMA Typed ==
    ASSUME Inv
    PROVE  /\ call \in [Calls -> Call] /\ pool \in PoolState
           /\ pool.slots \in Nat /\ pool.admissions \in Nat /\ pool.waiting \in Seq(Calls)
           /\ pool.slots <= Pool /\ pool.admissions <= Pool + Queue /\ Pool \in Nat /\ Queue \in Nat
           /\ pool.slots = Cardinality(Busy) /\ pool.admissions = Cardinality(Present)
           /\ Busy \in SUBSET Calls /\ Present \in SUBSET Calls
           /\ Out \in Call /\ \A g \in {"admitted", "returning", "holding"} :
                                  [Out EXCEPT !.stage = g] \in Call /\ [Out EXCEPT !.stage = g].stage = g
           /\ Out.stage = "out"
<1>1. Acquisition \in Nat /\ 0 \in 0..Acquisition
  BY GuardAssumption
<1>2. Out \in Call /\ Out.stage = "out"
  BY <1>1 DEF Out, Call
<1>3. \A r \in Call, g \in {"admitted", "returning", "holding"} :
         [r EXCEPT !.stage = g] \in Call /\ [r EXCEPT !.stage = g].stage = g
  BY DEF Call
<1>4. Busy \in SUBSET Calls /\ Present \in SUBSET Calls
  BY DEF Busy, Present, In
<1>5. pool.slots = Cardinality(Busy) /\ pool.admissions = Cardinality(Present)
  BY DEF Inv, GuardAccounted, PoolAccounted, Busy, Present
<1> QED BY <1>2, <1>3, <1>4, <1>5, GuardAssumption DEF Inv, GuardAccounted, TypeOK, PoolState

LEMMA AdmitKeeps ==
    ASSUME Inv, NEW c \in Calls, Admit(c)
    PROVE  Inv'
<1> USE Typed
<1>1. call' = [call EXCEPT ![c] = [Out EXCEPT !.stage = "admitted"]]
  BY DEF Admit
<1>2. /\ call' \in [Calls -> Call] /\ call'[c].stage = "admitted" /\ call[c].stage = "out"
      /\ \A d \in Calls : d # c => call'[d] = call[d]
  BY <1>1 DEF Admit
<1>3. Busy' = Busy /\ In({"queued"})' = In({"queued"}) /\ Present' = Present \cup {c} /\ c \notin Present
  BY <1>2, OneMoves DEF Busy, Present
<1>4. Cardinality(Present') = Cardinality(Present) + 1
  BY <1>3, OneMore
<1>5. pool' = [pool EXCEPT !.admissions = pool.admissions + 1] /\ pool.admissions < Pool + Queue
  BY DEF Admit
<1>6. /\ pool' \in PoolState /\ pool'.admissions = pool.admissions + 1 /\ pool'.slots = pool.slots
      /\ pool'.waiting = pool.waiting
  BY <1>5 DEF PoolState
<1>7. pool'.admissions <= Pool + Queue
  BY <1>5, <1>6
<1>8. PoolAccounted' /\ WaitsOnce'
  BY <1>3, <1>4, <1>6 DEF Inv, GuardAccounted, PoolAccounted, WaitsOnce, Busy, Present
<1>9. ProbesAccounted' /\ ProbesAreOfHalfOpen' /\ breaker' \in BreakerState
  BY <1>2, BreakerStands DEF Admit
<1> QED BY <1>2, <1>6, <1>7, <1>8, <1>9 DEF Inv, GuardAccounted, TypeOK

LEMMA ReleaseAdmissionKeeps ==
    ASSUME Inv, NEW c \in Calls, ReleaseAdmission(c)
    PROVE  Inv'
<1> USE Typed
<1>1. call' = [call EXCEPT ![c] = Out]
  BY DEF ReleaseAdmission
<1>2. /\ call' \in [Calls -> Call] /\ call'[c].stage = "out" /\ call[c].stage = "returning"
      /\ \A d \in Calls : d # c => call'[d] = call[d]
  BY <1>1 DEF ReleaseAdmission
<1>3. Busy' = Busy /\ In({"queued"})' = In({"queued"}) /\ Present' = Present \ {c} /\ c \in Present
  BY <1>2, OneMoves DEF Busy, Present, In
<1>4. Cardinality(Present') = Cardinality(Present) - 1 /\ Cardinality(Present) > 0
  BY <1>3, OneMore
<1>5. pool' = [pool EXCEPT !.admissions = pool.admissions - 1] /\ pool.admissions - 1 \in Nat
  BY <1>4 DEF ReleaseAdmission
<1>6. /\ pool' \in PoolState /\ pool'.admissions = pool.admissions - 1 /\ pool'.slots = pool.slots
      /\ pool'.waiting = pool.waiting
  BY <1>5 DEF PoolState
<1>7. pool'.admissions <= Pool + Queue
  BY <1>6
<1>8. PoolAccounted' /\ WaitsOnce'
  BY <1>3, <1>4, <1>6 DEF Inv, GuardAccounted, PoolAccounted, WaitsOnce, Busy, Present
<1>9. ProbesAccounted' /\ ProbesAreOfHalfOpen' /\ breaker' \in BreakerState
  BY <1>2, BreakerStands DEF ReleaseAdmission
<1> QED BY <1>2, <1>6, <1>7, <1>8, <1>9 DEF Inv, GuardAccounted, TypeOK

\* The queue of the calls blocked on the channel, when one joins it, leaves it or is
\* the first to be served.
LEMMA QueueGrows ==
    ASSUME NEW q \in Seq(Calls), NEW c \in Calls, c \notin ToSet(q),
           \A i, j \in DOMAIN q : q[i] = q[j] => i = j
    PROVE  LET p == Append(q, c)
           IN  /\ p \in Seq(Calls) /\ ToSet(p) = ToSet(q) \cup {c}
               /\ \A i, j \in DOMAIN p : p[i] = p[j] => i = j
<1> DEFINE p == Append(q, c)
<1>1. p \in Seq(Calls) /\ Len(p) = Len(q) + 1 /\ Len(q) \in Nat
  OBVIOUS
<1>2. \A i \in 1..Len(q) : p[i] = q[i]
  OBVIOUS
<1>3. p[Len(q) + 1] = c
  OBVIOUS
<1>4. DOMAIN p = 1..(Len(q) + 1) /\ DOMAIN q = 1..Len(q)
  BY <1>1
<1> HIDE DEF p
<1>5. ToSet(p) = ToSet(q) \cup {c}
  BY <1>1, <1>2, <1>3, <1>4 DEF ToSet
<1>6. \A i, j \in DOMAIN p : p[i] = p[j] => i = j
  BY <1>1, <1>2, <1>3, <1>4 DEF ToSet
<1> QED BY <1>1, <1>5, <1>6 DEF p

LEMMA QueueShrinks ==
    ASSUME NEW q \in Seq(Calls), NEW k \in DOMAIN q,
           \A i, j \in DOMAIN q : q[i] = q[j] => i = j
    PROVE  LET p == RemoveAt(q, k)
           IN  /\ p \in Seq(Calls) /\ ToSet(p) = ToSet(q) \ {q[k]}
               /\ \A i, j \in DOMAIN p : p[i] = p[j] => i = j
<1> DEFINE a == SubSeq(q, 1, k - 1)
           b == SubSeq(q, k + 1, Len(q))
           p == a \o b
<1>0. Len(q) \in Nat /\ k \in 1..Len(q) /\ DOMAIN q = 1..Len(q) /\ \A i \in 1..Len(q) : q[i] \in Calls
  OBVIOUS
<1>1. a \in Seq(Calls) /\ Len(a) = k - 1 /\ \A i \in 1..k - 1 : a[i] = q[i]
  <2>1. \A i \in 1..k - 1 : q[i] \in Calls
    BY <1>0
  <2>2. 1 \in Int /\ k - 1 \in Int
    BY <1>0
  <2>3. /\ a \in Seq(Calls) /\ Len(a) = IF 1 <= k - 1 THEN k - 1 - 1 + 1 ELSE 0
        /\ \A i \in 1..(k - 1 - 1 + 1) : a[i] = q[1 + i - 1]
    BY <2>1, <2>2, SubSeqProperties
  <2> HIDE DEF a
  <2> QED BY <1>0, <2>3
<1>2. b \in Seq(Calls) /\ Len(b) = Len(q) - k /\ \A i \in 1..Len(q) - k : b[i] = q[k + i]
  <2>1. \A i \in k + 1..Len(q) : q[i] \in Calls
    BY <1>0
  <2>2. k + 1 \in Int /\ Len(q) \in Int
    BY <1>0
  <2>3. /\ b \in Seq(Calls) /\ Len(b) = IF k + 1 <= Len(q) THEN Len(q) - (k + 1) + 1 ELSE 0
        /\ \A i \in 1..(Len(q) - (k + 1) + 1) : b[i] = q[k + 1 + i - 1]
    BY <2>1, <2>2, SubSeqProperties
  <2> HIDE DEF b
  <2>4. Len(b) = Len(q) - k
    BY <1>0, <2>3
  <2>5. \A i \in 1..Len(q) - k : b[i] = q[k + i]
    <3> TAKE i \in 1..Len(q) - k
    <3>1. i \in 1..(Len(q) - (k + 1) + 1) /\ k + 1 + i - 1 = k + i
      BY <1>0
    <3> QED BY <2>3, <3>1
  <2> QED BY <2>3, <2>4, <2>5
<1> HIDE DEF a, b
<1>3. /\ p \in Seq(Calls) /\ Len(p) = Len(a) + Len(b)
      /\ \A i \in 1..Len(a) + Len(b) : p[i] = IF i <= Len(a) THEN a[i] ELSE b[i - Len(a)]
  <2>1. a \in Seq(Calls) /\ b \in Seq(Calls)
    BY <1>1, <1>2
  <2> QED BY <2>1, ConcatProperties
<1>4. p = RemoveAt(q, k)
  BY DEF RemoveAt, a, b
<1> HIDE DEF p
<1>5. DOMAIN p = 1..Len(q) - 1
  BY <1>0, <1>1, <1>2, <1>3
<1>6. \A i \in 1..Len(q) - 1 : p[i] = IF i < k THEN q[i] ELSE q[i + 1]
  <2> TAKE i \in 1..Len(q) - 1
  <2>1. i \in 1..Len(a) + Len(b)
    BY <1>0, <1>1, <1>2
  <2>2. CASE i < k
    BY <1>0, <1>1, <1>3, <2>1, <2>2
  <2>3. CASE ~(i < k)
    <3>1. p[i] = b[i - (k - 1)] /\ i - (k - 1) \in 1..Len(q) - k
      BY <1>0, <1>1, <1>3, <2>1, <2>3
    <3>2. b[i - (k - 1)] = q[k + (i - (k - 1))] /\ k + (i - (k - 1)) = i + 1
      BY <1>0, <1>2, <3>1
    <3> QED BY <2>3, <3>1, <3>2
  <2> QED BY <2>2, <2>3
<1>7. ToSet(p) = ToSet(q) \ {q[k]}
  <2>1. ASSUME NEW i \in DOMAIN p PROVE p[i] \in ToSet(q) \ {q[k]}
    <3> DEFINE j == IF i < k THEN i ELSE i + 1
    <3>1. j \in 1..Len(q) /\ j # k /\ p[i] = q[j]
      BY <1>0, <1>5, <1>6
    <3> HIDE DEF j
    <3> QED BY <1>0, <3>1 DEF ToSet
  <2>2. ASSUME NEW j \in DOMAIN q, q[j] # q[k] PROVE q[j] \in ToSet(p)
    <3> DEFINE i == IF j < k THEN j ELSE j - 1
    <3>0. j # k
      BY <2>2
    <3>1. i \in 1..Len(q) - 1 /\ p[i] = q[j]
      BY <1>0, <1>6, <3>0
    <3> HIDE DEF i
    <3> QED BY <1>5, <3>1 DEF ToSet
  <2>3. ToSet(p) = {p[i] : i \in DOMAIN p} /\ ToSet(q) = {q[i] : i \in DOMAIN q}
    BY DEF ToSet
  <2> QED BY <2>1, <2>2, <2>3
<1>8. \A i, j \in DOMAIN p : p[i] = p[j] => i = j
  BY <1>0, <1>5, <1>6
<1> QED BY <1>3, <1>4, <1>7, <1>8

LEMMA QueueServes ==
    ASSUME NEW q \in Seq(Calls), q # <<>>,
           \A i, j \in DOMAIN q : q[i] = q[j] => i = j
    PROVE  /\ Tail(q) \in Seq(Calls) /\ Head(q) \in Calls /\ Head(q) \in ToSet(q)
           /\ ToSet(Tail(q)) = ToSet(q) \ {Head(q)}
           /\ \A i, j \in DOMAIN Tail(q) : Tail(q)[i] = Tail(q)[j] => i = j
<1> DEFINE p == Tail(q)
<1>1. p \in Seq(Calls) /\ Head(q) \in Calls /\ Len(p) = Len(q) - 1 /\ \A i \in 1..Len(p) : p[i] = q[i + 1]
  BY HeadTailProperties
<1>2. Len(q) \in Nat \ {0} /\ Head(q) = q[1] /\ DOMAIN q = 1..Len(q)
  BY EmptySeq
<1> HIDE DEF p
<1>3. DOMAIN p = 1..Len(q) - 1
  BY <1>1, <1>2
<1>4. \A i \in 1..Len(q) - 1 : p[i] = q[i + 1]
  BY <1>1
<1>5. ToSet(p) = ToSet(q) \ {q[1]}
  <2>1. ASSUME NEW i \in DOMAIN p PROVE p[i] \in ToSet(q) \ {q[1]}
    <3>1. i + 1 \in 1..Len(q) /\ 1 \in 1..Len(q) /\ i + 1 # 1 /\ p[i] = q[i + 1]
      BY <1>2, <1>3, <1>4
    <3> QED BY <1>2, <3>1 DEF ToSet
  <2>2. ASSUME NEW j \in DOMAIN q, q[j] # q[1] PROVE q[j] \in ToSet(p)
    <3>0. j # 1
      BY <2>2
    <3>1. j - 1 \in 1..Len(q) - 1 /\ p[j - 1] = q[j - 1 + 1] /\ j - 1 + 1 = j
      BY <1>2, <1>4, <3>0
    <3> QED BY <1>3, <3>1 DEF ToSet
  <2>3. ToSet(p) = {p[i] : i \in DOMAIN p} /\ ToSet(q) = {q[i] : i \in DOMAIN q}
    BY DEF ToSet
  <2> QED BY <2>1, <2>2, <2>3
<1>6. \A i, j \in DOMAIN p : p[i] = p[j] => i = j
  BY <1>2, <1>3, <1>4
<1>7. q[1] \in ToSet(q)
  BY <1>2 DEF ToSet
<1> QED BY <1>1, <1>2, <1>5, <1>6, <1>7 DEF p

\* A call that changes its stage, and its timer, is still one.
LEMMA StageMoves ==
    ASSUME NEW r \in Call, NEW g \in {"entering", "returning"}
    PROVE  [r EXCEPT !.stage = g] \in Call /\ [r EXCEPT !.stage = g].stage = g
  BY DEF Call

LEMMA TimerMoves ==
    ASSUME NEW r \in Call, NEW g \in {"entering", "queued"}, NEW n \in {0, Acquisition}
    PROVE  LET v == [r EXCEPT !.stage = g, !.timer = n] IN v \in Call /\ v.stage = g
<1>1. n \in 0..Acquisition
  BY GuardAssumption
<1> QED BY <1>1 DEF Call

LEMMA AcquireKeeps ==
    ASSUME Inv, NEW c \in Calls, Acquire(c)
    PROVE  Inv'
<1> USE Typed
<1>0. call[c] \in Call /\ call[c].stage = "admitted" /\ breaker' = breaker
  BY DEF Acquire
<1>1. CASE /\ pool.slots < Pool
           /\ pool' = [pool EXCEPT !.slots = @ + 1]
           /\ call' = [call EXCEPT ![c].stage = "entering"]
  <2>2. /\ call' \in [Calls -> Call] /\ call'[c].stage = "entering"
        /\ \A d \in Calls : d # c => call'[d] = call[d]
    <3> DEFINE v == [call[c] EXCEPT !.stage = "entering"]
    <3>1. call' = [call EXCEPT ![c] = v]
      BY <1>1
    <3>2. v \in Call /\ v.stage = "entering"
      BY <1>0, StageMoves
    <3> HIDE DEF v
    <3> QED BY <3>1, <3>2
  <2>3. Busy' = Busy \cup {c} /\ c \notin Busy /\ In({"queued"})' = In({"queued"}) /\ Present' = Present
    BY <1>0, <2>2, OneMoves DEF Busy, Present
  <2>4. Cardinality(Busy') = Cardinality(Busy) + 1
    BY <2>3, OneMore
  <2>5. pool' = [pool EXCEPT !.slots = pool.slots + 1]
    BY <1>1
  <2>6. /\ pool' \in PoolState /\ pool'.slots = pool.slots + 1 /\ pool'.admissions = pool.admissions
        /\ pool'.waiting = pool.waiting
    BY <2>5 DEF PoolState
  <2>7. pool'.slots <= Pool
    BY <1>1, <2>6
  <2>8. PoolAccounted' /\ WaitsOnce'
    <3>1. pool.waiting = <<>> /\ ToSet(pool.waiting) = In({"queued"}) /\ WaitsOnce
      BY <1>1 DEF Inv, GuardAccounted, PoolAccounted
    <3>2. pool'.slots = Cardinality(Busy') /\ pool'.admissions = Cardinality(Present')
      BY <2>3, <2>4, <2>6
    <3> QED BY <2>3, <2>6, <3>1, <3>2 DEF PoolAccounted, WaitsOnce, Busy, Present
  <2>9. ProbesAccounted' /\ ProbesAreOfHalfOpen' /\ breaker' \in BreakerState
    BY <1>0, <2>2, BreakerStands
  <2> QED BY <2>2, <2>6, <2>7, <2>8, <2>9 DEF Inv, GuardAccounted, TypeOK
<1>2. CASE /\ pool.slots >= Pool
           /\ pool' = [pool EXCEPT !.waiting = Append(@, c)]
           /\ call' = [call EXCEPT ![c].stage = "queued", ![c].timer = Acquisition]
  <2>2. /\ call' \in [Calls -> Call] /\ call'[c].stage = "queued"
        /\ \A d \in Calls : d # c => call'[d] = call[d]
    <3> DEFINE v == [call[c] EXCEPT !.stage = "queued", !.timer = Acquisition]
    <3>1. call' = [call EXCEPT ![c] = v]
      BY <1>2
    <3>2. v \in Call /\ v.stage = "queued"
      BY <1>0, TimerMoves
    <3> HIDE DEF v
    <3> QED BY <3>1, <3>2
  <2>3. /\ Busy' = Busy /\ Present' = Present
        /\ In({"queued"})' = In({"queued"}) \cup {c} /\ c \notin In({"queued"})
    BY <1>0, <2>2 DEF Busy, Present, In
  <2>4. ToSet(pool.waiting) = In({"queued"}) /\ \A i, j \in DOMAIN pool.waiting : pool.waiting[i] = pool.waiting[j] => i = j
    BY DEF Inv, GuardAccounted, PoolAccounted, WaitsOnce
  <2> DEFINE q == Append(pool.waiting, c)
  <2>5. /\ q \in Seq(Calls) /\ ToSet(q) = ToSet(pool.waiting) \cup {c}
        /\ \A i, j \in DOMAIN q : q[i] = q[j] => i = j
    BY <2>3, <2>4, QueueGrows
  <2>6. pool' = [pool EXCEPT !.waiting = q]
    BY <1>2
  <2> HIDE DEF q
  <2>7. /\ pool' \in PoolState /\ pool'.slots = pool.slots /\ pool'.admissions = pool.admissions
        /\ pool'.waiting = q
    BY <2>5, <2>6 DEF PoolState
  <2>8. PoolAccounted' /\ WaitsOnce'
    <3>1. pool'.slots = Cardinality(Busy') /\ pool'.admissions = Cardinality(Present') /\ ~(pool'.slots < Pool)
      BY <1>2, <2>3, <2>7
    <3>2. ToSet(pool'.waiting) = In({"queued"})'
      BY <2>3, <2>4, <2>5, <2>7
    <3> QED BY <2>5, <2>7, <3>1, <3>2 DEF PoolAccounted, WaitsOnce, Busy, Present
  <2>9. ProbesAccounted' /\ ProbesAreOfHalfOpen' /\ breaker' \in BreakerState
    BY <1>0, <2>2, BreakerStands
  <2> QED BY <2>2, <2>7, <2>8, <2>9 DEF Inv, GuardAccounted, TypeOK
<1> QED BY <1>1, <1>2 DEF Acquire

LEMMA GiveUpKeeps ==
    ASSUME Inv, NEW c \in Calls, GiveUp(c)
    PROVE  Inv'
<1> USE Typed
<1>1. PICK k \in DOMAIN pool.waiting :
         pool.waiting[k] = c /\ pool' = [pool EXCEPT !.waiting = RemoveAt(@, k)]
  BY DEF GiveUp
<1>2. /\ call' \in [Calls -> Call] /\ call'[c].stage = "returning" /\ call[c].stage = "queued"
      /\ \A d \in Calls : d # c => call'[d] = call[d]
  BY DEF GiveUp
<1>3. /\ Busy' = Busy /\ Present' = Present
      /\ In({"queued"})' = In({"queued"}) \ {c}
  BY <1>2, OneMoves DEF Busy, Present
<1>4. ToSet(pool.waiting) = In({"queued"}) /\ \A i, j \in DOMAIN pool.waiting : pool.waiting[i] = pool.waiting[j] => i = j
  BY DEF Inv, GuardAccounted, PoolAccounted, WaitsOnce
<1> DEFINE q == RemoveAt(pool.waiting, k)
<1>5. /\ q \in Seq(Calls) /\ ToSet(q) = ToSet(pool.waiting) \ {c}
      /\ \A i, j \in DOMAIN q : q[i] = q[j] => i = j
  BY <1>1, <1>4, QueueShrinks
<1>6. pool' = [pool EXCEPT !.waiting = q]
  BY <1>1
<1> HIDE DEF q
<1>7. /\ pool' \in PoolState /\ pool'.slots = pool.slots /\ pool'.admissions = pool.admissions
      /\ pool'.waiting = q
  BY <1>5, <1>6 DEF PoolState
<1>8. ~(pool.slots < Pool)
  <2>1. pool.waiting # <<>>
    BY <1>1
  <2> QED BY <2>1 DEF Inv, GuardAccounted, PoolAccounted
<1>9. PoolAccounted' /\ WaitsOnce'
  BY <1>3, <1>4, <1>5, <1>7, <1>8 DEF Inv, GuardAccounted, PoolAccounted, WaitsOnce, Busy, Present
<1>10. ProbesAccounted' /\ ProbesAreOfHalfOpen' /\ breaker' \in BreakerState
  BY <1>2, BreakerStands DEF GiveUp
<1> QED BY <1>2, <1>7, <1>9, <1>10 DEF Inv, GuardAccounted, TypeOK

LEMMA ReleaseSlotKeeps ==
    ASSUME Inv, NEW c \in Calls, ReleaseSlot(c)
    PROVE  Inv'
<1> USE Typed
<1>0. call[c] \in Call /\ call[c].stage = "holding" /\ breaker' = breaker
  BY DEF ReleaseSlot
<1>1. CASE /\ pool.waiting = <<>>
           /\ pool' = [pool EXCEPT !.slots = @ - 1]
           /\ call' = [call EXCEPT ![c].stage = "returning"]
  <2>2. /\ call' \in [Calls -> Call] /\ call'[c].stage = "returning"
        /\ \A d \in Calls : d # c => call'[d] = call[d]
    <3> DEFINE v == [call[c] EXCEPT !.stage = "returning"]
    <3>1. call' = [call EXCEPT ![c] = v]
      BY <1>1
    <3>2. v \in Call /\ v.stage = "returning"
      BY <1>0, StageMoves
    <3> HIDE DEF v
    <3> QED BY <3>1, <3>2
  <2>3. Busy' = Busy \ {c} /\ c \in Busy /\ In({"queued"})' = In({"queued"}) /\ Present' = Present
    BY <1>0, <2>2, OneMoves DEF Busy, Present
  <2>4. Cardinality(Busy') = Cardinality(Busy) - 1 /\ Cardinality(Busy) > 0
    BY <2>3, OneMore
  <2>5. pool' = [pool EXCEPT !.slots = pool.slots - 1] /\ pool.slots - 1 \in Nat
    BY <1>1, <2>4
  <2>6. /\ pool' \in PoolState /\ pool'.slots = pool.slots - 1 /\ pool'.admissions = pool.admissions
        /\ pool'.waiting = pool.waiting
    BY <2>5 DEF PoolState
  <2>7. pool'.slots <= Pool
    BY <2>6
  <2>8. PoolAccounted' /\ WaitsOnce'
    <3>1. ToSet(pool.waiting) = In({"queued"}) /\ WaitsOnce
      BY DEF Inv, GuardAccounted, PoolAccounted
    <3>2. pool'.slots = Cardinality(Busy') /\ pool'.admissions = Cardinality(Present')
      BY <2>3, <2>4, <2>6
    <3> QED BY <1>1, <2>3, <2>6, <3>1, <3>2 DEF PoolAccounted, WaitsOnce, Busy, Present
  <2>9. ProbesAccounted' /\ ProbesAreOfHalfOpen' /\ breaker' \in BreakerState
    BY <1>0, <2>2, BreakerStands
  <2> QED BY <2>2, <2>6, <2>7, <2>8, <2>9 DEF Inv, GuardAccounted, TypeOK
<1>2. CASE /\ pool.waiting # <<>>
           /\ pool' = [pool EXCEPT !.waiting = Tail(@)]
           /\ call' = [call EXCEPT ![c].stage = "returning",
                                   ![Head(pool.waiting)].stage = "entering",
                                   ![Head(pool.waiting)].timer = 0]
  <2> DEFINE h == Head(pool.waiting)
             q == Tail(pool.waiting)
  <2>1. ToSet(pool.waiting) = In({"queued"}) /\ \A i, j \in DOMAIN pool.waiting : pool.waiting[i] = pool.waiting[j] => i = j
    BY DEF Inv, GuardAccounted, PoolAccounted, WaitsOnce
  <2>2. /\ q \in Seq(Calls) /\ h \in Calls /\ h \in ToSet(pool.waiting)
        /\ ToSet(q) = ToSet(pool.waiting) \ {h}
        /\ \A i, j \in DOMAIN q : q[i] = q[j] => i = j
    BY <1>2, <2>1, QueueServes
  <2>3. call' = [call EXCEPT ![c].stage = "returning", ![h].stage = "entering", ![h].timer = 0]
    BY <1>2
  <2>4. pool' = [pool EXCEPT !.waiting = q]
    BY <1>2
  <2> HIDE DEF h, q
  <2>5. call[h].stage = "queued" /\ h # c
    BY <1>0, <2>1, <2>2 DEF In
  <2>6. /\ call' \in [Calls -> Call] /\ call'[c].stage = "returning" /\ call'[h].stage = "entering"
        /\ \A d \in Calls : d # c /\ d # h => call'[d] = call[d]
    <3> DEFINE v == [call[c] EXCEPT !.stage = "returning"]
               u == [call[h] EXCEPT !.stage = "entering", !.timer = 0]
    <3>1. call' = [call EXCEPT ![c] = v, ![h] = u]
      BY <2>2, <2>3, <2>5
    <3>2. v \in Call /\ v.stage = "returning" /\ u \in Call /\ u.stage = "entering"
      BY <1>0, <2>2, StageMoves, TimerMoves
    <3> HIDE DEF v, u
    <3> QED BY <2>2, <2>5, <3>1, <3>2
  <2>7. /\ Busy' = (Busy \ {c}) \cup {h} /\ c \in Busy /\ h \notin Busy /\ Present' = Present
        /\ In({"queued"})' = In({"queued"}) \ {h}
    BY <1>0, <2>2, <2>5, <2>6 DEF Busy, Present, In
  <2>8. Cardinality(Busy') = Cardinality(Busy)
    <3>1. Cardinality(Busy \ {c}) = Cardinality(Busy) - 1 /\ Cardinality(Busy) \in Nat
      BY <2>7, OneMore
    <3>2. Cardinality((Busy \ {c}) \cup {h}) = Cardinality(Busy \ {c}) + 1
      BY <2>2, <2>7, OneMore
    <3> QED BY <2>7, <3>1, <3>2
  <2>9. /\ pool' \in PoolState /\ pool'.slots = pool.slots /\ pool'.admissions = pool.admissions
        /\ pool'.waiting = q
    BY <2>2, <2>4 DEF PoolState
  <2>10. ~(pool.slots < Pool)
    BY <1>2 DEF Inv, GuardAccounted, PoolAccounted
  <2>11. PoolAccounted' /\ WaitsOnce'
    BY <2>1, <2>2, <2>7, <2>8, <2>9, <2>10 DEF Inv, GuardAccounted, PoolAccounted, WaitsOnce, Busy, Present
  <2>12. ProbesAccounted' /\ ProbesAreOfHalfOpen' /\ breaker' \in BreakerState
    BY <1>0, <2>5, <2>6, BreakerStands
  <2> QED BY <2>6, <2>9, <2>11, <2>12 DEF Inv, GuardAccounted, TypeOK
<1> QED BY <1>1, <1>2 DEF ReleaseSlot

-----------------------------------------------------------------------------
(* The breaker.                                                            *)

LEMMA NumbersOfBreaker ==
    /\ Probes \in Nat \ {0} /\ 0 \in 0..Probes /\ Cooldown \in Nat /\ 0 \in 0..Cooldown /\ Cooldown \in 0..Cooldown
    /\ Forgotten \in [0..Window - 1 -> Sample]
<1>1. Forgotten \in [0..Window - 1 -> Sample]
  BY DEF Forgotten, Sample
<1> QED BY <1>1, GuardAssumption

LEMMA TransitionFacts ==
    ASSUME NEW b \in BreakerState, NEW to \in {"closed", "halfopen", "open"}
    PROVE  LET v == Transition(b, to)
           IN  /\ v \in BreakerState /\ v.state = to /\ v.leaked = 0
               /\ to = "halfopen" => v.probing = b.probing
               /\ to # "halfopen" => v.probing = 0
<1> DEFINE n == IF to = "open" THEN Cooldown ELSE 0
           m == IF to = "halfopen" THEN b.probing ELSE 0
           v == [b EXCEPT !.state = to, !.cooldown = n, !.probing = m, !.leaked = 0]
<1>1. Transition(b, to) = v
  BY DEF Transition
<1>2. n \in 0..Cooldown /\ m \in 0..Probes /\ 0 \in 0..Probes
  BY NumbersOfBreaker DEF BreakerState
<1>3. (to = "halfopen" => m = b.probing) /\ (to # "halfopen" => m = 0)
  OBVIOUS
<1> HIDE DEF n, m
<1>4. v \in BreakerState /\ v.state = to /\ v.leaked = 0 /\ v.probing = m
  BY <1>2 DEF BreakerState
<1> QED BY <1>1, <1>3, <1>4

\* A call goes back to the pool: the probes of the cycle lose it, or all of them when
\* the breaker turned over.
LEMMA BackFacts ==
    ASSUME Inv, NEW c \in Calls, call[c].stage = "inside", NEW b, NEW turned \in BOOLEAN, Back(c, b, turned)
    PROVE  /\ call' \in [Calls -> Call] /\ breaker' = b /\ pool' = pool
           /\ PoolAccounted' /\ WaitsOnce'
           /\ turned => Probing' = {}
           /\ ~turned => Probing' = Probing \ {c}
<1> USE Typed
<1> DEFINE out == [Out EXCEPT !.stage = "holding"]
           base == IF turned THEN Stale ELSE call
<1>1. breaker' = b /\ pool' = pool /\ call' = [base EXCEPT ![c] = out]
  BY DEF Back
<1>2. out \in Call /\ out.stage = "holding"
  OBVIOUS
<1>3. \A r \in Call : LET v == [r EXCEPT !.current = FALSE] IN v \in Call /\ v.stage = r.stage /\ v.current = FALSE
  BY DEF Call
<1>4. /\ base \in [Calls -> Call]
      /\ \A d \in Calls : base[d].stage = call[d].stage /\ (turned => base[d].current = FALSE) /\ (~turned => base[d] = call[d])
  BY <1>3 DEF Stale
<1> HIDE DEF out, base
<1>5. /\ call' \in [Calls -> Call] /\ call'[c].stage = "holding"
      /\ \A d \in Calls : d # c => call'[d] = base[d]
  BY <1>1, <1>2, <1>4
<1>6. \A d \in Calls : d # c => call'[d].stage = call[d].stage
  BY <1>4, <1>5
<1>7. PoolAccounted' /\ WaitsOnce'
  BY <1>1, <1>5, <1>6, PoolStands
<1>8. turned => Probing' = {}
  BY <1>4, <1>5 DEF Probing, In
<1>9. ~turned => Probing' = Probing \ {c}
  BY <1>4, <1>5 DEF Probing, In
<1> QED BY <1>1, <1>5, <1>7, <1>8, <1>9

\* What such a step has to keep of the breaker.
LEMMA BackKeeps ==
    ASSUME Inv, NEW c \in Calls, call[c].stage = "inside", NEW b \in BreakerState, NEW turned \in BOOLEAN,
           Back(c, b, turned),
           turned => b.state # "halfopen" /\ b.probing = 0 /\ b.leaked = 0,
           ~turned => /\ b.state # "halfopen" => b.probing = 0 /\ b.leaked = 0 /\ breaker.state # "halfopen"
                      /\ b.state = "halfopen" => b.probing = b.leaked + Cardinality(Probing \ {c})
    PROVE  Inv'
<1>1. /\ call' \in [Calls -> Call] /\ breaker' = b /\ pool' = pool
      /\ PoolAccounted' /\ WaitsOnce'
      /\ turned => Probing' = {}
      /\ ~turned => Probing' = Probing \ {c}
  BY BackFacts
<1>2. ProbesAreOfHalfOpen'
  BY <1>1 DEF ProbesAreOfHalfOpen, Inv
<1>3. ProbesAccounted'
  <2>1. (breaker.state = "halfopen" => breaker.probing = breaker.leaked + Cardinality(Probing))'
    BY <1>1
  <2> QED BY <2>1 DEF ProbesAccounted, Probing
<1> QED BY <1>1, <1>2, <1>3 DEF Inv, GuardAccounted, TypeOK

\* A probe of the cycle in flight: the breaker is half-open and counts it.
LEMMA ProbeIsCounted ==
    ASSUME Inv, NEW c \in Calls, call[c].stage = "inside"
    PROVE  /\ c \in Probing <=> call[c].ticket = "probe" /\ call[c].current
           /\ c \in Probing => /\ breaker.state = "halfopen" /\ breaker.probing > 0
                               /\ Cardinality(Probing \ {c}) = Cardinality(Probing) - 1
                               /\ Cardinality(Probing) > 0
           /\ c \notin Probing => Probing \ {c} = Probing
<1>1. c \in Probing <=> call[c].ticket = "probe" /\ call[c].current
  BY DEF Probing, In
<1>2. c \in Probing => breaker.state = "halfopen"
  BY DEF Inv, ProbesAreOfHalfOpen
<1>3. c \in Probing => Cardinality(Probing \ {c}) = Cardinality(Probing) - 1 /\ Cardinality(Probing) > 0
  BY ProbingCounts, OneMore
<1>4. c \in Probing => breaker.probing > 0
  BY <1>2, <1>3, ProbingCounts
<1> QED BY <1>1, <1>2, <1>3, <1>4

\* The breaker as it was.
LEMMA UnmovedKeeps ==
    ASSUME Inv, NEW c \in Calls, call[c].stage = "inside", Back(c, breaker, FALSE), c \notin Probing
    PROVE  Inv'
<1>1. Probing \ {c} = Probing
  BY ProbeIsCounted
<1> QED BY <1>1, ProbingCounts, BackKeeps DEF Inv, ProbesAreOfHalfOpen

LEMMA CancelledKeeps ==
    ASSUME Inv, NEW c \in Calls, Cancelled(c)
    PROVE  Inv'
<1>0. call[c].stage = "inside"
  BY DEF Cancelled
<1>1. CASE c \in Probing
  <2>1. Back(c, [breaker EXCEPT !.probing = breaker.probing - 1], FALSE)
    BY <1>0, <1>1, ProbeIsCounted DEF Cancelled
  <2> DEFINE b == [breaker EXCEPT !.probing = breaker.probing - 1]
  <2>0. /\ breaker.probing \in 0..Probes /\ breaker.leaked \in 0..Probes /\ Probes \in Nat
        /\ Cardinality(Probing) \in Nat /\ Cardinality(Probing) > 0
        /\ breaker.probing = breaker.leaked + Cardinality(Probing)
        /\ Cardinality(Probing \ {c}) = Cardinality(Probing) - 1
    BY <1>0, <1>1, ProbeIsCounted, ProbingCounts
  <2>2. breaker.probing - 1 \in 0..Probes
    BY <2>0
  <2>3. b \in BreakerState /\ b.state = "halfopen" /\ b.probing = breaker.probing - 1 /\ b.leaked = breaker.leaked
    BY <1>0, <1>1, <2>2, ProbeIsCounted, ProbingCounts DEF BreakerState
  <2> HIDE DEF b
  <2>4. b.probing = b.leaked + Cardinality(Probing \ {c})
    BY <2>0, <2>3
  <2> QED BY <1>0, <2>1, <2>3, <2>4, BackKeeps DEF b
<1>2. CASE c \notin Probing
  <2>1. Back(c, breaker, FALSE)
    BY <1>0, <1>2, ProbeIsCounted DEF Cancelled
  <2> QED BY <1>0, <1>2, <2>1, UnmovedKeeps
<1> QED BY <1>1, <1>2

LEMMA PanicKeeps ==
    ASSUME Inv, NEW c \in Calls, Panic(c)
    PROVE  Inv'
<1>0. call[c].stage = "inside"
  BY DEF Panic
<1>1. CASE c \in Probing
  <2>1. Back(c, [breaker EXCEPT !.leaked = breaker.leaked + 1], FALSE)
    BY <1>0, <1>1, ProbeIsCounted DEF Panic
  <2> DEFINE b == [breaker EXCEPT !.leaked = breaker.leaked + 1]
  <2>0. /\ breaker.probing \in 0..Probes /\ breaker.leaked \in 0..Probes /\ Probes \in Nat
        /\ Cardinality(Probing) \in Nat /\ Cardinality(Probing) > 0
        /\ breaker.probing = breaker.leaked + Cardinality(Probing)
        /\ Cardinality(Probing \ {c}) = Cardinality(Probing) - 1
    BY <1>0, <1>1, ProbeIsCounted, ProbingCounts
  <2>2. breaker.leaked + 1 \in 0..Probes
    BY <2>0
  <2>3. b \in BreakerState /\ b.state = "halfopen" /\ b.probing = breaker.probing /\ b.leaked = breaker.leaked + 1
    BY <1>0, <1>1, <2>2, ProbeIsCounted, ProbingCounts DEF BreakerState
  <2> HIDE DEF b
  <2>4. b.probing = b.leaked + Cardinality(Probing \ {c})
    BY <2>0, <2>3
  <2> QED BY <1>0, <2>1, <2>3, <2>4, BackKeeps DEF b
<1>2. CASE c \notin Probing
  <2>1. Back(c, breaker, FALSE)
    BY <1>0, <1>2, ProbeIsCounted DEF Panic
  <2> QED BY <1>0, <1>2, <2>1, UnmovedKeeps
<1> QED BY <1>1, <1>2

LEMMA ProbeAnswersKeeps ==
    ASSUME Inv, NEW c \in Calls, NEW failed \in BOOLEAN, ProbeAnswers(c, failed)
    PROVE  Inv'
<1>0. call[c].stage = "inside" /\ call[c].ticket = "probe"
  BY DEF ProbeAnswers
<1>1. CASE call[c].current /\ breaker.state = "halfopen" /\ Back(c, Decided(failed), TRUE)
  <2> DEFINE w == [breaker EXCEPT !.probing = breaker.probing - 1, !.window = Forgotten]
             b == Decided(failed)
  <2>0. /\ breaker.probing \in 0..Probes /\ breaker.leaked \in 0..Probes /\ Probes \in Nat
        /\ Cardinality(Probing) \in Nat /\ Cardinality(Probing) > 0
        /\ breaker.probing = breaker.leaked + Cardinality(Probing)
        /\ Cardinality(Probing \ {c}) = Cardinality(Probing) - 1
    BY <1>0, <1>1, ProbeIsCounted, ProbingCounts
  <2>1. breaker.probing - 1 \in 0..Probes
    BY <2>0
  <2>2. w \in BreakerState
    BY <2>1, ProbingCounts, NumbersOfBreaker DEF BreakerState
  <2>3. b = Transition(w, IF failed THEN "open" ELSE "closed")
    BY DEF Decided
  <2>4. b \in BreakerState /\ b.state # "halfopen" /\ b.probing = 0 /\ b.leaked = 0
    BY <2>2, <2>3, TransitionFacts
  <2> HIDE DEF b
  <2> QED BY <1>0, <1>1, <2>4, BackKeeps DEF b
<1>2. CASE ~(call[c].current /\ breaker.state = "halfopen") /\ Back(c, breaker, FALSE)
  <2>1. c \notin Probing
    BY <1>0, <1>2, ProbeIsCounted
  <2> QED BY <1>0, <1>2, <2>1, UnmovedKeeps
<1> QED BY <1>1, <1>2 DEF ProbeAnswers

LEMMA ObservedIsTyped ==
    ASSUME Inv, NEW failed \in BOOLEAN
    PROVE  [breaker EXCEPT !.window = Observed(failed)] \in BreakerState
<1>1. breaker.window \in [0..Window - 1 -> Sample] /\ breaker \in BreakerState /\ 0 \in 0..Window - 1
  BY ProbingCounts, GuardAssumption DEF BreakerState
<1>2. \A r \in Sample : [r EXCEPT !.failed = r.failed + 1] \in Sample /\ [r EXCEPT !.ok = r.ok + 1] \in Sample
  BY DEF Sample
<1>3. Observed(failed) \in [0..Window - 1 -> Sample]
  <2> DEFINE r == breaker.window[0]
  <2>1. r \in Sample
    BY <1>1
  <2>2. CASE failed
    <3>1. Observed(failed) = [breaker.window EXCEPT ![0] = [r EXCEPT !.failed = r.failed + 1]]
      BY <1>1, <2>1, <2>2, SMT DEF Observed
    <3>2. [r EXCEPT !.failed = r.failed + 1] \in Sample
      BY <1>2, <2>1
    <3> QED BY <1>1, <3>1, <3>2
  <2>3. CASE ~failed
    <3>1. Observed(failed) = [breaker.window EXCEPT ![0] = [r EXCEPT !.ok = r.ok + 1]]
      BY <1>1, <2>1, <2>3, SMT DEF Observed
    <3>2. [r EXCEPT !.ok = r.ok + 1] \in Sample
      BY <1>2, <2>1
    <3> QED BY <1>1, <3>1, <3>2
  <2> QED BY <2>2, <2>3
<1> QED BY <1>1, <1>3 DEF BreakerState

LEMMA CallAnswersKeeps ==
    ASSUME Inv, NEW c \in Calls, NEW failed \in BOOLEAN, CallAnswers(c, failed)
    PROVE  Inv'
<1>0. call[c].stage = "inside" /\ call[c].ticket = "call" /\ c \notin Probing
  BY DEF CallAnswers, Probing
<1>1. CASE breaker.state = "halfopen" /\ Back(c, breaker, FALSE)
  BY <1>0, <1>1, UnmovedKeeps
<1>2. CASE breaker.state # "halfopen"
  <2> DEFINE b == [breaker EXCEPT !.window = Observed(failed)]
  <2>1. /\ b \in BreakerState /\ b.state = breaker.state /\ b.probing = breaker.probing
        /\ b.leaked = breaker.leaked
    BY ObservedIsTyped, ProbingCounts DEF BreakerState
  <2>2. b.state # "halfopen" /\ b.probing = 0 /\ b.leaked = 0
    BY <1>2, <2>1 DEF Inv, ProbesAreOfHalfOpen
  <2>3. (ShouldOpen(b.window) /\ Back(c, Transition(b, "open"), TRUE)) \/ Back(c, b, FALSE)
    <3>1. LET opens == ShouldOpen(b.window) IN Back(c, IF opens THEN Transition(b, "open") ELSE b, opens)
      BY <1>2 DEF CallAnswers
    <3>2. CASE ShouldOpen(b.window)
      BY <3>1, <3>2, Zenon DEF Back
    <3>3. CASE ~ShouldOpen(b.window)
      BY <3>1, <3>3, Zenon DEF Back
    <3> QED BY <3>2, <3>3
  <2> HIDE DEF b
  <2>4. CASE Back(c, Transition(b, "open"), TRUE)
    <3> DEFINE v == Transition(b, "open")
    <3>1. v \in BreakerState /\ v.state = "open" /\ v.probing = 0 /\ v.leaked = 0
      BY <2>1, TransitionFacts
    <3> HIDE DEF v
    <3> QED BY <1>0, <2>4, <3>1, BackKeeps DEF v
  <2>5. CASE Back(c, b, FALSE)
    BY <1>0, <1>2, <2>1, <2>2, <2>5, BackKeeps
  <2> QED BY <2>3, <2>4, <2>5
<1> QED BY <1>1, <1>2 DEF CallAnswers

\* The breaker that a call meets: the present one, or one that just turned half-open.
LEMMA MetFacts ==
    ASSUME Inv
    PROVE  /\ Met \in BreakerState /\ Met.probing \in 0..Probes /\ Met.leaked \in 0..Probes
           /\ \/ Met = breaker
              \/ /\ Met # breaker /\ breaker.state = "open"
                 /\ Met.state = "halfopen" /\ Met.probing = 0 /\ Met.leaked = 0
<1>1. CASE breaker.state = "open" /\ breaker.cooldown = 0
  <2>1. Met = Transition(breaker, "halfopen")
    BY <1>1 DEF Met
  <2>2. Met \in BreakerState /\ Met.state = "halfopen" /\ Met.probing = breaker.probing /\ Met.leaked = 0
    BY <2>1, ProbingCounts, TransitionFacts
  <2>3. breaker.probing = 0
    BY <1>1 DEF Inv, ProbesAreOfHalfOpen
  <2> QED BY <1>1, <2>2, <2>3 DEF BreakerState
<1>2. CASE ~(breaker.state = "open" /\ breaker.cooldown = 0)
  BY <1>2, ProbingCounts DEF Met, BreakerState
<1> QED BY <1>1, <1>2

\* The calls after one of them met the breaker with the answer k.
LEMMA EnterCalls ==
    ASSUME call \in [Calls -> Call], NEW c \in Calls, NEW g \in {"inside", "holding"},
           NEW k \in {"none", "call", "probe"},
           call' = [(IF Met = breaker THEN call ELSE Stale) EXCEPT ![c].stage = g, ![c].ticket = k,
                                                                   ![c].current = k # "none"]
    PROVE  /\ call' \in [Calls -> Call]
           /\ call'[c].stage = g /\ call'[c].ticket = k /\ (k = "probe" => call'[c].current)
           /\ \A d \in Calls : d # c => /\ call'[d].stage = call[d].stage
                                        /\ Met # breaker => call'[d].current = FALSE
                                        /\ Met = breaker => call'[d] = call[d]
<1>1. ASSUME NEW f \in [Calls -> Call], call' = [f EXCEPT ![c].stage = g, ![c].ticket = k, ![c].current = k # "none"]
      PROVE  /\ call' \in [Calls -> Call]
             /\ call'[c].stage = g /\ call'[c].ticket = k /\ (k = "probe" => call'[c].current)
             /\ \A d \in Calls : d # c => call'[d] = f[d]
  <2> DEFINE p == (k # "none")
             v == [f[c] EXCEPT !.stage = g, !.ticket = k, !.current = p]
  <2>1. call' = [f EXCEPT ![c] = v]
    BY <1>1
  <2>2. p \in BOOLEAN /\ (k = "probe" => p = TRUE)
    OBVIOUS
  <2> HIDE DEF p
  <2>3. f[c] \in Call
    OBVIOUS
  <2>4. v \in Call /\ v.stage = g /\ v.ticket = k /\ v.current = p
    BY <2>2, <2>3 DEF Call
  <2> HIDE DEF v
  <2>5. call' \in [Calls -> Call] /\ call'[c] = v /\ \A d \in Calls : d # c => call'[d] = f[d]
    BY <2>1, <2>4
  <2> QED BY <2>2, <2>4, <2>5
<1>2. CASE Met = breaker
  BY <1>1, <1>2
<1>3. CASE Met # breaker
  <2>1. \A r \in Call : LET u == [r EXCEPT !.current = FALSE] IN u \in Call /\ u.stage = r.stage /\ u.current = FALSE
    BY DEF Call
  <2>2. /\ Stale \in [Calls -> Call]
        /\ \A d \in Calls : Stale[d].stage = call[d].stage /\ Stale[d].current = FALSE
    BY <2>1 DEF Stale
  <2>3. call' = [Stale EXCEPT ![c].stage = g, ![c].ticket = k, ![c].current = k # "none"]
    BY <1>3
  <2> QED BY <1>1, <1>3, <2>2, <2>3
<1> QED BY <1>2, <1>3

LEMMA EnterFacts ==
    ASSUME Inv, NEW c \in Calls, call[c].stage = "entering", pool' = pool,
           call' \in [Calls -> Call], NEW g \in {"inside", "holding"}, NEW k \in {"none", "call", "probe"},
           call'[c].stage = g, call'[c].ticket = k, k = "probe" => g = "inside" /\ call'[c].current,
           \A d \in Calls : d # c => /\ call'[d].stage = call[d].stage
                                     /\ Met # breaker => call'[d].current = FALSE
                                     /\ Met = breaker => call'[d] = call[d]
    PROVE  /\ PoolAccounted' /\ WaitsOnce'
           /\ c \notin Probing
           /\ k = "probe" /\ Met = breaker => Probing' = Probing \cup {c}
           /\ k = "probe" /\ Met # breaker => Probing' = {c}
           /\ k # "probe" /\ Met = breaker => Probing' = Probing
           /\ k # "probe" /\ Met # breaker => Probing' = {}
<1>8. PoolAccounted' /\ WaitsOnce'
  BY PoolStands
<1>9. c \notin Probing
  BY DEF Probing, In
<1>10. k = "probe" => c \in Probing'
  BY DEF Probing, In
<1>11. k # "probe" => c \notin Probing'
  BY DEF Probing
<1>12. Met = breaker => \A d \in Calls : d # c => (d \in Probing' <=> d \in Probing)
  BY DEF Probing, In
<1>13. Met # breaker => \A d \in Calls : d # c => d \notin Probing'
  BY DEF Probing, In
<1>14. Probing \subseteq Calls /\ Probing' \subseteq Calls
  BY DEF Probing, In
<1>15. CASE Met = breaker
  <2>1. k = "probe" => Probing' = Probing \cup {c}
    BY <1>10, <1>12, <1>14, <1>15
  <2>2. k # "probe" => Probing' = Probing
    BY <1>9, <1>11, <1>12, <1>14, <1>15
  <2> QED BY <1>8, <1>9, <1>15, <2>1, <2>2
<1>16. CASE Met # breaker
  <2>1. k = "probe" => Probing' = {c}
    BY <1>10, <1>13, <1>14, <1>16
  <2>2. k # "probe" => Probing' = {}
    BY <1>11, <1>13, <1>14, <1>16
  <2> QED BY <1>8, <1>9, <1>16, <2>1, <2>2
<1> QED BY <1>15, <1>16

LEMMA EnterKeeps ==
    ASSUME Inv, NEW c \in Calls, Enter(c)
    PROVE  Inv'
<1> DEFINE Goes(stage, ticket) ==
              call' = [(IF Met = breaker THEN call ELSE Stale) EXCEPT ![c].stage = stage, ![c].ticket = ticket,
                                                                      ![c].current = ticket # "none"]
<1>0. call[c].stage = "entering" /\ pool' = pool
  BY DEF Enter
<1>1. CASE Met.state = "closed" /\ breaker' = Met /\ Goes("inside", "call")
  <2>1. Met = breaker
    BY <1>1, MetFacts
  <2>2. call' \in [Calls -> Call] /\ PoolAccounted' /\ WaitsOnce' /\ Probing' = Probing
    <3>1. /\ call' \in [Calls -> Call] /\ call'[c].stage = "inside" /\ call'[c].ticket = "call"
          /\ \A d \in Calls : d # c => call'[d].stage = call[d].stage /\ call'[d] = call[d]
      <4>1. call \in [Calls -> Call] /\ Goes("inside", "call")
        BY <1>1, Typed
      <4> QED BY <2>1, <4>1, EnterCalls
    <3> QED BY <1>0, <2>1, <3>1, EnterFacts
  <2>3. ProbesAreOfHalfOpen' /\ ProbesAccounted'
    BY <1>1, <2>1, <2>2 DEF Inv, ProbesAreOfHalfOpen, ProbesAccounted
  <2> QED BY <1>0, <1>1, <2>1, <2>2, <2>3 DEF Inv, GuardAccounted, TypeOK
<1>2. CASE /\ Met.state = "halfopen" /\ Met.probing < Probes
           /\ breaker' = [Met EXCEPT !.probing = @ + 1]
           /\ Goes("inside", "probe")
  <2>1. /\ call' \in [Calls -> Call] /\ PoolAccounted' /\ WaitsOnce' /\ c \notin Probing
        /\ Met = breaker => Probing' = Probing \cup {c}
        /\ Met # breaker => Probing' = {c}
    <3>1. /\ call' \in [Calls -> Call] /\ call'[c].stage = "inside" /\ call'[c].ticket = "probe" /\ call'[c].current
          /\ \A d \in Calls : d # c => /\ call'[d].stage = call[d].stage
                                       /\ Met # breaker => call'[d].current = FALSE
                                       /\ Met = breaker => call'[d] = call[d]
      BY <1>2, Typed, EnterCalls
    <3> QED BY <1>0, <3>1, EnterFacts
  <2>2. Met.probing + 1 \in 0..Probes /\ Met.probing \in Nat /\ Met.leaked \in Nat
    BY <1>2, MetFacts, NumbersOfBreaker
  <2>3. /\ breaker' \in BreakerState /\ breaker'.state = "halfopen"
        /\ breaker'.probing = Met.probing + 1 /\ breaker'.leaked = Met.leaked
    BY <1>2, <2>2, MetFacts DEF BreakerState
  <2>4. breaker'.probing = breaker'.leaked + Cardinality(Probing')
    <3>1. CASE Met = breaker
      <4>1. breaker.probing = breaker.leaked + Cardinality(Probing) /\ Cardinality(Probing) \in Nat
        BY <1>2, <3>1, ProbingCounts
      <4>2. Cardinality(Probing') = Cardinality(Probing) + 1
        BY <2>1, <3>1, ProbingCounts, OneMore
      <4> QED BY <2>2, <2>3, <3>1, <4>1, <4>2
    <3>2. CASE Met # breaker
      <4>1. Cardinality(Probing') = 1
        BY <2>1, <3>2, FS_Singleton
      <4>2. Met.probing = 0 /\ Met.leaked = 0
        BY <3>2, MetFacts
      <4> QED BY <2>3, <4>1, <4>2
    <3> QED BY <3>1, <3>2
  <2>5. ProbesAreOfHalfOpen' /\ ProbesAccounted'
    BY <2>3, <2>4 DEF ProbesAreOfHalfOpen, ProbesAccounted, Probing
  <2> QED BY <1>0, <2>1, <2>3, <2>5 DEF Inv, GuardAccounted, TypeOK
<1>3. CASE /\ \/ Met.state = "open"
              \/ Met.state = "halfopen" /\ Met.probing >= Probes
           /\ breaker' = Met
           /\ Goes("holding", "none")
  <2>1. /\ call' \in [Calls -> Call] /\ PoolAccounted' /\ WaitsOnce'
        /\ Met = breaker => Probing' = Probing
        /\ Met # breaker => Probing' = {}
    <3>1. /\ call' \in [Calls -> Call] /\ call'[c].stage = "holding" /\ call'[c].ticket = "none"
          /\ \A d \in Calls : d # c => /\ call'[d].stage = call[d].stage
                                       /\ Met # breaker => call'[d].current = FALSE
                                       /\ Met = breaker => call'[d] = call[d]
      BY <1>3, Typed, EnterCalls
    <3> QED BY <1>0, <3>1, EnterFacts
  <2>2. ProbesAreOfHalfOpen' /\ ProbesAccounted'
    <3>1. CASE Met = breaker
      BY <1>3, <2>1, <3>1 DEF Inv, GuardAccounted, ProbesAreOfHalfOpen, ProbesAccounted, Probing
    <3>2. CASE Met # breaker
      <4>1. Met.probing = 0 /\ Met.leaked = 0 /\ Met.state = "halfopen" /\ Cardinality({}) = 0
        BY <3>2, MetFacts, FS_EmptySet
      <4>2. Met.probing = Met.leaked + Cardinality(Probing')
        BY <2>1, <3>2, <4>1
      <4> QED BY <1>3, <4>1, <4>2 DEF ProbesAreOfHalfOpen, ProbesAccounted, Probing
    <3> QED BY <3>1, <3>2
  <2> QED BY <1>0, <1>3, <2>1, <2>2, MetFacts DEF Inv, GuardAccounted, TypeOK
<1> QED BY <1>1, <1>2, <1>3 DEF Enter

LEMMA TickKeeps ==
    ASSUME Inv, Tick
    PROVE  Inv'
<1>0. call \in [Calls -> Call] /\ Acquisition \in Nat /\ Window \in Nat
  BY Typed, GuardAssumption
<1> USE <1>0
<1>1. /\ call' = [c \in Calls |-> [call[c] EXCEPT !.timer = IF call[c].timer > 0 THEN call[c].timer - 1 ELSE 0]]
      /\ pool' = pool
  BY DEF Tick
<1>2. \A c \in Calls : /\ call'[c] \in Call /\ call'[c].stage = call[c].stage
                       /\ call'[c].ticket = call[c].ticket /\ call'[c].current = call[c].current
  <2> TAKE c \in Calls
  <2> DEFINE n == IF call[c].timer > 0 THEN call[c].timer - 1 ELSE 0
  <2>1. call[c] \in Call /\ n \in 0..Acquisition
    <3>1. call[c] \in Call
      OBVIOUS
    <3>2. call[c].timer \in 0..Acquisition
      BY <3>1 DEF Call
    <3> QED BY <3>1, <3>2
  <2>2. call'[c] = [call[c] EXCEPT !.timer = n]
    BY <1>1
  <2> HIDE DEF n
  <2> QED BY <2>1, <2>2 DEF Call
<1>3. call' \in [Calls -> Call]
  BY <1>1, <1>2
<1>4. \A S : In(S)' = In(S)
  BY <1>2 DEF In
<1>5. Probing' = Probing
  <2>1. \A c \in Calls : c \in Probing' <=> c \in Probing
    BY <1>2 DEF Probing, In
  <2> QED BY <2>1 DEF Probing, In
<1>6. /\ breaker' \in BreakerState /\ breaker'.state = breaker.state
      /\ breaker'.probing = breaker.probing /\ breaker'.leaked = breaker.leaked
  <2> DEFINE n == IF breaker.cooldown > 0 THEN breaker.cooldown - 1 ELSE 0
             f == [age \in 0..Window - 1 |-> IF age = 0 THEN [ok |-> 0, failed |-> 0] ELSE breaker.window[age - 1]]
  <2>0. breaker \in BreakerState
    BY ProbingCounts
  <2>1. breaker' = [breaker EXCEPT !.cooldown = n, !.window = f]
    BY DEF Tick
  <2>2. n \in 0..Cooldown
    BY <2>0, NumbersOfBreaker DEF BreakerState
  <2>3. f \in [0..Window - 1 -> Sample]
    <3>1. [ok |-> 0, failed |-> 0] \in Sample
      BY DEF Sample
    <3>2. \A age \in 0..Window - 1 : age # 0 => age - 1 \in 0..Window - 1
      OBVIOUS
    <3> QED BY <2>0, <3>1, <3>2 DEF BreakerState
  <2> HIDE DEF n, f
  <2> QED BY <2>0, <2>1, <2>2, <2>3 DEF BreakerState
<1>7. PoolAccounted' /\ WaitsOnce'
  BY <1>1, <1>4 DEF Inv, GuardAccounted, PoolAccounted, WaitsOnce
<1>8. ProbesAccounted' /\ ProbesAreOfHalfOpen'
  BY <1>5, <1>6, ProbingCounts DEF Inv, ProbesAccounted, ProbesAreOfHalfOpen, Probing
<1> QED BY <1>1, <1>3, <1>6, <1>7, <1>8 DEF Inv, GuardAccounted, TypeOK

-----------------------------------------------------------------------------
LEMMA InitHolds ==
    ASSUME Init
    PROVE  Inv
<1>1. Out \in Call /\ Out.stage = "out" /\ \A c \in Calls : call[c] = Out
  <2>1. 0 \in 0..Acquisition
    BY GuardAssumption
  <2> QED BY <2>1 DEF Init, Out, Call
<1>2. pool \in PoolState /\ pool.slots = 0 /\ pool.admissions = 0 /\ pool.waiting = <<>>
  <2>1. \A q \in Seq(Calls) : LET p == [slots |-> 0, admissions |-> 0, waiting |-> q]
                              IN  p \in PoolState /\ p.slots = 0 /\ p.admissions = 0 /\ p.waiting = q
    BY DEF PoolState
  <2>2. <<>> \in Seq(Calls)
    BY EmptySeq
  <2> QED BY <2>1, <2>2 DEF Init
<1>3. breaker \in BreakerState /\ breaker.state = "closed" /\ breaker.probing = 0 /\ breaker.leaked = 0
  BY NumbersOfBreaker DEF Init, BreakerState
<1>4. /\ In({"entering", "inside", "holding"}) = {} /\ In({"out"}) = Calls /\ In({"queued"}) = {}
      /\ In({"inside"}) = {}
  BY <1>1 DEF In
<1>5. TypeOK
  BY <1>1, <1>2, <1>3, GuardAssumption DEF TypeOK, Init
<1>6. ToSet(<<>>) = {}
  BY DEF ToSet
<1>7. PoolAccounted
  BY <1>2, <1>4, <1>6, FS_EmptySet DEF PoolAccounted
<1> QED BY <1>2, <1>3, <1>4, <1>5, <1>7
        DEF Inv, GuardAccounted, ProbesAccounted, WaitsOnce, ProbesAreOfHalfOpen, Probing

LEMMA StepKeeps ==
    ASSUME Inv, [Next]_vars
    PROVE  Inv'
<1>1. CASE UNCHANGED vars
  BY <1>1 DEF vars, Inv, GuardAccounted, TypeOK, PoolAccounted, ProbesAccounted, WaitsOnce, ProbesAreOfHalfOpen,
              Probing, In
<1>2. ASSUME NEW c \in Calls, Admit(c) \/ Acquire(c) \/ GiveUp(c) \/ Enter(c)
      PROVE  Inv'
  BY <1>2, AdmitKeeps, AcquireKeeps, GiveUpKeeps, EnterKeeps
<1>3. ASSUME NEW c \in Calls, Answers(c)
      PROVE  Inv'
  BY <1>3, CancelledKeeps, PanicKeeps, ProbeAnswersKeeps, CallAnswersKeeps DEF Answers
<1>4. ASSUME NEW c \in Calls, Leaves(c)
      PROVE  Inv'
  BY <1>4, ReleaseSlotKeeps, ReleaseAdmissionKeeps DEF Leaves
<1>5. CASE Tick
  BY <1>5, TickKeeps
<1> QED BY <1>1, <1>2, <1>3, <1>4, <1>5 DEF Next

\* The inductive invariant of the guard: the counts, a queue without repetition, and no
\* probe of the present cycle unless the breaker is half open (bulkhead.go, breaker.go).
THEOREM GuardInvariant == Spec => []Inv
  BY InitHolds, StepKeeps, PTL DEF Spec

\* Slots, admissions and probes are all accounted for, whatever calls are refused, give
\* up, are cancelled or panic (bulkhead.go acquire, breaker.go record, releaseProbe).
THEOREM GuardIsAccounted == Spec => []GuardAccounted
<1>1. Inv => GuardAccounted
  BY DEF Inv
<1> QED BY <1>1, GuardInvariant, PTL

\* Only the answer of a probe of the present cycle ends half-openness.
LEMMA DecisionIsOfProbe ==
    ASSUME Inv, [Next]_vars, breaker.state = "halfopen", breaker'.state # "halfopen"
    PROVE  \E c \in Calls: /\ call[c].stage = "inside" /\ call'[c].stage = "holding"
                           /\ call[c].ticket = "probe" /\ call[c].current
<1>0. breaker \in BreakerState /\ call \in [Calls -> Call]
  BY DEF Inv, GuardAccounted, TypeOK
<1>1. breaker' # breaker
  OBVIOUS
<1>2. \A p : [breaker EXCEPT !.probing = p].state = "halfopen" /\ [breaker EXCEPT !.leaked = p].state = "halfopen"
  BY <1>0 DEF BreakerState
<1>3. Met = breaker
  BY DEF Met
<1>4. ASSUME NEW c \in Calls, Enter(c)
      PROVE  FALSE
  <2>1. breaker' = breaker \/ breaker' = [breaker EXCEPT !.probing = breaker.probing + 1]
    BY <1>3, <1>4 DEF Enter
  <2> QED BY <1>1, <1>2, <2>1
<1>5. ASSUME NEW c \in Calls, Cancelled(c) \/ Panic(c)
      PROVE  FALSE
  <2>1. \/ breaker' = breaker \/ breaker' = [breaker EXCEPT !.probing = breaker.probing - 1]
        \/ breaker' = [breaker EXCEPT !.leaked = breaker.leaked + 1]
    BY <1>5 DEF Cancelled, Panic, Back
  <2> QED BY <1>1, <1>2, <2>1
<1>6. ASSUME NEW c \in Calls, NEW failed \in BOOLEAN, CallAnswers(c, failed)
      PROVE  FALSE
  BY <1>1, <1>6 DEF CallAnswers, Back
<1>7. CASE Tick
  <2>1. \A m, n : [breaker EXCEPT !.cooldown = m, !.window = n].state = "halfopen"
    BY <1>0 DEF BreakerState
  <2> QED BY <1>7, <2>1 DEF Tick
<1>8. ASSUME NEW c \in Calls, NEW failed \in BOOLEAN, ProbeAnswers(c, failed)
      PROVE  /\ call[c].stage = "inside" /\ call'[c].stage = "holding"
             /\ call[c].ticket = "probe" /\ call[c].current
  <2>1. /\ call[c].stage = "inside" /\ call[c].ticket = "probe" /\ call[c].current
        /\ call' = [Stale EXCEPT ![c] = [Out EXCEPT !.stage = "holding"]]
    BY <1>1, <1>8 DEF ProbeAnswers, Back
  <2>2. [Out EXCEPT !.stage = "holding"].stage = "holding"
    BY DEF Out
  <2> QED BY <2>1, <2>2 DEF Stale
<1>9. ASSUME NEW c \in Calls, Admit(c) \/ Acquire(c) \/ GiveUp(c) \/ Leaves(c)
      PROVE  FALSE
  BY <1>1, <1>9 DEF Admit, Acquire, GiveUp, Leaves, ReleaseSlot, ReleaseAdmission
<1>10. CASE UNCHANGED vars
  BY <1>1, <1>10 DEF vars
<1> QED BY <1>4, <1>5, <1>6, <1>7, <1>8, <1>9, <1>10 DEF Next, Answers

\* Calls of an earlier cycle never close a half-open breaker nor open it again
\* (breaker.go record).
THEOREM ProbesAloneDecide == Spec => OnlyProbesDecide
<1>1. ASSUME Inv, [Next]_vars
      PROVE  [(breaker.state = "halfopen" /\ breaker'.state # "halfopen") =>
              \E c \in Calls: /\ call[c].stage = "inside" /\ call'[c].stage = "holding"
                              /\ call[c].ticket = "probe" /\ call[c].current]_vars
  BY <1>1, DecisionIsOfProbe
<1> QED BY <1>1, GuardInvariant, PTL DEF Spec, OnlyProbesDecide
-----------------------------------------------------------------------------
(* The retries inside the guard: RetryBudget.  Nothing is claimed before   *)
(* the budget has its amount (UnsizedIsEmpty), which one call gives it     *)
(* (SizedByOne); a claim adds ticks of its own to Claimed, and what is     *)
(* settled takes them out.                                                 *)

USE BudgetAssumption

\* What a retry loop keeps.
LoopIsSound ==
    \A d \in Dependencies :
        /\ retry[d].stage \in {"reserving", "sleeping"} => retry[d].attempt + 1 < MaxAttempts
        /\ retry[d].stage = "attempting" => retry[d].limit + retry[d].elapsed <= OpDeadline
        /\ retry[d].stage \notin {"sleeping", "start", "attempting", "answered"} => retry[d].claimed = 0
        /\ retry[d].attempt = 0 /\ retry[d].stage # "sleeping" => retry[d].claimed = 0

\* Until the budget has its amount, nothing was claimed, spent or owed.
UnsizedIsEmpty ==
    (~budget.armed \/ \E d \in Dependencies : retry[d].stage = "sizing") =>
        /\ budget.balance = 0 /\ books.sized = 0 /\ books.spent = 0 /\ books.lost = 0 /\ books.owed = 0
        /\ \A d \in Dependencies : /\ retry[d].attempt = 0 /\ retry[d].claimed = 0
                                   /\ retry[d].stage \notin {"reserving", "sleeping"}

\* One call sizes the budget, having armed it.
SizedByOne ==
    \A d \in Dependencies : retry[d].stage = "sizing" =>
        budget.armed /\ \A e \in Dependencies : retry[e].stage = "sizing" => e = d

\* A call that found no budget to arm had no time left.
UnarmedIsLate ==
    \A d \in Dependencies : (retry[d].stage = "evaluating" \/ retry[d].denied) /\ ~budget.armed => left = 0

BInv ==
    /\ BudgetTypeOK
    /\ LoopIsSound /\ UnsizedIsEmpty /\ SizedByOne /\ UnarmedIsLate
    /\ BalanceCovered /\ Accounted /\ DenialIsReported

-----------------------------------------------------------------------------
(* Counting claims.                                                        *)

LEMMA UnitsOfOne ==
    ASSUME NEW d, NEW n \in Nat
    PROVE  IsFiniteSet({d} \X (1..n)) /\ Cardinality({d} \X (1..n)) = n
<1>1. IsFiniteSet({d}) /\ Cardinality({d}) = 1
  BY FS_Singleton
<1>2. IsFiniteSet(1..n) /\ Cardinality(1..n) = n
  <2>1. IsFiniteSet(1..n) /\ Cardinality(1..n) = IF 1 > n THEN 0 ELSE n - 1 + 1
    BY FS_Interval
  <2> QED BY <2>1
<1>3. /\ IsFiniteSet({d} \X (1..n))
      /\ Cardinality({d} \X (1..n)) = Cardinality({d}) * Cardinality(1..n)
  BY <1>1, <1>2, FS_Product
<1> QED BY <1>1, <1>2, <1>3

\* The ticks that the calls of f claim, and those without the claims of d.
Units(f) == {u \in Dependencies \X (1..EstimatedDuration + Cap) : u[2] <= f[u[1]].claimed}
Others(f, d) == {u \in Units(f) : u[1] # d}

LEMMA ClaimedIsFinite ==
    ASSUME NEW f
    PROVE  IsFiniteSet(Units(f)) /\ Cardinality(Units(f)) \in Nat
<1> DEFINE S == Dependencies \X (1..EstimatedDuration + Cap)
<1>1. IsFiniteSet(1..EstimatedDuration + Cap)
  <2>1. EstimatedDuration + Cap \in Int /\ 1 \in Int
    BY DEF Parameters
  <2> QED BY <2>1, FS_Interval
<1>2. IsFiniteSet(S)
  BY <1>1, FS_Product DEF Parameters
<1>3. Units(f) \in SUBSET S
  BY DEF Units
<1>4. IsFiniteSet(Units(f))
  BY <1>2, <1>3, FS_Subset
<1> QED BY <1>4, FS_CardinalityType

LEMMA ClaimsSplit ==
    ASSUME NEW f \in [Dependencies -> Loop], NEW d \in Dependencies
    PROVE  /\ Cardinality(Units(f)) = Cardinality(Others(f, d)) + f[d].claimed
           /\ Cardinality(Others(f, d)) \in Nat /\ f[d].claimed \in Nat
<1> DEFINE n == f[d].claimed
           U == {d} \X (1..n)
<1>1. n \in 0..EstimatedDuration + Cap
  BY DEF Loop
<1>2. EstimatedDuration + Cap \in Nat
  BY DEF Parameters
<1>3. n \in Nat
  BY <1>1, <1>2
<1>4. IsFiniteSet(U) /\ Cardinality(U) = n
  BY <1>3, UnitsOfOne
<1>5. IsFiniteSet(Others(f, d)) /\ Cardinality(Others(f, d)) \in Nat
  <2>1. Others(f, d) \in SUBSET Units(f)
    BY DEF Others
  <2> QED BY <2>1, ClaimedIsFinite, FS_Subset, FS_CardinalityType
<1>6. Units(f) = Others(f, d) \cup U
  <2>1. ASSUME NEW u \in Units(f) PROVE u \in Others(f, d) \cup U
    <3>1. u \in Dependencies \X (1..EstimatedDuration + Cap) /\ u[2] <= f[u[1]].claimed
      BY DEF Units
    <3>2. CASE u[1] = d
      <4>1. u = <<d, u[2]>> /\ u[2] \in 1..n
        BY <1>1, <1>2, <3>1, <3>2
      <4> QED BY <4>1
    <3>3. CASE u[1] # d
      BY <3>3 DEF Others
    <3> QED BY <3>2, <3>3
  <2>2. ASSUME NEW i \in 1..n PROVE <<d, i>> \in Units(f)
    <3>1. i \in 1..EstimatedDuration + Cap /\ i <= n
      BY <1>1, <1>2
    <3> QED BY <3>1 DEF Units
  <2>3. Others(f, d) \subseteq Units(f)
    BY DEF Others
  <2>4. U \subseteq Units(f)
    BY <2>2
  <2> QED BY <2>1, <2>3, <2>4
<1>7. Others(f, d) \cap U = {}
  BY DEF Others
<1> HIDE DEF U, n
<1>8. Cardinality(Others(f, d) \cup U) = Cardinality(Others(f, d)) + Cardinality(U) - Cardinality(Others(f, d) \cap U)
  BY <1>4, <1>5, FS_Union
<1>9. Cardinality(Others(f, d) \cap U) = 0
  BY <1>7, FS_EmptySet
<1>10. Cardinality(Units(f)) = Cardinality(Others(f, d)) + n
  BY <1>3, <1>4, <1>5, <1>6, <1>8, <1>9
<1> QED BY <1>3, <1>5, <1>10 DEF n

LEMMA ClaimsAre ==
    Claims = Cardinality(Units(retry)) /\ Claims' = Cardinality(Units(retry'))
<1>1. Claims = Cardinality(Units(retry)) /\ Claims' = Cardinality(Units(retry'))
  BY DEF Claims, Claimed, Units
<1> QED BY <1>1

\* The claims, when those of one call change.
LEMMA ClaimsMove ==
    ASSUME BInv, NEW d \in Dependencies, retry' \in [Dependencies -> Loop],
           \A e \in Dependencies : e # d => retry'[e].claimed = retry[e].claimed
    PROVE  /\ Claims' = Claims - retry[d].claimed + retry'[d].claimed
           /\ Claims >= retry[d].claimed
           /\ Claims \in Nat /\ Claims' \in Nat /\ retry[d].claimed \in Nat /\ retry'[d].claimed \in Nat
<1>0. Parameters /\ retry \in [Dependencies -> Loop]
  BY DEF BInv, BudgetTypeOK
<1>1. Others(retry', d) = Others(retry, d)
  BY DEF Others, Units
<1> DEFINE f == retry
           g == retry'
           o == Cardinality(Others(retry, d))
<1>2. Claims = o + f[d].claimed /\ o \in Nat /\ f[d].claimed \in Nat
  BY <1>0, ClaimsSplit, ClaimsAre
<1>3. Claims' = o + g[d].claimed /\ g[d].claimed \in Nat
  BY <1>0, <1>1, ClaimsSplit, ClaimsAre
<1> HIDE DEF o
<1> QED BY <1>2, <1>3

\* They stand when no claim changes.
LEMMA ClaimsStand ==
    ASSUME retry \in [Dependencies -> Loop],
           \A e \in Dependencies : retry'[e].claimed = retry[e].claimed
    PROVE  Claims' = Claims
<1>1. Units(retry') = Units(retry)
  BY DEF Units
<1> QED BY <1>1, ClaimsAre

-----------------------------------------------------------------------------
(* Steps of one loop.                                                      *)

LEMMA Sizes ==
    /\ MaxAttempts \in Nat \ {0} /\ OpDeadline \in Nat \ {0} /\ EstimatedDuration \in Nat \ {0}
           /\ Base \in Nat \ {0} /\ Cap \in Nat \ {0} /\ Deadline \in Nat \ {0}
           /\ 0 \in 0..OpDeadline /\ 0 \in 0..Cap /\ 0 \in 0..MaxAttempts /\ 0 \in 0..EstimatedDuration + Cap
  BY DEF Parameters

Good(c) ==
    /\ c.stage \in {"reserving", "sleeping"} => c.attempt + 1 < MaxAttempts
    /\ c.stage = "attempting" => c.limit + c.elapsed <= OpDeadline
    /\ c.stage \notin {"sleeping", "start", "attempting", "answered"} => c.claimed = 0
    /\ c.attempt = 0 /\ c.stage # "sleeping" => c.claimed = 0

Unsized == ~budget.armed \/ \E d \in Dependencies : retry[d].stage = "sizing"

\* A call that fits into the state, when the exhaustion is reported or not.
Fits(c, reported) ==
    /\ Good(c) /\ c.stage # "sizing"
    /\ Unsized => c.attempt = 0 /\ c.claimed = 0 /\ c.stage \notin {"reserving", "sleeping"}
    /\ (c.stage = "evaluating" \/ c.denied) /\ ~budget.armed => left = 0
    /\ c.denied /\ budget.armed => reported

LEMMA OneChanges ==
    ASSUME NEW f \in [Dependencies -> Loop], NEW d \in Dependencies, NEW v \in Loop, NEW g, g = [f EXCEPT ![d] = v]
    PROVE  g \in [Dependencies -> Loop] /\ g[d] = v /\ \A e \in Dependencies : e # d => g[e] = f[e]
  OBVIOUS

LEMMA FitsAlready ==
    ASSUME BInv, NEW d \in Dependencies
    PROVE  /\ Good(retry[d]) /\ retry[d] \in Loop
           /\ Unsized => retry[d].attempt = 0 /\ retry[d].claimed = 0 /\ retry[d].stage \notin {"reserving", "sleeping"}
           /\ (retry[d].stage = "evaluating" \/ retry[d].denied) /\ ~budget.armed => left = 0
           /\ retry[d].denied /\ budget.armed => budget.reported
           /\ retry[d].stage = "sizing" => budget.armed
  BY DEF BInv, BudgetTypeOK, LoopIsSound, UnsizedIsEmpty, UnarmedIsLate, DenialIsReported, SizedByOne,
         Good, Unsized

\* A step of d that moves no money.
LEMMA QuietStep ==
    ASSUME BInv, NEW d \in Dependencies, UNCHANGED <<left, cancelled, books>>,
           budget' \in Budget, budget'.armed = budget.armed, budget'.balance = budget.balance,
           budget.reported => budget'.reported,
           NEW v \in Loop, retry' = [retry EXCEPT ![d] = v], v.claimed = retry[d].claimed,
           retry[d].stage # "sizing", Fits(v, budget'.reported)
    PROVE  BInv'
<1>0. retry \in [Dependencies -> Loop] /\ BudgetTypeOK
  BY DEF BInv, BudgetTypeOK
<1>1. retry' \in [Dependencies -> Loop] /\ retry'[d] = v /\ \A e \in Dependencies : e # d => retry'[e] = retry[e]
  BY <1>0, OneChanges
<1>2. \A e \in Dependencies : retry'[e].claimed = retry[e].claimed
  BY <1>1
<1>3. Claims' = Claims
  BY <1>0, <1>2, ClaimsStand
<1>4. BudgetTypeOK'
  BY <1>0, <1>1 DEF BudgetTypeOK
<1>5. LoopIsSound'
  BY <1>1 DEF BInv, LoopIsSound, Fits, Good
<1>6. Unsized' => Unsized
  BY <1>1 DEF Fits, Unsized
<1>7. UnsizedIsEmpty'
  BY <1>1, <1>6 DEF BInv, UnsizedIsEmpty, Unsized, Fits
<1>8. SizedByOne'
  BY <1>1 DEF BInv, SizedByOne, Fits
<1>9. UnarmedIsLate'
  BY <1>1 DEF BInv, UnarmedIsLate, Fits
<1>10. BalanceCovered' /\ Accounted'
  BY <1>3 DEF BInv, BalanceCovered, Accounted
<1>11. DenialIsReported'
  BY <1>1 DEF BInv, DenialIsReported, Fits
<1> QED BY <1>0, <1>4, <1>5, <1>7, <1>8, <1>9, <1>10, <1>11 DEF BInv

\* Min of the deadlines.
LEMMA EffectiveFacts ==
    ASSUME BInv
    PROVE  EffectiveDeadline \in Int /\ EffectiveDeadline <= OpDeadline
<1> DEFINE S == {OpDeadline, left} \cup IF Remaining > 0 THEN {Remaining - Base} ELSE {}
<1>1. OpDeadline \in Nat /\ left \in Nat /\ Base \in Nat /\ Remaining \in Nat
  BY Sizes DEF BInv, BudgetTypeOK, Budget, Remaining
<1>2. \E x \in S : \A y \in S : x =< y
  <2>1. CASE Remaining > 0
    <3> DEFINE r == Remaining - Base
    <3>1. S = {OpDeadline, left, r} /\ r \in Int
      BY <1>1, <2>1
    <3> HIDE DEF r, S
    <3>2. CASE OpDeadline =< left /\ OpDeadline =< r
      BY <1>1, <3>1, <3>2
    <3>3. CASE left =< OpDeadline /\ left =< r
      BY <1>1, <3>1, <3>3
    <3>4. CASE r =< OpDeadline /\ r =< left
      BY <1>1, <3>1, <3>4
    <3> QED BY <1>1, <3>1, <3>2, <3>3, <3>4
  <2>2. CASE ~(Remaining > 0)
    <3>1. S = {OpDeadline, left}
      BY <2>2
    <3> HIDE DEF S
    <3> QED BY <1>1, <3>1
  <2> QED BY <2>1, <2>2
<1>3. EffectiveDeadline = CHOOSE x \in S : \A y \in S : x =< y
  BY DEF EffectiveDeadline, Min
<1>4. EffectiveDeadline \in S /\ \A y \in S : EffectiveDeadline =< y
  BY <1>2, <1>3
<1>5. S \subseteq Int /\ OpDeadline \in S
  BY <1>1
<1> QED BY <1>4, <1>5

LEMMA AttemptKeeps ==
    ASSUME BInv, NEW d \in Dependencies, Attempt(d)
    PROVE  BInv'
<1>0. /\ retry[d] \in Loop /\ retry[d].stage \in {"idle", "start"} /\ Parameters
      /\ UNCHANGED <<left, cancelled, budget, books>> /\ budget \in Budget
  BY FitsAlready DEF Attempt, BInv, BudgetTypeOK
<1>1. CASE \E err \in Errors: retry' = [retry EXCEPT ![d].stage = "answered", ![d].outcome = err, ![d].elapsed = 0]
  <2>1. PICK err \in Errors : retry' = [retry EXCEPT ![d].stage = "answered", ![d].outcome = err, ![d].elapsed = 0]
    BY <1>1
  <2> DEFINE v == [retry[d] EXCEPT !.stage = "answered", !.outcome = err, !.elapsed = 0]
  <2>2. retry' = [retry EXCEPT ![d] = v]
    BY <2>1
  <2>3. /\ v \in Loop /\ v.stage = "answered" /\ v.claimed = retry[d].claimed /\ v.attempt = retry[d].attempt
        /\ v.denied = retry[d].denied
    BY <1>0, Sizes DEF Loop, Errors
  <2> HIDE DEF v
  <2>4. Fits(v, budget'.reported)
    BY <1>0, <2>3, FitsAlready DEF Fits, Good
  <2> QED BY <1>0, <2>2, <2>3, <2>4, QuietStep
<1>2. CASE /\ EffectiveDeadline > 0
           /\ retry' = [retry EXCEPT ![d].stage = "attempting", ![d].limit = EffectiveDeadline, ![d].elapsed = 0]
  <2> DEFINE l == EffectiveDeadline
             v == [retry[d] EXCEPT !.stage = "attempting", !.limit = l, !.elapsed = 0]
  <2>1. l \in 0..OpDeadline /\ l + 0 <= OpDeadline
    BY <1>0, <1>2, EffectiveFacts, Sizes
  <2>2. retry' = [retry EXCEPT ![d] = v]
    BY <1>2
  <2> HIDE DEF l
  <2>3. /\ v \in Loop /\ v.stage = "attempting" /\ v.claimed = retry[d].claimed /\ v.attempt = retry[d].attempt
        /\ v.denied = retry[d].denied /\ v.limit = l /\ v.elapsed = 0
    BY <1>0, <2>1, Sizes DEF Loop
  <2> HIDE DEF v
  <2>4. Fits(v, budget'.reported)
    BY <1>0, <2>1, <2>3, FitsAlready DEF Fits, Good
  <2> QED BY <1>0, <2>2, <2>3, <2>4, QuietStep
<1> QED BY <1>1, <1>2 DEF Attempt

LEMMA AnswerKeeps ==
    ASSUME BInv, NEW d \in Dependencies, Answer(d)
    PROVE  BInv'
<1>0. /\ retry[d] \in Loop /\ retry[d].stage = "attempting" /\ Parameters
      /\ UNCHANGED <<left, cancelled, budget, books>> /\ budget \in Budget
  BY FitsAlready DEF Answer, BInv, BudgetTypeOK
<1>1. PICK o \in Errors \cup {"ok"} :
         retry' = [retry EXCEPT ![d].stage = "answered", ![d].outcome = o, ![d].limit = 0]
  BY DEF Answer
<1> DEFINE v == [retry[d] EXCEPT !.stage = "answered", !.outcome = o, !.limit = 0]
<1>2. retry' = [retry EXCEPT ![d] = v]
  BY <1>1
<1>3. /\ v \in Loop /\ v.stage = "answered" /\ v.claimed = retry[d].claimed /\ v.attempt = retry[d].attempt
      /\ v.denied = retry[d].denied
  BY <1>0, Sizes DEF Loop, Errors
<1> HIDE DEF v
<1>4. Fits(v, budget'.reported)
  BY <1>0, <1>3, FitsAlready DEF Fits, Good
<1> QED BY <1>0, <1>2, <1>3, <1>4, QuietStep

LEMMA WakeKeeps ==
    ASSUME BInv, NEW d \in Dependencies, Wake(d)
    PROVE  BInv'
<1>0. /\ retry[d] \in Loop /\ retry[d].stage = "sleeping" /\ Parameters
      /\ UNCHANGED <<left, cancelled, budget, books>> /\ budget \in Budget
  BY FitsAlready DEF Wake, BInv, BudgetTypeOK
<1> DEFINE n == retry[d].attempt + 1
           v == [retry[d] EXCEPT !.stage = "start", !.attempt = n, !.outcome = "none"]
<1>1. n \in 0..MaxAttempts /\ n # 0
  <2>1. retry[d].attempt + 1 < MaxAttempts /\ retry[d].attempt \in 0..MaxAttempts
    BY <1>0, FitsAlready DEF Good, Loop
  <2> QED BY <1>0, <2>1, Sizes
<1>2. retry' = [retry EXCEPT ![d] = v]
  BY DEF Wake
<1> HIDE DEF n
<1>3. /\ v \in Loop /\ v.stage = "start" /\ v.claimed = retry[d].claimed /\ v.attempt = n
      /\ v.denied = retry[d].denied
  BY <1>0, <1>1 DEF Loop
<1> HIDE DEF v
<1>4. Fits(v, budget'.reported)
  BY <1>0, <1>1, <1>3, FitsAlready DEF Fits, Good
<1> QED BY <1>0, <1>2, <1>3, <1>4, QuietStep

\* The arithmetic of a step that moves money.
LEMMA MoneyIsKept ==
    ASSUME NEW sized \in Nat, NEW owed \in Nat, NEW owed2 \in Nat, NEW bal \in Nat, NEW bal2 \in Nat,
           NEW spent \in Nat, NEW spent2 \in Nat, NEW lost \in Nat, NEW lost2 \in Nat,
           NEW claims \in Nat, NEW claims2 \in Nat, NEW c \in Nat, NEW c2 \in Nat,
           sized + owed = bal + claims + spent + lost, bal + claims <= sized,
           claims2 = claims - c + c2, bal2 + c2 <= bal + c,
           owed2 + bal + c + spent + lost = owed + bal2 + c2 + spent2 + lost2
    PROVE  sized + owed2 = bal2 + claims2 + spent2 + lost2 /\ bal2 + claims2 <= sized
  OBVIOUS

\* A step of d that moves money, once the budget has its amount.
LEMMA MoneyStep ==
    ASSUME BInv, ~Unsized, NEW d \in Dependencies, UNCHANGED <<left, cancelled>>,
           budget' \in Budget, budget'.armed = budget.armed, budget.reported => budget'.reported,
           books' \in Books, books'.sized = books.sized,
           NEW v \in Loop, retry' = [retry EXCEPT ![d] = v], Fits(v, budget'.reported),
           budget'.balance + v.claimed <= budget.balance + retry[d].claimed,
           books'.owed + budget.balance + retry[d].claimed + books.spent + books.lost
             = books.owed + budget'.balance + v.claimed + books'.spent + books'.lost
    PROVE  BInv'
<1>0. retry \in [Dependencies -> Loop] /\ Parameters /\ BudgetTypeOK /\ books \in Books /\ budget \in Budget
  BY DEF BInv, BudgetTypeOK
<1>1. retry' \in [Dependencies -> Loop] /\ retry'[d] = v /\ \A e \in Dependencies : e # d => retry'[e] = retry[e]
  BY <1>0, OneChanges
<1>2. BudgetTypeOK'
  BY <1>0, <1>1 DEF BudgetTypeOK
<1>3. LoopIsSound'
  BY <1>1 DEF BInv, LoopIsSound, Fits, Good
<1>4. ~Unsized'
  BY <1>1 DEF Fits, Unsized
<1>5. UnsizedIsEmpty'
  BY <1>4 DEF UnsizedIsEmpty, Unsized
<1>6. SizedByOne'
  BY <1>4 DEF SizedByOne, Unsized
<1>7. UnarmedIsLate'
  BY <1>4 DEF UnarmedIsLate, Unsized
<1>8. DenialIsReported'
  BY <1>1 DEF BInv, DenialIsReported, Fits
<1>10. BalanceCovered' /\ Accounted'
  <2>1. /\ Claims' = Claims - retry[d].claimed + v.claimed
        /\ Claims \in Nat /\ Claims' \in Nat /\ retry[d].claimed \in Nat /\ v.claimed \in Nat
    BY <1>1, ClaimsMove
  <2>2. /\ books.sized \in Nat /\ books.spent \in Nat /\ books.lost \in Nat /\ books.owed \in Nat
        /\ books'.spent \in Nat /\ books'.lost \in Nat /\ books'.owed \in Nat
        /\ budget.balance \in Nat /\ budget'.balance \in Nat
    BY <1>0 DEF Books, Budget
  <2>3. /\ budget.balance + Claims <= books.sized
        /\ books.sized + books.owed = budget.balance + Claims + books.spent + books.lost
    BY DEF BInv, BalanceCovered, Accounted
  <2>4. /\ books.sized + books'.owed = budget'.balance + Claims' + books'.spent + books'.lost
        /\ budget'.balance + Claims' <= books.sized
    BY <2>1, <2>2, <2>3, MoneyIsKept
  <2> QED BY <2>4 DEF BalanceCovered, Accounted
<1> QED BY <1>0, <1>2, <1>3, <1>5, <1>6, <1>7, <1>8, <1>10 DEF BInv

\* A refusal is over, and reported.
LEMMA RefusalKeeps ==
    ASSUME BInv, NEW d \in Dependencies, UNCHANGED <<left, cancelled, books>>,
           retry[d].stage \in {"evaluating", "reserving"}, retry' = Over(d, TRUE), budget' = Reported
    PROVE  BInv'
<1>0. retry[d] \in Loop /\ Parameters /\ budget \in Budget /\ retry[d].claimed = 0 /\ TRUE \in BOOLEAN
  BY FitsAlready DEF BInv, BudgetTypeOK, Good
<1> DEFINE p == budget.reported \/ budget.armed
           v == [retry[d] EXCEPT !.stage = "over", !.wait = 0, !.denied = TRUE]
<1>1. \A q \in BOOLEAN : LET b == [budget EXCEPT !.reported = q]
                         IN  b \in Budget /\ b.armed = budget.armed /\ b.balance = budget.balance /\ b.reported = q
  BY <1>0 DEF Budget
<1>2. p \in BOOLEAN /\ budget' = [budget EXCEPT !.reported = p]
  BY <1>0 DEF Budget, Reported
<1>3. /\ budget' \in Budget /\ budget'.armed = budget.armed /\ budget'.balance = budget.balance
      /\ budget'.reported = p
  BY <1>1, <1>2
<1>4. retry' = [retry EXCEPT ![d] = v]
  BY DEF Over
<1>5. v \in Loop /\ v.stage = "over" /\ v.claimed = retry[d].claimed /\ v.attempt = retry[d].attempt /\ v.denied
  BY <1>0, Sizes DEF Loop
<1> HIDE DEF v
<1>6. ~budget.armed => left = 0
  BY FitsAlready DEF Unsized
<1>7. Fits(v, budget'.reported)
  BY <1>0, <1>3, <1>5, <1>6, FitsAlready DEF Fits, Good
<1> QED BY <1>0, <1>3, <1>4, <1>5, <1>7, QuietStep

LEMMA EvaluateKeeps ==
    ASSUME BInv, NEW d \in Dependencies, Evaluate(d)
    PROVE  BInv'
<1>0. /\ retry[d] \in Loop /\ retry[d].stage = "evaluating" /\ Parameters
      /\ UNCHANGED <<left, cancelled, books>> /\ budget \in Budget
      /\ retry[d].attempt \in 0..MaxAttempts /\ retry[d].claimed = 0
  BY FitsAlready DEF Evaluate, BInv, BudgetTypeOK, Loop, Good
<1>1. PICK wait \in Waits(retry[d].attempt) :
         LET need == EstimatedDuration + wait
             candidate == retry[d].attempt + 1 < MaxAttempts /\ retry[d].outcome = "retryable"
         IN  \/ retry' = Over(d, FALSE) /\ UNCHANGED budget
             \/ retry' = Over(d, TRUE) /\ budget' = Reported
             \/ /\ candidate /\ Remaining >= need
                /\ retry' = [retry EXCEPT ![d].stage = "reserving", ![d].wait = wait]
                /\ UNCHANGED budget
  BY DEF Evaluate
<1>2. wait \in 0..Cap
  BY DEF Waits
<1>4. CASE retry' = Over(d, FALSE) /\ UNCHANGED budget
  <2> DEFINE v == [retry[d] EXCEPT !.stage = "over", !.wait = 0, !.denied = FALSE]
  <2>1. retry' = [retry EXCEPT ![d] = v]
    BY <1>4 DEF Over
  <2>2. v \in Loop /\ v.stage = "over" /\ v.claimed = retry[d].claimed /\ v.attempt = retry[d].attempt /\ ~v.denied
    BY <1>0, Sizes DEF Loop
  <2> HIDE DEF v
  <2>3. Fits(v, budget'.reported)
    BY <1>0, <2>2, FitsAlready DEF Fits, Good
  <2> QED BY <1>0, <1>4, <2>1, <2>2, <2>3, QuietStep
<1>5. CASE retry' = Over(d, TRUE) /\ budget' = Reported
  BY <1>0, <1>5, RefusalKeeps
<1>6. CASE /\ retry[d].attempt + 1 < MaxAttempts /\ Remaining >= EstimatedDuration + wait
           /\ retry' = [retry EXCEPT ![d].stage = "reserving", ![d].wait = wait]
           /\ UNCHANGED budget
  <2> DEFINE v == [retry[d] EXCEPT !.stage = "reserving", !.wait = wait]
  <2>1. retry' = [retry EXCEPT ![d] = v]
    BY <1>6
  <2>2. /\ v \in Loop /\ v.stage = "reserving" /\ v.claimed = retry[d].claimed /\ v.attempt = retry[d].attempt
        /\ v.denied = retry[d].denied
    BY <1>0, <1>2 DEF Loop
  <2>3. ~Unsized
    <3>1. Remaining # 0
      BY <1>0, <1>2, <1>6, Sizes
    <3>2. Unsized => budget.balance = 0
      BY DEF BInv, UnsizedIsEmpty, Unsized
    <3> QED BY <3>1, <3>2 DEF Remaining
  <2> HIDE DEF v
  <2>4. Fits(v, budget'.reported)
    BY <1>0, <1>6, <2>2, <2>3, FitsAlready DEF Fits, Good
  <2> QED BY <1>0, <1>6, <2>1, <2>2, <2>4, QuietStep
<1> QED BY <1>1, <1>4, <1>5, <1>6

LEMMA SettledFacts ==
    ASSUME NEW n \in Int
    PROVE  Max({n, 0}) = IF n > 0 THEN n ELSE 0
<1>1. Max({n, 0}) = CHOOSE x \in {n, 0} : \A y \in {n, 0} : x >= y
  BY DEF Max
<1>2. CASE n > 0
  BY <1>1, <1>2
<1>3. CASE ~(n > 0)
  BY <1>1, <1>3
<1> QED BY <1>2, <1>3

LEMMA SettleKeeps ==
    ASSUME BInv, NEW d \in Dependencies, Settle(d)
    PROVE  BInv'
<1>0. /\ retry[d] \in Loop /\ retry[d].stage = "answered" /\ Parameters /\ Good(retry[d])
      /\ UNCHANGED <<left, cancelled>> /\ budget \in Budget /\ books \in Books
  BY FitsAlready DEF Settle, BInv, BudgetTypeOK
<1> DEFINE s == IF retry[d].outcome = "ok" THEN "over" ELSE "failed"
           v == [retry[d] EXCEPT !.stage = s, !.claimed = 0, !.wait = 0, !.elapsed = 0]
           actual == retry[d].wait + retry[d].elapsed
           c == retry[d].claimed
           n == budget.balance + c - actual
           m == Max({n, 0})
<1>1. retry' = [retry EXCEPT ![d] = v]
  BY DEF Settle
<1>2. s \in {"over", "failed"}
  OBVIOUS
<1> HIDE DEF s
<1>3. /\ v \in Loop /\ v.stage = s /\ v.claimed = 0 /\ v.attempt = retry[d].attempt
      /\ v.denied = retry[d].denied
  BY <1>0, <1>2, Sizes DEF Loop
<1> HIDE DEF v
<1>4. Fits(v, budget.reported)
  BY <1>0, <1>2, <1>3, FitsAlready DEF Fits, Good
<1>5. CASE retry[d].attempt = 0
  <2>1. budget' = budget /\ books' = books
    BY <1>5 DEF Settle
  <2>2. retry[d].claimed = 0
    BY <1>0, <1>5 DEF Good
  <2> QED BY <1>0, <1>1, <1>3, <1>4, <2>1, <2>2, QuietStep
<1>6. CASE retry[d].attempt # 0
  <2>1. ~Unsized
    BY <1>6, FitsAlready
  <2>2. /\ retry[d].wait \in 0..Cap /\ retry[d].elapsed \in 0..OpDeadline
        /\ c \in 0..EstimatedDuration + Cap /\ budget.balance \in Nat
        /\ books.spent \in Nat /\ books.owed \in Nat /\ books.sized \in Nat /\ books.lost \in Nat
    BY <1>0 DEF Loop, Budget, Books
  <2>3. actual \in Nat /\ c \in Nat
    BY <1>0, <2>2, Sizes
  <2>4. /\ budget' = [budget EXCEPT !.balance = m]
        /\ books' = [books EXCEPT !.spent = books.spent + actual,
                                  !.owed = books.owed + budget'.balance - n]
    BY <1>6 DEF Settle, Settled
  <2> HIDE DEF actual, c
  <2>5. n \in Int /\ n <= budget.balance + c
    BY <2>2, <2>3
  <2>6. m \in Nat /\ m >= n /\ m <= budget.balance + c
    <3>1. m = IF n > 0 THEN n ELSE 0
      BY <2>5, SettledFacts
    <3> QED BY <2>2, <2>3, <2>5, <3>1
  <2> HIDE DEF m
  <2>7. /\ budget' \in Budget /\ budget'.balance = m /\ budget'.armed = budget.armed
        /\ budget'.reported = budget.reported
    BY <1>0, <2>4, <2>6 DEF Budget
  <2> DEFINE sp == books.spent + actual
             ow == books.owed + m - n
  <2>8. sp \in Nat /\ ow \in Nat
    BY <2>2, <2>3, <2>5, <2>6
  <2>9. books' = [books EXCEPT !.spent = sp, !.owed = ow]
    BY <2>4, <2>7
  <2>10. ow + budget.balance + c + books.spent + books.lost = books.owed + m + 0 + sp + books.lost
    BY <2>2, <2>3, <2>6
  <2> HIDE DEF sp, ow
  <2>11. /\ books' \in Books /\ books'.spent = sp /\ books'.owed = ow /\ books'.sized = books.sized
         /\ books'.lost = books.lost
    BY <1>0, <2>8, <2>9 DEF Books
  <2>12. budget'.balance + v.claimed <= budget.balance + retry[d].claimed
    BY <1>3, <2>2, <2>3, <2>6, <2>7 DEF c
  <2>13. books'.owed + budget.balance + retry[d].claimed + books.spent + books.lost
             = books.owed + budget'.balance + v.claimed + books'.spent + books'.lost
    BY <1>3, <2>7, <2>10, <2>11 DEF c
  <2> QED BY <1>0, <1>1, <1>3, <1>4, <2>1, <2>7, <2>11, <2>12, <2>13, MoneyStep
<1> QED BY <1>5, <1>6

LEMMA ReserveKeeps ==
    ASSUME BInv, NEW d \in Dependencies, Reserve(d)
    PROVE  BInv'
<1>0. /\ retry[d] \in Loop /\ retry[d].stage = "reserving" /\ Parameters /\ Good(retry[d])
      /\ UNCHANGED <<left, cancelled, books>> /\ budget \in Budget /\ books \in Books
  BY FitsAlready DEF Reserve, BInv, BudgetTypeOK
<1> DEFINE need == EstimatedDuration + retry[d].wait
<1>1. CASE retry' = Over(d, TRUE) /\ budget' = Reported
  BY <1>0, <1>1, RefusalKeeps
<1>2. CASE /\ budget.balance >= need
           /\ budget' = [budget EXCEPT !.balance = @ - need]
           /\ retry' = [retry EXCEPT ![d].stage = "sleeping", ![d].claimed = need, ![d].timer = retry[d].wait]
  <2> DEFINE v == [retry[d] EXCEPT !.stage = "sleeping", !.claimed = need, !.timer = retry[d].wait]
             m == budget.balance - need
  <2>1. ~Unsized
    BY <1>0, FitsAlready
  <2>2. retry[d].wait \in 0..Cap /\ budget.balance \in Nat /\ retry[d].claimed = 0 /\ retry[d].attempt + 1 < MaxAttempts
    BY <1>0 DEF Loop, Budget, Good
  <2>3. need \in 0..EstimatedDuration + Cap /\ need \in Nat /\ m \in Nat
    BY <1>0, <1>2, <2>2, Sizes
  <2>4. retry' = [retry EXCEPT ![d] = v] /\ budget' = [budget EXCEPT !.balance = m]
    BY <1>2
  <2>5. m + need = budget.balance
    BY <2>2, <2>3
  <2> HIDE DEF need, m
  <2>6. /\ v \in Loop /\ v.stage = "sleeping" /\ v.claimed = need /\ v.attempt = retry[d].attempt
        /\ v.denied = retry[d].denied
    BY <1>0, <2>2, <2>3 DEF Loop
  <2> HIDE DEF v
  <2>7. /\ budget' \in Budget /\ budget'.balance = m /\ budget'.armed = budget.armed
        /\ budget'.reported = budget.reported
    BY <1>0, <2>3, <2>4 DEF Budget
  <2>8. Fits(v, budget'.reported)
    BY <1>0, <2>1, <2>2, <2>6, <2>7, FitsAlready DEF Fits, Good
  <2>9. /\ books.owed \in Nat /\ books.spent \in Nat /\ books.lost \in Nat
    BY <1>0 DEF Books
  <2>10. /\ budget'.balance + v.claimed <= budget.balance + retry[d].claimed
         /\ books.owed + budget.balance + retry[d].claimed + books.spent + books.lost
              = books.owed + budget'.balance + v.claimed + books.spent + books.lost
    BY <2>2, <2>3, <2>5, <2>6, <2>7, <2>9
  <2> QED BY <1>0, <2>1, <2>4, <2>6, <2>7, <2>8, <2>10, MoneyStep
<1> QED BY <1>1, <1>2 DEF Reserve

LEMMA WakeCutKeeps ==
    ASSUME BInv, NEW d \in Dependencies, WakeCut(d)
    PROVE  BInv'
<1>0. /\ retry[d] \in Loop /\ retry[d].stage = "sleeping" /\ Parameters
      /\ UNCHANGED <<left, cancelled, budget>> /\ budget \in Budget /\ books \in Books
  BY FitsAlready DEF WakeCut, BInv, BudgetTypeOK
<1> DEFINE v == [retry[d] EXCEPT !.stage = "over", !.claimed = 0, !.wait = 0, !.timer = 0]
           c == retry[d].claimed
           l == books.lost + c
<1>1. retry' = [retry EXCEPT ![d] = v] /\ books' = [books EXCEPT !.lost = l]
  BY DEF WakeCut
<1>2. v \in Loop /\ v.stage = "over" /\ v.claimed = 0 /\ v.attempt = retry[d].attempt /\ v.denied = retry[d].denied
  BY <1>0, Sizes DEF Loop
<1> HIDE DEF v
<1>3. ~Unsized
  BY <1>0, FitsAlready
<1>4. Fits(v, budget'.reported)
  BY <1>0, <1>2, FitsAlready DEF Fits, Good
<1>5. /\ c \in 0..EstimatedDuration + Cap /\ books.lost \in Nat /\ books.owed \in Nat /\ books.spent \in Nat
      /\ budget.balance \in Nat
  BY <1>0 DEF Loop, Books, Budget
<1>6. c \in Nat
  BY <1>0, <1>5, Sizes
<1>7. l \in Nat
  BY <1>5, <1>6
<1>8. books' \in Books /\ books'.lost = l /\ books'.sized = books.sized /\ books'.spent = books.spent /\ books'.owed = books.owed
  BY <1>0, <1>1, <1>7 DEF Books
<1>9. /\ budget'.balance + v.claimed <= budget.balance + c
      /\ books'.owed + budget.balance + c + books.spent + books.lost
           = books.owed + budget'.balance + v.claimed + books'.spent + books'.lost
  BY <1>0, <1>2, <1>5, <1>6, <1>8
<1> QED BY <1>0, <1>1, <1>2, <1>3, <1>4, <1>8, <1>9, MoneyStep

LEMMA ArmKeeps ==
    ASSUME BInv, NEW d \in Dependencies, Arm(d)
    PROVE  BInv'
<1>0. /\ retry[d] \in Loop /\ retry[d].stage = "failed" /\ Parameters /\ Good(retry[d])
      /\ UNCHANGED <<left, cancelled, books>> /\ budget \in Budget /\ BudgetTypeOK /\ retry \in [Dependencies -> Loop]
  BY FitsAlready DEF Arm, BInv, BudgetTypeOK
<1>1. CASE /\ left <= 0 \/ budget.armed
           /\ retry' = [retry EXCEPT ![d].stage = "evaluating"]
           /\ UNCHANGED budget
  <2> DEFINE v == [retry[d] EXCEPT !.stage = "evaluating"]
  <2>1. retry' = [retry EXCEPT ![d] = v]
    BY <1>1
  <2>2. /\ v \in Loop /\ v.stage = "evaluating" /\ v.claimed = retry[d].claimed /\ v.attempt = retry[d].attempt
        /\ v.denied = retry[d].denied
    BY <1>0 DEF Loop
  <2> HIDE DEF v
  <2>3. ~budget.armed => left = 0
    BY <1>0, <1>1, Sizes DEF BudgetTypeOK
  <2>4. Fits(v, budget'.reported)
    BY <1>0, <1>1, <2>2, <2>3, FitsAlready DEF Fits, Good
  <2> QED BY <1>0, <1>1, <2>1, <2>2, <2>4, QuietStep
<1>2. CASE /\ left > 0 /\ ~budget.armed
           /\ budget' = [budget EXCEPT !.armed = TRUE]
           /\ retry' = [retry EXCEPT ![d].stage = "sizing", ![d].amount = left \div 2]
  <2> DEFINE a == left \div 2
             v == [retry[d] EXCEPT !.stage = "sizing", !.amount = a]
  <2>1. retry' = [retry EXCEPT ![d] = v]
    BY <1>2
  <2>2. a \in Nat /\ left \in Nat
    BY <1>0, Sizes DEF BudgetTypeOK
  <2> HIDE DEF a
  <2>3. /\ v \in Loop /\ v.stage = "sizing" /\ v.claimed = retry[d].claimed /\ v.attempt = retry[d].attempt
        /\ v.denied = retry[d].denied
    BY <1>0, <2>2 DEF Loop
  <2> HIDE DEF v
  <2>4. retry' \in [Dependencies -> Loop] /\ retry'[d] = v /\ \A e \in Dependencies : e # d => retry'[e] = retry[e]
    BY <1>0, <2>1, <2>3, OneChanges
  <2>5. /\ budget' \in Budget /\ budget'.armed /\ budget'.balance = budget.balance
        /\ budget'.reported = budget.reported
    BY <1>0, <1>2 DEF Budget
  <2>6. \A e \in Dependencies : ~retry[e].denied /\ retry[e].stage # "sizing"
    BY <1>2, <2>2, FitsAlready
  <2>7. Claims' = Claims
    <3>1. \A e \in Dependencies : retry'[e].claimed = retry[e].claimed
      BY <2>3, <2>4
    <3> QED BY <1>0, <3>1, ClaimsStand
  <2>8. BudgetTypeOK'
    BY <1>0, <2>4, <2>5 DEF BudgetTypeOK
  <2>9. LoopIsSound'
    BY <1>0, <2>3, <2>4 DEF BInv, LoopIsSound, Good
  <2>10. UnsizedIsEmpty'
    <3>1. Unsized
      BY <1>2 DEF Unsized
    <3>2. /\ books.sized = 0 /\ books.spent = 0 /\ books.lost = 0 /\ books.owed = 0
          /\ budget.balance = 0
      BY <3>1 DEF BInv, UnsizedIsEmpty, Unsized
    <3>3. \A e \in Dependencies : retry[e].attempt = 0 /\ retry[e].claimed = 0 /\ retry[e].stage \notin {"reserving", "sleeping"}
      BY <3>1, FitsAlready
    <3>4. \A e \in Dependencies : retry'[e].attempt = 0 /\ retry'[e].claimed = 0 /\ retry'[e].stage \notin {"reserving", "sleeping"}
      BY <2>3, <2>4, <3>3
    <3> QED BY <1>0, <2>5, <3>2, <3>4 DEF UnsizedIsEmpty
  <2>11. SizedByOne'
    BY <2>4, <2>5, <2>6 DEF SizedByOne
  <2>12. UnarmedIsLate'
    BY <2>5 DEF UnarmedIsLate
  <2>13. BalanceCovered' /\ Accounted'
    BY <1>0, <2>5, <2>7 DEF BInv, BalanceCovered, Accounted
  <2>14. DenialIsReported'
    BY <2>3, <2>4, <2>6 DEF DenialIsReported
  <2> QED BY <1>0, <2>8, <2>9, <2>10, <2>11, <2>12, <2>13, <2>14 DEF BInv
<1> QED BY <1>1, <1>2 DEF Arm

LEMMA SizeKeeps ==
    ASSUME BInv, NEW d \in Dependencies, Size(d)
    PROVE  BInv'
<1>0. /\ retry[d] \in Loop /\ retry[d].stage = "sizing" /\ Parameters /\ Good(retry[d])
      /\ UNCHANGED <<left, cancelled>> /\ budget \in Budget /\ books \in Books /\ BudgetTypeOK
      /\ retry \in [Dependencies -> Loop] /\ budget.armed
  BY FitsAlready DEF Size, BInv, BudgetTypeOK
<1> DEFINE a == retry[d].amount
           v == [retry[d] EXCEPT !.stage = "evaluating", !.amount = 0]
<1>1. /\ retry' = [retry EXCEPT ![d] = v] /\ budget' = [budget EXCEPT !.balance = a]
      /\ books' = [books EXCEPT !.sized = a]
  BY DEF Size
<1>2. a \in Nat
  BY <1>0 DEF Loop
<1>3. /\ v \in Loop /\ v.stage = "evaluating" /\ v.claimed = retry[d].claimed /\ v.attempt = retry[d].attempt
      /\ v.denied = retry[d].denied
  BY <1>0 DEF Loop
<1> HIDE DEF v, a
<1>4. retry' \in [Dependencies -> Loop] /\ retry'[d] = v /\ \A e \in Dependencies : e # d => retry'[e] = retry[e]
  BY <1>0, <1>1, <1>3, OneChanges
<1>5. budget' \in Budget /\ budget'.armed /\ budget'.balance = a /\ budget'.reported = budget.reported
  BY <1>0, <1>1, <1>2 DEF Budget
<1>6. /\ books' \in Books /\ books'.sized = a /\ books'.spent = books.spent /\ books'.owed = books.owed
      /\ books'.lost = books.lost
  BY <1>0, <1>1, <1>2 DEF Books
<1>7. \A e \in Dependencies : retry[e].stage = "sizing" => e = d
  BY <1>0 DEF BInv, SizedByOne
<1>8. ~Unsized'
  BY <1>3, <1>4, <1>5, <1>7 DEF Unsized
<1>9. Claims' = Claims /\ Claims \in Nat
  <2>1. \A e \in Dependencies : retry'[e].claimed = retry[e].claimed
    BY <1>3, <1>4
  <2> QED BY <1>0, <2>1, ClaimsStand, ClaimsAre, ClaimedIsFinite
<1>10. BalanceCovered' /\ Accounted'
  <2>1. budget.balance = 0 /\ books.sized = 0 /\ books.spent = 0 /\ books.lost = 0 /\ books.owed = 0
    BY <1>0 DEF BInv, UnsizedIsEmpty
  <2>2. books.sized + books.owed = budget.balance + Claims + books.spent + books.lost
    BY DEF BInv, Accounted
  <2>3. Claims = 0
    BY <1>9, <2>1, <2>2
  <2>4. /\ budget'.balance + Claims' <= books'.sized
        /\ books'.sized + books'.owed = budget'.balance + Claims' + books'.spent + books'.lost
    BY <1>2, <1>5, <1>6, <1>9, <2>1, <2>3
  <2> QED BY <2>4 DEF BalanceCovered, Accounted
<1>11. BudgetTypeOK'
  BY <1>0, <1>4, <1>5, <1>6 DEF BudgetTypeOK
<1>12. LoopIsSound'
  BY <1>0, <1>3, <1>4 DEF BInv, LoopIsSound, Good
<1>13. UnsizedIsEmpty' /\ SizedByOne' /\ UnarmedIsLate'
  BY <1>8 DEF UnsizedIsEmpty, SizedByOne, UnarmedIsLate, Unsized
<1>14. DenialIsReported'
  BY <1>0, <1>3, <1>4, <1>5 DEF BInv, DenialIsReported
<1> QED BY <1>0, <1>10, <1>11, <1>12, <1>13, <1>14 DEF BInv

LEMMA CancelKeeps ==
    ASSUME BInv, Cancel
    PROVE  BInv'
<1>1. UNCHANGED <<left, budget, retry, books>> /\ cancelled' \in BOOLEAN
  BY DEF Cancel
<1>2. Claims' = Claims
  BY <1>1 DEF Claims, Claimed
<1> QED BY <1>1, <1>2 DEF BInv, BudgetTypeOK, LoopIsSound, UnsizedIsEmpty, SizedByOne, UnarmedIsLate,
                          BalanceCovered, Accounted, DenialIsReported

LEMMA RetryTickKeeps ==
    ASSUME BInv, BudgetTick
    PROVE  BInv'
<1>0. /\ Parameters /\ BudgetTypeOK /\ retry \in [Dependencies -> Loop] /\ left \in 0..Deadline /\ left > 0 /\ left' = left - 1
      /\ UNCHANGED <<cancelled, budget, books>> /\ left \in Nat
  <2>1. Parameters /\ BudgetTypeOK /\ retry \in [Dependencies -> Loop] /\ left \in 0..Deadline
    BY DEF BInv, BudgetTypeOK
  <2>2. left > 0 /\ left' = left - 1 /\ UNCHANGED <<cancelled, budget, books>>
    BY Zenon DEF BudgetTick
  <2> QED BY <2>1, <2>2, Sizes
<1>due. \A d \in Dependencies :
          \/ retry[d].stage \in {"idle", "over"}
          \/ retry[d].stage = "attempting" /\ retry[d].limit > 0
          \/ retry[d].stage = "sleeping" /\ retry[d].timer > 0
  BY Zenon DEF BudgetTick
<1> DEFINE Ticked(d) == IF retry[d].stage = "attempting" THEN [retry[d] EXCEPT !.limit = @ - 1, !.elapsed = @ + 1]
                        ELSE IF retry[d].stage = "sleeping" THEN [retry[d] EXCEPT !.timer = @ - 1] ELSE retry[d]
<1>1. retry' = [d \in Dependencies |-> Ticked(d)]
  BY DEF BudgetTick
<1>2. ASSUME NEW d \in Dependencies
      PROVE  /\ Ticked(d) \in Loop /\ Ticked(d).stage = retry[d].stage /\ Ticked(d).attempt = retry[d].attempt
             /\ Ticked(d).claimed = retry[d].claimed /\ Ticked(d).denied = retry[d].denied
             /\ retry[d].stage = "attempting" => Ticked(d).limit + Ticked(d).elapsed <= OpDeadline
  <2>0. retry[d] \in Loop /\ Good(retry[d])
    BY FitsAlready
  <2>1. CASE retry[d].stage = "attempting"
    <3> DEFINE l == retry[d].limit - 1
               e == retry[d].elapsed + 1
    <3>1. /\ retry[d].limit > 0 /\ retry[d].limit + retry[d].elapsed <= OpDeadline
          /\ retry[d].limit \in 0..OpDeadline /\ retry[d].elapsed \in 0..OpDeadline
      BY <1>due, <2>0, <2>1 DEF Good, Loop
    <3>2. l \in 0..OpDeadline /\ e \in 0..OpDeadline /\ l + e <= OpDeadline
      BY <1>0, <3>1, Sizes
    <3>3. Ticked(d) = [retry[d] EXCEPT !.limit = l, !.elapsed = e]
      BY <2>1
    <3> HIDE DEF l, e, Ticked
    <3> QED BY <2>0, <2>1, <3>2, <3>3 DEF Loop
  <2>2. CASE retry[d].stage = "sleeping"
    <3> DEFINE t == retry[d].timer - 1
    <3>1. retry[d].timer > 0 /\ retry[d].timer \in 0..Cap
      BY <1>due, <2>0, <2>2 DEF Loop
    <3>2. t \in 0..Cap
      BY <1>0, <3>1, Sizes
    <3>3. Ticked(d) = [retry[d] EXCEPT !.timer = t]
      BY <2>2
    <3> HIDE DEF t, Ticked
    <3> QED BY <2>0, <2>2, <3>2, <3>3 DEF Loop
  <2>3. CASE retry[d].stage \notin {"attempting", "sleeping"}
    <3>1. Ticked(d) = retry[d]
      BY <2>3
    <3> HIDE DEF Ticked
    <3> QED BY <2>0, <2>3, <3>1
  <2> QED BY <2>1, <2>2, <2>3
<1> HIDE DEF Ticked
<1>3. \A d \in Dependencies : retry'[d] = Ticked(d)
  BY <1>1
<1>4. retry' \in [Dependencies -> Loop]
  BY <1>1, <1>2
<1>5. Claims' = Claims
  <2>1. \A e \in Dependencies : retry'[e].claimed = retry[e].claimed
    BY <1>2, <1>3
  <2> QED BY <1>0, <2>1, ClaimsStand
<1>6. BudgetTypeOK'
  <2>1. left' \in 0..Deadline
    BY <1>0, Sizes
  <2> QED BY <1>0, <1>4, <2>1 DEF BudgetTypeOK
<1>7. LoopIsSound'
  BY <1>2, <1>3 DEF BInv, LoopIsSound
<1>8. UnsizedIsEmpty'
  BY <1>0, <1>2, <1>3 DEF BInv, UnsizedIsEmpty
<1>9. SizedByOne'
  BY <1>0, <1>2, <1>3 DEF BInv, SizedByOne
<1>10. UnarmedIsLate'
  <2>1. \A d \in Dependencies : retry[d].stage # "evaluating" /\ (retry[d].denied => budget.armed)
    BY <1>0, <1>due, FitsAlready
  <2> QED BY <1>0, <1>2, <1>3, <2>1 DEF UnarmedIsLate
<1>11. BalanceCovered' /\ Accounted'
  BY <1>0, <1>5 DEF BInv, BalanceCovered, Accounted
<1>12. DenialIsReported'
  BY <1>0, <1>2, <1>3 DEF BInv, DenialIsReported
<1> QED BY <1>0, <1>6, <1>7, <1>8, <1>9, <1>10, <1>11, <1>12 DEF BInv

LEMMA BudgetStepKeeps ==
    ASSUME BInv, [BudgetNext]_budgetVars
    PROVE  BInv'
<1>1. ASSUME NEW d \in Dependencies, Steps(d) PROVE BInv'
  BY <1>1, AttemptKeeps, AnswerKeeps, SettleKeeps, ArmKeeps, SizeKeeps, EvaluateKeeps, ReserveKeeps, WakeKeeps,
     WakeCutKeeps DEF Steps
<1>2. CASE UNCHANGED budgetVars
  <2>1. UNCHANGED <<left, cancelled, budget, retry, books>>
    BY <1>2 DEF budgetVars
  <2>2. Claims' = Claims
    BY <2>1 DEF Claims, Claimed
  <2> QED BY <2>1, <2>2 DEF BInv, BudgetTypeOK, LoopIsSound, UnsizedIsEmpty, SizedByOne, UnarmedIsLate,
                            BalanceCovered, Accounted, DenialIsReported
<1> QED BY <1>1, <1>2, CancelKeeps, RetryTickKeeps DEF BudgetNext

LEMMA BudgetInitHolds ==
    ASSUME BudgetInit
    PROVE  BInv
<1>0. PICK total \in Totals :
         /\ budget = [armed |-> total > 0, balance |-> total, reported |-> FALSE]
         /\ books = [sized |-> total, spent |-> 0, lost |-> 0, owed |-> 0]
  BY DEF BudgetInit
<1>1. total \in Nat /\ left = Deadline /\ cancelled = FALSE /\ retry = [d \in Dependencies |-> Fresh]
  BY DEF BudgetInit, Parameters
<1>2. /\ Fresh \in Loop /\ Fresh.stage = "idle" /\ Fresh.attempt = 0 /\ Fresh.claimed = 0 /\ ~Fresh.denied
      BY Sizes DEF Fresh, Loop
<1>3. retry \in [Dependencies -> Loop] /\ \A d \in Dependencies : retry[d] = Fresh
  BY <1>1, <1>2
<1>4. budget \in Budget /\ budget.balance = total /\ ~budget.reported /\ (~budget.armed => total = 0)
  <2>1. \A p \in BOOLEAN : LET b == [armed |-> p, balance |-> total, reported |-> FALSE]
                           IN  b \in Budget /\ b.armed = p /\ b.balance = total /\ ~b.reported
    BY <1>1 DEF Budget
  <2>2. (total > 0) \in BOOLEAN
    OBVIOUS
  <2>3. budget \in Budget /\ budget.armed = (total > 0) /\ budget.balance = total /\ ~budget.reported
    BY <1>0, <2>1, <2>2
  <2>4. ~budget.armed => ~(total > 0)
    BY <2>3
  <2>5. ~(total > 0) => total = 0
    BY <1>1
  <2> QED BY <2>3, <2>4, <2>5
<1>5. books \in Books /\ books.sized = total /\ books.spent = 0 /\ books.lost = 0 /\ books.owed = 0
  BY <1>0, <1>1 DEF Books
<1>6. Claims = 0
  <2>1. Units(retry) = {}
    <3>1. \A u \in Dependencies \X (1..EstimatedDuration + Cap) : ~(u[2] <= retry[u[1]].claimed)
      BY <1>2, <1>3, Sizes
    <3> QED BY <3>1 DEF Units
  <2>2. Claims = Cardinality({})
    BY <2>1, ClaimsAre
  <2> QED BY <2>2, FS_EmptySet
<1>7. BudgetTypeOK
  <2>1. left \in 0..Deadline
    BY <1>1, Sizes
  <2> QED BY <1>1, <1>3, <1>4, <1>5, <2>1 DEF BudgetTypeOK
<1>8. LoopIsSound
  BY <1>2, <1>3 DEF LoopIsSound
<1>9. UnsizedIsEmpty
  BY <1>2, <1>3, <1>4, <1>5 DEF UnsizedIsEmpty
<1>10. SizedByOne /\ UnarmedIsLate /\ DenialIsReported
  BY <1>2, <1>3 DEF SizedByOne, UnarmedIsLate, DenialIsReported
<1>11. BalanceCovered /\ Accounted
  BY <1>1, <1>4, <1>5, <1>6 DEF BalanceCovered, Accounted
<1> QED BY <1>7, <1>8, <1>9, <1>10, <1>11 DEF BInv

\* The inductive invariant of the retries under one budget: what their loops claim, and
\* what the budget holds before and after it is sized (budget.go, retry_decorator.go).
THEOREM BudgetInvariant == BudgetSpec => []BInv
<1>1. BudgetInit => BInv
  BY BudgetInitHolds
<1>2. BInv /\ [BudgetNext]_budgetVars => BInv'
  BY BudgetStepKeeps
<1> QED BY <1>1, <1>2, PTL DEF BudgetSpec

\* However the dependencies interleave reading, claiming and settling, the balance and
\* the claims never exceed what the budget was sized to, and its books close
\* (budget.go reserve, settle).
THEOREM BudgetIsExact == BudgetSpec => []BudgetInv
<1>1. BInv => BudgetInv
  BY DEF BInv, BudgetInv
<1> QED BY <1>1, BudgetInvariant, PTL

\* A retry denied for want of budget, by Evaluate or by Reserve, was reported
\* (retry_decorator.go ReportExhaustion).
THEOREM DenialsAreReported == BudgetSpec => []DenialIsReported
<1>1. BInv => DenialIsReported
  BY DEF BInv
<1> QED BY <1>1, BudgetInvariant, PTL
=============================================================================
