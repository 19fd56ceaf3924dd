------------------------- MODULE SqsConsumerProofs -------------------------
(* The theorems about SqsConsumer, for any messages, slots and durations.     *)
(* A message has one latest receipt at most (OneLatest); a visibility that is *)
(* adrift was asked by an attempt that is cancelled, and a release is made    *)
(* when the heartbeat is over (Settled) and the attempt is not cancelled, so  *)
(* nothing is adrift for a message that is released (Clear).  For an attempt  *)
(* that goes on the visibility left follows the heartbeat (Margin): an        *)
(* interval is at most armed, another in flight, and a third passes between   *)
(* the tick that is applied and its answer.  Two of the three are what        *)
(* Validate asks for; with all three the receipt is never superseded (Fits).  *)
EXTENDS SqsConsumer, TLAPS

\* In what follows r is the worker of a slot, q the broker's side of its message, a
\* what is adrift for the message and p what is left of its backoff.

\* A worker that is not idle has a message, and its tick in flight asks for the base
\* or for all that is left of the ceiling.
Placed(r) ==
    /\ r.stage # "idle" => r.msg \in Messages
    /\ r.hb = "calling" => r.ask \in Ask /\ (r.ask = VisibilityBase \/ r.ask + r.age >= MaxVisibility)

Settled(r, a, p) ==
    /\ r.latest /\ a # {} => r.cancelled
    /\ r.latest /\ p > 0 => r.hb = "done"

OneLatest ==
    \A v, w \in Workers :
        worker[v].latest /\ worker[w].latest /\ worker[v].msg = worker[w].msg => v = w

WorkersAreSound ==
    \A w \in Workers :
        /\ Placed(worker[w])
        /\ \A m \in Messages : worker[w].msg = m => Settled(worker[w], adrift[m], promise[m])

Inv == TypeOK /\ OneLatest /\ WorkersAreSound

\* The visibility left reaches as far as the heartbeat needs it, or to the ceiling.
Margin(r, q) ==
    \/ q.visible + r.age >= MaxVisibility
    \/ r.hb = "armed" /\ q.visible >= VisibilityBase - 2 * HeartbeatEvery + r.timer
    \/ r.hb = "calling" /\ q.visible >= VisibilityBase - 3 * HeartbeatEvery + r.timer
    \/ r.hb = "landed" /\ q.visible >= VisibilityBase - HeartbeatEvery + r.timer

\* Three intervals are less than the visibility asked for.
Fits == VisibilityBase > 3 * HeartbeatEvery

\* An attempt that goes on has its heartbeat, and until the ceiling the margin as long
\* as its receipt is the latest one, which it always is when three intervals fit.
Covered(r, q) ==
    r.stage = "handling" /\ ~r.cancelled =>
        /\ r.hb # "done"
        /\ \/ r.age = MaxVisibility
           \/ (Fits => r.latest) /\ (r.latest => q.deleted \/ Margin(r, q))

AttemptsAreCovered ==
    \A w \in Workers : \A m \in Messages :
        worker[w].msg = m => Covered(worker[w], queue[m])

-----------------------------------------------------------------------------

\* What is known of one slot.
LEMMA WorkerFacts ==
    ASSUME Inv, NEW w \in Workers
    PROVE  /\ worker[w] \in Worker /\ Placed(worker[w])
           /\ worker[w].stage = "idle" <=> worker[w] = Idle
           /\ worker[w].stage # "idle" =>
                 /\ worker[w].msg \in Messages
                 /\ Settled(worker[w], adrift[worker[w].msg], promise[worker[w].msg])
                 /\ queue[worker[w].msg] \in Message
  BY DEF Inv, TypeOK, WorkersAreSound, Placed

\* The slot that is idle.
LEMMA IdleFacts ==
    /\ Idle \in Worker /\ Placed(Idle) /\ Idle.stage = "idle" /\ ~Idle.latest /\ Idle.hb = "done"
    /\ Idle.msg = NoMessage /\ Idle.msg \notin Messages
<1>1. 0 \in 0..MaxVisibility /\ 0 \in 0..HeartbeatEvery
  BY SqsAssumption
<1> QED BY <1>1, SqsAssumption DEF Idle, Worker, Placed

\* Worker w goes on as r.
Becomes(w, r) ==
    /\ r \in Worker /\ Placed(r) /\ r # Idle /\ r.stage # "idle" /\ r.msg = worker[w].msg
    /\ r.latest => worker[w].latest
    /\ worker' = [worker EXCEPT ![w] = r]

\* Worker w goes on as r, and its message as q, with a adrift and p of its backoff left.
StepAt(w, r, q, a, p) ==
    LET m == worker[w].msg IN
    /\ Becomes(w, r) /\ worker[w].stage # "idle" /\ Settled(r, a, p)
    /\ q \in Message /\ queue' = [queue EXCEPT ![m] = q]
    /\ a \in SUBSET Ask /\ adrift' = [adrift EXCEPT ![m] = a]
    /\ p \in 0..Backoff /\ promise' = [promise EXCEPT ![m] = p]
    /\ a = {} \/ a = adrift[m] \/ worker[w].latest
    /\ p = 0 \/ p = promise[m] \/ worker[w].latest

\* A step of one worker and of its message.
LEMMA StepOfOne ==
    ASSUME Inv, NEW w \in Workers, NEW r, NEW q, NEW a, NEW p, StepAt(w, r, q, a, p)
    PROVE  Inv'
<1> DEFINE m == worker[w].msg
<1> USE DEF StepAt
<1>1. m \in Messages
  BY WorkerFacts
<1>2. TypeOK'
  BY <1>1 DEF Inv, TypeOK, Becomes
<1>4. OneLatest'
  BY DEF Inv, TypeOK, OneLatest, Becomes
<1>5. ASSUME NEW v \in Workers PROVE Placed(worker'[v])
  BY DEF Inv, TypeOK, WorkersAreSound, Becomes
<1>6. ASSUME NEW v \in Workers, NEW n \in Messages, worker'[v].msg = n
      PROVE  Settled(worker'[v], adrift'[n], promise'[n])
  <2>1. CASE v = w
    BY <1>1, <1>6, <2>1 DEF Inv, TypeOK, Becomes
  <2>2. CASE v # w /\ n # m
    BY <1>1, <1>6, <2>2 DEF Inv, TypeOK, Becomes, WorkersAreSound
  <2>3. CASE v # w /\ n = m
    <3>1. worker'[v] = worker[v] /\ adrift'[n] = a /\ promise'[n] = p
      BY <1>1, <2>3 DEF Inv, TypeOK, Becomes
    <3>2. Settled(worker[v], adrift[m], promise[m])
      BY <1>1, <1>6, <2>3, <3>1 DEF Inv, WorkersAreSound
    <3>3. worker[w].latest => ~worker[v].latest
      BY <1>6, <2>3, <3>1 DEF Inv, OneLatest
    <3>4. p \in Int /\ p >= 0 /\ 0 \in Int
      BY SqsAssumption
    <3> QED BY <3>1, <3>2, <3>3, <3>4 DEF Settled
  <2> QED BY <2>1, <2>2, <2>3
<1> QED BY <1>2, <1>4, <1>5, <1>6 DEF Inv, WorkersAreSound

\* The same when only the worker changes.
LEMMA QuietStep ==
    ASSUME Inv, NEW w \in Workers, NEW r, Becomes(w, r), worker[w].stage # "idle",
           UNCHANGED <<queue, adrift, promise>>,
           Settled(r, adrift[worker[w].msg], promise[worker[w].msg])
    PROVE  Inv'
<1> DEFINE m == worker[w].msg
           q == queue[m]
           a == adrift[m]
           p == promise[m]
<1>1. m \in Messages /\ q \in Message /\ a \in SUBSET Ask /\ p \in 0..Backoff
  BY WorkerFacts DEF Inv, TypeOK
<1>2. /\ queue' = [queue EXCEPT ![m] = q] /\ adrift' = [adrift EXCEPT ![m] = a]
      /\ promise' = [promise EXCEPT ![m] = p]
  BY <1>1 DEF Inv, TypeOK
<1>4. Settled(r, a, p) /\ m = worker[w].msg /\ a = adrift[m] /\ p = promise[m]
  OBVIOUS
<1>5. StepAt(w, r, q, a, p)
  BY <1>1, <1>2, <1>4 DEF StepAt
<1> HIDE DEF m, q, a, p
<1> QED BY <1>5, StepOfOne

\* A worker goes on, within its part of the invariant.
LEMMA OneWorkerKeeps ==
    ASSUME Inv, NEW w \in Workers,
           HeartbeatStops(w) \/ HeartbeatFires(w) \/ TickReturns(w) \/ Dispose(w, "ack") \/ Dispose(w, "release")
             \/ NoGesture(w)
    PROVE  Inv'
<1> DEFINE r == worker[w]
<1>1. r \in Worker /\ Placed(r) /\ (r.stage = "idle" <=> r = Idle)
  BY WorkerFacts
<1>2. r.stage # "idle"
  BY <1>1 DEF HeartbeatStops, HeartbeatFires, TickReturns, Dispose, NoGesture, Idle
<1>3. r.msg \in Messages /\ Settled(r, adrift[r.msg], promise[r.msg])
  BY <1>2, WorkerFacts
<1>4. CASE HeartbeatStops(w)
  <2> DEFINE u == [r EXCEPT !.hb = "done"]
  <2>1. Becomes(w, u)
    BY <1>1, <1>2, <1>4 DEF HeartbeatStops, Becomes, Worker, Placed, Idle, Inv, TypeOK
  <2>2. Settled(u, adrift[r.msg], promise[r.msg])
    BY <1>1, <1>3 DEF Settled, Worker
  <2> QED BY <1>2, <1>4, <2>1, <2>2, QuietStep DEF HeartbeatStops
<1>5. CASE HeartbeatFires(w)
  <2>1. CASE r.age >= MaxVisibility /\ worker' = [worker EXCEPT ![w] = [@ EXCEPT !.hb = "done", !.cancelled = TRUE]]
    <3> DEFINE u == [r EXCEPT !.hb = "done", !.cancelled = TRUE]
    <3>1. Becomes(w, u)
      BY <1>1, <1>2, <2>1 DEF Becomes, Worker, Placed, Idle, Inv, TypeOK
    <3>2. Settled(u, adrift[r.msg], promise[r.msg])
      BY <1>1, <1>3 DEF Settled, Worker
    <3> QED BY <1>2, <1>5, <3>1, <3>2, QuietStep DEF HeartbeatFires
  <2>2. CASE /\ r.age < MaxVisibility
             /\ worker' = [worker EXCEPT ![w] = [@ EXCEPT !.hb = "calling", !.timer = HeartbeatEvery, !.ask = Asked(w)]]
    <3> DEFINE u == [r EXCEPT !.hb = "calling", !.timer = HeartbeatEvery, !.ask = Asked(w)]
    <3>1. Asked(w) \in Ask /\ (Asked(w) = VisibilityBase \/ Asked(w) + r.age >= MaxVisibility)
      BY <1>1, <2>2, SqsAssumption DEF Asked, Ask, Worker
    <3>2. HeartbeatEvery \in 0..HeartbeatEvery
      BY SqsAssumption
    <3>3. u \in Worker /\ u.stage = r.stage /\ u.msg = r.msg /\ u.latest = r.latest /\ u.ask = Asked(w) /\ u.age = r.age
          /\ u.hb = "calling" /\ u.cancelled = r.cancelled
      BY <1>1, <3>1, <3>2 DEF Worker
    <3>4. u # Idle
      BY <1>2, <3>3 DEF Idle
    <3>5. worker' = [worker EXCEPT ![w] = u]
      BY <2>2
    <3> HIDE DEF u
    <3>6. Becomes(w, u)
      BY <1>1, <1>2, <1>3, <3>1, <3>3, <3>4, <3>5 DEF Becomes, Placed
    <3>7. Settled(u, adrift[r.msg], promise[r.msg])
      BY <1>3, <1>5, <3>3 DEF Settled, HeartbeatFires
    <3> QED BY <1>2, <1>5, <3>6, <3>7, QuietStep DEF HeartbeatFires
  <2> QED BY <1>5, <2>1, <2>2 DEF HeartbeatFires
<1>6. CASE TickReturns(w)
  <2> DEFINE u == [r EXCEPT !.hb = "armed", !.timer = HeartbeatEvery, !.ask = 0]
  <2>1. Becomes(w, u)
    <3>1. HeartbeatEvery \in 0..HeartbeatEvery
      BY SqsAssumption
    <3> QED BY <1>1, <1>2, <1>6, <3>1 DEF TickReturns, Becomes, Worker, Placed, Idle, Inv, TypeOK
  <2>2. Settled(u, adrift[r.msg], promise[r.msg])
    BY <1>1, <1>3, <1>6 DEF Settled, Worker, TickReturns
  <2> QED BY <1>2, <1>6, <2>1, <2>2, QuietStep DEF TickReturns
<1>7. ASSUME NEW g \in {"ack", "release"}, Dispose(w, g) PROVE Inv'
  <2> DEFINE u == [r EXCEPT !.stage = g]
  <2>1. Becomes(w, u)
    BY <1>1, <1>2, <1>7 DEF Dispose, Becomes, Worker, Placed, Idle, Inv, TypeOK
  <2>2. Settled(u, adrift[r.msg], promise[r.msg])
    BY <1>1, <1>3 DEF Settled, Worker
  <2> QED BY <1>2, <1>7, <2>1, <2>2, QuietStep DEF Dispose
<1>8. CASE NoGesture(w)
  <2> DEFINE u == [r EXCEPT !.stage = "ending", !.cancelled = TRUE]
  <2>1. Becomes(w, u)
    BY <1>1, <1>2, <1>8 DEF NoGesture, Becomes, Worker, Placed, Idle, Inv, TypeOK
  <2>2. Settled(u, adrift[r.msg], promise[r.msg])
    BY <1>1, <1>3 DEF Settled, Worker
  <2> QED BY <1>2, <1>8, <2>1, <2>2, QuietStep DEF NoGesture
<1> QED BY <1>4, <1>5, <1>6, <1>7, <1>8

\* The slot is free.
LEMMA EndKeeps ==
    ASSUME Inv, NEW w \in Workers, End(w)
    PROVE  Inv'
<1>1. worker' = [worker EXCEPT ![w] = Idle] /\ UNCHANGED <<queue, adrift, promise>>
  BY DEF End
<1>2. TypeOK'
  BY <1>1, IdleFacts DEF Inv, TypeOK
<1>3. OneLatest'
  BY <1>1, IdleFacts DEF Inv, TypeOK, OneLatest
<1>4. WorkersAreSound'
  BY <1>1, IdleFacts DEF Inv, TypeOK, WorkersAreSound, Settled
<1> QED BY <1>2, <1>3, <1>4 DEF Inv

\* A tick in flight is applied.
LEMMA TickLandsKeeps ==
    ASSUME Inv, NEW w \in Workers, TickLands(w)
    PROVE  Inv'
<1> DEFINE r == worker[w]
           m == r.msg
<1>1. r \in Worker /\ Placed(r) /\ (r.stage = "idle" <=> r = Idle)
  BY WorkerFacts
<1>2. r.stage # "idle"
  BY <1>1 DEF TickLands, Idle
<1>3. /\ m \in Messages /\ Settled(r, adrift[m], promise[m]) /\ queue[m] \in Message
      /\ adrift[m] \in SUBSET Ask /\ promise[m] \in 0..Backoff
  BY <1>2, WorkerFacts DEF Inv, TypeOK
<1>4. /\ queue = [queue EXCEPT ![m] = queue[m]] /\ adrift = [adrift EXCEPT ![m] = adrift[m]]
      /\ promise = [promise EXCEPT ![m] = promise[m]]
  BY <1>3 DEF Inv, TypeOK
<1> DEFINE u == [r EXCEPT !.hb = "landed"]
           q == IF r.latest /\ ~queue[m].deleted THEN [queue[m] EXCEPT !.visible = r.ask] ELSE queue[m]
<1>5. r.hb = "calling" /\ r.ask \in 0..MaxVisibility
  BY <1>1, SqsAssumption DEF TickLands, Placed, Ask
<1>6. q \in Message /\ queue' = [queue EXCEPT ![m] = q]
  BY <1>3, <1>4, <1>5 DEF TickLands, Extended, Message
<1>7. Becomes(w, u)
  BY <1>1, <1>2, <1>5 DEF TickLands, Becomes, Worker, Placed, Idle, Inv, TypeOK
<1>8. Settled(u, adrift[m], promise[m])
  BY <1>1, <1>3, <1>5 DEF Settled, Worker
<1>10. UNCHANGED <<adrift, promise>>
  BY DEF TickLands
<1>11. StepAt(w, u, q, adrift[m], promise[m])
  BY <1>2, <1>3, <1>4, <1>6, <1>7, <1>8, <1>10 DEF StepAt
<1> QED BY <1>11, StepOfOne

\* A tick that is given up may be adrift: its attempt is cancelled.
LEMMA TickFailsKeeps ==
    ASSUME Inv, NEW w \in Workers, TickFails(w)
    PROVE  Inv'
<1> DEFINE r == worker[w]
           m == r.msg
<1>1. r \in Worker /\ Placed(r) /\ (r.stage = "idle" <=> r = Idle)
  BY WorkerFacts
<1>2. r.stage # "idle"
  BY <1>1 DEF TickFails, Idle
<1>3. /\ m \in Messages /\ Settled(r, adrift[m], promise[m]) /\ queue[m] \in Message
      /\ adrift[m] \in SUBSET Ask /\ promise[m] \in 0..Backoff
  BY <1>2, WorkerFacts DEF Inv, TypeOK
<1>4. /\ queue = [queue EXCEPT ![m] = queue[m]] /\ adrift = [adrift EXCEPT ![m] = adrift[m]]
      /\ promise = [promise EXCEPT ![m] = promise[m]]
  BY <1>3 DEF Inv, TypeOK
<1> DEFINE u == [r EXCEPT !.hb = "done", !.cancelled = TRUE, !.timer = 0, !.ask = 0]
<1>5. PICK a : a \in SUBSET Ask /\ adrift' = [adrift EXCEPT ![m] = a] /\ (a = adrift[m] \/ r.latest)
  <2>1. CASE UNCHANGED adrift
    BY <1>3, <1>4, <2>1
  <2>2. CASE r.hb = "calling" /\ r.latest /\ adrift' = [adrift EXCEPT ![m] = @ \cup {r.ask}]
    <3>1. r.ask \in Ask
      BY <1>1, <2>2 DEF Placed
    <3> DEFINE a == adrift[m] \cup {r.ask}
    <3>2. a \in SUBSET Ask /\ adrift' = [adrift EXCEPT ![m] = a] /\ r.latest
      BY <1>3, <2>2, <3>1
    <3> HIDE DEF a
    <3> QED BY <3>2
  <2> QED BY <2>1, <2>2 DEF TickFails
<1>6. Becomes(w, u)
  <2>1. 0 \in 0..HeartbeatEvery
    BY SqsAssumption
  <2> QED BY <1>1, <1>2, <2>1 DEF TickFails, Becomes, Worker, Placed, Idle, Inv, TypeOK
<1>7. Settled(u, a, promise[m])
  BY <1>1 DEF Settled, Worker
<1>8. UNCHANGED <<queue, promise>>
  BY DEF TickFails
<1>9. StepAt(w, u, queue[m], a, promise[m])
  BY <1>2, <1>3, <1>4, <1>5, <1>6, <1>7, <1>8 DEF StepAt
<1> QED BY <1>9, StepOfOne

\* A message that is deleted has nothing adrift.
LEMMA AckKeeps ==
    ASSUME Inv, NEW w \in Workers, Ack(w)
    PROVE  Inv'
<1> DEFINE r == worker[w]
           m == r.msg
<1>1. r \in Worker /\ Placed(r) /\ (r.stage = "idle" <=> r = Idle)
  BY WorkerFacts
<1>2. r.stage # "idle"
  BY <1>1 DEF Ack, Idle
<1>3. /\ m \in Messages /\ Settled(r, adrift[m], promise[m]) /\ queue[m] \in Message
      /\ adrift[m] \in SUBSET Ask /\ promise[m] \in 0..Backoff
  BY <1>2, WorkerFacts DEF Inv, TypeOK
<1>4. /\ queue = [queue EXCEPT ![m] = queue[m]] /\ adrift = [adrift EXCEPT ![m] = adrift[m]]
      /\ promise = [promise EXCEPT ![m] = promise[m]]
  BY <1>3 DEF Inv, TypeOK
<1> DEFINE u == [r EXCEPT !.stage = "ending", !.cancelled = TRUE]
           q == [deleted |-> TRUE, visible |-> 0]
<1>5. Becomes(w, u) /\ u.hb = "done" /\ u.cancelled
  BY <1>1, <1>2 DEF Ack, Stopped, Becomes, Worker, Placed, Idle, Inv, TypeOK
<1>6. \A a, p : Settled(u, a, p)
  BY <1>5 DEF Settled
<1>7. q \in Message /\ 0 \in 0..Backoff /\ {} \in SUBSET Ask /\ ~(0 > 0)
  BY SqsAssumption DEF Message
<1> HIDE DEF u, q
<1>8. CASE UNCHANGED <<queue, adrift, promise>>
  <2>1. StepAt(w, u, queue[m], adrift[m], promise[m])
    BY <1>2, <1>3, <1>4, <1>5, <1>6, <1>8 DEF StepAt
  <2> QED BY <2>1, StepOfOne
<1>9. CASE /\ queue' = [queue EXCEPT ![m] = q] /\ adrift' = [adrift EXCEPT ![m] = {}]
           /\ promise' = [promise EXCEPT ![m] = 0]
  <2>1. StepAt(w, u, q, {}, 0)
    BY <1>2, <1>3, <1>5, <1>6, <1>7, <1>9 DEF StepAt
  <2> QED BY <2>1, StepOfOne
<1> QED BY <1>8, <1>9 DEF Ack, q

\* A release is made with the latest receipt, when its heartbeat is over.
LEMMA ReleaseKeeps ==
    ASSUME Inv, NEW w \in Workers, Release(w)
    PROVE  Inv'
<1> DEFINE r == worker[w]
           m == r.msg
<1>1. r \in Worker /\ Placed(r) /\ (r.stage = "idle" <=> r = Idle)
  BY WorkerFacts
<1>2. r.stage # "idle"
  BY <1>1 DEF Release, Idle
<1>3. /\ m \in Messages /\ Settled(r, adrift[m], promise[m]) /\ queue[m] \in Message
      /\ adrift[m] \in SUBSET Ask /\ promise[m] \in 0..Backoff
  BY <1>2, WorkerFacts DEF Inv, TypeOK
<1>4. /\ queue = [queue EXCEPT ![m] = queue[m]] /\ adrift = [adrift EXCEPT ![m] = adrift[m]]
      /\ promise = [promise EXCEPT ![m] = promise[m]]
  BY <1>3 DEF Inv, TypeOK
<1> DEFINE u == [r EXCEPT !.stage = "ending", !.cancelled = TRUE]
           q == [queue[m] EXCEPT !.visible = Backoff]
<1>5. Becomes(w, u) /\ u.hb = "done" /\ u.cancelled
  BY <1>1, <1>2 DEF Release, Stopped, Becomes, Worker, Placed, Idle, Inv, TypeOK
<1>6. \A a, p : Settled(u, a, p)
  BY <1>5 DEF Settled
<1>7. q \in Message /\ Backoff \in 0..Backoff /\ q.visible = Backoff
  BY <1>3, SqsAssumption DEF Message
<1>8. CASE UNCHANGED <<queue, promise>>
  <2>1. StepAt(w, u, queue[m], adrift[m], promise[m])
    <3> HIDE DEF u, q
    <3> QED BY <1>2, <1>3, <1>4, <1>5, <1>6, <1>8 DEF StepAt, Release
  <2> QED BY <2>1, StepOfOne
<1>9. CASE r.latest /\ queue' = [queue EXCEPT ![m].visible = Backoff] /\ promise' = [promise EXCEPT ![m] = Backoff]
  <2>1. queue' = [queue EXCEPT ![m] = q]
    BY <1>9
  <2>2. StepAt(w, u, q, adrift[m], Backoff)
    <3> HIDE DEF u, q
    <3> QED BY <1>2, <1>3, <1>4, <1>5, <1>6, <1>7, <1>9, <2>1 DEF StepAt, Release
  <2> QED BY <2>2, StepOfOne
<1> QED BY <1>8, <1>9 DEF Release

\* A receipt of m: the older ones are superseded.
LEMMA SupersedeKeeps ==
    ASSUME Inv, NEW m \in Messages, NEW f \in [Workers -> Worker],
           f = Supersede(worker, m)
    PROVE  \A v \in Workers :
              /\ f[v].msg = worker[v].msg /\ f[v].stage = worker[v].stage
              /\ f[v].latest => worker[v].latest /\ worker[v].msg # m
              /\ f[v].stage = "idle" <=> f[v] = Idle
              /\ Placed(f[v])
              /\ \A n \in Messages : f[v].msg = n /\ n # m => f[v] = worker[v]
<1> SUFFICES ASSUME NEW v \in Workers
             PROVE  /\ f[v].msg = worker[v].msg /\ f[v].stage = worker[v].stage
                    /\ f[v].latest => worker[v].latest /\ worker[v].msg # m
                    /\ f[v].stage = "idle" <=> f[v] = Idle
                    /\ Placed(f[v])
                    /\ \A n \in Messages : f[v].msg = n /\ n # m => f[v] = worker[v]
  OBVIOUS
<1>1. worker[v] \in Worker /\ Placed(worker[v]) /\ (worker[v].stage = "idle" <=> worker[v] = Idle)
  BY WorkerFacts
<1>2. CASE worker[v].msg = m
  <2>1. f[v] = [worker[v] EXCEPT !.latest = FALSE]
    BY <1>2 DEF Supersede
  <2>2. worker[v].stage # "idle"
    BY <1>1, <1>2, IdleFacts
  <2> QED BY <1>1, <1>2, <2>1, <2>2, IdleFacts DEF Worker, Placed
<1>3. CASE worker[v].msg # m
  <2>1. f[v] = worker[v]
    BY <1>3 DEF Supersede
  <2> QED BY <1>1, <1>3, <2>1
<1> QED BY <1>2, <1>3

\* The types of what is superseded.
LEMMA SupersedeType ==
    ASSUME Inv, NEW m \in Messages
    PROVE  Supersede(worker, m) \in [Workers -> Worker]
<1>1. \A v \in Workers : [worker[v] EXCEPT !.latest = FALSE] \in Worker
  BY ZenonT(30) DEF Inv, TypeOK, Worker
<1> QED BY <1>1 DEF Supersede, Inv, TypeOK

\* The answer of a receive is lost.
LEMMA ReceiveLostKeeps ==
    ASSUME Inv, NEW m \in Messages, ReceiveLost(m)
    PROVE  Inv'
<1> DEFINE f == Supersede(worker, m)
<1>1. /\ f \in [Workers -> Worker]
      /\ \A v \in Workers :
              /\ f[v].msg = worker[v].msg /\ f[v].stage = worker[v].stage
              /\ f[v].latest => worker[v].latest /\ worker[v].msg # m
              /\ f[v].stage = "idle" <=> f[v] = Idle
              /\ Placed(f[v])
              /\ \A n \in Messages : f[v].msg = n /\ n # m => f[v] = worker[v]
  <2>1. f \in [Workers -> Worker]
    BY SupersedeType
  <2> QED BY <2>1, SupersedeKeeps
<1> HIDE DEF f
<1>2. /\ worker' = f /\ queue' = [queue EXCEPT ![m].visible = VisibilityBase]
      /\ adrift' = [adrift EXCEPT ![m] = {}] /\ promise' = [promise EXCEPT ![m] = 0]
  BY DEF ReceiveLost, f
<1>3. VisibilityBase \in 0..MaxVisibility /\ 0 \in 0..Backoff /\ ~(0 > 0)
  BY SqsAssumption
<1>4. TypeOK'
  BY <1>1, <1>2, <1>3 DEF Inv, TypeOK, Message
<1>6. OneLatest'
  BY <1>1, <1>2 DEF Inv, OneLatest
<1>7. WorkersAreSound'
  <2>1. ASSUME NEW v \in Workers, NEW n \in Messages, f[v].msg = n
        PROVE  Settled(f[v], adrift'[n], promise'[n])
    <3>1. CASE n = m
      BY <1>1, <2>1, <3>1 DEF Settled
    <3>2. CASE n # m
      <4>1. f[v] = worker[v] /\ adrift'[n] = adrift[n] /\ promise'[n] = promise[n]
        BY <1>1, <1>2, <2>1, <3>2 DEF Inv, TypeOK
      <4> QED BY <2>1, <4>1 DEF Inv, WorkersAreSound
    <3> QED BY <3>1, <3>2
  <2> QED BY <1>1, <1>2, <2>1 DEF WorkersAreSound
<1> QED BY <1>4, <1>6, <1>7 DEF Inv

\* The worker of a receipt.
Started(m) == [Idle EXCEPT !.stage = "handling", !.msg = m, !.latest = TRUE, !.hb = "armed",
                           !.timer = HeartbeatEvery]

\* What a worker starts with.
LEMMA StartedFacts ==
    ASSUME NEW m \in Messages
    PROVE  /\ Started(m) \in Worker /\ Started(m).stage = "handling" /\ Started(m).msg = m
           /\ Started(m).latest /\ Started(m).hb = "armed" /\ Started(m).timer = HeartbeatEvery
           /\ ~Started(m).cancelled /\ Started(m).age = 0 /\ Placed(Started(m)) /\ Started(m) # Idle
<1>1. HeartbeatEvery \in 0..HeartbeatEvery
  BY SqsAssumption
<1>2. Idle \in Worker
  BY IdleFacts
<1> QED BY <1>1, <1>2 DEF Started, Worker, Idle, Placed

\* A slot starts with the latest receipt.
LEMMA ReceiveKeeps ==
    ASSUME Inv, NEW w \in Workers, NEW m \in Messages, Receive(w, m)
    PROVE  Inv'
<1> DEFINE f == Supersede(worker, m)
<1>1. /\ f \in [Workers -> Worker]
      /\ \A v \in Workers :
              /\ f[v].msg = worker[v].msg /\ f[v].stage = worker[v].stage
              /\ f[v].latest => worker[v].latest /\ worker[v].msg # m
              /\ f[v].stage = "idle" <=> f[v] = Idle
              /\ Placed(f[v])
              /\ \A n \in Messages : f[v].msg = n /\ n # m => f[v] = worker[v]
  <2>1. f \in [Workers -> Worker]
    BY SupersedeType
  <2> QED BY <2>1, SupersedeKeeps
<1>2. /\ worker' = [f EXCEPT ![w] = Started(m)] /\ queue' = [queue EXCEPT ![m].visible = VisibilityBase]
      /\ adrift' = [adrift EXCEPT ![m] = {}] /\ promise' = [promise EXCEPT ![m] = 0]
  BY DEF Receive, Started
<1> HIDE DEF f
<1>3. VisibilityBase \in 0..MaxVisibility /\ 0 \in 0..Backoff /\ ~(0 > 0)
  BY SqsAssumption
<1>4. /\ worker'[w] = Started(m)
      /\ \A v \in Workers : v # w => worker'[v] = f[v]
  BY <1>1, <1>2
<1>5. TypeOK'
  <2>1. worker' \in [Workers -> Worker]
    BY <1>1, <1>2, StartedFacts
  <2>2. \A v \in Workers : worker'[v].stage = "idle" <=> worker'[v] = Idle
    BY <1>1, <1>4, StartedFacts
  <2> QED BY <1>2, <1>3, <2>1, <2>2 DEF Inv, TypeOK, Message
<1>7. OneLatest'
  BY <1>1, <1>4, StartedFacts DEF Inv, OneLatest
<1>8. WorkersAreSound'
  <2>1. ASSUME NEW v \in Workers, NEW n \in Messages, worker'[v].msg = n
        PROVE  Settled(worker'[v], adrift'[n], promise'[n])
    <3>1. CASE n = m
      <4>1. adrift'[n] = {} /\ promise'[n] = 0
        BY <1>2, <3>1 DEF Inv, TypeOK
      <4> QED BY <1>3, <4>1 DEF Settled
    <3>2. CASE n # m
      <4>1. v # w
        BY <1>4, <2>1, <3>2, StartedFacts
      <4>2. worker'[v] = worker[v] /\ adrift'[n] = adrift[n] /\ promise'[n] = promise[n]
        BY <1>1, <1>2, <1>4, <2>1, <3>2, <4>1 DEF Inv, TypeOK
      <4> QED BY <2>1, <4>2 DEF Inv, WorkersAreSound
    <3> QED BY <3>1, <3>2
  <2>2. \A v \in Workers : Placed(worker'[v])
    BY <1>1, <1>4, StartedFacts
  <2> QED BY <2>1, <2>2 DEF WorkersAreSound
<1> QED BY <1>5, <1>7, <1>8 DEF Inv

\* What is adrift lands, or is lost.
LEMMA AdriftLandsKeeps ==
    ASSUME Inv, NEW m \in Messages, AdriftLands(m)
    PROVE  Inv'
<1>1. PICK ask \in adrift[m] :
          /\ adrift' = [adrift EXCEPT ![m] = @ \ {ask}]
          /\ queue' = Extended(m, ask, TRUE) \/ UNCHANGED queue
  BY DEF AdriftLands
<1>2. UNCHANGED <<worker, promise>> /\ ask \in 0..MaxVisibility
  BY SqsAssumption DEF AdriftLands, Inv, TypeOK, Ask
<1>3. queue' \in [Messages -> Message]
  BY <1>1, <1>2 DEF Inv, TypeOK, Extended, Message
<1>4. TypeOK'
  BY <1>1, <1>2, <1>3 DEF Inv, TypeOK
<1>5. OneLatest'
  BY <1>2 DEF Inv, OneLatest
<1>6. ASSUME NEW v \in Workers, NEW n \in Messages, worker[v].msg = n
      PROVE  Settled(worker[v], adrift'[n], promise'[n])
  <2>1. Settled(worker[v], adrift[n], promise[n])
    BY <1>6 DEF Inv, WorkersAreSound
  <2>2. adrift'[n] # {} => adrift[n] # {}
    BY <1>1 DEF Inv, TypeOK
  <2> QED BY <1>2, <2>1, <2>2 DEF Settled
<1>7. WorkersAreSound'
  BY <1>2, <1>6 DEF Inv, WorkersAreSound
<1> QED BY <1>4, <1>5, <1>7 DEF Inv

\* Every worker is gone; what its ticks asked for is adrift.
LEMMA CrashKeeps ==
    ASSUME Inv, Crash
    PROVE  Inv'
<1>1. worker' = [w \in Workers |-> Idle] /\ UNCHANGED <<queue, promise>>
  BY DEF Crash
<1>2. adrift' \in [Messages -> SUBSET Ask]
  <2>1. \A w \in Workers : worker[w].hb = "calling" => worker[w].ask \in Ask
    BY DEF Inv, WorkersAreSound, Placed
  <2> QED BY <2>1 DEF Crash, Inv, TypeOK
<1>3. TypeOK'
  BY <1>1, <1>2, IdleFacts DEF Inv, TypeOK
<1>4. OneLatest' /\ WorkersAreSound'
  BY <1>1, IdleFacts DEF Inv, OneLatest, WorkersAreSound
<1> QED BY <1>3, <1>4 DEF Inv

\* Every attempt is cancelled.
LEMMA CancelKeeps ==
    ASSUME Inv, Cancel
    PROVE  Inv'
<1>1. /\ UNCHANGED <<queue, adrift, promise>>
      /\ worker' = [w \in Workers |-> IF worker[w].stage = "idle" THEN worker[w]
                                      ELSE [worker[w] EXCEPT !.cancelled = TRUE]]
  BY DEF Cancel
<1>2. ASSUME NEW w \in Workers
      PROVE  /\ worker'[w] \in Worker /\ Placed(worker'[w])
             /\ worker'[w].stage = "idle" <=> worker'[w] = Idle
             /\ worker'[w].latest = worker[w].latest /\ worker'[w].msg = worker[w].msg
             /\ worker'[w].hb = worker[w].hb /\ (worker[w].cancelled => worker'[w].cancelled)
  <2>1. worker[w] \in Worker /\ Placed(worker[w]) /\ (worker[w].stage = "idle" <=> worker[w] = Idle)
    BY WorkerFacts
  <2>2. CASE worker[w].stage = "idle"
    BY <1>1, <2>1, <2>2
  <2>3. CASE worker[w].stage # "idle"
    <3>1. worker'[w] = [worker[w] EXCEPT !.cancelled = TRUE]
      BY <1>1, <2>3
    <3>2. /\ worker'[w] \in Worker /\ worker'[w].cancelled
          /\ \A f \in {"stage", "msg", "latest", "hb", "ask", "age"} : worker'[w][f] = worker[w][f]
      BY <2>1, <3>1 DEF Worker
    <3>3. worker'[w] # Idle
      BY <2>3, <3>2, IdleFacts
    <3> QED BY <2>1, <2>3, <3>2, <3>3 DEF Placed
  <2> QED BY <2>2, <2>3
<1>3. DOMAIN worker' = Workers /\ worker' = [w \in Workers |-> worker'[w]]
  BY <1>1
<1>4. TypeOK'
  BY <1>1, <1>2, <1>3 DEF Inv, TypeOK
<1>5. OneLatest'
  BY <1>1, <1>2 DEF Inv, OneLatest
<1>6. WorkersAreSound'
  BY <1>1, <1>2 DEF Inv, WorkersAreSound, Settled
<1> QED BY <1>4, <1>5, <1>6 DEF Inv

\* A worker at a clock tick.
LEMMA TickWorker ==
    ASSUME Inv, Tick, NEW w \in Workers
    PROVE  /\ worker'[w] \in Worker /\ Placed(worker'[w])
           /\ worker'[w].stage = "idle" <=> worker'[w] = Idle
           /\ \A f \in {"stage", "msg", "latest", "cancelled", "hb", "ask"} : worker'[w][f] = worker[w][f]
           /\ worker[w].stage # "idle" =>
                /\ worker'[w].age = IF worker[w].age < MaxVisibility THEN worker[w].age + 1 ELSE worker[w].age
                /\ worker'[w].timer = Less(worker[w].timer)
<1>1. worker[w] \in Worker /\ Placed(worker[w]) /\ (worker[w].stage = "idle" <=> worker[w] = Idle)
  BY WorkerFacts
<1>2. CASE worker[w].stage = "idle"
  BY <1>1, <1>2 DEF Tick
<1>3. CASE worker[w].stage # "idle"
  <2> DEFINE t == Less(worker[w].timer)
             g == IF worker[w].age < MaxVisibility THEN worker[w].age + 1 ELSE worker[w].age
  <2>1. worker'[w] = [worker[w] EXCEPT !.timer = t, !.age = g]
    BY <1>3 DEF Tick
  <2>2. t \in 0..HeartbeatEvery /\ g \in 0..MaxVisibility /\ g >= worker[w].age
    BY <1>1, SqsAssumption DEF Worker, Less
  <2> HIDE DEF t, g
  <2>3. worker'[w] \in Worker /\ worker'[w].age = g /\ worker'[w].timer = t
        /\ \A f \in {"stage", "msg", "latest", "cancelled", "hb", "ask"} : worker'[w][f] = worker[w][f]
    BY <1>1, <2>1, <2>2 DEF Worker
  <2>4. Placed(worker'[w])
    BY <1>1, <2>2, <2>3, SqsAssumption DEF Placed, Worker, Ask
  <2> QED BY <1>1, <1>3, <2>3, <2>4, IdleFacts DEF t, g
<1> QED BY <1>2, <1>3

\* A clock tick.
LEMMA TickKeeps ==
    ASSUME Inv, Tick
    PROVE  Inv'
<1>1. \A n \in Nat : Less(n) \in Nat /\ Less(n) <= n /\ (Less(n) > 0 => n > 0 /\ Less(n) = n - 1)
  BY DEF Less
<1>2. ASSUME NEW m \in Messages
      PROVE  /\ queue'[m] \in Message /\ promise'[m] \in 0..Backoff
             /\ queue'[m].visible = Less(queue[m].visible) /\ promise'[m] = Less(promise[m])
  <2>1. queue[m] \in Message /\ promise[m] \in 0..Backoff /\ queue[m].visible \in 0..MaxVisibility
    BY DEF Inv, TypeOK, Message
  <2>2. Less(queue[m].visible) \in 0..MaxVisibility /\ Less(promise[m]) \in 0..Backoff
    BY <2>1, SqsAssumption DEF Less
  <2>3. queue'[m] = [queue[m] EXCEPT !.visible = Less(@)] /\ promise'[m] = Less(promise[m])
    BY DEF Tick
  <2> QED BY <2>1, <2>2, <2>3 DEF Message
<1>3. TypeOK'
  <2>1. queue' \in [Messages -> Message] /\ promise' \in [Messages -> 0..Backoff]
    <3>1. queue' = [m \in Messages |-> queue'[m]] /\ promise' = [m \in Messages |-> promise'[m]]
      BY DEF Tick
    <3> QED BY <1>2, <3>1
  <2>2. worker' \in [Workers -> Worker]
    <3>1. worker' = [w \in Workers |-> worker'[w]]
      BY DEF Tick
    <3> QED BY <3>1, TickWorker
  <2> QED BY <2>1, <2>2, TickWorker DEF Inv, TypeOK, Tick
<1>5. OneLatest'
  <2>1. \A w \in Workers : worker'[w].latest = worker[w].latest /\ worker'[w].msg = worker[w].msg
    BY TickWorker
  <2> QED BY <2>1 DEF Inv, OneLatest
<1>6. WorkersAreSound'
  <2>1. ASSUME NEW w \in Workers, NEW m \in Messages, worker'[w].msg = m
        PROVE  Settled(worker'[w], adrift'[m], promise'[m])
    <3>1. \A f \in {"msg", "latest", "cancelled", "hb"} : worker'[w][f] = worker[w][f]
      BY TickWorker
    <3>2. Settled(worker[w], adrift[m], promise[m]) /\ adrift' = adrift
      BY <2>1, <3>1 DEF Inv, WorkersAreSound, Tick
    <3>3. promise'[m] > 0 => promise[m] > 0
      <4>1. promise[m] \in Nat
        BY SqsAssumption DEF Inv, TypeOK
      <4> QED BY <1>1, <1>2, <4>1
    <3> QED BY <3>1, <3>2, <3>3 DEF Settled
  <2> QED BY <2>1, TickWorker DEF WorkersAreSound
<1> QED BY <1>3, <1>5, <1>6 DEF Inv

\* The invariant holds at first.
LEMMA InitInv == Init => Inv
<1> SUFFICES ASSUME Init PROVE Inv
  OBVIOUS
<1>1. [deleted |-> FALSE, visible |-> 0] \in Message /\ 0 \in 0..Backoff /\ ~(0 > 0)
  BY SqsAssumption DEF Message
<1>2. TypeOK
  BY <1>1, IdleFacts DEF Init, TypeOK
<1>3. OneLatest /\ WorkersAreSound
  BY <1>1, IdleFacts DEF Init, OneLatest, WorkersAreSound
<1> QED BY <1>2, <1>3 DEF Inv

\* The invariant is inductive.
LEMMA NextKeeps == Inv /\ [Next]_vars => Inv'
<1> SUFFICES ASSUME Inv, [Next]_vars PROVE Inv'
  OBVIOUS
<1>1. CASE UNCHANGED vars
  BY <1>1 DEF vars, Inv, TypeOK, OneLatest, WorkersAreSound
<1>2. CASE \E w \in Workers, m \in Messages : Receive(w, m)
  BY <1>2, ReceiveKeeps
<1>3. CASE \E m \in Messages : ReceiveLost(m) \/ AdriftLands(m)
  BY <1>3, ReceiveLostKeeps, AdriftLandsKeeps
<1>4. ASSUME NEW w \in Workers, Heartbeat(w) \/ TickLands(w) \/ Sink(w) \/ Gesture(w) PROVE Inv'
  <2>1. CASE Heartbeat(w)
    BY <2>1, OneWorkerKeeps, TickFailsKeeps DEF Heartbeat
  <2>2. CASE Sink(w)
    BY <2>2, OneWorkerKeeps DEF Sink
  <2>3. CASE Gesture(w)
    BY <2>3, AckKeeps, ReleaseKeeps, EndKeeps DEF Gesture
  <2> QED BY <1>4, <2>1, <2>2, <2>3, TickLandsKeeps
<1>5. CASE Crash \/ Cancel \/ Tick
  BY <1>5, CrashKeeps, CancelKeeps, TickKeeps
<1> QED BY <1>1, <1>2, <1>3, <1>4, <1>5 DEF Next

-----------------------------------------------------------------------------
(* A backoff, once asked for.                                              *)

\* Nothing is adrift for a message that is released.
Clear(m) == promise[m] > 0 => adrift[m] = {}

\* Every step leaves the backoff of a message.
LEMMA NextStands ==
    ASSUME Inv, [Next]_vars, NEW m \in Messages, Clear(m), Stands(m)
    PROVE  Clear(m)' /\ Stands(m)'
<1>1. CASE UNCHANGED <<queue, adrift, promise>>
  BY <1>1 DEF Clear, Stands
<1>2. ASSUME NEW n \in Messages, ReceiveLost(n) \/ \E w \in Workers : Receive(w, n) PROVE Clear(m)' /\ Stands(m)'
  <2>1. /\ queue' = [queue EXCEPT ![n].visible = VisibilityBase]
        /\ adrift' = [adrift EXCEPT ![n] = {}]
        /\ promise' = [promise EXCEPT ![n] = 0]
    BY <1>2 DEF ReceiveLost, Receive
  <2>2. /\ ~(0 > 0) /\ (m = n => promise'[m] = 0)
        /\ m # n => promise'[m] = promise[m] /\ queue'[m] = queue[m] /\ adrift'[m] = adrift[m]
    BY <2>1 DEF Inv, TypeOK
  <2> QED BY <2>2 DEF Clear, Stands
<1>3. ASSUME NEW n \in Messages, AdriftLands(n) PROVE Clear(m)' /\ Stands(m)'
  <2>1. PICK ask \in adrift[n] :
            /\ adrift' = [adrift EXCEPT ![n] = @ \ {ask}]
            /\ queue' = Extended(n, ask, TRUE) \/ UNCHANGED queue
    BY <1>3 DEF AdriftLands
  <2>2. promise' = promise
    BY <1>3 DEF AdriftLands
  <2>3. CASE m = n
    BY <2>1, <2>2, <2>3 DEF Clear, Stands
  <2>4. CASE m # n
    <3>1. queue'[m] = queue[m] /\ adrift'[m] = adrift[m]
      BY <2>1, <2>4 DEF Extended, Inv, TypeOK
    <3> QED BY <2>2, <3>1 DEF Clear, Stands
  <2> QED BY <2>3, <2>4
<1>4. ASSUME NEW w \in Workers, TickLands(w) PROVE Clear(m)' /\ Stands(m)'
  <2>1. UNCHANGED <<adrift, promise>>
    BY <1>4 DEF TickLands
  <2>2. CASE worker[w].msg = m /\ worker[w].latest
    <3>1. ~(promise[m] > 0)
      BY <1>4, <2>2 DEF Inv, WorkersAreSound, Settled, TickLands
    <3> QED BY <2>1, <3>1 DEF Clear, Stands
  <2>3. CASE ~(worker[w].msg = m /\ worker[w].latest)
    <3>1. queue'[m] = queue[m]
      BY <1>4, <2>3 DEF TickLands, Extended, Inv, TypeOK
    <3> QED BY <2>1, <3>1 DEF Clear, Stands
  <2> QED BY <2>2, <2>3
<1>5. ASSUME NEW w \in Workers, TickFails(w) PROVE Clear(m)' /\ Stands(m)'
  <2>1. UNCHANGED <<queue, promise>>
    BY <1>5 DEF TickFails
  <2>2. adrift'[m] = adrift[m] \/ (worker[w].hb = "calling" /\ worker[w].latest /\ worker[w].msg = m)
    BY <1>5 DEF TickFails, Inv, TypeOK
  <2>3. adrift'[m] # adrift[m] => ~(promise[m] > 0)
    BY <2>2 DEF Inv, WorkersAreSound, Settled
  <2> QED BY <2>1, <2>3 DEF Clear, Stands
<1>6. ASSUME NEW w \in Workers, Ack(w), ~UNCHANGED <<queue, adrift, promise>> PROVE Clear(m)' /\ Stands(m)'
  <2>1. /\ queue' = [queue EXCEPT ![worker[w].msg] = [deleted |-> TRUE, visible |-> 0]]
        /\ adrift' = [adrift EXCEPT ![worker[w].msg] = {}]
        /\ promise' = [promise EXCEPT ![worker[w].msg] = 0]
    BY <1>6 DEF Ack
  <2>2. /\ ~(0 > 0)
        /\ promise'[m] = 0 \/ (promise'[m] = promise[m] /\ queue'[m] = queue[m] /\ adrift'[m] = adrift[m])
    BY <2>1 DEF Inv, TypeOK
  <2> QED BY <2>2 DEF Clear, Stands
<1>7. ASSUME NEW w \in Workers, Release(w), ~UNCHANGED <<queue, adrift, promise>> PROVE Clear(m)' /\ Stands(m)'
  <2>1. /\ queue' = [queue EXCEPT ![worker[w].msg].visible = Backoff]
        /\ promise' = [promise EXCEPT ![worker[w].msg] = Backoff]
        /\ worker[w].latest /\ ~worker[w].cancelled /\ adrift' = adrift
    BY <1>7 DEF Release, Reaches
  <2>2. CASE worker[w].msg = m
    <3>1. adrift[m] = {}
      BY <2>1, <2>2 DEF Inv, WorkersAreSound, Settled
    <3>2. queue[m] \in Message
      BY DEF Inv, TypeOK
    <3>3. promise'[m] = Backoff /\ queue'[m] = [queue[m] EXCEPT !.visible = Backoff]
      BY <2>1, <2>2 DEF Inv, TypeOK
    <3> QED BY <2>1, <3>1, <3>2, <3>3 DEF Clear, Stands, Message
  <2>3. CASE worker[w].msg # m
    <3>1. promise'[m] = promise[m] /\ queue'[m] = queue[m]
      BY <2>1, <2>3 DEF Inv, TypeOK
    <3> QED BY <2>1, <3>1 DEF Clear, Stands
  <2> QED BY <2>2, <2>3
<1>8. CASE Tick
  <2>1. queue[m] \in Message /\ promise[m] \in Nat
    BY SqsAssumption DEF Inv, TypeOK
  <2>2. queue'[m].visible = Less(queue[m].visible) /\ promise'[m] = Less(promise[m]) /\ adrift' = adrift
    BY <1>8, <2>1 DEF Tick, Message
  <2>3. Less(promise[m]) > 0 => promise[m] > 0
    BY <2>1 DEF Less
  <2> QED BY <2>2, <2>3 DEF Clear, Stands
<1>9. CASE Crash
  <2>1. UNCHANGED <<queue, promise>>
    BY <1>9 DEF Crash
  <2>2. promise[m] > 0 => ~\E v \in Workers : worker[v].msg = m /\ worker[v].latest /\ worker[v].hb = "calling"
    BY DEF Inv, WorkersAreSound, Settled
  <2>3. promise[m] > 0 => adrift'[m] = adrift[m]
    BY <1>9, <2>2 DEF Crash, Inv, TypeOK
  <2> QED BY <2>1, <2>3 DEF Clear, Stands
<1>10. ASSUME NEW w \in Workers, HeartbeatStops(w) \/ HeartbeatFires(w) \/ TickReturns(w) \/ Sink(w) \/ End(w)
       PROVE  UNCHANGED <<queue, adrift, promise>>
  BY <1>10 DEF HeartbeatStops, HeartbeatFires, TickReturns, Sink, Dispose, NoGesture, End
<1>11. Cancel => UNCHANGED <<queue, adrift, promise>>
  BY DEF Cancel
<1>12. CASE Next
  BY <1>1, <1>2, <1>3, <1>4, <1>5, <1>6, <1>7, <1>8, <1>9, <1>10, <1>11, <1>12 DEF Next, Gesture, Heartbeat
<1> QED BY <1>1, <1>12 DEF vars

-----------------------------------------------------------------------------
(* The attempts that go on.                                                *)

\* A worker whose receipt is superseded depends on its message no more.
LEMMA OutOfReach ==
    ASSUME AttemptsAreCovered, NEW v \in Workers, worker[v].msg \in Messages, ~worker[v].latest, NEW q
    PROVE  Covered(worker[v], q)
  BY DEF AttemptsAreCovered, Covered

\* A step that changes one worker, and no message.
LEMMA CoverOne ==
    ASSUME Inv, AttemptsAreCovered, NEW w \in Workers, NEW u, worker' = [worker EXCEPT ![w] = u],
           UNCHANGED queue, u.msg \in Messages => Covered(u, queue[u.msg])
    PROVE  AttemptsAreCovered'
  BY DEF Inv, TypeOK, AttemptsAreCovered

\* The heartbeat and the gestures of one worker.
LEMMA HeartbeatCovers ==
    ASSUME Inv, AttemptsAreCovered, NEW w \in Workers, Heartbeat(w)
    PROVE  AttemptsAreCovered'
<1> DEFINE r == worker[w]
           q == queue[r.msg]
<1>1. r \in Worker /\ (r.stage = "idle" <=> r = Idle)
  BY WorkerFacts
<1>2. r.stage # "idle"
  BY <1>1 DEF Heartbeat, HeartbeatStops, HeartbeatFires, TickReturns, TickFails, Idle
<1>3. r.msg \in Messages /\ q \in Message /\ Covered(r, q)
  BY <1>2, WorkerFacts DEF AttemptsAreCovered
<1>4. q.visible \in Int /\ r.age \in 0..MaxVisibility /\ r.timer \in 0..HeartbeatEvery
  BY <1>1, <1>3, SqsAssumption DEF Message, Worker
<1>5. CASE HeartbeatStops(w)
  <2> DEFINE u == [r EXCEPT !.hb = "done"]
  <2>1. worker' = [worker EXCEPT ![w] = u] /\ UNCHANGED queue
    BY <1>5 DEF HeartbeatStops
  <2>2. Covered(u, q) /\ u.msg = r.msg
    BY <1>1, <1>5 DEF HeartbeatStops, Stopping, Covered, Worker
  <2> QED BY <2>1, <2>2, CoverOne
<1>6. CASE HeartbeatFires(w)
  <2>1. CASE worker' = [worker EXCEPT ![w] = [@ EXCEPT !.hb = "done", !.cancelled = TRUE]]
    <3> DEFINE u == [r EXCEPT !.hb = "done", !.cancelled = TRUE]
    <3>1. worker' = [worker EXCEPT ![w] = u] /\ UNCHANGED queue
      BY <1>6, <2>1 DEF HeartbeatFires
    <3>2. Covered(u, q) /\ u.msg = r.msg
      BY <1>1 DEF Covered, Worker
    <3> QED BY <3>1, <3>2, CoverOne
  <2>2. CASE worker' = [worker EXCEPT ![w] = [@ EXCEPT !.hb = "calling", !.timer = HeartbeatEvery, !.ask = Asked(w)]]
    <3> DEFINE u == [r EXCEPT !.hb = "calling", !.timer = HeartbeatEvery, !.ask = Asked(w)]
    <3>1. worker' = [worker EXCEPT ![w] = u] /\ UNCHANGED queue
      BY <1>6, <2>2 DEF HeartbeatFires
    <3>2. /\ u.hb = "calling" /\ u.timer = HeartbeatEvery
          /\ \A f \in {"stage", "msg", "latest", "cancelled", "age"} : u[f] = r[f]
      BY <1>1 DEF Worker
    <3>3. r.hb = "armed" /\ r.timer = 0
      BY <1>6 DEF HeartbeatFires
    <3> HIDE DEF u
    <3>4. Margin(r, q) => Margin(u, q)
      BY <1>4, <3>2, <3>3, SqsAssumption DEF Margin
    <3>5. Covered(u, q)
      BY <1>3, <3>2, <3>4 DEF Covered
    <3> QED BY <3>1, <3>2, <3>5, CoverOne
  <2> QED BY <1>6, <2>1, <2>2 DEF HeartbeatFires
<1>7. CASE TickReturns(w)
  <2> DEFINE u == [r EXCEPT !.hb = "armed", !.timer = HeartbeatEvery, !.ask = 0]
  <2>1. worker' = [worker EXCEPT ![w] = u] /\ UNCHANGED queue
    BY <1>7 DEF TickReturns
  <2>2. /\ u.hb = "armed" /\ u.timer = HeartbeatEvery
        /\ \A f \in {"stage", "msg", "latest", "cancelled", "age"} : u[f] = r[f]
    BY <1>1 DEF Worker
  <2> HIDE DEF u
  <2>3. Margin(r, q) => Margin(u, q)
    BY <1>4, <1>7, <2>2, SqsAssumption DEF Margin, TickReturns
  <2>4. Covered(u, q)
    BY <1>3, <2>2, <2>3 DEF Covered
  <2> QED BY <2>1, <2>2, <2>4, CoverOne
<1>8. CASE TickFails(w)
  <2> DEFINE u == [r EXCEPT !.hb = "done", !.cancelled = TRUE, !.timer = 0, !.ask = 0]
  <2>1. worker' = [worker EXCEPT ![w] = u] /\ UNCHANGED queue
    BY <1>8 DEF TickFails
  <2>2. Covered(u, q) /\ u.msg = r.msg
    BY <1>1 DEF Covered, Worker
  <2> QED BY <2>1, <2>2, CoverOne
<1> QED BY <1>5, <1>6, <1>7, <1>8 DEF Heartbeat

\* A tick that is applied renews the margin.
LEMMA TickLandsCovers ==
    ASSUME Inv, AttemptsAreCovered, NEW w \in Workers, TickLands(w)
    PROVE  AttemptsAreCovered'
<1> DEFINE r == worker[w]
           m == r.msg
           q == queue[m]
           u == [r EXCEPT !.hb = "landed"]
<1>1. r \in Worker /\ Placed(r) /\ (r.stage = "idle" <=> r = Idle) /\ r.hb = "calling"
  BY WorkerFacts DEF TickLands
<1>2. r.stage # "idle"
  BY <1>1 DEF Idle
<1>3. m \in Messages /\ q \in Message /\ Covered(r, q)
  BY <1>2, WorkerFacts DEF AttemptsAreCovered
<1>4. q.visible \in Int /\ r.age \in 0..MaxVisibility /\ r.timer \in 0..HeartbeatEvery /\ r.ask \in Int
  BY <1>1, <1>3, SqsAssumption DEF Message, Worker, Placed, Ask
<1>5. /\ u.hb = "landed"
      /\ \A f \in {"stage", "msg", "latest", "cancelled", "age", "timer"} : u[f] = r[f]
  BY <1>1 DEF Worker
<1>6. worker' = [worker EXCEPT ![w] = u]
  BY DEF TickLands
<1> HIDE DEF u
<1>7. CASE ~(r.latest /\ ~q.deleted)
  <2>1. UNCHANGED queue
    BY <1>7 DEF TickLands, Extended
  <2>2. Covered(u, q)
    BY <1>3, <1>5, <1>7 DEF Covered
  <2> QED BY <1>5, <1>6, <2>1, <2>2, CoverOne
<1>8. CASE r.latest /\ ~q.deleted
  <2> DEFINE p == [q EXCEPT !.visible = r.ask]
  <2>1. queue' = [queue EXCEPT ![m] = p] /\ p.visible = r.ask
    BY <1>3, <1>8 DEF TickLands, Extended, Message
  <2> HIDE DEF p
  <2>2. Margin(u, p)
    BY <1>1, <1>4, <1>5, <2>1, SqsAssumption DEF Margin, Placed
  <2>3. Covered(u, p)
    BY <1>5, <1>8, <2>2 DEF Covered
  <2>4. ASSUME NEW v \in Workers, NEW n \in Messages, worker'[v].msg = n
        PROVE  Covered(worker'[v], queue'[n])
    <3>1. CASE v = w
      BY <1>3, <1>5, <1>6, <2>1, <2>3, <2>4, <3>1 DEF Inv, TypeOK
    <3>2. CASE v # w
      <4>1. worker'[v] = worker[v]
        BY <1>6, <3>2 DEF Inv, TypeOK
      <4>2. CASE n = m
        BY <1>3, <1>8, <2>4, <3>2, <4>1, <4>2, OutOfReach DEF Inv, OneLatest
      <4>3. CASE n # m
        <5>1. queue'[n] = queue[n]
          BY <2>1, <4>3 DEF Inv, TypeOK
        <5> QED BY <2>4, <4>1, <5>1 DEF AttemptsAreCovered
      <4> QED BY <4>2, <4>3
    <3> QED BY <3>1, <3>2
  <2> QED BY <2>4 DEF AttemptsAreCovered
<1> QED BY <1>7, <1>8

\* The sink asks for its gesture or fails, and the slot is freed.
LEMMA SinkCovers ==
    ASSUME Inv, AttemptsAreCovered, NEW w \in Workers, Sink(w) \/ End(w)
    PROVE  AttemptsAreCovered'
<1>1. worker[w] \in Worker
  BY WorkerFacts
<1>2. PICK u : worker' = [worker EXCEPT ![w] = u] /\ u.stage # "handling" /\ queue' = queue
  <2>1. CASE Dispose(w, "ack")
    <3>1. [worker[w] EXCEPT !.stage = "ack"].stage = "ack"
      BY <1>1 DEF Worker
    <3> QED BY <2>1, <3>1 DEF Dispose
  <2>2. CASE Dispose(w, "release")
    <3>1. [worker[w] EXCEPT !.stage = "release"].stage = "release"
      BY <1>1 DEF Worker
    <3> QED BY <2>2, <3>1 DEF Dispose
  <2>3. CASE NoGesture(w)
    <3>1. [worker[w] EXCEPT !.stage = "ending", !.cancelled = TRUE].stage = "ending"
      BY <1>1 DEF Worker
    <3> QED BY <2>3, <3>1 DEF NoGesture
  <2>4. CASE End(w)
    BY <2>4, IdleFacts DEF End
  <2> QED BY <2>1, <2>2, <2>3, <2>4 DEF Sink
<1>3. Covered(u, queue[u.msg])
  BY <1>2 DEF Covered
<1> QED BY <1>2, <1>3, CoverOne

\* A gesture concerns no attempt of another worker that goes on.
LEMMA GestureCovers ==
    ASSUME Inv, AttemptsAreCovered, NEW w \in Workers, Ack(w) \/ Release(w)
    PROVE  AttemptsAreCovered'
<1> DEFINE r == worker[w]
           m == r.msg
<1>1. r \in Worker /\ (r.stage = "idle" <=> r = Idle)
  BY WorkerFacts
<1>2. r.stage # "idle"
  BY <1>1 DEF Ack, Release
<1>3. m \in Messages /\ queue[m] \in Message
  BY <1>2, WorkerFacts
<1>4. worker'[w].stage = "ending" /\ \A v \in Workers : v # w => worker'[v] = worker[v]
  <2> DEFINE u == [r EXCEPT !.stage = "ending", !.cancelled = TRUE]
  <2>1. u.stage = "ending"
    BY <1>1 DEF Worker
  <2>2. worker' = [worker EXCEPT ![w] = u]
    BY DEF Ack, Release
  <2> HIDE DEF u
  <2> QED BY <2>1, <2>2 DEF Inv, TypeOK
<1>5. ASSUME NEW v \in Workers, NEW n \in Messages, worker'[v].msg = n
      PROVE  Covered(worker'[v], queue'[n])
  <2>1. CASE v = w
    BY <1>4, <2>1 DEF Covered
  <2>2. CASE v # w
    <3>1. worker'[v] = worker[v] /\ worker[v].msg = n /\ Covered(worker[v], queue[n])
      BY <1>4, <1>5, <2>2 DEF AttemptsAreCovered
    <3>2. CASE queue'[n] = queue[n]
      BY <3>1, <3>2
    <3>3. CASE queue'[n] # queue[n] /\ Ack(w)
      <4>1. queue'[n].deleted
        BY <1>3, <3>3 DEF Ack, Inv, TypeOK
      <4> QED BY <3>1, <4>1 DEF Covered
    <3>4. CASE queue'[n] # queue[n] /\ Release(w)
      <4>1. n = m /\ r.latest
        BY <1>3, <3>4 DEF Release, Inv, TypeOK
      <4>2. ~worker[v].latest
        BY <2>2, <3>1, <4>1 DEF Inv, OneLatest
      <4> QED BY <3>1, <4>2, OutOfReach
    <3> QED BY <3>2, <3>3, <3>4
  <2> QED BY <2>1, <2>2
<1> QED BY <1>5 DEF AttemptsAreCovered

\* A message that may be received has, when three intervals fit, no attempt that goes on
\* below the ceiling.
LEMMA ReceivableIsFree ==
    ASSUME Inv, AttemptsAreCovered, NEW m \in Receivable, NEW v \in Workers, worker[v].msg = m,
           worker[v].stage = "handling", ~worker[v].cancelled
    PROVE  (Fits => worker[v].age = MaxVisibility) /\ worker[v].hb # "done"
<1>1. m \in Messages /\ ~queue[m].deleted /\ queue[m].visible = 0
  BY DEF Receivable
<1>2. Covered(worker[v], queue[m])
  BY <1>1 DEF AttemptsAreCovered
<1>3. worker[v].age \in 0..MaxVisibility /\ worker[v].timer \in 0..HeartbeatEvery
  BY WorkerFacts DEF Worker
<1>4. Fits /\ Margin(worker[v], queue[m]) => worker[v].age = MaxVisibility
  BY <1>1, <1>3, SqsAssumption DEF Margin, Fits
<1> QED BY <1>1, <1>2, <1>4 DEF Covered

\* So a new receipt then supersedes none that goes on.
LEMMA SupersededIsCovered ==
    ASSUME Inv, AttemptsAreCovered, NEW m \in Receivable, NEW v \in Workers, worker[v].msg = m, NEW q
    PROVE  Covered(Supersede(worker, m)[v], q)
<1> DEFINE u == [worker[v] EXCEPT !.latest = FALSE]
<1>1. Supersede(worker, m)[v] = u
  BY DEF Supersede
<1>2. \A f \in {"stage", "cancelled", "age", "hb"} : u[f] = worker[v][f]
  BY WorkerFacts DEF Worker
<1> HIDE DEF u
<1>3. ~u.latest
  BY WorkerFacts DEF u, Worker
<1>4. Covered(u, q)
  BY <1>2, <1>3, ReceivableIsFree DEF Covered
<1> QED BY <1>1, <1>4

\* A receipt starts with the whole visibility.
LEMMA ReceiveCovers ==
    ASSUME Inv, AttemptsAreCovered, NEW m \in Messages,
           ReceiveLost(m) \/ \E w \in Workers : Receive(w, m)
    PROVE  AttemptsAreCovered'
<1>1. m \in Receivable /\ queue' = [queue EXCEPT ![m].visible = VisibilityBase]
  BY DEF ReceiveLost, Receive
<1>2. queue'[m].visible = VisibilityBase /\ \A n \in Messages : n # m => queue'[n] = queue[n]
  BY <1>1 DEF Inv, TypeOK, Message
<1>3. \A v \in Workers : \/ worker'[v] = Supersede(worker, m)[v]
                         \/ worker'[v] = Started(m)
  <2>1. CASE ReceiveLost(m)
    BY <2>1 DEF ReceiveLost
  <2>2. ASSUME NEW w \in Workers, Receive(w, m)
        PROVE  \A v \in Workers : worker'[v] = Supersede(worker, m)[v] \/ worker'[v] = Started(m)
    <3> DEFINE f == Supersede(worker, m)
    <3>1. worker' = [f EXCEPT ![w] = Started(m)] /\ DOMAIN f = Workers
      BY <2>2 DEF Receive, Started, Supersede
    <3> HIDE DEF f
    <3>2. \A v \in Workers : worker'[v] = f[v] \/ worker'[v] = Started(m)
      BY <3>1
    <3> QED BY <3>2 DEF f
  <2> QED BY <2>1, <2>2
<1>4. ASSUME NEW v \in Workers, NEW n \in Messages, worker'[v].msg = n
      PROVE  Covered(worker'[v], queue'[n])
  <2>1. CASE worker'[v] = Started(m)
    <3>1. n = m /\ Margin(Started(m), queue'[m])
      BY <1>2, <1>4, <2>1, StartedFacts, SqsAssumption DEF Margin
    <3> QED BY <2>1, <3>1, StartedFacts DEF Covered
  <2>2. CASE worker'[v] = Supersede(worker, m)[v]
    <3>1. worker[v].msg = n
      <4>1. worker[v] \in Worker
        BY WorkerFacts
      <4> QED BY <1>4, <2>2, <4>1 DEF Supersede, Worker
    <3>2. CASE n = m
      BY <1>1, <2>2, <3>1, <3>2, SupersededIsCovered
    <3>3. CASE n # m
      <4>1. worker'[v] = worker[v] /\ queue'[n] = queue[n]
        BY <1>2, <2>2, <3>1, <3>3 DEF Supersede
      <4> QED BY <3>1, <4>1 DEF AttemptsAreCovered
    <3> QED BY <3>2, <3>3
  <2> QED BY <1>3, <2>1, <2>2
<1> QED BY <1>4 DEF AttemptsAreCovered

\* What is adrift changes the visibility of no attempt that goes on.
LEMMA AdriftLandsCovers ==
    ASSUME Inv, AttemptsAreCovered, NEW m \in Messages, AdriftLands(m)
    PROVE  AttemptsAreCovered'
<1>1. adrift[m] # {} /\ worker' = worker /\ \A n \in Messages : n # m => queue'[n] = queue[n]
  BY DEF AdriftLands, Extended, Inv, TypeOK
<1>2. ASSUME NEW v \in Workers, NEW n \in Messages, worker[v].msg = n
      PROVE  Covered(worker[v], queue'[n])
  <2>1. CASE n # m
    BY <1>1, <1>2, <2>1 DEF AttemptsAreCovered
  <2>2. CASE n = m
    <3>1. Settled(worker[v], adrift[m], promise[m])
      BY <1>2, <2>2 DEF Inv, WorkersAreSound
    <3>2. CASE worker[v].latest
      BY <1>1, <3>1, <3>2 DEF Settled, Covered
    <3>3. CASE ~worker[v].latest
      BY <1>2, <3>3, OutOfReach
    <3> QED BY <3>2, <3>3
  <2> QED BY <2>1, <2>2
<1> QED BY <1>1, <1>2 DEF AttemptsAreCovered

\* No attempt goes on.
LEMMA CrashCovers ==
    ASSUME Inv, Crash \/ Cancel
    PROVE  AttemptsAreCovered'
<1>1. ASSUME NEW v \in Workers PROVE worker'[v].stage = "idle" \/ worker'[v].cancelled
  <2>1. worker[v] \in Worker
    BY WorkerFacts
  <2>2. CASE Crash
    BY <2>2, IdleFacts DEF Crash
  <2>3. CASE Cancel
    <3>1. (worker'[v] = worker[v] /\ worker[v].stage = "idle") \/ worker'[v] = [worker[v] EXCEPT !.cancelled = TRUE]
      BY <2>3 DEF Cancel
    <3> QED BY <2>1, <3>1 DEF Worker
  <2> QED BY <2>2, <2>3
<1> QED BY <1>1 DEF AttemptsAreCovered, Covered

\* Time takes the same from the visibility as from the timer, and gives it to the age.
LEMMA TickCovers ==
    ASSUME Inv, AttemptsAreCovered, Tick
    PROVE  AttemptsAreCovered'
<1> SUFFICES ASSUME NEW v \in Workers, NEW m \in Messages, worker'[v].msg = m
             PROVE  Covered(worker'[v], queue'[m])
  BY DEF AttemptsAreCovered
<1> DEFINE r == worker[v]
           u == worker'[v]
           q == queue[m]
           p == queue'[m]
<1>1. /\ \A f \in {"stage", "msg", "latest", "cancelled", "hb"} : u[f] = r[f]
      /\ r.stage # "idle" => /\ u.age = IF r.age < MaxVisibility THEN r.age + 1 ELSE r.age
                             /\ u.timer = Less(r.timer)
  BY TickWorker
<1>2. r \in Worker /\ Covered(r, q) /\ q \in Message
  BY <1>1, WorkerFacts DEF AttemptsAreCovered, Inv, TypeOK
<1>3. p.deleted = q.deleted /\ p.visible = Less(q.visible)
  BY <1>2 DEF Tick, Message
<1>4. CASE r.stage = "handling" /\ ~r.cancelled
  <2>1. r.hb # "done" /\ r.timer > 0
    <3>1. Quiet(v)
      BY DEF Tick
    <3>2. r.hb # "done" /\ r.hb \in {"armed", "calling", "landed", "done"}
      BY <1>2, <1>4 DEF Covered, Worker
    <3> QED BY <3>1, <3>2 DEF Quiet
  <2>2. /\ q.visible \in Nat /\ r.age \in Nat /\ r.age <= MaxVisibility /\ r.timer \in Nat
        /\ r.timer <= HeartbeatEvery
    BY <1>2, SqsAssumption DEF Message, Worker
  <2>3. p.visible \in Nat /\ u.timer = r.timer - 1 /\ (q.visible > 0 => p.visible = q.visible - 1)
        /\ (q.visible = 0 => p.visible = 0)
    BY <1>1, <1>3, <1>4, <2>1, <2>2 DEF Less
  <2>4. CASE r.age = MaxVisibility
    BY <1>1, <1>4, <2>1, <2>4, SqsAssumption DEF Covered
  <2>5. CASE r.age < MaxVisibility
    <3>1. u.age = r.age + 1
      BY <1>1, <1>4, <2>5
    <3>2. Margin(r, q) => Margin(u, p)
      <4>1. r.hb = u.hb
        BY <1>1
      <4> HIDE DEF r, u, q, p
      <4> QED BY <2>1, <2>2, <2>3, <2>5, <3>1, <4>1, SqsAssumption DEF Margin
    <3> QED BY <1>1, <1>2, <1>3, <1>4, <2>1, <2>5, <3>2, SqsAssumption DEF Covered
  <2> QED BY <2>2, <2>4, <2>5, SqsAssumption
<1>5. CASE ~(r.stage = "handling" /\ ~r.cancelled)
  BY <1>1, <1>5 DEF Covered
<1> QED BY <1>4, <1>5

\* Every step keeps the attempts covered.
LEMMA NextCovers ==
    ASSUME Inv, AttemptsAreCovered, [Next]_vars
    PROVE  AttemptsAreCovered'
<1>1. CASE UNCHANGED vars
  BY <1>1 DEF vars, AttemptsAreCovered
<1>2. CASE \E w \in Workers, m \in Messages : Receive(w, m)
  BY <1>2, ReceiveCovers
<1>3. CASE \E m \in Messages : ReceiveLost(m) \/ AdriftLands(m)
  BY <1>3, ReceiveCovers, AdriftLandsCovers
<1>4. CASE \E w \in Workers : Heartbeat(w) \/ TickLands(w) \/ Sink(w) \/ Gesture(w)
  BY <1>4, HeartbeatCovers, TickLandsCovers, SinkCovers, GestureCovers DEF Gesture
<1>5. CASE Crash \/ Cancel \/ Tick
  BY <1>5, CrashCovers, TickCovers
<1> QED BY <1>1, <1>2, <1>3, <1>4, <1>5 DEF Next

-----------------------------------------------------------------------------
(* The theorems.                                                           *)

\* The inductive invariant, for any durations the code accepts.
THEOREM Invariance == Spec => []Inv
<1> QED BY InitInv, NextKeeps, PTL DEF Spec

\* A released message comes back after its backoff (acknowledger.go Release, heartbeat.go
\* Stop), also when an extension was given up, for any durations the code accepts.
THEOREM ReleasesStand == Spec => []ReleaseStands
<1> DEFINE Kept == \A m \in Messages : Clear(m) /\ Stands(m)
<1>1. Init => Kept
  <2>1. ~(0 > 0)
    OBVIOUS
  <2> QED BY <2>1 DEF Init, Clear, Stands
<1>2. Inv /\ Kept /\ [Next]_vars => Kept'
  BY NextStands
<1>3. Kept => ReleaseStands
  BY DEF ReleaseStands
<1> QED BY <1>1, <1>2, <1>3, Invariance, PTL DEF Spec

\* The margin of the attempts that go on, for any durations the code accepts.
LEMMA Coverage == Spec => []AttemptsAreCovered
<1>1. Init => AttemptsAreCovered
  BY IdleFacts DEF Init, AttemptsAreCovered
<1>2. Inv /\ AttemptsAreCovered /\ [Next]_vars => AttemptsAreCovered'
  BY NextCovers
<1> QED BY <1>1, <1>2, Invariance, PTL DEF Spec

\* What is known of a live attempt.
LEMMA LiveFacts ==
    ASSUME Inv, AttemptsAreCovered, NEW w \in Workers, Live(w)
    PROVE  /\ Fits => worker[w].latest
           /\ worker[w].latest /\ worker[w].hb # "calling" =>
                 queue[worker[w].msg].deleted \/ queue[worker[w].msg].visible > 0
<1> DEFINE r == worker[w]
           q == queue[r.msg]
<1>1. r.stage = "handling" /\ ~r.cancelled /\ r.age < ProcessingDeadline
  BY DEF Live
<1>2. r \in Worker /\ r.msg \in Messages /\ q \in Message /\ Covered(r, q)
  BY <1>1, WorkerFacts DEF AttemptsAreCovered
<1>3. r.age \in Nat /\ r.timer \in Nat /\ q.visible \in Nat
  BY <1>2, SqsAssumption DEF Worker, Message
<1>4. r.age < MaxVisibility
  BY <1>1, <1>3, SqsAssumption
<1>5. r.hb # "done" /\ r.timer > 0
  <2>1. r.hb # "done" /\ r.hb \in {"armed", "calling", "landed", "done"}
    BY <1>1, <1>2 DEF Covered, Worker
  <2> QED BY <2>1 DEF Live, Quiet
<1>6. Margin(r, q) /\ r.hb # "calling" => q.visible > 0
  <2> HIDE DEF r, q
  <2> QED BY <1>3, <1>4, <1>5, SqsAssumption DEF Margin
<1>7. r.age # MaxVisibility
  BY <1>3, <1>4, SqsAssumption
<1> QED BY <1>1, <1>2, <1>6, <1>7 DEF Covered

\* Between two ticks the message of a live attempt is invisible (consumer.go Validate,
\* heartbeat.go), for any durations the code accepts.
THEOREM ReceiptsAreKept == Spec => []ReceiptInv
<1>1. Inv /\ AttemptsAreCovered => ReceiptInv
  BY LiveFacts DEF Inv, ReceiptInv, InvisibleBetweenTicks
<1> QED BY <1>1, Invariance, Coverage, PTL

\* Two live attempts never have one message when three heartbeat intervals are less than
\* the visibility asked for, which is more than Validate asks (consumer.go).
THEOREM ThreeIntervalsSuffice ==
    ASSUME VisibilityBase > 3 * HeartbeatEvery
    PROVE  Spec => []LiveIsAlone
<1>1. Fits
  BY DEF Fits
<1>2. Inv /\ AttemptsAreCovered => LiveIsAlone
  BY <1>1, LiveFacts DEF Inv, LiveIsAlone, OneLatest
<1> QED BY <1>2, Invariance, Coverage, PTL

=============================================================================
