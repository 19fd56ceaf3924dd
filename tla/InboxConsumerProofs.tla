------------------------ MODULE InboxConsumerProofs ------------------------
(***************************************************************************)
(* The theorems about InboxConsumer.  The argument: an uncommitted row     *)
(* keeps every other transaction off its key (KeyMutex), so a transaction  *)
(* that registered first still finds no committed row when it commits      *)
(* (OpenFresh); a purged key has nothing left in flight (PurgedGone); and  *)
(* a worker owes the broker a confirmation only for a settled envelope     *)
(* (AckOwed).                                                              *)
(***************************************************************************)
EXTENDS InboxConsumer, FiniteSetTheorems, TLAPS

\* A worker that is not idle holds an item.
Busy == \A w \in Workers : stage[w] # "idle" => item[w] \in Items

\* Two open transactions never have the same key.
KeyMutex ==
    \A v, w \in Workers :
        v # w /\ stage[v] \in Open /\ stage[w] \in Open => Key(v) # Key(w)

\* The key of an open transaction has no committed row and no effect.
OpenFresh ==
    \A w \in Workers :
        stage[w] \in Open => inbox[Key(w)] = NoRow /\ effects[Key(w)] = 0

\* Nothing of a purged key can be delivered or is being worked on.
PurgedGone ==
    \A k \in purged :
        /\ \A i \in Items : KeyOf[i[1]] = k => queue[i] # "queued"
        /\ \A w \in Workers : stage[w] # "idle" => Key(w) # k

\* A confirmation is owed only for a settled envelope.
AckOwed == \A w \in Workers : stage[w] = "ack" => Settled(item[w][1])

\* The one transaction that wrote the aggregate read the version it has.
VersionHeld ==
    \A w \in Workers : stage[w] = "processing" =>
        /\ loaded[w] = version
        /\ \A v \in Workers \ {w} : stage[v] # "processing"

Safe == EffectsMatchRows /\ NothingLost
Held == Busy /\ KeyMutex /\ OpenFresh /\ PurgedGone /\ AckOwed
Inv  == TypeOK /\ Held /\ Safe

-----------------------------------------------------------------------------

\* A worker that holds an item holds a key, a hash and a kind.
LEMMA KeyTyped ==
    ASSUME TypeOK, Busy, NEW w \in Workers, stage[w] # "idle"
    PROVE  /\ item[w] \in Items
           /\ item[w][1] \in Envelopes
           /\ Key(w) \in Keys
           /\ Hash(w) \in Hashes
  BY ConsumerAssumption DEF Busy, Items, Key, Hash, ConsumerAssumption

\* A gesture is one of three, and an ack is owed for four dispositions only.
LEMMA GestureFacts ==
    ASSUME NEW d \in Dispositions, NEW n \in Nat
    PROVE  /\ Gesture(d, n) \in {"ack", "contain", "release"}
           /\ d \in {"R1D3", "R1D4", "R4"} => Gesture(d, n) # "ack"
  BY DEF Gesture, Exhausted, Dispositions

\* Init establishes the type invariant.
LEMMA InitTyped == Init => TypeOK
  BY ConsumerAssumption
  DEF Init, TypeOK, Items, Rows, NoRow, Stages, ConsumerAssumption

\* The pieces the actions are made of keep the types.
LEMMA ReturnTyped ==
    ASSUME TypeOK, NEW w \in Workers, NEW d \in Dispositions, Return(w, d)
    PROVE  /\ stage' \in [Workers -> Stages]
           /\ verdict' \in [Workers -> Dispositions \cup {"none"}]
  <1>1. attempt[w] \in Nat
    BY ConsumerAssumption DEF TypeOK, ConsumerAssumption
  <1>2. Gesture(d, attempt[w]) \in Stages
    BY <1>1, GestureFacts DEF Stages
  <1> QED
    BY <1>2 DEF TypeOK, Return, Goto

LEMMA LeaveTyped ==
    ASSUME TypeOK, NEW w \in Workers, Leave(w)
    PROVE  /\ stage' \in [Workers -> Stages]
           /\ item' \in [Workers -> Items \cup {NoItem}]
           /\ attempt' \in [Workers -> 0..MaxAttempts]
           /\ loaded' \in [Workers -> Nat]
           /\ verdict' \in [Workers -> Dispositions \cup {"none"}]
  BY ConsumerAssumption DEF TypeOK, Leave, Goto, Stages, ConsumerAssumption

LEMMA CommittedTyped ==
    ASSUME TypeOK, Busy, NEW w \in Workers, stage[w] # "idle", Committed(w)
    PROVE  /\ inbox' \in [Keys -> Rows]
           /\ purged' \subseteq Keys
           /\ version' \in Nat
           /\ effects' \in [Keys -> Nat]
  <1>1. Key(w) \in Keys /\ Hash(w) \in Hashes
    BY KeyTyped
  <1>2. loaded[w] \in Nat
    BY DEF TypeOK
  <1>3. inbox' \in [Keys -> Rows]
    BY <1>1 DEF Committed, TypeOK, Rows
  <1>4. version' \in Nat /\ effects' \in [Keys -> Nat]
    <2>1. CASE stage[w] = "processing"
      <3>1. effects[Key(w)] + 1 \in Nat
        BY <1>1 DEF TypeOK
      <3> QED
        BY <1>1, <1>2, <2>1, <3>1 DEF Committed, TypeOK
    <2>2. CASE stage[w] # "processing"
      BY <2>2 DEF Committed, TypeOK
    <2> QED BY <2>1, <2>2
  <1> QED
    BY <1>3, <1>4 DEF Committed, TypeOK

LEMMA UpsetTyped == ASSUME TypeOK, Upset PROVE upsets' \in 0..MaxUpsets
  BY ConsumerAssumption DEF TypeOK, Upset, ConsumerAssumption

LEMMA NextTyped ==
    ASSUME TypeOK, Busy, [Next]_vars
    PROVE  TypeOK'
  <1> USE DEF db, brokerVars, workVars
  <1>1. ASSUME NEW i \in Items, Publish(i) PROVE TypeOK'
    BY <1>1 DEF Publish, TypeOK
  <1>2. ASSUME NEW w \in Workers, NEW i \in Items, Deliver(w, i) PROVE TypeOK'
    <2>1. PICK n \in {deliveries[i], 0} :
            /\ IF n # deliveries[i] \/ \E v \in Workers : item[v] = i
               THEN Upset ELSE UNCHANGED upsets
            /\ deliveries' = [deliveries EXCEPT ![i] = Counted(n)]
            /\ attempt' = [attempt EXCEPT ![w] = Counted(n)]
      BY <1>2 DEF Deliver
    <2>2. Counted(n) \in 0..MaxAttempts
      BY <2>1, ConsumerAssumption DEF TypeOK, Counted, ConsumerAssumption
    <2>3. upsets' \in 0..MaxUpsets
      BY <2>1, UpsetTyped DEF TypeOK
    <2>4. stage' \in [Workers -> Stages]
      <3>1. KindOf[i[1]] \in Kinds
        BY ConsumerAssumption DEF Items, ConsumerAssumption
      <3>2. FirstStage[KindOf[i[1]]] \in Stages
        BY <3>1 DEF Kinds, FirstStage, Stages
      <3> QED
        BY <1>2, <3>2 DEF Deliver, Goto, TypeOK
    <2>5. item' \in [Workers -> Items \cup {NoItem}]
      BY <1>2 DEF Deliver, TypeOK
    <2> QED
      BY <1>2, <2>1, <2>2, <2>3, <2>4, <2>5 DEF Deliver, TypeOK
  <1>3. ASSUME NEW w \in Workers, Register(w) PROVE TypeOK'
    <2>1. Reception(w) \in {"R1", "R2", "R3", "R4"}
      BY DEF Reception
    <2>2. CASE Reception(w) = "R1"
      BY <1>3, <2>2 DEF Register, Goto, TypeOK, Stages
    <2>3. CASE Reception(w) # "R1"
      <3>1. Reception(w) \in Dispositions
        BY <2>1, <2>3 DEF Dispositions
      <3>2. Return(w, Reception(w))
        BY <1>3, <2>3 DEF Register
      <3> HIDE DEF Return, Reception
      <3> QED
        BY <1>3, <3>1, <3>2, ReturnTyped DEF Register, TypeOK
    <2> QED BY <2>2, <2>3
  <1>4. ASSUME NEW w \in Workers, RegisterTimeout(w) PROVE TypeOK'
    BY <1>4, ReturnTyped, UpsetTyped DEF RegisterTimeout, TypeOK, Dispositions
  <1>5. ASSUME NEW w \in Workers, Load(w) PROVE TypeOK'
    BY <1>5 DEF Load, Goto, TypeOK, Stages
  <1>6. ASSUME NEW w \in Workers, Reject(w) PROVE TypeOK'
    BY <1>6 DEF Reject, Goto, TypeOK, Stages
  <1>7. ASSUME NEW w \in Workers, Save(w) PROVE TypeOK'
    <2>1. CASE loaded[w] = version
      BY <1>7, <2>1 DEF Save, Goto, TypeOK, Stages
    <2>2. CASE loaded[w] # version
      BY <1>7, <2>2, ReturnTyped DEF Save, TypeOK, Dispositions
    <2> QED BY <2>1, <2>2
  <1>8. ASSUME NEW w \in Workers, Commit(w) PROVE TypeOK'
    <2>1. stage[w] # "idle" /\ Committed(w)
      BY <1>8 DEF Commit
    <2>2. PICK d \in Dispositions : Return(w, d)
      BY <1>8 DEF Commit, Dispositions
    <2> QED
      BY <1>8, <2>1, <2>2, ReturnTyped, CommittedTyped DEF Commit, TypeOK
  <1>9. ASSUME NEW w \in Workers, NEW d \in {"R1D3", "R1D4"}, CommitAnswerLost(w, d)
        PROVE TypeOK'
    <2>1. stage[w] # "idle" /\ Committed(w) /\ Upset /\ Return(w, d) /\ d \in Dispositions
      BY <1>9 DEF CommitAnswerLost, Dispositions
    <2> QED
      BY <1>9, <2>1, ReturnTyped, CommittedTyped, UpsetTyped DEF CommitAnswerLost, TypeOK
  <1>10. ASSUME NEW w \in Workers, NEW d \in {"R1D3", "R1D4"}, Fail(w, d) PROVE TypeOK'
    BY <1>10, ReturnTyped, UpsetTyped DEF Fail, TypeOK, Dispositions
  <1>11. ASSUME NEW w \in Workers, Contain(w) PROVE TypeOK'
    <2>1. item[w][1] \in Envelopes
      BY <1>11, KeyTyped DEF Contain
    <2>2. CASE /\ quarantine' = quarantine \cup {item[w][1]}
               /\ Goto(w, "ack")
               /\ UNCHANGED <<item, attempt, loaded, verdict, upsets>>
      BY <1>11, <2>1, <2>2 DEF Contain, Goto, TypeOK, Stages
    <2>3. CASE /\ Upset
               /\ quarantine' \in {quarantine, quarantine \cup {item[w][1]}}
               /\ Leave(w)
      <3>1. quarantine' \subseteq Envelopes
        BY <2>1, <2>3 DEF TypeOK
      <3> QED
        BY <1>11, <2>3, <3>1, LeaveTyped, UpsetTyped DEF Contain, TypeOK
    <2> QED BY <1>11, <2>2, <2>3 DEF Contain
  <1>12. ASSUME NEW w \in Workers, Ack(w) PROVE TypeOK'
    <2>1. queue' \in [Items -> {"unsent", "queued", "confirmed"}]
      BY <1>12 DEF Ack, TypeOK
    <2>2. upsets' \in 0..MaxUpsets
      BY <1>12, UpsetTyped DEF Ack, TypeOK
    <2> QED
      BY <1>12, <2>1, <2>2, LeaveTyped DEF Ack, TypeOK
  <1>13. ASSUME NEW w \in Workers, Release(w) PROVE TypeOK'
    BY <1>13, LeaveTyped DEF Release, TypeOK
  <1>14. ASSUME NEW w \in Workers, Crash(w) PROVE TypeOK'
    BY <1>14, LeaveTyped, UpsetTyped DEF Crash, TypeOK
  <1>15. ASSUME NEW k \in Keys, PurgeInbox(k) PROVE TypeOK'
    BY <1>15 DEF PurgeInbox, TypeOK, Rows
  <1>16. CASE UNCHANGED vars
    BY <1>16 DEF vars, TypeOK
  <1> QED
    BY <1>1, <1>2, <1>3, <1>4, <1>5, <1>6, <1>7, <1>8, <1>9, <1>10, <1>11, <1>12,
       <1>13, <1>14, <1>15, <1>16 DEF Next, Work, Environment

-----------------------------------------------------------------------------
(* The invariant, by kinds of step.                                        *)

\* A step of w inside Consume that commits nothing to the inbox: it may enter a
\* transaction only on a free key without a row, and owe an ack only for a
\* settled envelope.
Inside(w) ==
    /\ stage[w] # "idle"
    /\ stage' = [stage EXCEPT ![w] = stage'[w]]
    /\ stage'[w] # "idle"
    /\ stage'[w] \in Open /\ stage[w] \notin Open =>
         KeyFree(w) /\ inbox[Key(w)].status = "absent"
    /\ stage'[w] = "ack" => \/ item[w][1] \in quarantine'
                            \/ inbox[Key(w)].hash = Hash(w)
    /\ quarantine \subseteq quarantine'
    /\ UNCHANGED <<item, inbox, purged, effects, queue>>

LEMMA InsideKeeps ==
    ASSUME Inv, TypeOK', NEW w \in Workers, Inside(w)
    PROVE  Held' /\ Safe'
  <1> USE DEF Inv
  <1>1. Key(w) \in Keys /\ item[w] \in Items
    BY KeyTyped DEF Held, Inside
  <1>2. \A v \in Workers : v # w => stage'[v] = stage[v]
    BY DEF Inside, TypeOK
  <1>3. \A v \in Workers : Key(v)' = Key(v)
    BY DEF Inside, Key
  <1>4. \A e \in Envelopes : Settled(e) => Settled(e)'
    BY DEF Inside, Settled
  <1>5. \A v \in Workers : stage[v] # "idle" <=> stage'[v] # "idle"
    BY <1>2 DEF Inside
  <1>6. Busy'
    BY <1>5 DEF Held, Busy, Inside, Items
  <1>7. KeyMutex'
    <2> SUFFICES ASSUME NEW u \in Workers, NEW v \in Workers, u # v,
                        stage'[u] \in Open, stage'[v] \in Open
                 PROVE  Key(u) # Key(v)
      BY <1>3 DEF KeyMutex, Open
    <2>1. CASE stage[u] \in Open /\ stage[v] \in Open
      BY <2>1 DEF Held, KeyMutex
    <2>2. CASE u = w /\ stage[u] \notin Open
      BY <1>2, <2>2 DEF Inside, KeyFree
    <2>3. CASE v = w /\ stage[v] \notin Open
      BY <1>2, <2>3 DEF Inside, KeyFree
    <2> QED BY <1>2, <2>1, <2>2, <2>3
  <1>8. OpenFresh'
    <2> SUFFICES ASSUME NEW v \in Workers, stage'[v] \in Open
                 PROVE  inbox[Key(v)] = NoRow /\ effects[Key(v)] = 0
      BY <1>3 DEF OpenFresh, Open, Inside, NoRow
    <2>1. CASE stage[v] \in Open
      BY <2>1 DEF Held, OpenFresh
    <2>2. CASE stage[v] \notin Open
      <3>1. v = w /\ inbox[Key(w)].status = "absent"
        BY <1>2, <2>2 DEF Inside
      <3>2. Key(w) \notin purged
        BY DEF Held, PurgedGone, Inside
      <3>3. inbox[Key(w)] \in Rows
        BY <1>1 DEF TypeOK
      <3>4. inbox[Key(w)] = NoRow
        BY <3>1, <3>3 DEF Rows, NoRow
      <3>5. effects[Key(w)] = 0
        BY <1>1, <3>1, <3>2 DEF Safe, EffectsMatchRows
      <3> QED BY <3>1, <3>4, <3>5
    <2> QED BY <2>1, <2>2
  <1>9. PurgedGone'
    BY <1>3, <1>5 DEF Held, PurgedGone, Inside, Items
  <1>10. AckOwed'
    <2> SUFFICES ASSUME NEW v \in Workers, stage'[v] = "ack"
                 PROVE  Settled(item[v][1])'
      BY DEF AckOwed, Inside
    <2>1. CASE v = w
      BY <2>1 DEF Inside, Settled, Key, Hash
    <2>2. CASE v # w
      <3>1. stage[v] = "ack"
        BY <1>2, <2>2
      <3>2. Settled(item[v][1])
        BY <3>1 DEF Held, AckOwed
      <3> QED BY <3>2 DEF Inside, Settled
    <2> QED BY <2>1, <2>2
  <1>11. EffectsMatchRows'
    BY DEF Safe, EffectsMatchRows, Inside
  <1>12. NothingLost'
    BY <1>4 DEF Safe, NothingLost, Inside, Items
  <1> QED BY <1>6, <1>7, <1>8, <1>9, <1>10, <1>11, <1>12 DEF Held, Safe

\* A step with which w's Consume returns: it confirms its item only from "ack".
Returns(w) ==
    /\ stage[w] # "idle"
    /\ Leave(w)
    /\ quarantine \subseteq quarantine'
    /\ \/ queue' = queue
       \/ stage[w] = "ack" /\ queue' = [queue EXCEPT ![item[w]] = "confirmed"]
    /\ UNCHANGED db

LEMMA ReturnsKeep ==
    ASSUME Inv, TypeOK', NEW w \in Workers, Returns(w)
    PROVE  Held' /\ Safe'
  <1> USE DEF Inv, db
  <1>1. stage'[w] = "idle" /\ \A v \in Workers : v # w =>
          stage'[v] = stage[v] /\ item'[v] = item[v]
    BY DEF Returns, Leave, Goto, TypeOK
  <1>2. \A v \in Workers : v # w => Key(v)' = Key(v)
    BY <1>1 DEF Key
  <1>3. \A e \in Envelopes : Settled(e) => Settled(e)'
    BY DEF Returns, Settled
  <1>4. \A i \in Items :
          \/ queue'[i] = queue[i]
          \/ i = item[w] /\ stage[w] = "ack" /\ queue'[i] = "confirmed"
    BY KeyTyped DEF Returns, TypeOK, Held
  <1>5. Busy'
    BY <1>1 DEF Held, Busy, Items
  <1>6. KeyMutex'
    BY <1>1, <1>2 DEF Held, KeyMutex, Open
  <1>7. OpenFresh'
    BY <1>1, <1>2 DEF Held, OpenFresh, Open, Returns
  <1>8. PurgedGone'
    <2>1. \A i \in Items : queue'[i] = "queued" => queue[i] = "queued"
      BY <1>4
    <2> QED
      BY <1>1, <1>2, <2>1 DEF Held, PurgedGone, Returns, Items
  <1>9. AckOwed'
    <2> SUFFICES ASSUME NEW v \in Workers, stage'[v] = "ack"
                 PROVE  Settled(item[v][1])'
      BY DEF AckOwed
    <2>1. v # w /\ stage[v] = "ack" /\ item'[v] = item[v]
      BY <1>1
    <2>2. Settled(item[v][1])
      BY <2>1 DEF Held, AckOwed
    <2> QED BY <2>1, <2>2 DEF Returns, Settled
  <1>10. EffectsMatchRows'
    BY DEF Safe, EffectsMatchRows, Returns
  <1>11. NothingLost'
    <2> SUFFICES ASSUME NEW i \in Items, queue'[i] = "confirmed"
                 PROVE  Settled(i[1])'
      BY DEF NothingLost, Items
    <2>1. i[1] \in Envelopes
      BY DEF Items
    <2>2. Settled(i[1])
      BY <1>4 DEF Safe, NothingLost, Held, AckOwed
    <2> QED BY <1>3, <2>1, <2>2
  <1> QED BY <1>5, <1>6, <1>7, <1>8, <1>9, <1>10, <1>11 DEF Held, Safe

\* A commit, whatever the disposition it is answered with: the ack is owed only
\* for the two that tell of it.
Commits(w) ==
    /\ stage[w] \in {"processing", "rejecting"}
    /\ Committed(w)
    /\ \E d \in Dispositions : Return(w, d)
    /\ UNCHANGED <<queue, item, quarantine>>

LEMMA CommitsKeep ==
    ASSUME Inv, TypeOK', NEW w \in Workers, Commits(w)
    PROVE  Held' /\ Safe'
  <1> USE DEF Inv
  <1>1. /\ stage[w] # "idle" /\ stage[w] \in Open
        /\ item[w] \in Items /\ Key(w) \in Keys /\ Hash(w) \in Hashes
    BY KeyTyped DEF Held, Commits, Open
  <1>2. /\ stage'[w] \in {"ack", "contain", "release"}
        /\ \A v \in Workers : v # w => stage'[v] = stage[v]
    <2>1. PICK d \in Dispositions : Return(w, d)
      BY DEF Commits
    <2>2. attempt[w] \in Nat
      BY ConsumerAssumption DEF TypeOK, ConsumerAssumption
    <2> QED BY <2>1, <2>2, GestureFacts DEF Return, Goto, TypeOK
  <1>3. \A v \in Workers : Key(v)' = Key(v)
    BY DEF Commits, Key
  <1>4. /\ inbox'[Key(w)].hash = Hash(w)
        /\ inbox'[Key(w)].status = IF stage[w] = "processing" THEN "processed" ELSE "rejected"
        /\ \A k \in Keys : k # Key(w) => inbox'[k] = inbox[k]
        /\ purged' = purged
    BY <1>1 DEF Commits, Committed, TypeOK
  <1>5. inbox[Key(w)] = NoRow /\ effects[Key(w)] = 0 /\ Key(w) \notin purged
    BY <1>1 DEF Held, OpenFresh, PurgedGone
  <1>6. /\ effects'[Key(w)] = IF stage[w] = "processing" THEN 1 ELSE 0
        /\ \A k \in Keys : k # Key(w) => effects'[k] = effects[k]
    BY <1>1, <1>5 DEF Commits, Committed, TypeOK
  <1>7. \A i \in Items : queue[i] = "confirmed" => Settled(i[1])'
    <2> SUFFICES ASSUME NEW i \in Items, queue[i] = "confirmed" PROVE Settled(i[1])'
      OBVIOUS
    <2>1. i[1] \in Envelopes /\ KeyOf[i[1]] \in Keys /\ HashOf[i[1]] \in Hashes
      BY ConsumerAssumption DEF Items, ConsumerAssumption
    <2>2. Settled(i[1])
      BY DEF Safe, NothingLost
    <2>3. "none" \notin Hashes
      BY ConsumerAssumption DEF ConsumerAssumption
    <2> QED BY <1>4, <1>5, <2>1, <2>2, <2>3 DEF Settled, Commits, NoRow
  <1>8. Busy'
    BY <1>1, <1>2 DEF Held, Busy, Commits, Items
  <1>9. KeyMutex'
    BY <1>2, <1>3 DEF Held, KeyMutex, Open
  <1>10. OpenFresh'
    <2> SUFFICES ASSUME NEW v \in Workers, stage'[v] \in Open
                 PROVE  inbox'[Key(v)] = NoRow /\ effects'[Key(v)] = 0
      BY <1>3 DEF OpenFresh, Open, NoRow
    <2>1. v # w /\ stage[v] \in Open /\ stage[v] # "idle"
      BY <1>2 DEF Open
    <2>2. Key(v) # Key(w) /\ Key(v) \in Keys
      BY <1>1, <2>1, KeyTyped DEF Held, KeyMutex
    <2> QED BY <1>4, <1>6, <2>1, <2>2 DEF Held, OpenFresh
  <1>11. PurgedGone'
    BY <1>1, <1>2, <1>3, <1>4 DEF Held, PurgedGone, Commits, Items
  <1>12. AckOwed'
    <2> SUFFICES ASSUME NEW v \in Workers, stage'[v] = "ack" PROVE Settled(item[v][1])'
      BY DEF AckOwed, Commits
    <2>1. CASE v = w
      BY <1>4, <2>1 DEF Settled, Commits, Key, Hash
    <2>2. CASE v # w
      <3>1. stage[v] = "ack" /\ stage[v] # "idle"
        BY <1>2, <2>2
      <3>2. item[v][1] \in Envelopes /\ KeyOf[item[v][1]] \in Keys
        BY <3>1, KeyTyped, ConsumerAssumption DEF Held, ConsumerAssumption
      <3>3. Settled(item[v][1])
        BY <3>1 DEF Held, AckOwed
      <3>4. HashOf[item[v][1]] \in Hashes
        BY <3>2, ConsumerAssumption DEF ConsumerAssumption
      <3>5. "none" \notin Hashes
        BY ConsumerAssumption DEF ConsumerAssumption
      <3> QED BY <1>4, <1>5, <3>2, <3>3, <3>4, <3>5 DEF Settled, Commits, NoRow
    <2> QED BY <2>1, <2>2
  <1>13. EffectsMatchRows'
    BY <1>4, <1>5, <1>6 DEF Safe, EffectsMatchRows
  <1>14. NothingLost'
    BY <1>7 DEF NothingLost, Commits, Items
  <1> QED BY <1>8, <1>9, <1>10, <1>11, <1>12, <1>13, <1>14 DEF Held, Safe

LEMMA PublishKeeps ==
    ASSUME Inv, TypeOK', NEW i \in Items, Publish(i)
    PROVE  Held' /\ Safe'
  <1> USE DEF Inv, db, workVars
  <1>1. /\ \A j \in Items : j # i => queue'[j] = queue[j]
        /\ queue'[i] = "queued"
        /\ KeyOf[i[1]] \notin purged
    BY DEF Publish, TypeOK
  <1>2. Busy' /\ KeyMutex' /\ OpenFresh' /\ AckOwed' /\ EffectsMatchRows'
    BY DEF Publish, Held, Safe, Busy, KeyMutex, OpenFresh, AckOwed, EffectsMatchRows,
           Key, Settled, Items
  <1>3. PurgedGone'
    BY <1>1 DEF Publish, Held, PurgedGone, Key, Items
  <1>4. NothingLost'
    BY <1>1 DEF Publish, Safe, NothingLost, Settled, Items
  <1> QED BY <1>2, <1>3, <1>4 DEF Held, Safe

LEMMA DeliverKeeps ==
    ASSUME Inv, TypeOK', NEW w \in Workers, NEW i \in Items, Deliver(w, i)
    PROVE  Held' /\ Safe'
  <1> USE DEF Inv, db
  <1>1. KindOf[i[1]] \in Kinds
    BY ConsumerAssumption DEF Items, ConsumerAssumption
  <1>2. /\ stage'[w] \in {"begun", "ack", "contain"}
        /\ stage'[w] = "ack" => KindOf[i[1]] = "unsubscribed"
        /\ item'[w] = i
        /\ \A v \in Workers : v # w => stage'[v] = stage[v] /\ item'[v] = item[v]
    BY <1>1 DEF Deliver, Goto, TypeOK, FirstStage, Kinds
  <1>3. \A v \in Workers : v # w => Key(v)' = Key(v)
    BY <1>2 DEF Key
  <1>4. KeyOf[i[1]] \notin purged
    BY DEF Deliver, Held, PurgedGone
  <1>5. Busy'
    BY <1>2 DEF Held, Busy, Items
  <1>6. KeyMutex'
    BY <1>2, <1>3 DEF Held, KeyMutex, Open
  <1>7. OpenFresh'
    BY <1>2, <1>3 DEF Held, OpenFresh, Open, Deliver
  <1>8. PurgedGone'
    <2>1. Key(w)' = KeyOf[i[1]]
      BY <1>2 DEF Key
    <2> QED
      BY <1>2, <1>3, <1>4, <2>1 DEF Held, PurgedGone, Deliver, Items
  <1>9. AckOwed'
    <2> SUFFICES ASSUME NEW v \in Workers, stage'[v] = "ack"
                 PROVE  Settled(item[v][1])'
      BY DEF AckOwed
    <2>1. CASE v = w
      BY <1>2, <2>1 DEF Settled
    <2>2. CASE v # w
      <3>1. Settled(item[v][1]) /\ item'[v] = item[v]
        BY <1>2, <2>2 DEF Held, AckOwed
      <3> QED BY <3>1 DEF Settled, Deliver
    <2> QED BY <2>1, <2>2
  <1>10. EffectsMatchRows' /\ NothingLost'
    BY DEF Safe, EffectsMatchRows, NothingLost, Deliver, Settled, Items
  <1> QED BY <1>5, <1>6, <1>7, <1>8, <1>9, <1>10 DEF Held, Safe

LEMMA PurgeKeeps ==
    ASSUME Inv, TypeOK', NEW k \in Keys, PurgeInbox(k)
    PROVE  Held' /\ Safe'
  <1> USE DEF Inv, workVars, brokerVars
  <1>1. /\ \A j \in Keys : j # k => inbox'[j] = inbox[j]
        /\ inbox'[k] = NoRow
        /\ purged' = purged \cup {k}
    BY DEF PurgeInbox, TypeOK
  <1>2. \A v \in Workers : Key(v)' = Key(v) /\ (stage[v] # "idle" => Key(v) # k)
    BY DEF PurgeInbox, Key
  <1>3. \A e \in Envelopes : Settled(e) => Settled(e)'
    <2> SUFFICES ASSUME NEW e \in Envelopes, Settled(e) PROVE Settled(e)'
      OBVIOUS
    <2>1. KeyOf[e] \in Keys
      BY ConsumerAssumption DEF ConsumerAssumption
    <2> QED BY <1>1, <2>1 DEF Settled, PurgeInbox
  <1>4. Busy' /\ KeyMutex'
    BY <1>2 DEF PurgeInbox, Held, Busy, KeyMutex, Items
  <1>5. OpenFresh'
    <2> SUFFICES ASSUME NEW v \in Workers, stage[v] \in Open
                 PROVE  inbox'[Key(v)] = NoRow /\ effects[Key(v)] = 0
      BY <1>2 DEF OpenFresh, PurgeInbox, Open, NoRow
    <2>1. Key(v) \in Keys /\ Key(v) # k
      BY <1>2, KeyTyped DEF Held, Open
    <2> QED BY <1>1, <2>1 DEF Held, OpenFresh
  <1>6. PurgedGone'
    BY <1>1, <1>2 DEF Held, PurgedGone, PurgeInbox, Items
  <1>7. AckOwed'
    <2> SUFFICES ASSUME NEW v \in Workers, stage[v] = "ack"
                 PROVE  Settled(item[v][1])'
      BY DEF AckOwed, PurgeInbox
    <2>1. item[v][1] \in Envelopes /\ Settled(item[v][1]) /\ item' = item
      BY KeyTyped DEF Held, AckOwed, PurgeInbox
    <2>2. KeyOf[item[v][1]] \in Keys
      BY <2>1, ConsumerAssumption DEF ConsumerAssumption
    <2> QED BY <1>1, <2>1, <2>2 DEF Settled, PurgeInbox
  <1>8. EffectsMatchRows'
    BY <1>1 DEF Safe, EffectsMatchRows, PurgeInbox, NoRow
  <1>9. NothingLost'
    BY <1>3 DEF Safe, NothingLost, PurgeInbox, Items
  <1> QED BY <1>4, <1>5, <1>6, <1>7, <1>8, <1>9 DEF Held, Safe

\* Every step inside Consume is one of the four kinds above.
LEMMA WorkKinds ==
    ASSUME Inv, NEW w \in Workers
    PROVE  /\ Work(w) => Inside(w) \/ Returns(w) \/ Commits(w)
           /\ RegisterTimeout(w) => Inside(w)
           /\ Crash(w) => Returns(w)
           /\ \A d \in {"R1D3", "R1D4"} :
                /\ CommitAnswerLost(w, d) => Commits(w)
                /\ Fail(w, d) => Inside(w)
  <1> USE DEF Inv, db, brokerVars, workVars
  <1>0. attempt[w] \in Nat
    BY ConsumerAssumption DEF TypeOK, ConsumerAssumption
  <1>a. ASSUME NEW d \in Dispositions, Return(w, d)
        PROVE  /\ stage' = [stage EXCEPT ![w] = stage'[w]]
               /\ stage'[w] \in {"ack", "contain", "release"}
               /\ d \in {"R1D3", "R1D4", "R4"} => stage'[w] # "ack"
    <2>1. stage' = [stage EXCEPT ![w] = Gesture(d, attempt[w])]
      BY <1>a DEF Return, Goto
    <2>2. stage'[w] = Gesture(d, attempt[w])
      BY <2>1 DEF TypeOK
    <2> QED BY <1>0, <2>1, <2>2, GestureFacts
  <1>1. Register(w) => Inside(w)
    <2> SUFFICES ASSUME Register(w) PROVE Inside(w)
      OBVIOUS
    <2>1. CASE Reception(w) = "R1"
      <3>1. inbox[Key(w)].status = "absent"
        BY <2>1 DEF Reception
      <3> QED
        BY <2>1, <3>1 DEF Register, Goto, TypeOK, Inside
    <2>2. CASE Reception(w) # "R1"
      <3>1. Reception(w) \in {"R2", "R3", "R4"}
        BY <2>2 DEF Reception
      <3>2. Reception(w) # "R4" => inbox[Key(w)].hash = Hash(w)
        BY <2>2 DEF Reception
      <3>3. Return(w, Reception(w)) /\ Reception(w) \in Dispositions
        BY <2>2, <3>1 DEF Register, Dispositions
      <3>4. /\ stage' = [stage EXCEPT ![w] = stage'[w]]
            /\ stage'[w] \in {"ack", "contain", "release"}
            /\ Reception(w) = "R4" => stage'[w] # "ack"
        BY <1>a, <3>3
      <3> QED
        BY <3>2, <3>4 DEF Register, Inside, Open
    <2> QED BY <2>1, <2>2
  <1>2. RegisterTimeout(w) => Inside(w)
    BY <1>a DEF RegisterTimeout, Inside, Open, Dispositions
  <1>3. Load(w) => Inside(w)
    BY DEF Load, Goto, Inside, Open, TypeOK
  <1>4. Reject(w) => Inside(w)
    BY DEF Reject, Goto, Inside, Open, TypeOK
  <1>5. Save(w) => Inside(w)
    <2>1. CASE loaded[w] = version
      BY <2>1 DEF Save, Goto, Inside, Open, TypeOK
    <2>2. CASE loaded[w] # version
      BY <1>a, <2>2 DEF Save, Inside, Open, Dispositions
    <2> QED BY <2>1, <2>2
  <1>6. Commit(w) => Commits(w)
    BY DEF Commit, Commits, Dispositions
  <1>7. ASSUME NEW d \in {"R1D3", "R1D4"} PROVE CommitAnswerLost(w, d) => Commits(w)
    BY DEF CommitAnswerLost, Commits, Dispositions
  <1>8. ASSUME NEW d \in {"R1D3", "R1D4"} PROVE Fail(w, d) => Inside(w)
    BY <1>a DEF Fail, Inside, Open, Dispositions
  <1>9. Contain(w) => Inside(w) \/ Returns(w)
    BY DEF Contain, Goto, Inside, Returns, Open, TypeOK
  <1>10. Ack(w) => Returns(w)
    BY DEF Ack, Returns
  <1>11. Release(w) => Returns(w)
    BY DEF Release, Returns
  <1>12. Crash(w) => Returns(w)
    BY DEF Crash, Returns
  <1> QED
    BY <1>1, <1>2, <1>3, <1>4, <1>5, <1>6, <1>7, <1>8, <1>9, <1>10, <1>11, <1>12 DEF Work

LEMMA InitInv == Init => Inv
  <1> SUFFICES ASSUME Init PROVE Inv
    OBVIOUS
  <1>1. TypeOK
    BY InitTyped
  <1>2. Held
    BY DEF Init, Held, Busy, KeyMutex, OpenFresh, PurgedGone, AckOwed, Open
  <1>3. Safe
    BY DEF Init, Safe, EffectsMatchRows, NothingLost, NoRow
  <1> QED BY <1>1, <1>2, <1>3 DEF Inv

LEMMA NextInv == Inv /\ [Next]_vars => Inv'
  <1> SUFFICES ASSUME Inv, [Next]_vars PROVE Inv'
    OBVIOUS
  <1>0. TypeOK'
    BY NextTyped DEF Inv, Held
  <1>1. ASSUME NEW w \in Workers, Inside(w) \/ Returns(w) \/ Commits(w) PROVE Held' /\ Safe'
    BY <1>0, <1>1, InsideKeeps, ReturnsKeep, CommitsKeep
  <1>2. CASE \E w \in Workers : Work(w)
    BY <1>1, <1>2, WorkKinds, <1>0 DEF Inv
  <1>3. CASE \E w \in Workers, i \in Items : Deliver(w, i)
    BY <1>0, <1>3, DeliverKeeps DEF Inv
  <1>4. CASE Environment
    <2>1. CASE \E i \in Items : Publish(i)
      BY <1>0, <2>1, PublishKeeps DEF Inv
    <2>2. CASE \E w \in Workers : \/ RegisterTimeout(w) \/ Crash(w)
                                  \/ \E d \in {"R1D3", "R1D4"} : CommitAnswerLost(w, d) \/ Fail(w, d)
      BY <1>0, <1>1, <2>2, WorkKinds DEF Inv
    <2>3. CASE \E k \in Keys : PurgeInbox(k)
      BY <1>0, <2>3, PurgeKeeps DEF Inv
    <2> QED BY <1>4, <2>1, <2>2, <2>3 DEF Environment
  <1>5. CASE UNCHANGED vars
    <2>1. Held'
      BY <1>5 DEF Inv, vars, db, brokerVars, workVars, Held, Busy, KeyMutex, OpenFresh,
                  PurgedGone, AckOwed, Key, Settled
    <2>2. Safe'
      BY <1>5 DEF Inv, vars, db, brokerVars, workVars, Safe, EffectsMatchRows,
                  NothingLost, Settled
    <2> QED BY <1>0, <2>1, <2>2 DEF Inv
  <1> QED
    BY <1>2, <1>3, <1>4, <1>5 DEF Next

\* The inductive invariant holds of every behaviour of the consumer.
THEOREM ConsumerInvariant == Spec => []Inv
  BY InitInv, NextInv, PTL DEF Spec

\* Every variable keeps its type, for any number of workers and messages.
THEOREM ConsumerTypeCorrect == Spec => []TypeOK
  <1>1. Inv => TypeOK
    BY DEF Inv
  <1> QED BY <1>1, ConsumerInvariant, PTL

\* Exactly-once effect over at-least-once delivery (INB-03, INB-07).
THEOREM EffectsOnce == Spec => []EffectsMatchRows
  <1>1. Inv => EffectsMatchRows
    BY DEF Inv, Safe
  <1> QED BY <1>1, ConsumerInvariant, PTL

\* No confirmation without a row, a quarantined copy or a declared discard
\* (GAR-07).
THEOREM NothingIsLost == Spec => []NothingLost
  <1>1. Inv => NothingLost
    BY DEF Inv, Safe
  <1> QED BY <1>1, ConsumerInvariant, PTL

\* A step touches a committed row only to purge it.
LEMMA RowsStand ==
    ASSUME Inv, [Next]_vars, NEW k \in Keys, inbox[k] # NoRow
    PROVE  inbox'[k] = inbox[k] \/ k \in purged'
  <1> USE DEF db, brokerVars, workVars
  <1>1. ASSUME NEW w \in Workers, Inside(w) \/ Returns(w) PROVE inbox'[k] = inbox[k]
    BY <1>1 DEF Inside, Returns
  <1>2. ASSUME NEW w \in Workers, Commits(w) PROVE inbox'[k] = inbox[k]
    <2>1. stage[w] \in Open /\ stage[w] # "idle"
      BY <1>2 DEF Commits, Open
    <2>2. Key(w) \in Keys /\ inbox[Key(w)] = NoRow
      BY <2>1, KeyTyped DEF Inv, Held, OpenFresh
    <2> QED BY <1>2, <2>2 DEF Commits, Committed, Inv, TypeOK
  <1>3. ASSUME NEW j \in Keys, PurgeInbox(j) PROVE inbox'[k] = inbox[k] \/ k \in purged'
    BY <1>3 DEF PurgeInbox, Inv, TypeOK
  <1>4. CASE \E w \in Workers : Work(w)
    BY <1>1, <1>2, <1>4, WorkKinds
  <1>5. CASE \E w \in Workers, i \in Items : Deliver(w, i)
    BY <1>5 DEF Deliver
  <1>6. CASE Environment
    BY <1>1, <1>2, <1>3, <1>6, WorkKinds DEF Environment, Publish
  <1> QED
    BY <1>4, <1>5, <1>6 DEF Next, vars

\* A committed outcome goes only by purge (INB-02, INB-12).
THEOREM OutcomesStand == Spec => OutcomesAreFinal
  <1>1. Inv /\ [Next]_vars =>
          [\A k \in Keys : inbox[k] # NoRow => inbox'[k] = inbox[k] \/ k \in purged']_vars
    BY RowsStand
  <1> QED
    BY <1>1, ConsumerInvariant, PTL DEF Spec, OutcomesAreFinal

-----------------------------------------------------------------------------
(* Optimistic concurrency on the aggregate.                                *)

\* A step that does not commit keeps the version, and enters "processing" only
\* alone and from a current read.
LEMMA VersionSteps ==
    ASSUME Inv, [Next]_vars
    PROVE  \/ \E w \in Workers : Commits(w) /\ UNCHANGED loaded
           \/ /\ UNCHANGED <<version, effects>>
              /\ \A v \in Workers : stage'[v] = "processing" =>
                   \/ stage[v] = "processing" /\ loaded'[v] = loaded[v]
                   \/ /\ loaded'[v] = version
                      /\ \A u \in Workers \ {v} : stage'[u] # "processing"
  <1> DEFINE Quiet ==
        /\ UNCHANGED <<version, effects>>
        /\ \A v \in Workers : stage'[v] = "processing" =>
             \/ stage[v] = "processing" /\ loaded'[v] = loaded[v]
             \/ /\ loaded'[v] = version
                /\ \A u \in Workers \ {v} : stage'[u] # "processing"
  <1> USE DEF Inv, db, brokerVars, workVars
  <1>a. ASSUME NEW w \in Workers, NEW d \in Dispositions, Return(w, d)
        PROVE  stage'[w] # "processing" /\ \A v \in Workers : v # w => stage'[v] = stage[v]
    <2>1. attempt[w] \in Nat
      BY ConsumerAssumption DEF TypeOK, ConsumerAssumption
    <2> QED BY <1>a, <2>1, GestureFacts DEF Return, Goto, TypeOK
  <1>b. ASSUME NEW w \in Workers, Leave(w)
        PROVE  /\ stage'[w] # "processing"
               /\ \A v \in Workers : v # w => stage'[v] = stage[v] /\ loaded'[v] = loaded[v]
    BY <1>b DEF Leave, Goto, TypeOK
  <1>1. ASSUME NEW w \in Workers, Register(w) PROVE Quiet
    <2>1. CASE Reception(w) = "R1"
      BY <1>1, <2>1 DEF Register, Goto, TypeOK
    <2>2. CASE Reception(w) # "R1"
      <3>1. Reception(w) \in Dispositions
        BY <2>2 DEF Reception, Dispositions
      <3>2. Return(w, Reception(w))
        BY <1>1, <2>2 DEF Register
      <3> QED BY <1>1, <1>a, <3>1, <3>2 DEF Register
    <2> QED BY <2>1, <2>2
  <1>2. ASSUME NEW w \in Workers, Load(w) \/ Reject(w) PROVE Quiet
    BY <1>2 DEF Load, Reject, Goto, TypeOK
  <1>3. ASSUME NEW w \in Workers, Save(w) PROVE Quiet
    <2>1. CASE loaded[w] = version
      BY <1>3, <2>1 DEF Save, AggregateFree, Goto, TypeOK
    <2>2. CASE loaded[w] # version
      BY <1>3, <1>a, <2>2 DEF Save, Dispositions
    <2> QED BY <2>1, <2>2
  <1>4. ASSUME NEW w \in Workers, NEW d \in {"R1D3", "R1D4"}, Fail(w, d) PROVE Quiet
    BY <1>4, <1>a DEF Fail, Dispositions
  <1>5. ASSUME NEW w \in Workers, RegisterTimeout(w) PROVE Quiet
    BY <1>5, <1>a DEF RegisterTimeout, Dispositions
  <1>6. ASSUME NEW w \in Workers, Contain(w) PROVE Quiet
    <2>1. CASE Goto(w, "ack") /\ UNCHANGED loaded
      BY <1>6, <2>1 DEF Contain, Goto, TypeOK
    <2>2. CASE Leave(w)
      BY <1>6, <1>b, <2>2 DEF Contain
    <2> QED BY <1>6, <2>1, <2>2 DEF Contain
  <1>7. ASSUME NEW w \in Workers, Ack(w) \/ Release(w) \/ Crash(w) PROVE Quiet
    BY <1>7, <1>b DEF Ack, Release, Crash
  <1>8. ASSUME NEW w \in Workers, NEW i \in Items, Deliver(w, i) PROVE Quiet
    <2>1. KindOf[i[1]] \in Kinds
      BY ConsumerAssumption DEF Items, ConsumerAssumption
    <2>2. stage'[w] # "processing" /\ \A v \in Workers : v # w => stage'[v] = stage[v]
      BY <1>8, <2>1 DEF Deliver, Goto, TypeOK, FirstStage, Kinds
    <2> QED BY <1>8, <2>2 DEF Deliver
  <1>9. ASSUME NEW i \in Items, Publish(i) PROVE Quiet
    BY <1>9 DEF Publish
  <1>10. ASSUME NEW k \in Keys, PurgeInbox(k) PROVE Quiet
    BY <1>10 DEF PurgeInbox
  <1>11. ASSUME UNCHANGED vars PROVE Quiet
    BY <1>11 DEF vars
  <1>12. ASSUME NEW w \in Workers, Commit(w) PROVE Commits(w) /\ UNCHANGED loaded
    BY <1>12 DEF Commit, Commits, Dispositions
  <1>13. ASSUME NEW w \in Workers, NEW d \in {"R1D3", "R1D4"}, CommitAnswerLost(w, d)
         PROVE  Commits(w) /\ UNCHANGED loaded
    BY <1>13 DEF CommitAnswerLost, Commits, Dispositions
  <1> HIDE DEF Quiet, Inv
  <1>c. ASSUME NEW w \in Workers, Work(w)
        PROVE  Quiet \/ (Commits(w) /\ UNCHANGED loaded)
    BY <1>c, <1>1, <1>2, <1>3, <1>6, <1>7, <1>12 DEF Work
  <1>d. ASSUME Environment
        PROVE  Quiet \/ \E w \in Workers : Commits(w) /\ UNCHANGED loaded
    BY <1>d, <1>4, <1>5, <1>7, <1>9, <1>10, <1>13 DEF Environment
  <1>14. Quiet \/ \E w \in Workers : Commits(w) /\ UNCHANGED loaded
    <2>1. CASE Next
      <3>1. CASE \E w \in Workers : Work(w)
        BY <3>1, <1>c
      <3>2. CASE \E w \in Workers, i \in Items : Deliver(w, i)
        BY <3>2, <1>8
      <3> QED BY <2>1, <3>1, <3>2, <1>d DEF Next
    <2> QED BY <2>1, <1>11
  <1> QED BY <1>14 DEF Quiet

LEMMA VersionKept ==
    ASSUME Inv, VersionHeld, NoLostUpdate, [Next]_vars
    PROVE  VersionHeld' /\ NoLostUpdate'
  <1> DEFINE Quiet ==
        /\ UNCHANGED <<version, effects>>
        /\ \A v \in Workers : stage'[v] = "processing" =>
             \/ stage[v] = "processing" /\ loaded'[v] = loaded[v]
             \/ /\ loaded'[v] = version
                /\ \A u \in Workers \ {v} : stage'[u] # "processing"
  <1>1. CASE Quiet
    <2>1. VersionHeld'
      BY <1>1 DEF VersionHeld
    <2> QED BY <1>1, <2>1 DEF NoLostUpdate
  <1>2. ASSUME NEW w \in Workers, Commits(w), UNCHANGED loaded
        PROVE  VersionHeld' /\ NoLostUpdate'
    <2>1. stage[w] \in Open /\ stage[w] # "idle"
      BY <1>2 DEF Commits, Open
    <2>2. Key(w) \in Keys /\ effects[Key(w)] = 0
      BY <2>1, KeyTyped DEF Inv, Held, OpenFresh
    <2>3. /\ stage'[w] # "processing"
          /\ \A v \in Workers : v # w => stage'[v] = stage[v]
      <3>1. PICK d \in Dispositions : Return(w, d)
        BY <1>2 DEF Commits
      <3>2. attempt[w] \in Nat
        BY ConsumerAssumption DEF Inv, TypeOK, ConsumerAssumption
      <3> QED BY <3>1, <3>2, GestureFacts DEF Return, Goto, Inv, TypeOK
    <2>4. CASE stage[w] = "processing"
      <3>1. VersionHeld'
        BY <2>3, <2>4 DEF VersionHeld
      <3>2. version' = version + 1
        BY <1>2, <2>4 DEF Commits, Committed, VersionHeld
      <3> DEFINE Done == {k \in Keys : effects[k] > 0}
      <3>3. \A k \in Keys : effects'[k] > 0 <=> k \in Done \/ k = Key(w)
        BY <1>2, <2>2, <2>4 DEF Commits, Committed, Inv, TypeOK
      <3>4. {k \in Keys : effects'[k] > 0} = Done \cup {Key(w)} /\ Key(w) \notin Done
        BY <2>2, <3>3
      <3>5. IsFiniteSet(Done)
        BY FS_Subset, ConsumerAssumption DEF ConsumerAssumption
      <3>6. Cardinality(Done \cup {Key(w)}) = Cardinality(Done) + 1
        BY <3>4, <3>5, FS_AddElement
      <3> QED BY <3>1, <3>2, <3>4, <3>6 DEF NoLostUpdate
    <2>5. CASE stage[w] # "processing"
      <3>1. UNCHANGED <<version, effects>>
        BY <1>2, <2>5 DEF Commits, Committed
      <3> QED BY <1>2, <2>3, <3>1 DEF VersionHeld, NoLostUpdate
    <2> QED BY <2>4, <2>5
  <1> HIDE DEF Quiet
  <1>3. Quiet \/ \E w \in Workers : Commits(w) /\ UNCHANGED loaded
    BY VersionSteps DEF Quiet
  <1> QED BY <1>1, <1>2, <1>3

\* No two committed effects come from the same version (UOW-06): the version
\* is the number of messages that took effect.
THEOREM NoUpdateIsLost == Spec => []NoLostUpdate
  <1>1. Init => VersionHeld /\ NoLostUpdate
    <2> SUFFICES ASSUME Init PROVE VersionHeld /\ NoLostUpdate
      OBVIOUS
    <2>1. {k \in Keys : effects[k] > 0} = {}
      BY DEF Init
    <2> QED BY <2>1, FS_EmptySet DEF Init, VersionHeld, NoLostUpdate
  <1>2. Inv /\ VersionHeld /\ NoLostUpdate /\ [Next]_vars => VersionHeld' /\ NoLostUpdate'
    BY VersionKept
  <1> QED BY <1>1, <1>2, ConsumerInvariant, PTL DEF Spec

=============================================================================
