--------------------------- MODULE InboxConsumer ---------------------------
(***************************************************************************)
(* Consumption through the inbox: the consumer adapter                     *)
(* (libs/backend/go/app/consumer.go), the application service behind it    *)
(* (apps/backend/reservations/application/consume.go) and the inbox, the   *)
(* aggregate and the quarantine it writes (libs/backend/go/postgres).      *)
(*                                                                         *)
(* Several workers (goroutines or replicas of one logical consumer) take   *)
(* deliveries of a transport that duplicates and redelivers at will.  One  *)
(* transaction registers the message, applies its effect, enqueues the     *)
(* derived event and completes the registration; the broker hears of it    *)
(* only afterwards.  PostgreSQL is modelled by what READ COMMITTED gives:  *)
(* an INSERT or UPDATE waits for an open transaction that wrote the same   *)
(* key, and reads only committed rows.                                     *)
(***************************************************************************)
EXTENDS Naturals, FiniteSets

CONSTANTS Workers,      \* who consumes: replicas and goroutines of one consumer
          Keys,         \* message ids
          Hashes,       \* payload hashes
          Envelopes,    \* distinct raw envelopes
          KeyOf,        \* the message id an envelope carries
          HashOf,       \* the hash of the payload it carries
          KindOf,       \* what the adapter makes of it, one of Kinds
          CopiesEach,   \* how often the broker was handed each envelope
          MaxAttempts,  \* the attempt limit of GAR-08; 0 means none
          MaxUpsets     \* bound on the adversities of one behaviour

\* Accepted by this consumer, carried by the channel for others, or refused:
\* envelope malformed, source outside the boundary, type outside the channel.
Kinds == {"accepted", "unsubscribed", "refused"}

ASSUME ConsumerAssumption ==
    /\ IsFiniteSet(Keys)
    /\ KeyOf \in [Envelopes -> Keys]
    /\ HashOf \in [Envelopes -> Hashes]
    /\ "none" \notin Hashes
    /\ KindOf \in [Envelopes -> Kinds]
    /\ CopiesEach \in Nat
    /\ MaxAttempts \in Nat
    /\ MaxUpsets \in Nat

VARIABLES
    queue,       \* of each item: "unsent", "queued" or "confirmed"
    deliveries,  \* the transport's count of each item's deliveries, up to MaxAttempts
    inbox,       \* the committed inbox rows, one per key
    purged,      \* keys whose row was purged
    version,     \* the committed version of the aggregate all messages concern
    effects,     \* committed effects of each key: aggregate write and outbox row
    quarantine,  \* the envelopes kept
    stage,       \* of each worker: where Consume is
    item,        \* the item it was delivered
    attempt,     \* the Attempt of that delivery
    loaded,      \* the aggregate version its transaction read
    verdict,     \* the disposition the handler returned
    upsets       \* adversities so far

db         == <<inbox, purged, version, effects>>
brokerVars == <<queue, deliveries>>
workVars   == <<stage, item, attempt, loaded, verdict>>
vars       == <<db, brokerVars, workVars, quarantine, upsets>>

Items == Envelopes \X (1..CopiesEach)
NoItem == <<>>

NoRow == [status |-> "absent", hash |-> "none"]
Rows == {NoRow} \cup [status: {"processed", "rejected"}, hash: Hashes]

Dispositions == {"R1D1", "R1D2", "R1D3", "R1D4", "R2", "R3", "R4"}

\* "begun": the handler runs, its transaction not registered yet; "first": the
\* key is registered, uncommitted; "loaded": the aggregate is read;
\* "processing" and "rejecting": everything is written, uncommitted; then the
\* gesture Consume still owes: "contain", "ack" or "release".
Stages == {"idle", "begun", "first", "loaded", "processing", "rejecting",
           "contain", "ack", "release"}
Open == {"first", "loaded", "processing", "rejecting"}

TypeOK ==
    /\ queue \in [Items -> {"unsent", "queued", "confirmed"}]
    /\ deliveries \in [Items -> 0..MaxAttempts]
    /\ inbox \in [Keys -> Rows]
    /\ purged \subseteq Keys
    /\ version \in Nat
    /\ effects \in [Keys -> Nat]
    /\ quarantine \subseteq Envelopes
    /\ stage \in [Workers -> Stages]
    /\ item \in [Workers -> Items \cup {NoItem}]
    /\ attempt \in [Workers -> 0..MaxAttempts]
    /\ loaded \in [Workers -> Nat]
    /\ verdict \in [Workers -> Dispositions \cup {"none"}]
    /\ upsets \in 0..MaxUpsets

Init ==
    /\ queue = [i \in Items |-> "unsent"]
    /\ deliveries = [i \in Items |-> 0]
    /\ inbox = [k \in Keys |-> NoRow]
    /\ purged = {}
    /\ version = 0
    /\ effects = [k \in Keys |-> 0]
    /\ quarantine = {}
    /\ stage = [w \in Workers |-> "idle"]
    /\ item = [w \in Workers |-> NoItem]
    /\ attempt = [w \in Workers |-> 0]
    /\ loaded = [w \in Workers |-> 0]
    /\ verdict = [w \in Workers |-> "none"]
    /\ upsets = 0

Upset == upsets < MaxUpsets /\ upsets' = upsets + 1

Key(w) == KeyOf[item[w][1]]
Hash(w) == HashOf[item[w][1]]

\* Nobody else has an uncommitted row of w's key: the INSERT does not wait.
KeyFree(w) == \A v \in Workers \ {w} : stage[v] \in Open => Key(v) # Key(w)

\* Nobody else has an uncommitted write of the aggregate: Save does not wait.
AggregateFree(w) == \A v \in Workers \ {w} : stage[v] # "processing"

Goto(w, s) == stage' = [stage EXCEPT ![w] = s]

\* GAR-08: the limit is on, and this delivery reached it.
Exhausted(n) == MaxAttempts > 0 /\ n >= MaxAttempts

\* Mutant: a collision goes back to the flow like a transient failure.
GestureReleasingCollisions(d, n) ==
    IF d \in {"R1D1", "R1D2", "R2", "R3"} THEN "ack"
    ELSE IF d = "R4" \/ (d = "R1D3" /\ ~Exhausted(n)) THEN "release" ELSE "contain"

\* What admitted owes the broker for a disposition (the table of FND-04 6.4).
Gesture(d, n) ==
    IF d \in {"R1D1", "R1D2", "R2", "R3"} THEN "ack"
    ELSE IF d = "R1D3" /\ ~Exhausted(n) THEN "release" ELSE "contain"

\* The handler returns d: the transaction is over, the gesture is decided.
Return(w, d) ==
    /\ verdict' = [verdict EXCEPT ![w] = d]
    /\ Goto(w, Gesture(d, attempt[w]))

\* Consume returns: the worker forgets the delivery.
Leave(w) ==
    /\ Goto(w, "idle")
    /\ item' = [item EXCEPT ![w] = NoItem]
    /\ attempt' = [attempt EXCEPT ![w] = 0]
    /\ loaded' = [loaded EXCEPT ![w] = 0]
    /\ verdict' = [verdict EXCEPT ![w] = "none"]

-----------------------------------------------------------------------------
(* The transport.                                                          *)

\* The relay hands the broker one more copy, within the redelivery window the
\* inbox retention covers (INB-14).
Publish(i) ==
    /\ queue[i] = "unsent"
    /\ KeyOf[i[1]] \notin purged
    /\ queue' = [queue EXCEPT ![i] = "queued"]
    /\ UNCHANGED <<db, deliveries, workVars, quarantine, upsets>>

\* The attempt number of the next delivery.  Counts from MaxAttempts on act
\* alike, so the count stops there.
Counted(n) == IF n < MaxAttempts THEN n + 1 ELSE n

\* What Consume does before any handler: run it, discard or refuse.
FirstStage == [accepted |-> "begun", unsubscribed |-> "ack", refused |-> "contain"]

\* A worker is handed an unconfirmed item.  It is an upset when another still
\* works on the item, and when the transport restarts its count, as a Kafka
\* partition does when it moves.  The adapter decides at once whether the
\* handler runs at all.
Deliver(w, i) ==
    /\ stage[w] = "idle"
    /\ queue[i] = "queued"
    /\ \E n \in {deliveries[i], 0} :
         /\ IF n # deliveries[i] \/ \E v \in Workers : item[v] = i
            THEN Upset ELSE UNCHANGED upsets
         /\ deliveries' = [deliveries EXCEPT ![i] = Counted(n)]
         /\ attempt' = [attempt EXCEPT ![w] = Counted(n)]
    /\ item' = [item EXCEPT ![w] = i]
    /\ Goto(w, FirstStage[KindOf[i[1]]])
    /\ UNCHANGED <<db, queue, loaded, verdict, quarantine>>

-----------------------------------------------------------------------------
(* The handler: one transaction.                                           *)

\* Mutant: a row of the same key is taken for the same message.
ReceptionByKey(w) ==
    IF inbox[Key(w)].status = "absent" THEN "R1"
    ELSE IF inbox[Key(w)].status = "processed" THEN "R2" ELSE "R3"

\* Register, once the key is free: the committed row decides.
Reception(w) ==
    IF inbox[Key(w)].status = "absent" THEN "R1"
    ELSE IF inbox[Key(w)].hash # Hash(w) THEN "R4"
    ELSE IF inbox[Key(w)].status = "processed" THEN "R2" ELSE "R3"

Register(w) ==
    /\ stage[w] = "begun"
    /\ KeyFree(w)
    /\ IF Reception(w) = "R1"
       THEN Goto(w, "first") /\ UNCHANGED verdict
       ELSE Return(w, Reception(w))
    /\ UNCHANGED <<db, brokerVars, item, attempt, loaded, quarantine, upsets>>

\* INB-17: the wait for the key has a ceiling, and passing it is transient.
RegisterTimeout(w) ==
    /\ stage[w] = "begun"
    /\ ~KeyFree(w)
    /\ Upset
    /\ Return(w, "R1D3")
    /\ UNCHANGED <<db, brokerVars, item, attempt, loaded, quarantine>>

Load(w) ==
    /\ stage[w] = "first"
    /\ loaded' = [loaded EXCEPT ![w] = version]
    /\ Goto(w, "loaded")
    /\ UNCHANGED <<db, brokerVars, item, attempt, verdict, quarantine, upsets>>

\* The domain rejects: Complete(rejected).
Reject(w) ==
    /\ stage[w] = "loaded"
    /\ Goto(w, "rejecting")
    /\ UNCHANGED <<db, brokerVars, item, attempt, loaded, verdict, quarantine, upsets>>

\* Mutant: the version is not in the WHERE clause of the update.
SaveUnconditionally(w) ==
    /\ stage[w] = "loaded"
    /\ AggregateFree(w)
    /\ Goto(w, "processing") /\ UNCHANGED verdict
    /\ UNCHANGED <<db, brokerVars, item, attempt, loaded, quarantine, upsets>>

\* The domain accepts: Save, Enqueue and Complete(processed).  A version that
\* moved rolls everything back as a retryable conflict.
Save(w) ==
    /\ stage[w] = "loaded"
    /\ AggregateFree(w)
    /\ IF loaded[w] = version
       THEN Goto(w, "processing") /\ UNCHANGED verdict
       ELSE Return(w, "R1D3")
    /\ UNCHANGED <<db, brokerVars, item, attempt, loaded, quarantine, upsets>>

\* Mutant: Complete is not called, the provisional status stays.
CommittedProvisional(w) ==
    /\ inbox' = [inbox EXCEPT ![Key(w)] = [status |-> "processed", hash |-> Hash(w)]]
    /\ IF stage[w] = "processing"
       THEN /\ version' = loaded[w] + 1
            /\ effects' = [effects EXCEPT ![Key(w)] = @ + 1]
       ELSE UNCHANGED <<version, effects>>
    /\ UNCHANGED purged

\* What the commit of w's transaction makes visible, all of it at once.
Committed(w) ==
    /\ inbox' = [inbox EXCEPT ![Key(w)] =
                   [status |-> IF stage[w] = "processing" THEN "processed" ELSE "rejected",
                    hash   |-> Hash(w)]]
    /\ IF stage[w] = "processing"
       THEN /\ version' = loaded[w] + 1
            /\ effects' = [effects EXCEPT ![Key(w)] = @ + 1]
       ELSE UNCHANGED <<version, effects>>
    /\ UNCHANGED purged

Commit(w) ==
    /\ stage[w] \in {"processing", "rejecting"}
    /\ Committed(w)
    /\ Return(w, IF stage[w] = "processing" THEN "R1D1" ELSE "R1D2")
    /\ UNCHANGED <<brokerVars, item, attempt, loaded, quarantine, upsets>>

\* The commit lands and its answer does not: Within returns the error, and
\* Classify takes it for a failure, transient or terminal.
CommitAnswerLost(w, d) ==
    /\ stage[w] \in {"processing", "rejecting"}
    /\ Upset
    /\ Committed(w)
    /\ Return(w, d)
    /\ UNCHANGED <<brokerVars, item, attempt, loaded, quarantine>>

\* A statement fails, the deadline passes, the caller is not authorized or the
\* handler panics: the transaction rolls back and Classify decides.
Fail(w, d) ==
    /\ stage[w] \in {"begun"} \cup Open
    /\ Upset
    /\ Return(w, d)
    /\ UNCHANGED <<db, brokerVars, item, attempt, loaded, quarantine>>

-----------------------------------------------------------------------------
(* The gesture, after the transaction.                                     *)

\* The quarantine row commits on its own, then the item is confirmed; when it
\* cannot be kept the item is left to redelivery.
Contain(w) ==
    /\ stage[w] = "contain"
    /\ \/ /\ quarantine' = quarantine \cup {item[w][1]}
          /\ Goto(w, "ack")
          /\ UNCHANGED <<item, attempt, loaded, verdict, upsets>>
       \/ /\ Upset
          /\ quarantine' \in {quarantine, quarantine \cup {item[w][1]}}
          /\ Leave(w)
    /\ UNCHANGED <<db, brokerVars>>

\* Ack succeeds, or fails with or without having been heard.
Ack(w) ==
    /\ stage[w] = "ack"
    /\ \/ queue' = [queue EXCEPT ![item[w]] = "confirmed"] /\ UNCHANGED upsets
       \/ UNCHANGED queue /\ Upset
    /\ Leave(w)
    /\ UNCHANGED <<db, deliveries, quarantine>>

Release(w) ==
    /\ stage[w] = "release"
    /\ Leave(w)
    /\ UNCHANGED <<db, brokerVars, quarantine, upsets>>

\* The process dies: the server rolls its transaction back.
Crash(w) ==
    /\ stage[w] # "idle"
    /\ Upset
    /\ Leave(w)
    /\ UNCHANGED <<db, brokerVars, quarantine>>

\* PurgeInbox under INB-14: no item of the key can still be delivered.
PurgeInbox(k) ==
    /\ inbox[k] # NoRow
    /\ \A i \in Items : KeyOf[i[1]] = k => queue[i] # "queued"
    /\ \A w \in Workers : stage[w] # "idle" => Key(w) # k
    /\ inbox' = [inbox EXCEPT ![k] = NoRow]
    /\ purged' = purged \cup {k}
    /\ UNCHANGED <<version, effects, brokerVars, workVars, quarantine, upsets>>

-----------------------------------------------------------------------------

Work(w) ==
    \/ Register(w) \/ Load(w) \/ Reject(w) \/ Save(w) \/ Commit(w)
    \/ Contain(w) \/ Ack(w) \/ Release(w)

Environment ==
    \/ \E i \in Items : Publish(i)
    \/ \E w \in Workers :
         \/ RegisterTimeout(w) \/ Crash(w)
         \/ \E d \in {"R1D3", "R1D4"} : CommitAnswerLost(w, d) \/ Fail(w, d)
    \/ \E k \in Keys : PurgeInbox(k)

Next ==
    \/ \E w \in Workers : Work(w) \/ \E i \in Items : Deliver(w, i)
    \/ Environment

Spec == Init /\ [][Next]_vars

-----------------------------------------------------------------------------
(* Properties.                                                             *)

\* INB-03, INB-07: whatever is redelivered, duplicated, retried or left half
\* done, the effect of a key is committed at most once, and exactly when its
\* row says processed (consume.go consumeFirst, inbox.go Register).
EffectsMatchRows ==
    \A k \in Keys :
        /\ effects[k] <= 1
        /\ inbox[k].status = "processed" => effects[k] = 1
        /\ inbox[k].status = "rejected"  => effects[k] = 0
        /\ inbox[k].status = "absent" /\ k \notin purged => effects[k] = 0

\* The version counts the effects: two transactions that read the same version
\* never both commit (table.go Save, UOW-06).
NoLostUpdate ==
    version = Cardinality({k \in Keys : effects[k] > 0})

\* The envelope was processed or rejected under its own payload hash, or is kept
\* in quarantine, or is of a type this consumer does not take.
Settled(e) ==
    \/ e \in quarantine
    \/ KindOf[e] = "unsubscribed"
    \/ inbox[KeyOf[e]].hash = HashOf[e]
    \/ KeyOf[e] \in purged

\* GAR-07: nothing is confirmed and lost, collisions included: whatever the
\* broker heard an ack for is settled (consumer.go admitted, contain).
NothingLost == \A i \in Items : queue[i] = "confirmed" => Settled(i[1])

\* INB-02, INB-12: an outcome once committed for a key is final; it goes only
\* by purge, and what comes back is answered from it.
OutcomesAreFinal ==
    [][\A k \in Keys : inbox[k] # NoRow => inbox'[k] = inbox[k] \/ k \in purged']_vars

\* Scheduling: a worker goes on with the delivery it holds, and an unconfirmed
\* item nobody holds is delivered again.
Fairness ==
    /\ \A w \in Workers : WF_vars(Work(w))
    /\ \A i \in Items :
         WF_vars((\A v \in Workers : item[v] # i) /\ \E w \in Workers : Deliver(w, i))

FairSpec == Spec /\ Fairness

\* GAR-08: no item is redelivered for ever; each one published is confirmed in
\* the end, and a confirmed item is never queued again.
EveryItemEnds == <>[](\A i \in Items : queue[i] # "queued")

=============================================================================
