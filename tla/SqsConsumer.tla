---------------------------- MODULE SqsConsumer ----------------------------
(***************************************************************************)
(* A consumer of one SQS queue (libs/backend/go/sqs/{consumer,heartbeat,   *)
(* acknowledger}.go): slots taken before each receive, one worker per      *)
(* message, a heartbeat that keeps the message invisible while it is       *)
(* handled, and one gesture that deletes or releases it.                   *)
(*                                                                         *)
(* Every duration is a countdown in ticks of one clock, so that a          *)
(* behaviour may go on for ever.  A timer that is due fires, and a call at *)
(* its timeout returns, before the clock moves; when the broker applies a  *)
(* call in between is open, and a call whose answer was given up may still *)
(* reach the broker later.                                                 *)
(***************************************************************************)
EXTENDS Integers, FiniteSets

CONSTANTS
    Messages,           \* messages of the queue
    NoMessage,          \* no message
    Workers,            \* the slots: Concurrency
    VisibilityBase,     \* visibility asked at the receive and by a heartbeat
    HeartbeatEvery,     \* interval of the heartbeat, and timeout of one tick
    MaxVisibility,      \* ceiling from the receipt: the 12 hours of SQS-08b
    ProcessingDeadline, \* deadline of an attempt
    Backoff             \* visibility a release asks for

\* Validate.
ASSUME SqsAssumption ==
    /\ NoMessage \notin Messages
    /\ HeartbeatEvery \in Nat \ {0}
    /\ VisibilityBase \in Nat \ {0}
    /\ 2 * HeartbeatEvery <= VisibilityBase
    /\ VisibilityBase <= MaxVisibility
    /\ MaxVisibility \in Nat
    /\ ProcessingDeadline \in Nat \ {0}
    /\ ProcessingDeadline < MaxVisibility
    /\ Backoff \in 1..MaxVisibility

VARIABLES
    queue,   \* the broker's side of each message
    worker,  \* the worker of each slot and its heartbeat
    adrift,  \* per message: visibilities asked by ticks given up, still on their way
    promise  \* history, per message: what is left of the backoff it was released to

vars == <<queue, worker, adrift, promise>>

Ask == 1..MaxVisibility

\* "visible" is the ticks until the message may be received again.
Message == [deleted: BOOLEAN, visible: 0..MaxVisibility]

\* hb: "armed" waits for its timer, "calling" has a tick in flight the broker has
\* not applied, "landed" one it has, "done" has ended.  latest is false once the
\* message was received again: the receipt handle is superseded.
Worker == [stage: {"idle", "handling", "ack", "release", "ending"}, msg: Messages \cup {NoMessage},
           latest: BOOLEAN, cancelled: BOOLEAN, age: 0..MaxVisibility, hb: {"armed", "calling", "landed", "done"},
           timer: 0..HeartbeatEvery, ask: Ask \cup {0}]

Idle == [stage |-> "idle", msg |-> NoMessage, latest |-> FALSE, cancelled |-> FALSE, age |-> 0,
         hb |-> "done", timer |-> 0, ask |-> 0]

TypeOK ==
    /\ queue \in [Messages -> Message]
    /\ worker \in [Workers -> Worker]
    /\ adrift \in [Messages -> SUBSET Ask]
    /\ promise \in [Messages -> 0..Backoff]
    /\ \A w \in Workers : worker[w].stage = "idle" <=> worker[w] = Idle

Init ==
    /\ queue = [m \in Messages |-> [deleted |-> FALSE, visible |-> 0]]
    /\ worker = [w \in Workers |-> Idle]
    /\ adrift = [m \in Messages |-> {}]
    /\ promise = [m \in Messages |-> 0]

----------------------------------------------------------------------------
(* The receive loop. *)

Free == {w \in Workers : worker[w].stage = "idle"}

Receivable == {m \in Messages : ~queue[m].deleted /\ queue[m].visible = 0}

\* A process at work on the message, before: its receipt handle is superseded.
Supersede(f, m) == [w \in Workers |-> IF f[w].msg = m THEN [f[w] EXCEPT !.latest = FALSE] ELSE f[w]]

\* The broker hands over a message to a free slot: the worker and its heartbeat start
\* at once.  A batch is a succession of these.
Receive(w, m) ==
    /\ w \in Free
    /\ m \in Receivable
    /\ queue' = [queue EXCEPT ![m].visible = VisibilityBase]
    /\ worker' = [Supersede(worker, m) EXCEPT ![w] =
                     [Idle EXCEPT !.stage = "handling", !.msg = m, !.latest = TRUE, !.hb = "armed",
                                  !.timer = HeartbeatEvery]]
    /\ adrift' = [adrift EXCEPT ![m] = {}]
    /\ promise' = [promise EXCEPT ![m] = 0]

\* The answer of a receive is lost, or comes as the loop shuts down: the message is
\* left to its visibility.
ReceiveLost(m) ==
    /\ m \in Receivable
    /\ queue' = [queue EXCEPT ![m].visible = VisibilityBase]
    /\ worker' = Supersede(worker, m)
    /\ adrift' = [adrift EXCEPT ![m] = {}]
    /\ promise' = [promise EXCEPT ![m] = 0]

----------------------------------------------------------------------------
(* The heartbeat. *)

\* The gesture and the end of the worker close the stop channel.
Stopping(w) == worker[w].stage \in {"ack", "release", "ending"}

\* A select that sees the stop channel or the end of the context.
HeartbeatStops(w) ==
    /\ worker[w].hb = "armed"
    /\ Stopping(w) \/ worker[w].cancelled
    /\ worker' = [worker EXCEPT ![w].hb = "done"]
    /\ UNCHANGED <<queue, adrift, promise>>

\* What a tick asks for: what is left of the ceiling, never more than the base.
Asked(w) == IF MaxVisibility - worker[w].age < VisibilityBase THEN MaxVisibility - worker[w].age ELSE VisibilityBase

\* A heartbeat without a ceiling.
HeartbeatFiresForever(w) ==
    /\ worker[w].hb = "armed"
    /\ worker[w].timer = 0
    /\ ~Stopping(w)
    /\ worker' = [worker EXCEPT ![w] = [@ EXCEPT !.hb = "calling", !.timer = HeartbeatEvery, !.ask = VisibilityBase]]
    /\ UNCHANGED <<queue, adrift, promise>>

\* The timer fires: past the ceiling the attempt is cancelled, else a tick leaves.
HeartbeatFires(w) ==
    /\ worker[w].hb = "armed"
    /\ worker[w].timer = 0
    /\ \/ /\ worker[w].age >= MaxVisibility
          /\ worker' = [worker EXCEPT ![w] = [@ EXCEPT !.hb = "done", !.cancelled = TRUE]]
       \/ /\ worker[w].age < MaxVisibility
          /\ ~Stopping(w)
          /\ worker' = [worker EXCEPT ![w] = [@ EXCEPT !.hb = "calling", !.timer = HeartbeatEvery, !.ask = Asked(w)]]
    /\ UNCHANGED <<queue, adrift, promise>>

\* A visibility change reaches the broker; a superseded handle changes nothing.
Extended(m, ask, latest) ==
    IF latest /\ ~queue[m].deleted THEN [queue EXCEPT ![m].visible = ask] ELSE queue

TickLands(w) ==
    /\ worker[w].hb = "calling"
    /\ queue' = Extended(worker[w].msg, worker[w].ask, worker[w].latest)
    /\ worker' = [worker EXCEPT ![w].hb = "landed"]
    /\ UNCHANGED <<adrift, promise>>

\* The tick answers, and the timer is armed again.
TickReturns(w) ==
    /\ worker[w].hb = "landed"
    /\ worker' = [worker EXCEPT ![w] = [@ EXCEPT !.hb = "armed", !.timer = HeartbeatEvery, !.ask = 0]]
    /\ UNCHANGED <<queue, adrift, promise>>

\* A failed tick that keeps the attempt running.
TickFailsSilently(w) ==
    /\ worker[w].hb \in {"calling", "landed"}
    /\ worker' = [worker EXCEPT ![w] = [@ EXCEPT !.hb = "armed", !.timer = HeartbeatEvery, !.ask = 0]]
    /\ UNCHANGED <<queue, adrift, promise>>

\* A tick without a timeout of its own: only an answer ends it.
TickFailsOnAnswer(w) ==
    /\ worker[w].hb = "landed"
    /\ worker' = [worker EXCEPT ![w] = [@ EXCEPT !.hb = "done", !.cancelled = TRUE, !.timer = 0, !.ask = 0]]
    /\ UNCHANGED <<queue, adrift, promise>>

\* The tick fails or reaches its timeout: invisibility is no longer sure, and the
\* attempt is cancelled.  A request not yet applied is refused, or still on its way.
TickFails(w) ==
    /\ worker[w].hb \in {"calling", "landed"}
    /\ worker' = [worker EXCEPT ![w] = [@ EXCEPT !.hb = "done", !.cancelled = TRUE, !.timer = 0, !.ask = 0]]
    /\ \/ UNCHANGED adrift
       \/ /\ worker[w].hb = "calling"
          /\ worker[w].latest
          /\ adrift' = [adrift EXCEPT ![worker[w].msg] = @ \cup {worker[w].ask}]
    /\ UNCHANGED <<queue, promise>>

\* A request nobody waits for any more reaches the broker, or is lost.
AdriftLands(m) ==
    /\ \E ask \in adrift[m] :
          /\ adrift' = [adrift EXCEPT ![m] = @ \ {ask}]
          /\ queue' = Extended(m, ask, TRUE) \/ UNCHANGED queue
    /\ UNCHANGED <<worker, promise>>

----------------------------------------------------------------------------
(* The sink and its gesture. *)

\* The sink asks for its gesture, once: dispose marks it and stops the heartbeat.
Dispose(w, gesture) ==
    /\ worker[w].stage = "handling"
    /\ worker' = [worker EXCEPT ![w].stage = gesture]
    /\ UNCHANGED <<queue, adrift, promise>>

\* Stop has returned: the heartbeat is done.
Stopped(w) == worker[w].hb = "done"

\* A gesture made under a context of its own.
ReachesDetached(w) == TRUE

\* The gesture is made under the context of the attempt: once that has ended the call
\* never leaves.
Reaches(w) == ~worker[w].cancelled /\ worker[w].age < ProcessingDeadline

\* Ack deletes by receipt handle; the call may fail, and a superseded handle may be refused.
Ack(w) ==
    /\ worker[w].stage = "ack"
    /\ Stopped(w)
    /\ \/ /\ Reaches(w)
          /\ queue' = [queue EXCEPT ![worker[w].msg] = [deleted |-> TRUE, visible |-> 0]]
          /\ adrift' = [adrift EXCEPT ![worker[w].msg] = {}]
          /\ promise' = [promise EXCEPT ![worker[w].msg] = 0]
       \/ UNCHANGED <<queue, adrift, promise>>
    /\ worker' = [worker EXCEPT ![w] = [@ EXCEPT !.stage = "ending", !.cancelled = TRUE]]

\* Release asks for the backoff; the call may fail, and a superseded handle does nothing.
Release(w) ==
    /\ worker[w].stage = "release"
    /\ Stopped(w)
    /\ \/ /\ Reaches(w)
          /\ worker[w].latest
          /\ ~queue[worker[w].msg].deleted
          /\ queue' = [queue EXCEPT ![worker[w].msg].visible = Backoff]
          /\ promise' = [promise EXCEPT ![worker[w].msg] = Backoff]
       \/ UNCHANGED <<queue, promise>>
    /\ worker' = [worker EXCEPT ![w] = [@ EXCEPT !.stage = "ending", !.cancelled = TRUE]]
    /\ UNCHANGED adrift

\* The sink fails, panics or returns without a gesture: the visibility is left to expire.
NoGesture(w) ==
    /\ worker[w].stage = "handling"
    /\ worker' = [worker EXCEPT ![w] = [@ EXCEPT !.stage = "ending", !.cancelled = TRUE]]
    /\ UNCHANGED <<queue, adrift, promise>>

\* The deferred Stop has returned: the slot is free.
End(w) ==
    /\ worker[w].stage = "ending"
    /\ Stopped(w)
    /\ worker' = [worker EXCEPT ![w] = Idle]
    /\ UNCHANGED <<queue, adrift, promise>>

\* The process dies with every worker, and starts again.  Its ticks are adrift.
Crash ==
    /\ \E w \in Workers : worker[w].stage # "idle"
    /\ worker' = [w \in Workers |-> Idle]
    /\ adrift' = [m \in Messages |-> adrift[m] \cup
                    {worker[w].ask : w \in {v \in Workers : worker[v].msg = m /\ worker[v].latest /\ worker[v].hb = "calling"}}]
    /\ UNCHANGED <<queue, promise>>

\* The context of the loop ends, by a shutdown or a panic of a goroutine: every
\* attempt is cancelled, and the loop waits for its workers.
Cancel ==
    /\ \E w \in Workers : worker[w].stage # "idle" /\ ~worker[w].cancelled
    /\ worker' = [w \in Workers |-> IF worker[w].stage = "idle" THEN worker[w] ELSE [worker[w] EXCEPT !.cancelled = TRUE]]
    /\ UNCHANGED <<queue, adrift, promise>>

----------------------------------------------------------------------------
(* Time. *)

Less(n) == IF n = 0 THEN 0 ELSE n - 1

\* No timer is due and no call at its timeout.
Quiet(w) == worker[w].hb \in {"armed", "calling", "landed"} => worker[w].timer > 0

Tick ==
    /\ \A w \in Workers : Quiet(w)
    /\ queue' = [m \in Messages |-> [queue[m] EXCEPT !.visible = Less(@)]]
    /\ promise' = [m \in Messages |-> Less(promise[m])]
    /\ worker' = [w \in Workers |->
                    IF worker[w].stage = "idle" THEN worker[w]
                    ELSE [worker[w] EXCEPT !.timer = Less(@),
                                           !.age = IF @ < MaxVisibility THEN @ + 1 ELSE @]]
    /\ UNCHANGED adrift

Heartbeat(w) == HeartbeatStops(w) \/ HeartbeatFires(w) \/ TickReturns(w) \/ TickFails(w)

Sink(w) == Dispose(w, "ack") \/ Dispose(w, "release") \/ NoGesture(w)

Gesture(w) == Ack(w) \/ Release(w) \/ End(w)

Next ==
    \/ \E w \in Workers, m \in Messages : Receive(w, m)
    \/ \E m \in Messages : ReceiveLost(m) \/ AdriftLands(m)
    \/ \E w \in Workers : Heartbeat(w) \/ TickLands(w) \/ Sink(w) \/ Gesture(w)
    \/ Crash
    \/ Cancel
    \/ Tick

Spec == Init /\ [][Next]_vars

\* Time passes, goroutines that may run do, and the broker or the timeout ends a
\* call.  Nothing is asked of the sink, which may never return, nor of the broker,
\* which may apply no call.
FairSpec ==
    /\ Spec
    /\ WF_vars(Tick)
    /\ \A w \in Workers : WF_vars(Heartbeat(w)) /\ WF_vars(Gesture(w))

----------------------------------------------------------------------------
(* Properties. *)

\* An attempt nobody has cancelled nor is about to, within its deadline: no timer of it
\* is due and no call of it at its timeout.
Live(w) ==
    /\ worker[w].stage = "handling"
    /\ ~worker[w].cancelled
    /\ Quiet(w)
    /\ worker[w].age < ProcessingDeadline

\* Between two ticks the message of a live attempt is invisible, unless it was received
\* again already: two intervals fit in the visibility, so what a tick is applied for
\* lasts until the next one leaves, however late the first answers, and a tick that is
\* not answered ends the attempt (consumer.go Validate, heartbeat.go).  While a tick is
\* in flight nothing of the sort holds: LiveIsAlone.
InvisibleBetweenTicks ==
    \A w \in Workers : Live(w) /\ worker[w].latest /\ worker[w].hb # "calling" =>
        queue[worker[w].msg].deleted \/ queue[worker[w].msg].visible > 0

\* What stays true of the receipts.
ReceiptInv == TypeOK /\ InvisibleBetweenTicks

\* Two live attempts never have one message: its visibility is renewed in time, as the
\* comment of Validate has it of two intervals (consumer.go).  It is, when three are less
\* than the visibility: a tick applied at once may answer at its timeout, and the next
\* be applied at its own.
LiveIsAlone ==
    \A v, w \in Workers : Live(v) /\ Live(w) /\ worker[v].msg = worker[w].msg => v = w

Stands(m) == promise[m] > 0 => queue[m].visible = promise[m]

\* A released message comes back after its backoff, as the comment of Stop has it: no
\* extension lands after the gesture (heartbeat.go).  Stop waits for the tick in flight,
\* and an extension whose answer was given up, which nothing waits for, has cancelled
\* the attempt, and with it the gesture (consumer.go process, acknowledger.go Release).
ReleaseStands == \A m \in Messages : Stands(m)

\* A gesture is not held for ever by a tick stuck at the broker: Stop returns within
\* the timeout of the tick, the gesture is made and the slot is free.
GestureIsMade ==
    \A w \in Workers : worker[w].stage \in {"ack", "release", "ending"} ~> worker[w].stage = "idle"

\* No message is stranded: even if the sink never returns, the ceiling ends the
\* heartbeat, and the message is visible again or gone.
NotStranded ==
    \A m \in Messages : queue[m].visible > 0 ~> queue[m].visible = 0

=============================================================================
