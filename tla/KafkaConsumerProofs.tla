------------------------ MODULE KafkaConsumerProofs ------------------------
(* The theorems about KafkaConsumer, for any members, partition, queue and    *)
(* bounds.  The argument: what a worker has still to take is an interval that *)
(* ends at the fetch position (Contiguous), a record is acknowledged before   *)
(* the next one is taken (AtHand, Between), so the cursor never has more than *)
(* one entry; and of all members one at most can move the committed offset    *)
(* (OneHolder), which has nothing to commit but what lies past it             *)
(* (AheadOfCommit).                                                           *)
EXTENDS KafkaConsumer, Integers, FiniteSetTheorems, SequenceTheorems, TLAPS

\* In what follows c is the client of a member, w its worker, a the offsets that are
\* acknowledged and k the committed offset.

\* The first n offsets are acknowledged.
Done(a, n) == 1..n \subseteq a

\* The next offset the worker takes: from there on the queue and the batch have them all.
First(c, w) == c.position - Len(c.batch) - Len(w.queue)

\* Queue and batch are the offsets from First to the fetch position, in order.
Contiguous(c, w) ==
    ~c.stuck =>
        /\ \A j \in 1..Len(w.queue) : w.queue[j] = First(c, w) + j - 1
        /\ \A j \in 1..Len(c.batch) : c.batch[j] = First(c, w) + Len(w.queue) + j - 1

\* Where a worker, the claim of its member and a release stand to each other.
Placed(c, w) ==
    /\ ~c.stuck => (c.assigned <=> w.pc # "none")
    /\ c.releasing => c.assigned /\ ~c.stuck /\ w.revoked
    /\ ~c.assigned \/ c.releasing \/ c.stuck => c.batch = <<>> /\ ~c.pausing
    /\ c.stuck => w.revoked /\ c.state \in {"stopping", "leaving"}
    /\ c.state = "down" => ~c.assigned /\ ~c.stuck
    /\ w.revoked => w.cancelled
    /\ w.pc = "none" => w.queue = <<>> /\ w.cursor = <<>>
    /\ w.pc = "backoff" => w.tries < MaxAttempts
    /\ w.pc = "commit" /\ ~w.fenced => c.current

\* The record at hand is the one entry of the cursor, and all before it are
\* acknowledged.
AtHand(c, w, a) ==
    /\ w.pc \in {"handle", "returned", "backoff", "gate"} =>
          /\ w.rec \in Offsets /\ Done(a, w.rec - 1)
          /\ w.cursor = <<[offset |-> w.rec, acked |-> w.pc = "gate"]>>
          /\ ~c.stuck => First(c, w) = w.rec + 1
    /\ w.pc = "returned" /\ w.gesture = "acked" => w.rec \in a
    /\ w.pc = "gate" => w.rec \in a

\* Between two records the cursor is empty and what comes before First is
\* acknowledged, unless the worker stalled or was revoked.
Between(c, w, a) ==
    /\ w.pc \in {"idle", "next"} /\ ~w.stalled /\ ~c.stuck => Done(a, First(c, w) - 1)
    /\ w.pc \in {"idle", "next"} /\ ~w.stalled /\ ~w.revoked => w.cursor = <<>>
    /\ w.pc = "commit" => w.cursor = <<>> /\ Done(a, w.upto)
    /\ w.pc = "commit" /\ ~c.stuck => w.upto = First(c, w) - 1
    /\ w.pc \in {"handle", "returned", "backoff", "gate", "commit"} => ~w.stalled

CursorIsSound(w, a) ==
    \/ w.cursor = <<>>
    \/ \E e \in Tracked : w.cursor = <<e>> /\ (e.acked => Done(a, e.offset))

\* What a member of the current generation has yet to commit lies past the
\* committed offset.
AheadOfCommit(c, w, k) ==
    /\ c.assigned /\ c.current /\ ~c.stuck =>
          /\ w.cursor # <<>> => w.cursor[1].offset > k
          /\ w.pc # "left" => First(c, w) > k
    /\ w.pc = "commit" /\ ~w.fenced => w.upto >= k

MemberInv(c, w, a, k) ==
    /\ Contiguous(c, w) /\ Placed(c, w) /\ AtHand(c, w, a) /\ Between(c, w, a)
    /\ CursorIsSound(w, a) /\ AheadOfCommit(c, w, k)

\* The member may move the committed offset.
Holds(c, w) == c.current /\ (c.assigned \/ (w.pc = "commit" /\ ~w.fenced))

AckedIsPrefix == \E a \in 0..Records : acked = 1..a

OneHolder ==
    \A m, x \in Members : Holds(client[m], worker[m]) /\ Holds(client[x], worker[x]) => m = x

MembersAreSound == \A m \in Members : MemberInv(client[m], worker[m], acked, committed)

Inv == TypeOK /\ AckedIsPrefix /\ Done(acked, committed) /\ OneHolder /\ MembersAreSound

-----------------------------------------------------------------------------
(* Lemmas about the cursor, the queue and one member's part of a step.     *)

\* The acknowledged prefix of a cursor of one entry at most.
LEMMA PrefixOfShort ==
    /\ Prefix(<<>>) = 0
    /\ \A e \in Tracked : /\ e.acked => Prefix(<<e>>) = 1 /\ Popped(<<e>>) = <<>>
                          /\ ~e.acked => Prefix(<<e>>) = 0
<1>1. Prefix(<<>>) = 0
  BY DEF Prefix
<1>2. ASSUME NEW e \in Tracked, e.acked PROVE Prefix(<<e>>) = 1
  BY <1>2 DEF Prefix
<1>3. ASSUME NEW e \in Tracked, e.acked PROVE Popped(<<e>>) = <<>>
  BY <1>2, <1>3 DEF Popped
<1>4. ASSUME NEW e \in Tracked, ~e.acked PROVE Prefix(<<e>>) = 0
  BY <1>4 DEF Prefix
<1> QED BY <1>1, <1>2, <1>3, <1>4

\* Member m goes on as c and w.
Becomes(m, c, w) ==
    /\ c \in Client /\ w \in Worker
    /\ client' = [client EXCEPT ![m] = c]
    /\ worker' = [worker EXCEPT ![m] = w]

\* What a member relies on stays when more is acknowledged and only a holder moves
\* the committed offset.
LEMMA OthersKeep ==
    ASSUME NEW c \in Client, NEW w \in Worker, NEW a, NEW b, NEW k, NEW l,
           MemberInv(c, w, a, k), a \subseteq b, l = k \/ ~Holds(c, w)
    PROVE  MemberInv(c, w, b, l)
<1>1. \A n : Done(a, n) => Done(b, n)
  BY DEF Done
<1>2. Contiguous(c, w) /\ Placed(c, w) /\ CursorIsSound(w, b)
  BY <1>1 DEF MemberInv, CursorIsSound
<1>3. AtHand(c, w, b) /\ Between(c, w, b)
  BY <1>1 DEF MemberInv, AtHand, Between
<1>4. AheadOfCommit(c, w, l)
  BY DEF MemberInv, AheadOfCommit, Placed, Holds
<1> QED BY <1>2, <1>3, <1>4 DEF MemberInv

\* A step of m alone.
LEMMA StepOfOne ==
    ASSUME Inv, NEW m \in Members, NEW c, NEW w, Becomes(m, c, w),
           committed' \in 0..Records, acked' \subseteq Offsets, upsets' \in 0..MaxUpsets,
           AckedIsPrefix', Done(acked', committed'), acked \subseteq acked',
           committed' = committed \/ Holds(client[m], worker[m]),
           Holds(c, w) => Holds(client[m], worker[m]),
           MemberInv(c, w, acked', committed')
    PROVE  Inv'
<1>1. TypeOK'
  BY DEF Inv, TypeOK, Becomes
<1>2. client'[m] = c /\ worker'[m] = w
  BY DEF Inv, TypeOK, Becomes
<1>3. \A x \in Members \ {m} : client'[x] = client[x] /\ worker'[x] = worker[x]
  BY DEF Inv, TypeOK, Becomes
<1>4. \A x \in Members \ {m} : committed' = committed \/ ~Holds(client[x], worker[x])
  BY DEF Inv, OneHolder
<1>5. ASSUME NEW x \in Members \ {m} PROVE MemberInv(client[x], worker[x], acked', committed')
  <2>1. client[x] \in Client /\ worker[x] \in Worker /\ MemberInv(client[x], worker[x], acked, committed)
    BY DEF Inv, TypeOK, MembersAreSound
  <2> QED BY <1>4, <2>1, OthersKeep
<1>6. MembersAreSound'
  BY <1>2, <1>3, <1>5 DEF MembersAreSound
<1>7. OneHolder'
  BY <1>2, <1>3 DEF Inv, OneHolder
<1> QED BY <1>1, <1>6, <1>7 DEF Inv

\* The same when nothing is acknowledged nor committed.
LEMMA QuietStep ==
    ASSUME Inv, NEW m \in Members, NEW c, NEW w, Becomes(m, c, w),
           UNCHANGED <<committed, acked>>, upsets' \in 0..MaxUpsets,
           Holds(c, w) => Holds(client[m], worker[m]),
           MemberInv(c, w, acked, committed)
    PROVE  Inv'
<1>1. committed' \in 0..Records /\ acked' \subseteq Offsets
  BY DEF Inv, TypeOK
<1>2. AckedIsPrefix' /\ Done(acked', committed')
  BY DEF Inv, AckedIsPrefix
<1> QED BY <1>1, <1>2, StepOfOne

\* The invariant at one member.
LEMMA MemberFacts ==
    ASSUME Inv, NEW m \in Members
    PROVE  /\ client[m] \in Client /\ worker[m] \in Worker
           /\ MemberInv(client[m], worker[m], acked, committed)
           /\ upsets \in 0..MaxUpsets
  BY DEF Inv, TypeOK, MembersAreSound

\* The records a member starts from.
LEMMA InitialTypes == Down \in Client /\ Fresh \in Worker /\ NoWorker \in Worker
<1>1. 1 \in 1..(Records + 1) /\ 0 \in 0..Records /\ 0 \in 0..MaxAttempts
  BY KafkaAssumption
<1>2. <<>> \in Seq(Offsets) /\ <<>> \in Seq(Tracked)
  OBVIOUS
<1>3. Down \in Client
  BY <1>1, <1>2 DEF Down, Client
<1>4. Fresh \in Worker
  BY <1>1, <1>2 DEF Fresh, Worker
<1> QED BY <1>3, <1>4 DEF NoWorker, Worker

\* Flags that are formulas.
LEMMA FlagTypes ==
    ASSUME NEW c \in Client, NEW w \in Worker, NEW p \in BOOLEAN, NEW q \in BOOLEAN
    PROVE  /\ [c EXCEPT !.paused = p] \in Client
           /\ [c EXCEPT !.state = "leaving", !.releasing = p] \in Client
           /\ [w EXCEPT !.paused = p, !.resuming = q] \in Worker
           /\ [w EXCEPT !.paused = p, !.signal = q] \in Worker
  BY DEF Client, Worker

\* The worker between two records, and revoked.
LEMMA WorkerTypes ==
    ASSUME NEW w \in Worker
    PROVE  Ready(w) \in Worker /\ Revoked(w) \in Worker
<1>1. 0 \in 0..Records /\ 0 \in 0..MaxAttempts
  BY KafkaAssumption
<1> QED BY <1>1 DEF Worker, Ready, Revoked

-----------------------------------------------------------------------------
(* One lemma per action: the invariant is kept.                            *)

\* The poll loop calls the pause it decided on.
LEMMA PauseFetchKeeps ==
    ASSUME Inv, NEW m \in Members, PauseFetch(m)
    PROVE  Inv'
<1> DEFINE c == client[m]
           w == worker[m]
           d == [c EXCEPT !.pausing = FALSE, !.paused = TRUE]
           v == [w EXCEPT !.signal = TRUE]
<1>1. c \in Client /\ w \in Worker /\ MemberInv(c, w, acked, committed) /\ upsets \in 0..MaxUpsets
  BY MemberFacts
<1>2. Becomes(m, d, v) /\ upsets' \in 0..MaxUpsets
  BY <1>1 DEF PauseFetch, Becomes, Inv, TypeOK, Client, Worker
<1>3. MemberInv(d, v, acked, committed) /\ (Holds(d, v) => Holds(c, w))
  BY <1>1 DEF PauseFetch, MemberInv, Contiguous, First, Placed, AtHand, Between, CursorIsSound,
              AheadOfCommit, Holds, Client, Worker
<1> QED BY <1>1, <1>2, <1>3, QuietStep DEF PauseFetch

\* The goroutine is signalled.
LEMMA WakeKeeps ==
    ASSUME Inv, NEW m \in Members, Wake(m)
    PROVE  Inv'
<1> DEFINE c == client[m]
           w == worker[m]
           v == [w EXCEPT !.pc = "next", !.signal = FALSE]
<1>1. c \in Client /\ w \in Worker /\ MemberInv(c, w, acked, committed) /\ upsets \in 0..MaxUpsets
  BY MemberFacts
<1>2. Becomes(m, c, v) /\ upsets' \in 0..MaxUpsets
  BY <1>1 DEF Wake, Becomes, Inv, TypeOK, Worker
<1>3. MemberInv(c, v, acked, committed) /\ (Holds(c, v) => Holds(c, w))
  BY <1>1 DEF Wake, MemberInv, Contiguous, First, Placed, AtHand, Between, CursorIsSound,
              AheadOfCommit, Holds, Worker
<1> QED BY <1>1, <1>2, <1>3, QuietStep DEF Wake

\* Nothing to take: back to the signal.
LEMMA RestKeeps ==
    ASSUME Inv, NEW m \in Members, Rest(m)
    PROVE  Inv'
<1> DEFINE c == client[m]
           w == worker[m]
           v == [w EXCEPT !.pc = "idle"]
<1>1. c \in Client /\ w \in Worker /\ MemberInv(c, w, acked, committed) /\ upsets \in 0..MaxUpsets
  BY MemberFacts
<1>2. Becomes(m, c, v) /\ upsets' \in 0..MaxUpsets
  BY <1>1 DEF Rest, Becomes, Inv, TypeOK, Worker
<1>3. MemberInv(c, v, acked, committed) /\ (Holds(c, v) => Holds(c, w))
  BY <1>1 DEF Rest, MemberInv, Contiguous, First, Placed, AtHand, Between, CursorIsSound,
              AheadOfCommit, Holds, Worker
<1> QED BY <1>1, <1>2, <1>3, QuietStep DEF Rest

\* The fetch is resumed.
LEMMA ResumeFetchKeeps ==
    ASSUME Inv, NEW m \in Members, ResumeFetch(m)
    PROVE  Inv'
<1> DEFINE c == client[m]
           w == worker[m]
           d == [c EXCEPT !.paused = FALSE]
           v == [w EXCEPT !.resuming = FALSE]
<1>1. c \in Client /\ w \in Worker /\ MemberInv(c, w, acked, committed) /\ upsets \in 0..MaxUpsets
  BY MemberFacts
<1>2. Becomes(m, d, v) /\ upsets' \in 0..MaxUpsets
  BY <1>1 DEF ResumeFetch, Becomes, Inv, TypeOK, Client, Worker
<1>3. MemberInv(d, v, acked, committed) /\ (Holds(d, v) => Holds(c, w))
  BY <1>1 DEF ResumeFetch, MemberInv, Contiguous, First, Placed, AtHand, Between, CursorIsSound,
              AheadOfCommit, Holds, Client, Worker
<1> QED BY <1>1, <1>2, <1>3, QuietStep DEF ResumeFetch

\* The record keeps its place in the cursor, unacknowledged.
LEMMA StallKeeps ==
    ASSUME Inv, NEW m \in Members, Stall(m)
    PROVE  Inv'
<1> DEFINE c == client[m]
           w == worker[m]
           d == [c EXCEPT !.paused = @ \/ ~w.paused]
           v == [Ready(w) EXCEPT !.stalled = TRUE, !.paused = TRUE]
<1>1. c \in Client /\ w \in Worker /\ MemberInv(c, w, acked, committed) /\ upsets \in 0..MaxUpsets
  BY MemberFacts
<1>2. d \in Client
  BY <1>1, FlagTypes
<1>2a. v \in Worker
  <2>1. \A r \in Worker : [r EXCEPT !.stalled = TRUE, !.paused = TRUE] \in Worker
    BY DEF Worker
  <2> QED BY <1>1, <2>1, WorkerTypes
<1>3. Becomes(m, d, v)
  BY <1>1, <1>2, <1>2a DEF Stall, Becomes, Inv, TypeOK
<1>4. MemberInv(d, v, acked, committed) /\ (Holds(d, v) => Holds(c, w))
  BY <1>1 DEF Stall, MemberInv, Contiguous, First, Placed, AtHand, Between, CursorIsSound,
              AheadOfCommit, Holds, Client, Worker, Ready, GivesUp
<1> QED BY <1>1, <1>3, <1>4, QuietStep DEF Stall

\* The record waits for its next attempt.
LEMMA BackoffKeeps ==
    ASSUME Inv, NEW m \in Members, Backoff(m)
    PROVE  Inv'
<1> DEFINE c == client[m]
           w == worker[m]
           d == [c EXCEPT !.paused = @ \/ ~w.paused]
           v == [w EXCEPT !.pc = "backoff", !.paused = TRUE]
<1>1. c \in Client /\ w \in Worker /\ MemberInv(c, w, acked, committed) /\ upsets \in 0..MaxUpsets
  BY MemberFacts
<1>2. Becomes(m, d, v) /\ upsets' \in 0..MaxUpsets
  BY <1>1 DEF Backoff, Becomes, Inv, TypeOK, Client, Worker
<1>3. MemberInv(d, v, acked, committed) /\ (Holds(d, v) => Holds(c, w))
  BY <1>1 DEF Backoff, MemberInv, Contiguous, First, Placed, AtHand, Between, CursorIsSound,
              AheadOfCommit, Holds, Client, Worker
<1> QED BY <1>1, <1>2, <1>3, QuietStep DEF Backoff

\* The next attempt; tries stays within the limit.
LEMMA RetryKeeps ==
    ASSUME Inv, NEW m \in Members, Retry(m)
    PROVE  Inv'
<1> DEFINE c == client[m]
           w == worker[m]
           resume == w.paused /\ ~w.stalled /\ Len(w.queue) < QueuePerPartition
           v == [w EXCEPT !.pc = "handle", !.tries = @ + 1, !.paused = w.paused /\ ~resume, !.resuming = resume]
<1>1. c \in Client /\ w \in Worker /\ MemberInv(c, w, acked, committed) /\ upsets \in 0..MaxUpsets
  BY MemberFacts
<1>2. w.tries + 1 \in 0..MaxAttempts
  BY SMTT(20), <1>1, KafkaAssumption DEF Retry, MemberInv, Placed, Worker
<1>3. Becomes(m, c, v)
  BY <1>1, <1>2 DEF Retry, Becomes, Inv, TypeOK, Worker
<1>4. MemberInv(c, v, acked, committed) /\ (Holds(c, v) => Holds(c, w))
  BY <1>1 DEF Retry, MemberInv, Contiguous, First, Placed, AtHand, Between, CursorIsSound,
              AheadOfCommit, Holds, Worker
<1> QED BY <1>1, <1>3, <1>4, QuietStep DEF Retry

\* A stuck worker is no holder any more.
LEMMA SettleStuckKeeps ==
    ASSUME Inv, NEW m \in Members, SettleStuck(m)
    PROVE  Inv'
<1> DEFINE c == client[m]
           w == worker[m]
           d == [c EXCEPT !.releasing = FALSE, !.assigned = FALSE, !.paused = TRUE, !.stuck = TRUE,
                           !.state = IF @ = "up" THEN "stopping" ELSE @]
<1>1. c \in Client /\ w \in Worker /\ MemberInv(c, w, acked, committed) /\ upsets \in 0..MaxUpsets
  BY MemberFacts
<1>2. d \in Client
  BY <1>1 DEF Client
<1>3. Becomes(m, d, w)
  BY <1>1, <1>2 DEF SettleStuck, Becomes, Inv, TypeOK
<1>3a. upsets' \in 0..MaxUpsets
  BY <1>1, KafkaAssumption DEF SettleStuck, Upset
<1>4. MemberInv(d, w, acked, committed) /\ (Holds(d, w) => Holds(c, w))
  BY <1>1 DEF SettleStuck, MemberInv, Contiguous, First, Placed, AtHand, Between, CursorIsSound,
              AheadOfCommit, Holds, Client, Upset
<1> QED BY <1>1, <1>3, <1>3a, <1>4, QuietStep DEF SettleStuck

\* The process ends.
LEMMA ExitKeeps ==
    ASSUME Inv, NEW m \in Members, Exit(m)
    PROVE  Inv'
<1> DEFINE c == client[m]
           w == worker[m]
           d == Down
           v == NoWorker
<1>1. c \in Client /\ w \in Worker /\ MemberInv(c, w, acked, committed) /\ upsets \in 0..MaxUpsets
  BY MemberFacts
<1>2. Becomes(m, d, v) /\ upsets' \in 0..MaxUpsets
  BY <1>1, InitialTypes, KafkaAssumption DEF Exit, Gone, Becomes, Inv, TypeOK
<1>3. MemberInv(d, v, acked, committed) /\ (Holds(d, v) => Holds(c, w))
  BY <1>1 DEF Exit, MemberInv, Contiguous, First, Placed, AtHand, Between, CursorIsSound,
              AheadOfCommit, Holds, Client, Worker, Gone, Down, NoWorker, Fresh
<1> QED BY <1>1, <1>2, <1>3, QuietStep DEF Exit, Gone

\* The process ends without a word.
LEMMA CrashKeeps ==
    ASSUME Inv, NEW m \in Members, Crash(m)
    PROVE  Inv'
<1> DEFINE c == client[m]
           w == worker[m]
           d == Down
           v == NoWorker
<1>1. c \in Client /\ w \in Worker /\ MemberInv(c, w, acked, committed) /\ upsets \in 0..MaxUpsets
  BY MemberFacts
<1>2. Becomes(m, d, v) /\ upsets' \in 0..MaxUpsets
  BY <1>1, InitialTypes, KafkaAssumption DEF Crash, Gone, Becomes, Inv, TypeOK, Upset
<1>3. MemberInv(d, v, acked, committed) /\ (Holds(d, v) => Holds(c, w))
  BY <1>1 DEF Crash, MemberInv, Contiguous, First, Placed, AtHand, Between, CursorIsSound,
              AheadOfCommit, Holds, Client, Worker, Gone, Down, NoWorker, Fresh, Upset
<1> QED BY <1>1, <1>2, <1>3, QuietStep DEF Crash, Gone

\* It comes back without the partition.
LEMMA RestartKeeps ==
    ASSUME Inv, NEW m \in Members, Restart(m)
    PROVE  Inv'
<1> DEFINE c == client[m]
           w == worker[m]
           d == [c EXCEPT !.state = "up"]
<1>1. c \in Client /\ w \in Worker /\ MemberInv(c, w, acked, committed) /\ upsets \in 0..MaxUpsets
  BY MemberFacts
<1>2. Becomes(m, d, w) /\ upsets' \in 0..MaxUpsets
  BY <1>1 DEF Restart, Becomes, Inv, TypeOK, Client
<1>3. MemberInv(d, w, acked, committed) /\ (Holds(d, w) => Holds(c, w))
  BY <1>1 DEF Restart, MemberInv, Contiguous, First, Placed, AtHand, Between, CursorIsSound,
              AheadOfCommit, Holds, Client
<1> QED BY <1>1, <1>2, <1>3, QuietStep DEF Restart

\* Shutdown revokes the worker it has.
LEMMA StopAllKeeps ==
    ASSUME Inv, NEW m \in Members, StopAll(m)
    PROVE  Inv'
<1> DEFINE c == client[m]
           w == worker[m]
           d == [c EXCEPT !.state = "leaving", !.releasing = (w.pc # "none" /\ ~c.stuck)]
           v == IF w.pc # "none" /\ ~c.stuck THEN Revoked(w) ELSE w
<1>1. c \in Client /\ w \in Worker /\ MemberInv(c, w, acked, committed) /\ upsets \in 0..MaxUpsets
  BY MemberFacts
<1>2. d \in Client
  BY <1>1, FlagTypes
<1>2a. v \in Worker
  BY <1>1, WorkerTypes
<1>3. Becomes(m, d, v)
  BY <1>1, <1>2, <1>2a DEF StopAll, Becomes, Inv, TypeOK
<1>4. MemberInv(d, v, acked, committed) /\ (Holds(d, v) => Holds(c, w))
  BY <1>1 DEF StopAll, MemberInv, Contiguous, First, Placed, AtHand, Between, CursorIsSound,
              AheadOfCommit, Holds, Client, Worker, Revoked, Dispatching
<1> QED BY <1>1, <1>3, <1>4, QuietStep DEF StopAll

\* Moving the head of t to the end of s.
LEMMA HeadMoves ==
    ASSUME NEW s \in Seq(Offsets), NEW t \in Seq(Offsets), t # <<>>
    PROVE  LET q == Append(s, Head(t)) IN
           /\ q \in Seq(Offsets) /\ Tail(t) \in Seq(Offsets)
           /\ Len(s) \in Nat /\ Len(t) \in Nat \ {0}
           /\ Len(q) = Len(s) + 1 /\ Len(Tail(t)) = Len(t) - 1
           /\ \A j \in 1..Len(s) : q[j] = s[j]
           /\ q[Len(s) + 1] = t[1]
           /\ \A j \in 1..(Len(t) - 1) : Tail(t)[j] = t[j + 1]
  OBVIOUS

\* Position and lengths are numbers.
LEMMA LengthTypes ==
    ASSUME NEW c \in Client, NEW w \in Worker
    PROVE  c.position \in Nat /\ Len(c.batch) \in Nat /\ Len(w.queue) \in Nat /\ First(c, w) \in Int
<1>1. c.position \in Nat /\ c.batch \in Seq(Offsets) /\ w.queue \in Seq(Offsets)
  BY KafkaAssumption DEF Client, Worker
<1>2. Len(c.batch) \in Nat /\ Len(w.queue) \in Nat
  BY <1>1
<1> QED BY <1>1, <1>2 DEF First

\* First follows the lengths of batch and queue.
LEMMA FirstMoves ==
    ASSUME NEW c \in Client, NEW w \in Worker, NEW d, NEW v, NEW i \in Int, NEW j \in Int,
           d.position = c.position, Len(d.batch) = Len(c.batch) + i, Len(v.queue) = Len(w.queue) + j
    PROVE  First(d, v) = First(c, w) - i - j
<1> DEFINE x == c.position
           y == Len(c.batch)
           z == Len(w.queue)
<1>1. x - (y + i) - (z + j) = x - y - z - i - j
  <2>1. x \in Int /\ y \in Int /\ z \in Int
    BY LengthTypes
  <2> HIDE DEF x, y, z
  <2> QED BY <2>1
<1>2. First(d, v) = x - (y + i) - (z + j)
  BY DEF First
<1> QED BY <1>1, <1>2 DEF First

\* A poll extends the interval at its end.
LEMMA PollKeeps ==
    ASSUME Inv, NEW m \in Members, Poll(m)
    PROVE  Inv'
<1> DEFINE c == client[m]
           w == worker[m]
<1>1. c \in Client /\ w \in Worker /\ MemberInv(c, w, acked, committed) /\ upsets \in 0..MaxUpsets
  BY MemberFacts
<1>2. PICK n \in 1..MaxPoll :
         /\ c.position + n <= Records + 1
         /\ client' = [client EXCEPT ![m].batch = [j \in 1..n |-> c.position + j - 1],
                                     ![m].position = c.position + n]
  BY DEF Poll
<1> DEFINE b == [j \in 1..n |-> c.position + j - 1]
           d == [c EXCEPT !.batch = b, !.position = c.position + n]
<1>3. n \in Nat /\ c.position \in Nat /\ c.position + n \in 1..(Records + 1)
  BY <1>1, <1>2, KafkaAssumption DEF Client
<1>3a. c.position >= 1
  BY <1>1, KafkaAssumption DEF Client
<1>4. b \in Seq(Offsets) /\ Len(b) = n
  <2>1. \A j \in 1..n : c.position + j - 1 \in Offsets
    BY <1>3, <1>3a, KafkaAssumption DEF Offsets
  <2> QED BY <1>3, <2>1
<1>5. d \in Client /\ d.batch = b /\ d.position = c.position + n
  BY <1>1, <1>3, <1>4 DEF Client
<1>6. Becomes(m, d, w)
  BY <1>1, <1>2, <1>5 DEF Poll, Becomes, Inv, TypeOK
<1>7. c.batch = <<>> /\ ~c.stuck /\ c.assigned /\ ~c.releasing
  BY <1>1 DEF Poll, Dispatching, MemberInv, Placed
<1>8. First(d, w) = First(c, w)
  BY <1>1, <1>3, <1>4, <1>5, <1>7 DEF First, Worker
<1>9. Contiguous(d, w)
  <2>1. \A j \in 1..Len(w.queue) : w.queue[j] = First(d, w) + j - 1
    BY <1>1, <1>7, <1>8 DEF MemberInv, Contiguous
  <2>2. First(c, w) + Len(w.queue) = c.position
    BY <1>1, <1>3, <1>7 DEF First, Worker
  <2>3. \A j \in 1..Len(b) : b[j] = First(d, w) + Len(w.queue) + j - 1
    BY <1>3, <1>4, <1>8, <2>2
  <2> QED BY <1>5, <2>1, <2>3 DEF Contiguous
<1>10. \A f \in {"state", "current", "assigned", "pausing", "releasing", "stuck"} : d[f] = c[f]
  BY <1>1 DEF Client
<1>11. MemberInv(d, w, acked, committed) /\ (Holds(d, w) => Holds(c, w))
  BY <1>1, <1>7, <1>8, <1>9, <1>10 DEF MemberInv, Placed, AtHand, Between, AheadOfCommit, Holds
<1> QED BY <1>1, <1>6, <1>11, QuietStep DEF Poll

\* A record moves from the batch to the queue.
LEMMA EnqueueKeeps ==
    ASSUME Inv, NEW m \in Members, Enqueue(m)
    PROVE  Inv'
<1> DEFINE c == client[m]
           w == worker[m]
           q == Append(w.queue, Head(c.batch))
           pause == ~w.paused /\ Len(q) >= QueuePerPartition
           d == [c EXCEPT !.batch = Tail(@), !.pausing = pause]
           v == [w EXCEPT !.queue = q, !.paused = w.paused \/ pause, !.signal = w.signal \/ ~pause]
<1>1. c \in Client /\ w \in Worker /\ MemberInv(c, w, acked, committed) /\ upsets \in 0..MaxUpsets
  BY MemberFacts
<1>2. c.batch \in Seq(Offsets) /\ w.queue \in Seq(Offsets) /\ c.position \in Nat
  BY <1>1, KafkaAssumption DEF Client, Worker
<1>2a. c.batch # <<>>
  BY DEF Enqueue
<1>3. /\ q \in Seq(Offsets) /\ Tail(c.batch) \in Seq(Offsets)
      /\ Len(w.queue) \in Nat /\ Len(c.batch) \in Nat \ {0}
      /\ Len(q) = Len(w.queue) + 1 /\ Len(Tail(c.batch)) = Len(c.batch) - 1
      /\ \A j \in 1..Len(w.queue) : q[j] = w.queue[j]
      /\ q[Len(w.queue) + 1] = c.batch[1]
      /\ \A j \in 1..(Len(c.batch) - 1) : Tail(c.batch)[j] = c.batch[j + 1]
  BY <1>2, <1>2a, HeadMoves
<1>4. d \in Client /\ v \in Worker
  <2>1. [c EXCEPT !.batch = Tail(c.batch)] \in Client /\ [w EXCEPT !.queue = q] \in Worker
    BY <1>1, <1>3 DEF Client, Worker
  <2>2. \A p \in BOOLEAN : [c EXCEPT !.batch = Tail(c.batch), !.pausing = p] \in Client
    BY <1>1, <1>3 DEF Client
  <2>3. \A p, r \in BOOLEAN : [w EXCEPT !.queue = q, !.paused = p, !.signal = r] \in Worker
    BY <1>1, <1>3 DEF Worker
  <2>4. pause \in BOOLEAN /\ (w.paused \/ pause) \in BOOLEAN /\ (w.signal \/ ~pause) \in BOOLEAN
    OBVIOUS
  <2> QED BY <2>2, <2>3, <2>4
<1>5. Becomes(m, d, v)
  BY <1>4 DEF Enqueue, Becomes, Inv, TypeOK
<1>6. ~c.stuck /\ c.assigned /\ ~c.releasing
  BY <1>1, <1>2a DEF MemberInv, Placed
<1>7. d.batch = Tail(c.batch) /\ v.queue = q /\ d.position = c.position
  BY <1>1 DEF Client, Worker
<1> HIDE DEF d, v, q, pause
<1>8. First(d, v) = First(c, w) /\ First(c, w) \in Int
  <2>1. Len(d.batch) = Len(c.batch) + (-1) /\ Len(v.queue) = Len(w.queue) + 1 /\ d.position = c.position
    BY <1>3, <1>7
  <2>2. First(d, v) = First(c, w) - (-1) - 1
    BY <1>1, <2>1, FirstMoves
  <2> QED BY <1>1, <2>2, LengthTypes
<1>9. Contiguous(d, v)
  <2> DEFINE p == First(c, w)
  <2>1. p \in Int
    BY <1>8
  <2>2. /\ \A j \in 1..Len(w.queue) : w.queue[j] = p + j - 1
        /\ \A j \in 1..Len(c.batch) : c.batch[j] = p + Len(w.queue) + j - 1
    BY <1>1, <1>6 DEF MemberInv, Contiguous
  <2> HIDE DEF p
  <2>3. \A j \in 1..Len(q) : q[j] = p + j - 1
    BY SMTT(20), <1>3, <2>1, <2>2
  <2>4. \A j \in 1..Len(Tail(c.batch)) : Tail(c.batch)[j] = p + Len(q) + j - 1
    BY <1>3, <2>1, <2>2
  <2> QED BY <1>7, <1>8, <2>3, <2>4 DEF Contiguous, p
<1>10. /\ \A f \in {"state", "current", "assigned", "releasing", "stuck"} : d[f] = c[f]
       /\ \A f \in {"pc", "rec", "tries", "gesture", "stalled", "revoked", "cancelled", "cursor",
                    "upto", "fenced"} : v[f] = w[f]
  BY <1>1 DEF Client, Worker, d, v
<1>11. MemberInv(d, v, acked, committed) /\ (Holds(d, v) => Holds(c, w))
  BY <1>1, <1>6, <1>8, <1>9, <1>10
     DEF MemberInv, Placed, AtHand, Between, CursorIsSound, AheadOfCommit, Holds
<1> QED BY <1>1, <1>5, <1>11, QuietStep DEF Enqueue

\* The head of the queue is First, and becomes the one entry of the cursor.
LEMMA TakeKeeps ==
    ASSUME Inv, NEW m \in Members, Take(m)
    PROVE  Inv'
<1> DEFINE c == client[m]
           w == worker[m]
           resume == w.paused /\ Len(w.queue) - 1 < QueuePerPartition \div 2
           v == [w EXCEPT !.pc = "handle", !.rec = Head(w.queue), !.queue = Tail(w.queue), !.tries = 1,
                          !.paused = w.paused /\ ~resume, !.resuming = resume,
                          !.cursor = Track(w.cursor, Head(w.queue))]
           e == [offset |-> Head(w.queue), acked |-> FALSE]
<1>1. c \in Client /\ w \in Worker /\ MemberInv(c, w, acked, committed) /\ upsets \in 0..MaxUpsets
  BY MemberFacts
<1>2. w.pc = "next" /\ ~w.cancelled /\ ~w.stalled /\ w.queue # <<>>
  BY DEF Take
<1>2a. w.queue \in Seq(Offsets)
  BY <1>1 DEF Worker
<1>2b. Len(c.batch) \in Nat /\ Len(w.queue) \in Nat /\ First(c, w) \in Int
  BY <1>1, LengthTypes
<1>3. ~w.revoked /\ ~c.stuck /\ c.assigned /\ w.cursor = <<>>
  BY <1>1, <1>2 DEF MemberInv, Placed, Between
<1>4. /\ Head(w.queue) \in Offsets /\ Tail(w.queue) \in Seq(Offsets) /\ Head(w.queue) = w.queue[1]
      /\ Len(w.queue) \in Nat \ {0} /\ Len(Tail(w.queue)) = Len(w.queue) - 1
      /\ \A j \in 1..(Len(w.queue) - 1) : Tail(w.queue)[j] = w.queue[j + 1]
  BY <1>2, <1>2a
<1>5. e \in Tracked /\ Track(w.cursor, Head(w.queue)) = <<e>> /\ <<e>> \in Seq(Tracked)
  BY <1>3, <1>4 DEF Tracked, Track
<1>6. v \in Worker
  <2>1. Head(w.queue) \in 0..Records /\ 1 \in 0..MaxAttempts
    BY <1>4, KafkaAssumption DEF Offsets
  <2>2. \A p, r \in BOOLEAN :
          [w EXCEPT !.pc = "handle", !.rec = Head(w.queue), !.queue = Tail(w.queue), !.tries = 1,
                    !.paused = p, !.resuming = r, !.cursor = <<e>>] \in Worker
    BY <1>1, <1>4, <1>5, <2>1 DEF Worker
  <2>3. (w.paused /\ ~resume) \in BOOLEAN /\ resume \in BOOLEAN
    OBVIOUS
  <2> QED BY <1>5, <2>2, <2>3
<1>7. Becomes(m, c, v)
  BY <1>1, <1>6 DEF Take, Becomes, Inv, TypeOK
<1>8. /\ v.pc = "handle" /\ v.rec = Head(w.queue) /\ v.queue = Tail(w.queue) /\ v.cursor = <<e>>
      /\ \A f \in {"stalled", "revoked", "cancelled", "fenced"} : v[f] = w[f]
  BY <1>1, <1>5 DEF Worker
<1> HIDE DEF v, e, resume
<1>9. First(c, v) = First(c, w) + 1 /\ First(c, w) = v.rec
  <2>1. w.queue[1] = First(c, w) + 1 - 1
    BY <1>1, <1>3, <1>4 DEF MemberInv, Contiguous
  <2>2. Len(v.queue) = Len(w.queue) + (-1) /\ Len(c.batch) = Len(c.batch) + 0
    BY <1>2b, <1>4, <1>8
  <2>3. First(c, v) = First(c, w) - 0 - (-1)
    BY <1>1, <2>2, FirstMoves
  <2> QED BY <1>2b, <1>4, <1>8, <2>1, <2>3
<1>10. Contiguous(c, v)
  <2>1. /\ \A j \in 1..Len(w.queue) : w.queue[j] = First(c, w) + j - 1
        /\ \A j \in 1..Len(c.batch) : c.batch[j] = First(c, w) + Len(w.queue) + j - 1
    BY <1>1, <1>3 DEF MemberInv, Contiguous
  <2>2. Len(v.queue) = Len(w.queue) - 1
    BY <1>4, <1>8
  <2>3. ASSUME NEW j \in 1..Len(v.queue) PROVE v.queue[j] = First(c, v) + j - 1
    BY <1>2b, <1>4, <1>8, <1>9, <2>1, <2>2
  <2>4. ASSUME NEW j \in 1..Len(c.batch) PROVE c.batch[j] = First(c, v) + Len(v.queue) + j - 1
    <3>1. c.batch[j] = First(c, w) + Len(w.queue) + j - 1
      BY <2>1
    <3>2. Len(v.queue) \in Int /\ Len(w.queue) = Len(v.queue) + 1
      BY <1>2b, <2>2
    <3> DEFINE p == First(c, w)
               q == Len(v.queue)
    <3>3. p \in Int /\ q \in Int /\ j \in Int
      BY <1>2b, <3>2
    <3>4. p + (q + 1) + j - 1 = (p + 1) + q + j - 1
      <4> HIDE DEF p, q
      <4> QED BY <3>3
    <3> QED BY <1>9, <3>1, <3>2, <3>4
  <2> QED BY <2>3, <2>4 DEF Contiguous
<1>11. Done(acked, v.rec - 1)
  BY <1>1, <1>2, <1>3, <1>9 DEF MemberInv, Between
<1>12. v.cursor[1].offset = v.rec /\ ~e.acked
  BY <1>8 DEF e
<1>13. AheadOfCommit(c, v, committed)
  <2>1. committed \in Nat
    BY KafkaAssumption DEF Inv, TypeOK
  <2>2. c.current => First(c, w) > committed
    BY <1>1, <1>2, <1>3 DEF MemberInv, AheadOfCommit
  <2>3. c.current => First(c, w) + 1 > committed
    BY <1>2b, <2>1, <2>2
  <2> QED BY <1>8, <1>9, <1>12, <2>2, <2>3 DEF AheadOfCommit
<1>14. AtHand(c, v, acked)
  <2>1. v.rec \in Offsets /\ v.cursor = <<[offset |-> v.rec, acked |-> v.pc = "gate"]>>
    BY <1>4, <1>8 DEF e
  <2> QED BY <1>8, <1>9, <1>11, <2>1 DEF AtHand
<1>15. MemberInv(c, v, acked, committed) /\ (Holds(c, v) => Holds(c, w))
  BY <1>1, <1>2, <1>3, <1>5, <1>8, <1>10, <1>12, <1>13, <1>14
     DEF MemberInv, Placed, Between, CursorIsSound, Holds
<1> QED BY <1>1, <1>7, <1>15, QuietStep DEF Take

\* One more acknowledged record.
LEMMA OneMore ==
    ASSUME NEW a, NEW r \in Offsets, Done(a, r - 1), r \in a
    PROVE  Done(a, r)
<1>1. r \in Nat /\ \A j \in 1..r : j = r \/ j \in 1..(r - 1)
  BY KafkaAssumption DEF Offsets
<1> QED BY <1>1 DEF Done

\* Marking an entry.
LEMMA MarkedEntry ==
    ASSUME NEW r, NEW b, NEW t
    PROVE  [[offset |-> r, acked |-> b] EXCEPT !.acked = t] = [offset |-> r, acked |-> t]
  OBVIOUS

\* The entry of the cursor is marked.
LEMMA ConfirmKeeps ==
    ASSUME Inv, NEW m \in Members, Confirm(m)
    PROVE  Inv'
<1> DEFINE c == client[m]
           w == worker[m]
           v == [w EXCEPT !.pc = "gate", !.cursor = Mark(w.cursor, w.rec)]
           e == [offset |-> w.rec, acked |-> FALSE]
           f == [offset |-> w.rec, acked |-> TRUE]
<1>1. c \in Client /\ w \in Worker /\ MemberInv(c, w, acked, committed) /\ upsets \in 0..MaxUpsets
  BY MemberFacts
<1>2. w.pc = "returned" /\ w.gesture = "acked" /\ ~w.cancelled
  BY DEF Confirm
<1>3. w.rec \in Offsets /\ w.cursor = <<e>> /\ w.rec \in acked /\ Done(acked, w.rec - 1)
  BY <1>1, <1>2 DEF MemberInv, AtHand
<1>4. Mark(<<e>>, w.rec) = <<f>>
  <2>1. e.offset = w.rec /\ [e EXCEPT !.acked = TRUE] = f
    BY MarkedEntry
  <2> HIDE DEF e, f
  <2>2. Mark(<<e>>, w.rec) = [j \in 1..1 |-> f]
    <3>1. DOMAIN <<e>> = 1..1 /\ <<e>>[1] = e
      OBVIOUS
    <3> QED BY <2>1, <3>1 DEF Mark
  <2> QED BY <2>2
<1>5. f \in Tracked /\ <<f>> \in Seq(Tracked)
  BY <1>3 DEF Tracked
<1>6. v \in Worker
  BY <1>1, <1>3, <1>4, <1>5 DEF Worker
<1>7. Becomes(m, c, v)
  BY <1>1, <1>6 DEF Confirm, Becomes, Inv, TypeOK
<1>8. /\ v.pc = "gate" /\ v.cursor = <<f>>
      /\ \A x \in {"rec", "queue", "tries", "gesture", "stalled", "revoked", "cancelled", "fenced"} : v[x] = w[x]
  BY <1>1, <1>3, <1>4 DEF Worker
<1>9. Done(acked, w.rec)
  BY <1>3, OneMore
<1>10. /\ v.cursor = <<[offset |-> v.rec, acked |-> v.pc = "gate"]>>
       /\ v.cursor[1].offset = w.rec /\ w.cursor[1].offset = w.rec
  <2>1. v.rec = w.rec /\ (v.pc = "gate") = TRUE
    BY <1>8
  <2>2. <<f>>[1].offset = w.rec /\ <<e>>[1].offset = w.rec
    OBVIOUS
  <2> HIDE DEF v, e
  <2> QED BY <1>3, <1>8, <2>1, <2>2
<1> HIDE DEF v, e
<1>11. First(c, v) = First(c, w)
  BY <1>8 DEF First
<1>12. CursorIsSound(v, acked)
  <2>1. f.offset = w.rec
    OBVIOUS
  <2> HIDE DEF f
  <2> QED BY <1>5, <1>8, <1>9, <2>1 DEF CursorIsSound
<1>13. AheadOfCommit(c, v, committed)
  BY <1>1, <1>2, <1>3, <1>8, <1>10, <1>11 DEF MemberInv, AheadOfCommit, e
<1>14. MemberInv(c, v, acked, committed) /\ (Holds(c, v) => Holds(c, w))
  BY <1>1, <1>2, <1>3, <1>8, <1>10, <1>11, <1>12, <1>13
     DEF MemberInv, Contiguous, Placed, AtHand, Between, Holds
<1> QED BY <1>1, <1>7, <1>14, QuietStep DEF Confirm

\* An acknowledgement extends the acknowledged prefix by one at most.
LEMMA HandleKeeps ==
    ASSUME Inv, NEW m \in Members, NEW g \in {"acked", "released", "undecided"}, Handle(m, g)
    PROVE  Inv'
<1> DEFINE c == client[m]
           w == worker[m]
           v == [w EXCEPT !.pc = "returned", !.gesture = g]
<1>1. c \in Client /\ w \in Worker /\ MemberInv(c, w, acked, committed) /\ upsets \in 0..MaxUpsets
  BY MemberFacts
<1>2. w.pc = "handle" /\ w.rec \in Offsets /\ Done(acked, w.rec - 1)
  BY <1>1 DEF Handle, MemberInv, AtHand
<1>3. Becomes(m, c, v)
  BY <1>1 DEF Handle, Becomes, Inv, TypeOK, Worker
<1>4. acked \subseteq acked' /\ acked' \subseteq Offsets /\ (g = "acked" => w.rec \in acked')
  BY <1>2 DEF Handle, Inv, TypeOK
<1>5. upsets' \in 0..MaxUpsets
  BY <1>1, KafkaAssumption DEF Handle, Upset
<1>6. AckedIsPrefix'
  <2>1. PICK n \in 0..Records : acked = 1..n
    BY DEF Inv, AckedIsPrefix
  <2>2. CASE acked' = acked
    BY <2>1, <2>2 DEF AckedIsPrefix
  <2>3. CASE acked' = acked \cup {w.rec}
    <3>1. w.rec - 1 <= n
      <4>1. w.rec - 1 = 0 \/ w.rec - 1 \in acked
        BY <1>2, KafkaAssumption DEF Done, Offsets
      <4> QED BY <1>2, <2>1, <4>1, KafkaAssumption DEF Offsets
    <3>2. CASE w.rec <= n
      <4>1. acked' = 1..n
        BY <1>2, <2>1, <2>3, <3>2, KafkaAssumption DEF Offsets
      <4> QED BY <4>1 DEF AckedIsPrefix
    <3>3. CASE w.rec = n + 1
      <4>1. acked' = 1..(n + 1) /\ n + 1 \in 0..Records
        BY <1>2, <2>1, <2>3, <3>3, KafkaAssumption DEF Offsets
      <4> QED BY <4>1 DEF AckedIsPrefix
    <3> QED BY <1>2, <2>1, <3>1, <3>2, <3>3, KafkaAssumption DEF Offsets
  <2> QED BY <2>2, <2>3 DEF Handle
<1>7. Done(acked', committed') /\ committed' = committed /\ committed \in 0..Records
  BY <1>4 DEF Inv, TypeOK, Done, Handle
<1>8. MemberInv(c, w, acked', committed)
  BY <1>1, <1>4, OthersKeep
<1>9. MemberInv(c, v, acked', committed) /\ (Holds(c, v) => Holds(c, w))
  BY <1>1, <1>2, <1>4, <1>8 DEF MemberInv, Contiguous, First, Placed, AtHand, Between, CursorIsSound,
              AheadOfCommit, Holds, Worker
<1> QED BY <1>1, <1>3, <1>4, <1>5, <1>6, <1>7, <1>9, StepOfOne

\* The acknowledged entry is popped, unless a revocation has it.
LEMMA GateKeeps ==
    ASSUME Inv, NEW m \in Members, Gate(m)
    PROVE  Inv'
<1> DEFINE c == client[m]
           w == worker[m]
           e == [offset |-> w.rec, acked |-> TRUE]
<1>1. c \in Client /\ w \in Worker /\ MemberInv(c, w, acked, committed) /\ upsets \in 0..MaxUpsets
  BY MemberFacts
<1>2. w.pc = "gate"
  BY DEF Gate
<1>3. w.rec \in Offsets /\ Done(acked, w.rec - 1) /\ w.rec \in acked /\ ~w.stalled
  BY <1>1, <1>2 DEF MemberInv, AtHand, Between
<1>4. w.cursor = <<e>> /\ e \in Tracked /\ e.acked /\ e.offset = w.rec
  BY <1>1, <1>2, <1>3 DEF MemberInv, AtHand, Tracked
<1>5. Prefix(w.cursor) = 1 /\ Popped(w.cursor) = <<>> /\ w.cursor[1].offset = w.rec
  <2> HIDE DEF e
  <2>1. <<e>>[1] = e
    OBVIOUS
  <2> QED BY <1>4, <2>1, PrefixOfShort
<1>6. Done(acked, w.rec)
  BY <1>3, OneMore
<1>7. ~c.stuck => First(c, w) = w.rec + 1 /\ c.assigned
  BY <1>1, <1>2 DEF MemberInv, AtHand, Placed
<1>8. w.rec \in Nat /\ committed \in Nat
  BY <1>3, KafkaAssumption DEF Offsets, Inv, TypeOK
<1>9. CASE w.revoked
  <2> DEFINE v == Ready(w)
  <2>1. Becomes(m, c, v)
    BY <1>1, <1>2, <1>9, WorkerTypes DEF Gate, Becomes, Inv, TypeOK
  <2>2. /\ v.pc = "next"
        /\ \A f \in {"queue", "stalled", "revoked", "cancelled", "cursor"} : v[f] = w[f]
    BY <1>1 DEF Worker, Ready
  <2> HIDE DEF v
  <2>3. First(c, v) = First(c, w)
    BY <2>2 DEF First
  <2>4. ~c.stuck => Done(acked, First(c, v) - 1)
    <3>1. ~c.stuck => First(c, v) - 1 = w.rec
      BY <1>7, <1>8, <2>3
    <3> QED BY <1>6, <3>1
  <2>5. MemberInv(c, v, acked, committed) /\ (Holds(c, v) => Holds(c, w))
    BY <1>1, <1>2, <1>3, <1>9, <2>2, <2>3, <2>4
       DEF MemberInv, Contiguous, Placed, AtHand, Between, CursorIsSound, AheadOfCommit, Holds
  <2> QED BY <1>1, <2>1, <2>5, QuietStep DEF Gate
<1>10. CASE ~w.revoked
  <2> DEFINE v == [w EXCEPT !.pc = "commit", !.upto = w.rec, !.fenced = ~c.current, !.cursor = <<>>]
  <2>1. v \in Worker
    <3>1. w.rec \in 0..Records /\ <<>> \in Seq(Tracked)
      BY <1>3, KafkaAssumption DEF Offsets
    <3>2. \A p \in BOOLEAN : [w EXCEPT !.pc = "commit", !.upto = w.rec, !.fenced = p, !.cursor = <<>>] \in Worker
      BY <1>1, <3>1 DEF Worker
    <3>3. (~c.current) \in BOOLEAN
      OBVIOUS
    <3> QED BY <3>2, <3>3
  <2>2. Becomes(m, c, v)
    <3>1. ~(w.revoked \/ Prefix(w.cursor) = 0) /\ w.cursor[Prefix(w.cursor)].offset = w.rec
      BY <1>5, <1>10
    <3>2. worker' = [worker EXCEPT ![m].pc = "commit", ![m].upto = w.rec,
                                   ![m].fenced = ~c.current, ![m].cursor = <<>>]
      BY <1>5, <3>1 DEF Gate
    <3>3. worker' = [worker EXCEPT ![m] = v]
      BY <3>2
    <3> QED BY <1>1, <2>1, <3>3 DEF Gate, Becomes, Inv, TypeOK
  <2>3. /\ v.pc = "commit" /\ v.upto = w.rec /\ v.cursor = <<>> /\ (v.fenced <=> ~c.current)
        /\ \A f \in {"queue", "stalled", "revoked", "cancelled"} : v[f] = w[f]
    BY <1>1 DEF Worker
  <2> HIDE DEF v
  <2>4. First(c, v) = First(c, w) /\ ~c.stuck
    BY <1>1, <1>10, <2>3 DEF First, MemberInv, Placed
  <2>5. v.upto = First(c, v) - 1
    BY <1>7, <1>8, <2>3, <2>4
  <2>6. ~v.fenced => v.upto >= committed
    <3>1. c.current => w.rec > committed
      BY <1>1, <1>2, <1>4, <1>5, <1>7, <2>4 DEF MemberInv, AheadOfCommit
    <3> QED BY <1>8, <2>3, <3>1
  <2>7. MemberInv(c, v, acked, committed) /\ (Holds(c, v) => Holds(c, w))
    BY <1>1, <1>2, <1>3, <1>6, <1>7, <1>10, <2>3, <2>4, <2>5, <2>6
       DEF MemberInv, Contiguous, Placed, AtHand, Between, CursorIsSound, AheadOfCommit, Holds
  <2> QED BY <1>1, <2>2, <2>7, QuietStep DEF Gate
<1> QED BY <1>9, <1>10

\* The commit of a worker: the record before First.
LEMMA CommitOf ==
    ASSUME NEW c \in Client, NEW w \in Worker, NEW a, NEW k \in 0..Records, MemberInv(c, w, a, k),
           w.pc = "commit"
    PROVE  /\ w.cursor = <<>> /\ Done(a, w.upto) /\ ~w.stalled /\ w.upto \in Nat
           /\ ~c.stuck => c.assigned /\ w.upto = First(c, w) - 1 /\ First(c, w) > w.upto
                          /\ Done(a, First(c, w) - 1)
           /\ ~w.fenced => c.current /\ w.upto >= k
<1>1. w.cursor = <<>> /\ Done(a, w.upto) /\ ~w.stalled /\ (~w.fenced => c.current /\ w.upto >= k)
  BY DEF MemberInv, Between, AheadOfCommit, Placed
<1>2. ~c.stuck => c.assigned /\ w.upto = First(c, w) - 1
  BY DEF MemberInv, Between, Placed
<1>3. w.upto \in Nat /\ First(c, w) \in Int
  BY LengthTypes, KafkaAssumption DEF Worker
<1>4. ~c.stuck => First(c, w) > w.upto
  BY <1>2, <1>3
<1>5. ~c.stuck => Done(a, First(c, w) - 1)
  BY <1>1, <1>2
<1> QED BY <1>1, <1>2, <1>3, <1>4, <1>5

\* What is committed lies past the committed offset.
LEMMA CommitRecordsKeeps ==
    ASSUME Inv, NEW m \in Members, CommitRecords(m)
    PROVE  Inv' /\ committed' >= committed
<1> DEFINE c == client[m]
           w == worker[m]
           v == Ready(w)
<1>1. c \in Client /\ w \in Worker /\ MemberInv(c, w, acked, committed) /\ upsets \in 0..MaxUpsets
  BY MemberFacts
<1>2. w.pc = "commit" /\ committed \in 0..Records /\ committed \in Nat
  BY KafkaAssumption DEF CommitRecords, Inv, TypeOK
<1>3. /\ w.cursor = <<>> /\ Done(acked, w.upto) /\ ~w.stalled /\ w.upto \in Nat
      /\ ~c.stuck => c.assigned /\ w.upto = First(c, w) - 1 /\ First(c, w) > w.upto
                     /\ Done(acked, First(c, w) - 1)
      /\ ~w.fenced => c.current /\ w.upto >= committed
  BY <1>1, <1>2, CommitOf
<1>4. Becomes(m, c, v)
  BY <1>1, WorkerTypes DEF CommitRecords, Becomes, Inv, TypeOK
<1>5. /\ v.pc = "next" /\ v.cursor = <<>>
      /\ \A f \in {"queue", "stalled", "revoked", "cancelled"} : v[f] = w[f]
  BY <1>1, <1>3 DEF Worker, Ready
<1> HIDE DEF v
<1>6. First(c, v) = First(c, w)
  BY <1>5 DEF First
<1>7. upsets' \in 0..MaxUpsets
  BY <1>1, KafkaAssumption DEF CommitRecords, Upset
<1>8. \/ committed' = w.upto /\ ~w.fenced
      \/ committed' = committed
  BY DEF CommitRecords
<1>9. /\ committed' \in 0..Records /\ Done(acked', committed') /\ acked' = acked /\ committed' >= committed
      /\ acked' \subseteq Offsets
  <2>1. w.upto \in 0..Records
    BY <1>1 DEF Worker
  <2>2. acked' = acked /\ acked \subseteq Offsets /\ Done(acked, committed)
    BY DEF CommitRecords, Inv, TypeOK
  <2>3. committed >= committed
    BY <1>2
  <2> QED BY <1>2, <1>3, <1>8, <2>1, <2>2, <2>3
<1>10. c.current /\ c.assigned /\ ~c.stuck => First(c, w) > committed'
  <2>1. c.current /\ c.assigned /\ ~c.stuck => First(c, w) > committed
    BY <1>1, <1>2 DEF MemberInv, AheadOfCommit
  <2> QED BY <1>3, <1>8, <2>1
<1>11. Contiguous(c, v) /\ Placed(c, v) /\ AtHand(c, v, acked) /\ CursorIsSound(v, acked)
  BY <1>1, <1>2, <1>5, <1>6 DEF MemberInv, Contiguous, Placed, AtHand, CursorIsSound
<1>12. Between(c, v, acked)
  BY <1>3, <1>5, <1>6 DEF Between
<1>13. AheadOfCommit(c, v, committed')
  BY <1>5, <1>6, <1>10 DEF AheadOfCommit
<1>14. MemberInv(c, v, acked', committed')
  BY <1>9, <1>11, <1>12, <1>13 DEF MemberInv
<1>15. (committed' = committed \/ Holds(c, w)) /\ (Holds(c, v) => Holds(c, w))
  BY <1>2, <1>3, <1>5, <1>8 DEF Holds
<1>16. AckedIsPrefix'
  BY <1>9 DEF Inv, AckedIsPrefix
<1> QED BY <1>1, <1>4, <1>7, <1>9, <1>14, <1>15, <1>16, StepOfOne

\* The worker leaves its queue behind.
LEMMA QuitKeeps ==
    ASSUME Inv, NEW m \in Members, Quit(m)
    PROVE  Inv'
<1> DEFINE c == client[m]
           w == worker[m]
           v == [Ready(w) EXCEPT !.pc = "left", !.queue = <<>>]
<1>1. c \in Client /\ w \in Worker /\ MemberInv(c, w, acked, committed) /\ upsets \in 0..MaxUpsets
  BY MemberFacts
<1>2. w.cancelled /\ w.pc \in {"idle", "next", "handle", "returned"}
  BY DEF Quit
<1>3. v \in Worker
  <2>1. \A r \in Worker, q \in Seq(Offsets) : [r EXCEPT !.pc = "left", !.queue = q] \in Worker
    BY DEF Worker
  <2>2. <<>> \in Seq(Offsets) /\ Ready(w) \in Worker
    BY <1>1, WorkerTypes
  <2> QED BY <2>1, <2>2
<1>4. Becomes(m, c, v)
  BY <1>1, <1>3 DEF Quit, Becomes, Inv, TypeOK
<1>5. /\ v.pc = "left" /\ v.queue = <<>> /\ Len(v.queue) = 0
      /\ \A f \in {"stalled", "revoked", "cancelled", "cursor"} : v[f] = w[f]
  BY <1>1 DEF Worker, Ready
<1> HIDE DEF v
<1>6. Contiguous(c, v)
  <2> DEFINE p == First(c, w)
             q == Len(w.queue)
  <2>1. p \in Int /\ q \in Int /\ Len(c.batch) \in Nat
    BY <1>1, LengthTypes
  <2>2. First(c, v) = p - 0 - (-q)
    <3>1. Len(v.queue) = q + (-q) /\ Len(c.batch) = Len(c.batch) + 0 /\ -q \in Int
      BY <1>5, <2>1
    <3> QED BY <1>1, <3>1, FirstMoves
  <2>3. ~c.stuck => \A j \in 1..Len(c.batch) : c.batch[j] = p + q + j - 1
    BY <1>1 DEF MemberInv, Contiguous
  <2>4. First(c, v) + Len(v.queue) = p + q
    <3> HIDE DEF p, q
    <3> QED BY <1>5, <2>1, <2>2
  <2>5. ~c.stuck => \A j \in 1..Len(c.batch) : c.batch[j] = First(c, v) + Len(v.queue) + j - 1
    BY <2>3, <2>4
  <2>6. \A j \in 1..Len(v.queue) : v.queue[j] = First(c, v) + j - 1
    BY <1>5
  <2> QED BY <2>5, <2>6 DEF Contiguous
<1>7. CursorIsSound(v, acked)
  BY <1>1, <1>5 DEF MemberInv, CursorIsSound
<1>8. MemberInv(c, v, acked, committed) /\ (Holds(c, v) => Holds(c, w))
  BY <1>1, <1>2, <1>5, <1>6, <1>7 DEF MemberInv, Placed, AtHand, Between, AheadOfCommit, Holds
<1> QED BY <1>1, <1>4, <1>8, QuietStep DEF Quit

\* A revocation begins.
LEMMA ReleaseKeeps ==
    ASSUME Inv, NEW m \in Members, Release(m)
    PROVE  Inv'
<1> DEFINE c == client[m]
           w == worker[m]
<1>1. c \in Client /\ w \in Worker /\ MemberInv(c, w, acked, committed) /\ upsets \in 0..MaxUpsets
  BY MemberFacts
<1>2. upsets' \in 0..MaxUpsets
  BY <1>1, KafkaAssumption DEF Release, Upset
<1>3. c.assigned /\ c.state # "down" /\ c.batch = <<>> /\ ~c.pausing
  BY DEF Release, Dispatching
<1>4. CASE c.stuck
  <2> DEFINE d == [c EXCEPT !.assigned = FALSE]
  <2>1. Becomes(m, d, w)
    BY <1>1, <1>4 DEF Release, Becomes, Inv, TypeOK, Client
  <2>2. MemberInv(d, w, acked, committed) /\ (Holds(d, w) => Holds(c, w))
    BY <1>1, <1>3, <1>4 DEF MemberInv, Contiguous, First, Placed, AtHand, Between, AheadOfCommit, Holds, Client
  <2> QED BY <1>1, <1>2, <2>1, <2>2, QuietStep DEF Release
<1>5. CASE ~c.stuck
  <2> DEFINE d == [c EXCEPT !.releasing = TRUE]
             v == Revoked(w)
  <2>1. Becomes(m, d, v)
    BY <1>1, <1>5, WorkerTypes DEF Release, Becomes, Inv, TypeOK, Client
  <2>2. MemberInv(d, v, acked, committed) /\ (Holds(d, v) => Holds(c, w))
    BY <1>1, <1>3, <1>5 DEF MemberInv, Contiguous, First, Placed, AtHand, Between, CursorIsSound,
                            AheadOfCommit, Holds, Client, Worker, Revoked
  <2> QED BY <1>1, <1>2, <2>1, <2>2, QuietStep DEF Release
<1> QED BY <1>4, <1>5

\* The revocation commits the entry the worker left, if it was acknowledged.
LEMMA SettleKeeps ==
    ASSUME Inv, NEW m \in Members, Settle(m)
    PROVE  Inv' /\ committed' >= committed
<1> DEFINE c == client[m]
           w == worker[m]
           n == Prefix(w.cursor)
           d == [c EXCEPT !.releasing = FALSE, !.assigned = FALSE, !.paused = @ /\ ~w.paused]
           v == NoWorker
<1>1. c \in Client /\ w \in Worker /\ MemberInv(c, w, acked, committed) /\ upsets \in 0..MaxUpsets
  BY MemberFacts
<1>2. c.releasing /\ w.pc = "left" /\ c.assigned /\ ~c.stuck /\ c.batch = <<>> /\ ~c.pausing
  BY <1>1 DEF Settle, MemberInv, Placed
<1>3. d \in Client
  <2>1. \A p \in BOOLEAN : [c EXCEPT !.releasing = FALSE, !.assigned = FALSE, !.paused = p] \in Client
    BY <1>1 DEF Client
  <2>2. (c.paused /\ ~w.paused) \in BOOLEAN
    OBVIOUS
  <2> QED BY <2>1, <2>2
<1>4. Becomes(m, d, v)
  BY <1>3, InitialTypes DEF Settle, Becomes, Inv, TypeOK
<1>5. committed \in 0..Records /\ committed \in Nat /\ Done(acked, committed)
  BY KafkaAssumption DEF Inv, TypeOK
<1>6. /\ committed' = committed \/ c.current
      /\ committed' \in 0..Records /\ committed' >= committed /\ Done(acked, committed')
  <2>1. CASE committed' = committed
    BY <1>5, <2>1
  <2>2. CASE n > 0 /\ c.current /\ committed' = w.cursor[n].offset
    <3>1. w.cursor # <<>>
      BY <2>2, PrefixOfShort
    <3>2. PICK e \in Tracked : w.cursor = <<e>> /\ (e.acked => Done(acked, e.offset))
      BY <1>1, <3>1 DEF MemberInv, CursorIsSound
    <3>3. <<e>>[1] = e /\ e.acked /\ n = 1
      BY <2>2, <3>2, PrefixOfShort DEF Tracked
    <3>4. committed' = e.offset /\ e.offset \in Offsets /\ w.cursor[1].offset = e.offset
      BY <2>2, <3>2, <3>3 DEF Tracked
    <3>5. e.offset > committed
      BY <1>1, <1>2, <2>2, <3>1, <3>4 DEF MemberInv, AheadOfCommit
    <3> QED BY <1>5, <2>2, <3>2, <3>3, <3>4, <3>5, KafkaAssumption DEF Offsets
  <2> QED BY <2>1, <2>2 DEF Settle
<1>7. upsets' \in 0..MaxUpsets /\ acked' = acked
  BY <1>1, KafkaAssumption DEF Settle, Upset
<1>8. /\ v.pc = "none" /\ v.queue = <<>> /\ v.cursor = <<>> /\ ~v.revoked
      /\ ~d.assigned /\ ~d.releasing /\ \A f \in {"state", "stuck", "batch", "pausing", "position"} : d[f] = c[f]
  BY <1>1 DEF NoWorker, Fresh, Client
<1> HIDE DEF d, v, n
<1>9. Contiguous(d, v)
  <2>1. Len(<<>>) = 0
    OBVIOUS
  <2> QED BY <1>2, <1>8, <2>1 DEF Contiguous
<1>10. MemberInv(d, v, acked', committed') /\ (Holds(d, v) => Holds(c, w))
  BY <1>1, <1>2, <1>8, <1>9 DEF MemberInv, Placed, AtHand, Between, CursorIsSound, AheadOfCommit, Holds
<1>11. AckedIsPrefix' /\ acked' \subseteq Offsets /\ Done(acked', committed')
  BY <1>6, <1>7 DEF Inv, AckedIsPrefix, TypeOK
<1>12. committed' = committed \/ Holds(c, w)
  BY <1>2, <1>6 DEF Holds
<1> QED BY <1>1, <1>4, <1>6, <1>7, <1>10, <1>11, <1>12, StepOfOne

\* The run context ends.
LEMMA StopKeeps ==
    ASSUME Inv, NEW m \in Members, Stop(m)
    PROVE  Inv'
<1> DEFINE c == client[m]
           w == worker[m]
           d == [c EXCEPT !.state = "stopping"]
<1>1. c \in Client /\ w \in Worker /\ MemberInv(c, w, acked, committed) /\ upsets \in 0..MaxUpsets
  BY MemberFacts
<1>2. upsets' \in 0..MaxUpsets
  BY <1>1, KafkaAssumption DEF Stop, Upset
<1>3. d \in Client
  BY <1>1 DEF Client
<1>4. CASE worker' = worker
  <2>1. Becomes(m, d, w)
    BY <1>1, <1>3, <1>4 DEF Stop, Becomes, Inv, TypeOK
  <2>2. MemberInv(d, w, acked, committed) /\ (Holds(d, w) => Holds(c, w))
    BY <1>1 DEF Stop, MemberInv, Contiguous, First, Placed, AtHand, Between, AheadOfCommit, Holds, Client
  <2> QED BY <1>1, <1>2, <2>1, <2>2, QuietStep DEF Stop
<1>5. CASE worker' = [worker EXCEPT ![m].cancelled = TRUE]
  <2> DEFINE v == [w EXCEPT !.cancelled = TRUE]
  <2>1. v \in Worker
    BY <1>1 DEF Worker
  <2>2. Becomes(m, d, v)
    BY <1>1, <1>3, <1>5, <2>1 DEF Stop, Becomes, Inv, TypeOK
  <2>3. MemberInv(d, v, acked, committed) /\ (Holds(d, v) => Holds(c, w))
    BY <1>1 DEF Stop, MemberInv, Contiguous, First, Placed, AtHand, Between, CursorIsSound, AheadOfCommit,
                Holds, Client, Worker
  <2> QED BY <1>1, <1>2, <2>2, <2>3, QuietStep DEF Stop
<1> QED BY <1>4, <1>5 DEF Stop

\* A member in a new generation, which has it only without the partition.
LEMMA Regenerated ==
    ASSUME NEW c \in Client, NEW w \in Worker, NEW a, NEW k, MemberInv(c, w, a, k),
           NEW j \in BOOLEAN, j => ~c.assigned
    PROVE  LET d == [c EXCEPT !.current = j]
               v == [w EXCEPT !.fenced = (w.pc = "commit")]
           IN d \in Client /\ v \in Worker /\ MemberInv(d, v, a, k) /\ ~Holds(d, v)
<1> DEFINE d == [c EXCEPT !.current = j]
           v == [w EXCEPT !.fenced = (w.pc = "commit")]
<1>1. d \in Client /\ v \in Worker
  <2>1. \A p \in BOOLEAN : [w EXCEPT !.fenced = p] \in Worker
    BY DEF Worker
  <2>2. (w.pc = "commit") \in BOOLEAN
    OBVIOUS
  <2> QED BY <2>1, <2>2 DEF Client
<1>2. MemberInv(d, v, a, k) /\ ~Holds(d, v)
  BY DEF MemberInv, Contiguous, First, Placed, AtHand, Between, CursorIsSound, AheadOfCommit, Holds, Client, Worker
<1> QED BY <1>1, <1>2

\* Nobody holds the partition after a lost lease.
LEMMA ExpireKeeps ==
    ASSUME Inv, NEW m \in Members, Expire(m)
    PROVE  Inv'
<1> DEFINE D(x) == [client[x] EXCEPT !.current = Joined(x)]
           V(x) == [worker[x] EXCEPT !.fenced = (worker[x].pc = "commit")]
<1>1. client' = [x \in Members |-> D(x)] /\ worker' = [x \in Members |-> V(x)]
  BY DEF Expire, NewGeneration
<1>2. ASSUME NEW x \in Members
      PROVE  D(x) \in Client /\ V(x) \in Worker /\ MemberInv(D(x), V(x), acked, committed) /\ ~Holds(D(x), V(x))
  <2>1. /\ client[x] \in Client /\ worker[x] \in Worker
        /\ MemberInv(client[x], worker[x], acked, committed)
    BY MemberFacts
  <2>2. Joined(x) \in BOOLEAN /\ (Joined(x) => ~client[x].assigned)
    BY DEF Joined
  <2> QED BY <2>1, <2>2, Regenerated
<1> HIDE DEF D, V
<1>3. UNCHANGED <<committed, acked>> /\ upsets' \in 0..MaxUpsets
  BY KafkaAssumption DEF Expire, Upset, Inv, TypeOK
<1>4. TypeOK'
  BY <1>1, <1>2, <1>3 DEF Inv, TypeOK
<1>5. OneHolder' /\ MembersAreSound'
  BY <1>1, <1>2, <1>3 DEF OneHolder, MembersAreSound
<1> QED BY <1>3, <1>4, <1>5 DEF Inv, AckedIsPrefix

\* The member the partition goes to.
LEMMA Assigned ==
    ASSUME NEW c \in Client, NEW w \in Worker, NEW a, NEW k \in 0..Records, NEW j \in BOOLEAN,
           MemberInv(c, w, a, k), Done(a, k), ~c.assigned, c.state # "down",
           NEW u, u = IF c.stuck THEN w ELSE Fresh
    PROVE  LET d == [c EXCEPT !.assigned = TRUE, !.position = k + 1, !.current = j]
               v == [u EXCEPT !.fenced = (u.pc = "commit")]
           IN d \in Client /\ v \in Worker /\ MemberInv(d, v, a, k)
<1> DEFINE d == [c EXCEPT !.assigned = TRUE, !.position = k + 1, !.current = j]
           v == [u EXCEPT !.fenced = (u.pc = "commit")]
<1>1. d \in Client
  <2>1. k + 1 \in 1..(Records + 1)
    BY KafkaAssumption
  <2> QED BY <2>1 DEF Client
<1>2. v \in Worker
  <2>1. \A p \in BOOLEAN, r \in Worker : [r EXCEPT !.fenced = p] \in Worker
    BY DEF Worker
  <2>2. u \in Worker /\ (u.pc = "commit") \in BOOLEAN
    BY InitialTypes
  <2> QED BY <2>1, <2>2
<1>3. CASE c.stuck
  <2>1. v = [w EXCEPT !.fenced = (w.pc = "commit")]
    BY <1>3
  <2>2. MemberInv(d, [w EXCEPT !.fenced = (w.pc = "commit")], a, k)
    BY <1>3 DEF MemberInv, Contiguous, First, Placed, AtHand, Between, CursorIsSound, AheadOfCommit,
                Client, Worker
  <2> QED BY <1>1, <1>2, <2>1, <2>2
<1>4. CASE ~c.stuck
  <2>1. /\ v.pc = "idle" /\ v.queue = <<>> /\ v.cursor = <<>> /\ ~v.revoked /\ ~v.stalled /\ ~v.cancelled
        /\ Len(v.queue) = 0
    BY <1>4 DEF Fresh
  <2>2. c.batch = <<>> /\ ~c.pausing /\ ~c.releasing
    BY DEF MemberInv, Placed
  <2>3. /\ d.assigned /\ d.position = k + 1 /\ d.batch = <<>> /\ ~d.pausing /\ ~d.releasing
        /\ ~d.stuck /\ d.state # "down" /\ Len(d.batch) = 0
    BY <1>4, <2>2 DEF Client
  <2> HIDE DEF d, v
  <2>4. k \in Int /\ k + 1 - 0 - 0 = k + 1 /\ k + 1 - 1 = k /\ k + 1 > k
    BY KafkaAssumption
  <2>5. First(d, v) = k + 1
    BY <2>1, <2>3, <2>4 DEF First
  <2>6. Contiguous(d, v) /\ Placed(d, v) /\ AtHand(d, v, a) /\ CursorIsSound(v, a)
    BY <2>1, <2>3 DEF Contiguous, Placed, AtHand, CursorIsSound
  <2>7. Between(d, v, a) /\ AheadOfCommit(d, v, k)
    BY <2>1, <2>3, <2>4, <2>5 DEF Between, AheadOfCommit
  <2> QED BY <1>1, <1>2, <2>6, <2>7 DEF MemberInv, d, v
<1> QED BY <1>3, <1>4

\* The member the partition goes to is its one holder.
LEMMA AssignKeeps ==
    ASSUME Inv, NEW m \in Members, Assign(m)
    PROVE  Inv'
<1> DEFINE F == [worker EXCEPT ![m] = IF client[m].stuck THEN @ ELSE Fresh]
           D(x) == [Given(m)[x] EXCEPT !.current = Joined(x)]
           V(x) == [F[x] EXCEPT !.fenced = (F[x].pc = "commit")]
<1>1. client' = [x \in Members |-> D(x)] /\ worker' = [x \in Members |-> V(x)]
  BY DEF Assign, NewGeneration
<1>2. Joined(m) /\ committed \in 0..Records /\ Done(acked, committed)
  BY DEF Assign, Inv, TypeOK
<1>3. ASSUME NEW x \in Members, x # m
      PROVE  D(x) \in Client /\ V(x) \in Worker /\ MemberInv(D(x), V(x), acked, committed) /\ ~Holds(D(x), V(x))
  <2>1. /\ client[x] \in Client /\ worker[x] \in Worker
        /\ MemberInv(client[x], worker[x], acked, committed)
    BY MemberFacts
  <2>2. Joined(x) \in BOOLEAN /\ (Joined(x) => ~client[x].assigned)
    BY DEF Joined
  <2>3. Given(m)[x] = client[x] /\ F[x] = worker[x]
    BY <1>3 DEF Given, Inv, TypeOK
  <2> QED BY <2>1, <2>2, <2>3, Regenerated
<1>4. D(m) \in Client /\ V(m) \in Worker /\ MemberInv(D(m), V(m), acked, committed)
  <2>1. /\ client[m] \in Client /\ worker[m] \in Worker
        /\ MemberInv(client[m], worker[m], acked, committed)
    BY MemberFacts
  <2>2. Joined(m) \in BOOLEAN /\ ~client[m].assigned /\ client[m].state # "down"
    BY <1>2 DEF Joined
  <2>3. F[m] = IF client[m].stuck THEN worker[m] ELSE Fresh
    BY DEF Inv, TypeOK
  <2>4. D(m) = [client[m] EXCEPT !.assigned = TRUE, !.position = committed + 1, !.current = Joined(m)]
    <3>1. Given(m)[m] = [client[m] EXCEPT !.assigned = TRUE, !.position = committed + 1]
      BY DEF Given, Inv, TypeOK
    <3> QED BY <2>1, <3>1 DEF Client
  <2>5. ASSUME NEW j \in BOOLEAN, j = Joined(m), NEW u, u = F[m]
        PROVE  LET d == [client[m] EXCEPT !.assigned = TRUE, !.position = committed + 1, !.current = j]
                   v == [u EXCEPT !.fenced = (u.pc = "commit")]
               IN d \in Client /\ v \in Worker /\ MemberInv(d, v, acked, committed)
    <3>1. u = IF client[m].stuck THEN worker[m] ELSE Fresh
      BY <2>3, <2>5
    <3> HIDE DEF F
    <3> QED BY <1>2, <2>1, <2>2, <3>1, Assigned
  <2> HIDE DEF F, D
  <2> QED BY <2>2, <2>4, <2>5
<1> HIDE DEF D, V, F
<1>5. UNCHANGED <<committed, acked, upsets>>
  BY DEF Assign
<1>6. TypeOK'
  BY <1>1, <1>3, <1>4, <1>5 DEF Inv, TypeOK
<1>7. OneHolder' /\ MembersAreSound'
  BY <1>1, <1>3, <1>4, <1>5 DEF OneHolder, MembersAreSound
<1> QED BY <1>5, <1>6, <1>7 DEF Inv, AckedIsPrefix

\* The invariant holds at first.
LEMMA InitInv == Init => Inv
<1> SUFFICES ASSUME Init PROVE Inv
  OBVIOUS
<1> DEFINE d == [Down EXCEPT !.state = "up", !.current = TRUE]
<1>1. d \in Client /\ NoWorker \in Worker
  BY InitialTypes DEF Client
<1>2. TypeOK
  BY <1>1, KafkaAssumption DEF Init, TypeOK
<1>3. AckedIsPrefix /\ Done(acked, committed)
  <2>1. 1..0 = {} /\ 0 \in 0..Records
    BY KafkaAssumption
  <2> QED BY <2>1 DEF Init, AckedIsPrefix, Done
<1>4. /\ ~d.assigned /\ ~d.releasing /\ ~d.stuck /\ d.batch = <<>> /\ ~d.pausing /\ d.state = "up"
      /\ NoWorker.pc = "none" /\ NoWorker.queue = <<>> /\ NoWorker.cursor = <<>> /\ ~NoWorker.revoked
      /\ Len(<<>>) = 0
  BY DEF Down, NoWorker, Fresh
<1>5. \A m \in Members : client[m] = d /\ worker[m] = NoWorker
  BY DEF Init
<1> HIDE DEF d
<1>6. MemberInv(d, NoWorker, acked, committed) /\ ~Holds(d, NoWorker)
  BY <1>4 DEF MemberInv, Contiguous, Placed, AtHand, Between, CursorIsSound, AheadOfCommit, Holds
<1> QED BY <1>2, <1>3, <1>5, <1>6 DEF Inv, OneHolder, MembersAreSound

\* The invariant is inductive, and no step takes a commit back.
LEMMA NextKeeps == Inv /\ [Next]_vars => Inv' /\ committed' >= committed
<1> SUFFICES ASSUME Inv, [Next]_vars PROVE Inv' /\ committed' >= committed
  OBVIOUS
<1>0. committed >= committed
  BY KafkaAssumption DEF Inv, TypeOK
<1>1. CASE UNCHANGED vars
  <2>1. Inv'
    BY <1>1 DEF vars, Inv, TypeOK, AckedIsPrefix, OneHolder, MembersAreSound
  <2> QED BY <1>0, <1>1, <2>1 DEF vars
<1>2. ASSUME NEW m \in Members, PollLoop(m) PROVE Inv' /\ committed' = committed
  BY <1>2, PollKeeps, EnqueueKeeps, PauseFetchKeeps DEF PollLoop, Poll, Enqueue, PauseFetch
<1>3. ASSUME NEW m \in Members, Goroutine(m) PROVE Inv' /\ committed' >= committed
  <2>1. CASE Wake(m) \/ Rest(m) \/ Take(m) \/ ResumeFetch(m)
    <3>1. Inv'
      BY <2>1, WakeKeeps, RestKeeps, TakeKeeps, ResumeFetchKeeps
    <3> QED BY <1>0, <2>1, <3>1 DEF Wake, Rest, Take, ResumeFetch
  <2>2. CASE \E g \in {"acked", "released", "undecided"} : Handle(m, g)
    BY <1>0, <2>2, HandleKeeps DEF Handle
  <2>3. CASE Confirm(m) \/ Stall(m) \/ Backoff(m) \/ Retry(m)
    <3>1. Inv'
      BY <2>3, ConfirmKeeps, StallKeeps, BackoffKeeps, RetryKeeps
    <3> QED BY <1>0, <2>3, <3>1 DEF Confirm, Stall, Backoff, Retry
  <2>4. CASE Gate(m) \/ Quit(m)
    <3>1. Inv'
      BY <2>4, GateKeeps, QuitKeeps
    <3> QED BY <1>0, <2>4, <3>1 DEF Gate, Quit
  <2>5. CASE CommitRecords(m)
    BY <2>5, CommitRecordsKeeps
  <2> QED BY <1>3, <2>1, <2>2, <2>3, <2>4, <2>5 DEF Goroutine
<1>4. ASSUME NEW m \in Members, Lifecycle(m) PROVE Inv' /\ committed' >= committed
  <2>1. CASE Release(m) \/ SettleStuck(m) \/ Assign(m) \/ Expire(m)
    <3>1. Inv'
      BY <2>1, ReleaseKeeps, SettleStuckKeeps, AssignKeeps, ExpireKeeps
    <3> QED BY <1>0, <2>1, <3>1 DEF Release, SettleStuck, Assign, Expire
  <2>2. CASE Stop(m) \/ StopAll(m)
    <3>1. Inv'
      BY <2>2, StopKeeps, StopAllKeeps
    <3> QED BY <1>0, <2>2, <3>1 DEF Stop, StopAll
  <2>3. CASE Exit(m) \/ Crash(m) \/ Restart(m)
    <3>1. Inv'
      BY <2>3, ExitKeeps, CrashKeeps, RestartKeeps
    <3> QED BY <1>0, <2>3, <3>1 DEF Exit, Crash, Restart, Gone
  <2>4. CASE Settle(m)
    BY <2>4, SettleKeeps
  <2> QED BY <1>4, <2>1, <2>2, <2>3, <2>4 DEF Lifecycle
<1> QED BY <1>0, <1>1, <1>2, <1>3, <1>4 DEF Next

-----------------------------------------------------------------------------
(* The theorems.                                                           *)

\* The inductive invariant holds.
THEOREM Invariance == Spec => []Inv
<1>1. Inv /\ [Next]_vars => Inv'
  BY NextKeeps
<1> QED BY <1>1, InitInv, PTL DEF Spec

\* TRP-29, KFK-09, TRP-47 for any group, partition and bounds: only acknowledged
\* records are committed, and records are acknowledged in their order (worker.go
\* commitContiguous, stall; offsets.go NextContiguous; consumer.go settle).
THEOREM PartitionIsSound == Spec => []PartitionInv
<1>1. Inv => PartitionInv
  <2> SUFFICES ASSUME Inv PROVE PartitionInv
    OBVIOUS
  <2>1. PICK n \in 0..Records : acked = 1..n
    BY DEF Inv, AckedIsPrefix
  <2>2. n \in Nat
    BY KafkaAssumption
  <2>3. Cardinality(1..n) = IF 1 > n THEN 0 ELSE n - 1 + 1
    BY <2>2, FS_Interval
  <2>4. Cardinality(acked) = n
    BY <2>1, <2>2, <2>3
  <2> QED BY <2>1, <2>4 DEF Inv, PartitionInv, CommittedIsAcked, AckedInOrder, Done
<1> QED BY <1>1, Invariance, PTL

\* TRP-48 for any group, partition and bounds: whichever member, revocation or
\* shutdown commits, the committed offset never moves back (worker.go markRevoked,
\* commitContiguous; consumer.go settle).
THEOREM CommitsOnlyForward == Spec => NoRewind
<1>1. Inv /\ [Next]_vars => [committed' >= committed]_vars
  BY NextKeeps
<1> QED BY <1>1, Invariance, PTL DEF Spec, NoRewind

\* No step restarts the worker of a running handler: assign keeps a stuck one, and
\* any other worker of a member without the partition is gone.
LEMMA HandlerStays ==
    ASSUME Inv, Next, NEW m \in Members, worker[m].pc \in {"handle", "returned"}
    PROVE  worker'[m].pc # "idle"
<1>0. worker \in [Members -> Worker] /\ worker[m] \in Worker
  BY DEF Inv, TypeOK
<1>1. PICK x \in Members : PollLoop(x) \/ Goroutine(x) \/ Lifecycle(x)
  BY DEF Next
<1>2. CASE PollLoop(x)
  <2>1. CASE Poll(x)
    <3>1. x # m => worker'[m] = worker[m]
      BY <1>0, <2>1 DEF Poll
    <3>2. x = m => worker'[m].pc # "idle"
      BY <1>0, <2>1 DEF Poll, Worker
    <3> QED BY <3>1, <3>2
  <2>2. CASE Enqueue(x)
    <3>1. x # m => worker'[m] = worker[m]
      BY <1>0, <2>2 DEF Enqueue
    <3>2. x = m => worker'[m].pc # "idle"
      BY <1>0, <2>2 DEF Enqueue, Worker
    <3> QED BY <3>1, <3>2
  <2>3. CASE PauseFetch(x)
    <3>1. x # m => worker'[m] = worker[m]
      BY <1>0, <2>3 DEF PauseFetch
    <3>2. x = m => worker'[m].pc # "idle"
      BY <1>0, <2>3 DEF PauseFetch, Worker
    <3> QED BY <3>1, <3>2
  <2> QED BY <1>2, <2>1, <2>2, <2>3 DEF PollLoop
<1>3. CASE Goroutine(x)
  <2>1. CASE Wake(x)
    <3>1. x # m => worker'[m] = worker[m]
      BY <1>0, <2>1 DEF Wake
    <3>2. x = m => worker'[m].pc # "idle"
      BY <1>0, <2>1 DEF Wake, Worker
    <3> QED BY <3>1, <3>2
  <2>2. CASE Rest(x)
    <3>1. x # m => worker'[m] = worker[m]
      BY <1>0, <2>2 DEF Rest
    <3>2. x = m => worker'[m].pc # "idle"
      BY <1>0, <2>2 DEF Rest, Worker
    <3> QED BY <3>1, <3>2
  <2>3. CASE Take(x)
    <3>1. x # m => worker'[m] = worker[m]
      BY <1>0, <2>3 DEF Take
    <3>2. x = m => worker'[m].pc # "idle"
      BY <1>0, <2>3 DEF Take, Worker
    <3> QED BY <3>1, <3>2
  <2>4. CASE ResumeFetch(x)
    <3>1. x # m => worker'[m] = worker[m]
      BY <1>0, <2>4 DEF ResumeFetch
    <3>2. x = m => worker'[m].pc # "idle"
      BY <1>0, <2>4 DEF ResumeFetch, Worker
    <3> QED BY <3>1, <3>2
  <2>5. CASE \E g \in {"acked", "released", "undecided"} : Handle(x, g)
    <3>1. x # m => worker'[m] = worker[m]
      BY <1>0, <2>5 DEF Handle
    <3>2. x = m => worker'[m].pc # "idle"
      BY <1>0, <2>5 DEF Handle, Worker
    <3> QED BY <3>1, <3>2
  <2>6. CASE Confirm(x)
    <3>1. x # m => worker'[m] = worker[m]
      BY <1>0, <2>6 DEF Confirm
    <3>2. x = m => worker'[m].pc # "idle"
      BY <1>0, <2>6 DEF Confirm, Worker
    <3> QED BY <3>1, <3>2
  <2>7. CASE Stall(x)
    <3>1. x # m => worker'[m] = worker[m]
      BY <1>0, <2>7 DEF Stall
    <3>2. x = m => worker'[m].pc # "idle"
      BY <1>0, <2>7 DEF Stall, Ready, Worker
    <3> QED BY <3>1, <3>2
  <2>8. CASE Backoff(x)
    <3>1. x # m => worker'[m] = worker[m]
      BY <1>0, <2>8 DEF Backoff
    <3>2. x = m => worker'[m].pc # "idle"
      BY <1>0, <2>8 DEF Backoff, Worker
    <3> QED BY <3>1, <3>2
  <2>9. CASE Retry(x)
    <3>1. x # m => worker'[m] = worker[m]
      BY <1>0, <2>9 DEF Retry
    <3>2. x = m => worker'[m].pc # "idle"
      BY <1>0, <2>9 DEF Retry, Worker
    <3> QED BY <3>1, <3>2
  <2>10. CASE Gate(x)
    <3>1. x # m => worker'[m] = worker[m]
      BY <1>0, <2>10 DEF Gate
    <3>2. x = m => worker'[m].pc # "idle"
      BY <1>0, <2>10 DEF Gate, Ready, Worker
    <3> QED BY <3>1, <3>2
  <2>11. CASE CommitRecords(x)
    <3>1. x # m => worker'[m] = worker[m]
      BY <1>0, <2>11 DEF CommitRecords
    <3>2. x = m => worker'[m].pc # "idle"
      BY <1>0, <2>11 DEF CommitRecords, Ready, Worker
    <3> QED BY <3>1, <3>2
  <2>12. CASE Quit(x)
    <3>1. x # m => worker'[m] = worker[m]
      BY <1>0, <2>12 DEF Quit
    <3>2. x = m => worker'[m].pc # "idle"
      BY <1>0, <2>12 DEF Quit, Ready, Worker
    <3> QED BY <3>1, <3>2
  <2> QED BY <1>3, <2>1, <2>2, <2>3, <2>4, <2>5, <2>6, <2>7, <2>8, <2>9, <2>10, <2>11, <2>12 DEF Goroutine
<1>4. CASE Lifecycle(x)
  <2>5. CASE Release(x)
    <3>1. x # m => worker'[m] = worker[m]
      BY <1>0, <2>5 DEF Release
    <3>2. x = m => worker'[m].pc # "idle"
      <4>1. x = m => worker'[m] \in {worker[m], Revoked(worker[m])}
        BY <1>0, <2>5 DEF Release
      <4>2. Revoked(worker[m]).pc = worker[m].pc
        BY <1>0 DEF Revoked, Worker
      <4> QED BY <4>1, <4>2
    <3> QED BY <3>1, <3>2
  <2>6. CASE Settle(x)
    <3>1. x # m => worker'[m] = worker[m]
      BY <1>0, <2>6 DEF Settle
    <3>2. x = m => worker'[m].pc # "idle"
      BY <1>0, <2>6 DEF Settle, NoWorker, Fresh, Worker
    <3> QED BY <3>1, <3>2
  <2>7. CASE SettleStuck(x)
    <3>1. x # m => worker'[m] = worker[m]
      BY <1>0, <2>7 DEF SettleStuck
    <3>2. x = m => worker'[m].pc # "idle"
      BY <1>0, <2>7 DEF SettleStuck, Worker
    <3> QED BY <3>1, <3>2
  <2>8. CASE Stop(x)
    <3>1. x # m => worker'[m] = worker[m]
      BY <1>0, <2>8 DEF Stop
    <3>2. x = m => worker'[m].pc # "idle"
      BY <1>0, <2>8 DEF Stop, Worker
    <3> QED BY <3>1, <3>2
  <2>9. CASE StopAll(x)
    <3>1. x # m => worker'[m] = worker[m]
      BY <1>0, <2>9 DEF StopAll
    <3>2. x = m => worker'[m].pc # "idle"
      BY <1>0, <2>9 DEF StopAll, Revoked, Worker
    <3> QED BY <3>1, <3>2
  <2>10. CASE Exit(x)
    <3>1. x # m => worker'[m] = worker[m]
      BY <1>0, <2>10 DEF Exit, Gone
    <3>2. x = m => worker'[m].pc # "idle"
      BY <1>0, <2>10 DEF Exit, Gone, NoWorker, Fresh, Worker
    <3> QED BY <3>1, <3>2
  <2>11. CASE Crash(x)
    <3>1. x # m => worker'[m] = worker[m]
      BY <1>0, <2>11 DEF Crash, Gone
    <3>2. x = m => worker'[m].pc # "idle"
      BY <1>0, <2>11 DEF Crash, Gone, NoWorker, Fresh, Worker
    <3> QED BY <3>1, <3>2
  <2>12. CASE Restart(x)
    <3>1. x # m => worker'[m] = worker[m]
      BY <1>0, <2>12 DEF Restart
    <3>2. x = m => worker'[m].pc # "idle"
      BY <1>0, <2>12 DEF Restart, Worker
    <3> QED BY <3>1, <3>2
  <2>3. CASE Expire(x)
    BY <1>0, <2>3 DEF Expire, NewGeneration, Worker
  <2>4. CASE Assign(x)
    <3> DEFINE F == [worker EXCEPT ![x] = IF client[x].stuck THEN @ ELSE Fresh]
    <3>1. worker'[m] = [F[m] EXCEPT !.fenced = (F[m].pc = "commit")]
      BY <2>4 DEF Assign, NewGeneration
    <3>2. F[m] = worker[m]
      <4>1. CASE x # m
        BY <1>0, <4>1
      <4>2. CASE x = m
        <5>1. ~client[m].assigned
          BY <2>4, <4>2 DEF Assign, Joined
        <5>2. MemberInv(client[m], worker[m], acked, committed)
          BY MemberFacts
        <5>3. client[m].stuck
          BY <5>1, <5>2 DEF MemberInv, Placed
        <5> QED BY <1>0, <4>2, <5>3
      <4> QED BY <4>1, <4>2
    <3> HIDE DEF F
    <3> QED BY <1>0, <3>1, <3>2 DEF Worker
  <2> QED BY <1>4, <2>3, <2>4, <2>5, <2>6, <2>7, <2>8, <2>9, <2>10, <2>11, <2>12 DEF Lifecycle
<1> QED BY <1>1, <1>2, <1>3, <1>4

\* A running handler is never joined by a second one in its process (consumer.go
\* worker, settle), whatever the rebalances, stops and stuck handlers.
THEOREM HandlersAreAlone == Spec => OneHandler
<1>1. Inv /\ [Next]_vars =>
        [\A m \in Members :
             worker[m].pc \in {"handle", "returned"} /\ client'[m].state # "down" =>
                 worker'[m].pc # "idle"]_vars
  BY HandlerStays
<1> QED BY <1>1, Invariance, PTL DEF Spec, OneHandler

=============================================================================
