--------------------------- MODULE CommandProofs ---------------------------
(***************************************************************************)
(* The theorems about the two ways a command is carried out once: the      *)
(* external command cycle (ExternalAttempt) and, in the second half, the   *)
(* synchronous command behind an idempotency key (IdempotentCommand).      *)
(*                                                                         *)
(* Of the external cycle: most steps are calm (Calm), they move the row of *)
(* one attempt forward (Moved) and let no handler ask for a number, so one *)
(* lemma keeps the ledger over all of them.  Five are not: a delivery, the *)
(* choice of a number, the insert that wins, a purge and the clock.  A     *)
(* handler about to insert has the number after the last attempt, or has   *)
(* lost the race (InsertIsNext); hence an attempt that is begun is the     *)
(* last (BegunIsLast), unless a purge came between the read and the        *)
(* insert.  That a handler keeps the row it inserted needs the retention   *)
(* to cover what a handler may last, and is an invariant of its own        *)
(* (CallsAreOwned).                                                        *)
(***************************************************************************)
EXTENDS ExternalAttempt, IdempotentCommand, FiniteSetTheorems, SequenceTheorems, WellFoundedInduction, TLAPS

\* The handlers inside a Begin, and the ones that wait for the partner's answer.
Waiting == {w \in Workers : worker[w].stage \in {"done", "last", "insert"}}
Calling == {w \in Workers : worker[w].stage \in {"call", "record"}}

\* What a handler knows, and that it lasts no longer than its contexts.
WorkersAreSound ==
    \A w \in Workers :
        /\ worker[w].stage \in {"insert", "call", "record", "settle"} => worker[w].n \in Numbers
        /\ worker[w].stage \in {"record", "settle"} => worker[w].class # "none"
        /\ worker[w].stage # "idle" => /\ worker[w].msg \in Messages
                                       /\ worker[w].since <= now /\ now <= worker[w].since + Life

\* A number was given out by a delivery, and the handlers that may still ask for one
\* have each a delivery of their own.
NumbersAreLeft ==
    /\ IsFiniteSet(Waiting) /\ Cardinality(Waiting) <= deliveries
    /\ \A n \in Present : n + Cardinality(Waiting) <= deliveries
    /\ \A w \in Workers : worker[w].stage = "insert" => worker[w].n - 1 + Cardinality(Waiting) <= deliveries

\* The times of a row are in order, and its lists within their bounds.
RowsAreSound ==
    \A n \in Numbers :
        /\ ledger[n].state # "absent" => ledger[n].started <= now
        /\ ledger[n].state = "finished" => ledger[n].started <= ledger[n].finished /\ ledger[n].finished <= now
        /\ IsFiniteSet(ledger[n].ids) /\ Cardinality(ledger[n].ids) <= MaxEntries
        /\ ledger[n].conflicts <= MaxEntries

\* A handler that waits for the partner has the row it inserted, for itself.
CallsAreOwned ==
    \A w \in Calling :
        /\ ledger[worker[w].n].state # "absent" /\ ledger[worker[w].n].msg = worker[w].msg
        /\ ledger[worker[w].n].started >= worker[w].since
        /\ \A v \in Calling : v # w => worker[v].n # worker[w].n

\* Unless a purge came between, an attempt that is begun is the last one, and a handler
\* about to insert has the number after it, or has lost the race.
BegunIsLast ==
    straddled \/ \A n \in Numbers : ledger[n].state = "begun" => \A k \in Present : k <= n

InsertIsNext ==
    straddled \/
    \A w \in Workers : worker[w].stage = "insert" =>
        \/ worker[w].n \in Present
        \/ /\ worker[w].n = 1 \/ worker[w].n - 1 \in Present
           /\ \A k \in Present : k < worker[w].n /\ ledger[k].state # "begun"

\* What the row of an attempt says of the steps applied for it.
AppliedIsKept ==
    \A n \in Numbers :
        /\ ledger[n].state = "begun" => applied[n] = <<>>
        /\ n \in Present => \A i \in 1..Len(applied[n]) :
              /\ applied[n][i].class = ledger[n].class
              /\ applied[n][i].by = "outcome" \/ applied[n][i].by \in ledger[n].ids \/ ledger[n].terminal # "none"
              /\ applied[n][i].finding \in Terminal => ledger[n].terminal # "none"

\* A message whose settlement has not committed had no step applied.
SettledOnce == \A m \in Messages : settled[m] <= 1 /\ (m \notin processed => settled[m] = 0)

\* The inductive invariant: of the ledger, and of the steps.
LedgerPart ==
    /\ WorkersAreSound /\ NumbersAreLeft /\ RowsAreSound /\ BegunIsLast /\ InsertIsNext
StepsPart == AppliedIsKept /\ StepOnce /\ TerminalIsLast /\ UnknownStaysOpen /\ SettledOnce

AttemptInv == TypeOK /\ LedgerPart /\ StepsPart

-----------------------------------------------------------------------------
(* Greatest numbers.                                                       *)

LEMMA MinimalIsLeast ==
    ASSUME NEW T \in SUBSET Nat, NEW R,
           \E x \in T : \A y \in T : ~(<<y, x>> \in R),
           \A x, y \in Nat : y < x => <<y, x>> \in R
    PROVE  \E x \in T : \A y \in T : x <= y
<1>1. PICK x \in T : \A y \in T : ~(<<y, x>> \in R)
  OBVIOUS
<1>2. ASSUME NEW y \in T PROVE x <= y
  <2>1. ~(y < x)
    BY <1>1
  <2> QED BY <2>1
<1> QED BY <1>2

LEMMA LeastOfNats ==
    ASSUME NEW T \in SUBSET Nat, T # {}
    PROVE  \E x \in T : \A y \in T : x <= y
<1>1. \E x \in T : \A y \in T : ~(<<y, x>> \in OpToRel(<, Nat))
  BY NatLessThanWellFounded, WFMin, Zenon
<1>2. \A x, y \in Nat : y < x => <<y, x>> \in OpToRel(<, Nat)
  BY Zenon DEF OpToRel
<1> QED BY <1>1, <1>2, MinimalIsLeast, Zenon

LEMMA GreatestOfNumbers ==
    ASSUME NEW S \in SUBSET Numbers, S # {}
    PROVE  Max(S) \in S /\ \A y \in S : y <= Max(S)
<1> DEFINE N == MaxDeliveries
           T == {N - n : n \in S}
<1>0. N \in Nat /\ \A n \in S : n \in 1..N
  BY ExternalAssumption DEF Numbers
<1>1. T \in SUBSET Nat /\ T # {}
  <2>1. \A n \in S : N - n \in Nat
    BY <1>0
  <2>2. PICK n \in S : TRUE
    OBVIOUS
  <2>3. N - n \in T
    OBVIOUS
  <2> QED BY <2>1, <2>3
<1>2. PICK t \in T : \A y \in T : t <= y
  BY <1>1, LeastOfNats
<1>3. PICK x \in S : t = N - x
  OBVIOUS
<1>4. \A y \in S : N - x <= N - y
  BY <1>2, <1>3
<1>5. \A y \in S : x >= y
  BY <1>0, <1>4
<1>6. Max(S) = CHOOSE z \in S : \A y \in S : z >= y
  BY DEF Max
<1>7. Max(S) \in S /\ \A y \in S : Max(S) >= y
  BY <1>5, <1>6
<1> QED BY <1>0, <1>7

\* The last attempt is the greatest number with a row, and 0 when there is none.
LEMMA LastFacts ==
    /\ LastAttempt = 0 => Present = {}
    /\ LastAttempt # 0 => LastAttempt \in Present
    /\ LastAttempt \in Nat /\ LastAttempt <= MaxDeliveries
    /\ \A k \in Present : k <= LastAttempt
<1>0. MaxDeliveries \in Nat /\ Present \in SUBSET Numbers /\ \A n \in Numbers : n \in Nat /\ n # 0 /\ n <= MaxDeliveries
  BY ExternalAssumption DEF Present, Numbers
<1>1. CASE Present = {}
  BY <1>0, <1>1 DEF LastAttempt
<1>2. CASE Present # {}
  <2>1. Max(Present) \in Present /\ \A y \in Present : y <= Max(Present)
    BY <1>0, <1>2, GreatestOfNumbers
  <2>2. LastAttempt = Max(Present)
    BY <1>2 DEF LastAttempt
  <2> QED BY <1>0, <1>2, <2>1, <2>2
<1> QED BY <1>1, <1>2

LEMMA LastIs ==
    ASSUME NEW n \in Present, \A k \in Present : k <= n
    PROVE  n = LastAttempt
<1>1. n \in Nat /\ n # 0 /\ LastAttempt \in Nat /\ n <= LastAttempt
  BY LastFacts, ExternalAssumption DEF Present, Numbers
<1>2. LastAttempt \in Present
  BY <1>1, LastFacts
<1> QED BY <1>1, <1>2

-----------------------------------------------------------------------------
(* One row moves.                                                          *)

LEMMA Kinds ==
    /\ RetryableClasses \subseteq Classes /\ FinalClasses \subseteq Classes /\ UnknownClasses \subseteq Classes
    /\ "none" \notin Classes /\ "none" \notin Terminal /\ "none" \notin Findings /\ Terminal \subseteq Findings
    /\ "unknown_sent" \in Classes /\ "unknown_ambiguous" \in Classes
  BY DEF Classes, RetryableClasses, FinalClasses, UnknownClasses, Terminal, Findings

\* What a row may become without being purged.
Moved(n, r) ==
    /\ r \in Row /\ r.msg = ledger[n].msg /\ r.started = ledger[n].started
    /\ r.state = "finished" <=> r.class # "none"
    /\ ledger[n].state = "absent" => r = ledger[n]
    /\ ledger[n].state = "begun" => r.state = "begun" \/ (r.state = "finished" /\ r.finished = now)
    /\ ledger[n].state = "finished" => /\ r.state = "finished" /\ r.finished = ledger[n].finished
                                       /\ r.class = ledger[n].class /\ ledger[n].ids \subseteq r.ids
                                       /\ ledger[n].terminal # "none" => r.terminal = ledger[n].terminal
    /\ IsFiniteSet(r.ids) /\ Cardinality(r.ids) <= MaxEntries /\ r.conflicts <= MaxEntries

LEMMA RowFacts ==
    ASSUME TypeOK, RowsAreSound, NEW n \in Numbers
    PROVE  /\ ledger[n] \in Row
           /\ ledger[n].state = "finished" <=> ledger[n].class # "none"
           /\ IsFiniteSet(ledger[n].ids) /\ Cardinality(ledger[n].ids) \in Nat
           /\ Cardinality(ledger[n].ids) <= MaxEntries /\ ledger[n].conflicts <= MaxEntries
           /\ MaxEntries \in Nat \ {0} /\ ledger[n].conflicts \in Nat /\ ledger[n].ids \subseteq Observations
<1>1. ledger[n] \in Row /\ (ledger[n].state = "finished" <=> ledger[n].class # "none")
  BY DEF TypeOK
<1>2. IsFiniteSet(ledger[n].ids) /\ Cardinality(ledger[n].ids) <= MaxEntries /\ ledger[n].conflicts <= MaxEntries
  BY DEF RowsAreSound
<1>3. Cardinality(ledger[n].ids) \in Nat
  BY <1>2, FS_CardinalityType
<1> QED BY <1>1, <1>2, <1>3, ExternalAssumption DEF Row

LEMMA Unmoved ==
    ASSUME TypeOK, RowsAreSound, NEW n \in Numbers
    PROVE  Moved(n, ledger[n])
<1>1. ledger[n].state \in {"absent", "begun", "finished"}
  BY RowFacts DEF Row
<1> QED BY <1>1, RowFacts DEF Moved

LEMMA TerminalType ==
    ASSUME NEW o \in Observations \cup {NoObservation}
    PROVE  /\ FoundBy(o) \in Findings \cup {"none"} /\ TerminalOf(o) \in Terminal \cup {"none"}
           /\ FoundBy(o) \in Terminal => TerminalOf(o) # "none"
           /\ o \in Observations => FoundBy(o) = FindingOf[o] /\ FindingOf[o] \in Findings
  BY ExternalAssumption, Kinds DEF FoundBy, TerminalOf

\* What Finish does to each state of the row.
LEMMA FinishedRowFacts ==
    ASSUME TypeOK, RowsAreSound, NEW n \in Numbers, NEW class \in Classes,
           NEW o \in Observations \cup {NoObservation}, NEW presumed \in BOOLEAN
    PROVE  LET r == FinishedRow(n, class, o, presumed)
           IN  /\ Moved(n, r)
               /\ FinishResult(n, class, presumed) = "unknown" <=> ledger[n].state = "absent"
               /\ FinishResult(n, class, presumed) = "recorded" <=> ledger[n].state = "begun"
               /\ ledger[n].state = "begun" =>
                     r.state = "finished" /\ r.class = class /\ r.terminal = TerminalOf(o)
<1> DEFINE r == FinishedRow(n, class, o, presumed)
<1> SUFFICES /\ Moved(n, r)
             /\ FinishResult(n, class, presumed) = "unknown" <=> ledger[n].state = "absent"
             /\ FinishResult(n, class, presumed) = "recorded" <=> ledger[n].state = "begun"
             /\ ledger[n].state = "begun" =>
                   r.state = "finished" /\ r.class = class /\ r.terminal = TerminalOf(o)
  OBVIOUS
<1>0. now \in Nat
  BY ExternalAssumption DEF TypeOK
<1>1. CASE ledger[n].state = "absent"
  <2>1. FinishResult(n, class, presumed) = "unknown"
    BY <1>1 DEF FinishResult
  <2>2. r = ledger[n]
    BY <2>1 DEF FinishedRow
  <2> HIDE DEF r
  <2> QED BY <1>1, <2>1, <2>2, Unmoved
<1>2. CASE ledger[n].state = "begun"
  <2>1. FinishResult(n, class, presumed) = "recorded"
    BY <1>2 DEF FinishResult
  <2>2. r = [ledger[n] EXCEPT !.state = "finished", !.finished = now, !.class = class,
                              !.terminal = TerminalOf(o), !.ids = {o} \ {NoObservation}]
    BY <2>1 DEF FinishedRow
  <2> HIDE DEF r
  <2>3. /\ r \in Row /\ r.msg = ledger[n].msg /\ r.started = ledger[n].started /\ r.state = "finished"
        /\ r.finished = now /\ r.class = class /\ r.terminal = TerminalOf(o) /\ r.ids = {o} \ {NoObservation}
        /\ r.conflicts = ledger[n].conflicts
    <3>1. {o} \ {NoObservation} \subseteq Observations /\ TerminalOf(o) \in Terminal \cup {"none"}
      BY TerminalType
    <3> QED BY <1>0, <2>2, <3>1, RowFacts DEF Row
  <2>4. IsFiniteSet(r.ids) /\ Cardinality(r.ids) <= MaxEntries
    <3>1. IsFiniteSet({o}) /\ Cardinality({o}) = 1
      BY FS_Singleton
    <3>2. r.ids \in SUBSET {o}
      BY <2>3
    <3>3. IsFiniteSet(r.ids) /\ Cardinality(r.ids) <= Cardinality({o})
      BY <3>1, <3>2, FS_Subset
    <3>4. Cardinality(r.ids) \in Nat
      BY <3>3, FS_CardinalityType
    <3> QED BY <3>1, <3>3, <3>4, RowFacts
  <2> QED BY <1>2, <2>1, <2>3, <2>4, RowFacts, Kinds DEF Moved
<1>3. CASE ledger[n].state = "finished"
  <2>0. FinishResult(n, class, presumed) \in {"unchanged", "saturated", "conflict"}
    BY <1>3 DEF FinishResult
  <2>1. CASE FinishResult(n, class, presumed) \in {"unchanged", "saturated"}
    <3>1. r = ledger[n]
      BY <2>1 DEF FinishedRow
    <3> HIDE DEF r
    <3> QED BY <1>3, <2>1, <3>1, Unmoved
  <2>2. CASE FinishResult(n, class, presumed) = "conflict"
    <3> DEFINE k == ledger[n].conflicts + 1
    <3>1. r = [ledger[n] EXCEPT !.conflicts = k]
      BY <2>2 DEF FinishedRow
    <3>2. ~Saturated(ledger[n])
      BY <1>3, <2>2 DEF FinishResult
    <3>3. k \in Nat /\ k <= MaxEntries
      BY <3>2, RowFacts DEF Saturated
    <3> HIDE DEF k, r
    <3>4. /\ r \in Row /\ r.msg = ledger[n].msg /\ r.started = ledger[n].started /\ r.state = ledger[n].state
          /\ r.finished = ledger[n].finished /\ r.class = ledger[n].class /\ r.terminal = ledger[n].terminal
          /\ r.ids = ledger[n].ids /\ r.conflicts = k
      BY <3>1, <3>3, RowFacts DEF Row
    <3> QED BY <1>3, <2>2, <3>3, <3>4, RowFacts DEF Moved
  <2> QED BY <2>0, <2>1, <2>2
<1>4. ledger[n].state \in {"absent", "begun", "finished"}
  BY RowFacts DEF Row
<1> QED BY <1>1, <1>2, <1>3, <1>4

\* One identifier more on a row that has room for it.
LEMMA OneIdMore ==
    ASSUME TypeOK, RowsAreSound, NEW n \in Numbers, NEW o \in Observations, ~Saturated(ledger[n])
    PROVE  /\ IsFiniteSet(ledger[n].ids \cup {o}) /\ Cardinality(ledger[n].ids \cup {o}) <= MaxEntries
           /\ ledger[n].conflicts + 1 <= MaxEntries /\ ledger[n].ids \cup {o} \subseteq Observations
<1> DEFINE S == ledger[n].ids
           T == S \cup {o}
<1>1. IsFiniteSet(S) /\ Cardinality(S) \in Nat /\ S \subseteq Observations
  BY RowFacts
<1>2. Cardinality(S) < MaxEntries /\ ledger[n].conflicts < MaxEntries /\ MaxEntries \in Nat /\ ledger[n].conflicts \in Nat
  BY RowFacts DEF Saturated
<1> HIDE DEF S
<1>3. IsFiniteSet(T) /\ (Cardinality(T) = Cardinality(S) \/ Cardinality(T) = Cardinality(S) + 1)
  BY <1>1, FS_AddElement
<1>4. Cardinality(T) <= MaxEntries /\ ledger[n].conflicts + 1 <= MaxEntries
  BY <1>1, <1>2, <1>3
<1> QED BY <1>1, <1>3, <1>4 DEF S

\* What Observe does to a finished row.
LEMMA ObservedRowFacts ==
    ASSUME TypeOK, RowsAreSound, NEW n \in Numbers, NEW o \in Observations, ledger[n].state = "finished"
    PROVE  LET r == ObservedRow(n, o)
           IN  /\ Moved(n, r) /\ r.class = ledger[n].class /\ r.queries \in Nat
               /\ ObserveResult(n, o) = "recorded" =>
                     /\ o \notin ledger[n].ids /\ ledger[n].terminal = "none"
                     /\ o \in r.ids \/ r.terminal # "none"
                     /\ FindingOf[o] \in Terminal => r.terminal # "none"
<1> DEFINE r == ObservedRow(n, o)
           res == ObserveResult(n, o)
           k == ledger[n].conflicts + 1
           q == ledger[n].queries + 1
           S == ledger[n].ids \cup {o}
           full == Saturated(ledger[n])
<1> SUFFICES /\ Moved(n, r) /\ r.class = ledger[n].class /\ r.queries \in Nat
             /\ res = "recorded" =>
                   /\ o \notin ledger[n].ids /\ ledger[n].terminal = "none"
                   /\ o \in r.ids \/ r.terminal # "none"
                   /\ FindingOf[o] \in Terminal => r.terminal # "none"
  OBVIOUS
<1>0. ledger[n] \in Row /\ k \in Nat /\ q \in Nat /\ ledger[n].queries \in Nat /\ ledger[n].terminal \in Terminal \cup {"none"}
  BY RowFacts DEF Row
<1>1. FindingOf[o] \in Findings /\ TerminalOf(o) \in Terminal \cup {"none"} /\ (FindingOf[o] \in Terminal => TerminalOf(o) # "none")
  BY TerminalType
<1>2. /\ res \in {"duplicate", "saturated", "noted", "conflict", "recorded"}
      /\ res \in {"noted", "conflict"} => ~full /\ ledger[n].terminal # "none"
      /\ res = "recorded" => o \notin ledger[n].ids /\ ledger[n].terminal = "none" /\ (full => FindingOf[o] \in Terminal)
  <2> HIDE DEF full
  <2>1. res = CASE o \in ledger[n].ids                                                -> "duplicate"
          [] o \notin ledger[n].ids /\ full /\ ledger[n].terminal = FindingOf[o]           -> "duplicate"
          [] o \notin ledger[n].ids /\ full /\ ledger[n].terminal # FindingOf[o]
             /\ (ledger[n].terminal # "none" \/ FindingOf[o] \notin Terminal)        -> "saturated"
          [] o \notin ledger[n].ids /\ ~full /\ ledger[n].terminal # "none"
             /\ (FindingOf[o] \notin Terminal \/ ledger[n].terminal = FindingOf[o])       -> "noted"
          [] o \notin ledger[n].ids /\ ~full /\ ledger[n].terminal # "none"
             /\ FindingOf[o] \in Terminal /\ ledger[n].terminal # FindingOf[o]            -> "conflict"
          [] o \notin ledger[n].ids /\ ledger[n].terminal = "none"
             /\ (~full \/ FindingOf[o] \in Terminal)                           -> "recorded"
    BY DEF ObserveResult, full
  <2> HIDE DEF res
  <2> QED BY <2>1
<1>3. r = CASE res \in {"duplicate", "saturated"} -> ledger[n]
            [] res = "noted"    -> [ledger[n] EXCEPT !.ids = S]
            [] res = "conflict" -> [ledger[n] EXCEPT !.ids = S, !.conflicts = k]
            [] res = "recorded" -> [ledger[n] EXCEPT !.terminal = TerminalOf(o),
                                                     !.ids = IF full THEN ledger[n].ids ELSE S,
                                                     !.queries = q]
  BY DEF ObservedRow
<1>4. ~full => /\ IsFiniteSet(S) /\ Cardinality(S) <= MaxEntries /\ k <= MaxEntries /\ S \subseteq Observations
  BY OneIdMore
<1>5. ledger[n].ids \subseteq S /\ o \in S
  OBVIOUS
<1> HIDE DEF r, res, full, k, q, S
<1>6. CASE res \in {"duplicate", "saturated"}
  <2>1. r = ledger[n]
    BY <1>3, <1>6
  <2> QED BY <1>0, <1>6, <2>1, Unmoved
<1>7. CASE res = "noted"
  <2>1. r = [ledger[n] EXCEPT !.ids = S] /\ ~full
    BY <1>2, <1>3, <1>7
  <2>2. /\ r \in Row /\ r.msg = ledger[n].msg /\ r.started = ledger[n].started /\ r.state = ledger[n].state
        /\ r.finished = ledger[n].finished /\ r.class = ledger[n].class /\ r.terminal = ledger[n].terminal
        /\ r.ids = S /\ r.conflicts = ledger[n].conflicts /\ r.queries = ledger[n].queries
    BY <1>0, <1>4, <2>1 DEF Row
  <2> QED BY <1>0, <1>4, <1>5, <1>7, <2>1, <2>2, RowFacts DEF Moved
<1>8. CASE res = "conflict"
  <2>1. r = [ledger[n] EXCEPT !.ids = S, !.conflicts = k] /\ ~full
    BY <1>2, <1>3, <1>8
  <2>2. /\ r \in Row /\ r.msg = ledger[n].msg /\ r.started = ledger[n].started /\ r.state = ledger[n].state
        /\ r.finished = ledger[n].finished /\ r.class = ledger[n].class /\ r.terminal = ledger[n].terminal
        /\ r.ids = S /\ r.conflicts = k /\ r.queries = ledger[n].queries
    BY <1>0, <1>4, <2>1 DEF Row
  <2> QED BY <1>0, <1>4, <1>5, <1>8, <2>1, <2>2, RowFacts DEF Moved
<1>9. CASE res = "recorded"
  <2> DEFINE I == IF full THEN ledger[n].ids ELSE S
  <2>1. r = [ledger[n] EXCEPT !.terminal = TerminalOf(o), !.ids = I, !.queries = q]
    BY <1>3, <1>9
  <2>2. /\ I \subseteq Observations /\ IsFiniteSet(I) /\ Cardinality(I) <= MaxEntries /\ ledger[n].ids \subseteq I
        /\ full \/ o \in I
    BY <1>4, <1>5, RowFacts
  <2> HIDE DEF I
  <2>3. /\ r \in Row /\ r.msg = ledger[n].msg /\ r.started = ledger[n].started /\ r.state = ledger[n].state
        /\ r.finished = ledger[n].finished /\ r.class = ledger[n].class /\ r.terminal = TerminalOf(o)
        /\ r.ids = I /\ r.conflicts = ledger[n].conflicts /\ r.queries = q
    BY <1>0, <1>1, <2>1, <2>2 DEF Row
  <2>4. Moved(n, r)
    BY <1>2, <1>9, <2>2, <2>3, RowFacts DEF Moved
  <2> QED BY <1>0, <1>1, <1>2, <1>9, <2>2, <2>3, <2>4
<1> QED BY <1>2, <1>6, <1>7, <1>8, <1>9

-----------------------------------------------------------------------------
(* The ledger, when rows move and handlers do not ask for numbers.         *)

\* A handler that goes on without beginning an attempt.
Tame(v, w) ==
    /\ v.stage \in {"call", "record"} =>
          w.stage \in {"call", "record"} /\ v.n = w.n /\ v.msg = w.msg /\ v.since = w.since
    /\ v.stage \in {"done", "last", "insert"} => w.stage \in {"done", "last", "insert"}
    /\ v.stage = "insert" => w.stage = "insert" /\ v.n = w.n

LEMMA WaitingShrinks ==
    ASSUME NumbersAreLeft, Waiting' \subseteq Waiting
    PROVE  /\ IsFiniteSet(Waiting') /\ Cardinality(Waiting') <= Cardinality(Waiting)
           /\ Cardinality(Waiting') \in Nat /\ Cardinality(Waiting) \in Nat
<1>1. IsFiniteSet(Waiting) /\ Waiting' \in SUBSET Waiting
  BY DEF NumbersAreLeft
<1>2. IsFiniteSet(Waiting') /\ Cardinality(Waiting') <= Cardinality(Waiting)
  BY <1>1, FS_Subset
<1> QED BY <1>1, <1>2, FS_CardinalityType

\* Neither a row begins nor one leaves.
Calm ==
    /\ WorkersAreSound' /\ worker' \in [Workers -> Worker] /\ \A w \in Workers : Tame(worker'[w], worker[w])
    /\ \A n \in Numbers : Moved(n, ledger'[n])
    /\ now' = now /\ deliveries' = deliveries /\ straddled' = straddled

LEMMA PresentStands ==
    ASSUME TypeOK, RowsAreSound, \A n \in Numbers : Moved(n, ledger'[n])
    PROVE  Present' = Present
<1>1. \A n \in Numbers : Moved(n, ledger'[n]) /\ ledger[n].state \in {"absent", "begun", "finished"}
  BY RowFacts DEF Row
<1>2. \A n \in Numbers : ledger'[n].state = "absent" <=> ledger[n].state = "absent"
  BY <1>1 DEF Moved
<1> QED BY <1>2 DEF Present

LEMMA LedgerStands ==
    ASSUME TypeOK, LedgerPart, Calm
    PROVE  LedgerPart'
<1> USE DEF Calm
<1>0. /\ WorkersAreSound /\ NumbersAreLeft /\ RowsAreSound /\ BegunIsLast /\ InsertIsNext
      /\ now \in Nat /\ deliveries \in Nat
  BY ExternalAssumption DEF LedgerPart, TypeOK
<1>1. Present' = Present
  BY <1>0, PresentStands
<1>2. Waiting' \subseteq Waiting /\ Calling' \subseteq Calling
  BY DEF Waiting, Calling, Tame
<1>3. Present \subseteq Nat /\ \A w \in Workers : worker[w].stage = "insert" => worker[w].n \in Nat
  BY ExternalAssumption, <1>0 DEF Present, Numbers, WorkersAreSound
<1>4. NumbersAreLeft'
  <2>1. /\ IsFiniteSet(Waiting') /\ Cardinality(Waiting') <= Cardinality(Waiting)
        /\ Cardinality(Waiting') \in Nat /\ Cardinality(Waiting) \in Nat
    BY <1>0, <1>2, WaitingShrinks
  <2>2. \A n \in Present' : n + Cardinality(Waiting') <= deliveries
    BY <1>0, <1>1, <1>3, <2>1 DEF NumbersAreLeft
  <2>3. ASSUME NEW w \in Workers, worker'[w].stage = "insert"
        PROVE  worker'[w].n - 1 + Cardinality(Waiting') <= deliveries
    <3>1. worker'[w].n = worker[w].n /\ worker[w].stage = "insert"
      BY <2>3 DEF Tame
    <3>2. worker[w].n \in Nat /\ worker[w].n - 1 + Cardinality(Waiting) <= deliveries
      BY <1>0, <1>3, <3>1 DEF NumbersAreLeft
    <3> QED BY <1>0, <2>1, <3>1, <3>2
  <2>4. Cardinality(Waiting') <= deliveries
    BY <1>0, <2>1 DEF NumbersAreLeft
  <2> QED BY <2>1, <2>2, <2>3, <2>4 DEF NumbersAreLeft
<1>5. RowsAreSound'
  <2> SUFFICES ASSUME NEW n \in Numbers
               PROVE  /\ ledger'[n].state # "absent" => ledger'[n].started <= now
                      /\ ledger'[n].state = "finished" =>
                            ledger'[n].started <= ledger'[n].finished /\ ledger'[n].finished <= now
                      /\ IsFiniteSet(ledger'[n].ids) /\ Cardinality(ledger'[n].ids) <= MaxEntries
                      /\ ledger'[n].conflicts <= MaxEntries
    BY DEF RowsAreSound
  <2>1. Moved(n, ledger'[n])
    OBVIOUS
  <2>2. ledger[n].state \in {"absent", "begun", "finished"} /\ ledger[n].started \in Nat
    BY <1>0, RowFacts DEF Row
  <2> QED BY <1>0, <2>1, <2>2 DEF Moved, RowsAreSound
<1>7. \A n \in Numbers : ledger'[n].state = "begun" => ledger[n].state = "begun"
  <2> TAKE n \in Numbers
  <2>1. Moved(n, ledger'[n]) /\ ledger[n].state \in {"absent", "begun", "finished"}
    BY <1>0, RowFacts DEF Row
  <2> QED BY <2>1 DEF Moved
<1>8. BegunIsLast'
  BY <1>0, <1>1, <1>7 DEF BegunIsLast
<1>9. InsertIsNext'
  <2>1. \A w \in Workers : worker'[w].stage = "insert" => worker[w].stage = "insert" /\ worker'[w].n = worker[w].n
    BY DEF Tame
  <2>2. \A k \in Present : ledger[k].state # "begun" => ledger'[k].state # "begun"
    BY <1>7 DEF Present
  <2> QED BY <1>0, <1>1, <2>1, <2>2 DEF InsertIsNext
<1> QED BY <1>0, <1>4, <1>5, <1>8, <1>9 DEF LedgerPart

LEMMA CallsStand ==
    ASSUME TypeOK, LedgerPart, CallsAreOwned, Calm
    PROVE  CallsAreOwned'
<1> USE DEF Calm
<1>0. WorkersAreSound /\ RowsAreSound
  BY DEF LedgerPart
<1>6. Present' = Present
  BY <1>0, PresentStands
<1> SUFFICES ASSUME NEW w \in Calling'
             PROVE  /\ ledger'[worker'[w].n].state # "absent" /\ ledger'[worker'[w].n].msg = worker'[w].msg
                    /\ ledger'[worker'[w].n].started >= worker'[w].since
                    /\ \A v \in Calling' : v # w => worker'[v].n # worker'[w].n
  BY DEF CallsAreOwned
<1>1. \A v \in Calling' : /\ v \in Calling /\ v \in Workers /\ worker'[v].n = worker[v].n
                          /\ worker'[v].msg = worker[v].msg /\ worker'[v].since = worker[v].since
  BY DEF Calling, Tame
<1>2. worker[w].n \in Numbers
  BY <1>0, <1>1 DEF WorkersAreSound, Calling
<1>3. Moved(worker[w].n, ledger'[worker[w].n])
  BY <1>2
<1>4. worker[w].n \in Present /\ worker[w].n \in Present'
  BY <1>1, <1>2, <1>6 DEF CallsAreOwned, Present
<1>5. ledger'[worker[w].n].state # "absent"
  BY <1>4 DEF Present
<1> QED BY <1>1, <1>3, <1>5 DEF CallsAreOwned, Moved

\* What a handler may become without beginning an attempt.
Follows(v, w) ==
    /\ v \in Worker /\ Tame(v, w)
    /\ v.stage \in {"insert", "call", "record", "settle"} => v.n \in Numbers
    /\ v.stage \in {"record", "settle"} => v.class # "none"
    /\ v.stage # "idle" => w.stage # "idle" /\ v.msg = w.msg /\ v.since = w.since

LEMMA IdleFollows ==
    ASSUME NEW w
    PROVE  Follows(Idle, w) /\ Idle \in Worker /\ Idle.stage = "idle"
<1>1. Idle \in Worker /\ Idle.stage = "idle"
  BY DEF Idle, Worker, Stages
<1> QED BY <1>1 DEF Follows, Tame

LEMMA OneWorker ==
    ASSUME NEW f \in [Workers -> Worker], NEW w \in Workers, NEW v \in Worker, NEW g, g = [f EXCEPT ![w] = v]
    PROVE  g \in [Workers -> Worker] /\ g[w] = v /\ \A u \in Workers : u # w => g[u] = f[u]
  OBVIOUS

LEMMA WorkerMoves ==
    ASSUME TypeOK, WorkersAreSound, now' = now, NEW w \in Workers, NEW v, Follows(v, worker[w]),
           worker' = [worker EXCEPT ![w] = v]
    PROVE  /\ WorkersAreSound' /\ worker' \in [Workers -> Worker]
           /\ \A u \in Workers : Tame(worker'[u], worker[u])
<1>0. worker \in [Workers -> Worker] /\ v \in Worker
  BY DEF TypeOK, Follows
<1>1. worker' \in [Workers -> Worker] /\ worker'[w] = v /\ \A u \in Workers : u # w => worker'[u] = worker[u]
  BY <1>0, OneWorker
<1>2. \A u \in Workers : Tame(worker'[u], worker[u])
  BY <1>1 DEF Follows, Tame
<1>3. WorkersAreSound'
  BY <1>1 DEF WorkersAreSound, Follows
<1> QED BY <1>1, <1>2, <1>3

LEMMA WorkersStand ==
    ASSUME TypeOK, WorkersAreSound, now' = now, worker' = worker
    PROVE  /\ WorkersAreSound' /\ worker' \in [Workers -> Worker]
           /\ \A u \in Workers : Tame(worker'[u], worker[u])
  BY DEF TypeOK, WorkersAreSound, Tame

-----------------------------------------------------------------------------
(* The steps applied.                                                      *)

StepTaken == [by: Observations \cup {"outcome"}, class: Classes, finding: Findings \cup {"none"}, step: Steps]

LEMMA AppliedType ==
    ASSUME TypeOK
    PROVE  applied \in [Numbers -> Seq(StepTaken)]
  BY Zenon DEF TypeOK, StepTaken

LEMMA NextStepFacts ==
    ASSUME NEW class \in Classes, NEW finding \in Findings \cup {"none"}, NEW queries
    PROVE  /\ NextStep(class, finding, queries) \in Steps
           /\ class \in UnknownClasses /\ finding = "none" =>
                 NextStep(class, finding, queries) \in {"query", "reconcile"}
<1> DEFINE a == AwaitOrReconcile(queries)
           q == QueryOrReconcile(queries)
<1>1. a \in {"await", "reconcile"} /\ q \in {"query", "reconcile"}
  BY DEF AwaitOrReconcile, QueryOrReconcile
<1> HIDE DEF a, q
<1>2. CASE finding # "none"
  <2>1. StepForFinding(finding, queries) \in Steps
    <3>1. finding \in {"applied", "rejected", "absent", "pending", "inconclusive"}
      BY <1>2 DEF Findings, Terminal
    <3>2. CASE finding = "absent"
      BY <3>2 DEF StepForFinding, Steps
    <3>3. CASE finding = "pending"
      BY <1>1, <3>3 DEF StepForFinding, Steps, a
    <3>4. CASE finding = "inconclusive"
      BY <1>1, <3>4 DEF StepForFinding, Steps, q
    <3>5. CASE finding \in {"applied", "rejected"}
      BY <3>5 DEF StepForFinding, Steps
    <3> QED BY <3>1, <3>2, <3>3, <3>4, <3>5
  <2> QED BY <1>2, <2>1 DEF NextStep
<1>3. CASE finding = "none"
  <2>1. CASE class = "accepted"
    <3>1. StepForClass(class, queries) = IF Profile.efficacy = "on_submit" THEN "confirm" ELSE a
      BY <2>1 DEF StepForClass, a, RetryableClasses, FinalClasses, UnknownClasses
    <3> QED BY <1>1, <1>3, <2>1, <3>1 DEF NextStep, Steps, UnknownClasses
  <2>2. CASE class \in RetryableClasses
    <3>1. StepForClass(class, queries) = "retry"
      BY <2>2 DEF StepForClass, RetryableClasses, FinalClasses, UnknownClasses
    <3> QED BY <1>3, <2>2, <3>1 DEF NextStep, Steps, UnknownClasses, RetryableClasses
  <2>3. CASE class \in FinalClasses
    <3>1. StepForClass(class, queries) = "fail"
      BY <2>3 DEF StepForClass, RetryableClasses, FinalClasses, UnknownClasses
    <3> QED BY <1>3, <2>3, <3>1 DEF NextStep, Steps, UnknownClasses, FinalClasses
  <2>4. CASE class = "schema_mismatch"
    <3>1. StepForClass(class, queries) = "suspend"
      BY <2>4 DEF StepForClass, RetryableClasses, FinalClasses, UnknownClasses
    <3> QED BY <1>3, <2>4, <3>1 DEF NextStep, Steps, UnknownClasses
  <2>5. CASE class \in UnknownClasses
    <3>1. StepForClass(class, queries) = q
      BY <2>5 DEF StepForClass, RetryableClasses, FinalClasses, UnknownClasses, q
    <3> QED BY <1>1, <1>3, <2>5, <3>1 DEF NextStep, Steps
  <2> QED BY <2>1, <2>2, <2>3, <2>4, <2>5 DEF Classes
<1> QED BY <1>2, <1>3

LEMMA StatesOfRows ==
    ASSUME TypeOK, NEW n \in Numbers
    PROVE  ledger[n].state \in {"absent", "begun", "finished"}
  BY DEF TypeOK, Row

\* Rows that move take nothing back from the steps applied before.
LEMMA AppliedStands ==
    ASSUME TypeOK, AppliedIsKept, NEW n \in Numbers, Moved(n, ledger'[n]), applied'[n] = applied[n]
    PROVE  /\ ledger'[n].state = "begun" => applied'[n] = <<>>
           /\ n \in Present' => \A i \in 1..Len(applied'[n]) :
                 /\ applied'[n][i].class = ledger'[n].class
                 /\ applied'[n][i].by = "outcome" \/ applied'[n][i].by \in ledger'[n].ids \/ ledger'[n].terminal # "none"
                 /\ applied'[n][i].finding \in Terminal => ledger'[n].terminal # "none"
<1>0. ledger[n].state \in {"absent", "begun", "finished"}
  BY StatesOfRows
<1>1. CASE ledger[n].state = "absent"
  BY <1>1 DEF Moved, Present
<1>2. CASE ledger[n].state = "begun"
  <2>1. applied'[n] = <<>>
    BY <1>2 DEF AppliedIsKept
  <2>2. Len(applied'[n]) = 0
    BY <2>1
  <2> QED BY <2>1, <2>2
<1>3. CASE ledger[n].state = "finished"
  <2>1. n \in Present
    BY <1>3 DEF Present
  <2>2. \A i \in 1..Len(applied[n]) :
              /\ applied[n][i].class = ledger[n].class
              /\ applied[n][i].by = "outcome" \/ applied[n][i].by \in ledger[n].ids \/ ledger[n].terminal # "none"
              /\ applied[n][i].finding \in Terminal => ledger[n].terminal # "none"
    BY <2>1 DEF AppliedIsKept
  <2>3. /\ ledger'[n].state = "finished" /\ ledger'[n].class = ledger[n].class /\ ledger[n].ids \subseteq ledger'[n].ids
        /\ ledger[n].terminal # "none" => ledger'[n].terminal # "none"
    BY <1>3 DEF Moved
  <2> QED BY <2>2, <2>3
<1> QED BY <1>0, <1>1, <1>2, <1>3

LEMMA StepsStand ==
    ASSUME TypeOK, StepsPart, \A n \in Numbers : Moved(n, ledger'[n]),
           applied' = applied, settled' = settled, processed' = processed
    PROVE  StepsPart'
<1>1. AppliedIsKept'
  BY AppliedStands DEF StepsPart, AppliedIsKept
<1> QED BY <1>1 DEF StepsPart, StepOnce, TerminalIsLast, UnknownStaysOpen, SettledOnce

\* One step more.
LEMMA OneStepMore ==
    ASSUME TypeOK, StepsPart, \A n \in Numbers : Moved(n, ledger'[n]), NEW n \in Numbers, NEW e \in StepTaken,
           applied' = [applied EXCEPT ![n] = Append(applied[n], e)],
           ledger[n].state # "absent", ledger'[n].state = "finished", e.class = ledger'[n].class,
           ledger[n].terminal = "none" \/ applied[n] = <<>>,
           \A i \in 1..Len(applied[n]) : applied[n][i].by # e.by,
           e.finding \in Terminal => ledger'[n].terminal # "none",
           e.by = "outcome" \/ e.by \in ledger'[n].ids \/ ledger'[n].terminal # "none",
           e.class \in UnknownClasses /\ e.finding = "none" => e.step \in {"query", "reconcile"}
    PROVE  /\ AppliedIsKept' /\ StepOnce' /\ TerminalIsLast' /\ UnknownStaysOpen'
           /\ applied' \in [Numbers -> Seq(StepTaken)] /\ Len(applied'[n]) = Len(applied[n]) + 1
<1> DEFINE s == applied[n]
           t == Append(s, e)
           l == Len(s)
<1>0. applied \in [Numbers -> Seq(StepTaken)] /\ s \in Seq(StepTaken) /\ l \in Nat
  <2>1. applied \in [Numbers -> Seq(StepTaken)]
    BY AppliedType
  <2>2. s \in Seq(StepTaken)
    BY <2>1
  <2> QED BY <2>1, <2>2, LenProperties
<1>1. applied' \in [Numbers -> Seq(StepTaken)] /\ applied'[n] = t /\ \A k \in Numbers : k # n => applied'[k] = applied[k]
  BY <1>0
<1>2. Len(t) = l + 1 /\ t[l + 1] = e /\ \A i \in 1..l : t[i] = s[i]
  BY <1>0
<1>3. AppliedIsKept
  BY DEF StepsPart
<1>4. \A i \in 1..l : /\ s[i].class = ledger'[n].class
                      /\ s[i].by = "outcome" \/ s[i].by \in ledger'[n].ids \/ ledger'[n].terminal # "none"
                      /\ s[i].finding \notin Terminal
  <2>1. CASE s = <<>>
    <3>1. l = 0
      BY <2>1
    <3> QED BY <3>1
  <2>2. CASE s # <<>>
    <3>1. ledger[n].terminal = "none" /\ ledger[n].state = "finished" /\ n \in Present
      BY <1>3, <2>2, StatesOfRows DEF AppliedIsKept, Present
    <3>2. Moved(n, ledger'[n])
      OBVIOUS
    <3> QED BY <1>3, <3>1, <3>2 DEF AppliedIsKept, Moved
  <2> QED BY <2>1, <2>2
<1>5. \A i \in 1..l : s[i].by # e.by
  OBVIOUS
<1>6. \A i \in 1..l : \A j \in 1..l : s[i].by = s[j].by => i = j
  BY DEF StepsPart, StepOnce
<1>7. \A i \in 1..l : s[i].class \in UnknownClasses /\ s[i].finding = "none" => s[i].step \in {"query", "reconcile"}
  BY DEF StepsPart, UnknownStaysOpen
<1> HIDE DEF s, t, l
<1>8. \A i \in 1..l + 1 : i \in 1..l \/ i = l + 1
  BY <1>0
<1>9. AppliedIsKept'
  <2> SUFFICES ASSUME NEW k \in Numbers
               PROVE  /\ ledger'[k].state = "begun" => applied'[k] = <<>>
                      /\ k \in Present' => \A i \in 1..Len(applied'[k]) :
                           /\ applied'[k][i].class = ledger'[k].class
                           /\ applied'[k][i].by = "outcome" \/ applied'[k][i].by \in ledger'[k].ids \/ ledger'[k].terminal # "none"
                           /\ applied'[k][i].finding \in Terminal => ledger'[k].terminal # "none"
    BY DEF AppliedIsKept
  <2>1. CASE k # n
    BY <1>1, <1>3, <2>1, AppliedStands
  <2>2. CASE k = n
    <3>1. \A i \in 1..l + 1 :
             /\ t[i].class = ledger'[n].class
             /\ t[i].by = "outcome" \/ t[i].by \in ledger'[n].ids \/ ledger'[n].terminal # "none"
             /\ t[i].finding \in Terminal => ledger'[n].terminal # "none"
      BY <1>2, <1>4, <1>8
    <3> QED BY <1>1, <1>2, <2>2, <3>1
  <2> QED BY <2>1, <2>2
<1>10. StepOnce'
  <2> SUFFICES ASSUME NEW k \in Numbers, NEW i \in 1..Len(applied'[k]), NEW j \in 1..Len(applied'[k]),
                      applied'[k][i].by = applied'[k][j].by
               PROVE  i = j
    BY DEF StepOnce
  <2>1. CASE k # n
    BY <1>1, <2>1 DEF StepsPart, StepOnce
  <2>2. CASE k = n
    <3>1. \A a, b \in 1..l + 1 : t[a].by = t[b].by => a = b
      BY <1>2, <1>5, <1>6, <1>8
    <3> QED BY <1>1, <1>2, <2>2, <3>1
  <2> QED BY <2>1, <2>2
<1>11. TerminalIsLast'
  <2> SUFFICES ASSUME NEW k \in Numbers, NEW i \in 1..Len(applied'[k]), applied'[k][i].finding \in Terminal
               PROVE  i = Len(applied'[k])
    BY DEF TerminalIsLast
  <2>1. CASE k # n
    BY <1>1, <2>1 DEF StepsPart, TerminalIsLast
  <2>2. CASE k = n
    BY <1>1, <1>2, <1>4, <1>8, <2>2
  <2> QED BY <2>1, <2>2
<1>12. UnknownStaysOpen'
  <2> SUFFICES ASSUME NEW k \in Numbers, NEW i \in 1..Len(applied'[k]), applied'[k][i].class \in UnknownClasses,
                      applied'[k][i].finding = "none"
               PROVE  applied'[k][i].step \in {"query", "reconcile"}
    BY DEF UnknownStaysOpen
  <2>1. CASE k # n
    BY <1>1, <2>1 DEF StepsPart, UnknownStaysOpen
  <2>2. CASE k = n
    BY <1>1, <1>2, <1>7, <1>8, <2>2
  <2> QED BY <2>1, <2>2
<1> QED BY <1>1, <1>2, <1>9, <1>10, <1>11, <1>12 DEF s, l

-----------------------------------------------------------------------------
(* The calm steps: they keep the types, the ledger and the steps applied.  *)

LEMMA Parts ==
    ASSUME AttemptInv
    PROVE  /\ TypeOK /\ LedgerPart /\ StepsPart /\ WorkersAreSound /\ NumbersAreLeft /\ RowsAreSound
           /\ BegunIsLast /\ InsertIsNext /\ AppliedIsKept /\ SettledOnce
           /\ now \in Nat /\ deliveries \in Nat
<1>1. TypeOK /\ LedgerPart /\ StepsPart
  BY DEF AttemptInv
<1>2. now \in 0..MaxClock /\ deliveries \in 0..MaxDeliveries
  BY <1>1 DEF TypeOK
<1>3. now \in Nat /\ deliveries \in Nat
  BY <1>2, ExternalAssumption
<1>4. WorkersAreSound /\ NumbersAreLeft /\ RowsAreSound /\ BegunIsLast /\ InsertIsNext
  BY <1>1 DEF LedgerPart
<1>5. AppliedIsKept /\ SettledOnce
  BY <1>1 DEF StepsPart
<1> QED BY <1>1, <1>3, <1>4, <1>5

LEMMA WorkerFacts ==
    ASSUME AttemptInv, NEW w \in Workers
    PROVE  /\ worker \in [Workers -> Worker] /\ worker[w] \in Worker /\ worker[w].stage \in Stages
           /\ worker[w].since \in Nat /\ worker[w].round \in Nat /\ worker[w].n \in Nat
           /\ worker[w].class \in Classes \cup {"none"} /\ worker[w].obs \in Observations \cup {NoObservation}
           /\ worker[w].owned \in BOOLEAN /\ worker[w].presumed \in BOOLEAN
           /\ worker[w].stage \in {"insert", "call", "record", "settle"} => worker[w].n \in Numbers
           /\ worker[w].stage \in {"record", "settle"} => worker[w].class \in Classes
           /\ worker[w].stage # "idle" => worker[w].msg \in Messages
<1>1. worker \in [Workers -> Worker] /\ worker[w] \in Worker /\ WorkersAreSound
  BY Parts DEF TypeOK
<1> QED BY <1>1 DEF Worker, WorkersAreSound

LEMMA OneRow ==
    ASSUME AttemptInv, NEW n \in Numbers, NEW r, Moved(n, r), ledger' = [ledger EXCEPT ![n] = r]
    PROVE  /\ \A k \in Numbers : Moved(k, ledger'[k])
           /\ ledger' \in [Numbers -> Row] /\ ledger'[n] = r
<1>1. ledger \in [Numbers -> Row] /\ TypeOK /\ RowsAreSound
  BY Parts DEF TypeOK
<1>2. r \in Row
  BY DEF Moved
<1>3. ledger' \in [Numbers -> Row] /\ ledger'[n] = r /\ \A k \in Numbers : k # n => ledger'[k] = ledger[k]
  BY <1>1, <1>2
<1> QED BY <1>1, <1>3, Unmoved

LEMMA RowsStand ==
    ASSUME AttemptInv, ledger' = ledger
    PROVE  /\ \A k \in Numbers : Moved(k, ledger'[k])
           /\ ledger' \in [Numbers -> Row]
<1>1. ledger \in [Numbers -> Row] /\ TypeOK /\ RowsAreSound
  BY Parts DEF TypeOK
<1> QED BY <1>1, Unmoved

\* The types after a calm step.
LEMMA TypesStand ==
    ASSUME AttemptInv, Calm, ledger' \in [Numbers -> Row], processed' \subseteq Messages, sweeping' \in Numbers \cup {0},
           applied' \in [Numbers -> Seq(StepTaken)], settled' \in [Messages -> Nat], resent' \subseteq Messages,
           upsets' \in 0..MaxUpsets
    PROVE  TypeOK'
<1>1. \A n \in Numbers : ledger'[n].state = "finished" <=> ledger'[n].class # "none"
  BY DEF Calm, Moved
<1>2. now' \in 0..MaxClock /\ deliveries' \in 0..MaxDeliveries /\ straddled' \in BOOLEAN
  BY Parts DEF Calm, TypeOK
<1>3. worker' \in [Workers -> Worker]
  BY DEF Calm
<1> QED BY <1>1, <1>2, <1>3, Zenon DEF TypeOK, StepTaken

\* A handler that goes on, or returns, and nothing else.
LEMMA OnlyTheWorker ==
    ASSUME AttemptInv, NEW w \in Workers, NEW v, Follows(v, worker[w]), worker' = [worker EXCEPT ![w] = v],
           UNCHANGED <<now, ledger, processed, sweeping, applied, settled, resent, straddled, deliveries>>,
           upsets' \in 0..MaxUpsets
    PROVE  Calm /\ TypeOK' /\ StepsPart'
<1>1. Calm
  BY Parts, WorkerMoves, RowsStand DEF Calm
<1>2. StepsPart'
  BY Parts, RowsStand, StepsStand
<1>3. TypeOK'
  <2>1. /\ processed \subseteq Messages /\ sweeping \in Numbers \cup {0} /\ settled \in [Messages -> Nat]
        /\ resent \subseteq Messages
    BY Parts DEF TypeOK
  <2>2. applied' \in [Numbers -> Seq(StepTaken)]
    BY Parts, AppliedType
  <2> QED BY <1>1, <2>1, <2>2, RowsStand, TypesStand
<1> QED BY <1>1, <1>2, <1>3

LEMMA UpsetsStand ==
    ASSUME AttemptInv
    PROVE  upsets \in 0..MaxUpsets /\ (upsets < MaxUpsets => upsets + 1 \in 0..MaxUpsets)
  BY Parts, ExternalAssumption DEF TypeOK

LEMMA SelectDoneKeeps ==
    ASSUME AttemptInv, NEW w \in Workers, SelectDone(w)
    PROVE  Calm /\ TypeOK' /\ StepsPart'
<1> DEFINE done == DoneAttempts(worker[w].msg)
           k == Max(done)
<1>0. worker[w] \in Worker /\ worker[w].stage = "done" /\ upsets' \in 0..MaxUpsets
      /\ UNCHANGED <<now, ledger, processed, sweeping, applied, settled, resent, straddled, deliveries>>
  BY WorkerFacts, UpsetsStand DEF SelectDone
<1>1. CASE done = {}
  <2> DEFINE v == [worker[w] EXCEPT !.stage = "last"]
  <2>1. worker' = [worker EXCEPT ![w] = v]
    BY <1>1 DEF SelectDone
  <2>2. Follows(v, worker[w])
    BY <1>0 DEF Follows, Tame, Worker, Stages
  <2> HIDE DEF v
  <2> QED BY <1>0, <2>1, <2>2, OnlyTheWorker
<1>2. CASE done # {}
  <2> DEFINE c == ledger[k].class
             v == [worker[w] EXCEPT !.stage = "settle", !.n = k, !.class = c]
  <2>1. worker' = [worker EXCEPT ![w] = v]
    BY <1>2 DEF SelectDone
  <2>2. done \in SUBSET Numbers
    BY DEF DoneAttempts
  <2>3. k \in done
    BY <1>2, <2>2, GreatestOfNumbers
  <2>4. k \in Numbers /\ ledger[k].state = "finished"
    BY <2>3 DEF DoneAttempts
  <2>5. c \in Classes /\ c # "none"
    BY <2>4, Parts, RowFacts DEF Row
  <2>6. k \in Nat
    BY <2>4, ExternalAssumption DEF Numbers
  <2> HIDE DEF c, k
  <2>7. v \in Worker /\ v.stage = "settle" /\ v.n = k /\ v.class = c /\ v.msg = worker[w].msg /\ v.since = worker[w].since
    BY <1>0, <2>5, <2>6 DEF Worker, Stages
  <2> HIDE DEF v
  <2>8. Follows(v, worker[w])
    BY <1>0, <2>4, <2>5, <2>7 DEF Follows, Tame
  <2> QED BY <1>0, <2>1, <2>8, OnlyTheWorker
<1> QED BY <1>1, <1>2

\* A handler that returns.
LEMMA Returns ==
    ASSUME AttemptInv, NEW w \in Workers, Return(w),
           UNCHANGED <<now, ledger, processed, sweeping, applied, settled, resent, straddled, deliveries>>,
           upsets' \in 0..MaxUpsets
    PROVE  Calm /\ TypeOK' /\ StepsPart'
<1>1. worker' = [worker EXCEPT ![w] = Idle] /\ Follows(Idle, worker[w])
  BY IdleFollows DEF Return
<1> QED BY <1>1, OnlyTheWorker

LEMMA SettleUnknownKeeps ==
    ASSUME AttemptInv, NEW w \in Workers, SettleUnknown(w)
    PROVE  Calm /\ TypeOK' /\ StepsPart'
  BY UpsetsStand, Returns DEF SettleUnknown

LEMMA FailKeeps ==
    ASSUME AttemptInv, NEW w \in Workers, Fail(w)
    PROVE  Calm /\ TypeOK' /\ StepsPart'
  BY UpsetsStand, Returns DEF Fail

LEMMA SubmitKeeps ==
    ASSUME AttemptInv, NEW w \in Workers, Submit(w)
    PROVE  Calm /\ TypeOK' /\ StepsPart'
<1>0. worker[w] \in Worker /\ worker[w].stage = "call" /\ worker[w].n \in Numbers /\ upsets' \in 0..MaxUpsets
      /\ UNCHANGED <<now, ledger, processed, sweeping, applied, settled, resent, straddled, deliveries>>
  BY WorkerFacts, UpsetsStand DEF Submit
<1>1. PICK reply \in Replies :
          LET class == IF reply.class = "none" THEN "unknown_ambiguous" ELSE reply.class
          IN  worker' = [worker EXCEPT ![w] = [@ EXCEPT !.stage = IF class \in RetryableClasses THEN "record" ELSE "settle",
                                                        !.class = class, !.obs = reply.obs]]
  BY Zenon DEF Submit
<1> DEFINE c == IF reply.class = "none" THEN "unknown_ambiguous" ELSE reply.class
           g == IF c \in RetryableClasses THEN "record" ELSE "settle"
           v == [worker[w] EXCEPT !.stage = g, !.class = c, !.obs = reply.obs]
<1>2. worker' = [worker EXCEPT ![w] = v]
  BY <1>1
<1>3. c \in Classes /\ c # "none" /\ reply.obs \in Observations \cup {NoObservation} /\ g \in {"record", "settle"}
  BY ExternalAssumption, Kinds
<1> HIDE DEF c, g
<1>4. /\ v \in Worker /\ v.stage = g /\ v.n = worker[w].n /\ v.class = c /\ v.msg = worker[w].msg
      /\ v.since = worker[w].since
  BY <1>0, <1>3 DEF Worker, Stages
<1> HIDE DEF v
<1>5. Follows(v, worker[w])
  BY <1>0, <1>3, <1>4 DEF Follows, Tame
<1> QED BY <1>0, <1>2, <1>5, OnlyTheWorker

\* A handler past the stale cutoff of a begun attempt settles it, within it returns.
LEMMA ResumeKeeps ==
    ASSUME AttemptInv, NEW w \in Workers, SelectLast(w), LastAttempt \in Numbers, ledger[LastAttempt].state = "begun"
    PROVE  Calm /\ TypeOK' /\ StepsPart'
<1> DEFINE k == LastAttempt
           v == [worker[w] EXCEPT !.stage = "settle", !.n = k, !.class = "unknown_sent", !.owned = TRUE, !.presumed = TRUE]
<1>0. worker[w] \in Worker /\ worker[w].stage = "last" /\ upsets' \in 0..MaxUpsets
      /\ UNCHANGED <<now, ledger, processed, sweeping, applied, settled, resent, straddled, deliveries>>
  BY WorkerFacts, UpsetsStand DEF SelectLast
<1>1. Return(w) \/ worker' = [worker EXCEPT ![w] = v]
  BY DEF SelectLast
<1>2. k \in Numbers /\ k \in Nat
  BY ExternalAssumption DEF Numbers
<1> HIDE DEF k
<1>3. /\ v \in Worker /\ v.stage = "settle" /\ v.n = k /\ v.class = "unknown_sent" /\ v.msg = worker[w].msg
      /\ v.since = worker[w].since
  BY <1>0, <1>2, Kinds DEF Worker, Stages
<1> HIDE DEF v
<1>4. Follows(v, worker[w])
  BY <1>0, <1>2, <1>3 DEF Follows, Tame
<1> QED BY <1>0, <1>1, <1>4, OnlyTheWorker, Returns

\* The insert that finds its number taken.
LEMMA LostRaceKeeps ==
    ASSUME AttemptInv, NEW w \in Workers, Insert(w), ledger[worker[w].n].state # "absent"
    PROVE  Calm /\ TypeOK' /\ StepsPart'
<1> DEFINE q == worker[w].round + 1
           v == [worker[w] EXCEPT !.stage = "done", !.n = 0, !.round = q]
<1>0. worker[w] \in Worker /\ worker[w].stage = "insert" /\ q \in Nat
  BY WorkerFacts DEF Insert
<1>1. UNCHANGED <<now, ledger, processed, sweeping, applied, settled, resent, straddled, deliveries>>
  BY DEF Insert
<1>2. upsets' \in 0..MaxUpsets
  BY UpsetsStand DEF Insert
<1>3. worker' = [worker EXCEPT ![w] = IF worker[w].round < BeginRounds THEN v ELSE Idle]
  BY DEF Insert
<1> HIDE DEF q
<1>4. v \in Worker /\ v.stage = "done" /\ v.msg = worker[w].msg /\ v.since = worker[w].since
  BY <1>0 DEF Worker, Stages
<1> HIDE DEF v
<1>5. Follows(v, worker[w])
  BY <1>0, <1>4 DEF Follows, Tame
<1>6. CASE worker[w].round < BeginRounds
  <2>1. worker' = [worker EXCEPT ![w] = v]
    BY <1>3, <1>6
  <2> QED BY <1>1, <1>2, <1>5, <2>1, OnlyTheWorker
<1>7. CASE ~(worker[w].round < BeginRounds)
  <2>1. worker' = [worker EXCEPT ![w] = Idle]
    BY <1>3, <1>7
  <2> QED BY <1>1, <1>2, <2>1, IdleFollows, OnlyTheWorker
<1> QED BY <1>6, <1>7

\* A handler moves, and the row of one attempt with it; no step is applied.
LEMMA WorkerAndRow ==
    ASSUME AttemptInv, NEW w \in Workers, NEW v, Follows(v, worker[w]), worker' = [worker EXCEPT ![w] = v],
           \A n \in Numbers : Moved(n, ledger'[n]), ledger' \in [Numbers -> Row],
           UNCHANGED <<now, processed, sweeping, applied, settled, resent, straddled, deliveries, upsets>>
    PROVE  Calm /\ TypeOK' /\ StepsPart'
<1>1. Calm
  BY Parts, WorkerMoves DEF Calm
<1>2. StepsPart'
  BY Parts, StepsStand
<1>3. TypeOK'
  <2>1. /\ processed \subseteq Messages /\ sweeping \in Numbers \cup {0} /\ settled \in [Messages -> Nat]
        /\ resent \subseteq Messages /\ upsets \in 0..MaxUpsets
    BY Parts DEF TypeOK
  <2>2. applied' \in [Numbers -> Seq(StepTaken)]
    BY Parts, AppliedType
  <2> QED BY <1>1, <2>1, <2>2, TypesStand
<1> QED BY <1>1, <1>2, <1>3

LEMMA RecordRetryableKeeps ==
    ASSUME AttemptInv, NEW w \in Workers, RecordRetryable(w)
    PROVE  Calm /\ TypeOK' /\ StepsPart'
<1> DEFINE n == worker[w].n
           r == FinishedRow(n, worker[w].class, worker[w].obs, FALSE)
           c == ledger[n].class
           v == [worker[w] EXCEPT !.stage = "settle", !.class = c]
           result == FinishResult(n, worker[w].class, FALSE)
<1>0. /\ worker[w] \in Worker /\ worker[w].stage = "record" /\ n \in Numbers /\ worker[w].class \in Classes
      /\ worker[w].obs \in Observations \cup {NoObservation}
  BY WorkerFacts DEF RecordRetryable
<1>1. ledger' = [ledger EXCEPT ![n] = r]
  BY DEF RecordRetryable
<1>2. Moved(n, r) /\ (result = "unknown" <=> ledger[n].state = "absent") /\ (result = "recorded" <=> ledger[n].state = "begun")
  BY <1>0, Parts, FinishedRowFacts
<1>3. (\A k \in Numbers : Moved(k, ledger'[k])) /\ ledger' \in [Numbers -> Row]
  <2> HIDE DEF r
  <2> QED BY <1>0, <1>1, <1>2, OneRow
<1>4. UNCHANGED <<now, processed, sweeping, applied, settled, resent, straddled, deliveries, upsets>>
  BY DEF RecordRetryable
<1>5. IF result \in {"unchanged", "conflict", "saturated"} /\ c \notin RetryableClasses
      THEN worker' = [worker EXCEPT ![w] = v] ELSE Return(w)
  BY DEF RecordRetryable
<1>6. c \in Classes \cup {"none"} /\ ledger[n].state \in {"absent", "begun", "finished"}
      /\ (ledger[n].state = "finished" => c # "none")
  BY <1>0, Parts, RowFacts DEF Row
<1> HIDE DEF result, c, r
<1>7. CASE result \in {"unchanged", "conflict", "saturated"} /\ c \notin RetryableClasses
  <2>1. c # "none"
    BY <1>2, <1>6, <1>7
  <2>2. v \in Worker /\ v.stage = "settle" /\ v.n = n /\ v.class = c /\ v.msg = worker[w].msg /\ v.since = worker[w].since
    BY <1>0, <1>6 DEF Worker, Stages
  <2>3. worker' = [worker EXCEPT ![w] = v]
    BY <1>5, <1>7
  <2> HIDE DEF v
  <2>4. Follows(v, worker[w])
    BY <1>0, <2>1, <2>2 DEF Follows, Tame
  <2> QED BY <1>3, <1>4, <2>3, <2>4, WorkerAndRow
<1>8. CASE ~(result \in {"unchanged", "conflict", "saturated"} /\ c \notin RetryableClasses)
  <2>1. worker' = [worker EXCEPT ![w] = Idle]
    BY <1>5, <1>8 DEF Return
  <2> QED BY <1>3, <1>4, <2>1, IdleFollows, WorkerAndRow
<1> QED BY <1>7, <1>8

LEMMA SettleRepeatKeeps ==
    ASSUME AttemptInv, NEW w \in Workers, SettleRepeat(w)
    PROVE  Calm /\ TypeOK' /\ StepsPart'
<1> DEFINE n == worker[w].n
           r == FinishedRow(n, worker[w].class, worker[w].obs, worker[w].presumed)
<1>0. /\ worker[w] \in Worker /\ worker[w].stage = "settle" /\ n \in Numbers /\ worker[w].class \in Classes
      /\ worker[w].obs \in Observations \cup {NoObservation} /\ worker[w].presumed \in BOOLEAN
  BY WorkerFacts DEF SettleRepeat
<1>1. ledger' = [ledger EXCEPT ![n] = r] \/ ledger' = ledger
  BY DEF SettleRepeat
<1>2. Moved(n, r)
  BY <1>0, Parts, FinishedRowFacts
<1> HIDE DEF r
<1>3. (\A k \in Numbers : Moved(k, ledger'[k])) /\ ledger' \in [Numbers -> Row]
  BY <1>0, <1>1, <1>2, OneRow, RowsStand
<1>4. /\ UNCHANGED <<now, processed, sweeping, applied, settled, resent, straddled, deliveries, upsets>>
      /\ worker' = [worker EXCEPT ![w] = Idle]
  BY DEF SettleRepeat, Return
<1> QED BY <1>3, <1>4, IdleFollows, WorkerAndRow

\* The outcome of an attempt and the step it decides, applied with it or not at all.
LEMMA FinishApplies ==
    ASSUME AttemptInv, NEW n \in Numbers, NEW class \in Classes, NEW o \in Observations \cup {NoObservation},
           NEW presumed \in BOOLEAN,
           ledger' = [ledger EXCEPT ![n] = FinishedRow(n, class, o, presumed)],
           applied' = [applied EXCEPT ![n] = AppliedByFinish(n, class, o, presumed)]
    PROVE  /\ \A k \in Numbers : Moved(k, ledger'[k])
           /\ ledger' \in [Numbers -> Row] /\ applied' \in [Numbers -> Seq(StepTaken)]
           /\ AppliedIsKept' /\ StepOnce' /\ TerminalIsLast' /\ UnknownStaysOpen'
           /\ Len(applied[n]) \in Nat
           /\ Len(applied'[n]) = Len(applied[n]) \/ Len(applied'[n]) = Len(applied[n]) + 1
<1> DEFINE r == FinishedRow(n, class, o, presumed)
           e == [by |-> "outcome", class |-> class, finding |-> FoundBy(o), step |-> NextStep(class, FoundBy(o), 0)]
<1>0. applied \in [Numbers -> Seq(StepTaken)] /\ TypeOK /\ RowsAreSound /\ StepsPart /\ AppliedIsKept
  BY Parts, AppliedType
<1>1. /\ Moved(n, r) /\ (FinishResult(n, class, presumed) = "recorded" <=> ledger[n].state = "begun")
      /\ ledger[n].state = "begun" => r.state = "finished" /\ r.class = class /\ r.terminal = TerminalOf(o)
  <2>1. Moved(n, r)
    BY <1>0, FinishedRowFacts
  <2>2. FinishResult(n, class, presumed) = "recorded" <=> ledger[n].state = "begun"
    BY <1>0, FinishedRowFacts
  <2>3. ledger[n].state = "begun" => r.state = "finished" /\ r.class = class /\ r.terminal = TerminalOf(o)
    BY <1>0, FinishedRowFacts
  <2> QED BY <2>1, <2>2, <2>3
<1>2. ledger' = [ledger EXCEPT ![n] = r]
  OBVIOUS
<1> HIDE DEF r
<1>3. (\A k \in Numbers : Moved(k, ledger'[k])) /\ ledger' \in [Numbers -> Row] /\ ledger'[n] = r
  BY <1>1, <1>2, OneRow
<1>4. Len(applied[n]) \in Nat
  BY <1>0, LenProperties
<1>5. CASE ledger[n].state = "begun"
  <2>1. applied' = [applied EXCEPT ![n] = Append(applied[n], e)]
    BY <1>1, <1>5 DEF AppliedByFinish
  <2>2. /\ FoundBy(o) \in Findings \cup {"none"} /\ (FoundBy(o) \in Terminal => TerminalOf(o) # "none")
        /\ NextStep(class, FoundBy(o), 0) \in Steps
        /\ class \in UnknownClasses /\ FoundBy(o) = "none" => NextStep(class, FoundBy(o), 0) \in {"query", "reconcile"}
    BY TerminalType, NextStepFacts
  <2>3. e \in StepTaken /\ e.by = "outcome" /\ e.class = class /\ e.finding = FoundBy(o) /\ e.step = NextStep(class, FoundBy(o), 0)
    BY <2>2 DEF StepTaken
  <2> HIDE DEF e
  <2>4. applied[n] = <<>>
    BY <1>0, <1>5 DEF AppliedIsKept
  <2>5. \A i \in 1..Len(applied[n]) : applied[n][i].by # e.by
    <3>1. Len(applied[n]) = 0
      BY <2>4
    <3> QED BY <3>1
  <2>6. /\ ledger[n].state # "absent" /\ ledger'[n].state = "finished" /\ e.class = ledger'[n].class
        /\ e.finding \in Terminal => ledger'[n].terminal # "none"
    BY <1>1, <1>3, <1>5, <2>2, <2>3
  <2>7. e.class \in UnknownClasses /\ e.finding = "none" => e.step \in {"query", "reconcile"}
    BY <2>2, <2>3
  <2> QED BY <1>0, <1>3, <1>4, <2>1, <2>3, <2>4, <2>5, <2>6, <2>7, OneStepMore
<1>6. CASE ledger[n].state # "begun"
  <2>1. applied' = [applied EXCEPT ![n] = applied[n]]
    BY <1>1, <1>6 DEF AppliedByFinish
  <2>2. applied' = applied
    BY <1>0, <2>1
  <2>3. AppliedIsKept'
    BY <1>0, <1>3, <2>2, AppliedStands DEF AppliedIsKept
  <2>4. StepOnce' /\ TerminalIsLast' /\ UnknownStaysOpen'
    BY <1>0, <2>2 DEF StepsPart, StepOnce, TerminalIsLast, UnknownStaysOpen
  <2> QED BY <1>0, <1>3, <1>4, <2>2, <2>3, <2>4
<1> QED BY <1>5, <1>6

LEMMA SettleFirstKeeps ==
    ASSUME AttemptInv, NEW w \in Workers, SettleFirst(w)
    PROVE  Calm /\ TypeOK' /\ StepsPart'
<1> DEFINE n == worker[w].n
           m == worker[w].msg
           l == Len(applied[n])
           k == Len(applied'[n])
           x == settled[m] + k - l
<1>0. /\ worker[w] \in Worker /\ worker[w].stage = "settle" /\ n \in Numbers /\ worker[w].class \in Classes
      /\ worker[w].obs \in Observations \cup {NoObservation} /\ worker[w].presumed \in BOOLEAN /\ m \in Messages
  BY WorkerFacts DEF SettleFirst
<1>1. /\ ledger' = [ledger EXCEPT ![n] = FinishedRow(n, worker[w].class, worker[w].obs, worker[w].presumed)]
      /\ applied' = [applied EXCEPT ![n] = AppliedByFinish(n, worker[w].class, worker[w].obs, worker[w].presumed)]
      /\ settled' = [settled EXCEPT ![m] = x]
      /\ processed' = processed \cup {m} /\ m \notin processed
  BY DEF SettleFirst
<1>2. UNCHANGED <<now, sweeping, resent, straddled, deliveries, upsets>> /\ worker' = [worker EXCEPT ![w] = Idle]
  BY DEF SettleFirst, Return
<1>3. /\ \A j \in Numbers : Moved(j, ledger'[j])
      /\ ledger' \in [Numbers -> Row] /\ applied' \in [Numbers -> Seq(StepTaken)]
      /\ AppliedIsKept' /\ StepOnce' /\ TerminalIsLast' /\ UnknownStaysOpen'
      /\ l \in Nat /\ (k = l \/ k = l + 1)
  BY <1>0, <1>1, FinishApplies
<1>4. Calm
  BY <1>2, <1>3, IdleFollows, Parts, WorkerMoves DEF Calm
<1>5. settled[m] = 0 /\ settled \in [Messages -> Nat] /\ processed \subseteq Messages
  BY <1>0, <1>1, Parts DEF SettledOnce, TypeOK
<1> HIDE DEF l, k
<1>6. x \in Nat /\ x <= 1
  BY <1>3, <1>5
<1> HIDE DEF x, m
<1>7. settled' \in [Messages -> Nat] /\ settled'[m] = x /\ \A j \in Messages : j # m => settled'[j] = settled[j]
  BY <1>0, <1>1, <1>5, <1>6
<1>8. SettledOnce'
  <2> SUFFICES ASSUME NEW j \in Messages
               PROVE  settled'[j] <= 1 /\ (j \notin processed' => settled'[j] = 0)
    BY DEF SettledOnce
  <2>1. CASE j = m
    BY <1>1, <1>6, <1>7, <2>1
  <2>2. CASE j # m
    <3>1. settled[j] <= 1 /\ (j \notin processed => settled[j] = 0)
      BY Parts DEF SettledOnce
    <3> QED BY <1>1, <1>7, <2>2, <3>1
  <2> QED BY <2>1, <2>2
<1>9. StepsPart'
  BY <1>3, <1>8 DEF StepsPart
<1>10. TypeOK'
  <2>1. sweeping' \in Numbers \cup {0} /\ resent' \subseteq Messages /\ upsets' \in 0..MaxUpsets
    BY <1>2, Parts DEF TypeOK
  <2>2. processed' \subseteq Messages
    BY <1>0, <1>1, <1>5 DEF m
  <2> QED BY <1>3, <1>4, <1>7, <2>1, <2>2, TypesStand
<1> QED BY <1>4, <1>9, <1>10

LEMMA SweepCloseKeeps ==
    ASSUME AttemptInv, SweepClose
    PROVE  Calm /\ TypeOK' /\ StepsPart'
<1>0. sweeping \in Numbers /\ "unknown_sent" \in Classes /\ NoObservation \in Observations \cup {NoObservation}
  BY Parts, Kinds DEF TypeOK, SweepClose
<1>1. /\ ledger' = [ledger EXCEPT ![sweeping] = FinishedRow(sweeping, "unknown_sent", NoObservation, TRUE)]
      /\ applied' = [applied EXCEPT ![sweeping] = AppliedByFinish(sweeping, "unknown_sent", NoObservation, TRUE)]
  BY DEF SweepClose
<1>2. sweeping' = 0 /\ UNCHANGED <<now, processed, worker, settled, resent, straddled, deliveries, upsets>>
  BY DEF SweepClose
<1>3. /\ \A j \in Numbers : Moved(j, ledger'[j])
      /\ ledger' \in [Numbers -> Row] /\ applied' \in [Numbers -> Seq(StepTaken)]
      /\ AppliedIsKept' /\ StepOnce' /\ TerminalIsLast' /\ UnknownStaysOpen'
  BY <1>0, <1>1, FinishApplies
<1>4. Calm
  BY <1>2, <1>3, Parts, WorkersStand DEF Calm
<1>5. StepsPart'
  BY <1>2, <1>3, Parts DEF StepsPart, SettledOnce
<1>6. processed' \subseteq Messages /\ settled' \in [Messages -> Nat] /\ resent' \subseteq Messages /\ upsets' \in 0..MaxUpsets
  BY <1>2, Parts DEF TypeOK
<1>7. sweeping' \in Numbers \cup {0}
  BY <1>2
<1> QED BY <1>3, <1>4, <1>5, <1>6, <1>7, TypesStand

LEMMA ObserveKeeps ==
    ASSUME AttemptInv, NEW o \in Observations, Observe(o)
    PROVE  Calm /\ TypeOK' /\ StepsPart'
<1> DEFINE n == LastAttempt
           r == ObservedRow(n, o)
           e == [by |-> o, class |-> r.class, finding |-> FindingOf[o], step |-> NextStep(r.class, FindingOf[o], r.queries)]
<1>0. n \in Numbers /\ ledger[n].state = "finished" /\ n \in Present
  BY LastFacts DEF Observe, Present
<1>1. /\ ledger' = [ledger EXCEPT ![n] = r]
      /\ applied' = IF ObserveResult(n, o) = "recorded"
                    THEN [applied EXCEPT ![n] = Append(applied[n], e)] ELSE applied
  BY DEF Observe
<1>2. UNCHANGED <<now, processed, worker, sweeping, settled, resent, straddled, deliveries, upsets>>
  BY DEF Observe
<1>3. /\ Moved(n, r) /\ r.class = ledger[n].class /\ r.queries \in Nat
      /\ ObserveResult(n, o) = "recorded" =>
            /\ o \notin ledger[n].ids /\ ledger[n].terminal = "none"
            /\ o \in r.ids \/ r.terminal # "none"
            /\ FindingOf[o] \in Terminal => r.terminal # "none"
  BY <1>0, Parts, ObservedRowFacts
<1>4. ledger[n].class \in Classes
  BY <1>0, Parts, RowFacts DEF Row
<1> HIDE DEF r, n
<1>5. (\A k \in Numbers : Moved(k, ledger'[k])) /\ ledger' \in [Numbers -> Row] /\ ledger'[n] = r
  BY <1>0, <1>1, <1>3, OneRow
<1>6. Calm
  BY <1>2, <1>5, Parts, WorkersStand DEF Calm
<1>7. /\ processed' \subseteq Messages /\ settled' \in [Messages -> Nat] /\ resent' \subseteq Messages
      /\ upsets' \in 0..MaxUpsets /\ sweeping' \in Numbers \cup {0}
  BY <1>2, Parts DEF TypeOK
<1>8. CASE ObserveResult(n, o) # "recorded"
  <2>1. applied' = applied
    BY <1>1, <1>8
  <2>2. StepsPart'
    BY <1>2, <1>5, <2>1, Parts, StepsStand
  <2>3. applied' \in [Numbers -> Seq(StepTaken)]
    BY <2>1, Parts, AppliedType
  <2> QED BY <1>5, <1>6, <1>7, <2>2, <2>3, TypesStand
<1>9. CASE ObserveResult(n, o) = "recorded"
  <2>1. applied' = [applied EXCEPT ![n] = Append(applied[n], e)]
    BY <1>1, <1>9
  <2>2. FindingOf[o] \in Findings /\ FindingOf[o] # "none" /\ r.class \in Classes
    BY <1>3, <1>4, ExternalAssumption, Kinds
  <2>3. NextStep(r.class, FindingOf[o], r.queries) \in Steps
    BY <2>2, NextStepFacts
  <2>4. e \in StepTaken /\ e.by = o /\ e.class = r.class /\ e.finding = FindingOf[o]
    BY <2>2, <2>3 DEF StepTaken
  <2> HIDE DEF e
  <2>5. \A i \in 1..Len(applied[n]) : applied[n][i].by # e.by
    <3>1. o # "outcome"
      BY ExternalAssumption
    <3> QED BY <1>0, <1>3, <1>9, <2>4, <3>1, Parts DEF AppliedIsKept
  <2>6. /\ ledger[n].state # "absent" /\ ledger'[n].state = "finished" /\ e.class = ledger'[n].class
        /\ ledger[n].terminal = "none"
    BY <1>0, <1>3, <1>5, <1>9, <2>4 DEF Moved
  <2>7. /\ e.finding \in Terminal => ledger'[n].terminal # "none"
        /\ e.by \in ledger'[n].ids \/ ledger'[n].terminal # "none"
        /\ e.finding # "none"
    BY <1>3, <1>5, <1>9, <2>2, <2>4
  <2>8. AppliedIsKept' /\ StepOnce' /\ TerminalIsLast' /\ UnknownStaysOpen' /\ applied' \in [Numbers -> Seq(StepTaken)]
    BY <1>0, <1>5, <2>1, <2>4, <2>5, <2>6, <2>7, Parts, OneStepMore
  <2>9. StepsPart'
    BY <1>2, <2>8, Parts DEF StepsPart, SettledOnce
  <2> QED BY <1>5, <1>6, <1>7, <2>8, <2>9, TypesStand
<1> QED BY <1>8, <1>9

LEMMA SweepKeeps ==
    ASSUME AttemptInv, SweepList \/ SweepFail \/ UNCHANGED vars
    PROVE  Calm /\ TypeOK' /\ StepsPart'
<1>1. /\ UNCHANGED <<now, ledger, processed, worker, applied, settled, resent, straddled, deliveries>>
      /\ sweeping' \in Numbers \cup {0} /\ upsets' \in 0..MaxUpsets
  BY Parts, UpsetsStand DEF SweepList, SweepFail, TypeOK, vars
<1>2. Calm
  BY <1>1, Parts, RowsStand, WorkersStand DEF Calm
<1>3. StepsPart'
  BY <1>1, Parts, RowsStand, StepsStand
<1>4. processed' \subseteq Messages /\ settled' \in [Messages -> Nat] /\ resent' \subseteq Messages
  BY <1>1, Parts DEF TypeOK
<1>5. applied' \in [Numbers -> Seq(StepTaken)]
  BY <1>1, Parts, AppliedType
<1> QED BY <1>1, <1>2, <1>3, <1>4, <1>5, RowsStand, TypesStand

-----------------------------------------------------------------------------
(* The steps that are not calm: a delivery, the choice of a number, the    *)
(* insert that wins, a purge and the clock.                                *)

LEMMA WaitingFacts ==
    ASSUME AttemptInv
    PROVE  /\ IsFiniteSet(Waiting) /\ Cardinality(Waiting) \in Nat /\ Cardinality(Waiting) <= deliveries
           /\ \A n \in Present : n \in Nat /\ n + Cardinality(Waiting) <= deliveries
           /\ \A w \in Workers : worker[w].stage = "insert" =>
                 worker[w].n \in Nat /\ worker[w].n - 1 + Cardinality(Waiting) <= deliveries
           /\ \A w \in Waiting : 1 <= Cardinality(Waiting)
<1>1. IsFiniteSet(Waiting) /\ Cardinality(Waiting) <= deliveries
  BY Parts DEF NumbersAreLeft
<1>2. Cardinality(Waiting) \in Nat
  BY <1>1, FS_CardinalityType
<1>3. \A n \in Present : n \in Nat /\ n + Cardinality(Waiting) <= deliveries
  BY Parts DEF NumbersAreLeft, Present, Numbers
<1>4. \A w \in Workers : worker[w].stage = "insert" =>
         worker[w].n \in Nat /\ worker[w].n - 1 + Cardinality(Waiting) <= deliveries
  BY Parts, WorkerFacts DEF NumbersAreLeft
<1>5. ASSUME NEW w \in Waiting PROVE 1 <= Cardinality(Waiting)
  <2>1. Cardinality(Waiting) # 0
    BY <1>1, FS_EmptySet
  <2> QED BY <1>2, <2>1
<1> QED BY <1>1, <1>2, <1>3, <1>4, <1>5

LEMMA DeliverKeeps ==
    ASSUME AttemptInv, NEW w \in Workers, NEW m \in Messages, Deliver(w, m)
    PROVE  AttemptInv' /\ (CallsAreOwned => CallsAreOwned')
<1> DEFINE v == [Idle EXCEPT !.stage = "done", !.msg = m, !.since = now, !.round = 1]
<1>0. /\ worker[w].stage = "idle" /\ deliveries < MaxDeliveries /\ deliveries' = deliveries + 1
      /\ worker' = [worker EXCEPT ![w] = v]
      /\ UNCHANGED <<now, ledger, processed, sweeping, applied, settled, resent, straddled, upsets>>
  BY DEF Deliver
<1>1. now \in Nat /\ deliveries \in Nat /\ worker \in [Workers -> Worker] /\ Life \in Nat /\ MaxDeliveries \in Nat
  BY Parts, WorkerFacts, ExternalAssumption
<1>2. v \in Worker /\ v.stage = "done" /\ v.msg = m /\ v.since = now
  BY <1>1 DEF Idle, Worker, Stages
<1> HIDE DEF v
<1>3. worker' \in [Workers -> Worker] /\ worker'[w] = v /\ \A u \in Workers : u # w => worker'[u] = worker[u]
  BY <1>0, <1>1, <1>2, OneWorker
<1>4. TypeOK'
  <2>1. deliveries' \in 0..MaxDeliveries
    BY <1>0, <1>1
  <2> QED BY <1>0, <1>3, <2>1, Parts DEF TypeOK
<1>5. WorkersAreSound'
  <2>1. now <= now + Life
    BY <1>1
  <2> QED BY <1>0, <1>1, <1>2, <1>3, <2>1, Parts DEF WorkersAreSound
<1>6. Present' = Present
  BY <1>0 DEF Present
<1>7. NumbersAreLeft'
  <2>1. Waiting' = Waiting \cup {w}
    BY <1>2, <1>3 DEF Waiting
  <2>2. /\ IsFiniteSet(Waiting') /\ Cardinality(Waiting') \in Nat
        /\ Cardinality(Waiting') = Cardinality(Waiting) \/ Cardinality(Waiting') = Cardinality(Waiting) + 1
    BY <2>1, WaitingFacts, FS_AddElement, FS_CardinalityType
  <2>3. Cardinality(Waiting') <= deliveries'
    BY <1>0, <1>1, <2>2, WaitingFacts
  <2>4. \A n \in Present' : n + Cardinality(Waiting') <= deliveries'
    BY <1>0, <1>1, <1>6, <2>2, WaitingFacts
  <2>5. ASSUME NEW u \in Workers, worker'[u].stage = "insert"
        PROVE  worker'[u].n - 1 + Cardinality(Waiting') <= deliveries'
    <3>1. worker'[u] = worker[u] /\ worker[u].stage = "insert"
      BY <1>2, <1>3, <2>5
    <3> QED BY <1>0, <1>1, <2>2, <3>1, WaitingFacts
  <2> QED BY <2>2, <2>3, <2>4, <2>5 DEF NumbersAreLeft
<1>8. RowsAreSound' /\ BegunIsLast'
  BY <1>0, <1>6, Parts DEF RowsAreSound, BegunIsLast
<1>9. InsertIsNext'
  <2>1. \A u \in Workers : worker'[u].stage = "insert" => worker'[u] = worker[u]
    BY <1>2, <1>3
  <2> QED BY <1>0, <1>6, <2>1, Parts DEF InsertIsNext
<1>10. StepsPart'
  BY <1>0, Parts, RowsStand, StepsStand
<1>11. ASSUME CallsAreOwned PROVE CallsAreOwned'
  <2>1. Calling' = Calling /\ \A u \in Calling : worker'[u] = worker[u]
    BY <1>0, <1>2, <1>3 DEF Calling
  <2> QED BY <1>0, <1>11, <2>1 DEF CallsAreOwned
<1> QED BY <1>4, <1>5, <1>7, <1>8, <1>9, <1>10, <1>11 DEF AttemptInv, LedgerPart

\* A handler that found nothing begun has the number after the last one.
LEMMA ChooseKeeps ==
    ASSUME AttemptInv, NEW w \in Workers, SelectLast(w), ~(LastAttempt \in Numbers /\ ledger[LastAttempt].state = "begun")
    PROVE  AttemptInv' /\ (CallsAreOwned => CallsAreOwned')
<1> DEFINE L == LastAttempt
           k == L + 1
           v == [worker[w] EXCEPT !.stage = "insert", !.n = k]
<1>0. /\ worker[w].stage = "last" /\ worker' = [worker EXCEPT ![w] = v]
      /\ UNCHANGED <<now, ledger, processed, sweeping, applied, settled, resent, straddled, deliveries, upsets>>
  BY DEF SelectLast
<1>1. /\ L \in Nat /\ (L = 0 => Present = {}) /\ (L # 0 => L \in Present) /\ (\A j \in Present : j <= L)
      /\ k \in Nat /\ k - 1 = L
  BY LastFacts
<1>2. w \in Waiting
  BY <1>0 DEF Waiting
<1>3. L + Cardinality(Waiting) <= deliveries /\ Cardinality(Waiting) \in Nat /\ 1 <= Cardinality(Waiting)
  <2>1. CASE L = 0
    BY <1>2, <2>1, WaitingFacts
  <2>2. CASE L # 0
    BY <1>1, <1>2, <2>2, WaitingFacts
  <2> QED BY <2>1, <2>2
<1>4. k \in Numbers
  <2>1. deliveries \in 0..MaxDeliveries /\ MaxDeliveries \in Nat
    BY Parts, ExternalAssumption DEF TypeOK
  <2> QED BY <1>1, <1>3, <2>1 DEF Numbers
<1>5. ASSUME ~straddled, NEW j \in Present PROVE j < k /\ ledger[j].state # "begun"
  <2>1. j \in Nat /\ j \in Numbers
    BY WaitingFacts DEF Present
  <2>2. j < k
    BY <1>1, <2>1
  <2>3. ASSUME ledger[j].state = "begun" PROVE FALSE
    <3>1. \A i \in Present : i <= j
      BY <1>5, <2>1, <2>3, Parts DEF BegunIsLast
    <3>2. j = L
      BY <3>1, LastIs
    <3> QED BY <2>1, <2>3, <3>2
  <2> QED BY <2>2, <2>3
<1> HIDE DEF L, k
<1>6. worker \in [Workers -> Worker] /\ worker[w] \in Worker
  BY WorkerFacts
<1>7. v \in Worker /\ v.stage = "insert" /\ v.n = k /\ v.msg = worker[w].msg /\ v.since = worker[w].since
  BY <1>1, <1>6 DEF Worker, Stages
<1> HIDE DEF v
<1>8. worker' \in [Workers -> Worker] /\ worker'[w] = v /\ \A u \in Workers : u # w => worker'[u] = worker[u]
  BY <1>0, <1>6, <1>7, OneWorker
<1>9. TypeOK'
  BY <1>0, <1>8, Parts DEF TypeOK
<1>10. WorkersAreSound'
  BY <1>0, <1>4, <1>7, <1>8, Parts DEF WorkersAreSound
<1>11. Present' = Present
  BY <1>0 DEF Present
<1>12. NumbersAreLeft'
  <2>1. Waiting' = Waiting
    BY <1>0, <1>7, <1>8 DEF Waiting
  <2>2. ASSUME NEW u \in Workers, worker'[u].stage = "insert"
        PROVE  worker'[u].n - 1 + Cardinality(Waiting) <= deliveries
    <3>1. CASE u = w
      BY <1>1, <1>3, <1>7, <1>8, <3>1
    <3>2. CASE u # w
      BY <1>8, <2>2, <3>2, WaitingFacts
    <3> QED BY <3>1, <3>2
  <2> QED BY <1>0, <1>11, <2>1, <2>2, WaitingFacts DEF NumbersAreLeft
<1>13. RowsAreSound' /\ BegunIsLast'
  BY <1>0, <1>11, Parts DEF RowsAreSound, BegunIsLast
<1>14. InsertIsNext'
  <2> SUFFICES ASSUME ~straddled, NEW u \in Workers, worker'[u].stage = "insert"
               PROVE  \/ worker'[u].n \in Present
                      \/ /\ worker'[u].n = 1 \/ worker'[u].n - 1 \in Present
                         /\ \A j \in Present : j < worker'[u].n /\ ledger[j].state # "begun"
    BY <1>0, <1>11 DEF InsertIsNext
  <2>1. CASE u = w
    <3>1. k = 1 \/ k - 1 \in Present
      BY <1>1
    <3> QED BY <1>5, <1>7, <1>8, <2>1, <3>1
  <2>2. CASE u # w
    BY <1>8, <2>2, Parts DEF InsertIsNext
  <2> QED BY <2>1, <2>2
<1>15. StepsPart'
  BY <1>0, Parts, RowsStand, StepsStand
<1>16. ASSUME CallsAreOwned PROVE CallsAreOwned'
  <2>1. Calling' = Calling /\ \A u \in Calling : worker'[u] = worker[u]
    BY <1>0, <1>7, <1>8 DEF Calling
  <2> QED BY <1>0, <1>16, <2>1 DEF CallsAreOwned
<1> QED BY <1>9, <1>10, <1>12, <1>13, <1>14, <1>15, <1>16 DEF AttemptInv, LedgerPart

\* Two handlers that follow the same last attempt have the same number.
LEMMA SameNext ==
    ASSUME NEW P \in SUBSET Nat, NEW x \in Nat, NEW y \in Nat,
           x = 1 \/ x - 1 \in P, y = 1 \/ y - 1 \in P, \A k \in P : k < x /\ k < y, 0 \notin P
    PROVE  x = y
  OBVIOUS

LEMMA BeginKeeps ==
    ASSUME AttemptInv, NEW w \in Workers, Insert(w), ledger[worker[w].n].state = "absent"
    PROVE  AttemptInv' /\ (CallsAreOwned => CallsAreOwned')
<1> DEFINE n == worker[w].n
           m == worker[w].msg
           t == worker[w].since
           r == [NoRow EXCEPT !.state = "begun", !.msg = m, !.started = t]
           v == [worker[w] EXCEPT !.stage = "call", !.owned = TRUE]
<1>0. /\ worker[w].stage = "insert" /\ worker' = [worker EXCEPT ![w] = v]
      /\ ledger' = [ledger EXCEPT ![n] = r] /\ applied' = [applied EXCEPT ![n] = <<>>]
      /\ resent' \in {resent, resent \cup {m}}
      /\ UNCHANGED <<now, processed, sweeping, settled, straddled, deliveries, upsets>>
  BY DEF Insert
<1>1. /\ n \in Numbers /\ n \in Nat /\ m \in Messages /\ worker \in [Workers -> Worker] /\ worker[w] \in Worker
      /\ now \in Nat /\ ledger \in [Numbers -> Row] /\ applied \in [Numbers -> Seq(StepTaken)] /\ t \in Nat
      /\ t <= now
  BY <1>0, Parts, WorkerFacts, AppliedType DEF TypeOK, WorkersAreSound
<1>2. ledger[n].state = "absent" /\ n \notin Present
  BY DEF Present
<1> HIDE DEF m, n, t
<1>3. /\ r \in Row /\ r.state = "begun" /\ r.msg = m /\ r.started = t /\ r.class = "none" /\ r.ids = {} /\ r.conflicts = 0
  BY <1>1 DEF NoRow, Row
<1>4. /\ v \in Worker /\ v.stage = "call" /\ v.n = n /\ v.msg = m /\ v.since = t
  BY <1>1 DEF Worker, Stages, n, m, t
<1> HIDE DEF r, v
<1>5. worker' \in [Workers -> Worker] /\ worker'[w] = v /\ \A u \in Workers : u # w => worker'[u] = worker[u]
  BY <1>0, <1>1, <1>4, OneWorker
<1>6. ledger' \in [Numbers -> Row] /\ ledger'[n] = r /\ \A k \in Numbers : k # n => ledger'[k] = ledger[k]
  BY <1>0, <1>1, <1>3
<1>7. applied' \in [Numbers -> Seq(StepTaken)] /\ applied'[n] = <<>> /\ \A k \in Numbers : k # n => applied'[k] = applied[k]
  <2>1. <<>> \in Seq(StepTaken)
    BY EmptySeq
  <2> QED BY <1>0, <1>1, <2>1
<1>8. TypeOK'
  <2>1. \A k \in Numbers : ledger'[k].state = "finished" <=> ledger'[k].class # "none"
    BY <1>3, <1>6, Parts DEF TypeOK
  <2>2. resent' \subseteq Messages
    BY <1>0, <1>1, Parts DEF TypeOK
  <2>3. /\ now' \in 0..MaxClock /\ processed' \subseteq Messages /\ sweeping' \in Numbers \cup {0}
        /\ settled' \in [Messages -> Nat] /\ straddled' \in BOOLEAN /\ deliveries' \in 0..MaxDeliveries
        /\ upsets' \in 0..MaxUpsets
    BY <1>0, Parts DEF TypeOK
  <2> QED BY <1>5, <1>6, <1>7, <2>1, <2>2, <2>3, Zenon DEF TypeOK, StepTaken
<1>9. WorkersAreSound'
  BY <1>0, <1>1, <1>4, <1>5, Parts DEF WorkersAreSound, m, t
<1>10. Present' = Present \cup {n}
  BY <1>1, <1>3, <1>6 DEF Present
<1>11. w \in Waiting /\ Waiting' = Waiting \ {w}
  BY <1>0, <1>4, <1>5 DEF Waiting
<1>12. NumbersAreLeft'
  <2>1. /\ IsFiniteSet(Waiting') /\ Cardinality(Waiting') = Cardinality(Waiting) - 1 /\ Cardinality(Waiting') \in Nat
    BY <1>11, WaitingFacts, FS_RemoveElement, FS_CardinalityType
  <2>2. Cardinality(Waiting') <= deliveries /\ deliveries \in Nat
    BY <2>1, WaitingFacts, Parts
  <2>3. \A k \in Present' : k + Cardinality(Waiting') <= deliveries
    <3>1. n - 1 + Cardinality(Waiting) <= deliveries
      BY <1>0, WaitingFacts DEF n
    <3> QED BY <1>1, <1>10, <2>1, <2>2, <3>1, WaitingFacts
  <2>4. ASSUME NEW u \in Workers, worker'[u].stage = "insert"
        PROVE  worker'[u].n - 1 + Cardinality(Waiting') <= deliveries
    <3>1. worker'[u] = worker[u] /\ worker[u].stage = "insert"
      BY <1>4, <1>5, <2>4
    <3> QED BY <2>1, <2>2, <3>1, WaitingFacts
  <2> QED BY <1>0, <2>1, <2>2, <2>3, <2>4 DEF NumbersAreLeft
<1>13. RowsAreSound'
  <2>1. IsFiniteSet({}) /\ Cardinality({}) = 0
    BY FS_EmptySet
  <2> SUFFICES ASSUME NEW k \in Numbers
               PROVE  /\ ledger'[k].state # "absent" => ledger'[k].started <= now
                      /\ ledger'[k].state = "finished" =>
                            ledger'[k].started <= ledger'[k].finished /\ ledger'[k].finished <= now
                      /\ IsFiniteSet(ledger'[k].ids) /\ Cardinality(ledger'[k].ids) <= MaxEntries
                      /\ ledger'[k].conflicts <= MaxEntries
    BY <1>0 DEF RowsAreSound
  <2>2. CASE k = n
    <3>1. ledger'[k].state = "begun" /\ ledger'[k].started = t /\ ledger'[k].ids = {} /\ ledger'[k].conflicts = 0
      BY <1>3, <1>6, <2>2
    <3>2. MaxEntries \in Nat
      BY ExternalAssumption
    <3> QED BY <1>1, <2>1, <3>1, <3>2
  <2>3. CASE k # n
    BY <1>6, <2>3, Parts DEF RowsAreSound
  <2> QED BY <2>2, <2>3
<1>14. ~straddled => /\ n = 1 \/ n - 1 \in Present
                     /\ \A k \in Present : k < n /\ ledger[k].state # "begun"
  BY <1>0, <1>2, Parts DEF InsertIsNext, n
<1>15. Present \in SUBSET Nat /\ 0 \notin Present /\ Present \subseteq Numbers
  BY DEF Present, Numbers
<1>16. BegunIsLast'
  <2> SUFFICES ASSUME ~straddled, NEW k \in Numbers, ledger'[k].state = "begun", NEW j \in Present'
               PROVE  j <= k
    BY <1>0 DEF BegunIsLast
  <2>1. k = n
    BY <1>6, <1>14 DEF Present
  <2>2. j = n \/ (j \in Present /\ j < n)
    BY <1>10, <1>14
  <2>3. j \in Nat
    BY <1>1, <1>15, <2>2
  <2> QED BY <1>1, <2>1, <2>2, <2>3
<1>17. InsertIsNext'
  <2> SUFFICES ASSUME ~straddled, NEW u \in Workers, worker'[u].stage = "insert"
               PROVE  worker'[u].n \in Present'
    BY <1>0 DEF InsertIsNext
  <2>1. worker'[u] = worker[u] /\ worker[u].stage = "insert" /\ worker[u].n \in Nat
    BY <1>4, <1>5, WorkerFacts
  <2>2. CASE worker[u].n \in Present
    BY <1>10, <2>1, <2>2
  <2>3. CASE worker[u].n \notin Present
    <3>1. /\ worker[u].n = 1 \/ worker[u].n - 1 \in Present
          /\ \A k \in Present : k < worker[u].n
      BY <2>1, <2>3, Parts DEF InsertIsNext
    <3>2. worker[u].n = n
      BY <1>1, <1>14, <1>15, <2>1, <3>1, SameNext
    <3> QED BY <1>10, <2>1, <3>2
  <2> QED BY <2>2, <2>3
<1>18. AppliedIsKept'
  <2> SUFFICES ASSUME NEW k \in Numbers
               PROVE  /\ ledger'[k].state = "begun" => applied'[k] = <<>>
                      /\ k \in Present' => \A i \in 1..Len(applied'[k]) :
                           /\ applied'[k][i].class = ledger'[k].class
                           /\ applied'[k][i].by = "outcome" \/ applied'[k][i].by \in ledger'[k].ids \/ ledger'[k].terminal # "none"
                           /\ applied'[k][i].finding \in Terminal => ledger'[k].terminal # "none"
    BY DEF AppliedIsKept
  <2>1. CASE k = n
    <3>1. Len(applied'[k]) = 0
      BY <1>7, <2>1
    <3> QED BY <1>7, <2>1, <3>1
  <2>2. CASE k # n
    BY <1>6, <1>7, <1>10, <2>2, Parts DEF AppliedIsKept
  <2> QED BY <2>1, <2>2
<1>19. StepsPart'
  <2>1. Len(applied'[n]) = 0
    BY <1>7
  <2>2. StepOnce /\ TerminalIsLast /\ UnknownStaysOpen
    BY Parts DEF StepsPart
  <2>3. StepOnce'
    BY <1>7, <2>1, <2>2 DEF StepOnce
  <2>4. TerminalIsLast'
    BY <1>7, <2>1, <2>2 DEF TerminalIsLast
  <2>5. UnknownStaysOpen'
    BY <1>7, <2>1, <2>2 DEF UnknownStaysOpen
  <2>6. SettledOnce'
    BY <1>0, Parts DEF SettledOnce
  <2> QED BY <1>18, <2>3, <2>4, <2>5, <2>6 DEF StepsPart
<1>20. ASSUME CallsAreOwned PROVE CallsAreOwned'
  <2>1. Calling' = Calling \cup {w} /\ w \notin Calling /\ \A u \in Calling : u \in Workers /\ worker'[u] = worker[u]
    BY <1>0, <1>4, <1>5 DEF Calling
  <2>2. \A u \in Calling : worker[u].n \in Numbers /\ worker[u].n # n
    BY <1>2, <1>20, WorkerFacts DEF CallsAreOwned, Calling
  <2>3. ASSUME NEW u \in Calling'
        PROVE  /\ ledger'[worker'[u].n].state # "absent" /\ ledger'[worker'[u].n].msg = worker'[u].msg
               /\ ledger'[worker'[u].n].started >= worker'[u].since
               /\ \A x \in Calling' : x # u => worker'[x].n # worker'[u].n
    <3>1. CASE u = w
      BY <1>1, <1>3, <1>4, <1>5, <1>6, <2>1, <2>2, <3>1
    <3>2. CASE u # w
      <4>1. u \in Calling /\ worker'[u] = worker[u] /\ ledger'[worker[u].n] = ledger[worker[u].n]
        BY <1>6, <2>1, <2>2, <2>3, <3>2
      <4> QED BY <1>4, <1>5, <1>20, <2>1, <2>2, <4>1 DEF CallsAreOwned
    <3> QED BY <3>1, <3>2
  <2> QED BY <2>3 DEF CallsAreOwned
<1> QED BY <1>8, <1>9, <1>12, <1>13, <1>16, <1>17, <1>19, <1>20 DEF AttemptInv, LedgerPart

\* A handler ends before the row it began may be purged.
LEMMA PurgeKeeps ==
    ASSUME AttemptInv, PurgeAttempts
    PROVE  AttemptInv' /\ (CallsAreOwned /\ Life <= Retention => CallsAreOwned')
<1> DEFINE old == {n \in Numbers : ledger[n].state = "finished" /\ ledger[n].finished < now - Retention}
<1>0. /\ ledger' = [n \in Numbers |-> IF n \in old THEN NoRow ELSE ledger[n]]
      /\ straddled' = (straddled \/ \E w \in Workers : worker[w].stage = "insert")
      /\ UNCHANGED <<now, processed, worker, sweeping, applied, settled, resent, deliveries, upsets>>
  BY DEF PurgeAttempts
<1>1. \A n \in old : ledger[n].state = "finished" /\ ledger[n].finished < now - Retention
  OBVIOUS
<1> HIDE DEF old
<1>2. /\ \A n \in Numbers : n \in old => ledger'[n] = NoRow
      /\ \A n \in Numbers : n \notin old => ledger'[n] = ledger[n]
  BY <1>0
<1>3. ledger \in [Numbers -> Row] /\ NoRow \in Row /\ now \in Nat
  BY Parts DEF TypeOK, NoRow, Row
<1>4. NoRow.state = "absent" /\ NoRow.class = "none" /\ NoRow.ids = {} /\ NoRow.conflicts = 0
  BY DEF NoRow
<1>5. ledger' \in [Numbers -> Row]
  BY <1>0, <1>3
<1>6. TypeOK'
  <2>1. \A n \in Numbers : ledger'[n].state = "finished" <=> ledger'[n].class # "none"
    BY <1>2, <1>4, Parts DEF TypeOK
  <2>2. straddled' \in BOOLEAN
    BY <1>0, Parts DEF TypeOK
  <2> QED BY <1>0, <1>5, <2>1, <2>2, Parts DEF TypeOK
<1>7. WorkersAreSound'
  BY <1>0, Parts DEF WorkersAreSound
<1>8. Present' \subseteq Present /\ \A n \in Present' : n \notin old /\ ledger'[n] = ledger[n]
  BY <1>2, <1>4 DEF Present
<1>9. NumbersAreLeft'
  <2>1. Waiting' = Waiting
    BY <1>0 DEF Waiting
  <2> QED BY <1>0, <1>8, <2>1, Parts DEF NumbersAreLeft
<1>10. RowsAreSound'
  <2> SUFFICES ASSUME NEW k \in Numbers
               PROVE  /\ ledger'[k].state # "absent" => ledger'[k].started <= now
                      /\ ledger'[k].state = "finished" =>
                            ledger'[k].started <= ledger'[k].finished /\ ledger'[k].finished <= now
                      /\ IsFiniteSet(ledger'[k].ids) /\ Cardinality(ledger'[k].ids) <= MaxEntries
                      /\ ledger'[k].conflicts <= MaxEntries
    BY <1>0 DEF RowsAreSound
  <2>1. CASE k \in old
    <3>1. ledger'[k].state = "absent" /\ ledger'[k].ids = {} /\ ledger'[k].conflicts = 0
      BY <1>2, <1>4, <2>1
    <3>2. MaxEntries \in Nat /\ IsFiniteSet({}) /\ Cardinality({}) = 0
      BY ExternalAssumption, FS_EmptySet
    <3> QED BY <3>1, <3>2
  <2>2. CASE k \notin old
    BY <1>2, <2>2, Parts DEF RowsAreSound
  <2> QED BY <2>1, <2>2
<1>11. BegunIsLast'
  <2>1. \A n \in Numbers : ledger'[n].state = "begun" => ledger[n].state = "begun"
    BY <1>2, <1>4
  <2> QED BY <1>0, <1>8, <2>1, Parts DEF BegunIsLast
<1>12. InsertIsNext'
  BY <1>0 DEF InsertIsNext
<1>13. StepsPart'
  <2>1. AppliedIsKept'
    BY <1>0, <1>2, <1>4, <1>8, Parts DEF AppliedIsKept, Present
  <2> QED BY <1>0, <2>1, Parts DEF StepsPart, StepOnce, TerminalIsLast, UnknownStaysOpen, SettledOnce
<1>14. ASSUME CallsAreOwned, Life <= Retention PROVE CallsAreOwned'
  <2>1. Calling' = Calling
    BY <1>0 DEF Calling
  <2>2. ASSUME NEW w \in Calling PROVE worker[w].n \in Numbers /\ worker[w].n \notin old
    <3> DEFINE n == worker[w].n
               f == ledger[n].finished
               s == ledger[n].started
               b == worker[w].since
    <3>1. w \in Workers /\ n \in Numbers /\ b \in Nat /\ now <= b + Life
      BY Parts, WorkerFacts DEF Calling, WorkersAreSound
    <3>2. s >= b
      BY <1>14 DEF CallsAreOwned
    <3>3. s \in Nat /\ f \in Nat /\ (ledger[n].state = "finished" => s <= f)
      BY <1>3, <3>1, Parts DEF Row, RowsAreSound
    <3>4. Life \in Nat /\ Retention \in Nat
      BY ExternalAssumption
    <3>5. n \in old => ledger[n].state = "finished" /\ f < now - Retention
      BY <1>1
    <3> HIDE DEF n, f, s, b
    <3>6. n \notin old
      BY <1>3, <1>14, <3>1, <3>2, <3>3, <3>4, <3>5
    <3> QED BY <3>1, <3>6 DEF n
  <2> QED BY <1>0, <1>2, <1>14, <2>1, <2>2 DEF CallsAreOwned
<1> QED BY <1>6, <1>7, <1>9, <1>10, <1>11, <1>12, <1>13, <1>14 DEF AttemptInv, LedgerPart

LEMMA TickKeeps ==
    ASSUME AttemptInv, Tick
    PROVE  AttemptInv' /\ (CallsAreOwned => CallsAreOwned')
<1>0. /\ now < MaxClock /\ now' = now + 1
      /\ \A w \in Workers : worker[w].stage = "idle" \/ now - worker[w].since < Life
      /\ UNCHANGED <<ledger, processed, worker, sweeping, applied, settled, resent, straddled, deliveries, upsets>>
  BY DEF Tick
<1>1. now \in Nat /\ MaxClock \in Nat /\ Life \in Nat /\ ledger \in [Numbers -> Row]
  BY Parts, ExternalAssumption DEF TypeOK
<1>2. TypeOK'
  <2>1. now' \in 0..MaxClock
    BY <1>0, <1>1
  <2> QED BY <1>0, <2>1, Parts DEF TypeOK
<1>3. WorkersAreSound'
  <2> SUFFICES ASSUME NEW w \in Workers
               PROVE  /\ worker[w].stage \in {"insert", "call", "record", "settle"} => worker[w].n \in Numbers
                      /\ worker[w].stage \in {"record", "settle"} => worker[w].class # "none"
                      /\ worker[w].stage # "idle" => /\ worker[w].msg \in Messages
                                                     /\ worker[w].since <= now' /\ now' <= worker[w].since + Life
    BY <1>0 DEF WorkersAreSound
  <2>1. worker[w].since \in Nat
    BY WorkerFacts
  <2>2. worker[w].stage # "idle" => worker[w].since <= now' /\ now' <= worker[w].since + Life
    BY <1>0, <1>1, <2>1, Parts DEF WorkersAreSound
  <2> QED BY <2>2, Parts DEF WorkersAreSound
<1>4. Present' = Present /\ Waiting' = Waiting /\ Calling' = Calling
  BY <1>0 DEF Present, Waiting, Calling
<1>5. NumbersAreLeft'
  BY <1>0, <1>4, Parts DEF NumbersAreLeft
<1>6. RowsAreSound'
  <2> SUFFICES ASSUME NEW k \in Numbers
               PROVE  /\ ledger[k].state # "absent" => ledger[k].started <= now'
                      /\ ledger[k].state = "finished" =>
                            ledger[k].started <= ledger[k].finished /\ ledger[k].finished <= now'
                      /\ IsFiniteSet(ledger[k].ids) /\ Cardinality(ledger[k].ids) <= MaxEntries
                      /\ ledger[k].conflicts <= MaxEntries
    BY <1>0 DEF RowsAreSound
  <2>1. ledger[k].started \in Nat /\ ledger[k].finished \in Nat
    BY <1>1 DEF Row
  <2>2. /\ ledger[k].state # "absent" => ledger[k].started <= now'
        /\ ledger[k].state = "finished" =>
              ledger[k].started <= ledger[k].finished /\ ledger[k].finished <= now'
    BY <1>0, <1>1, <2>1, Parts DEF RowsAreSound
  <2> QED BY <2>2, Parts DEF RowsAreSound
<1>7. BegunIsLast' /\ InsertIsNext'
  BY <1>0, <1>4, Parts DEF BegunIsLast, InsertIsNext
<1>8. StepsPart'
  BY <1>0, Parts, RowsStand, StepsStand
<1>9. CallsAreOwned => CallsAreOwned'
  BY <1>0, <1>4 DEF CallsAreOwned
<1> QED BY <1>2, <1>3, <1>5, <1>6, <1>7, <1>8, <1>9 DEF AttemptInv, LedgerPart

-----------------------------------------------------------------------------
(* The theorems.                                                           *)

LEMMA CalmOrNot ==
    ASSUME AttemptInv, [Next]_vars
    PROVE  \/ Calm /\ TypeOK' /\ StepsPart'
           \/ \E w \in Workers : \/ \E m \in Messages : Deliver(w, m)
                                 \/ SelectLast(w) /\ ~(LastAttempt \in Numbers /\ ledger[LastAttempt].state = "begun")
                                 \/ Insert(w) /\ ledger[worker[w].n].state = "absent"
           \/ PurgeAttempts
           \/ Tick
<1> SUFFICES ASSUME ~(\/ \E w \in Workers : \/ \E m \in Messages : Deliver(w, m)
                                            \/ SelectLast(w) /\ ~(LastAttempt \in Numbers /\ ledger[LastAttempt].state = "begun")
                                            \/ Insert(w) /\ ledger[worker[w].n].state = "absent"
                      \/ PurgeAttempts
                      \/ Tick)
             PROVE  Calm /\ TypeOK' /\ StepsPart'
  OBVIOUS
<1>1. CASE \E w \in Workers : Dispatch(w) \/ Fail(w)
  <2>1. PICK w \in Workers : Dispatch(w) \/ Fail(w)
    BY <1>1
  <2>2. CASE Fail(w)
    BY <2>2, FailKeeps
  <2>3. CASE SelectDone(w)
    BY <2>3, SelectDoneKeeps
  <2>4. CASE SelectLast(w)
    BY <2>4, ResumeKeeps
  <2>5. CASE Insert(w)
    BY <2>5, LostRaceKeeps
  <2>6. CASE Submit(w)
    BY <2>6, SubmitKeeps
  <2>7. CASE RecordRetryable(w)
    BY <2>7, RecordRetryableKeeps
  <2>8. CASE SettleFirst(w)
    BY <2>8, SettleFirstKeeps
  <2>9. CASE SettleRepeat(w)
    BY <2>9, SettleRepeatKeeps
  <2>10. CASE SettleUnknown(w)
    BY <2>10, SettleUnknownKeeps
  <2> QED BY <2>1, <2>2, <2>3, <2>4, <2>5, <2>6, <2>7, <2>8, <2>9, <2>10 DEF Dispatch
<1>2. CASE \E o \in Observations : Observe(o)
  BY <1>2, ObserveKeeps
<1>3. CASE SweepClose
  BY <1>3, SweepCloseKeeps
<1>4. CASE SweepList \/ SweepFail \/ UNCHANGED vars
  BY <1>4, SweepKeeps
<1> QED BY <1>1, <1>2, <1>3, <1>4 DEF Next

LEMMA InitIsSound ==
    ASSUME Init
    PROVE  AttemptInv /\ CallsAreOwned
<1>0. /\ \A n \in Numbers : ledger[n] = NoRow /\ applied[n] = <<>> /\ Len(applied[n]) = 0
      /\ \A w \in Workers : worker[w] = Idle
  BY DEF Init
<1>1. /\ NoRow \in Row /\ NoRow.state = "absent" /\ NoRow.class = "none" /\ NoRow.ids = {} /\ NoRow.conflicts = 0
      /\ Idle \in Worker /\ Idle.stage = "idle"
  BY IdleFollows DEF NoRow, Row
<1>2. TypeOK
  <2>1. <<>> \in Seq(StepTaken)
    BY EmptySeq
  <2>2. applied \in [Numbers -> Seq(StepTaken)]
    BY <2>1 DEF Init
  <2>3. ledger \in [Numbers -> Row] /\ worker \in [Workers -> Worker] /\ settled \in [Messages -> Nat]
    BY <1>1 DEF Init
  <2>4. now \in 0..MaxClock /\ deliveries \in 0..MaxDeliveries /\ upsets \in 0..MaxUpsets
    BY ExternalAssumption DEF Init
  <2>5. processed \subseteq Messages /\ resent \subseteq Messages /\ straddled \in BOOLEAN /\ sweeping \in Numbers \cup {0}
    BY DEF Init
  <2>6. \A n \in Numbers : ledger[n].state = "finished" <=> ledger[n].class # "none"
    BY <1>0, <1>1
  <2> QED BY <2>2, <2>3, <2>4, <2>5, <2>6, Zenon DEF TypeOK, StepTaken
<1>3. Present = {} /\ Waiting = {} /\ Calling = {}
  BY <1>0, <1>1 DEF Present, Waiting, Calling
<1>4. IsFiniteSet({}) /\ Cardinality({}) = 0
  BY FS_EmptySet
<1>5. WorkersAreSound /\ InsertIsNext /\ CallsAreOwned /\ BegunIsLast
  BY <1>0, <1>1, <1>3 DEF WorkersAreSound, InsertIsNext, CallsAreOwned, BegunIsLast
<1>6. NumbersAreLeft
  BY <1>0, <1>1, <1>3, <1>4 DEF NumbersAreLeft, Init
<1>7. RowsAreSound
  <2>1. /\ MaxEntries \in Nat
        /\ \A n \in Numbers : ledger[n].state = "absent" /\ ledger[n].ids = {} /\ ledger[n].conflicts = 0
    BY <1>0, <1>1, ExternalAssumption
  <2>2. \A n \in Numbers : IsFiniteSet(ledger[n].ids) /\ Cardinality(ledger[n].ids) <= MaxEntries
    <3> SUFFICES ASSUME NEW n \in Numbers
                 PROVE  IsFiniteSet(ledger[n].ids) /\ Cardinality(ledger[n].ids) <= MaxEntries
      OBVIOUS
    <3>1. ledger[n].ids = {}
      BY <2>1
    <3>2. IsFiniteSet(ledger[n].ids) /\ Cardinality(ledger[n].ids) = 0
      BY <1>4, <3>1, Zenon
    <3> QED BY <2>1, <3>2
  <2> QED BY <2>1, <2>2 DEF RowsAreSound
<1>8. AppliedIsKept /\ StepOnce /\ TerminalIsLast /\ UnknownStaysOpen
  BY <1>0, <1>1, <1>3 DEF AppliedIsKept, StepOnce, TerminalIsLast, UnknownStaysOpen
<1>9. SettledOnce
  BY DEF SettledOnce, Init
<1> QED BY <1>2, <1>5, <1>6, <1>7, <1>8, <1>9 DEF AttemptInv, LedgerPart, StepsPart

\* The steps of the system keep the invariant, and with a retention that covers the
\* life of a handler, its row for each caller.
LEMMA NextKeeps ==
    ASSUME AttemptInv, [Next]_vars
    PROVE  AttemptInv' /\ (CallsAreOwned /\ Life <= Retention => CallsAreOwned')
<1>1. CASE Calm /\ TypeOK' /\ StepsPart'
  <2>1. LedgerPart'
    BY <1>1, Parts, LedgerStands
  <2>2. CallsAreOwned => CallsAreOwned'
    BY <1>1, Parts, CallsStand
  <2> QED BY <1>1, <2>1, <2>2 DEF AttemptInv
<1> QED BY <1>1, CalmOrNot, DeliverKeeps, ChooseKeeps, BeginKeeps, PurgeKeeps, TickKeeps

\* The inductive invariant of the external cycle holds in every reachable state.
THEOREM AttemptInvariant == Spec => []AttemptInv
<1>1. Init => AttemptInv
  BY InitIsSound
<1>2. AttemptInv /\ [Next]_vars => AttemptInv'
  BY NextKeeps
<1> QED BY <1>1, <1>2, PTL DEF Spec

LEMMA AttemptInvImplies ==
    ASSUME AttemptInv
    PROVE  /\ TypeOK /\ OneBegun /\ RowBounded /\ StepsAreSound
           /\ CallsAreOwned => OneCaller
<1>1. OneBegun
  <2> SUFFICES ASSUME ~straddled, NEW n \in Numbers, ledger[n].state = "begun"
               PROVE  n = LastAttempt
    BY DEF OneBegun
  <2>1. n \in Present /\ \A k \in Present : k <= n
    BY Parts DEF BegunIsLast, Present
  <2> QED BY <2>1, LastIs
<1>2. RowBounded
  BY Parts DEF RowsAreSound, RowBounded
<1>3. AppliedIsRecorded
  <2> SUFFICES ASSUME NEW n \in Present, NEW i \in 1..Len(applied[n])
               PROVE  ledger[n].state = "finished" /\ applied[n][i].class = ledger[n].class
    BY DEF AppliedIsRecorded
  <2>1. n \in Numbers /\ ledger[n].state \in {"begun", "finished"}
    BY Parts, StatesOfRows DEF Present
  <2>2. ledger[n].state # "begun"
    <3> SUFFICES ASSUME ledger[n].state = "begun" PROVE FALSE
      OBVIOUS
    <3>1. applied[n] = <<>>
      BY <2>1, Parts DEF AppliedIsKept
    <3>2. Len(applied[n]) = 0
      BY <3>1
    <3> QED BY <3>2
  <2> QED BY <2>1, <2>2, Parts DEF AppliedIsKept
<1>4. OneStepPerMessage
  BY Parts DEF SettledOnce, OneStepPerMessage
<1>5. StepsAreSound
  BY <1>3, <1>4, Parts DEF StepsPart, StepsAreSound
<1>6. CallsAreOwned => OneCaller
  BY DEF CallsAreOwned, Calling, OneCaller
<1> QED BY <1>1, <1>2, <1>5, <1>6, Parts

\* resolve.go, dispatch.go and abandon.go: whatever handlers, redeliveries, sweeps and
\* repeated observations interleave, one step is applied for each outcome, observation
\* and message, decided on what the ledger records, none after a terminal finding, and
\* an unknown outcome is only queried or reconciled.
THEOREM StepsStaySound == Spec => []StepsAreSound
<1>1. AttemptInv => StepsAreSound
  BY AttemptInvImplies
<1> QED BY <1>1, AttemptInvariant, PTL

\* attempt_ledger.go Begin, Finish, Observe and the purge: one attempt of the key is
\* begun, one handler waits on it, and rows do not grow.  A retention shorter than what
\* a handler may last is the one case left out (serve.go refuses to purge without one):
\* the purge could take the row from under the handler that waits on it.
THEOREM LedgerStaysSound ==
    ASSUME Life <= Retention
    PROVE  Spec => []LedgerInv
<1>1. Init => AttemptInv /\ CallsAreOwned
  BY InitIsSound
<1>2. AttemptInv /\ CallsAreOwned /\ [Next]_vars => AttemptInv' /\ CallsAreOwned'
  BY NextKeeps
<1>3. AttemptInv /\ CallsAreOwned => LedgerInv
  BY AttemptInvImplies DEF LedgerInv
<1> QED BY <1>1, <1>2, <1>3, PTL DEF Spec

\* attempt_ledger.go Finish and Observe: a recorded class and a terminal finding stay
\* until the row is purged, whoever answers late.
THEOREM OutcomesStand == Spec => RecordedStands
<1> DEFINE Stands == \A n \in Numbers :
          ledger[n].state = "finished" =>
             \/ ledger'[n] = NoRow
             \/ /\ ledger'[n].state = "finished"
                /\ ledger'[n].class = ledger[n].class
                /\ ledger[n].terminal # "none" => ledger'[n].terminal = ledger[n].terminal
<1>1. ASSUME AttemptInv, [Next]_vars PROVE Stands
  <2> SUFFICES ASSUME NEW n \in Numbers, ledger[n].state = "finished"
               PROVE  \/ ledger'[n] = NoRow
                      \/ /\ ledger'[n].state = "finished"
                         /\ ledger'[n].class = ledger[n].class
                         /\ ledger[n].terminal # "none" => ledger'[n].terminal = ledger[n].terminal
    OBVIOUS
  <2>1. CASE Calm
    <3>1. Moved(n, ledger'[n])
      BY <2>1 DEF Calm
    <3> QED BY <3>1 DEF Moved
  <2>2. CASE \E w \in Workers : Insert(w) /\ ledger[worker[w].n].state = "absent"
    <3>1. PICK w \in Workers : Insert(w) /\ ledger[worker[w].n].state = "absent"
      BY <2>2
    <3>2. n # worker[w].n /\ ledger \in [Numbers -> Row]
      BY <1>1, <3>1, Parts DEF TypeOK
    <3>3. \E r : ledger' = [ledger EXCEPT ![worker[w].n] = r]
      BY <3>1 DEF Insert
    <3> QED BY <3>2, <3>3
  <2>3. CASE PurgeAttempts
    BY <2>3 DEF PurgeAttempts
  <2>4. CASE ledger' = ledger
    BY <2>4
  <2>5. ASSUME NEW w \in Workers, (\E m \in Messages : Deliver(w, m)) \/ SelectLast(w) PROVE ledger' = ledger
    BY <2>5 DEF Deliver, SelectLast
  <2>6. Tick => ledger' = ledger
    BY DEF Tick
  <2> QED BY <1>1, <2>1, <2>2, <2>3, <2>4, <2>5, <2>6, CalmOrNot
<1>2. AttemptInv /\ [Next]_vars => [Stands]_vars
  BY <1>1
<1> QED BY <1>2, AttemptInvariant, PTL DEF Spec, RecordedStands

-----------------------------------------------------------------------------
(* The synchronous command: IdempotentCommand.  A key is in one open       *)
(* transaction at most (LocksAreOwned), so the entry a call found is the   *)
(* entry it replaces; an execution stops being its key's entry only after  *)
(* some clock reached its expiry, hence no earlier than its expiry less    *)
(* the skew, and the next one registers after that (SupersededHadExpired). *)

USE CommandAssumption

\* The parts of CommandInv an action can disturb, and RepeatsAreApart; the others
\* follow from them.
Held ==
    /\ LocksAreOwned
    /\ InstantsAreOrdered
    /\ EntriesAreCommitted
    /\ SupersededHadExpired
    /\ RepeatsAreApart
    /\ AnswersAreTruthful
    /\ ConflictingRowRemains

-----------------------------------------------------------------------------
(* Types.                                                                  *)

LEMMA InitTyped ==
    CommandInit => CommandTypeOK
  BY DEF CommandInit, CommandTypeOK, Entry, NoEntry, Call, IdleCall, CallStages, Parameters

LEMMA UpsetTyped == ASSUME CommandTypeOK, Mishap PROVE mishaps' \in 0..MaxMishaps
  BY DEF CommandTypeOK, Mishap, Parameters

LEMMA UnlockTyped ==
    ASSUME CommandTypeOK, NEW c \in Calls, Unlock(c)
    PROVE  lock' \in [Keys -> Calls \cup {NoCall}]
  BY DEF CommandTypeOK, Unlock, Parameters

LEMMA AnswerTyped ==
    ASSUME CommandTypeOK, NEW c \in Calls, NEW a \in CallStages, Answer(c, a)
    PROVE  call' \in [Calls -> Call]
  BY DEF CommandTypeOK, Answer, Call, IdleCall

LEMMA CommittedTyped ==
    ASSUME CommandTypeOK, NEW c \in Calls, Committed(c)
    PROVE  /\ clock' \in 0..LastTick
           /\ entry' \in [Keys -> Entry]
           /\ lock' \in [Keys -> Calls \cup {NoCall}]
           /\ ran' \subseteq Calls
  <1>1. call[c].now + KeyRetention \in Int /\ call[c].status \in {"absent", "processed", "rejected"}
    BY DEF CommandTypeOK, Call, Parameters
  <1>2. entry' \in [Keys -> Entry]
    BY <1>1 DEF Committed, CommandTypeOK, Entry
  <1> QED
    BY <1>2, UnlockTyped DEF Committed, CommandTypeOK

\* Every step keeps the types.
LEMMA NextTyped == ASSUME CommandTypeOK, [CommandNext]_commandVars PROVE CommandTypeOK'
  <1> USE DEF CallStages, Answers, Open
  <1>1. ASSUME NEW c \in Calls, Resolve(c) PROVE CommandTypeOK'
    <2>1. PICK t \in Readings :
            call' = [call EXCEPT ![c] = [IdleCall EXCEPT !.stage = "waiting", !.now = t, !.began = clock]]
      BY <1>1 DEF Resolve
    <2>2. t \in Int /\ clock \in Nat
      BY DEF CommandTypeOK, Readings, Parameters
    <2>3. call' \in [Calls -> Call]
      BY <2>1, <2>2 DEF CommandTypeOK, Call, IdleCall
    <2> QED
      BY <1>1, <2>3 DEF Resolve, CommandTypeOK
  <1>2. ASSUME NEW c \in Calls, Register(c) PROVE CommandTypeOK'
    <2>1. clock \in Nat /\ Key[c] \in Keys
      BY DEF CommandTypeOK, Parameters
    <2>2. call' \in [Calls -> Call]
      BY <1>2, <2>1 DEF Register, CommandTypeOK, Call
    <2> QED
      BY <1>2, <2>1, <2>2 DEF Register, CommandTypeOK
  <1>3. ASSUME NEW c \in Calls, RegisterTimeout(c) PROVE CommandTypeOK'
    BY <1>3, AnswerTyped DEF RegisterTimeout, CommandTypeOK
  <1>4. ASSUME NEW c \in Calls, Replay(c) PROVE CommandTypeOK'
    <2>1. Key[c] \in Keys
      BY DEF Parameters
    <2>2. call' \in [Calls -> Call]
      <3>1. CASE Answer(c, "failed") \/ Answer(c, "mismatch")
        BY <3>1, AnswerTyped
      <3>2. CASE call' = [call EXCEPT ![c] = [IdleCall EXCEPT !.stage = "replayed", !.from = entry[Key[c]].by]]
        <4>1. entry[Key[c]].by \in Calls \cup {NoCall}
          BY <2>1 DEF CommandTypeOK, Entry
        <4>0. IdleCall \in Call
          BY DEF Call, IdleCall
        <4>2. [IdleCall EXCEPT !.stage = "replayed", !.from = entry[Key[c]].by] \in Call
          BY <4>0, <4>1 DEF Call
        <4> QED
          BY <3>2, <4>2 DEF CommandTypeOK
      <3> QED
        BY <1>4, <3>1, <3>2 DEF Replay
    <2> QED
      BY <1>4, <2>2, UnlockTyped DEF Replay, CommandTypeOK
  <1>5. ASSUME NEW c \in Calls, Run(c) PROVE CommandTypeOK'
    <2>1. PICK s \in {"processed", "rejected"} :
            call' = [call EXCEPT ![c].stage = "ran", ![c].status = s]
      BY <1>5 DEF Run
    <2>2. [call[c] EXCEPT !.stage = "ran", !.status = s] \in Call
      BY DEF CommandTypeOK, Call
    <2> QED
      BY <1>5, <2>1, <2>2 DEF Run, CommandTypeOK
  <1>6. ASSUME NEW c \in Calls, Commit(c) PROVE CommandTypeOK'
    <2>1. call' \in [Calls -> Call]
      <3>1. [call[c] EXCEPT !.stage = "new", !.from = c] \in Call
        BY DEF CommandTypeOK, Call
      <3> QED
        BY <1>6, <3>1 DEF Commit, CommandTypeOK
    <2> QED
      BY <1>6, <2>1, CommittedTyped DEF Commit, CommandTypeOK
  <1>7. ASSUME NEW c \in Calls, CommitAnswerLost(c) PROVE CommandTypeOK'
    <2>1. call' \in [Calls -> Call]
      <3>1. [call[c] EXCEPT !.stage = "failed"] \in Call
        BY DEF CommandTypeOK, Call
      <3> QED
        BY <1>7, <3>1 DEF CommitAnswerLost, CommandTypeOK
    <2> QED
      BY <1>7, <2>1, CommittedTyped, UpsetTyped DEF CommitAnswerLost, CommandTypeOK
  <1>8. ASSUME NEW c \in Calls, CallFails(c) PROVE CommandTypeOK'
    BY <1>8, UnlockTyped, AnswerTyped, UpsetTyped DEF CallFails, CommandTypeOK
  <1>9. ASSUME CommandTick PROVE CommandTypeOK'
    BY <1>9 DEF CommandTick, CommandTypeOK, Parameters
  <1>10. ASSUME NEW k \in Keys, PurgeExpired(k) PROVE CommandTypeOK'
    BY <1>10 DEF PurgeExpired, CommandTypeOK, Entry, NoEntry
  <1>11. ASSUME UNCHANGED commandVars PROVE CommandTypeOK'
    BY <1>11 DEF commandVars, CommandTypeOK
  <1> QED
    BY <1>1, <1>2, <1>3, <1>4, <1>5, <1>6, <1>7, <1>8, <1>9, <1>10, <1>11 DEF CommandNext, Execute

-----------------------------------------------------------------------------
(* What a step changes of the calls: each action moves one call, and leaves *)
(* its instants alone once it has registered.                               *)

LEMMA CallTyped ==
    ASSUME CommandTypeOK, NEW c \in Calls
    PROVE  /\ call[c] \in Call
           /\ call[c].now \in Int
           /\ call[c].began \in Int
           /\ call[c].registered \in Int
           /\ Key[c] \in Keys
           /\ c # NoCall
  BY DEF CommandTypeOK, Call, Parameters

LEMMA NumbersTyped ==
    ASSUME CommandTypeOK
    PROVE  clock \in Int /\ KeyRetention \in Int /\ Deadline \in Nat /\ MaxSkew \in Nat
  BY DEF CommandTypeOK, Parameters

LEMMA AnswerMoves ==
    ASSUME CommandTypeOK, NEW c \in Calls, NEW a, Answer(c, a)
    PROVE  /\ call'[c] = [IdleCall EXCEPT !.stage = a]
           /\ \A d \in Calls \ {c} : call'[d] = call[d]
  BY DEF CommandTypeOK, Answer

\* A call that holds no key moves to an answer, or releases the key it holds.
LEMMA UnlockReleases ==
    ASSUME CommandTypeOK, LocksAreOwned, NEW c \in Calls, Unlock(c)
    PROVE  /\ \A d \in Calls \ {c} : lock'[Key[d]] = d <=> lock[Key[d]] = d
           /\ lock'[Key[c]] # c
           /\ \A k \in Keys : lock'[k] # NoCall => lock'[k] = lock[k]
  BY DEF CommandTypeOK, LocksAreOwned, Unlock, Parameters

\* Two calls of one key are not both in an open transaction.
LEMMA OneOpenPerKey ==
    ASSUME CommandTypeOK, LocksAreOwned, NEW c \in Calls, NEW d \in Calls, c # d, Key[c] = Key[d],
           call[c].stage \in Open
    PROVE  call[d].stage \notin Open
  BY DEF LocksAreOwned


-----------------------------------------------------------------------------
(* Each action keeps Held.                                                 *)

\* A call that read the clock and has not committed ends without an outcome.
LEMMA EndsWithoutOutcome ==
    ASSUME CommandTypeOK, CommandTypeOK', Held, NEW c \in Calls, NEW a \in {"mismatch", "inflight", "failed"},
           call[c].stage \in {"waiting"} \cup Open, Answer(c, a), Unlock(c),
           UNCHANGED <<clock, entry, ran>>
    PROVE  Held'
  <1>1. /\ call'[c] = [IdleCall EXCEPT !.stage = a]
        /\ \A d \in Calls \ {c} : call'[d] = call[d]
    BY AnswerMoves
  <1>2. call'[c].stage = a /\ call'[c].now = 0 /\ call'[c].began = 0 /\ call'[c].registered = 0
    BY <1>1 DEF IdleCall
  <1>3. c \notin ran
    BY DEF Held, InstantsAreOrdered
  <1>0. /\ \A d \in Calls \ {c} : lock'[Key[d]] = d <=> lock[Key[d]] = d
        /\ lock'[Key[c]] # c
        /\ \A k \in Keys : lock'[k] # NoCall => lock'[k] = lock[k]
    BY UnlockReleases DEF Held
  <1> USE DEF Held, Open
  <1>4. LocksAreOwned'
    <2>1. call'[c].stage \notin Open
      BY <1>2
    <2>2. \A d \in Calls : call'[d].stage \in Open <=> lock'[Key[d]] = d
      BY <1>0, <1>1, <2>1 DEF LocksAreOwned
    <2>3. \A k \in Keys : lock'[k] # NoCall => Key[lock'[k]] = k
      BY <1>0 DEF LocksAreOwned
    <2> QED
      BY <2>2, <2>3 DEF LocksAreOwned
  <1>5. InstantsAreOrdered'
    <2>1. 0 <= clock /\ 0 >= 0 - MaxSkew /\ 0 <= 0 + MaxSkew
      BY DEF CommandTypeOK, Parameters
    <2>2. \A d \in Calls \ {c} : call'[d] = call[d]
      BY <1>1
    <2>3. call'[c].stage \notin {"idle", "waiting"} \cup Open
      BY <1>2
    <2>4. UNCHANGED <<clock, ran>>
      OBVIOUS
    <2> QED
      BY <1>2, <2>1, <2>2, <2>3, <2>4 DEF InstantsAreOrdered
  <1>6. EntriesAreCommitted'
    BY <1>1, <1>3 DEF EntriesAreCommitted, CommandTypeOK
  <1>7. SupersededHadExpired'
    <2>1. \A d \in ran : d \in Calls /\ call'[d] = call[d]
      BY <1>1, <1>3 DEF CommandTypeOK
    <2>2. \A e \in Calls : call'[e].stage \in {"first", "ran"} => call'[e] = call[e]
      BY <1>1, <1>2
    <2> QED
      BY <2>1, <2>2 DEF SupersededHadExpired
  <1>8. RepeatsAreApart'
    BY <1>1, <1>3 DEF RepeatsAreApart, CommandTypeOK
  <1>9. AnswersAreTruthful'
    <2>1. \A d \in Calls \ {c} : call'[d] = call[d]
      BY <1>1
    <2>2. call'[c].stage \notin {"new", "replayed"} /\ c \notin ran'
      BY <1>2, <1>3
    <2> QED
      BY <2>1, <2>2 DEF AnswersAreTruthful
  <1>10. ConflictingRowRemains'
    BY <1>1, <1>2 DEF ConflictingRowRemains
  <1> QED
    BY <1>4, <1>5, <1>6, <1>7, <1>8, <1>9, <1>10

\* The clock is read: every later instant of the call is measured from here.
LEMMA ResolveKeeps ==
    ASSUME CommandTypeOK, CommandTypeOK', Held, NEW c \in Calls, Resolve(c)
    PROVE  Held'
  <1>1. PICK t \in Readings :
          call' = [call EXCEPT ![c] = [IdleCall EXCEPT !.stage = "waiting", !.now = t, !.began = clock]]
    BY DEF Resolve
  <1>2. t >= clock - MaxSkew /\ t <= clock + MaxSkew /\ t \in Int
    BY NumbersTyped DEF Readings
  <1>3. /\ call'[c].stage = "waiting" /\ call'[c].now = t
        /\ call'[c].began = clock /\ call'[c].registered = 0
        /\ \A d \in Calls \ {c} : call'[d] = call[d]
    BY <1>1 DEF CommandTypeOK, IdleCall
  <1>4. c \notin ran /\ call[c].stage = "idle"
    BY DEF Held, InstantsAreOrdered, Resolve
  <1>5. clock \in Nat /\ Deadline \in Nat /\ MaxSkew \in Nat
    BY DEF CommandTypeOK, Parameters
  <1> USE DEF Held, Open
  <1>6. LocksAreOwned'
    BY <1>3, <1>4 DEF LocksAreOwned, Resolve
  <1>7. InstantsAreOrdered'
    BY <1>2, <1>3, <1>4, <1>5 DEF InstantsAreOrdered, Resolve
  <1>8. EntriesAreCommitted'
    BY <1>3, <1>4 DEF EntriesAreCommitted, Resolve, CommandTypeOK
  <1>9. SupersededHadExpired'
    BY <1>3, <1>4 DEF SupersededHadExpired, Resolve, CommandTypeOK
  <1>10. RepeatsAreApart'
    BY <1>3, <1>4 DEF RepeatsAreApart, Resolve, CommandTypeOK
  <1>11. AnswersAreTruthful'
    BY <1>3, <1>4 DEF AnswersAreTruthful, Resolve
  <1>12. ConflictingRowRemains'
    BY <1>3 DEF ConflictingRowRemains, Resolve
  <1> QED
    BY <1>6, <1>7, <1>8, <1>9, <1>10, <1>11, <1>12

\* The key is taken: what this call may supersede has expired by now.
LEMMA RegisterKeeps ==
    ASSUME CommandTypeOK, CommandTypeOK', Held, NEW c \in Calls, Register(c)
    PROVE  Held'
  <1> DEFINE k == Key[c]
  <1>1. /\ call'[c].stage = IF Replaceable(entry[k], call[c].now) THEN "first" ELSE "conflict"
        /\ call'[c].now = call[c].now /\ call'[c].began = call[c].began
        /\ call'[c].registered = clock
        /\ \A d \in Calls \ {c} : call'[d] = call[d]
    BY CallTyped DEF Register, CommandTypeOK, Call
  <1>2. c \notin ran /\ call[c].stage = "waiting"
    BY DEF Held, InstantsAreOrdered, Register
  <1>0. call'[c].stage \in {"first", "conflict"}
    BY <1>1
  <1>3. lock[k] = NoCall /\ lock' = [lock EXCEPT ![k] = c] /\ k \in Keys
    BY CallTyped DEF Register
  <1>4. clock \in Nat /\ MaxSkew \in Nat /\ call[c].now \in Int /\ call[c].began \in Nat
    BY DEF CommandTypeOK, Call, Parameters
  <1> USE DEF Held, Open
  <1>5. LocksAreOwned'
    BY <1>1, <1>2, <1>3
    DEF LocksAreOwned, CommandTypeOK, Parameters
  <1>6. InstantsAreOrdered'
    <2>1. clock - call[c].began <= Deadline /\ call[c].began <= clock
      BY <1>2 DEF InstantsAreOrdered
    <2>2. /\ call[c].now >= call[c].began - MaxSkew
          /\ call[c].now <= call[c].began + MaxSkew
      BY <1>2 DEF InstantsAreOrdered
    <2>3. clock <= clock
      BY <1>4
    <2>4. clock' = clock /\ ran' = ran
      BY DEF Register
    <2> QED
      BY <1>0, <1>1, <1>2, <2>1, <2>2, <2>3, <2>4 DEF InstantsAreOrdered
  <1>7. EntriesAreCommitted'
    BY <1>1, <1>2 DEF EntriesAreCommitted, Register, CommandTypeOK
  <1>8. SupersededHadExpired'
    <2>1. ASSUME NEW d \in ran, Key[d] = k, Replaceable(entry[k], call[c].now)
          PROVE  call[d].now + KeyRetention - MaxSkew <= clock
      <3>1. d \in Calls /\ call[d].now \in Int /\ KeyRetention \in Int
        BY CallTyped, NumbersTyped DEF CommandTypeOK
      <3>2. CASE entry[k].by = d
        <4>1. entry[k].expires = call[d].now + KeyRetention /\ d # NoCall
          BY <1>3, <3>1, <3>2, CallTyped DEF EntriesAreCommitted
        <4>2. call[d].now + KeyRetention <= call[c].now
          BY <2>1, <3>2, <4>1 DEF Replaceable
        <4>3. call[c].now <= clock + MaxSkew
          BY <1>2, <1>4 DEF InstantsAreOrdered
        <4> QED
          BY <1>4, <3>1, <4>2, <4>3
      <3>3. CASE entry[k].by # d
        BY <2>1, <3>3 DEF SupersededHadExpired
      <3> QED BY <3>2, <3>3
    <2>2. ASSUME NEW d \in ran
          PROVE  /\ call'[d].stage # "idle"
                 /\ call'[d].registered <= call'[d].began + Deadline
                 /\ entry[Key[d]].by # d => call'[d].now + KeyRetention - MaxSkew <= clock
                 /\ \A e \in Calls : /\ e # d
                                     /\ Key[e] = Key[d]
                                     /\ call'[e].stage \in {"first", "ran"}
                      => call'[d].now + KeyRetention - MaxSkew <= call'[e].registered
      <3>1. d \in Calls \ {c} /\ call'[d] = call[d]
        BY <1>1, <1>2 DEF CommandTypeOK
      <3>2. ASSUME NEW e \in Calls, e # d, Key[e] = Key[d], call'[e].stage \in {"first", "ran"}
            PROVE  call'[d].now + KeyRetention - MaxSkew <= call'[e].registered
        <4>1. CASE e = c
          BY <1>1, <2>1, <3>1, <3>2, <4>1
        <4>2. CASE e # c
          BY <1>1, <3>1, <3>2, <4>2 DEF SupersededHadExpired
        <4> QED BY <4>1, <4>2
      <3> QED
        BY <3>1, <3>2 DEF SupersededHadExpired
    <2> QED
      BY <2>2 DEF SupersededHadExpired, Register
  <1>9. RepeatsAreApart'
    BY <1>1, <1>2 DEF RepeatsAreApart, Register, CommandTypeOK
  <1>10. AnswersAreTruthful'
    <2>1. \A d \in Calls \ {c} : call'[d] = call[d]
      BY <1>1
    <2>2. call'[c].stage \notin Answers /\ ran' = ran
      BY <1>0 DEF Answers, Register
    <2> QED
      BY <2>1, <2>2 DEF AnswersAreTruthful, Answers
  <1>11. ConflictingRowRemains'
    <2>1. call'[c].stage = "conflict" => entry[k].by # NoCall
      BY <1>1 DEF Replaceable
    <2>2. entry' = entry /\ \A d \in Calls \ {c} : call'[d] = call[d]
      BY <1>1 DEF Register
    <2> QED
      BY <2>1, <2>2 DEF ConflictingRowRemains
  <1> QED
    BY <1>5, <1>6, <1>7, <1>8, <1>9, <1>10, <1>11

\* The answer from the entry is the outcome of a committed execution.
LEMMA ReplayKeeps ==
    ASSUME CommandTypeOK, CommandTypeOK', Held, NEW c \in Calls, Replay(c)
    PROVE  Held'
  <1> DEFINE x == entry[Key[c]]
  <1>0. call[c].stage = "conflict" /\ Unlock(c) /\ UNCHANGED <<clock, entry, ran>>
    BY DEF Replay
  <1>1. CASE Answer(c, "failed") \/ Answer(c, "mismatch")
    BY <1>0, <1>1, EndsWithoutOutcome DEF Open
  <1>2. CASE /\ x.by # NoCall
             /\ Payload[x.by] = Payload[c]
             /\ call' = [call EXCEPT ![c] = [IdleCall EXCEPT !.stage = "replayed", !.from = x.by]]
    <2>1. /\ call'[c].stage = "replayed" /\ call'[c].from = x.by
          /\ call'[c].now = 0 /\ call'[c].began = 0 /\ call'[c].registered = 0
          /\ \A d \in Calls \ {c} : call'[d] = call[d]
      BY <1>2 DEF CommandTypeOK, IdleCall
    <2>2. c \notin ran
      BY <1>0 DEF Held, InstantsAreOrdered, Open
    <2>3. /\ \A d \in Calls \ {c} : lock'[Key[d]] = d <=> lock[Key[d]] = d
          /\ lock'[Key[c]] # c
          /\ \A k \in Keys : lock'[k] # NoCall => lock'[k] = lock[k]
      BY <1>0, UnlockReleases DEF Held
    <2> USE DEF Held, Open
    <2>4. LocksAreOwned'
      BY <2>1, <2>3 DEF LocksAreOwned
    <2>5. InstantsAreOrdered'
      <3>1. 0 <= clock /\ 0 >= 0 - MaxSkew /\ 0 <= 0 + MaxSkew
        BY DEF CommandTypeOK, Parameters
      <3> QED
        BY <1>0, <2>1, <2>2, <3>1 DEF InstantsAreOrdered
    <2>6. EntriesAreCommitted'
      BY <1>0, <2>1, <2>2 DEF EntriesAreCommitted, CommandTypeOK
    <2>7. SupersededHadExpired'
      <3>1. \A d \in ran : d \in Calls /\ call'[d] = call[d]
        BY <2>1, <2>2 DEF CommandTypeOK
      <3>2. \A e \in Calls : call'[e].stage \in {"first", "ran"} => call'[e] = call[e]
        BY <2>1
      <3> QED
        BY <1>0, <3>1, <3>2 DEF SupersededHadExpired
    <2>8. RepeatsAreApart'
      BY <1>0, <2>1, <2>2 DEF RepeatsAreApart, CommandTypeOK
    <2>9. AnswersAreTruthful'
      <3>1. x.by \in ran /\ Key[x.by] = Key[c]
        BY <1>2, CallTyped DEF EntriesAreCommitted
      <3>2. ran' = ran /\ c \notin ran /\ call'[c].stage = "replayed"
        BY <1>0, <2>1, <2>2
      <3>3. /\ call'[c].from \in ran
            /\ Key[call'[c].from] = Key[c]
            /\ Payload[call'[c].from] = Payload[c]
        BY <1>2, <2>1, <3>1
      <3>4. \A d \in Calls \ {c} : call'[d] = call[d]
        BY <2>1
      <3> QED
        BY <3>2, <3>3, <3>4 DEF AnswersAreTruthful
    <2>10. ConflictingRowRemains'
      BY <1>0, <2>1 DEF ConflictingRowRemains
    <2> QED
      BY <2>4, <2>5, <2>6, <2>7, <2>8, <2>9, <2>10
  <1> QED
    BY <1>1, <1>2 DEF Replay

\* Run writes nothing anyone else sees.
LEMMA RunKeeps ==
    ASSUME CommandTypeOK, CommandTypeOK', Held, NEW c \in Calls, Run(c)
    PROVE  Held'
  <1>1. /\ call'[c].stage = "ran" /\ call[c].stage = "first"
        /\ call'[c].now = call[c].now /\ call'[c].began = call[c].began
        /\ call'[c].registered = call[c].registered
        /\ \A d \in Calls \ {c} : call'[d] = call[d]
    BY CallTyped DEF Run, CommandTypeOK, Call
  <1>2. c \notin ran
    BY <1>1 DEF Held, InstantsAreOrdered, Open
  <1>3. UNCHANGED <<clock, entry, lock, ran>>
    BY DEF Run
  <1> USE DEF Held, Open
  <1>4. LocksAreOwned'
    BY <1>1, <1>3 DEF LocksAreOwned
  <1>5. InstantsAreOrdered'
    BY <1>1, <1>2, <1>3 DEF InstantsAreOrdered
  <1>6. EntriesAreCommitted'
    BY <1>1, <1>2, <1>3 DEF EntriesAreCommitted, CommandTypeOK
  <1>7. SupersededHadExpired'
    <2>1. \A d \in ran : d \in Calls /\ call'[d] = call[d]
      BY <1>1, <1>2 DEF CommandTypeOK
    <2>2. \A e \in Calls : call'[e].stage \in {"first", "ran"} =>
            call[e].stage \in {"first", "ran"} /\ call'[e].registered = call[e].registered
      BY <1>1
    <2> QED
      BY <1>3, <2>1, <2>2 DEF SupersededHadExpired
  <1>8. RepeatsAreApart'
    BY <1>1, <1>2, <1>3 DEF RepeatsAreApart, CommandTypeOK
  <1>9. AnswersAreTruthful'
    BY <1>1, <1>3 DEF AnswersAreTruthful
  <1>10. ConflictingRowRemains'
    BY <1>1, <1>3 DEF ConflictingRowRemains
  <1> QED
    BY <1>4, <1>5, <1>6, <1>7, <1>8, <1>9, <1>10

\* The execution becomes its key's entry: the earlier ones of the key had
\* expired before it registered.
LEMMA CommittedKeeps ==
    ASSUME CommandTypeOK, CommandTypeOK', Held, NEW c \in Calls, Committed(c),
           call'[c].stage \in {"new", "failed"},
           call'[c].now = call[c].now, call'[c].began = call[c].began,
           call'[c].registered = call[c].registered, call'[c].status = call[c].status,
           \A d \in Calls \ {c} : call'[d] = call[d]
    PROVE  Held'
  <1> DEFINE k == Key[c]
             e == [by |-> c, status |-> call[c].status, expires |-> call[c].now + KeyRetention]
  <1>1. /\ call[c].stage = "ran" /\ entry' = [entry EXCEPT ![k] = e]
        /\ ran' = ran \cup {c} /\ clock' = clock /\ Unlock(c) /\ k \in Keys
    BY CallTyped DEF Committed
  <1>2. c \notin ran /\ clock - call[c].began <= Deadline /\ call[c].began <= clock
    BY <1>1 DEF Held, InstantsAreOrdered, Open
  <1>3. /\ \A d \in Calls \ {c} : lock'[Key[d]] = d <=> lock[Key[d]] = d
        /\ lock'[Key[c]] # c
        /\ \A j \in Keys : lock'[j] # NoCall => lock'[j] = lock[j]
    BY <1>1, UnlockReleases DEF Held
  <1>4. entry'[k] = e /\ \A j \in Keys \ {k} : entry'[j] = entry[j]
    BY <1>1 DEF CommandTypeOK
  <1>5. ran \subseteq Calls \ {c} /\ \A d \in ran : call'[d] = call[d]
    BY <1>2 DEF CommandTypeOK
  <1>6. \A d \in Calls \ {c} : Key[d] = k => call[d].stage \notin Open
    BY <1>1, OneOpenPerKey DEF Held, Open
  <1> USE DEF Held, Open
  <1>7. LocksAreOwned'
    BY <1>3 DEF LocksAreOwned
  <1>8. InstantsAreOrdered'
    <2>1. ASSUME NEW d \in Calls \ {c}, call[d].stage \in {"idle", "waiting"} \cup Open
          PROVE  d \notin ran'
      BY <1>1, <2>1 DEF InstantsAreOrdered
    <2>2. \A d \in Calls \ {c} : call'[d] = call[d]
      OBVIOUS
    <2>3. call[c].stage # "idle" /\ call'[c].stage \notin {"idle", "waiting"} \cup Open
      BY <1>1
    <2> QED
      BY <1>1, <2>1, <2>2, <2>3 DEF InstantsAreOrdered
  <1>9. EntriesAreCommitted'
    <2>1. ASSUME NEW j \in Keys \ {k}, entry[j].by # NoCall
          PROVE  entry[j].by \in ran /\ call'[entry[j].by] = call[entry[j].by]
      BY <1>5, <2>1 DEF EntriesAreCommitted
    <2> QED
      BY <1>1, <1>4, <2>1 DEF EntriesAreCommitted
  <1>10. \A d \in ran : Key[d] = k => call[d].now + KeyRetention - MaxSkew <= call[c].registered
    BY <1>1, <1>5 DEF SupersededHadExpired
  <1>11. call[c].registered <= clock /\ call[c].registered <= call[c].began + Deadline
    BY <1>1, <1>2, CallTyped, NumbersTyped DEF InstantsAreOrdered
  <1>12. SupersededHadExpired'
    <2>1. ASSUME NEW d \in ran, entry'[Key[d]].by # d
          PROVE  call[d].now + KeyRetention - MaxSkew <= clock
      <3>1. CASE Key[d] = k
        <4>1. call[d].now + KeyRetention - MaxSkew \in Int /\ call[c].registered \in Int /\ clock \in Int
          BY <1>5, CallTyped, NumbersTyped
        <4> QED
          BY <1>10, <1>11, <3>1, <4>1
      <3>2. CASE Key[d] # k
        BY <1>4, <1>5, <2>1, <3>2, CallTyped DEF SupersededHadExpired
      <3> QED BY <3>1, <3>2
    <2>2. ASSUME NEW d \in ran, NEW f \in Calls, f # d, Key[f] = Key[d],
                 call'[f].stage \in {"first", "ran"}
          PROVE  call'[d].now + KeyRetention - MaxSkew <= call'[f].registered
      BY <1>5, <2>2 DEF SupersededHadExpired
    <2>3. ASSUME NEW f \in Calls, f # c, Key[f] = k
          PROVE  call'[f].stage \notin {"first", "ran"}
      BY <1>6, <2>3
    <2>4. ASSUME NEW d \in ran'
          PROVE  /\ call'[d].stage # "idle"
                 /\ call'[d].registered <= call'[d].began + Deadline
                 /\ entry'[Key[d]].by # d => call'[d].now + KeyRetention - MaxSkew <= clock'
                 /\ \A f \in Calls : /\ f # d
                                     /\ Key[f] = Key[d]
                                     /\ call'[f].stage \in {"first", "ran"}
                      => call'[d].now + KeyRetention - MaxSkew <= call'[f].registered
      <3>1. CASE d = c
        BY <1>4, <1>11, <2>3, <3>1
      <3>2. CASE d \in ran
        BY <1>1, <1>5, <2>1, <2>2, <3>2 DEF SupersededHadExpired
      <3> QED
        BY <1>1, <2>4, <3>1, <3>2
    <2> QED
      BY <2>4 DEF SupersededHadExpired
  <1>13. RepeatsAreApart'
    <2>1. ASSUME NEW d \in ran, Key[d] = k
          PROVE  call[c].registered - call[d].registered >= KeyRetention - Deadline - 2 * MaxSkew
      <3>1. call[d].now + KeyRetention - MaxSkew <= call[c].registered
        BY <1>10, <2>1
      <3>2. call[d].now >= call[d].began - MaxSkew
        BY <1>5 DEF InstantsAreOrdered, SupersededHadExpired
      <3>3. call[d].registered <= call[d].began + Deadline
        BY DEF SupersededHadExpired
      <3>4. /\ call[d].now \in Int /\ call[d].began \in Int /\ call[d].registered \in Int
            /\ call[c].registered \in Int
        BY <1>5, CallTyped
      <3> QED
        BY <3>1, <3>2, <3>3, <3>4, NumbersTyped
    <2>2. ASSUME NEW d \in ran', NEW f \in ran', d # f, Key[d] = Key[f]
          PROVE  \/ call'[f].registered - call'[d].registered >= KeyRetention - Deadline - 2 * MaxSkew
                 \/ call'[d].registered - call'[f].registered >= KeyRetention - Deadline - 2 * MaxSkew
      <3>1. CASE d = c
        BY <1>1, <1>5, <2>1, <2>2, <3>1
      <3>2. CASE f = c
        BY <1>1, <1>5, <2>1, <2>2, <3>2
      <3>3. CASE d # c /\ f # c
        BY <1>1, <1>5, <2>2, <3>3 DEF RepeatsAreApart
      <3> QED BY <3>1, <3>2, <3>3
    <2> QED
      BY <2>2 DEF RepeatsAreApart
  <1>14. AnswersAreTruthful'
    <2>1. c \in ran' /\ ran \subseteq ran' /\ \A d \in Calls \ {c} : d \in ran' <=> d \in ran
      BY <1>1
    <2>2. call'[c].stage \notin {"replayed", "mismatch", "inflight"}
      OBVIOUS
    <2> QED
      BY <2>1, <2>2 DEF AnswersAreTruthful
  <1>15. ConflictingRowRemains'
    BY <1>4, <1>6, CallTyped DEF ConflictingRowRemains
  <1> QED
    BY <1>7, <1>8, <1>9, <1>12, <1>13, <1>14, <1>15

\* Time passes only while no call would outlive its deadline.
LEMMA ClockKeeps ==
    ASSUME CommandTypeOK, CommandTypeOK', Held, CommandTick
    PROVE  Held'
  <1>1. /\ clock' = clock + 1 /\ UNCHANGED <<entry, lock, call, ran>>
        /\ \A c \in Calls : call[c].stage \in {"waiting"} \cup Open =>
              clock - call[c].began < Deadline
    BY DEF CommandTick
  <1> USE DEF Held
  <1>2. LocksAreOwned' /\ EntriesAreCommitted' /\ RepeatsAreApart'
    BY <1>1 DEF LocksAreOwned, EntriesAreCommitted, RepeatsAreApart
  <1>3. AnswersAreTruthful' /\ ConflictingRowRemains'
    BY <1>1 DEF AnswersAreTruthful, ConflictingRowRemains
  <1>4. InstantsAreOrdered'
    <2>1. \A c \in Calls : call[c].registered \in Int /\ call[c].began \in Int
      BY CallTyped
    <2>2. ASSUME NEW c \in Calls
          PROVE  /\ call[c].stage \in {"waiting"} \cup Open =>
                       clock' - call[c].began <= Deadline /\ call[c].began <= clock'
                 /\ call[c].registered <= clock'
                 /\ call[c].began <= clock'
      <3>1. call[c].registered <= clock /\ call[c].began <= clock
        BY DEF InstantsAreOrdered
      <3>2. clock' = clock + 1 /\ clock \in Int
        BY <1>1, NumbersTyped
      <3>3. call[c].stage \in {"waiting"} \cup Open => clock - call[c].began < Deadline
        BY <1>1
      <3> QED
        BY <2>1, <3>1, <3>2, <3>3, NumbersTyped
    <2>3. call' = call /\ ran' = ran
      BY <1>1
    <2> QED
      BY <2>2, <2>3 DEF InstantsAreOrdered
  <1>5. SupersededHadExpired'
    <2>1. ASSUME NEW c \in ran, call[c].now + KeyRetention - MaxSkew <= clock
          PROVE  call[c].now + KeyRetention - MaxSkew <= clock + 1
      <3>1. call[c].now \in Int
        BY CallTyped DEF CommandTypeOK
      <3> QED
        BY <2>1, <3>1, NumbersTyped
    <2> QED
      BY <1>1, <2>1 DEF SupersededHadExpired
  <1> QED
    BY <1>2, <1>3, <1>4, <1>5

\* What the purge removes has expired for a clock within the skew of this one.
LEMMA PurgeExpiredKeeps ==
    ASSUME CommandTypeOK, CommandTypeOK', Held, NEW k \in Keys, PurgeExpired(k)
    PROVE  Held'
  <1>1. PICK t \in Readings : entry[k].expires <= t
    BY DEF PurgeExpired
  <1>2. t \in Int /\ t <= clock + MaxSkew
    BY NumbersTyped DEF Readings
  <1>3. /\ entry[k].by # NoCall /\ lock[k] = NoCall
        /\ entry'[k].by = NoCall /\ \A j \in Keys \ {k} : entry'[j] = entry[j]
        /\ UNCHANGED <<clock, lock, call, ran>>
    BY DEF PurgeExpired, CommandTypeOK, NoEntry
  <1> USE DEF Held
  <1>4. LocksAreOwned' /\ InstantsAreOrdered' /\ RepeatsAreApart' /\ AnswersAreTruthful'
    BY <1>3 DEF LocksAreOwned, InstantsAreOrdered, RepeatsAreApart, AnswersAreTruthful
  <1>5. EntriesAreCommitted'
    BY <1>3 DEF EntriesAreCommitted
  <1>6. SupersededHadExpired'
    <2>1. ASSUME NEW c \in ran, entry'[Key[c]].by # c
          PROVE  call[c].now + KeyRetention - MaxSkew <= clock
      <3>0. c \in Calls /\ Key[c] \in Keys /\ call[c].now \in Int
        BY CallTyped DEF CommandTypeOK
      <3>1. CASE entry[Key[c]].by = c
        <4>1. Key[c] = k /\ entry[k].expires = call[c].now + KeyRetention
          BY <1>3, <2>1, <3>0, <3>1, CallTyped DEF EntriesAreCommitted
        <4> QED
          BY <1>1, <1>2, <3>0, <4>1, NumbersTyped
      <3>2. CASE entry[Key[c]].by # c
        BY <3>2 DEF SupersededHadExpired
      <3> QED BY <3>1, <3>2
    <2> QED
      BY <1>3, <2>1 DEF SupersededHadExpired
  <1>7. ConflictingRowRemains'
    BY <1>3, CallTyped DEF ConflictingRowRemains, LocksAreOwned, Open
  <1> QED
    BY <1>4, <1>5, <1>6, <1>7

\* Every step keeps Held.
LEMMA CommandKeeps ==
    ASSUME CommandTypeOK, CommandTypeOK', Held, [CommandNext]_commandVars
    PROVE  Held'
  <1>1. ASSUME NEW c \in Calls, RegisterTimeout(c) PROVE Held'
    <2>1. call[c].stage = "waiting" /\ UNCHANGED <<clock, entry, lock, ran>> /\ Answer(c, "inflight")
      BY <1>1 DEF RegisterTimeout
    <2>2. lock[Key[c]] # c
      BY <2>1 DEF Held, LocksAreOwned, Open
    <2>3. Unlock(c)
      BY <2>1, <2>2 DEF Unlock, CommandTypeOK
    <2> QED
      BY <2>1, <2>3, EndsWithoutOutcome
  <1>2. ASSUME NEW c \in Calls, CallFails(c) PROVE Held'
    BY <1>2, EndsWithoutOutcome DEF CallFails
  <1>3. ASSUME NEW c \in Calls, Commit(c) PROVE Held'
    <2>1. Committed(c) /\ call' = [call EXCEPT ![c].stage = "new", ![c].from = c]
      BY <1>3 DEF Commit
    <2>2. /\ call'[c].stage = "new" /\ call'[c].now = call[c].now
          /\ call'[c].began = call[c].began /\ call'[c].registered = call[c].registered
          /\ call'[c].status = call[c].status /\ \A d \in Calls \ {c} : call'[d] = call[d]
      BY <2>1, CallTyped DEF CommandTypeOK, Call
    <2> QED
      BY <2>1, <2>2, CommittedKeeps
  <1>4. ASSUME NEW c \in Calls, CommitAnswerLost(c) PROVE Held'
    <2>1. Committed(c) /\ call' = [call EXCEPT ![c].stage = "failed"]
      BY <1>4 DEF CommitAnswerLost
    <2>2. /\ call'[c] = [call[c] EXCEPT !.stage = "failed"]
          /\ \A d \in Calls \ {c} : call'[d] = call[d]
      BY <2>1 DEF CommandTypeOK
    <2>3. /\ call'[c].stage = "failed" /\ call'[c].now = call[c].now
          /\ call'[c].began = call[c].began /\ call'[c].registered = call[c].registered
          /\ call'[c].status = call[c].status
      BY <2>2, CallTyped DEF Call
    <2> QED
      BY <2>1, <2>2, <2>3, CommittedKeeps
  <1>5. ASSUME UNCHANGED commandVars PROVE Held'
    BY <1>5 DEF commandVars, Held, LocksAreOwned, InstantsAreOrdered, EntriesAreCommitted,
                SupersededHadExpired, RepeatsAreApart, AnswersAreTruthful, ConflictingRowRemains
  <1> QED
    BY <1>1, <1>2, <1>3, <1>4, <1>5, ResolveKeeps, RegisterKeeps, ReplayKeeps, RunKeeps,
       ClockKeeps, PurgeExpiredKeeps DEF CommandNext, Execute

LEMMA InitHeld ==
    CommandInit => Held
  <1> SUFFICES ASSUME CommandInit PROVE Held
    OBVIOUS
  <1> USE DEF CommandInit, IdleCall, NoEntry, Open, Parameters
  <1>1. LocksAreOwned
    BY DEF LocksAreOwned
  <1>2. InstantsAreOrdered
    <2>1. \A c \in Calls : /\ call[c].stage = "idle"
                          /\ call[c].registered = 0 /\ call[c].began = 0
      OBVIOUS
    <2>2. clock = 0 /\ ran = {} /\ 0 <= 0
      OBVIOUS
    <2> QED
      BY <2>1, <2>2 DEF InstantsAreOrdered
  <1>3. EntriesAreCommitted /\ SupersededHadExpired /\ RepeatsAreApart
    BY DEF EntriesAreCommitted, SupersededHadExpired, RepeatsAreApart
  <1>4. AnswersAreTruthful /\ ConflictingRowRemains
    BY DEF AnswersAreTruthful, ConflictingRowRemains
  <1> QED
    BY <1>1, <1>2, <1>3, <1>4 DEF Held

\* An execution whose expiry no clock has reached is its key's entry.
LEMMA HeldStands == ASSUME CommandTypeOK, Held PROVE EntryStands
  <1> SUFFICES ASSUME NEW c \in ran, clock + MaxSkew < call[c].now + KeyRetention
               PROVE  entry[Key[c]].by = c /\ entry[Key[c]].status = call[c].status
    BY DEF EntryStands
  <1>1. c \in Calls /\ call[c].now \in Int /\ Key[c] \in Keys /\ c # NoCall
    BY CallTyped DEF CommandTypeOK
  <1>2. ~(call[c].now + KeyRetention - MaxSkew <= clock)
    BY <1>1, NumbersTyped
  <1>3. entry[Key[c]].by = c
    BY <1>2 DEF Held, SupersededHadExpired
  <1> QED
    BY <1>1, <1>3 DEF Held, EntriesAreCommitted

-----------------------------------------------------------------------------
(* The theorems.                                                           *)

\* The inductive invariant holds in every reachable state.
THEOREM CommandHeld ==
    CommandSpec => [](CommandTypeOK /\ Held)
  <1>1. CommandInit => CommandTypeOK /\ Held
    BY InitTyped, InitHeld
  <1>2. CommandTypeOK /\ Held /\ [CommandNext]_commandVars => CommandTypeOK' /\ Held'
    BY NextTyped, CommandKeeps
  <1> QED
    BY <1>1, <1>2, PTL DEF CommandSpec

\* The table, the locks and the calls keep their types.
THEOREM CommandTypeCorrect ==
    CommandSpec => []CommandTypeOK
  BY CommandHeld, PTL

\* The invariant the runs check, for every value of the constants.
THEOREM CommandInvariant ==
    CommandSpec => []CommandInv
  <1>1. CommandTypeOK /\ Held => CommandInv
    BY HeldStands DEF Held, CommandInv
  <1> QED
    BY <1>1, CommandHeld, PTL

\* RunIdempotent and insertCommand: the outcome of a committed execution is what
\* its key replays until a replica's clock reaches its expiry.
THEOREM OutcomeStands ==
    CommandSpec => []EntryStands
  <1>1. CommandInv => EntryStands
    BY DEF CommandInv
  <1> QED
    BY <1>1, CommandInvariant, PTL

\* Two executions under one key are Retention - Deadline - 2 * MaxSkew apart,
\* the purge and the stale clock reading of a waiting call included.
THEOREM ExecutionsAreApart ==
    CommandSpec => []RepeatsAreApart
  <1>1. Held => RepeatsAreApart
    BY DEF Held
  <1> QED
    BY <1>1, CommandHeld, PTL

\* What a call is told of its own execution, and of another's, is true.
THEOREM AnswersHold ==
    CommandSpec => []AnswersAreTruthful
  <1>1. CommandInv => AnswersAreTruthful
    BY DEF CommandInv
  <1> QED
    BY <1>1, CommandInvariant, PTL

\* Register never finds its conflicting row gone.
THEOREM ConflictIsReadable ==
    CommandSpec => []ConflictingRowRemains
  <1>1. CommandInv => ConflictingRowRemains
    BY DEF CommandInv
  <1> QED
    BY <1>1, CommandInvariant, PTL

=============================================================================
