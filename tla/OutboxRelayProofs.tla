------------------------- MODULE OutboxRelayProofs -------------------------
(* Safety of the outbox drain, and that it implements AtLeastOnce, for    *)
(* every number of relays, messages and upsets.                            *)
EXTENDS OutboxRelay, FiniteSetTheorems, TLAPS

(***************************************************************************)
(* Type correctness.                                                       *)
(***************************************************************************)

LEMMA RowTypes ==
    ASSUME NEW x \in Row, NEW c \in Nat, NEW at \in {"due", "later"},
           NEW reason \in {"null", "own", "transport"}
    PROVE  /\ NoRow \in Row
           /\ InsertOutbox(at) \in Row
           /\ ClaimStatement(x, c) \in Row
           /\ MarkPublishedStatement(x) \in Row
           /\ RescheduleStatement(x, at, reason) \in Row
           /\ FailStatement(x, reason) \in Row
           /\ DeletePublished(x) \in Row
<1>1. NoRow \in Row
  BY DEF Row, Statuses, NoRow, NoClaim
<1>2. InsertOutbox(at) \in Row
  BY DEF Row, Statuses, NoRow, NoClaim, InsertOutbox
<1>3. ClaimStatement(x, c) \in Row
  <2> DEFINE n == x.attemptCount + 1
  <2>1. n \in Nat
    BY DEF Row
  <2>2. [x EXCEPT !.status = "publishing", !.lockedBy = c, !.lockedUntil = "ahead",
                  !.attemptCount = n] \in Row
    <3> HIDE DEF n
    <3> QED BY <2>1 DEF Row, Statuses
  <2>3. QED BY <2>2 DEF ClaimStatement
<1>4. MarkPublishedStatement(x) \in Row
  BY DEF Row, Statuses, MarkPublishedStatement
<1>5. RescheduleStatement(x, at, reason) \in Row
  BY DEF Row, Statuses, RescheduleStatement
<1>6. FailStatement(x, reason) \in Row
  BY DEF Row, Statuses, FailStatement
<1>7. DeletePublished(x) \in Row
  BY DEF Row, Statuses, NoRow, NoClaim, DeletePublished
<1>8. QED
  BY <1>1, <1>2, <1>3, <1>4, <1>5, <1>6, <1>7

LEMMA ClaimType ==
    ASSUME NEW x \in Row, NEW c \in Nat
    PROVE  ClaimStatement(x, c) \in Row
  BY RowTypes

\* One delivery moves to another job.
LEMMA JobType ==
    ASSUME job \in [Relays -> [Messages -> Jobs]], NEW r \in Relays, NEW m \in Messages,
           NEW j \in Jobs, SetJob(r, m, j)
    PROVE  job' \in [Relays -> [Messages -> Jobs]]
  BY DEF SetJob

LEMMA UpsetType ==
    ASSUME upsets \in 0..MaxUpsets, Upset
    PROVE  upsets' \in 0..MaxUpsets
  BY ConstantsAssumption DEF Upset

LEMMA TypeInit == Init => TypeOK
  BY ConstantsAssumption, RowTypes
     DEF Init, TypeOK, Row, Statuses, NoRow, NoClaim, NoJobs, NoAttempts, Jobs, Phases

LEMMA TypeStep == TypeOK /\ [Next]_vars => TypeOK'
<1> SUFFICES ASSUME TypeOK, [Next]_vars PROVE TypeOK'
  OBVIOUS
<1> USE ConstantsAssumption DEF TypeOK, table, broker, relayVars, ghosts
<1>1. ASSUME NEW m \in Messages, NEW at \in {"due", "later"}, Enqueue(m, at)
      PROVE  TypeOK'
  BY <1>1, RowTypes DEF Enqueue
<1>2. ASSUME NEW r \in Relays, Start(r) \/ Stop(r)
      PROVE  TypeOK'
  BY <1>2 DEF Start, Stop, Phases
<1>3. ASSUME NEW S \in Batches PROVE [m \in Messages |-> IF m \in S THEN ClaimStatement(row[m], lastClaim + 1) ELSE row[m]] \in [Messages -> Row]
  <2>1. \A m \in Messages : ClaimStatement(row[m], lastClaim + 1) \in Row
    BY ClaimType
  <2>2. QED BY <2>1
<1>4. ASSUME NEW r \in Relays, NEW S \in Batches, Claim(r, S)
      PROVE  TypeOK'
  <2>1. row' \in [Messages -> Row]
    BY <1>3, <1>4 DEF Claim, ClaimRows
  <2>2. attempt' \in [Relays -> [Messages -> Nat]]
    BY <1>4 DEF Claim, Row
  <2>3. job' \in [Relays -> [Messages -> Jobs]]
    BY <1>4 DEF Claim, Jobs
  <2>4. QED BY <2>1, <2>2, <2>3, <1>4 DEF Claim, Phases
<1>5. ASSUME NEW r \in Relays, NEW S \in Batches, ClaimAnswerLost(r, S)
      PROVE  TypeOK'
  <2>1. row' \in [Messages -> Row]
    BY <1>3, <1>5 DEF ClaimAnswerLost, ClaimRows
  <2>2. orphaned' \subseteq Messages \X Nat
    BY <1>5 DEF ClaimAnswerLost, Batches
  <2>3. QED BY <2>1, <2>2, <1>5 DEF ClaimAnswerLost, Upset, Phases
<1>6. ASSUME NEW r \in Relays, ClaimFails(r) \/ Cancel(r)
      PROVE  TypeOK'
  <2>1. upsets' \in 0..MaxUpsets
    BY <1>6, UpsetType DEF ClaimFails, Cancel
  <2>2. CASE ClaimFails(r)
    BY <2>1, <2>2 DEF ClaimFails, Phases
  <2>3. CASE Cancel(r)
    BY <2>1, <2>3 DEF Cancel
  <2>4. QED BY <1>6, <2>2, <2>3
<1>7. ASSUME NEW r \in Relays, NEW m \in Messages, Send(r, m) \/ Abandon(r, m)
      PROVE  TypeOK'
  <2>1. job' \in [Relays -> [Messages -> Jobs]]
    BY <1>7, JobType DEF Send, Abandon, Jobs
  <2>2. QED BY <2>1, <1>7 DEF Send, Abandon
<1>8. ASSUME NEW r \in Relays, NEW m \in Messages,
             PublishAccepted(r, m) \/ PublishRefused(r, m)
      PROVE  TypeOK'
  <2>1. job' \in [Relays -> [Messages -> Jobs]]
    BY <1>8, JobType DEF PublishAccepted, PublishRefused, Jobs
  <2>2. CASE PublishAccepted(r, m)
    BY <2>1, <2>2 DEF PublishAccepted
  <2>3. CASE PublishRefused(r, m)
    BY <2>1, <2>3, UpsetType DEF PublishRefused
  <2>4. QED BY <1>8, <2>2, <2>3
<1>9. ASSUME NEW r \in Relays, NEW m \in Messages, NEW new \in Row, Transition(r, m, new)
      PROVE  /\ row' \in [Messages -> Row]
             /\ job' \in [Relays -> [Messages -> Jobs]]
             /\ upsets' \in 0..MaxUpsets
  <2>1. row' \in [Messages -> Row]
    BY <1>9 DEF Transition
  <2>2. job' \in [Relays -> [Messages -> Jobs]]
    BY <1>9, JobType DEF Transition, Jobs
  <2>3. upsets' \in 0..MaxUpsets
    BY <1>9, UpsetType DEF Transition
  <2>4. QED BY <2>1, <2>2, <2>3
<1>10. ASSUME NEW r \in Relays, NEW m \in Messages, NEW at \in {"due", "later"},
              MarkPublished(r, m) \/ Fail(r, m) \/ Reschedule(r, m, at)
       PROVE  TypeOK'
  BY <1>9, <1>10, RowTypes DEF MarkPublished, Fail, Reschedule
<1>11. ASSUME NEW r \in Relays, NEW m \in Messages, DeliveryPanics(r, m)
       PROVE  TypeOK'
  BY <1>11 DEF DeliveryPanics, SetJob, Upset, Jobs
<1>12. ASSUME NEW r \in Relays, DrainPanics(r)
       PROVE  TypeOK'
  BY <1>12 DEF DrainPanics, Upset, Jobs
<1>13. ASSUME NEW r \in Relays, NEW m \in Messages, NEW at \in {"due", "later"}, Release(r, m, at)
       PROVE  TypeOK'
  BY <1>13, RowTypes DEF Release, SetJob, Upset, Jobs
<1>14. ASSUME NEW r \in Relays, EndScan(r) \/ Crash(r)
       PROVE  TypeOK'
  <2>1. /\ job' \in [Relays -> [Messages -> Jobs]]
        /\ attempt' \in [Relays -> [Messages -> Nat]]
        /\ claim' \in [Relays -> Nat]
        /\ phase' \in [Relays -> Phases]
    <3>1. NoJobs \in [Messages -> Jobs] /\ NoAttempts \in [Messages -> Nat] /\ NoClaim \in Nat
      BY DEF NoJobs, NoAttempts, NoClaim, Jobs
    <3>2. CASE EndScan(r)
      BY <3>1, <3>2 DEF EndScan, Phases
    <3>3. CASE Crash(r)
      BY <3>1, <3>3 DEF Crash, Phases
    <3>4. QED BY <1>14, <3>2, <3>3
  <2>2. CASE EndScan(r)
    BY <2>1, <2>2 DEF EndScan
  <2>3. CASE Crash(r)
    BY <2>1, <2>3, UpsetType DEF Crash, Held
  <2>4. QED BY <1>14, <2>2, <2>3
<1>15. ASSUME NEW m \in Messages, LeaseLapses(m) \/ BecomesDue(m) \/ PurgePublished(m)
       PROVE  TypeOK'
  <2>1. row' \in [Messages -> Row]
    <3>1. CASE LeaseLapses(m)
      <4>1. [row[m] EXCEPT !.lockedUntil = "past"] \in Row
        BY DEF Row
      <4>2. row' = [row EXCEPT ![m] = [row[m] EXCEPT !.lockedUntil = "past"]]
        BY <3>1 DEF LeaseLapses
      <4>3. QED BY <4>1, <4>2
    <3>2. CASE BecomesDue(m)
      <4>1. [row[m] EXCEPT !.availableAt = "due"] \in Row
        BY DEF Row
      <4>2. row' = [row EXCEPT ![m] = [row[m] EXCEPT !.availableAt = "due"]]
        BY <3>2 DEF BecomesDue
      <4>3. QED BY <4>1, <4>2
    <3>3. CASE PurgePublished(m)
      <4>1. DeletePublished(row[m]) \in Row
        BY RowTypes
      <4>2. QED BY <3>3, <4>1 DEF PurgePublished
    <3>4. QED BY <1>15, <3>1, <3>2, <3>3
  <2>2. QED BY <2>1, <1>15 DEF LeaseLapses, BecomesDue, PurgePublished, Upset
<1>16. ASSUME NEW m \in Messages, NEW c \in 1..lastClaim, LateArrival(m, c)
       PROVE  TypeOK'
  BY <1>16 DEF LateArrival
<1>17. CASE UNCHANGED vars
  BY <1>17 DEF vars
<1>18. QED
  BY <1>1, <1>2, <1>4, <1>5, <1>6, <1>7, <1>8, <1>10, <1>11, <1>12, <1>13, <1>14, <1>15, <1>16, <1>17
     DEF Next, Loop, Deliver, Environment

(***************************************************************************)
(* The inductive invariant.                                                *)
(***************************************************************************)

\* The columns each statement writes, and that it leaves the others alone.
LEMMA InsertFields ==
    ASSUME NEW at \in {"due", "later"}
    PROVE  /\ InsertOutbox(at).status = "pending"
           /\ InsertOutbox(at).lockedBy = NoClaim
           /\ InsertOutbox(at).lockedUntil = "null"
  BY DEF InsertOutbox, NoRow

LEMMA ClaimFields ==
    ASSUME NEW x \in Row, NEW c \in Nat
    PROVE  /\ ClaimStatement(x, c).status = "publishing"
           /\ ClaimStatement(x, c).lockedBy = c
           /\ ClaimStatement(x, c).lockedUntil = "ahead"
           /\ ClaimStatement(x, c).attemptCount = x.attemptCount + 1
  BY DEF ClaimStatement, Row

LEMMA PublishedFields ==
    ASSUME NEW x \in Row
    PROVE  /\ MarkPublishedStatement(x).status = "published"
           /\ MarkPublishedStatement(x).lockedBy = x.lockedBy
           /\ MarkPublishedStatement(x).lockedUntil = "null"
           /\ MarkPublishedStatement(x).attemptCount = x.attemptCount
  BY DEF MarkPublishedStatement, Row

LEMMA RescheduleFields ==
    ASSUME NEW x \in Row, NEW at, NEW reason
    PROVE  /\ RescheduleStatement(x, at, reason).status = x.status
           /\ RescheduleStatement(x, at, reason).lockedBy = x.lockedBy
           /\ RescheduleStatement(x, at, reason).lockedUntil = "null"
           /\ RescheduleStatement(x, at, reason).attemptCount = x.attemptCount
           /\ reason = "null" => RescheduleStatement(x, at, reason).lastError = x.lastError
  BY DEF RescheduleStatement, Row

LEMMA FailFields ==
    ASSUME NEW x \in Row, NEW reason
    PROVE  /\ FailStatement(x, reason).status = "failed"
           /\ FailStatement(x, reason).lockedBy = x.lockedBy
           /\ FailStatement(x, reason).lockedUntil = "null"
           /\ FailStatement(x, reason).attemptCount = x.attemptCount
           /\ FailStatement(x, reason).lastError = reason
  BY DEF FailStatement, Row

LEMMA DeleteFields ==
    ASSUME NEW x
    PROVE  /\ DeletePublished(x).status = "purged"
           /\ DeletePublished(x).lockedBy = NoClaim
           /\ DeletePublished(x).lockedUntil = "null"
  BY DEF DeletePublished, NoRow

\* A step that leaves rows and identities alone, and lets no record go, keeps
\* every lease accounted for.
LEMMA LeasesKept ==
    ASSUME NoLeaseLeftBehind, row' = row, claim' = claim, orphaned \subseteq orphaned',
           \A s \in Relays : Held(s) \subseteq Held(s)'
    PROVE  NoLeaseLeftBehind'
  BY DEF NoLeaseLeftBehind, Attended

\* What a conditional write of relay r on record m may do, whatever becomes of
\* its answer: nothing but row m and delivery <<r, m>> changes; the row changes
\* only under r's claim; and a record r lets go was written, or is orphaned.
Settles(r, m, new) ==
    /\ UNCHANGED <<log, wire, phase, claim, attempt, lastClaim>>
    /\ orphaned' \in {orphaned, orphaned \cup {<<m, claim[r]>>}}
    /\ \A n \in Messages \ {m} : row'[n] = row[n]
    /\ row'[m] = row[m] \/ (row'[m] = new /\ HeldBy(row[m], claim[r]))
    /\ \A s \in Relays, n \in Messages : s # r \/ n # m => job'[s][n] = job[s][n]
    /\ job'[r][m] \in {"settled", "unfinished"}
    /\ job'[r][m] = "settled" /\ HeldBy(row[m], claim[r]) =>
          row'[m] = new \/ <<m, claim[r]>> \in orphaned'

LEMMA TransitionSettles ==
    ASSUME TypeOK, NEW r \in Relays, NEW m \in Messages, NEW new, Transition(r, m, new),
           UNCHANGED <<log, wire, phase, claim, attempt, lastClaim, orphaned>>
    PROVE  Settles(r, m, new)
<1> USE DEF TypeOK
<1>1. \A n \in Messages \ {m} : row'[n] = row[n]
  BY DEF Transition
<1>2. row'[m] = row[m] \/ (row'[m] = new /\ HeldBy(row[m], claim[r]))
  BY DEF Transition
<1>3. \A s \in Relays, n \in Messages : s # r \/ n # m => job'[s][n] = job[s][n]
  BY DEF Transition, SetJob
<1>4. job'[r][m] \in {"settled", "unfinished"}
  BY DEF Transition, SetJob
<1>5. job'[r][m] = "settled" /\ HeldBy(row[m], claim[r]) => row'[m] = new
  BY DEF Transition, SetJob
<1>6. QED
  BY <1>1, <1>2, <1>3, <1>4, <1>5 DEF Settles

LEMMA ReleaseSettles ==
    ASSUME TypeOK, NEW r \in Relays, NEW m \in Messages, NEW at, Release(r, m, at)
    PROVE  Settles(r, m, RescheduleStatement(row[m], at, "null"))
<1> USE DEF TypeOK
<1>1. \A n \in Messages \ {m} : row'[n] = row[n]
  BY DEF Release, ghosts
<1>2. \/ row'[m] = row[m]
      \/ /\ row'[m] = RescheduleStatement(row[m], at, "null")
         /\ HeldBy(row[m], claim[r])
  BY DEF Release, ghosts
<1>3. /\ \A s \in Relays, n \in Messages : s # r \/ n # m => job'[s][n] = job[s][n]
      /\ job'[r][m] = "settled"
  BY DEF Release, SetJob
<1>4. HeldBy(row[m], claim[r]) =>
         row'[m] = RescheduleStatement(row[m], at, "null") \/ <<m, claim[r]>> \in orphaned'
  BY DEF Release, ghosts
<1>5. QED
  BY <1>1, <1>2, <1>3, <1>4 DEF Settles, Release, broker, ghosts

\* The part of the invariant that does not depend on which statement is written.
LEMMA SettleInv ==
    ASSUME TypeOK, TypeOK', RelayInv, NEW r \in Relays, NEW m \in Messages,
           job[r][m] \notin {"none", "settled"}, NEW new, Settles(r, m, new),
           new.lockedBy = row[m].lockedBy,
           new.lockedUntil = "null",
           new.attemptCount = row[m].attemptCount,
           HeldBy(row[m], claim[r]) =>
              \/ new.status = row[m].status
              \/ row[m].status = "publishing" /\ new.status \in {"published", "failed"}
    PROVE  /\ ClaimsAreFresh'
           /\ RowsAreConsistent'
           /\ DeliveriesAreConsistent'
           /\ OnePublicationPerClaim'
           /\ NoLeaseLeftBehind'
<1> USE DEF TypeOK, RelayInv
<1>1. <<m, claim[r]>> \in Messages \X (1..lastClaim)
  BY DEF ClaimsAreFresh, NoClaim
<1>2. ClaimsAreFresh'
  <2>1. (log \cup wire \cup orphaned)' \subseteq Messages \X (1..lastClaim)'
    BY <1>1 DEF ClaimsAreFresh, Settles
  <2>2. \A n \in Messages : row'[n].lockedBy <= lastClaim'
    BY DEF ClaimsAreFresh, Settles
  <2>3. \A s \in Relays : phase'[s] # "scan" => \A n \in Messages : job'[s][n] = "none"
    <3>1. phase[r] = "scan"
      BY DEF ClaimsAreFresh
    <3>2. \A s \in Relays : phase'[s] # "scan" => phase[s] # "scan" /\ s # r
      BY <3>1 DEF Settles
    <3>3. QED BY <3>2 DEF ClaimsAreFresh, Settles
  <2>4. QED BY <2>1, <2>2, <2>3 DEF ClaimsAreFresh, Settles
<1>3. RowsAreConsistent'
  <2> SUFFICES ASSUME NEW n \in Messages
               PROVE  /\ row'[n].lockedUntil # "null" => row'[n].status = "publishing"
                      /\ row'[n].status \in {"absent", "pending", "purged"} => row'[n].lockedBy = NoClaim
    BY DEF RowsAreConsistent
  <2>1. CASE row'[n] = row[n]
    BY <2>1 DEF RowsAreConsistent
  <2>2. CASE n = m /\ row'[m] = new /\ HeldBy(row[m], claim[r])
    BY <2>2 DEF RowsAreConsistent
  <2>3. QED BY <2>1, <2>2 DEF Settles
<1>4. DeliveriesAreConsistent'
  <2> SUFFICES ASSUME NEW s \in Relays, NEW n \in Messages
               PROVE  /\ job'[s][n] = "accepted" => <<n, claim'[s]>> \in log'
                      /\ job'[s][n] = "invalid" => n \in Unassemblable
                      /\ job'[s][n] # "none" => row'[n].status \notin {"absent", "pending"}
                      /\ (n \in Held(s) /\ HeldBy(row[n], claim[s]))' =>
                            /\ attempt'[s][n] = row'[n].attemptCount
                            /\ job'[s][n] # "unfinished" => row'[n].status = "publishing"
    BY DEF DeliveriesAreConsistent
  <2>1. CASE n # m
    BY <2>1 DEF DeliveriesAreConsistent, Settles, Held, HeldBy, InTable
  <2>2. CASE n = m /\ s = r
    BY <2>2 DEF DeliveriesAreConsistent, Settles, Held, HeldBy, InTable
  <2>3. CASE n = m /\ s # r
    <3>1. CASE HeldBy(row[m], claim[r])
      <4>1. claim[s] # claim[r]
        BY <2>3 DEF ClaimsAreFresh
      <4>2. ~HeldBy(row'[m], claim'[s])
        BY <3>1, <4>1 DEF Settles, HeldBy
      <4>3. QED BY <2>3, <4>2 DEF DeliveriesAreConsistent, Settles, HeldBy
    <3>2. CASE ~HeldBy(row[m], claim[r])
      BY <2>3, <3>2 DEF DeliveriesAreConsistent, Settles, Held, HeldBy, InTable
    <3>3. QED BY <3>1, <3>2
  <2>4. QED BY <2>1, <2>2, <2>3
<1>5. OnePublicationPerClaim'
  BY DEF OnePublicationPerClaim, Settles
<1>6. NoLeaseLeftBehind'
  <2> SUFFICES ASSUME NEW n \in Messages, row'[n].lockedUntil # "null"
               PROVE  Attended(n)' \/ <<n, row'[n].lockedBy>> \in orphaned'
    BY DEF NoLeaseLeftBehind
  <2>1. row'[n] = row[n]
    BY DEF Settles
  <2>2. CASE <<n, row[n].lockedBy>> \in orphaned
    BY <2>1, <2>2 DEF Settles
  <2>3. ASSUME NEW s \in Relays, claim[s] # NoClaim, claim[s] = row[n].lockedBy, n \in Held(s)
        PROVE  Attended(n)' \/ <<n, row'[n].lockedBy>> \in orphaned'
    <3>1. CASE n # m \/ s # r
      BY <2>1, <2>3, <3>1 DEF Attended, Held, Settles
    <3>2. CASE n = m /\ s = r /\ job'[r][m] = "unfinished"
      BY <2>1, <2>3, <3>2 DEF Attended, Held, Settles
    <3>3. CASE n = m /\ s = r /\ job'[r][m] = "settled"
      <4>1. HeldBy(row[m], claim[r])
        BY <2>1, <2>3, <3>3 DEF RowsAreConsistent, HeldBy, InTable
      <4>2. row'[m] # new
        BY <3>3
      <4>3. QED BY <2>1, <2>3, <3>3, <4>1, <4>2 DEF Settles
    <3>4. QED BY <3>1, <3>2, <3>3 DEF Settles
  <2>4. Attended(n) \/ <<n, row[n].lockedBy>> \in orphaned
    BY <2>1 DEF NoLeaseLeftBehind
  <2>5. QED BY <2>2, <2>3, <2>4 DEF Attended
<1>7. QED BY <1>2, <1>3, <1>4, <1>5, <1>6

LEMMA RelayInvInit == Init => RelayInv
  BY DEF Init, RelayInv, ClaimsAreFresh, RowsAreConsistent, DeliveriesAreConsistent,
         OnePublicationPerClaim, PublishedWasAccepted, FailedForCause, NoLeaseLeftBehind,
         NoRow, NoClaim, NoJobs, Held

LEMMA EnqueueInv ==
    ASSUME TypeOK, TypeOK', RelayInv, NEW m \in Messages, NEW at \in {"due", "later"}, Enqueue(m, at)
    PROVE  RelayInv'
<1> USE DEF TypeOK, RelayInv, table, broker, relayVars, ghosts
<1>1. ClaimsAreFresh'
  BY InsertFields DEF ClaimsAreFresh, Enqueue, NoClaim
<1>2. RowsAreConsistent'
  BY <1>1, InsertFields DEF RowsAreConsistent, Enqueue, DeliveriesAreConsistent, ClaimsAreFresh
<1>3. DeliveriesAreConsistent'
  BY <1>1, InsertFields DEF DeliveriesAreConsistent, Held, HeldBy, InTable, Enqueue, ClaimsAreFresh, RowsAreConsistent
<1>4. OnePublicationPerClaim'
  BY <1>1, InsertFields DEF OnePublicationPerClaim, Enqueue, ClaimsAreFresh
<1>5. PublishedWasAccepted'
  BY ZenonT(30), <1>1, InsertFields DEF PublishedWasAccepted, Enqueue, DeliveriesAreConsistent, ClaimsAreFresh
<1>6. FailedForCause'
  BY <1>1, InsertFields DEF FailedForCause, Enqueue, DeliveriesAreConsistent, ClaimsAreFresh
<1>7. NoLeaseLeftBehind'
  BY <1>1, InsertFields DEF NoLeaseLeftBehind, Attended, Held, Enqueue, ClaimsAreFresh, RowsAreConsistent
<1>8. QED BY <1>1, <1>2, <1>3, <1>4, <1>5, <1>6, <1>7

LEMMA ClaimInv ==
    ASSUME TypeOK, TypeOK', RelayInv, NEW r \in Relays, NEW S \in Batches, Claim(r, S)
    PROVE  RelayInv'
<1> USE DEF TypeOK, RelayInv, table, broker, relayVars, ghosts
<1>1. ClaimsAreFresh'
  <2>1. S \subseteq Messages /\ lastClaim' = lastClaim + 1
    BY DEF Claim, Batches
  <2>2. \A n \in Messages : row'[n].lockedBy <= lastClaim'
    BY <2>1, ClaimFields DEF Claim, ClaimRows, ClaimsAreFresh, Row
  <2>3. (log \cup wire \cup orphaned)' \subseteq Messages \X (1..lastClaim')
    BY <2>1 DEF Claim, ClaimsAreFresh
  <2>4. \A s \in Relays : claim'[s] <= lastClaim'
    BY <2>1 DEF Claim, ClaimsAreFresh
  <2>5. \A s, t \in Relays : claim'[s] = claim'[t] /\ claim'[s] # NoClaim => s = t
    BY <2>1 DEF Claim, ClaimsAreFresh
  <2>6. /\ \A s \in Relays : phase'[s] = "scan" <=> claim'[s] # NoClaim
        /\ \A s \in Relays : phase'[s] # "scan" => \A n \in Messages : job'[s][n] = "none"
    BY <2>1 DEF Claim, ClaimsAreFresh, NoClaim
  <2>7. QED BY <2>2, <2>3, <2>4, <2>5, <2>6 DEF ClaimsAreFresh
<1>2. RowsAreConsistent'
  BY <1>1, ClaimFields DEF RowsAreConsistent, Claim, ClaimRows, Batches, Claimable, DeliveriesAreConsistent, ClaimsAreFresh
<1>3. DeliveriesAreConsistent'
  BY <1>1, ClaimFields DEF DeliveriesAreConsistent, Held, HeldBy, InTable, Claim, ClaimRows, Batches, Claimable, ClaimsAreFresh, RowsAreConsistent
<1>4. OnePublicationPerClaim'
  BY <1>1, ClaimFields DEF OnePublicationPerClaim, Claim, ClaimRows, Batches, Claimable, ClaimsAreFresh
<1>5. PublishedWasAccepted'
  BY <1>1, ClaimFields DEF PublishedWasAccepted, Claim, ClaimRows, Batches, Claimable, DeliveriesAreConsistent, ClaimsAreFresh
<1>6. FailedForCause'
  BY <1>1, ClaimFields DEF FailedForCause, Claim, ClaimRows, Batches, Claimable, DeliveriesAreConsistent, ClaimsAreFresh
<1>7. NoLeaseLeftBehind'
  <2> SUFFICES ASSUME NEW n \in Messages, row'[n].lockedUntil # "null"
               PROVE  Attended(n)' \/ <<n, row'[n].lockedBy>> \in orphaned'
    BY DEF NoLeaseLeftBehind
  <2>1. CASE n \in S
    <3>1. claim'[r] = lastClaim + 1 /\ job'[r][n] = "queued"
      BY <2>1 DEF Claim
    <3>2. row'[n].lockedBy = lastClaim + 1
      BY <2>1, ClaimFields DEF Claim, ClaimRows
    <3>3. n \in Held(r)' /\ claim'[r] # NoClaim
      BY <3>1 DEF Held, NoClaim
    <3>4. QED BY <3>1, <3>2, <3>3 DEF Attended
  <2>2. CASE n \notin S
    <3>1. row'[n] = row[n] /\ orphaned' = orphaned
      BY <2>2 DEF Claim, ClaimRows
    <3>2. \A s \in Relays : claim[s] # NoClaim => claim'[s] = claim[s] /\ job'[s] = job[s]
      BY DEF Claim, ClaimsAreFresh
    <3>3. QED BY <3>1, <3>2 DEF NoLeaseLeftBehind, Attended, Held
  <2>3. QED BY <2>1, <2>2
<1>8. QED BY <1>1, <1>2, <1>3, <1>4, <1>5, <1>6, <1>7

LEMMA ClaimAnswerLostInv ==
    ASSUME TypeOK, TypeOK', RelayInv, NEW r \in Relays, NEW S \in Batches, ClaimAnswerLost(r, S)
    PROVE  RelayInv'
<1> USE DEF TypeOK, RelayInv, table, broker, relayVars, ghosts
<1>1. ClaimsAreFresh'
  <2>1. S \subseteq Messages /\ lastClaim' = lastClaim + 1
    BY DEF ClaimAnswerLost, Batches
  <2>2. \A n \in Messages : row'[n].lockedBy <= lastClaim'
    BY <2>1, ClaimFields DEF ClaimAnswerLost, ClaimRows, ClaimsAreFresh, Row
  <2>3. (log \cup wire \cup orphaned)' \subseteq Messages \X (1..lastClaim')
    BY <2>1 DEF ClaimAnswerLost, ClaimsAreFresh
  <2>4. QED BY <2>1, <2>2, <2>3 DEF ClaimAnswerLost, ClaimsAreFresh
<1>2. RowsAreConsistent'
  BY <1>1, ClaimFields DEF RowsAreConsistent, ClaimAnswerLost, ClaimRows, Batches, Claimable, DeliveriesAreConsistent, ClaimsAreFresh
<1>3. DeliveriesAreConsistent'
  BY <1>1, ClaimFields DEF DeliveriesAreConsistent, Held, HeldBy, InTable, ClaimAnswerLost, ClaimRows, Batches, Claimable, ClaimsAreFresh, RowsAreConsistent
<1>4. OnePublicationPerClaim'
  BY <1>1, ClaimFields DEF OnePublicationPerClaim, ClaimAnswerLost, ClaimRows, Batches, Claimable, ClaimsAreFresh
<1>5. PublishedWasAccepted'
  BY <1>1, ClaimFields DEF PublishedWasAccepted, ClaimAnswerLost, ClaimRows, Batches, Claimable, DeliveriesAreConsistent, ClaimsAreFresh
<1>6. FailedForCause'
  BY <1>1, ClaimFields DEF FailedForCause, ClaimAnswerLost, ClaimRows, Batches, Claimable, DeliveriesAreConsistent, ClaimsAreFresh
<1>7. NoLeaseLeftBehind'
  BY <1>1, ClaimFields DEF NoLeaseLeftBehind, Attended, Held, ClaimAnswerLost, ClaimRows, Batches, Claimable, ClaimsAreFresh, RowsAreConsistent
<1>8. QED BY <1>1, <1>2, <1>3, <1>4, <1>5, <1>6, <1>7

LEMMA SendInv ==
    ASSUME TypeOK, TypeOK', RelayInv, NEW r \in Relays, NEW m \in Messages, Send(r, m)
    PROVE  RelayInv'
<1> USE DEF TypeOK, RelayInv, table, broker, relayVars, ghosts
<1>1. ClaimsAreFresh'
  BY DEF ClaimsAreFresh, Send, SetJob, NoClaim
<1>2. RowsAreConsistent'
  BY <1>1 DEF RowsAreConsistent, Send, SetJob, DeliveriesAreConsistent, ClaimsAreFresh
<1>3. DeliveriesAreConsistent'
  <2>1. /\ row' = row /\ claim' = claim /\ log' = log /\ attempt' = attempt
        /\ \A s \in Relays, n \in Messages : s # r \/ n # m => job'[s][n] = job[s][n]
        /\ job[r][m] = "queued"
        /\ job'[r][m] \in {"invalid", "sending"}
        /\ job'[r][m] = "invalid" => m \in Unassemblable
    BY DEF Send, SetJob
  <2>2. \A s \in Relays, n \in Messages :
           /\ job'[s][n] = "accepted" => job[s][n] = "accepted"
           /\ job'[s][n] = "invalid" => n \in Unassemblable
           /\ job'[s][n] # "none" => job[s][n] # "none"
           /\ n \in Held(s)' => n \in Held(s)
           /\ job'[s][n] # "unfinished" => job[s][n] # "unfinished"
    BY ZenonT(30), <2>1 DEF DeliveriesAreConsistent, Held
  <2>3. QED BY <2>1, <2>2 DEF DeliveriesAreConsistent, HeldBy
<1>4. OnePublicationPerClaim'
  BY <1>1 DEF OnePublicationPerClaim, Send, SetJob, ClaimsAreFresh
<1>5. PublishedWasAccepted'
  BY <1>1 DEF PublishedWasAccepted, Send, SetJob, DeliveriesAreConsistent, ClaimsAreFresh
<1>6. FailedForCause'
  BY <1>1 DEF FailedForCause, Send, SetJob, DeliveriesAreConsistent, ClaimsAreFresh
<1>7. NoLeaseLeftBehind'
  <2>1. \A s \in Relays : Held(s) \subseteq Held(s)'
    BY DEF Held, Send, SetJob
  <2>2. QED BY <2>1, LeasesKept DEF Send
<1>8. QED BY <1>1, <1>2, <1>3, <1>4, <1>5, <1>6, <1>7

LEMMA PublishAcceptedInv ==
    ASSUME TypeOK, TypeOK', RelayInv, NEW r \in Relays, NEW m \in Messages, PublishAccepted(r, m)
    PROVE  RelayInv'
<1> USE DEF TypeOK, RelayInv, table, broker, relayVars, ghosts
<1>1. ClaimsAreFresh'
  BY DEF ClaimsAreFresh, PublishAccepted, SetJob, NoClaim
<1>2. RowsAreConsistent'
  BY <1>1 DEF RowsAreConsistent, PublishAccepted, SetJob, DeliveriesAreConsistent, ClaimsAreFresh
<1>3. DeliveriesAreConsistent'
  BY <1>1 DEF DeliveriesAreConsistent, Held, HeldBy, InTable, PublishAccepted, SetJob, ClaimsAreFresh, RowsAreConsistent
<1>4. OnePublicationPerClaim'
  BY <1>1 DEF OnePublicationPerClaim, PublishAccepted, SetJob, ClaimsAreFresh
<1>5. PublishedWasAccepted'
  BY <1>1 DEF PublishedWasAccepted, PublishAccepted, SetJob, DeliveriesAreConsistent, ClaimsAreFresh
<1>6. FailedForCause'
  BY <1>1 DEF FailedForCause, PublishAccepted, SetJob, DeliveriesAreConsistent, ClaimsAreFresh
<1>7. NoLeaseLeftBehind'
  <2>1. \A s \in Relays : Held(s) \subseteq Held(s)'
    BY DEF Held, PublishAccepted, SetJob
  <2>2. QED BY <2>1, LeasesKept DEF PublishAccepted
<1>8. QED BY <1>1, <1>2, <1>3, <1>4, <1>5, <1>6, <1>7

LEMMA PublishRefusedInv ==
    ASSUME TypeOK, TypeOK', RelayInv, NEW r \in Relays, NEW m \in Messages, PublishRefused(r, m)
    PROVE  RelayInv'
<1> USE DEF TypeOK, RelayInv, table, broker, relayVars, ghosts
<1>1. ClaimsAreFresh'
  BY DEF ClaimsAreFresh, PublishRefused, SetJob, NoClaim
<1>2. RowsAreConsistent'
  BY <1>1 DEF RowsAreConsistent, PublishRefused, SetJob, DeliveriesAreConsistent, ClaimsAreFresh
<1>3. DeliveriesAreConsistent'
  BY <1>1 DEF DeliveriesAreConsistent, Held, HeldBy, InTable, PublishRefused, SetJob, ClaimsAreFresh, RowsAreConsistent
<1>4. OnePublicationPerClaim'
  BY <1>1 DEF OnePublicationPerClaim, PublishRefused, SetJob, ClaimsAreFresh
<1>5. PublishedWasAccepted'
  BY <1>1 DEF PublishedWasAccepted, PublishRefused, SetJob, DeliveriesAreConsistent, ClaimsAreFresh
<1>6. FailedForCause'
  BY <1>1 DEF FailedForCause, PublishRefused, SetJob, DeliveriesAreConsistent, ClaimsAreFresh
<1>7. NoLeaseLeftBehind'
  <2>1. \A s \in Relays : Held(s) \subseteq Held(s)'
    BY DEF Held, PublishRefused, SetJob
  <2>2. QED BY <2>1, LeasesKept DEF PublishRefused
<1>8. QED BY <1>1, <1>2, <1>3, <1>4, <1>5, <1>6, <1>7

LEMMA LateArrivalInv ==
    ASSUME TypeOK, TypeOK', RelayInv, NEW m \in Messages, NEW c \in 1..lastClaim, LateArrival(m, c)
    PROVE  RelayInv'
<1> USE DEF TypeOK, RelayInv, table, broker, relayVars, ghosts
<1>1. ClaimsAreFresh'
  BY DEF ClaimsAreFresh, LateArrival, NoClaim
<1>2. RowsAreConsistent'
  BY <1>1 DEF RowsAreConsistent, LateArrival, DeliveriesAreConsistent, ClaimsAreFresh
<1>3. DeliveriesAreConsistent'
  BY <1>1 DEF DeliveriesAreConsistent, Held, HeldBy, InTable, LateArrival, ClaimsAreFresh, RowsAreConsistent
<1>4. OnePublicationPerClaim'
  BY <1>1 DEF OnePublicationPerClaim, LateArrival, ClaimsAreFresh
<1>5. PublishedWasAccepted'
  BY <1>1 DEF PublishedWasAccepted, LateArrival, DeliveriesAreConsistent, ClaimsAreFresh
<1>6. FailedForCause'
  BY <1>1 DEF FailedForCause, LateArrival, DeliveriesAreConsistent, ClaimsAreFresh
<1>7. NoLeaseLeftBehind'
  BY <1>1 DEF NoLeaseLeftBehind, Attended, Held, LateArrival, ClaimsAreFresh, RowsAreConsistent
<1>8. QED BY <1>1, <1>2, <1>3, <1>4, <1>5, <1>6, <1>7

LEMMA MarkPublishedInv ==
    ASSUME TypeOK, TypeOK', RelayInv, NEW r \in Relays, NEW m \in Messages, MarkPublished(r, m)
    PROVE  RelayInv'
<1> DEFINE new == MarkPublishedStatement(row[m])
<1>1. row[m] \in Row
  BY DEF TypeOK
<1>2. /\ new.lockedBy = row[m].lockedBy
      /\ new.lockedUntil = "null"
      /\ new.attemptCount = row[m].attemptCount
      /\ new.status = "published"
  BY <1>1, PublishedFields
<1>3. Settles(r, m, new)
  BY TransitionSettles DEF MarkPublished, broker
<1>4. /\ job[r][m] = "accepted"
      /\ HeldBy(row[m], claim[r]) => row[m].status = "publishing"
      /\ <<m, claim[r]>> \in log
      /\ claim[r] \in 1..lastClaim
  <2>1. job[r][m] = "accepted"
    BY DEF MarkPublished
  <2>2. QED BY <2>1 DEF TypeOK, RelayInv, ClaimsAreFresh, DeliveriesAreConsistent, Held
<1> HIDE DEF new
<1>5. /\ ClaimsAreFresh' /\ RowsAreConsistent' /\ DeliveriesAreConsistent'
      /\ OnePublicationPerClaim' /\ NoLeaseLeftBehind'
  BY <1>2, <1>3, <1>4, SettleInv
<1>6. PublishedWasAccepted'
  BY <1>3, <1>4 DEF PublishedWasAccepted, RelayInv, Settles
<1>7. FailedForCause'
  BY <1>2, <1>3 DEF FailedForCause, RelayInv, Settles
<1>8. QED BY <1>5, <1>6, <1>7 DEF RelayInv

LEMMA AbandonInv ==
    ASSUME TypeOK, TypeOK', RelayInv, NEW r \in Relays, NEW m \in Messages, Abandon(r, m)
    PROVE  RelayInv'
<1> USE DEF TypeOK, RelayInv, table, broker, relayVars, ghosts
<1>1. ClaimsAreFresh'
  BY DEF ClaimsAreFresh, Abandon, SetJob, NoClaim
<1>2. RowsAreConsistent'
  BY <1>1 DEF RowsAreConsistent, Abandon, SetJob, DeliveriesAreConsistent, ClaimsAreFresh
<1>3. DeliveriesAreConsistent'
  BY <1>1 DEF DeliveriesAreConsistent, Held, HeldBy, InTable, Abandon, SetJob, ClaimsAreFresh, RowsAreConsistent
<1>4. OnePublicationPerClaim'
  BY <1>1 DEF OnePublicationPerClaim, Abandon, SetJob, ClaimsAreFresh
<1>5. PublishedWasAccepted'
  BY <1>1 DEF PublishedWasAccepted, Abandon, SetJob, DeliveriesAreConsistent, ClaimsAreFresh
<1>6. FailedForCause'
  BY <1>1 DEF FailedForCause, Abandon, SetJob, DeliveriesAreConsistent, ClaimsAreFresh
<1>7. NoLeaseLeftBehind'
  <2>1. \A s \in Relays : Held(s) \subseteq Held(s)'
    BY DEF Held, Abandon, SetJob
  <2>2. QED BY <2>1, LeasesKept DEF Abandon
<1>8. QED BY <1>1, <1>2, <1>3, <1>4, <1>5, <1>6, <1>7

LEMMA RescheduleInv ==
    ASSUME TypeOK, TypeOK', RelayInv, NEW r \in Relays, NEW m \in Messages, NEW at \in {"due", "later"},
           Reschedule(r, m, at)
    PROVE  RelayInv'
<1> DEFINE new == RescheduleStatement(row[m], at, "transport")
<1>1. row[m] \in Row
  BY DEF TypeOK
<1>2. /\ new.lockedBy = row[m].lockedBy
      /\ new.lockedUntil = "null"
      /\ new.attemptCount = row[m].attemptCount
      /\ new.status = row[m].status
  BY <1>1, RescheduleFields
<1>3. Settles(r, m, new)
  BY TransitionSettles DEF Reschedule, broker
<1>4. /\ job[r][m] = "refused"
      /\ HeldBy(row[m], claim[r]) => row[m].status = "publishing"
  <2>1. job[r][m] = "refused"
    BY DEF Reschedule
  <2>2. QED BY <2>1 DEF RelayInv, DeliveriesAreConsistent, Held
<1> HIDE DEF new
<1>5. /\ ClaimsAreFresh' /\ RowsAreConsistent' /\ DeliveriesAreConsistent'
      /\ OnePublicationPerClaim' /\ NoLeaseLeftBehind'
  BY <1>2, <1>3, <1>4, SettleInv
<1>6. PublishedWasAccepted'
  BY <1>2, <1>3, <1>4 DEF PublishedWasAccepted, RelayInv, Settles
<1>7. FailedForCause'
  BY <1>2, <1>3, <1>4 DEF FailedForCause, RelayInv, Settles
<1>8. QED BY <1>5, <1>6, <1>7 DEF RelayInv

LEMMA FailInv ==
    ASSUME TypeOK, TypeOK', RelayInv, NEW r \in Relays, NEW m \in Messages, Fail(r, m)
    PROVE  RelayInv'
<1>1. PICK reason \in {"own", "transport"} :
         /\ Transition(r, m, FailStatement(row[m], reason))
         /\ job[r][m] = (IF reason = "own" THEN "invalid" ELSE "refused")
         /\ reason = "transport" => Exhausted(r, m)
  BY DEF Fail
<1> DEFINE new == FailStatement(row[m], reason)
<1>2. /\ new.status = "failed"
      /\ new.lockedBy = row[m].lockedBy
      /\ new.lockedUntil = "null"
      /\ new.attemptCount = row[m].attemptCount
      /\ new.lastError = reason
  BY FailFields DEF TypeOK
<1>3. Settles(r, m, new)
  BY <1>1, TransitionSettles DEF Fail, broker
<1>4. /\ HeldBy(row[m], claim[r]) =>
            row[m].status = "publishing" /\ attempt[r][m] = row[m].attemptCount
      /\ reason = "own" => m \in Unassemblable
  BY <1>1 DEF RelayInv, DeliveriesAreConsistent, Held
<1> HIDE DEF new
<1>5. /\ ClaimsAreFresh' /\ RowsAreConsistent' /\ DeliveriesAreConsistent'
      /\ OnePublicationPerClaim' /\ NoLeaseLeftBehind'
  BY <1>1, <1>2, <1>3, <1>4, SettleInv
<1>6. PublishedWasAccepted'
  BY <1>2, <1>3 DEF PublishedWasAccepted, RelayInv, Settles
<1>7. FailedForCause'
  BY <1>1, <1>2, <1>3, <1>4 DEF FailedForCause, RelayInv, Settles, Exhausted
<1>8. QED BY <1>5, <1>6, <1>7 DEF RelayInv

LEMMA DeliveryPanicsInv ==
    ASSUME TypeOK, TypeOK', RelayInv, NEW r \in Relays, NEW m \in Messages, DeliveryPanics(r, m)
    PROVE  RelayInv'
<1> USE DEF TypeOK, RelayInv, table, broker, relayVars, ghosts
<1>1. ClaimsAreFresh'
  BY DEF ClaimsAreFresh, DeliveryPanics, SetJob, Running, Answered, NoClaim
<1>2. RowsAreConsistent'
  BY <1>1 DEF RowsAreConsistent, DeliveryPanics, SetJob, Running, Answered, DeliveriesAreConsistent, ClaimsAreFresh
<1>3. DeliveriesAreConsistent'
  BY <1>1 DEF DeliveriesAreConsistent, Held, HeldBy, InTable, DeliveryPanics, SetJob, Running, Answered, ClaimsAreFresh, RowsAreConsistent
<1>4. OnePublicationPerClaim'
  BY <1>1 DEF OnePublicationPerClaim, DeliveryPanics, SetJob, Running, Answered, ClaimsAreFresh
<1>5. PublishedWasAccepted'
  BY <1>1 DEF PublishedWasAccepted, DeliveryPanics, SetJob, Running, Answered, DeliveriesAreConsistent, ClaimsAreFresh
<1>6. FailedForCause'
  BY <1>1 DEF FailedForCause, DeliveryPanics, SetJob, Running, Answered, DeliveriesAreConsistent, ClaimsAreFresh
<1>7. NoLeaseLeftBehind'
  <2>1. \A s \in Relays : Held(s) \subseteq Held(s)'
    BY DEF Held, DeliveryPanics, SetJob, Running, Answered
  <2>2. QED BY <2>1, LeasesKept DEF DeliveryPanics
<1>8. QED BY <1>1, <1>2, <1>3, <1>4, <1>5, <1>6, <1>7

LEMMA DrainPanicsInv ==
    ASSUME TypeOK, TypeOK', RelayInv, NEW r \in Relays, DrainPanics(r)
    PROVE  RelayInv'
<1> USE DEF TypeOK, RelayInv, table, broker, relayVars, ghosts
<1>1. ClaimsAreFresh'
  BY DEF ClaimsAreFresh, DrainPanics, NoClaim
<1>2. RowsAreConsistent'
  BY <1>1 DEF RowsAreConsistent, DrainPanics, DeliveriesAreConsistent, ClaimsAreFresh
<1>3. DeliveriesAreConsistent'
  BY <1>1 DEF DeliveriesAreConsistent, Held, HeldBy, InTable, DrainPanics, ClaimsAreFresh, RowsAreConsistent
<1>4. OnePublicationPerClaim'
  BY <1>1 DEF OnePublicationPerClaim, DrainPanics, ClaimsAreFresh
<1>5. PublishedWasAccepted'
  BY <1>1 DEF PublishedWasAccepted, DrainPanics, DeliveriesAreConsistent, ClaimsAreFresh
<1>6. FailedForCause'
  BY <1>1 DEF FailedForCause, DrainPanics, DeliveriesAreConsistent, ClaimsAreFresh
<1>7. NoLeaseLeftBehind'
  BY <1>1 DEF NoLeaseLeftBehind, Attended, Held, DrainPanics, ClaimsAreFresh, RowsAreConsistent
<1>8. QED BY <1>1, <1>2, <1>3, <1>4, <1>5, <1>6, <1>7

LEMMA ReleaseInv ==
    ASSUME TypeOK, TypeOK', RelayInv, NEW r \in Relays, NEW m \in Messages, NEW at \in {"due", "later"},
           Release(r, m, at)
    PROVE  RelayInv'
<1> DEFINE new == RescheduleStatement(row[m], at, "null")
<1>1. row[m] \in Row
  BY DEF TypeOK
<1>2. /\ new.lockedBy = row[m].lockedBy
      /\ new.lockedUntil = "null"
      /\ new.attemptCount = row[m].attemptCount
      /\ new.status = row[m].status /\ new.lastError = row[m].lastError
  BY <1>1, RescheduleFields
<1>3. Settles(r, m, new)
  BY ReleaseSettles
<1>4. job[r][m] = "unfinished"
  BY DEF Release
<1> HIDE DEF new
<1>5. /\ ClaimsAreFresh' /\ RowsAreConsistent' /\ DeliveriesAreConsistent'
      /\ OnePublicationPerClaim' /\ NoLeaseLeftBehind'
  BY <1>2, <1>3, <1>4, SettleInv
<1>6. PublishedWasAccepted'
  BY <1>2, <1>3, <1>4 DEF PublishedWasAccepted, RelayInv, Settles
<1>7. FailedForCause'
  BY <1>2, <1>3 DEF FailedForCause, RelayInv, Settles
<1>8. QED BY <1>5, <1>6, <1>7 DEF RelayInv

LEMMA EndScanInv ==
    ASSUME TypeOK, TypeOK', RelayInv, NEW r \in Relays, EndScan(r)
    PROVE  RelayInv'
<1> USE DEF TypeOK, RelayInv, table, broker, relayVars, ghosts
<1>1. ClaimsAreFresh'
  BY DEF ClaimsAreFresh, EndScan, Drained, NoJobs, NoClaim
<1>2. RowsAreConsistent'
  BY <1>1 DEF RowsAreConsistent, EndScan, Drained, NoJobs, DeliveriesAreConsistent, ClaimsAreFresh
<1>3. DeliveriesAreConsistent'
  BY <1>1 DEF DeliveriesAreConsistent, Held, HeldBy, InTable, EndScan, Drained, NoJobs, ClaimsAreFresh, RowsAreConsistent
<1>4. OnePublicationPerClaim'
  BY <1>1 DEF OnePublicationPerClaim, EndScan, Drained, NoJobs, ClaimsAreFresh
<1>5. PublishedWasAccepted'
  BY <1>1 DEF PublishedWasAccepted, EndScan, Drained, NoJobs, DeliveriesAreConsistent, ClaimsAreFresh
<1>6. FailedForCause'
  BY <1>1 DEF FailedForCause, EndScan, Drained, NoJobs, DeliveriesAreConsistent, ClaimsAreFresh
<1>7. NoLeaseLeftBehind'
  BY <1>1 DEF NoLeaseLeftBehind, Attended, Held, EndScan, Drained, NoJobs, ClaimsAreFresh, RowsAreConsistent
<1>8. QED BY <1>1, <1>2, <1>3, <1>4, <1>5, <1>6, <1>7

LEMMA CrashInv ==
    ASSUME TypeOK, TypeOK', RelayInv, NEW r \in Relays, Crash(r)
    PROVE  RelayInv'
<1> USE DEF TypeOK, RelayInv, table, broker, relayVars, ghosts
<1>1. ClaimsAreFresh'
  <2>1. \A n \in Held(r) : claim[r] \in 1..lastClaim
    BY DEF Held, ClaimsAreFresh, NoClaim
  <2>2. (log \cup wire \cup orphaned)' \subseteq Messages \X (1..lastClaim)
    BY <2>1 DEF Crash, ClaimsAreFresh, Held
  <2>3. QED BY <2>2 DEF Crash, ClaimsAreFresh, NoJobs, NoClaim
<1>2. RowsAreConsistent'
  BY <1>1 DEF RowsAreConsistent, Crash, NoJobs, DeliveriesAreConsistent, ClaimsAreFresh
<1>3. DeliveriesAreConsistent'
  BY <1>1 DEF DeliveriesAreConsistent, Held, HeldBy, InTable, Crash, NoJobs, ClaimsAreFresh, RowsAreConsistent
<1>4. OnePublicationPerClaim'
  BY <1>1 DEF OnePublicationPerClaim, Crash, NoJobs, ClaimsAreFresh
<1>5. PublishedWasAccepted'
  BY <1>1 DEF PublishedWasAccepted, Crash, NoJobs, DeliveriesAreConsistent, ClaimsAreFresh
<1>6. FailedForCause'
  BY <1>1 DEF FailedForCause, Crash, NoJobs, DeliveriesAreConsistent, ClaimsAreFresh
<1>7. NoLeaseLeftBehind'
  <2> SUFFICES ASSUME NEW n \in Messages, row'[n].lockedUntil # "null"
               PROVE  Attended(n)' \/ <<n, row'[n].lockedBy>> \in orphaned'
    BY DEF NoLeaseLeftBehind
  <2>1. row' = row /\ orphaned' = orphaned \cup (Held(r) \X {claim[r]})
    BY DEF Crash
  <2>2. CASE <<n, row[n].lockedBy>> \in orphaned
    BY <2>1, <2>2
  <2>3. CASE Attended(n)
    <3>1. PICK s \in Relays : claim[s] # NoClaim /\ claim[s] = row[n].lockedBy /\ n \in Held(s)
      BY <2>3 DEF Attended
    <3>2. CASE s = r
      BY <2>1, <3>1, <3>2
    <3>3. CASE s # r
      <4>1. claim'[s] = claim[s] /\ job'[s] = job[s]
        BY <3>3 DEF Crash
      <4>2. n \in Held(s)'
        BY <3>1, <4>1 DEF Held
      <4>3. QED BY <2>1, <3>1, <4>1, <4>2 DEF Attended
    <3>4. QED BY <3>2, <3>3
  <2>4. QED BY <2>1, <2>2, <2>3 DEF NoLeaseLeftBehind
<1>8. QED BY <1>1, <1>2, <1>3, <1>4, <1>5, <1>6, <1>7

LEMMA LeaseLapsesInv ==
    ASSUME TypeOK, TypeOK', RelayInv, NEW m \in Messages, LeaseLapses(m)
    PROVE  RelayInv'
<1> USE DEF TypeOK, RelayInv, table, broker, relayVars, ghosts
<1>1. ClaimsAreFresh'
  BY DEF ClaimsAreFresh, LeaseLapses, NoClaim
<1>2. RowsAreConsistent'
  BY <1>1 DEF RowsAreConsistent, LeaseLapses, DeliveriesAreConsistent, ClaimsAreFresh
<1>3. DeliveriesAreConsistent'
  BY <1>1 DEF DeliveriesAreConsistent, Held, HeldBy, InTable, LeaseLapses, ClaimsAreFresh, RowsAreConsistent
<1>4. OnePublicationPerClaim'
  BY <1>1 DEF OnePublicationPerClaim, LeaseLapses, ClaimsAreFresh
<1>5. PublishedWasAccepted'
  BY <1>1 DEF PublishedWasAccepted, LeaseLapses, DeliveriesAreConsistent, ClaimsAreFresh
<1>6. FailedForCause'
  BY <1>1 DEF FailedForCause, LeaseLapses, DeliveriesAreConsistent, ClaimsAreFresh
<1>7. NoLeaseLeftBehind'
  BY <1>1 DEF NoLeaseLeftBehind, Attended, Held, LeaseLapses, ClaimsAreFresh, RowsAreConsistent
<1>8. QED BY <1>1, <1>2, <1>3, <1>4, <1>5, <1>6, <1>7

LEMMA BecomesDueInv ==
    ASSUME TypeOK, TypeOK', RelayInv, NEW m \in Messages, BecomesDue(m)
    PROVE  RelayInv'
<1> USE DEF TypeOK, RelayInv, table, broker, relayVars, ghosts
<1>1. ClaimsAreFresh'
  BY DEF ClaimsAreFresh, BecomesDue, NoClaim
<1>2. RowsAreConsistent'
  BY <1>1 DEF RowsAreConsistent, BecomesDue, DeliveriesAreConsistent, ClaimsAreFresh
<1>3. DeliveriesAreConsistent'
  BY <1>1 DEF DeliveriesAreConsistent, Held, HeldBy, InTable, BecomesDue, ClaimsAreFresh, RowsAreConsistent
<1>4. OnePublicationPerClaim'
  BY <1>1 DEF OnePublicationPerClaim, BecomesDue, ClaimsAreFresh
<1>5. PublishedWasAccepted'
  <2>1. \A n \in Messages : row'[n].status = row[n].status
    BY DEF BecomesDue, Row
  <2>2. QED BY <2>1 DEF PublishedWasAccepted, BecomesDue
<1>6. FailedForCause'
  BY <1>1 DEF FailedForCause, BecomesDue, DeliveriesAreConsistent, ClaimsAreFresh
<1>7. NoLeaseLeftBehind'
  BY <1>1 DEF NoLeaseLeftBehind, Attended, Held, BecomesDue, ClaimsAreFresh, RowsAreConsistent
<1>8. QED BY <1>1, <1>2, <1>3, <1>4, <1>5, <1>6, <1>7

LEMMA PurgePublishedInv ==
    ASSUME TypeOK, TypeOK', RelayInv, NEW m \in Messages, PurgePublished(m)
    PROVE  RelayInv'
<1> USE DEF TypeOK, RelayInv, table, broker, relayVars, ghosts
<1>1. ClaimsAreFresh'
  BY DeleteFields DEF ClaimsAreFresh, PurgePublished, Purgeable, NoClaim
<1>2. RowsAreConsistent'
  BY <1>1, DeleteFields DEF RowsAreConsistent, PurgePublished, Purgeable, DeliveriesAreConsistent, ClaimsAreFresh
<1>3. DeliveriesAreConsistent'
  BY <1>1, DeleteFields DEF DeliveriesAreConsistent, Held, HeldBy, InTable, PurgePublished, Purgeable, ClaimsAreFresh, RowsAreConsistent
<1>4. OnePublicationPerClaim'
  BY <1>1, DeleteFields DEF OnePublicationPerClaim, PurgePublished, Purgeable, ClaimsAreFresh
<1>5. PublishedWasAccepted'
  BY <1>1, DeleteFields DEF PublishedWasAccepted, PurgePublished, Purgeable, DeliveriesAreConsistent, ClaimsAreFresh
<1>6. FailedForCause'
  BY <1>1, DeleteFields DEF FailedForCause, PurgePublished, Purgeable, DeliveriesAreConsistent, ClaimsAreFresh
<1>7. NoLeaseLeftBehind'
  BY <1>1, DeleteFields DEF NoLeaseLeftBehind, Attended, Held, PurgePublished, Purgeable, ClaimsAreFresh, RowsAreConsistent
<1>8. QED BY <1>1, <1>2, <1>3, <1>4, <1>5, <1>6, <1>7

\* A step that touches neither rows, copies, identities nor deliveries.
LEMMA QuietInv ==
    ASSUME RelayInv, UNCHANGED <<row, log, wire, claim, job, attempt, lastClaim, orphaned>>,
           \A r \in Relays : phase'[r] = "scan" <=> phase[r] = "scan"
    PROVE  RelayInv'
<1> USE DEF RelayInv
<1>1. ClaimsAreFresh'
  BY DEF ClaimsAreFresh
<1>2. RowsAreConsistent' /\ DeliveriesAreConsistent' /\ OnePublicationPerClaim'
  BY DEF RowsAreConsistent, DeliveriesAreConsistent, OnePublicationPerClaim, Held
<1>3. PublishedWasAccepted' /\ FailedForCause'
  BY DEF PublishedWasAccepted, FailedForCause
<1>4. NoLeaseLeftBehind'
  BY LeasesKept DEF Held
<1>5. QED BY <1>1, <1>2, <1>3, <1>4

(***************************************************************************)
(* The theorems.                                                           *)
(***************************************************************************)

LEMMA RelayInvStep == TypeOK /\ TypeOK' /\ RelayInv /\ [Next]_vars => RelayInv'
<1> SUFFICES ASSUME TypeOK, TypeOK', RelayInv, [Next]_vars PROVE RelayInv'
  OBVIOUS
<1>1. ASSUME NEW r \in Relays, Start(r) \/ Stop(r) \/ ClaimFails(r) \/ Cancel(r)
      PROVE  RelayInv'
  BY <1>1, QuietInv DEF TypeOK, Start, Stop, ClaimFails, Cancel, table, broker, relayVars, ghosts
<1>2. CASE UNCHANGED vars
  BY <1>2, QuietInv DEF vars, table, broker, relayVars, ghosts
<1>3. ASSUME NEW r \in Relays, Loop(r) \/ \E S \in Batches : Claim(r, S)
      PROVE  RelayInv'
  BY <1>1, <1>3, ClaimInv, EndScanInv DEF Loop
<1>4. ASSUME NEW r \in Relays, NEW m \in Messages, Deliver(r, m)
      PROVE  RelayInv'
  BY <1>4, SendInv, PublishAcceptedInv, MarkPublishedInv, AbandonInv, RescheduleInv, FailInv,
     ReleaseInv DEF Deliver
<1>5. ASSUME NEW m \in Messages, LeaseLapses(m) \/ BecomesDue(m)
      PROVE  RelayInv'
  BY <1>5, LeaseLapsesInv, BecomesDueInv
<1>6. CASE Environment
  BY <1>1, <1>6, ClaimAnswerLostInv, DrainPanicsInv, CrashInv, PublishRefusedInv,
     DeliveryPanicsInv, EnqueueInv, LateArrivalInv, PurgePublishedInv DEF Environment
<1>7. QED
  BY <1>2, <1>3, <1>4, <1>5, <1>6 DEF Next

\* Every column, process variable and broker set keeps its type (the schema's
\* CHECK on status included) for any number of relays, messages and upsets.
THEOREM TypeCorrect == Spec => []TypeOK
<1>1. QED
  BY TypeInit, TypeStep, PTL DEF Spec

\* The inductive invariant of the drain: identities are fresh, a delivery whose
\* claim is current sees the row it claimed, and what follows from both.
THEOREM RelayInvariant == Spec => []RelayInv
<1>1. QED
  BY RelayInvInit, RelayInvStep, TypeCorrect, PTL DEF Spec

\* A row is published only after the broker accepted a copy of its message.
THEOREM PublishedIsSound == Spec => []PublishedWasAccepted
<1>1. RelayInv => PublishedWasAccepted
  BY DEF RelayInv
<1>2. QED
  BY <1>1, RelayInvariant, PTL

\* A row fails only when it cannot be assembled or its own attempts are spent.
THEOREM FailedIsJustified == Spec => []FailedForCause
<1>1. RelayInv => FailedForCause
  BY DEF RelayInv
<1>2. QED
  BY <1>1, RelayInvariant, PTL

\* Panic and graceful shutdown leave no lease behind (OBX-13).
THEOREM ClaimsAreHandedBack == Spec => []NoLeaseLeftBehind
<1>1. RelayInv => NoLeaseLeftBehind
  BY DEF RelayInv
<1>2. QED
  BY <1>1, RelayInvariant, PTL

-----------------------------------------------------------------------------
(* What a step of the drain may do to a row and to the broker: the status  *)
(* only advances, a superseded claim writes nothing, and the drain         *)
(* implements AtLeastOnce.                                                 *)

\* What one step does to the status of the rows and to the broker, seen from
\* outside: at most one of these things, to one record.
Quiet == /\ \A n \in Messages :
               \/ row'[n].status = row[n].status
               \/ row[n].status = "pending" /\ row'[n].status = "publishing"
               \/ row[n].status = "published" /\ row'[n].status = "purged"
         /\ log' = log
         /\ lastClaim' \in {lastClaim, lastClaim + 1}

\* Rows other than m keep their status, the broker its copies.
OnlyRow(m) == /\ \A n \in Messages \ {m} : row'[n] = row[n]
              /\ log' = log
              /\ lastClaim' = lastClaim

OnlyLog(m) == /\ row' = row
              /\ \E c \in 1..lastClaim : log' = log \cup {<<m, c>>}
              /\ lastClaim' = lastClaim

LEMMA OneRowQuiet ==
    ASSUME NEW m \in Messages, OnlyRow(m), row'[m].status = row[m].status
    PROVE  Quiet
  BY DEF OnlyRow, Quiet

\* The conditional writes: the row is untouched, or it was publishing under the
\* writer's claim.
LEMMA WriteMoves ==
    ASSUME TypeOK, RelayInv, NEW r \in Relays, NEW m \in Messages, NEW new,
           job[r][m] \in Answered, Transition(r, m, new),
           UNCHANGED <<log, wire, phase, claim, attempt, lastClaim, orphaned>>
    PROVE  /\ OnlyRow(m)
           /\ row'[m] = row[m] \/ (row'[m] = new /\ row[m].status = "publishing")
<1>1. Settles(r, m, new)
  BY TransitionSettles
<1>2. HeldBy(row[m], claim[r]) => row[m].status = "publishing"
  BY DEF RelayInv, DeliveriesAreConsistent, Held, Answered
<1>3. QED BY <1>1, <1>2 DEF Settles, OnlyRow

\* Every step is one of five: it shows nothing outside, it commits a record,
\* it brings a copy to the broker, it confirms or it gives up.
LEMMA StepCases ==
    ASSUME TypeOK, TypeOK', RelayInv, Next
    PROVE  \/ Quiet
           \/ \E m \in Messages :
                \/ OnlyRow(m) /\ row[m].status = "absent" /\ row'[m].status = "pending"
                \/ OnlyLog(m) /\ (row[m].status # "absent" \/ \E c \in 1..lastClaim : <<m, c>> \in wire)
                \/ OnlyRow(m) /\ row[m].status = "publishing" /\ row'[m].status = "failed"
                \/ /\ OnlyRow(m) /\ row[m].status = "publishing" /\ row'[m].status = "published"
                   /\ \E c \in 1..lastClaim : <<m, c>> \in log
<1> DEFINE Goal ==
           \/ Quiet
           \/ \E m \in Messages :
                \/ OnlyRow(m) /\ row[m].status = "absent" /\ row'[m].status = "pending"
                \/ OnlyLog(m) /\ (row[m].status # "absent" \/ \E c \in 1..lastClaim : <<m, c>> \in wire)
                \/ OnlyRow(m) /\ row[m].status = "publishing" /\ row'[m].status = "failed"
                \/ /\ OnlyRow(m) /\ row[m].status = "publishing" /\ row'[m].status = "published"
                   /\ \E c \in 1..lastClaim : <<m, c>> \in log
<1> SUFFICES Goal
  OBVIOUS
<1> USE DEF TypeOK, table, broker, relayVars, ghosts
<1>1. ASSUME NEW r \in Relays,
             Start(r) \/ Stop(r) \/ ClaimFails(r) \/ Cancel(r) \/ DrainPanics(r) \/ EndScan(r) \/ Crash(r)
      PROVE  Quiet
  BY <1>1 DEF Quiet, Start, Stop, ClaimFails, Cancel, DrainPanics, EndScan, Crash
<1>2. ASSUME NEW r \in Relays, NEW S \in Batches, Claim(r, S) \/ ClaimAnswerLost(r, S)
      PROVE  Quiet
  <2>1. \A n \in Messages :
           \/ row'[n].status = row[n].status
           \/ row[n].status = "pending" /\ row'[n].status = "publishing"
    <3> TAKE n \in Messages
    <3>1. CASE n \notin S
      BY <1>2, <3>1 DEF Claim, ClaimAnswerLost, ClaimRows
    <3>2. CASE n \in S
      <4>1. row[n].status \in {"pending", "publishing"}
        BY <3>2 DEF Batches, Claimable
      <4>2. row'[n] = ClaimStatement(row[n], lastClaim + 1)
        BY <1>2, <3>2 DEF Claim, ClaimAnswerLost, ClaimRows
      <4>3. row'[n].status = "publishing"
        BY <4>2, ClaimFields
      <4>4. QED BY <4>1, <4>3
    <3>3. QED BY <3>1, <3>2
  <2>2. QED BY <1>2, <2>1 DEF Quiet, Claim, ClaimAnswerLost
<1>3. ASSUME NEW r \in Relays, NEW m \in Messages,
             Send(r, m) \/ Abandon(r, m) \/ PublishRefused(r, m) \/ DeliveryPanics(r, m)
      PROVE  Quiet
  BY <1>3 DEF Quiet, Send, Abandon, PublishRefused, DeliveryPanics
<1>4. ASSUME NEW m \in Messages, LeaseLapses(m) \/ BecomesDue(m) \/ PurgePublished(m)
      PROVE  Quiet
  <2>1. CASE LeaseLapses(m)
    BY <2>1 DEF Quiet, LeaseLapses, Row
  <2>2. CASE BecomesDue(m)
    BY <2>2 DEF Quiet, BecomesDue, Row
  <2>3. CASE PurgePublished(m)
    <3>1. row[m].status = "published" /\ row'[m].status = "purged"
      BY <2>3, DeleteFields DEF PurgePublished, Purgeable
    <3>2. \A n \in Messages \ {m} : row'[n] = row[n]
      BY <2>3 DEF PurgePublished
    <3>3. QED BY <2>3, <3>1, <3>2 DEF Quiet, PurgePublished
  <2>4. QED BY <1>4, <2>1, <2>2, <2>3
<1>5. ASSUME NEW m \in Messages, NEW at \in {"due", "later"}, Enqueue(m, at)
      PROVE  OnlyRow(m) /\ row[m].status = "absent" /\ row'[m].status = "pending"
  BY <1>5, InsertFields DEF OnlyRow, Enqueue
<1>6. ASSUME NEW r \in Relays, NEW m \in Messages, PublishAccepted(r, m)
      PROVE  OnlyLog(m) /\ row[m].status \notin {"absent", "pending"}
  <2>1. claim[r] \in 1..lastClaim
    BY <1>6 DEF RelayInv, ClaimsAreFresh, PublishAccepted, NoClaim
  <2>2. QED BY <1>6, <2>1 DEF OnlyLog, PublishAccepted, RelayInv, DeliveriesAreConsistent
<1>8. ASSUME NEW r \in Relays, NEW m \in Messages, MarkPublished(r, m)
      PROVE  Quiet \/
                /\ OnlyRow(m) /\ row[m].status = "publishing" /\ row'[m].status = "published"
                /\ \E c \in 1..lastClaim : <<m, c>> \in log
  <2>1. job[r][m] = "accepted" /\ Transition(r, m, MarkPublishedStatement(row[m]))
    BY <1>8 DEF MarkPublished
  <2>2. /\ OnlyRow(m)
        /\ \/ row'[m] = row[m]
           \/ row'[m] = MarkPublishedStatement(row[m]) /\ row[m].status = "publishing"
    BY <1>8, <2>1, WriteMoves DEF MarkPublished, Answered
  <2>3. claim[r] \in 1..lastClaim /\ <<m, claim[r]>> \in log
    BY <2>1 DEF RelayInv, ClaimsAreFresh, DeliveriesAreConsistent, NoClaim
  <2>4. row[m] \in Row
    OBVIOUS
  <2>5. CASE row'[m] = row[m]
    BY <2>2, <2>5, OneRowQuiet
  <2>6. CASE row'[m] = MarkPublishedStatement(row[m]) /\ row[m].status = "publishing"
    BY <2>2, <2>3, <2>4, <2>6, PublishedFields
  <2>7. QED BY <2>2, <2>5, <2>6
<1>9. ASSUME NEW r \in Relays, NEW m \in Messages, NEW at \in {"due", "later"}, Reschedule(r, m, at)
      PROVE  Quiet
  <2>1. /\ OnlyRow(m)
        /\ row'[m] = row[m] \/ row'[m] = RescheduleStatement(row[m], at, "transport")
    BY <1>9, WriteMoves DEF Reschedule, Answered
  <2>2. row'[m].status = row[m].status
    BY <2>1, RescheduleFields
  <2>3. QED BY <2>1, <2>2, OneRowQuiet
<1>10. ASSUME NEW r \in Relays, NEW m \in Messages, Fail(r, m)
       PROVE  Quiet \/ (OnlyRow(m) /\ row[m].status = "publishing" /\ row'[m].status = "failed")
  <2>1. PICK reason : job[r][m] \in Answered /\ Transition(r, m, FailStatement(row[m], reason))
    BY <1>10 DEF Fail, Answered
  <2>2. /\ OnlyRow(m)
        /\ \/ row'[m] = row[m]
           \/ row'[m] = FailStatement(row[m], reason) /\ row[m].status = "publishing"
    BY <1>10, <2>1, WriteMoves DEF Fail
  <2>3. CASE row'[m] = row[m]
    BY <2>2, <2>3, OneRowQuiet
  <2>4. CASE row'[m] = FailStatement(row[m], reason) /\ row[m].status = "publishing"
    BY <2>2, <2>4, FailFields
  <2>5. QED BY <2>2, <2>3, <2>4
<1>11. ASSUME NEW r \in Relays, NEW m \in Messages, NEW at \in {"due", "later"}, Release(r, m, at)
       PROVE  Quiet
  <2>1. Settles(r, m, RescheduleStatement(row[m], at, "null"))
    BY <1>11, ReleaseSettles
  <2>2. QED BY <2>1, RescheduleFields DEF Quiet, Settles
<1>12. ASSUME NEW m \in Messages, NEW c \in 1..lastClaim, LateArrival(m, c)
       PROVE  OnlyLog(m) /\ <<m, c>> \in wire
  BY <1>12 DEF OnlyLog, LateArrival
<1>13. ASSUME NEW r \in Relays, NEW m \in Messages, Deliver(r, m)
       PROVE  Goal
  <2>1. CASE Send(r, m) \/ Abandon(r, m)
    BY <1>3, <2>1
  <2>2. CASE PublishAccepted(r, m)
    BY <1>6, <2>2
  <2>3. CASE MarkPublished(r, m)
    BY <1>8, <2>3
  <2>4. CASE Fail(r, m)
    BY <1>10, <2>4
  <2>5. ASSUME NEW at \in {"due", "later"}, Reschedule(r, m, at) \/ Release(r, m, at)
        PROVE  Goal
    BY <1>9, <1>11, <2>5
  <2>6. QED BY <1>13, <2>1, <2>2, <2>3, <2>4, <2>5 DEF Deliver
<1>14. CASE Environment
  BY <1>1, <1>2, <1>3, <1>4, <1>5, <1>12, <1>14 DEF Environment
<1>15. QED
  BY <1>1, <1>2, <1>4, <1>13, <1>14 DEF Next, Loop

(***************************************************************************)
(* Nothing is sent before its row is committed.                            *)
(***************************************************************************)

\* A copy, in transit or accepted, is of a message whose row was committed.
CommittedFirst ==
    \A m \in Messages, c \in Nat : <<m, c>> \in log \cup wire => row[m].status # "absent"

\* A step adds only copies of records a relay is delivering under its claim.
LEMMA CopiesAdded ==
    ASSUME TypeOK, RelayInv, Next, NEW m \in Messages, NEW c,
           <<m, c>> \in log' \cup wire', <<m, c>> \notin log \cup wire
    PROVE  \E r \in Relays : job[r][m] = "sending"
<1> USE DEF TypeOK, table, broker, relayVars, ghosts
<1>1. ASSUME NEW r \in Relays, Loop(r) \/ ClaimFails(r) \/ Cancel(r) \/ DrainPanics(r)
      PROVE  log' = log /\ wire' = wire
  BY <1>1 DEF Loop, Start, Stop, ClaimFails, Cancel, DrainPanics, EndScan
<1>2. ASSUME NEW r \in Relays, NEW S \in Batches, Claim(r, S) \/ ClaimAnswerLost(r, S)
      PROVE  log' = log /\ wire' = wire
  BY <1>2 DEF Claim, ClaimAnswerLost
<1>3. ASSUME NEW r \in Relays, Crash(r)
      PROVE  \E s \in Relays : job[s][m] = "sending"
  BY <1>3 DEF Crash
<1>4. ASSUME NEW r \in Relays, NEW n \in Messages,
             PublishAccepted(r, n) \/ PublishRefused(r, n) \/ DeliveryPanics(r, n)
      PROVE  \E s \in Relays : job[s][m] = "sending"
  BY <1>4 DEF PublishAccepted, PublishRefused, DeliveryPanics
<1>5. ASSUME NEW r \in Relays, NEW n \in Messages, Deliver(r, n), ~PublishAccepted(r, n)
      PROVE  log' = log /\ wire' = wire
  BY <1>5 DEF Deliver, Send, MarkPublished, Abandon, Reschedule, Fail, Release
<1>6. ASSUME NEW n \in Messages,
             \/ LeaseLapses(n) \/ BecomesDue(n) \/ PurgePublished(n)
             \/ \E at \in {"due", "later"} : Enqueue(n, at)
      PROVE  log' = log /\ wire' = wire
  BY <1>6 DEF LeaseLapses, BecomesDue, PurgePublished, Enqueue
<1>7. ASSUME NEW n \in Messages, NEW d \in 1..lastClaim, LateArrival(n, d)
      PROVE  log' \cup wire' = log \cup wire
  BY <1>7 DEF LateArrival
<1>8. CASE Environment
  BY <1>1, <1>2, <1>3, <1>4, <1>6, <1>7, <1>8 DEF Environment
<1>9. QED
  BY <1>1, <1>2, <1>4, <1>5, <1>6, <1>8 DEF Next

LEMMA CommittedFirstStep ==
    ASSUME TypeOK, TypeOK', RelayInv, CommittedFirst, [Next]_vars
    PROVE  CommittedFirst'
<1>1. CASE UNCHANGED vars
  BY <1>1 DEF CommittedFirst, vars, table, broker
<1>2. CASE Next
  <2> SUFFICES ASSUME NEW m \in Messages, NEW c \in Nat, <<m, c>> \in log' \cup wire'
               PROVE  row'[m].status # "absent"
    BY DEF CommittedFirst
  <2>1. row[m].status # "absent"
    <3>1. CASE <<m, c>> \in log \cup wire
      BY <3>1 DEF CommittedFirst
    <3>2. CASE <<m, c>> \notin log \cup wire
      <4>1. PICK r \in Relays : job[r][m] = "sending"
        BY <1>2, <3>2, CopiesAdded
      <4>2. QED BY <4>1 DEF RelayInv, DeliveriesAreConsistent
    <3>3. QED BY <3>1, <3>2
  <2>2. CASE Quiet
    BY <2>1, <2>2 DEF Quiet
  <2>3. CASE ~Quiet
    BY <1>2, <2>1, <2>3, StepCases DEF OnlyRow, OnlyLog
  <2>4. QED BY <2>2, <2>3
<1>3. QED BY <1>1, <1>2

LEMMA CommittedFirstInvariant == Spec => []CommittedFirst
<1>1. Init => CommittedFirst
  BY DEF Init, CommittedFirst
<1>2. QED
  BY <1>1, CommittedFirstStep, TypeCorrect, RelayInvariant, PTL DEF Spec

(***************************************************************************)
(* The copies of a message are no more than its attempts.                  *)
(***************************************************************************)

\* The claims under which m was sent, or will be by a delivery still on its way.
Promised(m) ==
    {c \in 1..lastClaim :
        \/ <<m, c>> \in log \cup wire
        \/ \E r \in Relays : claim[r] = c /\ job[r][m] \in {"queued", "sending"}}

\* Every one of them was counted when the claim was taken.
PromisesCounted == \A m \in Messages : Cardinality(Promised(m)) <= row[m].attemptCount

\* What one step does to the promises of m and to its counter.
Same(m) == row'[m].attemptCount = row[m].attemptCount /\ Promised(m)' \subseteq Promised(m)
OneMore(m) == /\ row'[m].attemptCount = row[m].attemptCount + 1
              /\ Promised(m)' \subseteq Promised(m) \cup {lastClaim + 1}
None(m) == Promised(m)' = {}

LEMMA PromisesKept ==
    ASSUME NEW m \in Messages, lastClaim' = lastClaim,
           \A c \in 1..lastClaim : <<m, c>> \in log' \cup wire' => c \in Promised(m),
           \A r \in Relays : job'[r][m] \in {"queued", "sending"} =>
              job[r][m] \in {"queued", "sending"} /\ claim'[r] = claim[r]
    PROVE  Promised(m)' \subseteq Promised(m)
  BY DEF Promised

\* A conditional write sends nothing.
LEMMA WritePromises ==
    ASSUME TypeOK, NEW r \in Relays, NEW m \in Messages, NEW new, Settles(r, m, new),
           new.attemptCount = row[m].attemptCount
    PROVE  \A n \in Messages : Same(n)
<1> TAKE n \in Messages
<1>1. row'[n].attemptCount = row[n].attemptCount
  BY DEF Settles
<1>2. \A c \in 1..lastClaim : <<n, c>> \in log' \cup wire' => c \in Promised(n)
  BY DEF Settles, Promised
<1>3. \A s \in Relays : job'[s][n] \in {"queued", "sending"} => job[s][n] \in {"queued", "sending"} /\ claim'[s] = claim[s]
  BY DEF Settles
<1> QED BY <1>1, <1>2, <1>3, PromisesKept DEF Same, Settles

LEMMA StepPromises ==
    ASSUME TypeOK, RelayInv, CommittedFirst, Next, NEW n \in Messages
    PROVE  Same(n) \/ OneMore(n) \/ None(n)
<1> USE DEF TypeOK, table, broker, relayVars, ghosts
<1>0. \A r \in Relays : \A m \in Messages : job[r][m] \in {"queued", "sending"} => claim[r] \in 1..lastClaim
  BY DEF RelayInv, ClaimsAreFresh, NoClaim
<1>1. ASSUME NEW r \in Relays,
             Start(r) \/ Stop(r) \/ ClaimFails(r) \/ Cancel(r) \/ DrainPanics(r) \/ EndScan(r)
      PROVE  Same(n)
  <2>1. row' = row /\ log' = log /\ wire' = wire /\ lastClaim' = lastClaim
    BY <1>1 DEF Start, Stop, ClaimFails, Cancel, DrainPanics, EndScan
  <2>2. \A s \in Relays : job'[s][n] \in {"queued", "sending"} => job[s][n] \in {"queued", "sending"} /\ claim'[s] = claim[s]
    BY <1>1 DEF Start, Stop, ClaimFails, Cancel, DrainPanics, EndScan, NoJobs
  <2> QED BY <2>1, <2>2, PromisesKept DEF Same, Promised
<1>2. ASSUME NEW r \in Relays, NEW S \in Batches, Claim(r, S) \/ ClaimAnswerLost(r, S)
      PROVE  Same(n) \/ OneMore(n)
  <2>1. log' = log /\ wire' = wire /\ lastClaim' = lastClaim + 1
    BY <1>2 DEF Claim, ClaimAnswerLost
  <2>2. \A s \in Relays : job'[s][n] \in {"queued", "sending"} =>
           \/ job[s][n] \in {"queued", "sending"} /\ claim'[s] = claim[s]
           \/ n \in S /\ claim'[s] = lastClaim + 1
    BY <1>2 DEF Claim, ClaimAnswerLost
  <2>3. \A c \in 1..lastClaim' : <<n, c>> \in log' \cup wire' => c \in Promised(n)
    BY <2>1 DEF Promised, RelayInv, ClaimsAreFresh
  <2>4. \A c \in Promised(n)' : c \in Promised(n) \/ (n \in S /\ c = lastClaim + 1)
    <3> TAKE c \in Promised(n)'
    <3>1. CASE <<n, c>> \in log' \cup wire'
      BY <2>3, <3>1 DEF Promised
    <3>2. ASSUME NEW s \in Relays, claim'[s] = c, job'[s][n] \in {"queued", "sending"}
          PROVE  c \in Promised(n) \/ (n \in S /\ c = lastClaim + 1)
      BY <1>0, <2>2, <3>2 DEF Promised
    <3> QED BY <3>1, <3>2 DEF Promised
  <2>5. CASE n \in S
    <3>1. row'[n] = ClaimStatement(row[n], lastClaim + 1)
      BY <1>2, <2>5 DEF Claim, ClaimAnswerLost, ClaimRows
    <3>2. row[n] \in Row /\ lastClaim + 1 \in Nat
      OBVIOUS
    <3>3. row'[n].attemptCount = row[n].attemptCount + 1
      BY <3>1, <3>2, ClaimFields
    <3> QED BY <2>4, <3>3 DEF OneMore
  <2>6. CASE n \notin S
    <3>1. row'[n] = row[n]
      BY <1>2, <2>6 DEF Claim, ClaimAnswerLost, ClaimRows
    <3> QED BY <2>4, <2>6, <3>1 DEF Same
  <2> QED BY <2>5, <2>6
<1>3. ASSUME NEW r \in Relays, NEW m \in Messages,
             Send(r, m) \/ Abandon(r, m) \/ PublishAccepted(r, m) \/ PublishRefused(r, m) \/ DeliveryPanics(r, m)
      PROVE  Same(n)
  <2>1. row' = row /\ lastClaim' = lastClaim /\ claim' = claim
    BY <1>3 DEF Send, Abandon, PublishAccepted, PublishRefused, DeliveryPanics
  <2>2. \A s \in Relays : job'[s][n] \in {"queued", "sending"} => job[s][n] \in {"queued", "sending"}
    <3>1. PICK j \in {"invalid", "sending", "unfinished", "accepted", "refused"} :
             job' = [job EXCEPT ![r][m] = j] /\ (j = "sending" => job[r][m] = "queued")
      BY <1>3 DEF Send, Abandon, PublishAccepted, PublishRefused, DeliveryPanics, SetJob
    <3> QED BY <3>1
  <2>3. /\ log' \cup wire' \subseteq log \cup wire \cup {<<m, claim[r]>>}
        /\ job[r][m] = "sending" \/ log' \cup wire' \subseteq log \cup wire
    BY <1>3 DEF Send, Abandon, PublishAccepted, PublishRefused, DeliveryPanics
  <2>4. \A c \in 1..lastClaim : <<n, c>> \in log' \cup wire' => c \in Promised(n)
    BY <2>3 DEF Promised
  <2> QED BY <2>1, <2>2, <2>4, PromisesKept DEF Same
<1>4. ASSUME NEW r \in Relays, Crash(r)
      PROVE  Same(n)
  <2>1. row' = row /\ lastClaim' = lastClaim /\ log' = log
    BY <1>4 DEF Crash
  <2>2. \A s \in Relays : job'[s][n] \in {"queued", "sending"} => job[s][n] \in {"queued", "sending"} /\ claim'[s] = claim[s]
    BY <1>4 DEF Crash, NoJobs
  <2>3. wire' \subseteq wire \cup ({m \in Messages : job[r][m] = "sending"} \X {claim[r]})
    BY <1>4 DEF Crash
  <2>4. \A c \in 1..lastClaim : <<n, c>> \in log' \cup wire' => c \in Promised(n)
    BY <2>1, <2>3 DEF Promised
  <2> QED BY <2>1, <2>2, <2>4, PromisesKept DEF Same
<1>5. ASSUME NEW m \in Messages, LeaseLapses(m) \/ BecomesDue(m) \/ PurgePublished(m)
      PROVE  Same(n)
  <2>1. log' = log /\ wire' = wire /\ lastClaim' = lastClaim /\ claim' = claim /\ job' = job
    BY <1>5 DEF LeaseLapses, BecomesDue, PurgePublished
  <2>2. row'[n].attemptCount = row[n].attemptCount
    <3>1. DeletePublished(row[n]).attemptCount = row[n].attemptCount
      BY DEF DeletePublished, NoRow
    <3>2. CASE LeaseLapses(m) \/ BecomesDue(m)
      <4>1. \E x : row' = [row EXCEPT ![m] = x] /\ x.attemptCount = row[m].attemptCount
        <5>1. \A v : /\ [row[m] EXCEPT !.lockedUntil = v].attemptCount = row[m].attemptCount
                     /\ [row[m] EXCEPT !.availableAt = v].attemptCount = row[m].attemptCount
          BY DEF Row
        <5>2. \/ row' = [row EXCEPT ![m] = [row[m] EXCEPT !.lockedUntil = "past"]]
              \/ row' = [row EXCEPT ![m] = [row[m] EXCEPT !.availableAt = "due"]]
          BY <3>2 DEF LeaseLapses, BecomesDue
        <5> QED BY <5>1, <5>2
      <4> QED BY <4>1
    <3>3. CASE PurgePublished(m)
      <4>1. row' = [row EXCEPT ![m] = DeletePublished(row[m])]
        BY <3>3 DEF PurgePublished
      <4> QED BY <3>1, <4>1
    <3> QED BY <1>5, <3>2, <3>3
  <2> QED BY <2>1, <2>2, PromisesKept DEF Same, Promised
<1>6. ASSUME NEW m \in Messages, NEW at \in {"due", "later"}, Enqueue(m, at)
      PROVE  Same(n) \/ None(n)
  <2>1. /\ log' = log /\ wire' = wire /\ lastClaim' = lastClaim /\ claim' = claim /\ job' = job
        /\ row[m].status = "absent" /\ \A k \in Messages \ {m} : row'[k] = row[k]
    BY <1>6 DEF Enqueue
  <2>2. CASE n = m
    <3>1. \A r \in Relays : job'[r][n] = "none"
      BY <2>1, <2>2 DEF RelayInv, DeliveriesAreConsistent
    <3>2. \A c \in Nat : <<n, c>> \notin log' \cup wire'
      BY <2>1, <2>2 DEF CommittedFirst
    <3> QED BY <2>1, <3>1, <3>2 DEF None, Promised
  <2>3. CASE n # m
    BY <2>1, <2>3, PromisesKept DEF Same, Promised
  <2> QED BY <2>2, <2>3
<1>7. ASSUME NEW m \in Messages, NEW c \in 1..lastClaim, LateArrival(m, c)
      PROVE  Same(n)
  <2>1. /\ row' = row /\ lastClaim' = lastClaim /\ claim' = claim /\ job' = job
        /\ log' \cup wire' = log \cup wire
    BY <1>7 DEF LateArrival
  <2> QED BY <2>1, PromisesKept DEF Same, Promised
<1>8. ASSUME NEW r \in Relays, NEW m \in Messages, MarkPublished(r, m)
      PROVE  Same(n)
  <2>1. Settles(r, m, MarkPublishedStatement(row[m]))
    BY <1>8, TransitionSettles DEF MarkPublished
  <2> QED BY <2>1, PublishedFields, WritePromises
<1>9. ASSUME NEW r \in Relays, NEW m \in Messages, NEW at \in {"due", "later"}, Reschedule(r, m, at) \/ Release(r, m, at)
      PROVE  Same(n)
  <2>1. PICK reason : Settles(r, m, RescheduleStatement(row[m], at, reason))
    BY <1>9, TransitionSettles, ReleaseSettles DEF Reschedule
  <2> QED BY <2>1, RescheduleFields, WritePromises
<1>10. ASSUME NEW r \in Relays, NEW m \in Messages, Fail(r, m)
       PROVE  Same(n)
  <2>1. PICK reason : Settles(r, m, FailStatement(row[m], reason))
    BY <1>10, TransitionSettles DEF Fail
  <2> QED BY <2>1, FailFields, WritePromises
<1>11. ASSUME NEW r \in Relays, NEW m \in Messages, Deliver(r, m)
       PROVE  Same(n)
  BY <1>3, <1>8, <1>9, <1>10, <1>11 DEF Deliver
<1>12. CASE Environment
  BY <1>1, <1>2, <1>3, <1>4, <1>5, <1>6, <1>7, <1>12 DEF Environment
<1> QED BY <1>1, <1>2, <1>5, <1>11, <1>12 DEF Next, Loop

LEMMA PromisesStep ==
    ASSUME TypeOK, TypeOK', RelayInv, CommittedFirst, PromisesCounted, [Next]_vars
    PROVE  PromisesCounted'
<1> SUFFICES ASSUME NEW n \in Messages
             PROVE  Cardinality(Promised(n)') <= row'[n].attemptCount
  BY DEF PromisesCounted
<1>0. /\ row[n].attemptCount \in Nat /\ row'[n].attemptCount \in Nat /\ lastClaim \in Nat
      /\ Cardinality(Promised(n)) <= row[n].attemptCount
  BY DEF TypeOK, Row, PromisesCounted
<1>1. IsFiniteSet(Promised(n)) /\ Cardinality(Promised(n)) \in Nat
  <2>1. Promised(n) \in SUBSET (1..lastClaim)
    BY DEF Promised
  <2>2. IsFiniteSet(1..lastClaim)
    BY <1>0, FS_Interval
  <2> QED BY <2>1, <2>2, FS_Subset, FS_CardinalityType
<1> DEFINE P == Promised(n)
           Q == Promised(n)'
           a == row[n].attemptCount
           b == row'[n].attemptCount
<1>2. \/ Q \subseteq P /\ b = a
      \/ Q \subseteq P \cup {lastClaim + 1} /\ b = a + 1
      \/ Q = {}
  <2>1. CASE UNCHANGED vars
    BY <2>1 DEF vars, table, broker, relayVars, Promised
  <2>2. CASE Next
    BY <2>2, StepPromises DEF Same, OneMore, None
  <2> QED BY <2>1, <2>2
<1> SUFFICES Cardinality(Q) <= b
  OBVIOUS
<1>3. IsFiniteSet(P) /\ Cardinality(P) \in Nat /\ Cardinality(P) <= a /\ a \in Nat /\ b \in Nat
  BY <1>0, <1>1
<1> HIDE DEF P, Q, a, b
<1>4. CASE Q \subseteq P /\ b = a
  <2>1. Q \in SUBSET P
    BY <1>4
  <2>2. Cardinality(Q) <= Cardinality(P) /\ Cardinality(Q) \in Nat
    BY <1>3, <2>1, FS_Subset, FS_CardinalityType
  <2> QED BY <1>3, <1>4, <2>2
<1>5. CASE Q \subseteq P \cup {lastClaim + 1} /\ b = a + 1
  <2> DEFINE R == P \cup {lastClaim + 1}
  <2>1. IsFiniteSet(R) /\ Cardinality(R) \in Nat /\ Cardinality(R) <= Cardinality(P) + 1
    <3>1. IsFiniteSet(R) /\ (Cardinality(R) = Cardinality(P) \/ Cardinality(R) = Cardinality(P) + 1)
      BY <1>3, FS_AddElement
    <3> QED BY <1>3, <3>1
  <2>2. Q \in SUBSET R
    BY <1>5
  <2> HIDE DEF R
  <2>3. Cardinality(Q) <= Cardinality(R) /\ Cardinality(Q) \in Nat
    BY <2>1, <2>2, FS_Subset, FS_CardinalityType
  <2> QED BY <1>3, <1>5, <2>1, <2>3
<1>6. CASE Q = {}
  BY <1>3, <1>6, FS_EmptySet
<1> QED BY <1>2, <1>4, <1>5, <1>6

\* The copies of a message, accepted or in transit, are no more than the attempts its
\* row counts, whatever leases lapse and whatever answers are lost (relay.go scan,
\* publish.go deliver, claim.go claimStatement).
THEOREM CopiesAreCounted == Spec => []CopiesWithinAttempts
<1>1. Init => PromisesCounted
  <2> SUFFICES ASSUME Init, NEW m \in Messages PROVE Cardinality(Promised(m)) <= row[m].attemptCount
    BY DEF PromisesCounted
  <2>1. Promised(m) = {}
    BY DEF Init, Promised, NoClaim
  <2>2. Cardinality(Promised(m)) = 0
    BY <2>1, FS_EmptySet
  <2>3. row[m].attemptCount = 0
    BY DEF Init, NoRow
  <2> QED BY <2>2, <2>3
<1>2. ASSUME TypeOK, PromisesCounted PROVE CopiesWithinAttempts
  <2> SUFFICES ASSUME NEW m \in Messages
               PROVE  Cardinality({c \in 1..lastClaim : <<m, c>> \in log \cup wire}) <= row[m].attemptCount
    BY DEF CopiesWithinAttempts
  <2> DEFINE C == {c \in 1..lastClaim : <<m, c>> \in log \cup wire}
  <2>1. C \in SUBSET Promised(m) /\ Promised(m) \in SUBSET (1..lastClaim)
    BY DEF Promised
  <2>2. row[m].attemptCount \in Nat /\ lastClaim \in Nat /\ Cardinality(Promised(m)) <= row[m].attemptCount
    BY <1>2 DEF TypeOK, Row, PromisesCounted
  <2>3. IsFiniteSet(1..lastClaim)
    BY <2>2, FS_Interval
  <2>4. IsFiniteSet(Promised(m))
    BY <2>1, <2>3, FS_Subset
  <2> HIDE DEF C
  <2>5. IsFiniteSet(C) /\ Cardinality(C) <= Cardinality(Promised(m))
    BY <2>1, <2>4, FS_Subset
  <2>6. Cardinality(C) \in Nat /\ Cardinality(Promised(m)) \in Nat
    BY <2>4, <2>5, FS_CardinalityType
  <2>7. Cardinality(C) <= row[m].attemptCount
    BY <2>2, <2>5, <2>6
  <2> QED BY <2>7 DEF C
<1>3. QED
  BY <1>1, <1>2, PromisesStep, TypeCorrect, RelayInvariant, CommittedFirstInvariant, PTL DEF Spec

(***************************************************************************)
(* The contract, and the action properties.                                *)
(***************************************************************************)

\* The drain implements AtLeastOnce for every number of relays, messages,
\* attempts and upsets: a committed message stays owed until a copy reached the
\* broker and its row says so, or until it is given up, and both are final.
THEOREM DrainImplementsContract == Spec => RefinesAtLeastOnce
<1>1. Init => Contract!Init
  <2> SUFFICES ASSUME Init PROVE Contract!Init
    OBVIOUS
  <2>1. [m \in Messages |-> Owed(row[m].status)] = [m \in Messages |-> "absent"]
    BY DEF Init, Owed, NoRow
  <2>2. {m \in Messages : \E c \in 1..lastClaim : <<m, c>> \in log} = {}
    BY DEF Init
  <2>3. QED BY <2>1, <2>2 DEF Contract!Init
<1>2. ASSUME TypeOK, TypeOK', RelayInv, CommittedFirst, [Next]_vars
      PROVE  [Contract!Next]_(Contract!vars)
  <2> DEFINE owed == [m \in Messages |-> Owed(row[m].status)]
             reached == {m \in Messages : \E c \in 1..lastClaim : <<m, c>> \in log}
  <2>0. lastClaim \in Nat /\ log \subseteq Messages \X (1..lastClaim)
    BY <1>2 DEF TypeOK, RelayInv, ClaimsAreFresh
  <2>1. CASE UNCHANGED vars
    BY <2>1 DEF vars, table, broker, Contract!vars
  <2>2. CASE Quiet
    <3>1. \A m \in Messages : Owed(row'[m].status) = Owed(row[m].status)
      BY <2>2 DEF Quiet, Owed
    <3>2. reached' = reached
      BY <2>0, <2>2 DEF Quiet
    <3>3. QED BY <3>1, <3>2 DEF Contract!vars
  <2>3. ASSUME NEW m \in Messages, OnlyRow(m)
        PROVE  reached' = reached /\ owed' = [owed EXCEPT ![m] = Owed(row'[m].status)]
    BY <2>3 DEF OnlyRow
  <2>4. ASSUME NEW m \in Messages, OnlyRow(m), row[m].status = "absent", row'[m].status = "pending"
        PROVE  Contract!Commit(m)
    BY <2>3, <2>4 DEF Contract!Commit, Owed
  <2>5. ASSUME NEW m \in Messages, OnlyRow(m), row[m].status = "publishing", row'[m].status = "failed"
        PROVE  Contract!GiveUp(m)
    BY <2>3, <2>5 DEF Contract!GiveUp, Owed
  <2>6. ASSUME NEW m \in Messages, OnlyRow(m), row[m].status = "publishing",
               row'[m].status = "published", \E c \in 1..lastClaim : <<m, c>> \in log
        PROVE  Contract!Confirm(m)
    BY <2>3, <2>6 DEF Contract!Confirm, Owed
  <2>7. ASSUME NEW m \in Messages, OnlyLog(m), row[m].status # "absent"
        PROVE  Contract!Reach(m)
    <3>1. owed' = owed /\ owed[m] # "absent"
      BY <1>2, <2>7 DEF OnlyLog, Owed, TypeOK, Row, Statuses
    <3>2. reached' = reached \cup {m}
      BY <2>7 DEF OnlyLog
    <3>3. QED BY <3>1, <3>2 DEF Contract!Reach
  <2>8. ASSUME NEW m \in Messages, \E c \in 1..lastClaim : <<m, c>> \in wire
        PROVE  row[m].status # "absent"
    BY <1>2, <2>0, <2>8 DEF CommittedFirst
  <2>9. CASE Next
    BY <1>2, <2>2, <2>4, <2>5, <2>6, <2>7, <2>8, <2>9, StepCases DEF Contract!Next
  <2>10. QED BY <1>2, <2>1, <2>9
<1>3. QED
  BY <1>1, <1>2, TypeCorrect, RelayInvariant, CommittedFirstInvariant, PTL
     DEF Spec, RefinesAtLeastOnce, Contract!Spec

\* OBX-04, OBX-06, OBX-17: a status only advances, for every number of relays.
THEOREM StatusAdvances == Spec => StatusOnlyAdvances
<1>1. ASSUME TypeOK, TypeOK', RelayInv, [Next]_vars
      PROVE  [\A m \in Messages : row'[m].status \in Successors(row[m].status)]_vars
  <2> SUFFICES ASSUME Next, NEW n \in Messages
               PROVE  row'[n].status \in Successors(row[n].status)
    BY <1>1
  <2>1. row[n].status \in Statuses
    BY <1>1 DEF TypeOK, Row
  <2>2. row[n].status \in Successors(row[n].status)
    BY <2>1 DEF Successors, Statuses
  <2>3. /\ "pending" \in Successors("absent")
        /\ "publishing" \in Successors("pending")
        /\ "published" \in Successors("publishing")
        /\ "failed" \in Successors("publishing")
        /\ "purged" \in Successors("published")
    BY DEF Successors
  <2>4. CASE Quiet
    BY <2>2, <2>3, <2>4 DEF Quiet
  <2>5. ASSUME NEW m \in Messages, OnlyRow(m) \/ OnlyLog(m), n # m
        PROVE  row'[n] = row[n]
    BY <2>5 DEF OnlyRow, OnlyLog
  <2>6. ASSUME NEW m \in Messages, OnlyLog(m)
        PROVE  row'[n] = row[n]
    BY <2>6 DEF OnlyLog
  <2>7. QED BY <1>1, <2>2, <2>3, <2>4, <2>5, <2>6, StepCases
<1>2. QED
  BY <1>1, TypeCorrect, RelayInvariant, PTL DEF Spec, StatusOnlyAdvances

\* OBX-10, OBX-11: a delivery whose claim was replaced moves on without a trace
\* in the row, whichever transition it was about to write.
THEOREM SupersededWritesNothing == Spec => SupersededClaimIsInert
<1>1. ASSUME TypeOK, RelayInv, [Next]_vars
      PROVE  [\A r \in Relays, m \in Messages :
                (m \in Held(r) /\ row[m].lockedBy # claim[r] /\ job'[r][m] # job[r][m])
                   => row'[m] = row[m]]_vars
  <2> SUFFICES ASSUME Next, NEW r \in Relays, NEW m \in Messages, m \in Held(r),
                      row[m].lockedBy # claim[r], job'[r][m] # job[r][m]
               PROVE  row'[m] = row[m]
    BY <1>1
  <2> USE <1>1 DEF TypeOK, table, broker, relayVars, ghosts
  <2>1. ASSUME NEW s \in Relays,
               \/ Loop(s) \/ ClaimFails(s) \/ Cancel(s) \/ DrainPanics(s) \/ Crash(s)
        PROVE  row' = row
    BY <2>1 DEF Loop, Start, Stop, ClaimFails, Cancel, DrainPanics, EndScan, Crash
  <2>2. ASSUME NEW s \in Relays, NEW n \in Messages,
               \/ Send(s, n) \/ Abandon(s, n) \/ PublishAccepted(s, n)
               \/ PublishRefused(s, n) \/ DeliveryPanics(s, n)
        PROVE  row' = row
    BY <2>2 DEF Send, Abandon, PublishAccepted, PublishRefused, DeliveryPanics
  <2>3. ASSUME NEW s \in Relays, NEW S \in Batches, Claim(s, S) \/ ClaimAnswerLost(s, S)
        PROVE  FALSE
    <3>1. phase[s] = "idle" /\ (r # s => job'[r] = job[r])
      BY <2>3 DEF Claim, ClaimAnswerLost
    <3>2. CASE r = s
      BY <3>1, <3>2 DEF RelayInv, ClaimsAreFresh, Held
    <3>3. QED BY <3>1, <3>2
  <2>4. ASSUME NEW n \in Messages,
               \/ LeaseLapses(n) \/ BecomesDue(n) \/ PurgePublished(n)
               \/ \E at \in {"due", "later"} : Enqueue(n, at)
               \/ \E c \in 1..lastClaim : LateArrival(n, c)
        PROVE  FALSE
    BY <2>4 DEF LeaseLapses, BecomesDue, PurgePublished, Enqueue, LateArrival
  <2>5. ASSUME NEW s \in Relays, NEW n \in Messages, NEW new, Settles(s, n, new)
        PROVE  row'[m] = row[m]
    <3>1. s = r /\ n = m
      BY <2>5 DEF Settles
    <3>2. ~HeldBy(row[m], claim[r])
      BY DEF HeldBy
    <3>3. QED BY <2>5, <3>1, <3>2 DEF Settles
  <2>6. ASSUME NEW s \in Relays, NEW n \in Messages, NEW at,
               MarkPublished(s, n) \/ Reschedule(s, n, at) \/ Fail(s, n)
        PROVE  row'[m] = row[m]
    <3>1. \E new : Transition(s, n, new)
      BY <2>6 DEF MarkPublished, Reschedule, Fail
    <3>2. UNCHANGED <<log, wire, phase, claim, attempt, lastClaim, orphaned>>
      BY <2>6 DEF MarkPublished, Reschedule, Fail
    <3>3. QED BY <2>5, <3>1, <3>2, TransitionSettles
  <2>7. ASSUME NEW s \in Relays, NEW n \in Messages, NEW at, Release(s, n, at)
        PROVE  row'[m] = row[m]
    BY <2>5, <2>7, ReleaseSettles
  <2>8. ASSUME NEW s \in Relays, NEW n \in Messages, Deliver(s, n)
        PROVE  row'[m] = row[m]
    BY <2>2, <2>6, <2>7, <2>8 DEF Deliver
  <2>9. CASE Environment
    BY <2>1, <2>2, <2>3, <2>4, <2>9 DEF Environment
  <2>10. QED BY <2>1, <2>3, <2>4, <2>8, <2>9 DEF Next
<1>2. QED
  BY <1>1, TypeCorrect, RelayInvariant, PTL DEF Spec, SupersededClaimIsInert

=============================================================================
