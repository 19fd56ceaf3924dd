---------------------- MODULE SessionRevocationProofs ----------------------
(* The theorems about SessionRevocation, for any sessions, subjects, clocks   *)
(* and bounds.  An event that was applied has an entry that occurred no       *)
(* earlier than its second and lasts as long as a token it ends, or its time  *)
(* is over (AppliedStays); an entry is there for an event that happened       *)
(* (EntriesAreSound).                                                         *)
EXTENDS SessionRevocation, FiniteSetTheorems, SequenceTheorems, TLAPS

\* The batch of a poll is of listed events.
PollIsSound == poll.batch \in Seq(listed) /\ (poll.stage = "applying" => poll.batch # <<>>)

\* Tokens are issued in the past, and none of a session after its end.
TokensArePast ==
    /\ \A t \in tokens : t.at <= There
    /\ \A e \in happened : e.key \in Sessions =>
          /\ session[e.key] = "ended"
          /\ \A t \in tokens : t.session = e.key => t.at <= e.at

EntriesAreSound ==
    \A k \in Keys : Live(store[k]) =>
        /\ store[k].until >= store[k].at + Keep
        /\ \E e \in happened : e.key = k /\ store[k].at <= e.at

AppliedStays ==
    \A e \in applied :
        \/ /\ Live(store[e.key])
           /\ store[e.key].at >= Second(e.at)
           /\ store[e.key].until >= Second(e.at) + Keep
        \/ now >= Second(e.at) + Keep

Inv ==
    /\ TypeOK /\ IsFiniteSet(happened)
    /\ PollIsSound /\ TokensArePast /\ EntriesAreSound /\ AppliedStays

-----------------------------------------------------------------------------
(* Rounding to the second.                                                 *)

\* Division with remainder.
LEMMA DivMod ==
    ASSUME NEW t \in Nat
    PROVE  /\ t \div PerSecond \in Nat /\ t % PerSecond \in 0..(PerSecond - 1)
           /\ t = PerSecond * (t \div PerSecond) + (t % PerSecond)
<1>1. PerSecond \in Nat \ {0}
  BY RevocationAssumption
<1> QED BY <1>1

\* A multiple grows with its factor.
LEMMA MultipleGrows ==
    ASSUME NEW q \in Nat, NEW r \in Nat, q >= r + 1
    PROVE  PerSecond * q >= PerSecond * r + PerSecond
<1>0. PerSecond \in Nat \ {0}
  BY RevocationAssumption
<1>1. PICK d \in Nat : q = r + 1 + d
  <2>1. q - (r + 1) \in Nat /\ q = r + 1 + (q - (r + 1))
    OBVIOUS
  <2> QED BY <2>1
<1>2. PerSecond * (r + 1 + d) = PerSecond * r + PerSecond + PerSecond * d
  BY <1>0
<1>3. PerSecond * d \in Nat /\ PerSecond * r \in Nat
  BY <1>0
<1> QED BY <1>0, <1>1, <1>2, <1>3

\* A second begins no later than its instants.
LEMMA SecondFacts ==
    ASSUME NEW t \in Nat
    PROVE  Second(t) \in Nat /\ Second(t) <= t
<1> DEFINE x == t % PerSecond
           a == PerSecond * (t \div PerSecond)
<1>1. PerSecond \in Nat \ {0} /\ x \in 0..(PerSecond - 1) /\ t = a + x /\ t \div PerSecond \in Nat
  BY DivMod, RevocationAssumption
<1>2. a \in Nat
  BY <1>1
<1>3. Second(t) = t - x
  BY DEF Second
<1> HIDE DEF x, a
<1> QED BY <1>1, <1>2, <1>3

\* Rounding keeps the order.
LEMMA SecondIsMonotone ==
    ASSUME NEW t \in Nat, NEW u \in Nat, t <= u
    PROVE  Second(t) <= Second(u)
<1> DEFINE P == PerSecond
           q == t \div P
           r == u \div P
           x == t % P
           y == u % P
           a == P * q
           b == P * r
<1>1. P \in Nat \ {0} /\ q \in Nat /\ r \in Nat /\ x \in 0..(P - 1) /\ y \in 0..(P - 1)
  BY DivMod, RevocationAssumption
<1>2. t = a + x /\ u = b + y
  BY DivMod
<1>3. a \in Nat /\ b \in Nat
  BY <1>1
<1>4. Second(t) = t - x /\ Second(u) = u - y
  BY DEF Second
<1>5. (q >= r + 1 => a >= b + P) /\ (r >= q + 1 => b >= a + P) /\ (q = r => a = b)
  BY <1>1, MultipleGrows
<1> HIDE DEF P, q, r, x, y, a, b
<1> QED BY <1>1, <1>2, <1>3, <1>4, <1>5

-----------------------------------------------------------------------------
(* The deny-list.                                                          *)

LEMMA Numbers ==
    /\ Keep \in Nat /\ Keep > TTL /\ TTL \in Nat
    /\ Time \subseteq Nat
    /\ NoEntry \in Entry /\ \A n \in Nat : ~(n < NoEntry.until)
  BY RevocationAssumption DEF Keep, Time, NoEntry, Entry

\* What an event that is applied does to the deny-list.
LEMMA ApplyKeeps ==
    ASSUME Inv, NEW e \in happened, NEW at \in Nat, Second(e.at) <= at, at <= e.at,
           Apply(e, at), UNCHANGED <<now, happened>>
    PROVE  /\ store' \in [Keys -> Entry] /\ applied' \subseteq happened
           /\ EntriesAreSound' /\ AppliedStays'
<1> DEFINE k == e.key
           x == store[k]
           r == [at |-> at, until |-> at + Keep]
           y == KeepGreatest(x, r)
<1>1. e \in Event /\ k \in Keys /\ e.at \in Time /\ x \in Entry /\ now \in Nat
  BY Numbers DEF Inv, TypeOK, Event
<1>2. e.at \in Nat /\ x.at \in Nat /\ x.until \in Nat /\ Keep \in Nat /\ at \in Time /\ Second(e.at) \in Nat
  <2>1. e.at \in Nat /\ x.at \in Nat /\ x.until \in Nat /\ Keep \in Nat
    BY <1>1, Numbers DEF Entry
  <2> QED BY <2>1, SecondFacts, <1>1, RevocationAssumption DEF Time
<1>3. r.at = at /\ r.until = at + Keep
  OBVIOUS
<1>4. applied' = applied \cup {e} /\ now' = now /\ happened' = happened
  BY DEF Apply
<1>5. \A j \in Keys : Live(store[j])' <=> now < store'[j].until
  BY <1>4 DEF Live
<1>6. CASE at + Keep > now
  <2>1. store' = [store EXCEPT ![k] = y]
    BY <1>3, <1>6 DEF Apply, KeyOf
  <2>2. Live(x) => x.until >= x.at + Keep
    BY <1>1 DEF Inv, EntriesAreSound
  <2>3. /\ y.at \in Time /\ y.until \in Nat /\ y \in Entry
        /\ now < y.until /\ y.until >= y.at + Keep
        /\ y.at >= at /\ y.until >= at + Keep
        /\ Live(x) => y.at >= x.at /\ y.until >= x.until
        /\ (y = x /\ Live(x)) \/ y.at = at
    <3>1. CASE Live(x) /\ r.at <= x.at
      <4>1. y = x
        BY <3>1 DEF KeepGreatest
      <4> QED BY <1>1, <1>2, <1>3, <1>6, <2>2, <3>1, <4>1 DEF Live, Entry
    <3>2. CASE ~(Live(x) /\ r.at <= x.at)
      <4> DEFINE n == IF Live(x) /\ x.until > r.until THEN x.until ELSE r.until
      <4>1. y = [at |-> r.at, until |-> n]
        BY <3>2 DEF KeepGreatest
      <4>2. y.at = at /\ y.until = n
        BY <4>1
      <4>3. n \in Nat /\ n >= at + Keep /\ (Live(x) => n >= x.until)
        BY <1>2, <1>3
      <4>4. y \in Entry
        BY <1>2, <1>3, <4>1, <4>3 DEF Entry
      <4> HIDE DEF n, y
      <4> QED BY <1>1, <1>2, <1>3, <1>6, <3>2, <4>2, <4>3, <4>4
    <3> QED BY <3>1, <3>2
  <2> HIDE DEF y
  <2>4. store' \in [Keys -> Entry] /\ store'[k] = y /\ \A j \in Keys : j # k => store'[j] = store[j]
    BY <1>1, <2>1, <2>3 DEF Inv, TypeOK
  <2>5. EntriesAreSound'
    <3> SUFFICES ASSUME NEW j \in Keys, now < store'[j].until
                 PROVE  /\ store'[j].until >= store'[j].at + Keep
                        /\ \E f \in happened : f.key = j /\ store'[j].at <= f.at
      BY <1>4, <1>5 DEF EntriesAreSound
    <3>1. CASE j # k
      BY <2>4, <3>1 DEF Inv, EntriesAreSound, Live
    <3>2. CASE j = k
      <4>1. \E f \in happened : f.key = k /\ y.at <= f.at
        <5>1. CASE y = x /\ Live(x)
          BY <1>1, <5>1 DEF Inv, EntriesAreSound
        <5>2. CASE y.at = at
          BY <5>2
        <5> QED BY <2>3, <5>1, <5>2
      <4> QED BY <2>3, <2>4, <3>2, <4>1
    <3> QED BY <3>1, <3>2
  <2>6. AppliedStays'
    <3> SUFFICES ASSUME NEW f \in applied \cup {e}
                 PROVE  \/ /\ now < store'[f.key].until /\ store'[f.key].at >= Second(f.at)
                           /\ store'[f.key].until >= Second(f.at) + Keep
                        \/ now >= Second(f.at) + Keep
      BY <1>4, <1>5 DEF AppliedStays, Live
    <3>0. f.key \in Keys /\ Second(f.at) \in Nat
      <4>1. f \in Event
        BY DEF Inv, TypeOK
      <4>2. f.at \in Nat
        BY <4>1, Numbers DEF Event
      <4> QED BY <4>1, <4>2, SecondFacts DEF Event
    <3>1. CASE f = e
      BY <1>2, <2>3, <2>4, <3>1
    <3>2. CASE f \in applied
      <4>1. \/ /\ Live(store[f.key]) /\ store[f.key].at >= Second(f.at)
               /\ store[f.key].until >= Second(f.at) + Keep
            \/ now >= Second(f.at) + Keep
        BY <3>2 DEF Inv, AppliedStays
      <4>2. CASE f.key # k
        BY <2>4, <3>0, <4>1, <4>2 DEF Live
      <4>3. CASE f.key = k
        BY <1>2, <2>3, <2>4, <3>0, <4>1, <4>3
      <4> QED BY <4>2, <4>3
    <3> QED BY <3>1, <3>2
  <2> QED BY <1>4, <2>4, <2>5, <2>6 DEF Inv, TypeOK
<1>7. CASE ~(at + Keep > now)
  <2>1. store' = store
    BY <1>3, <1>7 DEF Apply
  <2>2. now >= Second(e.at) + Keep
    BY <1>1, <1>2, <1>7
  <2> QED BY <1>4, <2>1, <2>2 DEF Inv, TypeOK, EntriesAreSound, AppliedStays, Live
<1> QED BY <1>6, <1>7

-----------------------------------------------------------------------------
(* The poll.                                                               *)

\* What a step of the poll alone keeps.
LEMMA PollKeeps ==
    ASSUME Inv, UNCHANGED <<now, provider, listed, store, applied>>,
           poll' \in Poll, PollIsSound', account' \in BOOLEAN, upsets' \in 0..MaxUpsets
    PROVE  Inv'
  BY DEF Inv, TypeOK, TokensArePast, EntriesAreSound, AppliedStays, Live, There, provider

LEMMA IdleIsSound ==
    /\ Idle \in Poll /\ Idle.batch = <<>> /\ Idle.stage = "idle"
    /\ \A n \in Time : /\ LET p == [Idle EXCEPT !.source = "user", !.stage = "reading", !.to = n]
                          IN  p \in Poll /\ p.batch = <<>> /\ p.stage = "reading"
                       /\ LET p == [Idle EXCEPT !.stage = "reading", !.to = n]
                          IN  p \in Poll /\ p.batch = <<>> /\ p.stage = "reading"
<1>1. 0 \in Time /\ 0 \in 0..MaxPages - 1 /\ <<>> \in Seq(Event)
  BY EmptySeq, RevocationAssumption DEF Time
<1>2. \A n \in Time, m \in 0..MaxPages - 1, q \in Seq(Event) :
         LET p == [stage |-> "idle", source |-> "admin", page |-> m, to |-> n, batch |-> q, short |-> FALSE]
         IN  p \in Poll /\ p.batch = q /\ p.stage = "idle"
  BY DEF Poll, Sources
<1>3. Idle \in Poll /\ Idle.batch = <<>> /\ Idle.stage = "idle"
  BY <1>1, <1>2 DEF Idle
<1>4. \A r \in Poll, n \in Time :
         /\ LET p == [r EXCEPT !.source = "user", !.stage = "reading", !.to = n]
            IN  p \in Poll /\ p.batch = r.batch /\ p.stage = "reading"
         /\ LET p == [r EXCEPT !.stage = "reading", !.to = n]
            IN  p \in Poll /\ p.batch = r.batch /\ p.stage = "reading"
  BY DEF Poll, Sources
<1> QED BY <1>3, <1>4

\* A poll that holds no events is sound.
LEMMA EmptyIsSound ==
    ASSUME poll'.batch = <<>>, poll'.stage # "applying"
    PROVE  PollIsSound'
  BY EmptySeq DEF PollIsSound

LEMMA NextSourceIsSound ==
    ASSUME TypeOK
    PROVE  NextSource \in Poll /\ NextSource.batch = <<>> /\ NextSource.stage # "applying"
<1>1. poll.to \in Time
  BY DEF TypeOK, Poll
<1> QED BY <1>1, IdleIsSound DEF NextSource

LEMMA PageDoneIsSound ==
    ASSUME TypeOK
    PROVE  PageDone \in Poll /\ PageDone.batch = <<>> /\ PageDone.stage # "applying"
<1>1. CASE poll.short \/ poll.page + 1 = MaxPages
  BY <1>1, NextSourceIsSound DEF PageDone
<1>2. CASE ~(poll.short \/ poll.page + 1 = MaxPages)
  <2>1. poll.page + 1 \in 0..MaxPages - 1
    BY <1>2, RevocationAssumption DEF TypeOK, Poll
  <2>2. \A n \in 0..MaxPages - 1, q \in Seq(Event) :
           LET p == [poll EXCEPT !.stage = "reading", !.page = n, !.batch = q, !.short = FALSE]
           IN  p \in Poll /\ p.batch = q /\ p.stage = "reading"
    BY DEF TypeOK, Poll
  <2>3. <<>> \in Seq(Event)
    BY EmptySeq
  <2> QED BY <1>2, <2>1, <2>2, <2>3 DEF PageDone
<1> QED BY <1>1, <1>2

LEMMA UpsetCounts ==
    ASSUME TypeOK, Upset
    PROVE  upsets' \in 0..MaxUpsets
  BY RevocationAssumption DEF TypeOK, Upset

LEMMA BeginKeeps ==
    ASSUME Inv, Begin
    PROVE  Inv'
<1>2. poll' \in Poll /\ poll'.batch = <<>> /\ poll'.stage = "reading"
  BY IdleIsSound DEF Begin, Inv, TypeOK
<1>3. PollIsSound'
  BY <1>2, EmptyIsSound
<1> QED BY <1>2, <1>3, PollKeeps DEF Begin, Inv, TypeOK

LEMMA SourceEndsKeeps ==
    ASSUME Inv, Refused \/ PollFails
    PROVE  Inv'
<1>1. poll' = NextSource /\ UNCHANGED <<now, provider, listed, store, applied>>
  BY DEF Refused, PollFails
<1>2. poll' \in Poll /\ PollIsSound'
  BY <1>1, NextSourceIsSound, EmptyIsSound DEF Inv
<1>3. account' \in BOOLEAN /\ upsets' \in 0..MaxUpsets
  BY UpsetCounts DEF Refused, PollFails, Inv, TypeOK
<1> QED BY <1>1, <1>2, <1>3, PollKeeps

LEMMA LeastOfTwo ==
    ASSUME NEW m \in Nat, NEW n \in Nat
    PROVE  Min({m, n}) \in Nat /\ Min({m, n}) <= n
<1>1. \E x \in {m, n} : \A y \in {m, n} : x =< y
  OBVIOUS
<1>2. Min({m, n}) \in {m, n} /\ \A y \in {m, n} : Min({m, n}) =< y
  BY <1>1 DEF Min
<1> QED BY <1>2

LEMMA FetchKeeps ==
    ASSUME Inv, Fetch
    PROVE  Inv'
<1>1. PICK listing \in Listings :
         LET last == Min({(poll.page + 1) * PageSize, Len(listing)})
             page == SubSeq(listing, poll.page * PageSize + 1, last)
         IN  poll' = IF page = <<>> THEN NextSource
                     ELSE [poll EXCEPT !.stage = "applying", !.batch = page, !.short = Len(page) < PageSize]
  BY DEF Fetch
<1> DEFINE n == Cardinality(InWindow)
           last == Min({(poll.page + 1) * PageSize, Len(listing)})
           first == poll.page * PageSize + 1
           page == SubSeq(listing, first, last)
<1>2. n \in Nat
  BY FS_Subset, FS_CardinalityType DEF Inv, TypeOK, InWindow
<1>3. listing \in [1..n -> listed] /\ Len(listing) = n
  <2>1. listing \in [1..n -> InWindow] /\ InWindow \subseteq listed
    BY DEF Listings, InWindow
  <2> QED BY <1>2, <2>1
<1>4. (poll.page + 1) * PageSize \in Nat /\ poll.page * PageSize \in Nat
  BY RevocationAssumption DEF Inv, TypeOK, Poll
<1>5. first \in Nat /\ first >= 1
  BY <1>4
<1>6. last \in Nat /\ last <= n
  BY <1>2, <1>3, <1>4, LeastOfTwo
<1> HIDE DEF n, first, last
<1>7. \A i \in first..last : listing[i] \in listed
  BY <1>2, <1>3, <1>5, <1>6
<1>8. page \in Seq(listed) /\ Len(page) \in Nat
  BY <1>5, <1>6, <1>7, SubSeqProperties
<1>9. (Len(page) < PageSize) \in BOOLEAN
  OBVIOUS
<1> HIDE DEF page
<1>10. poll' \in Poll /\ PollIsSound'
  <2>1. CASE page = <<>>
    <3>1. poll' = NextSource
      BY <1>1, <2>1 DEF page, first, last
    <3> QED BY <3>1, NextSourceIsSound, EmptyIsSound DEF Inv
  <2>2. CASE page # <<>>
    <3>1. poll' = [poll EXCEPT !.stage = "applying", !.batch = page, !.short = Len(page) < PageSize]
      BY <1>1, <2>2 DEF page, first, last
    <3>2. page \in Seq(Event)
      <4>1. listed \subseteq Event
        BY DEF Inv, TypeOK
      <4> QED BY <1>8, <4>1
    <3>3. \A b \in BOOLEAN, q \in Seq(Event) :
             LET p == [poll EXCEPT !.stage = "applying", !.batch = q, !.short = b]
             IN  p \in Poll /\ p.batch = q
      BY DEF Inv, TypeOK, Poll
    <3>4. poll' \in Poll /\ poll'.batch = page
      BY <1>9, <3>1, <3>2, <3>3
    <3> QED BY <1>8, <2>2, <3>4 DEF PollIsSound, Fetch
  <2> QED BY <2>1, <2>2
<1> QED BY <1>10, PollKeeps DEF Fetch, Inv, TypeOK

LEMMA ApplyNextKeeps ==
    ASSUME Inv, ApplyNext
    PROVE  Inv'
<1> DEFINE e == Head(poll.batch)
<1>1. poll.batch \in Seq(listed) /\ poll.batch # <<>>
  BY DEF Inv, PollIsSound, ApplyNext
<1>2. e \in listed /\ Tail(poll.batch) \in Seq(listed) /\ Len(Tail(poll.batch)) = Len(poll.batch) - 1
  BY <1>1, HeadTailProperties
<1>3. e \in happened /\ e.at \in Nat
  BY <1>2, Numbers DEF Inv, TypeOK, Event
<1>4. Second(e.at) <= e.at
  BY <1>3, SecondFacts
<1>5. /\ store' \in [Keys -> Entry] /\ applied' \subseteq happened
      /\ EntriesAreSound' /\ AppliedStays'
  <2>1. Apply(e, e.at) /\ UNCHANGED <<now, happened>> /\ e.at <= e.at
    BY <1>3 DEF ApplyNext, provider
  <2> HIDE DEF e
  <2> QED BY <1>3, <1>4, <2>1, ApplyKeeps
<1>6. poll' \in Poll /\ PollIsSound'
  <2>1. CASE Len(poll.batch) = 1
    <3>1. poll' = PageDone /\ listed' = listed
      BY <2>1 DEF ApplyNext
    <3> QED BY <3>1, PageDoneIsSound, EmptyIsSound DEF Inv
  <2>2. CASE Len(poll.batch) # 1
    <3>1. poll' = [poll EXCEPT !.batch = Tail(poll.batch)] /\ listed' = listed
      BY <2>2 DEF ApplyNext
    <3>2. Tail(poll.batch) # <<>>
      <4>1. Len(poll.batch) \in Nat /\ Len(poll.batch) # 0
        BY <1>1, EmptySeq
      <4>2. Len(Tail(poll.batch)) # 0
        BY <1>2, <2>2, <4>1
      <4> QED BY <4>2, EmptySeq
    <3>3. Tail(poll.batch) \in Seq(Event)
      <4>1. listed \subseteq Event
        BY DEF Inv, TypeOK
      <4> QED BY <1>2, <4>1
    <3>4. \A q \in Seq(Event) : LET p == [poll EXCEPT !.batch = q] IN p \in Poll /\ p.batch = q
      BY DEF Inv, TypeOK, Poll
    <3>5. poll' \in Poll /\ poll'.batch = Tail(poll.batch)
      BY <3>1, <3>3, <3>4
    <3> QED BY <1>2, <3>1, <3>2, <3>5 DEF PollIsSound
  <2> QED BY <2>1, <2>2
<1> QED BY <1>5, <1>6 DEF Inv, TypeOK, TokensArePast, ApplyNext, provider, There

-----------------------------------------------------------------------------
(* The other steps.                                                        *)

LEMMA IssueKeeps ==
    ASSUME Inv, NEW s \in Sessions, Issue(s)
    PROVE  Inv'
<1> DEFINE t == [session |-> s, at |-> There]
<1>1. t \in Token /\ t.session = s /\ t.at = There /\ There \in Time /\ tokens' = tokens \cup {t}
  BY DEF Issue, Token
<1>2. /\ session' = [session EXCEPT ![s] = "live"] /\ session[s] # "ended"
      /\ UNCHANGED <<now, happened, listed, store, poll, account, upsets, applied>>
  BY DEF Issue
<1> HIDE DEF t
<1>3. There' = There /\ There <= There
  <2>1. There \in Nat => There <= There
    OBVIOUS
  <2> QED BY <1>1, <1>2, <2>1, Numbers DEF There
<1>4. TokensArePast'
  BY <1>1, <1>2, <1>3 DEF Inv, TypeOK, TokensArePast
<1>5. TypeOK'
  BY <1>1, <1>2 DEF Inv, TypeOK
<1> QED BY <1>2, <1>4, <1>5 DEF Inv, PollIsSound, EntriesAreSound, AppliedStays, Live

LEMMA EndKeeps ==
    ASSUME Inv, NEW k \in Keys, End(k)
    PROVE  Inv'
<1> DEFINE ended == {s \in Sessions: session[s] = "live" /\ k \in {s, SubjectOf[s]}}
           e == [key |-> k, at |-> There]
<1>1. /\ ended # {} /\ There \in Time
      /\ session' = [s \in Sessions |-> IF s \in ended THEN "ended" ELSE session[s]]
      /\ happened' = happened \cup {e}
      /\ UNCHANGED <<now, tokens, listed, store, poll, account, upsets, applied>>
  BY DEF End
<1>2. e \in Event /\ e.key = k /\ e.at = There
  BY <1>1 DEF Event
<1>3. k \in Sessions => k \in ended
  BY <1>1, RevocationAssumption
<1> HIDE DEF e
<1>4. /\ session' \in [Sessions -> {"none", "live", "ended"}]
      /\ \A s \in Sessions : session[s] = "ended" \/ s \in ended => session'[s] = "ended"
  BY <1>1 DEF Inv, TypeOK
<1> HIDE DEF ended
<1>5. IsFiniteSet(happened')
  BY <1>1, FS_AddElement DEF Inv
<1>6. There' = There
  BY <1>1 DEF There
<1>7. TokensArePast'
  <2>1. (\A t \in tokens : t.at <= There)'
    BY <1>1, <1>6 DEF Inv, TokensArePast
  <2>2. ASSUME NEW f \in happened', f.key \in Sessions
        PROVE  session'[f.key] = "ended" /\ \A t \in tokens' : t.session = f.key => t.at <= f.at
    <3>1. CASE f \in happened
      BY <1>1, <1>4, <2>2, <3>1 DEF Inv, TokensArePast
    <3>2. CASE f = e
      BY <1>1, <1>2, <1>3, <1>4, <2>2, <3>2 DEF Inv, TokensArePast
    <3> QED BY <1>1, <2>2, <3>1, <3>2
  <2> QED BY <2>1, <2>2 DEF TokensArePast
<1>8. TypeOK'
  BY <1>1, <1>2, <1>4 DEF Inv, TypeOK
<1>9. EntriesAreSound'
  BY <1>1 DEF Inv, EntriesAreSound, Live
<1> QED BY <1>1, <1>5, <1>7, <1>8, <1>9 DEF Inv, PollIsSound, AppliedStays, Live

LEMMA ListKeeps ==
    ASSUME Inv, NEW e \in happened, List(e)
    PROVE  Inv'
<1>1. /\ listed' = listed \cup {e}
      /\ UNCHANGED <<now, session, tokens, happened, store, poll, account, upsets, applied>>
  BY DEF List
<1>2. PollIsSound'
  <2>1. poll.batch \in Seq(listed) /\ listed \subseteq listed'
    BY <1>1 DEF Inv, PollIsSound
  <2>2. poll.batch \in Seq(listed')
    BY <2>1
  <2> QED BY <1>1, <2>2 DEF Inv, PollIsSound
<1>3. TypeOK'
  BY <1>1 DEF Inv, TypeOK
<1> QED BY <1>1, <1>2, <1>3 DEF Inv, TokensArePast, EntriesAreSound, AppliedStays, Live, There

LEMMA BackchannelKeeps ==
    ASSUME Inv, NEW e \in happened, Backchannel(e)
    PROVE  Inv'
<1>1. e.at \in Nat
  BY Numbers DEF Inv, TypeOK, Event
<1>2. Second(e.at) \in Nat /\ Second(e.at) <= e.at /\ Second(e.at) <= Second(e.at)
  BY <1>1, SecondFacts
<1>3. Apply(e, Second(e.at)) /\ UNCHANGED <<now, provider, listed, poll, account, upsets>>
  BY DEF Backchannel
<1>4. UNCHANGED <<now, happened>>
  BY <1>3 DEF provider
<1>5. /\ store' \in [Keys -> Entry] /\ applied' \subseteq happened
      /\ EntriesAreSound' /\ AppliedStays'
  BY <1>2, <1>3, <1>4, ApplyKeeps
<1> QED BY <1>3, <1>5 DEF Inv, TypeOK, PollIsSound, TokensArePast, provider, There

LEMMA LoseKeeps ==
    ASSUME Inv, NEW k \in Keys, Lose(k)
    PROVE  Inv'
<1>1. /\ store' = [store EXCEPT ![k] = NoEntry]
      /\ applied' = {e \in applied: e.key # k}
      /\ UNCHANGED <<now, provider, listed, poll, account>>
  BY DEF Lose
<1>2. upsets' \in 0..MaxUpsets
  BY UpsetCounts DEF Lose, Inv
<1>3. /\ store' \in [Keys -> Entry] /\ store'[k] = NoEntry
      /\ \A j \in Keys : j # k => store'[j] = store[j]
  BY <1>1, Numbers DEF Inv, TypeOK
<1>4. now' = now /\ ~(now < NoEntry.until)
  BY <1>1, Numbers DEF Inv, TypeOK
<1>5. EntriesAreSound'
  BY <1>1, <1>3, <1>4 DEF Inv, EntriesAreSound, Live, provider
<1>6. AppliedStays'
  <2>1. \A e \in applied : e.key \in Keys
    BY DEF Inv, TypeOK, Event
  <2> QED BY <1>1, <1>3, <1>4, <2>1 DEF Inv, AppliedStays, Live
<1>7. TypeOK'
  BY <1>1, <1>2, <1>3 DEF Inv, TypeOK, provider
<1> QED BY <1>1, <1>5, <1>6, <1>7 DEF Inv, PollIsSound, TokensArePast, provider, There

LEMMA WithdrawKeeps ==
    ASSUME Inv, Withdraw
    PROVE  Inv'
<1>1. upsets' \in 0..MaxUpsets
  BY UpsetCounts DEF Withdraw, Inv
<1> QED BY <1>1, PollKeeps DEF Withdraw, Inv, TypeOK, PollIsSound

LEMMA TickKeeps ==
    ASSUME Inv, Tick
    PROVE  Inv'
<1>0. now \in Nat /\ now' = now + 1 /\ now' \in Time
  BY RevocationAssumption DEF Inv, TypeOK, Tick, Time
<1>1. /\ store' = [k \in Keys |-> IF now' < store[k].until THEN store[k] ELSE NoEntry]
      /\ UNCHANGED <<provider, listed, poll, account, upsets, applied>>
  BY DEF Tick
<1>2. /\ store' \in [Keys -> Entry]
      /\ \A k \in Keys : /\ now' < store[k].until => store'[k] = store[k]
                         /\ ~(now' < store[k].until) => store'[k] = NoEntry
  BY <1>1, Numbers DEF Inv, TypeOK
<1>3. \A k \in Keys : (Live(store[k])' <=> now' < store'[k].until) /\ store[k].until \in Nat
  BY DEF Live, Inv, TypeOK, Entry
<1>4. \A k \in Keys : Live(store[k])' => Live(store[k]) /\ store'[k] = store[k]
  <2> TAKE k \in Keys
  <2>1. now' < store[k].until => now < store[k].until
    BY <1>0, <1>3
  <2>2. now' \in Nat => ~(now' < NoEntry.until)
    BY Numbers
  <2> QED BY <1>0, <1>2, <1>3, <2>1, <2>2 DEF Live
<1>5. EntriesAreSound'
  BY <1>1, <1>4 DEF Inv, EntriesAreSound, provider
<1>6. AppliedStays'
  <2> SUFFICES ASSUME NEW e \in applied
               PROVE  \/ /\ Live(store[e.key])'
                         /\ store'[e.key].at >= Second(e.at)
                         /\ store'[e.key].until >= Second(e.at) + Keep
                      \/ now' >= Second(e.at) + Keep
    BY <1>1 DEF AppliedStays
  <2>1. e.key \in Keys /\ e.at \in Nat
    BY Numbers DEF Inv, TypeOK, Event
  <2>2. Second(e.at) \in Nat /\ Keep \in Nat
    BY <2>1, SecondFacts, Numbers
  <2>3. CASE now >= Second(e.at) + Keep
    BY <1>0, <2>2, <2>3
  <2>4. CASE ~(now >= Second(e.at) + Keep)
    <3>1. store[e.key].at >= Second(e.at) /\ store[e.key].until >= Second(e.at) + Keep
      BY <2>4 DEF Inv, AppliedStays
    <3>2. CASE now' < store[e.key].until
      BY <1>2, <1>3, <2>1, <3>1, <3>2
    <3>3. CASE ~(now' < store[e.key].until)
      BY <1>0, <1>3, <2>1, <2>2, <3>1, <3>3
    <3> QED BY <3>2, <3>3
  <2> QED BY <2>3, <2>4
<1>7. TokensArePast'
  <2>1. \A t \in tokens : t.at \in Nat
    BY Numbers DEF Inv, TypeOK, Token
  <2>2. There \in Int /\ There' = There + 1
    BY <1>0, RevocationAssumption DEF There
  <2> QED BY <1>1, <2>1, <2>2 DEF Inv, TokensArePast, provider
<1>8. TypeOK'
  BY <1>0, <1>1, <1>2 DEF Inv, TypeOK, provider
<1> QED BY <1>1, <1>5, <1>6, <1>7, <1>8 DEF Inv, PollIsSound, provider

-----------------------------------------------------------------------------
LEMMA InitHolds ==
    ASSUME Init
    PROVE  Inv
<1>1. TypeOK
  <2>1. 0 \in Time /\ NoEntry \in Entry /\ 0 \in 0..MaxUpsets
    BY Numbers, RevocationAssumption DEF Time
  <2> QED BY <2>1, IdleIsSound DEF Init, TypeOK
<1>2. \A k \in Keys : ~Live(store[k])
  <2>1. \A k \in Keys : store[k] = NoEntry
    BY DEF Init
  <2>2. now \in Nat
    BY DEF Init
  <2> QED BY <2>1, <2>2, Numbers DEF Live
<1>3. EntriesAreSound
  BY <1>2 DEF EntriesAreSound
<1>4. PollIsSound
  BY IdleIsSound, EmptySeq DEF PollIsSound, Init
<1> QED BY <1>1, <1>3, <1>4, FS_EmptySet DEF Inv, Init, TokensArePast, AppliedStays

LEMMA StepKeeps ==
    ASSUME Inv, [Next]_vars
    PROVE  Inv'
<1>1. CASE UNCHANGED vars
  BY <1>1 DEF vars, Inv, TypeOK, PollIsSound, TokensArePast, EntriesAreSound, AppliedStays, Live, There
<1>2. CASE \E s \in Sessions : Issue(s)
  BY <1>2, IssueKeeps
<1>3. CASE \E k \in Keys : End(k) \/ Lose(k)
  BY <1>3, EndKeeps, LoseKeeps
<1>4. CASE \E e \in happened : List(e) \/ Backchannel(e)
  BY <1>4, ListKeeps, BackchannelKeeps
<1>5. CASE Polls
  BY <1>5, BeginKeeps, FetchKeeps, SourceEndsKeeps, ApplyNextKeeps DEF Polls
<1>6. CASE Withdraw \/ Tick
  BY <1>6, WithdrawKeeps, TickKeeps
<1> QED BY <1>1, <1>2, <1>3, <1>4, <1>5, <1>6 DEF Next

\* Entries, polls and tokens are always as Inv says.
THEOREM Invariance == Spec => []Inv
  BY InitHolds, StepKeeps, PTL DEF Spec

\* A live token that an applied event covers was issued no later than the event, so the
\* entry that the event left denies it and has not expired.
LEMMA InvDenies ==
    ASSUME Inv
    PROVE  AppliedDenies
<1> SUFFICES ASSUME NEW e \in applied, NEW t \in tokens, Covers(e, t), Alive(t)
             PROVE  Revoked(t)
  BY DEF AppliedDenies
<1>1. /\ e \in happened /\ e \in Event /\ t \in Token /\ now \in Nat
      /\ e.at \in Nat /\ t.at \in Nat /\ e.key \in Keys /\ t.session \in Sessions
  BY Numbers DEF Inv, TypeOK, Event, Token
<1>2. t.at <= e.at
  BY <1>1 DEF Inv, TokensArePast, Covers
<1>3. Second(t.at) <= Second(e.at) /\ Second(t.at) \in Nat /\ Second(e.at) \in Nat
  BY <1>1, <1>2, SecondIsMonotone, SecondFacts
<1>4. ~(now >= Second(e.at) + Keep)
  BY <1>1, <1>3, Numbers DEF Alive
<1>5. Live(store[e.key]) /\ store[e.key].at >= Second(e.at) /\ store[e.key].at \in Nat
  BY <1>1, <1>4, Numbers DEF Inv, AppliedStays, TypeOK, Entry
<1>6. Second(t.at) <= store[e.key].at
  BY <1>3, <1>5
<1> QED BY <1>5, <1>6 DEF Covers, Revoked

\* The deny-list goes on denying every live token that an applied event ends, whatever
\* the adapters apply again, late or rounded (revocation.go keepGreatest).
THEOREM AppliedGoesOnDenying == Spec => []DenyInv
<1>1. Inv => DenyInv
  BY InvDenies DEF Inv, DenyInv
<1> QED BY <1>1, Invariance, PTL

LEMMA InvHasCause ==
    ASSUME Inv
    PROVE  DeniedForCause
<1> SUFFICES ASSUME NEW t \in tokens, Revoked(t)
             PROVE  \E e \in happened: e.key = t.session \/ (e.key = SubjectOf[t.session] /\ Second(t.at) <= e.at)
  BY DEF DeniedForCause
<1>1. t.session \in Sessions /\ t.at \in Nat /\ t.session \in Keys /\ SubjectOf[t.session] \in Keys
  BY Numbers, RevocationAssumption DEF Inv, TypeOK, Token, Keys
<1>2. CASE Live(store[t.session])
  BY <1>1, <1>2 DEF Inv, EntriesAreSound
<1>3. CASE Live(store[SubjectOf[t.session]]) /\ Second(t.at) <= store[SubjectOf[t.session]].at
  <2> DEFINE u == SubjectOf[t.session]
  <2>1. PICK e \in happened : e.key = u /\ store[u].at <= e.at
    BY <1>1, <1>3 DEF Inv, EntriesAreSound
  <2>2. e.at \in Nat /\ store[u].at \in Nat /\ Second(t.at) \in Nat
    BY <1>1, Numbers, SecondFacts DEF Inv, TypeOK, Event, Entry
  <2> HIDE DEF u
  <2>3. Second(t.at) <= e.at
    BY <1>3, <2>1, <2>2 DEF u
  <2> QED BY <2>1, <2>3 DEF u
<1> QED BY <1>2, <1>3 DEF Revoked

\* A token is denied only for an event of its own session, or of its subject in or after
\* the second it was issued in (revocation.go revocationOf, Revoked).
THEOREM DeniedOnlyForCause == Spec => []DeniedForCause
  BY InvHasCause, Invariance, PTL
=============================================================================
