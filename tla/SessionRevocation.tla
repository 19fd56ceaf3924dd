------------------------- MODULE SessionRevocation -------------------------
(***************************************************************************)
(* The deny-list of revoked sessions (libs/backend/go/authn/revocation*,   *)
(* sessionpolling and backchannel .go, libs/backend/go/redis/revocation.go)*)
(* as `bff session-events` runs it: one feed into one store, fed by the    *)
(* logout tokens the identity provider pushes and by a poll that rereads   *)
(* its events, and consulted for every token that is presented.            *)
(*                                                                         *)
(* Time is in ticks, PerSecond of them to a second: an event is stamped to *)
(* the tick, a token's iat and a logout token's iat to the second.  The    *)
(* provider's clock is ahead of this process's by a constant.              *)
(***************************************************************************)
EXTENDS Integers, Sequences, FiniteSets, FiniteSetsExt

CONSTANTS
    Sessions,   \* sessions, each used once
    Subjects,   \* subjects
    SubjectOf,  \* the subject of each session
    Rank,       \* the order in which the provider lists events of one instant
    PerSecond,  \* ticks in a second
    TTL,        \* longest lifetime of a token
    Skew,       \* slack added to it
    Ahead,      \* the provider's clock minus this one
    PageSize,   \* events asked for at a time
    MaxPages,   \* pages read of one source in one poll
    MaxTime,    \* bound: ticks of a behaviour
    MaxTokens,  \* bound: tokens issued
    MaxEvents,  \* bound: events of the provider
    MaxUpsets   \* bound: failures of the store, the provider and the account, and losses

ASSUME RevocationAssumption ==
    /\ SubjectOf \in [Sessions -> Subjects] /\ Sessions \cap Subjects = {}
    /\ Rank \in [Sessions \cup Subjects -> Nat]
    /\ \A j, k \in Sessions \cup Subjects: Rank[j] = Rank[k] => j = k
    /\ PerSecond \in Nat \ {0} /\ TTL \in Nat \ {0} /\ Skew \in Nat \ {0} /\ Ahead \in -Skew..Skew
    /\ PageSize \in Nat \ {0} /\ MaxPages \in Nat \ {0} /\ MaxPages * PageSize > MaxEvents
    /\ MaxTime \in Nat /\ MaxTokens \in Nat /\ MaxEvents \in Nat /\ MaxUpsets \in Nat

VARIABLES
    now,      \* this process's clock
    session,  \* external, the provider: state of each session
    tokens,   \* external: tokens issued
    happened, \* external: events that ended sessions
    listed,   \* external: those the Admin API lists
    store,    \* the deny-list
    poll,     \* the poll in progress
    account,  \* the cached token of the service account is still accepted
    upsets,   \* how many things went wrong
    applied   \* history: events applied and not lost with their entry

vars == <<now, session, tokens, happened, listed, store, poll, account, upsets, applied>>
provider == <<session, tokens, happened>>

Keep == TTL + Skew
Time == 0..MaxTime
Keys == Sessions \cup Subjects
Sources == {"admin", "user"}

Token == [session: Sessions, at: Time]
Event == [key: Keys, at: Time]
Entry == [at: Time, until: Nat]
NoEntry == [at |-> 0, until |-> 0]
Poll == [stage: {"idle", "reading", "applying"}, source: Sources, page: 0..MaxPages - 1,
         to: Time, batch: Seq(Event), short: BOOLEAN]
Idle == [stage |-> "idle", source |-> "admin", page |-> 0, to |-> 0, batch |-> <<>>, short |-> FALSE]

\* Times are not below zero here.
Second(t) == t - (t % PerSecond)

Init ==
    /\ now = 0
    /\ session = [s \in Sessions |-> "none"]
    /\ tokens = {} /\ happened = {} /\ listed = {}
    /\ store = [k \in Keys |-> NoEntry]
    /\ poll = Idle
    /\ account = TRUE /\ upsets = 0 /\ applied = {}

-----------------------------------------------------------------------------
\* External: the identity provider.

There == now + Ahead

\* A login, or a refresh of a session that lives.
Issue(s) ==
    /\ session[s] \in {"none", "live"}
    /\ There \in Time /\ Cardinality(tokens) < MaxTokens
    /\ session' = [session EXCEPT ![s] = "live"]
    /\ tokens' = tokens \cup {[session |-> s, at |-> There]}
    /\ UNCHANGED <<now, happened, listed, store, poll, account, upsets, applied>>

\* A logout of one session, or an administrator's end of every one of a subject.  An
\* administrator's end of one session takes the way of the logout.
End(k) ==
    LET ended == {s \in Sessions: session[s] = "live" /\ k \in {s, SubjectOf[s]}}
    IN  /\ ended # {} /\ There \in Time /\ Cardinality(happened) < MaxEvents
        /\ session' = [s \in Sessions |-> IF s \in ended THEN "ended" ELSE session[s]]
        /\ happened' = happened \cup {[key |-> k, at |-> There]}
        /\ UNCHANGED <<now, tokens, listed, store, poll, account, upsets, applied>>

\* The event is committed, and listed from now on under the time it was stamped with.
List(e) ==
    /\ e \in happened \ listed
    /\ listed' = listed \cup {e}
    /\ UNCHANGED <<now, session, tokens, happened, store, poll, account, upsets, applied>>

-----------------------------------------------------------------------------
\* The store.

Live(entry) == now < entry.until

\* The last one to arrive replaces the entry.
KeepLatest(entry, r) == [at |-> r.at, until |-> r.until]

\* keepGreatest, and the script of redis: a later occurrence replaces an entry, and the
\* longer of the two expiries stays.
KeepGreatest(entry, r) ==
    IF Live(entry) /\ r.at <= entry.at THEN entry
    ELSE [at |-> r.at, until |-> IF Live(entry) /\ entry.until > r.until THEN entry.until ELSE r.until]

\* The deny-list entry of an event, filed under the subject whatever the event ends.
KeyOfSubject(e) == IF e.key \in Sessions THEN SubjectOf[e.key] ELSE e.key

\* revocationOf: a session that ended is filed under itself, a subject under itself.
KeyOf(e) == e.key

\* Feed.Apply of e as an adapter stamped it, and Revoke: an entry already over is not
\* written.
Apply(e, at) ==
    LET r == [at |-> at, until |-> at + Keep]
    IN  /\ store' = IF r.until > now THEN [store EXCEPT ![KeyOf(e)] = KeepGreatest(@, r)] ELSE store
        /\ applied' = applied \cup {e}

\* Revoked: the entry of the session, or that of the subject for a token not issued
\* after it.  checkRevocation refuses the token then, or when the store does not answer.
Revoked(t) ==
    \/ Live(store[t.session])
    \/ Live(store[SubjectOf[t.session]]) /\ Second(t.at) <= store[SubjectOf[t.session]].at

\* Verify accepts the expiry of the token.
Alive(t) == now <= Second(t.at) + TTL

Upset == upsets < MaxUpsets /\ upsets' = upsets + 1

\* External: the store loses an entry: an eviction, or a restart without persistence.
Lose(k) ==
    /\ Live(store[k])
    /\ Upset
    /\ store' = [store EXCEPT ![k] = NoEntry]
    /\ applied' = {e \in applied: e.key # k}
    /\ UNCHANGED <<now, provider, listed, poll, account>>

-----------------------------------------------------------------------------
\* BackchannelLogout.ServeHTTP: the logout token of an event, stamped to the second.
\* The provider may send it late, again or never; one from the future is refused.
Backchannel(e) ==
    /\ e \in happened
    /\ Second(e.at) <= now + Skew
    /\ Apply(e, Second(e.at))
    /\ <<store', applied'>> # <<store, applied>>
    /\ UNCHANGED <<now, provider, listed, poll, account, upsets>>

-----------------------------------------------------------------------------
\* SessionPolling.

\* Poll: the window is fixed for the whole cycle.
Begin ==
    /\ poll.stage = "idle"
    /\ poll' = [Idle EXCEPT !.stage = "reading", !.to = now]
    /\ UNCHANGED <<now, provider, listed, store, account, upsets, applied>>

\* The poll after a source ended, well or not: the next source, or the interval.
NextSource == IF poll.source = "admin" THEN [Idle EXCEPT !.source = "user", !.stage = "reading", !.to = poll.to]
              ELSE Idle

\* The sources are the events of the administrators and the logouts.
InWindow == {e \in listed: (e.key \in Subjects <=> poll.source = "admin") /\ e.at \in poll.to - Keep..poll.to}

\* External: the Admin API lists the window latest first; it promises no order among
\* events of one instant, and is taken to keep to one: there is one listing.
Listings ==
    {f \in [1..Cardinality(InWindow) -> InWindow]:
        \A i, j \in DOMAIN f: i < j => \/ f[i].at > f[j].at
                                       \/ f[i].at = f[j].at /\ Rank[f[i].key] < Rank[f[j].key]}

\* fetch: one page at its offset; an empty one ends the source.
Fetch ==
    /\ poll.stage = "reading" /\ account
    /\ \E listing \in Listings:
         LET last == Min({(poll.page + 1) * PageSize, Len(listing)})
             page == SubSeq(listing, poll.page * PageSize + 1, last)
         IN  poll' = IF page = <<>> THEN NextSource
                     ELSE [poll EXCEPT !.stage = "applying", !.batch = page, !.short = Len(page) < PageSize]
    /\ UNCHANGED <<now, provider, listed, store, account, upsets, applied>>

\* A refused token that stays in the cache.
RefusedKeepingToken ==
    /\ poll.stage = "reading" /\ ~account
    /\ poll' = NextSource
    /\ UNCHANGED <<now, provider, listed, store, account, upsets, applied>>

\* fetch: 401 ends the source, and authorize empties the cache.
Refused ==
    /\ poll.stage = "reading" /\ ~account
    /\ account' = TRUE
    /\ poll' = NextSource
    /\ UNCHANGED <<now, provider, listed, store, upsets, applied>>

\* The provider does not answer, or the store fails an event: the source ends there.
PollFails ==
    /\ poll.stage = "reading" \/ poll.stage = "applying"
    /\ Upset
    /\ poll' = NextSource
    /\ UNCHANGED <<now, provider, listed, store, account, applied>>

\* The page is read: a short one ends the source, as the limit of pages does.
PageDone == IF poll.short \/ poll.page + 1 = MaxPages THEN NextSource
            ELSE [poll EXCEPT !.stage = "reading", !.page = @ + 1, !.batch = <<>>, !.short = FALSE]

\* apply: every event of the window, at every cycle.  The ids it remembers only keep the
\* count of outcomes.
ApplyNext ==
    /\ poll.stage = "applying"
    /\ Apply(Head(poll.batch), Head(poll.batch).at)
    /\ poll' = IF Len(poll.batch) = 1 THEN PageDone ELSE [poll EXCEPT !.batch = Tail(@)]
    /\ UNCHANGED <<now, provider, listed, account, upsets>>

-----------------------------------------------------------------------------
\* External: the provider stops accepting the cached token of the service account.
Withdraw ==
    /\ account /\ Upset
    /\ account' = FALSE
    /\ UNCHANGED <<now, provider, listed, store, poll, applied>>

\* External: the clock; an entry whose expiry is reached is gone.
Tick ==
    /\ now < MaxTime
    /\ now' = now + 1
    /\ store' = [k \in Keys |-> IF now' < store[k].until THEN store[k] ELSE NoEntry]
    /\ UNCHANGED <<provider, listed, poll, account, upsets, applied>>

Polls == Begin \/ Fetch \/ Refused \/ PollFails \/ ApplyNext

Next ==
    \/ \E s \in Sessions: Issue(s)
    \/ \E k \in Keys: End(k) \/ Lose(k)
    \/ \E e \in happened: List(e) \/ Backchannel(e)
    \/ Polls \/ Withdraw \/ Tick

Spec == Init /\ [][Next]_vars

\* The clock moves, the poll goes on for as long as the process runs, and the provider lists what it
\* commits.  A push may be lost, so no fairness is asked of it.
FairSpec == Spec /\ WF_vars(Tick) /\ WF_vars(Polls) /\ WF_vars(\E e \in happened: List(e))

-----------------------------------------------------------------------------
TypeOK ==
    /\ now \in Time
    /\ session \in [Sessions -> {"none", "live", "ended"}]
    /\ tokens \subseteq Token /\ listed \subseteq happened /\ happened \subseteq Event
    /\ store \in [Keys -> Entry]
    /\ poll \in Poll
    /\ applied \subseteq happened
    /\ account \in BOOLEAN /\ upsets \in 0..MaxUpsets

\* An event ends a token: one of its session, or of its subject and issued before it.
Covers(e, t) == e.key = t.session \/ (e.key = SubjectOf[t.session] /\ t.at <= e.at)

\* An event that was applied denies every token it ends for as long as the token lives:
\* later, earlier and repeated events of either adapter never shorten or lift it, and
\* rounding to the second never lets one through (keepGreatest,
\* revokeScript).
AppliedDenies == \A e \in applied, t \in tokens: (Covers(e, t) /\ Alive(t)) => Revoked(t)

\* What stays true of the deny-list: whatever was applied goes on denying.
DenyInv == TypeOK /\ AppliedDenies

\* A token is denied only for an event of its own session, or of its subject in or after
\* the second it was issued in: ending one session leaves the subject's others alone.
DeniedForCause ==
    \A t \in tokens: Revoked(t) =>
        \E e \in happened: e.key = t.session \/ (e.key = SubjectOf[t.session] /\ Second(t.at) <= e.at)

Enforced == \A e \in happened, t \in tokens: (Covers(e, t) /\ Alive(t)) => Revoked(t)

\* Every event that ended a session comes to deny what is left of its tokens, though no
\* push arrived, entries were lost, polls failed half-way, events were listed late and
\* the account's token was withdrawn (sessionpolling.go Poll).
ComesToDeny == <>[]Enforced
=============================================================================
