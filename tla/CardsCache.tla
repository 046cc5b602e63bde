----------------------------- MODULE CardsCache -----------------------------
(***************************************************************************)
(* The in-process cards cache of a worker: an LRU map with                 *)
(* stale-while-revalidate reads and one load in flight per date, read      *)
(* through by concurrent sends.  JavaScript runs a callback to its end, so *)
(* a get and the settling of a load are one action each; the two           *)
(* statements of a load, the clock and the writers of the table interleave.*)
(***************************************************************************)
EXTENDS Integers, Sequences

CONSTANTS
    Dates,          \* cache keys: local calendar dates
    Readers,        \* concurrent callers of forDate
    Loads,          \* names for the loads that may run at once
    Nothing,        \* no entry, no load, nothing read
    FreshMs,        \* the age below which an entry is served as it is
    StaleMs,        \* the age below which it is served and revalidated
    MaxEntries,     \* the LRU bound
    MaxClock,       \* bound: how far the clock runs
    MaxVersion      \* bound: how often the expressions table changes

\* validateCardsCacheConfig and createSwrCache refuse anything else.
ValidConfig ==
    /\ MaxEntries \in Nat \ {0}
    /\ FreshMs \in Nat /\ StaleMs \in Nat /\ FreshMs <= StaleMs
ASSUME ConfigAssumption == ValidConfig
ASSUME BoundsAssumption == MaxClock \in Nat /\ MaxVersion \in Nat

VARIABLES
    clock,          \* the injected monotonic clock
    version,        \* the expressions table, by how often it changed; 0 is empty
    entries,        \* entries: per date Nothing or a value and its loadedAt
    recency,        \* the insertion order of that Map, oldest first
    inFlight,       \* inFlight: per date Nothing or the load to share
    load,           \* per load: Nothing, or its date, stage and what it read
    waiting,        \* per reader: Nothing, or the load it awaits
    latest          \* history: per date, the last value a reader was given

vars == <<clock, version, entries, recency, inFlight, load, waiting, latest>>

\* What a load returns: the version its count saw and the one its cards saw.
Values == (0..MaxVersion) \X (0..MaxVersion)

Running == [date : Dates, stage : {"counting", "fetching", "read"}, value : Values]
Entry == [value : Values, loadedAt : 0..MaxClock]
ASSUME NothingAssumption == Nothing \notin Loads \cup Running \cup Entry

Init ==
    /\ clock = 0
    /\ version = 0
    /\ entries = [d \in Dates |-> Nothing]
    /\ recency = <<>>
    /\ inFlight = [d \in Dates |-> Nothing]
    /\ load = [l \in Loads |-> Nothing]
    /\ waiting = [c \in Readers |-> Nothing]
    /\ latest = [d \in Dates |-> Nothing]

-----------------------------------------------------------------------------
Age(d) == clock - entries[d].loadedAt

\* Delete: the keys behind it close up.  An absent key changes nothing.
Place(d) == CHOOSE i \in DOMAIN recency : recency[i] = d

Without(d) ==
    IF \A i \in DOMAIN recency : recency[i] # d THEN recency
    ELSE [i \in 1..(Len(recency) - 1) |->
             IF i < Place(d) THEN recency[i] ELSE recency[i + 1]]

\* Delete and set again: the key moves to the newest end.
Touch(d) == recency' = Append(Without(d), d)

\* Mutant: every miss starts its own load.
SharedNever(d) == Nothing

\* The load a caller of this date joins, if one is running.
Shared(d) == inFlight[d]

\* load(key, loader): join the running load, or start one.
JoinOrStart(d, l) ==
    \/ /\ Shared(d) # Nothing
       /\ l = Shared(d)
       /\ UNCHANGED <<inFlight, load>>
    \/ /\ Shared(d) = Nothing
       /\ load[l] = Nothing
       /\ load' = [load EXCEPT ![l] = [date |-> d, stage |-> "counting", value |-> <<0, 0>>]]
       /\ inFlight' = [inFlight EXCEPT ![d] = l]

Serve(d) == latest' = [latest EXCEPT ![d] = entries[d].value]

\* A fresh entry is served as it is.
GetFresh(c, d) ==
    /\ waiting[c] = Nothing
    /\ entries[d] # Nothing
    /\ Age(d) < FreshMs
    /\ Touch(d)
    /\ Serve(d)
    /\ UNCHANGED <<clock, version, entries, inFlight, load, waiting>>

\* A stale one is served, and one revalidation runs behind it.
GetStale(c, d, l) ==
    /\ waiting[c] = Nothing
    /\ entries[d] # Nothing
    /\ FreshMs <= Age(d) /\ Age(d) < StaleMs
    /\ Touch(d)
    /\ Serve(d)
    /\ JoinOrStart(d, l)
    /\ UNCHANGED <<clock, version, entries, waiting>>

\* Nothing usable: an expired entry is dropped, the caller awaits the load.
GetLoaded(c, d, l) ==
    /\ waiting[c] = Nothing
    /\ entries[d] # Nothing => Age(d) >= StaleMs
    /\ entries' = [entries EXCEPT ![d] = Nothing]
    /\ recency' = Without(d)
    /\ JoinOrStart(d, l)
    /\ waiting' = [waiting EXCEPT ![c] = l]
    /\ UNCHANGED <<clock, version, latest>>

-----------------------------------------------------------------------------
(* The loader of createCardsService: two statements, not one transaction.  *)

\* maxPosition answers; an empty table needs no second statement.
LoadCounts(l) ==
    /\ load[l] # Nothing
    /\ load[l].stage = "counting"
    /\ load' = [load EXCEPT ![l].stage = IF version = 0 THEN "read" ELSE "fetching",
                            ![l].value = <<version, version>>]
    /\ UNCHANGED <<clock, version, entries, recency, inFlight, waiting, latest>>

\* byPositions answers.
LoadFetches(l) ==
    /\ load[l] # Nothing
    /\ load[l].stage = "fetching"
    /\ load' = [load EXCEPT ![l].stage = "read", ![l].value = <<@[1], version>>]
    /\ UNCHANGED <<clock, version, entries, recency, inFlight, waiting, latest>>

\* The load's promise has settled: it ends, and its waiters with it.
Settled(l) ==
    /\ load' = [load EXCEPT ![l] = Nothing]
    /\ waiting' = [c \in Readers |-> IF waiting[c] = l THEN Nothing ELSE waiting[c]]

\* Mutant: the bound is looked at before the insert.
EvictedLate(order) == IF Len(order) > MaxEntries + 1 THEN Tail(order) ELSE order

\* Keys over the bound leave at the oldest end (one insert, so at most one).
Evicted(order) == IF Len(order) > MaxEntries THEN Tail(order) ELSE order

\* An entry is dated when its load returns.
Dated(l) == [value |-> load[l].value, loadedAt |-> clock]

\* store, then every waiter gets the value.
LoadReturns(l) ==
    /\ load[l] # Nothing
    /\ load[l].stage = "read"
    /\ LET d == load[l].date
           order == Evicted(Append(Without(d), d))
       IN  /\ inFlight' = [inFlight EXCEPT ![d] = Nothing]
           /\ recency' = order
           /\ entries' = [e \in Dates |->
                 IF \A i \in DOMAIN order : order[i] # e THEN Nothing
                 ELSE IF e = d THEN Dated(l) ELSE entries[e]]
           /\ latest' = IF \E c \in Readers : waiting[c] = l
                        THEN [latest EXCEPT ![d] = load[l].value] ELSE latest
    /\ Settled(l)
    /\ UNCHANGED <<clock, version>>

\* Mutant: a rejected promise stays the one to share.
KeptAfterFailure(d) == UNCHANGED inFlight

\* The next caller of this date starts a load of its own.
ForgottenAfterFailure(d) == inFlight' = [inFlight EXCEPT ![d] = Nothing]

\* A statement throws: every waiter is rejected, no entry is made, and a
\* stale entry stays where it is.
LoadThrows(l) ==
    /\ load[l] # Nothing
    /\ load[l].stage \in {"counting", "fetching"}
    /\ ForgottenAfterFailure(load[l].date)
    /\ Settled(l)
    /\ UNCHANGED <<clock, version, entries, recency, latest>>

-----------------------------------------------------------------------------
ClockRuns ==
    /\ clock < MaxClock
    /\ clock' = clock + 1
    /\ UNCHANGED <<version, entries, recency, inFlight, load, waiting, latest>>

CardsChange ==
    /\ version < MaxVersion
    /\ version' = version + 1
    /\ UNCHANGED <<clock, entries, recency, inFlight, load, waiting, latest>>

Get(c, d) == GetFresh(c, d) \/ \E l \in Loads : GetStale(c, d, l) \/ GetLoaded(c, d, l)

Step(l) == LoadCounts(l) \/ LoadFetches(l) \/ LoadReturns(l) \/ LoadThrows(l)

Next ==
    \/ \E c \in Readers, d \in Dates : Get(c, d)
    \/ \E l \in Loads : Step(l)
    \/ ClockRuns
    \/ CardsChange

Spec == Init /\ [][Next]_vars

-----------------------------------------------------------------------------
(* Properties.                                                             *)

\* Every variable keeps its type.
TypeOK ==
    /\ clock \in 0..MaxClock
    /\ version \in 0..MaxVersion
    /\ entries \in [Dates -> Entry \cup {Nothing}]
    /\ recency \in Seq(Dates)
    /\ inFlight \in [Dates -> Loads \cup {Nothing}]
    /\ load \in [Loads -> Running \cup {Nothing}]
    /\ waiting \in [Readers -> Loads \cup {Nothing}]
    /\ latest \in [Dates -> Values \cup {Nothing}]

\* The map never holds more than maxEntries dates, and its order names each
\* of them once: the eviction at the oldest end always finds its entry.
CacheBounded ==
    /\ Len(recency) <= MaxEntries
    /\ \A i, k \in DOMAIN recency : recency[i] = recency[k] => i = k
    /\ \A d \in Dates : entries[d] # Nothing <=> \E i \in DOMAIN recency : recency[i] = d

\* One load per date: a batch of sends on one cold date costs one query, a
\* promise that has settled is never shared again, and whoever awaits a load
\* awaits one that runs.
OneLoadPerDate ==
    /\ \A l, m \in Loads :
          load[l] # Nothing /\ load[m] # Nothing /\ load[l].date = load[m].date => l = m
    /\ \A d \in Dates : inFlight[d] # Nothing =>
          load[inFlight[d]] # Nothing /\ load[inFlight[d]].date = d
    /\ \A c \in Readers : waiting[c] # Nothing => load[waiting[c]] # Nothing

AtLeast(new, old) == new[1] >= old[1] /\ new[2] >= old[2]

\* The cards of one date never go back: whatever mix of hits, stale hits,
\* evictions and revalidations answers them, no reader is given older cards
\* than a reader before it was.
NeverGoesBack ==
    [][\A d \in Dates : latest[d] # Nothing => AtLeast(latest'[d], latest[d])]_vars
=============================================================================
