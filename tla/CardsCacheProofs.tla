-------------------------- MODULE CardsCacheProofs --------------------------
(***************************************************************************)
(* Theorems of CardsCache, for any number of dates and callers, any bound  *)
(* of the map and any two ages.  The first two do not depend on which      *)
(* entries the map evicts: an entry that is gone is only loaded again.     *)
(* Then the bound of the map, and the pick of the day (CardPick), for      *)
(* every date and every size of the table.                                 *)
(***************************************************************************)
EXTENDS CardsCache, CardPick, TLAPS

USE NothingAssumption, BoundsAssumption

Stages == {"counting", "fetching", "read"}

\* The types the arguments need; the order of the map is not one of them.
Types ==
    /\ version \in 0..MaxVersion
    /\ entries \in [Dates -> [value : Values, loadedAt : Int] \cup {Nothing}]
    /\ clock \in Int
    /\ inFlight \in [Dates -> Loads \cup {Nothing}]
    /\ load \in [Loads -> Running \cup {Nothing}]
    /\ waiting \in [Readers -> Loads \cup {Nothing}]
    /\ latest \in [Dates -> Values \cup {Nothing}]

\* A load that runs is the one its date shares, and the other way round.
RunningIsShared ==
    /\ \A l \in Loads : load[l] # Nothing => inFlight[load[l].date] = l
    /\ \A d \in Dates : inFlight[d] # Nothing =>
          load[inFlight[d]] # Nothing /\ load[inFlight[d]].date = d
    /\ \A c \in Readers : waiting[c] # Nothing => load[waiting[c]] # Nothing

LoadInv == Types /\ RunningIsShared

LEMMA InitLoads == Init => LoadInv
  BY DEF Init, LoadInv, Types, RunningIsShared

LEMMA JoinLoads ==
  ASSUME LoadInv, NEW d \in Dates, NEW l \in Loads, JoinOrStart(d, l)
  PROVE  /\ inFlight' \in [Dates -> Loads \cup {Nothing}]
         /\ load' \in [Loads -> Running \cup {Nothing}]
         /\ \A m \in Loads : load'[m] # Nothing => inFlight'[load'[m].date] = m
         /\ \A e \in Dates : inFlight'[e] # Nothing =>
               load'[inFlight'[e]] # Nothing /\ load'[inFlight'[e]].date = e
         /\ \A m \in Loads : load[m] # Nothing => load'[m] = load[m]
         /\ load'[l] # Nothing
<1> USE DEF LoadInv, Types, RunningIsShared
<1>1. CASE Shared(d) # Nothing /\ l = Shared(d) /\ UNCHANGED <<inFlight, load>>
  BY <1>1 DEF Shared
<1>2. CASE Shared(d) = Nothing /\ load[l] = Nothing
  <2> DEFINE new == [date |-> d, stage |-> "counting", value |-> <<0, 0>>]
  <2>1. new \in Running /\ new # Nothing /\ new.date = d
    BY DEF Running, Values
  <2>2. load' = [load EXCEPT ![l] = new] /\ inFlight' = [inFlight EXCEPT ![d] = l]
    BY <1>2, NothingAssumption DEF JoinOrStart, Shared
  <2> HIDE DEF new
  <2> QED
    BY <1>2, <2>1, <2>2 DEF Shared
<1> QED
  BY <1>1, <1>2 DEF JoinOrStart

LEMMA StepLoads ==
  ASSUME LoadInv, NEW l \in Loads, LoadCounts(l) \/ LoadFetches(l)
  PROVE  /\ load' \in [Loads -> Running \cup {Nothing}]
         /\ load'[l] # Nothing /\ load'[l].date = load[l].date
         /\ \A m \in Loads : m # l => load'[m] = load[m]
         /\ load'[l].stage # "counting"
         /\ load'[l].value[2] = version
         /\ \/ load'[l].value[1] = version
            \/ load[l].stage = "fetching" /\ load'[l].value[1] = load[l].value[1]
<1> USE DEF LoadInv, Types
<1>1. load[l] \in Running /\ load[l] # Nothing
  BY DEF LoadCounts, LoadFetches
<1>2. CASE LoadCounts(l)
  <2>1. /\ load'[l].date = load[l].date
        /\ load'[l].stage = IF version = 0 THEN "read" ELSE "fetching"
        /\ load'[l].value = <<version, version>>
    BY <1>1, <1>2 DEF LoadCounts, Running
  <2>2. load'[l] \in Running
    BY <1>1, <1>2 DEF LoadCounts, Running, Values
  <2>3. /\ \A m \in Loads : m # l => load'[m] = load[m]
        /\ load' \in [Loads -> Running \cup {Nothing}]
    BY <1>2, <2>2 DEF LoadCounts
  <2>4. /\ load'[l].stage # "counting"
        /\ load'[l].value[1] = version /\ load'[l].value[2] = version
        /\ load'[l] # Nothing
    BY <2>1, <2>2
  <2> HIDE DEF LoadInv, Types
  <2> QED
    BY <2>1, <2>3, <2>4
<1>3. CASE LoadFetches(l)
  <2>1. /\ load'[l].date = load[l].date
        /\ load'[l].stage = "read"
        /\ load'[l].value = <<load[l].value[1], version>>
    BY <1>1, <1>3 DEF LoadFetches, Running
  <2>2. load'[l] \in Running
    BY <1>1, <1>3 DEF LoadFetches, Running, Values
  <2>3. /\ \A m \in Loads : m # l => load'[m] = load[m]
        /\ load' \in [Loads -> Running \cup {Nothing}]
    BY <1>3, <2>2 DEF LoadFetches
  <2> QED
    BY <1>3, <2>1, <2>2, <2>3 DEF LoadFetches
<1> QED
  BY <1>2, <1>3

LEMMA ReturnedEntries ==
  ASSUME LoadInv, NEW l \in Loads, LoadReturns(l)
  PROVE  /\ load[l] \in Running /\ load[l].stage = "read"
         /\ entries' \in [Dates -> [value : Values, loadedAt : Int] \cup {Nothing}]
         /\ \A e \in Dates : \/ entries'[e] = Nothing
                             \/ e # load[l].date /\ entries'[e] = entries[e]
                             \/ e = load[l].date /\ entries'[e].value = load[l].value
         /\ inFlight' = [inFlight EXCEPT ![load[l].date] = Nothing]
         /\ latest' \in {latest, [latest EXCEPT ![load[l].date] = load[l].value]}
         /\ Settled(l)
         /\ UNCHANGED <<clock, version>>
<1>1. load[l] \in Running /\ load[l].stage = "read"
  BY DEF LoadInv, Types, LoadReturns
<1>2. Dated(l) \in [value : Values, loadedAt : Int] /\ Dated(l).value = load[l].value
  BY <1>1 DEF Dated, Running, LoadInv, Types
<1>3. PICK order : entries' = [e \in Dates |->
                 IF \A i \in DOMAIN order : order[i] # e THEN Nothing
                 ELSE IF e = load[l].date THEN Dated(l) ELSE entries[e]]
  BY DEF LoadReturns
<1>4. /\ inFlight' = [inFlight EXCEPT ![load[l].date] = Nothing]
      /\ latest' \in {latest, [latest EXCEPT ![load[l].date] = load[l].value]}
      /\ Settled(l)
      /\ UNCHANGED <<clock, version>>
  BY DEF LoadReturns
<1>5. /\ entries' \in [Dates -> [value : Values, loadedAt : Int] \cup {Nothing}]
      /\ \A e \in Dates : \/ entries'[e] = Nothing
                          \/ e # load[l].date /\ entries'[e] = entries[e]
                          \/ e = load[l].date /\ entries'[e].value = load[l].value
  BY <1>2, <1>3 DEF LoadInv, Types
<1> QED
  BY <1>1, <1>4, <1>5

LEMMA SettledLoads ==
  ASSUME LoadInv, NEW l \in Loads, load[l] # Nothing, Settled(l),
         inFlight' = [inFlight EXCEPT ![load[l].date] = Nothing]
  PROVE  /\ load' \in [Loads -> Running \cup {Nothing}]
         /\ inFlight' \in [Dates -> Loads \cup {Nothing}]
         /\ waiting' \in [Readers -> Loads \cup {Nothing}]
         /\ RunningIsShared'
<1> USE DEF LoadInv, Types, RunningIsShared, Settled
<1>1. load[l].date \in Dates
  BY DEF Running
<1> QED
  BY <1>1

LEMMA NextLoads == LoadInv /\ [Next]_vars => LoadInv'
<1> SUFFICES ASSUME LoadInv, [Next]_vars PROVE LoadInv'
  OBVIOUS
<1> USE DEF LoadInv, Types
<1>1. ASSUME NEW c \in Readers, NEW d \in Dates, GetFresh(c, d)
      PROVE  LoadInv'
  BY <1>1 DEF GetFresh, Serve, RunningIsShared
<1>2. ASSUME NEW c \in Readers, NEW d \in Dates, NEW l \in Loads, GetStale(c, d, l)
      PROVE  LoadInv'
  <2>1. latest' \in [Dates -> Values \cup {Nothing}]
    BY <1>2 DEF GetStale, Serve
  <2> QED
    BY <1>2, <2>1, JoinLoads DEF GetStale, RunningIsShared
<1>3. ASSUME NEW c \in Readers, NEW d \in Dates, NEW l \in Loads, GetLoaded(c, d, l)
      PROVE  LoadInv'
  BY <1>3, JoinLoads DEF GetLoaded, RunningIsShared
<1>4. ASSUME NEW l \in Loads, LoadCounts(l) \/ LoadFetches(l)
      PROVE  LoadInv'
  <2>1. UNCHANGED <<clock, version, entries, inFlight, waiting, latest>>
    BY <1>4 DEF LoadCounts, LoadFetches
  <2>2. load[l] # Nothing
    BY <1>4 DEF LoadCounts, LoadFetches
  <2> QED
    BY <1>4, <2>1, <2>2, StepLoads DEF RunningIsShared
<1>5. ASSUME NEW l \in Loads, LoadReturns(l)
      PROVE  LoadInv'
  <2>1. load[l] # Nothing /\ load[l].value \in Values
    BY <1>5 DEF LoadReturns, Running
  <2>2. latest' \in [Dates -> Values \cup {Nothing}]
    BY <1>5, <2>1, ReturnedEntries
  <2> QED
    BY <1>5, <2>1, <2>2, ReturnedEntries, SettledLoads
<1>6. ASSUME NEW l \in Loads, LoadThrows(l)
      PROVE  LoadInv'
  BY <1>6, SettledLoads DEF LoadThrows, ForgottenAfterFailure
<1>7. CASE ClockRuns
  BY <1>7 DEF ClockRuns, RunningIsShared
<1>8. CASE CardsChange
  BY <1>8 DEF CardsChange, RunningIsShared
<1>9. CASE UNCHANGED vars
  BY <1>9 DEF vars, RunningIsShared
<1> QED
  BY <1>1, <1>2, <1>3, <1>4, <1>5, <1>6, <1>7, <1>8, <1>9 DEF Next, Get, Step

\* createSwrCache: a date that many sends ask for at once costs one load, and
\* what they share is a load that runs.
THEOREM AlwaysOneLoad == Spec => []OneLoadPerDate
<1>1. LoadInv => OneLoadPerDate
  BY DEF LoadInv, RunningIsShared, OneLoadPerDate
<1> QED
  BY <1>1, InitLoads, NextLoads, PTL DEF Spec

-----------------------------------------------------------------------------
(* What was read when.  A load in flight has read what is at least as new  *)
(* as the entry it will replace and as anything served for its date; one   *)
(* load per date keeps an older one from ending after it.                  *)

UpTo(value) == value[1] <= version /\ value[2] <= version

NewestInFlight(l) ==
    load[l] # Nothing /\ load[l].stage # "counting" =>
        /\ UpTo(load[l].value)
        /\ entries[load[l].date] # Nothing => AtLeast(load[l].value, entries[load[l].date].value)
        /\ latest[load[l].date] # Nothing => AtLeast(load[l].value, latest[load[l].date])

NewestKept(d) ==
    /\ entries[d] # Nothing => UpTo(entries[d].value)
    /\ latest[d] # Nothing => UpTo(latest[d])
    /\ entries[d] # Nothing /\ latest[d] # Nothing => AtLeast(entries[d].value, latest[d])

AgeInv ==
    /\ LoadInv
    /\ \A l \in Loads : NewestInFlight(l)
    /\ \A d \in Dates : NewestKept(d)

ValuesTyped ==
    /\ \A d \in Dates : /\ entries[d] # Nothing => entries[d].value \in Values
                        /\ latest[d] # Nothing => latest[d] \in Values
    /\ \A l \in Loads : load[l] # Nothing =>
          load[l].value \in Values /\ load[l].date \in Dates /\ load[l].stage \in Stages
    /\ version \in Int

LEMMA ValueTypes == LoadInv => ValuesTyped
<1> SUFFICES ASSUME LoadInv PROVE ValuesTyped
  OBVIOUS
<1>1. \A d \in Dates : entries[d] # Nothing => entries[d].value \in Values
  BY DEF LoadInv, Types
<1>2. \A l \in Loads : load[l] # Nothing =>
          load[l].value \in Values /\ load[l].date \in Dates /\ load[l].stage \in Stages
  BY DEF LoadInv, Types, Running, Stages
<1> QED
  BY <1>1, <1>2 DEF ValuesTyped, LoadInv, Types

LEMMA AtLeastOrders ==
  /\ \A u \in Values : AtLeast(u, u)
  /\ \A u, v, w \in Values : AtLeast(u, v) /\ AtLeast(v, w) => AtLeast(u, w)
  BY DEF Values, AtLeast

LEMMA InitAges == Init => AgeInv
  BY InitLoads DEF Init, AgeInv, NewestInFlight, NewestKept

LEMMA ServeAges ==
  ASSUME AgeInv, NEW d \in Dates, entries[d] # Nothing, Serve(d)
  PROVE  /\ latest[d] # Nothing => AtLeast(latest'[d], latest[d])
         /\ latest'[d] = entries[d].value
         /\ \A e \in Dates : e # d => latest'[e] = latest[e]
<1>1. latest'[d] = entries[d].value /\ \A e \in Dates : e # d => latest'[e] = latest[e]
  BY DEF Serve, AgeInv, LoadInv, Types
<1> QED
  BY <1>1 DEF AgeInv, NewestKept

\* A step that serves an entry, or nothing, starts loads at most.
LEMMA ReadAges ==
  ASSUME AgeInv, LoadInv', NEW d \in Dates,
         UNCHANGED version,
         \A e \in Dates : entries'[e] = Nothing \/ entries'[e] = entries[e],
         \A e \in Dates : \/ latest'[e] = latest[e]
                         \/ /\ e = d /\ entries[d] # Nothing
                            /\ entries'[d] = entries[d] /\ latest'[d] = entries[d].value,
         \A l \in Loads : load'[l] = load[l] \/ load'[l] = Nothing \/ load'[l].stage = "counting"
  PROVE  AgeInv'
<1>1. ValuesTyped
  BY ValueTypes DEF AgeInv
<1>2. ASSUME NEW l \in Loads, load'[l] # Nothing, load'[l].stage # "counting"
      PROVE  NewestInFlight(l)'
  <2>1. load'[l] = load[l] /\ load[l].date \in Dates /\ NewestInFlight(l)
    BY <1>1, <1>2 DEF AgeInv, ValuesTyped
  <2> QED
    BY <1>2, <2>1 DEF NewestInFlight, UpTo
<1>3. ASSUME NEW e \in Dates
      PROVE  NewestKept(e)'
  <2>1. NewestKept(e)
    BY DEF AgeInv
  <2>2. CASE latest'[e] = latest[e]
    BY <2>1, <2>2 DEF NewestKept, UpTo
  <2>3. CASE e = d /\ entries[d] # Nothing /\ entries'[d] = entries[d] /\ latest'[d] = entries[d].value
    BY <1>1, <2>1, <2>3, AtLeastOrders DEF NewestKept, UpTo, ValuesTyped
  <2> QED
    BY <2>2, <2>3
<1> QED
  BY <1>2, <1>3 DEF AgeInv, NewestInFlight

LEMMA NextAges == AgeInv /\ [Next]_vars => AgeInv' /\ [\A d \in Dates : latest[d] # Nothing => AtLeast(latest'[d], latest[d])]_vars
<1> SUFFICES ASSUME AgeInv, [Next]_vars
             PROVE  AgeInv' /\ \A d \in Dates : latest[d] # Nothing => AtLeast(latest'[d], latest[d])
  OBVIOUS
<1>0. LoadInv /\ LoadInv' /\ ValuesTyped
  BY NextLoads, ValueTypes DEF AgeInv
<1> DEFINE NotBack == \A d \in Dates : latest[d] # Nothing => AtLeast(latest'[d], latest[d])
<1>a. (\A d \in Dates : latest'[d] = latest[d]) => NotBack
  BY <1>0, AtLeastOrders DEF ValuesTyped
<1>1. ASSUME NEW c \in Readers, NEW d \in Dates, GetFresh(c, d)
      PROVE  AgeInv' /\ NotBack
  <2>1. entries[d] # Nothing /\ Serve(d) /\ UNCHANGED <<version, entries, load>>
    BY <1>1 DEF GetFresh
  <2>2. NotBack
    BY <1>0, <2>1, ServeAges, AtLeastOrders DEF ValuesTyped
  <2> QED
    BY <1>0, <2>1, <2>2, ServeAges, ReadAges
<1>2. ASSUME NEW c \in Readers, NEW d \in Dates, NEW l \in Loads, GetStale(c, d, l)
      PROVE  AgeInv' /\ NotBack
  <2>1. entries[d] # Nothing /\ Serve(d) /\ JoinOrStart(d, l) /\ UNCHANGED <<version, entries>>
    BY <1>2 DEF GetStale
  <2>2. NotBack
    BY <1>0, <2>1, ServeAges, AtLeastOrders DEF ValuesTyped
  <2>3. \A m \in Loads : load'[m] = load[m] \/ load'[m].stage = "counting"
    BY <1>0, <2>1 DEF JoinOrStart, LoadInv, Types
  <2> QED
    BY <1>0, <2>1, <2>2, <2>3, ServeAges, ReadAges
<1>3. ASSUME NEW c \in Readers, NEW d \in Dates, NEW l \in Loads, GetLoaded(c, d, l)
      PROVE  AgeInv' /\ NotBack
  <2>1. JoinOrStart(d, l) /\ UNCHANGED <<version, latest>> /\ entries' = [entries EXCEPT ![d] = Nothing]
    BY <1>3 DEF GetLoaded
  <2>2. \A m \in Loads : load'[m] = load[m] \/ load'[m].stage = "counting"
    BY <1>0, <2>1 DEF JoinOrStart, LoadInv, Types
  <2>3. \A e \in Dates : entries'[e] = Nothing \/ entries'[e] = entries[e]
    BY <1>0, <2>1 DEF LoadInv, Types
  <2>4. \A e \in Dates : latest'[e] = latest[e]
    BY <2>1
  <2>5. AgeInv'
    BY <1>0, <2>1, <2>2, <2>3, <2>4, ReadAges
  <2> QED
    BY <1>a, <2>4, <2>5
<1>4. ASSUME NEW l \in Loads, LoadCounts(l) \/ LoadFetches(l)
      PROVE  AgeInv' /\ NotBack
  <2>1. UNCHANGED <<version, entries, latest>> /\ load[l] # Nothing
    BY <1>4 DEF LoadCounts, LoadFetches
  <2>2. \A d \in Dates : NewestKept(d)'
    BY <2>1 DEF AgeInv, NewestKept, UpTo
  <2>3. ASSUME NEW m \in Loads
        PROVE  NewestInFlight(m)'
    <3>1. CASE m # l
      BY <1>0, <1>4, <2>1, <3>1, StepLoads DEF AgeInv, NewestInFlight, UpTo
    <3>2. CASE m = l
      <4> DEFINE d == load[l].date
      <4>1. /\ load'[l].date = d /\ d \in Dates
            /\ load'[l].value[2] = version
            /\ \/ load'[l].value[1] = version
               \/ load[l].stage = "fetching" /\ load'[l].value[1] = load[l].value[1]
        BY <1>0, <1>4, <2>1, StepLoads DEF ValuesTyped
      <4>2. NewestInFlight(l) /\ NewestKept(d)
        BY <4>1 DEF AgeInv
      <4>3. /\ load[l].value \in Values /\ version \in Int
            /\ entries[d] # Nothing => entries[d].value \in Values
            /\ latest[d] # Nothing => latest[d] \in Values
        BY <1>0, <2>1, <4>1 DEF ValuesTyped
      <4>4. load'[l].value[1] <= version /\ load'[l].value[2] <= version
        BY <2>1, <4>1, <4>2, <4>3 DEF NewestInFlight, UpTo, Values
      <4>5. entries[d] # Nothing => AtLeast(load'[l].value, entries[d].value)
        BY <2>1, <4>1, <4>2, <4>3 DEF NewestInFlight, NewestKept, UpTo, AtLeast, Values
      <4>6. latest[d] # Nothing => AtLeast(load'[l].value, latest[d])
        BY <2>1, <4>1, <4>2, <4>3 DEF NewestInFlight, NewestKept, UpTo, AtLeast, Values
      <4> QED
        BY <2>1, <3>2, <4>1, <4>4, <4>5, <4>6 DEF NewestInFlight, UpTo
    <3> QED
      BY <3>1, <3>2
  <2> QED
    BY <1>0, <1>a, <2>1, <2>2, <2>3 DEF AgeInv
<1>5. ASSUME NEW l \in Loads, LoadReturns(l)
      PROVE  AgeInv' /\ NotBack
  <2> DEFINE d == load[l].date
  <2>1. /\ load[l] # Nothing /\ d \in Dates /\ load[l].stage = "read" /\ load[l].value \in Values
        /\ NewestInFlight(l) /\ UNCHANGED version /\ Settled(l)
    BY <1>0, <1>5 DEF LoadReturns, ValuesTyped, AgeInv
  <2>2. \A e \in Dates : \/ latest'[e] = latest[e]
                         \/ e = d /\ latest'[e] = load[l].value
    BY <1>0, <1>5, ReturnedEntries DEF LoadInv, Types
  <2>3. NotBack
    BY <1>0, <2>1, <2>2, AtLeastOrders DEF NewestInFlight, ValuesTyped
  <2>4. ASSUME NEW m \in Loads
        PROVE  NewestInFlight(m)'
    <3>1. CASE m = l
      BY <1>0, <2>1, <3>1 DEF Settled, NewestInFlight, LoadInv, Types
    <3>2. CASE m # l /\ load[m] # Nothing
      <4>1. load'[m] = load[m] /\ load[m].date # d /\ load[m].date \in Dates
        BY <1>0, <2>1, <3>2 DEF Settled, LoadInv, Types, RunningIsShared, ValuesTyped
      <4>2. /\ latest'[load[m].date] = latest[load[m].date]
            /\ \/ entries'[load[m].date] = Nothing
               \/ entries'[load[m].date] = entries[load[m].date]
        BY <1>0, <1>5, <2>2, <4>1, ReturnedEntries
      <4> QED
        BY <2>1, <4>1, <4>2 DEF AgeInv, NewestInFlight, UpTo
    <3>3. CASE m # l /\ load[m] = Nothing
      BY <1>0, <2>1, <3>3 DEF Settled, NewestInFlight, LoadInv, Types
    <3> QED
      BY <3>1, <3>2, <3>3
  <2>5. ASSUME NEW e \in Dates
        PROVE  NewestKept(e)'
    <3>1. NewestKept(e) /\ UpTo(load[l].value)
      BY <2>1 DEF AgeInv, NewestInFlight
    <3>2. CASE e # d
      <4>1. latest'[e] = latest[e] /\ (entries'[e] = Nothing \/ entries'[e] = entries[e])
        BY <1>0, <1>5, <2>2, <3>2, ReturnedEntries
      <4> QED
        BY <2>1, <3>1, <4>1 DEF NewestKept, UpTo
    <3>3. CASE e = d
      <4>1. entries'[d] = Nothing \/ entries'[d].value = load[l].value
        BY <1>0, <1>5, <2>1, ReturnedEntries
      <4>2. latest'[d] # Nothing => AtLeast(load[l].value, latest'[d])
        BY <2>1, <2>2, AtLeastOrders DEF NewestInFlight
      <4>3. latest'[d] # Nothing => UpTo(latest'[d])
        BY <2>2, <2>1, <3>1, <3>3 DEF NewestKept
      <4> QED
        BY <2>1, <3>1, <3>3, <4>1, <4>2, <4>3 DEF NewestKept, UpTo
    <3> QED
      BY <3>2, <3>3
  <2> QED
    BY <1>0, <2>3, <2>4, <2>5 DEF AgeInv
<1>6. ASSUME NEW l \in Loads, LoadThrows(l)
      PROVE  AgeInv' /\ NotBack
  <2>1. UNCHANGED <<version, entries, latest>> /\ Settled(l)
    BY <1>6 DEF LoadThrows
  <2>2. \A m \in Loads : load'[m] = load[m] \/ load'[m] = Nothing
    BY <1>0, <2>1 DEF Settled, LoadInv, Types
  <2>3. AgeInv'
    BY <1>0, <2>1, <2>2 DEF AgeInv, NewestKept, NewestInFlight, UpTo
  <2> QED
    BY <1>a, <2>1, <2>3
<1>7. CASE ClockRuns
  <2>1. UNCHANGED <<version, entries, latest, load>>
    BY <1>7 DEF ClockRuns
  <2> QED
    BY <1>0, <1>a, <2>1 DEF AgeInv, NewestKept, NewestInFlight, UpTo
<1>8. CASE CardsChange
  <2>1. version' = version + 1 /\ UNCHANGED <<entries, latest, load>>
    BY <1>8 DEF CardsChange
  <2>2. \A v \in Values : UpTo(v) => UpTo(v)'
    BY <1>0, <2>1 DEF UpTo, Values, ValuesTyped
  <2>3. \A d \in Dates : NewestKept(d)'
    BY <1>0, <2>1, <2>2 DEF AgeInv, NewestKept, ValuesTyped
  <2>4. \A l \in Loads : NewestInFlight(l)'
    BY <1>0, <2>1, <2>2 DEF AgeInv, NewestInFlight, ValuesTyped
  <2> QED
    BY <1>0, <1>a, <2>1, <2>3, <2>4 DEF AgeInv
<1>9. CASE UNCHANGED vars
  <2>1. UNCHANGED <<version, entries, latest, load>>
    BY <1>9 DEF vars
  <2> QED
    BY <1>0, <1>a, <2>1 DEF AgeInv, NewestKept, NewestInFlight, UpTo
<1> QED
  BY <1>1, <1>2, <1>3, <1>4, <1>5, <1>6, <1>7, <1>8, <1>9 DEF Next, Get, Step

\* createSwrCache over createCardsService: whatever is hit, stale, evicted or
\* revalidated, no caller is given older cards of a date than one before it.
THEOREM CardsNeverGoBack == Spec => NeverGoesBack
<1>1. AgeInv /\ [Next]_vars => [\A d \in Dates : latest[d] # Nothing => AtLeast(latest'[d], latest[d])]_vars
  BY NextAges
<1> QED
  BY <1>1, InitAges, NextAges, PTL DEF Spec, NeverGoesBack

-----------------------------------------------------------------------------
(* The order of the map.  It names each entry once, so that deleting a key *)
(* takes one place out of it and the oldest end is always an entry.        *)

Holds(s, e) == \E i \in DOMAIN s : s[i] = e

Ordered(s) ==
    /\ s \in Seq(Dates)
    /\ \A i, k \in DOMAIN s : s[i] = s[k] => i = k

\* Deleting a key takes it and no other out of the order.
LEMMA DeleteKeeps ==
  ASSUME Ordered(recency), NEW d \in Dates
  PROVE  /\ Ordered(Without(d))
         /\ \A e : Holds(Without(d), e) <=> Holds(recency, e) /\ e # d
         /\ Len(Without(d)) = IF Holds(recency, d) THEN Len(recency) - 1 ELSE Len(recency)
<1>1. /\ recency \in Seq(Dates) /\ Len(recency) \in Nat /\ DOMAIN recency = 1..Len(recency)
      /\ \A i \in 1..Len(recency) : recency[i] \in Dates
      /\ \A i, k \in 1..Len(recency) : recency[i] = recency[k] => i = k
  BY DEF Ordered
<1>2. CASE ~Holds(recency, d)
  BY <1>2 DEF Without, Holds
<1>3. CASE Holds(recency, d)
  <2> DEFINE p == Place(d)
             n == Len(recency) - 1
             s == [i \in 1..n |-> IF i < p THEN recency[i] ELSE recency[i + 1]]
  <2>1. p \in 1..Len(recency) /\ recency[p] = d
    BY <1>1, <1>3 DEF Place, Holds
  <2>2. Without(d) = s
    BY <1>3 DEF Without, Holds
  <2>3. n \in Nat /\ n + 1 = Len(recency)
    BY <1>1, <2>1
  <2> HIDE DEF p, n
  <2>4. s \in [1..n -> Dates]
    <3> SUFFICES ASSUME NEW i \in 1..n PROVE s[i] \in Dates
      OBVIOUS
    <3>1. i \in 1..Len(recency) /\ i + 1 \in 1..Len(recency)
      BY <2>3
    <3> QED  BY <1>1, <3>1
  <2>5. s \in Seq(Dates) /\ Len(s) = n /\ DOMAIN s = 1..n
    BY <2>3, <2>4
  <2>6. ASSUME NEW i \in 1..n, NEW k \in 1..n, s[i] = s[k]
        PROVE  i = k
    <3> DEFINE u == IF i < p THEN i ELSE i + 1
               v == IF k < p THEN k ELSE k + 1
    <3>1. u \in 1..Len(recency) /\ v \in 1..Len(recency) /\ recency[u] = recency[v]
      BY <2>3, <2>6
    <3>2. u = v
      BY <1>1, <3>1
    <3> QED  BY <2>1, <3>2
  <2>7. ASSUME NEW e
        PROVE  Holds(s, e) <=> Holds(recency, e) /\ e # d
    <3>1. ASSUME NEW i \in 1..n, s[i] = e
          PROVE  Holds(recency, e) /\ e # d
      <4> DEFINE u == IF i < p THEN i ELSE i + 1
      <4>1. u \in 1..Len(recency) /\ recency[u] = e /\ u # p
        BY <2>1, <2>3, <3>1
      <4> HIDE DEF u
      <4> QED  BY <1>1, <2>1, <4>1 DEF Holds
    <3>2. ASSUME NEW u \in 1..Len(recency), recency[u] = e, e # d
          PROVE  Holds(s, e)
      <4> DEFINE i == IF u < p THEN u ELSE u - 1
      <4>1. u # p
        BY <2>1, <3>2
      <4>2. i \in 1..n /\ s[i] = e
        BY <2>1, <2>3, <3>2, <4>1
      <4> QED  BY <2>5, <4>2 DEF Holds
    <3> QED  BY <1>1, <2>5, <3>1, <3>2 DEF Holds
  <2> QED
    BY <1>3, <2>2, <2>5, <2>6, <2>7 DEF Ordered, n
<1> QED
  BY <1>2, <1>3

\* A key that is not there joins at the newest end.
LEMMA InsertKeeps ==
  ASSUME NEW s, Ordered(s), NEW d \in Dates, ~Holds(s, d)
  PROVE  /\ Ordered(Append(s, d))
         /\ \A e : Holds(Append(s, d), e) <=> Holds(s, e) \/ e = d
         /\ Len(Append(s, d)) = Len(s) + 1
<1> DEFINE t == Append(s, d)
           n == Len(s)
<1>1. /\ n \in Nat /\ DOMAIN s = 1..n
      /\ \A i \in 1..n : s[i] # d
      /\ \A i, k \in 1..n : s[i] = s[k] => i = k
  BY DEF Ordered, Holds
<1>2. /\ t \in Seq(Dates) /\ Len(t) = n + 1 /\ DOMAIN t = 1..(n + 1)
      /\ t[n + 1] = d /\ \A i \in 1..n : t[i] = s[i]
  BY DEF Ordered
<1> HIDE DEF t, n
<1>3. ASSUME NEW i \in 1..(n + 1), NEW k \in 1..(n + 1), t[i] = t[k]
      PROVE  i = k
  BY <1>1, <1>2, <1>3
<1>4. ASSUME NEW e
      PROVE  Holds(t, e) <=> Holds(s, e) \/ e = d
  <2>1. ASSUME NEW i \in 1..(n + 1), t[i] = e
        PROVE  Holds(s, e) \/ e = d
    BY <1>1, <1>2, <2>1 DEF Holds
  <2>2. ASSUME NEW i \in 1..n, s[i] = e
        PROVE  Holds(t, e)
    <3>1. i \in 1..(n + 1) /\ t[i] = e
      BY <1>1, <1>2, <2>2
    <3> QED  BY <1>2, <3>1 DEF Holds
  <2>3. ASSUME e = d
        PROVE  Holds(t, e)
    <3>1. n + 1 \in 1..(n + 1)
      BY <1>1
    <3> QED  BY <1>2, <2>3, <3>1 DEF Holds
  <2> QED  BY <1>1, <1>2, <2>1, <2>2, <2>3 DEF Holds
<1> QED
  BY <1>2, <1>3, <1>4 DEF Ordered, t, n

\* The key at the oldest end leaves, and no other.
LEMMA OldestLeaves ==
  ASSUME NEW s, Ordered(s), Len(s) > 0
  PROVE  /\ Ordered(Tail(s))
         /\ \A e : Holds(Tail(s), e) => Holds(s, e)
         /\ Len(Tail(s)) = Len(s) - 1
<1> DEFINE t == Tail(s)
           n == Len(s)
<1>1. /\ n \in Nat /\ n > 0 /\ DOMAIN s = 1..n
      /\ \A i, k \in 1..n : s[i] = s[k] => i = k
  BY DEF Ordered
<1>2. /\ t \in Seq(Dates) /\ Len(t) = n - 1 /\ DOMAIN t = 1..(n - 1)
      /\ \A i \in 1..(n - 1) : t[i] = s[i + 1]
  BY <1>1 DEF Ordered
<1> HIDE DEF t, n
<1>3. ASSUME NEW i \in 1..(n - 1), NEW k \in 1..(n - 1), t[i] = t[k]
      PROVE  i = k
  <2>1. i + 1 \in 1..n /\ k + 1 \in 1..n /\ s[i + 1] = s[k + 1]
    BY <1>1, <1>2, <1>3
  <2> QED  BY <1>1, <2>1
<1>4. ASSUME NEW e, NEW i \in 1..(n - 1), t[i] = e
      PROVE  Holds(s, e)
  <2>1. i + 1 \in 1..n /\ s[i + 1] = e
    BY <1>1, <1>2, <1>4
  <2> QED  BY <1>1, <2>1 DEF Holds
<1>5. ASSUME NEW e, Holds(t, e)
      PROVE  Holds(s, e)
  BY <1>2, <1>4, <1>5 DEF Holds
<1> QED
  BY <1>2, <1>3, <1>5 DEF Ordered, t, n

BoundInv ==
    /\ LoadInv
    /\ clock \in 0..MaxClock
    /\ entries \in [Dates -> Entry \cup {Nothing}]
    /\ recency \in Seq(Dates)
    /\ CacheBounded

LEMMA BoundHolds ==
  ASSUME BoundInv
  PROVE  /\ Ordered(recency)
         /\ \A d \in Dates : entries[d] # Nothing <=> Holds(recency, d)
         /\ Len(recency) <= MaxEntries /\ Len(recency) \in Nat
  BY DEF BoundInv, CacheBounded, Ordered, Holds

LEMMA InitBound == Init => BoundInv
<1> SUFFICES ASSUME Init PROVE BoundInv
  OBVIOUS
<1>1. LoadInv
  BY InitLoads
<1>2. recency = <<>> /\ recency \in Seq(Dates) /\ Len(recency) = 0 /\ DOMAIN recency = {}
  BY DEF Init
<1>3. clock \in 0..MaxClock /\ entries \in [Dates -> Entry \cup {Nothing}]
  BY DEF Init
<1>4. \A d \in Dates : entries[d] = Nothing
  BY DEF Init
<1>5. CacheBounded
  BY <1>2, <1>4, ConfigAssumption DEF CacheBounded, ValidConfig
<1> QED
  BY <1>1, <1>2, <1>3, <1>5 DEF BoundInv

\* The order as a step leaves it, against the entries it leaves.
LEMMA BoundKept ==
  ASSUME LoadInv', clock' \in 0..MaxClock, entries' \in [Dates -> Entry \cup {Nothing}],
         Ordered(recency'), Len(recency') <= MaxEntries,
         \A d \in Dates : entries'[d] # Nothing <=> Holds(recency', d)
  PROVE  BoundInv'
  BY DEF BoundInv, CacheBounded, Ordered, Holds

\* A hit moves its key to the newest end: the same keys, in another order.
LEMMA TouchKeeps ==
  ASSUME BoundInv, NEW d \in Dates, entries[d] # Nothing, Touch(d)
  PROVE  /\ Ordered(recency') /\ Len(recency') = Len(recency)
         /\ \A e \in Dates : Holds(recency', e) <=> Holds(recency, e)
<1>1. Ordered(recency) /\ Holds(recency, d) /\ Len(recency) \in Nat
  BY BoundHolds
<1>2. /\ Ordered(Without(d)) /\ ~Holds(Without(d), d) /\ Len(Without(d)) = Len(recency) - 1
      /\ \A e : Holds(Without(d), e) <=> Holds(recency, e) /\ e # d
  BY <1>1, DeleteKeeps
<1>3. /\ Ordered(recency') /\ Len(recency') = Len(Without(d)) + 1
      /\ \A e : Holds(recency', e) <=> Holds(Without(d), e) \/ e = d
  BY <1>2, InsertKeeps DEF Touch
<1> QED
  BY <1>1, <1>2, <1>3

\* An insert, with the eviction behind it.
LEMMA StoreKeeps ==
  ASSUME BoundInv, NEW d \in Dates
  PROVE  LET order == Evicted(Append(Without(d), d))
         IN  /\ Ordered(order) /\ Len(order) <= MaxEntries
             /\ \A e : Holds(order, e) => e = d \/ Holds(recency, e)
<1> DEFINE put == Append(Without(d), d)
<1>1. Ordered(recency) /\ Len(recency) \in Nat /\ Len(recency) <= MaxEntries
  BY BoundHolds
<1>2. /\ Ordered(Without(d)) /\ ~Holds(Without(d), d)
      /\ Len(Without(d)) \in {Len(recency), Len(recency) - 1}
      /\ \A e : Holds(Without(d), e) => Holds(recency, e)
  BY <1>1, DeleteKeeps
<1>3. /\ Ordered(put) /\ Len(put) = Len(Without(d)) + 1
      /\ \A e : Holds(put, e) => e = d \/ Holds(recency, e)
  BY <1>2, InsertKeeps
<1>4. MaxEntries \in Nat /\ MaxEntries > 0
  BY ConfigAssumption DEF ValidConfig
<1>5. Len(put) <= MaxEntries + 1 /\ Len(put) \in Int
  BY <1>1, <1>2, <1>3, <1>4
<1> HIDE DEF put
<1>6. CASE Len(put) > MaxEntries
  <2>1. /\ Ordered(Tail(put)) /\ Len(Tail(put)) = Len(put) - 1
        /\ \A e : Holds(Tail(put), e) => Holds(put, e)
    BY <1>3, <1>4, <1>5, <1>6, OldestLeaves
  <2>2. Evicted(put) = Tail(put)
    BY <1>6 DEF Evicted
  <2> QED
    BY <1>3, <1>4, <1>5, <2>1, <2>2 DEF put
<1>7. CASE ~(Len(put) > MaxEntries)
  <2>1. Evicted(put) = put
    BY <1>7 DEF Evicted
  <2> QED
    BY <1>3, <1>4, <1>5, <1>7, <2>1 DEF put
<1> QED
  BY <1>6, <1>7

LEMMA NextBound == BoundInv /\ [Next]_vars => BoundInv'
<1> SUFFICES ASSUME BoundInv, [Next]_vars PROVE BoundInv'
  OBVIOUS
<1>0. /\ LoadInv /\ LoadInv' /\ clock \in 0..MaxClock
      /\ entries \in [Dates -> Entry \cup {Nothing}]
      /\ Ordered(recency) /\ Len(recency) <= MaxEntries /\ Len(recency) \in Nat
      /\ \A d \in Dates : entries[d] # Nothing <=> Holds(recency, d)
  BY NextLoads, BoundHolds DEF BoundInv
<1>1. ASSUME NEW d \in Dates, entries[d] # Nothing, Touch(d), UNCHANGED <<clock, entries>>
      PROVE  BoundInv'
  BY <1>0, <1>1, TouchKeeps, BoundKept
<1>2. ASSUME NEW c \in Readers, NEW d \in Dates, GetFresh(c, d)
      PROVE  BoundInv'
  BY <1>1, <1>2 DEF GetFresh
<1>3. ASSUME NEW c \in Readers, NEW d \in Dates, NEW l \in Loads, GetStale(c, d, l)
      PROVE  BoundInv'
  BY <1>1, <1>3 DEF GetStale
<1>4. ASSUME NEW c \in Readers, NEW d \in Dates, NEW l \in Loads, GetLoaded(c, d, l)
      PROVE  BoundInv'
  <2>1. /\ entries' = [entries EXCEPT ![d] = Nothing] /\ recency' = Without(d)
        /\ UNCHANGED clock
    BY <1>4 DEF GetLoaded
  <2>2. /\ Ordered(recency') /\ Len(recency') <= Len(recency)
        /\ \A e : Holds(recency', e) <=> Holds(recency, e) /\ e # d
    BY <1>0, <2>1, DeleteKeeps
  <2>3. /\ entries' \in [Dates -> Entry \cup {Nothing}]
        /\ \A e \in Dates : entries'[e] # Nothing <=> entries[e] # Nothing /\ e # d
    BY <1>0, <2>1
  <2>4. Len(recency') <= MaxEntries
    BY <1>0, <2>2, ConfigAssumption DEF Ordered, ValidConfig
  <2> QED
    BY <1>0, <2>1, <2>2, <2>3, <2>4, BoundKept
<1>5. ASSUME NEW l \in Loads, LoadReturns(l)
      PROVE  BoundInv'
  <2> DEFINE d == load[l].date
             order == Evicted(Append(Without(d), d))
  <2>1. d \in Dates /\ load[l].value \in Values
    BY <1>0, <1>5 DEF LoadReturns, LoadInv, Types, Running
  <2>2. /\ Ordered(order) /\ Len(order) <= MaxEntries
        /\ \A e : Holds(order, e) => e = d \/ Holds(recency, e)
    BY <2>1, StoreKeeps
  <2>3. /\ recency' = order /\ UNCHANGED clock
        /\ entries' = [e \in Dates |-> IF \A i \in DOMAIN order : order[i] # e THEN Nothing
                                       ELSE IF e = d THEN Dated(l) ELSE entries[e]]
    BY <1>5 DEF LoadReturns
  <2>4. Dated(l) \in Entry /\ Dated(l) # Nothing
    BY <1>0, <2>1 DEF Dated, Entry
  <2> HIDE DEF order, d
  <2>5. \A e \in Dates : entries'[e] = IF ~Holds(order, e) THEN Nothing
                                       ELSE IF e = d THEN Dated(l) ELSE entries[e]
    BY <2>3 DEF Holds
  <2>6. /\ entries' \in [Dates -> Entry \cup {Nothing}]
        /\ \A e \in Dates : entries'[e] # Nothing <=> Holds(order, e)
    <3>1. \A e \in Dates : entries'[e] # Nothing <=> Holds(order, e)
      BY <1>0, <2>2, <2>4, <2>5
    <3>2. \A e \in Dates : entries'[e] \in Entry \cup {Nothing}
      BY <1>0, <2>4, <2>5
    <3>3. entries' \in [Dates -> Entry \cup {Nothing}]
      BY <2>3, <3>2
    <3> QED  BY <3>1, <3>3
  <2> QED
    BY <1>0, <2>2, <2>3, <2>6, BoundKept
<1>6. CASE UNCHANGED <<entries, recency>> /\ clock' \in 0..MaxClock
  BY <1>0, <1>6, BoundKept
<1>7. ASSUME NEW l \in Loads, LoadCounts(l) \/ LoadFetches(l) \/ LoadThrows(l)
      PROVE  BoundInv'
  BY <1>0, <1>6, <1>7 DEF LoadCounts, LoadFetches, LoadThrows
<1>8. CASE ClockRuns
  BY <1>0, <1>6, <1>8 DEF ClockRuns
<1>9. CASE CardsChange \/ UNCHANGED vars
  BY <1>0, <1>6, <1>9 DEF CardsChange, vars
<1> QED
  BY <1>2, <1>3, <1>4, <1>5, <1>7, <1>8, <1>9 DEF Next, Get, Step

\* Every variable of the cache keeps its type: no entry is dated after the
\* clock it was read from, and the order of the map is a sequence of dates.
THEOREM TypeCorrect == Spec => []TypeOK
<1>1. BoundInv => TypeOK
  BY DEF BoundInv, LoadInv, Types, TypeOK
<1> QED
  BY <1>1, InitBound, NextBound, PTL DEF Spec

\* createSwrCache: touch, store and an expired entry's delete leave the map at
\* maxEntries dates or fewer, each once, for any number of dates and callers.
THEOREM CacheAlwaysBounded == Spec => []CacheBounded
<1>1. BoundInv => CacheBounded
  BY DEF BoundInv
<1> QED
  BY <1>1, InitBound, NextBound, PTL DEF Spec

-----------------------------------------------------------------------------
(* The pick of the day (CardPick), for every date, table and number of cards. *)

\* What % and \div are, for a divisor that is not a number.
LEMMA Division ==
    ASSUME NEW a \in Int, NEW n \in Nat \ {0}
    PROVE  /\ a \div n \in Int
           /\ a % n \in 0..(n - 1)
           /\ a = n * (a \div n) + (a % n)
  BY Z3

LEMMA OneRemainder ==
    ASSUME NEW n \in Nat \ {0}, NEW q \in Int, NEW p \in Int,
           NEW r \in 0..(n - 1), NEW s \in 0..(n - 1), n * q + r = n * p + s
    PROVE  q = p /\ r = s
  BY Z3

\* A remainder is known by any quotient that leaves it.
LEMMA RemainderIs ==
    ASSUME NEW a \in Int, NEW n \in Nat \ {0}, NEW q \in Int, NEW r \in 0..(n - 1),
           a = n * q + r
    PROVE  a % n = r
<1> DEFINE p == a \div n
           s == a % n
<1>1. p \in Int /\ s \in 0..(n - 1) /\ n * q + r = n * p + s
  BY Division
<1> HIDE DEF p, s
<1>2. r = s
  BY <1>1, OneRemainder
<1> QED
  BY <1>2 DEF s

\* Taking the remainder twice gives the one in 0..(n - 1) for a date before
\* 1970 as well.
LEMMA RemainderTwice ==
    ASSUME NEW a \in Int, NEW n \in Nat \ {0}
    PROVE  Remainder(Remainder(a, n) + n, n) = a % n
<1> DEFINE r == a % n
<1>1. r \in 0..(n - 1)
  BY Division
<1>2. CASE a >= 0
  <2>1. (r + n) % n = r
    <3>1. r + n = n * 1 + r /\ r + n \in Int
      BY <1>1
    <3> QED
      BY <3>1, <1>1, RemainderIs
  <2>2. Remainder(a, n) = r
    BY <1>2 DEF Remainder
  <2>3. r + n >= 0
    BY <1>1
  <2> QED
    BY <2>1, <2>2, <2>3 DEF Remainder
<1>3. CASE a < 0
  <2> DEFINE s == (-a) % n
             p == (-a) \div n
             t == (n - s) % n
             c == (n - s) \div n
  <2>1. s \in 0..(n - 1) /\ p \in Int /\ -a = n * p + s
    <3>1. -a \in Int
      OBVIOUS
    <3> QED
      BY <3>1, Division
  <2>2. t \in 0..(n - 1) /\ c \in Int /\ n - s = n * c + t
    <3>1. n - s \in Int
      BY <2>1
    <3> HIDE DEF s
    <3> QED
      BY <3>1, Division
  <2>3. a = n * (c - p - 1) + t
    <3>1. a = 0 - (n * p + s)
      BY <2>1
    <3>2. n * (c - p - 1) = n * c - n * p - n
      BY <2>1, <2>2
    <3> HIDE DEF s, p, t, c
    <3> QED
      BY <2>1, <2>2, <3>1, <3>2
  <2>4. r = t
    <3>1. c - p - 1 \in Int
      BY <2>1, <2>2
    <3> HIDE DEF s, p, t, c
    <3> QED
      BY <2>2, <2>3, <3>1, RemainderIs
  <2>5. Remainder(a, n) + n = n - s /\ n - s >= 0
    BY <1>3, <2>1 DEF Remainder
  <2> QED
    BY <2>4, <2>5 DEF Remainder
<1> QED
  BY <1>2, <1>3

\* The pick of a day, by the remainders it comes to.
LEMMA PickIs ==
    ASSUME NEW dayNumber \in Int, NEW count \in Nat \ {0}, NEW i \in 1..Cards(count)
    PROVE  PositionsForDay(dayNumber, count)[i] = ((dayNumber * CardsPerDay + i - 1) % count) + 1
<1>1. dayNumber * CardsPerDay + i - 1 \in Int
  BY CardsPerDayAssumption DEF Cards
<1> QED
  BY <1>1, RemainderTwice DEF PositionsForDay

\* Whatever the date and however many rows the table has, the cards of a day
\* are rows it has and none comes twice.
THEOREM PickIsAlwaysASet ==
    ASSUME NEW dayNumber \in Int, NEW count \in Nat \ {0}
    PROVE  PickIsASet(dayNumber, count)
<1> DEFINE first == dayNumber * CardsPerDay
           r(i) == (first + i - 1) % count
           q(i) == (first + i - 1) \div count
<1>1. first \in Int
  BY CardsPerDayAssumption
<1>2. 1..Cards(count) \subseteq 1..count
  BY CardsPerDayAssumption DEF Cards
<1>3. ASSUME NEW i \in 1..Cards(count)
      PROVE  /\ PositionsForDay(dayNumber, count)[i] = r(i) + 1
             /\ r(i) \in 0..(count - 1) /\ q(i) \in Int
             /\ first + i - 1 = count * q(i) + r(i)
  <2>1. first + i - 1 \in Int
    BY <1>1, <1>2
  <2> QED
    BY <2>1, PickIs, Division
<1>4. ASSUME NEW i \in 1..Cards(count), NEW k \in 1..Cards(count), r(i) = r(k)
      PROVE  i = k
  <2>1. r(i) \in 0..(count - 1) /\ q(i) \in Int /\ first + i - 1 = count * q(i) + r(i)
    BY <1>3
  <2>2. q(k) \in Int /\ first + k - 1 = count * q(k) + r(i)
    BY <1>3, <1>4
  <2>3. i \in 1..count /\ k \in 1..count
    BY <1>2
  <2> HIDE DEF r, q, first
  <2>4. i - k = count * (q(i) - q(k))
    <3>1. count * (q(i) - q(k)) = count * q(i) - count * q(k)
      BY <2>1, <2>2
    <3> QED
      BY <1>1, <2>1, <2>2, <2>3, <3>1
  <2>5. q(i) - q(k) = 0
    <3> DEFINE z == q(i) - q(k)
    <3>1. z \in Int /\ i - k = count * z /\ i - k < count /\ k - i < count
      BY <2>1, <2>2, <2>3, <2>4
    <3> HIDE DEF z
    <3>2. z = 0
      <4>1. CASE z >= 1
        <5>1. count * z >= count
          BY <3>1, <4>1
        <5> QED
          BY <3>1, <5>1, <2>3
      <4>2. CASE z <= -1
        <5>1. count * z <= -count
          BY <3>1, <4>2
        <5> QED
          BY <3>1, <5>1, <2>3
      <4> QED
        BY <3>1, <4>1, <4>2
    <3> QED
      BY <3>2 DEF z
  <2> QED
    BY <2>3, <2>4, <2>5
<1> HIDE DEF r, q, first
<1>5. ASSUME NEW i \in 1..Cards(count), NEW k \in 1..Cards(count)
      PROVE  /\ PositionsForDay(dayNumber, count)[i] \in 1..count
             /\ PositionsForDay(dayNumber, count)[i] = PositionsForDay(dayNumber, count)[k] => i = k
  <2>1. r(i) + 1 \in 1..count
    BY <1>3
  <2>2. r(i) \in Int /\ r(k) \in Int
    BY <1>3
  <2> QED
    BY <1>3, <1>4, <2>1, <2>2
<1> QED
  BY <1>5 DEF PickIsASet

\* A day's cards follow those of the day before in the table and then begin
\* again, so that every row has its day.
THEOREM PickAlwaysGoesOn ==
    ASSUME NEW dayNumber \in Int, NEW count \in Nat \ {0}
    PROVE  PickGoesOn(dayNumber, count)
<1> SUFFICES ASSUME count >= CardsPerDay
             PROVE  PositionsForDay(dayNumber + 1, count)[1]
                        = (PositionsForDay(dayNumber, count)[CardsPerDay] % count) + 1
  BY DEF PickGoesOn
<1> DEFINE next == (dayNumber + 1) * CardsPerDay
<1>1. next \in Int /\ next - 1 \in Int
  BY CardsPerDayAssumption
<1>2. dayNumber * CardsPerDay + CardsPerDay = next
  BY CardsPerDayAssumption
<1>3. 1 \in 1..Cards(count) /\ CardsPerDay \in 1..Cards(count)
  BY CardsPerDayAssumption DEF Cards
<1>4. PositionsForDay(dayNumber + 1, count)[1] = (next % count) + 1
  <2>1. PositionsForDay(dayNumber + 1, count)[1] = ((next + 1 - 1) % count) + 1
    BY <1>3, PickIs
  <2>2. next + 1 - 1 = next
    BY <1>1
  <2> QED
    BY <2>1, <2>2
<1>5. PositionsForDay(dayNumber, count)[CardsPerDay] = ((next - 1) % count) + 1
  BY <1>2, <1>3, PickIs
<1> HIDE DEF next
<1> DEFINE r == (next - 1) % count
           q == (next - 1) \div count
<1>6. r \in 0..(count - 1) /\ q \in Int /\ next - 1 = count * q + r
  BY <1>1, Division
<1> HIDE DEF r, q
<1>7. next % count = (r + 1) % count
  <2>1. CASE r + 1 < count
    <3>1. next = count * q + (r + 1) /\ r + 1 \in 0..(count - 1)
      BY <1>1, <1>6, <2>1
    <3>2. r + 1 = count * 0 + (r + 1) /\ r + 1 \in Int
      BY <1>6
    <3> QED
      BY <1>1, <1>6, <3>1, <3>2, RemainderIs
  <2>2. CASE r + 1 = count
    <3>1. next = count * (q + 1) + 0
      <4>1. count * (q + 1) = count * q + count
        BY <1>6
      <4> QED
        BY <1>1, <1>6, <2>2, <4>1
    <3>2. r + 1 = count * 1 + 0 /\ r + 1 \in Int
      BY <1>6, <2>2
    <3>3. 0 \in 0..(count - 1) /\ q + 1 \in Int
      BY <1>6
    <3>4. next % count = 0
      BY <1>1, <3>1, <3>3, RemainderIs
    <3>5. (r + 1) % count = 0
      BY <3>2, <3>3, RemainderIs
    <3> QED
      BY <3>4, <3>5
  <2> QED
    BY <1>6, <2>1, <2>2
<1> QED
  BY <1>4, <1>5, <1>7 DEF r

\* The day and the place in its pick at which a position comes.
LEMMA ComesAt ==
    ASSUME NEW dayNumber \in Int, NEW count \in Nat \ {0}, NEW m \in 0..(count - 1)
    PROVE  /\ m \div CardsPerDay \in 0..((count - 1) \div CardsPerDay)
           /\ (m % CardsPerDay) + 1 \in 1..Cards(count)
           /\ (dayNumber + (m \div CardsPerDay)) * CardsPerDay + ((m % CardsPerDay) + 1) - 1
                  = dayNumber * CardsPerDay + m
<1> DEFINE k == CardsPerDay
           q == m \div k
           r == m % k
           p == (count - 1) \div k
           s == (count - 1) % k
<1>1. k \in Nat \ {0}
  BY CardsPerDayAssumption
<1>2. q \in Int /\ r \in 0..(k - 1) /\ m = k * q + r
  <2>1. m \in Int
    OBVIOUS
  <2> QED
    BY <1>1, <2>1, Division
<1>3. p \in Int /\ s \in 0..(k - 1) /\ count - 1 = k * p + s
  <2>1. count - 1 \in Int
    OBVIOUS
  <2> QED
    BY <1>1, <2>1, Division
<1> HIDE DEF q, r, p, s
<1>4. q >= 0
  <2> SUFFICES ASSUME q <= -1  PROVE FALSE
    BY <1>2
  <2>1. k * q <= -k
    BY <1>1, <1>2
  <2> QED
    BY <1>1, <1>2, <2>1
<1>5. q <= p
  <2> SUFFICES ASSUME q >= p + 1  PROVE FALSE
    BY <1>2, <1>3
  <2> DEFINE z == q - p
  <2>1. z \in Int /\ z >= 1 /\ k * z = k * q - k * p
    BY <1>1, <1>2, <1>3
  <2> HIDE DEF z
  <2>2. k * z >= k
    BY <1>1, <2>1
  <2>3. k * q - k * p <= s - r
    BY <1>1, <1>2, <1>3
  <2> QED
    BY <1>1, <1>2, <1>3, <2>1, <2>2, <2>3
<1>6. r + 1 \in 1..Cards(count)
  <2>1. CASE count >= k
    BY <1>1, <1>2, <2>1 DEF Cards
  <2>2. CASE count < k
    <3>1. q = 0
      <4> SUFFICES ASSUME q >= 1  PROVE FALSE
        BY <1>2, <1>4
      <4>1. k * q >= k
        BY <1>1, <1>2
      <4> QED
        BY <1>1, <1>2, <2>2, <4>1
    <3>2. r = m
      BY <1>1, <1>2, <3>1
    <3> QED
      BY <2>2, <3>2 DEF Cards
  <2> QED
    BY <1>1, <2>1, <2>2
<1>7. (dayNumber + q) * k + (r + 1) - 1 = dayNumber * k + m
  <2>1. (dayNumber + q) * k = dayNumber * k + k * q
    BY <1>1, <1>2
  <2>2. dayNumber * k \in Int /\ k * q \in Int
    BY <1>1, <1>2
  <2> QED
    BY <1>2, <2>1, <2>2
<1>8. q \in 0..p
  BY <1>2, <1>3, <1>4, <1>5
<1> QED
  BY <1>6, <1>7, <1>8 DEF q, r, p

\* Nobody waits for a card for ever: from any day on every row of the table has
\* its day, at the latest when the table has been read through once.
THEOREM EveryCardAlwaysComes ==
    ASSUME NEW dayNumber \in Int, NEW count \in Nat \ {0}
    PROVE  EveryCardComes(dayNumber, count)
<1> SUFFICES ASSUME NEW position \in 1..count
             PROVE  \E days \in 0..((count - 1) \div CardsPerDay) : \E i \in 1..Cards(count) :
                        PositionsForDay(dayNumber + days, count)[i] = position
  BY DEF EveryCardComes
<1> DEFINE first == dayNumber * CardsPerDay
           m == (position - 1 - first) % count
           c == (position - 1 - first) \div count
           days == m \div CardsPerDay
           i == (m % CardsPerDay) + 1
<1>1. first \in Int /\ position - 1 - first \in Int
  BY CardsPerDayAssumption
<1>2. m \in 0..(count - 1) /\ c \in Int /\ position - 1 - first = count * c + m
  BY <1>1, Division
<1>3. /\ days \in 0..((count - 1) \div CardsPerDay) /\ i \in 1..Cards(count)
      /\ (dayNumber + days) * CardsPerDay + i - 1 = first + m
  BY <1>2, ComesAt
<1>4. (first + m) % count = position - 1
  <2> HIDE DEF first, m, c
  <2>1. first + m \in Int /\ -c \in Int /\ position - 1 \in 0..(count - 1)
    BY <1>1, <1>2
  <2>2. count * (-c) = -(count * c)
    BY <1>2
  <2>3. first + m = count * (-c) + (position - 1)
    BY <1>1, <1>2, <2>2
  <2> QED
    BY <2>1, <2>3, RemainderIs
<1>5. dayNumber + days \in Int
  <2>1. (count - 1) \div CardsPerDay \in Int
    BY CardsPerDayAssumption, Division
  <2> QED
    BY <1>3, <2>1
<1> HIDE DEF days, i, m, first
<1>6. PositionsForDay(dayNumber + days, count)[i] = ((first + m) % count) + 1
  BY <1>3, <1>5, PickIs
<1>7. PositionsForDay(dayNumber + days, count)[i] = position
  BY <1>4, <1>6
<1> QED
  BY <1>3, <1>7
=============================================================================
