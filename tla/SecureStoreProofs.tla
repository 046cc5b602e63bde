------------------------- MODULE SecureStoreProofs --------------------------
(***************************************************************************)
(* The stored session for any calls, sessions and keys: one key for every  *)
(* write, and two stores that behave as one register.                      *)
(***************************************************************************)
EXTENDS SecureStore, TLAPS

\* A call holds what its place needs.
Holdings ==
    \A c \in Calls :
        /\ IsWrite(call[c]) => call[c].value \in Values
        /\ call[c].at \in {"storing", "keyed", "writing"} => call[c].key \in Keys
        /\ call[c].at = "reading" => call[c].held \in Ciphertexts
        /\ call[c].at = "waiting" => call[c].on \in Calls

\* A creation is in flight exactly while its call is at it.
OneCreation ==
    /\ pending # None => call[pending].at \in Creating
    /\ \A c \in Calls : call[c].at \in Creating => pending = c

\* A waiting write awaits that creation, and is not alone unless it is.
WaitersFollow ==
    \A c \in Calls : call[c].at = "waiting" =>
        call[c].on = pending /\ (call[c].alone => call[call[c].on].alone)

\* While a removal runs nothing is alone.
RemovalsDisturb ==
    \A c, d \in Calls : Removing(c) /\ call[d].at \notin {"idle", "deleting"} => ~call[d].alone

\* A key on its way to the key store replaces none, and encrypts nothing yet.
FreshKey ==
    \A c \in Calls : call[c].at = "storing" =>
        /\ secret = None
        /\ cipher # None => cipher.key # call[c].key
        /\ \A d \in Calls : /\ call[d].held # None => call[d].held.key # call[c].key
                            /\ d # c => call[d].key # call[c].key

IInv == /\ TypeOK /\ Holdings /\ OneCreation /\ WaitersFollow /\ RemovalsDisturb /\ FreshKey
        /\ WritesShareTheKey

-----------------------------------------------------------------------------
LEMMA IdleType ==
    /\ Idle \in CallRecords
    /\ Idle.at = "idle" /\ Idle.key = None /\ Idle.held = None
    /\ ~IsWrite(Idle)
BY DEF Idle, CallRecords, Places, IsWrite, Creating

LEMMA InitInv == Init => IInv
<1> SUFFICES ASSUME Init
             PROVE  IInv
  OBVIOUS
<1>1. TypeOK
  BY IdleType DEF Init, TypeOK, Ciphertexts
<1>2. \A c \in Calls : call[c] = Idle
  BY DEF Init
<1>3. pending = None
  BY DEF Init
<1>4. Holdings /\ WaitersFollow /\ RemovalsDisturb /\ FreshKey /\ WritesShareTheKey
  BY <1>2 DEF Idle, Holdings, WaitersFollow, RemovalsDisturb, FreshKey, WritesShareTheKey,
              IsWrite, Creating, Removing
<1>5. OneCreation
  BY <1>2, <1>3 DEF Idle, OneCreation, Creating
<1> QED
  BY <1>1, <1>4, <1>5 DEF IInv

LEMMA SetItemInv ==
    ASSUME IInv, NEW c \in Calls, NEW v \in Values, SetItem(c, v)
    PROVE  IInv'
<1>1. /\ call[c] = Idle
      /\ UNCHANGED <<secret, cipher, answer>>
      /\ \A d \in Calls : d # c => call'[d] = call[d]
  BY DEF SetItem, IInv, TypeOK
<1>2. /\ call'[c].value = v /\ call'[c].alone = Undisturbed
      /\ call'[c].key = None /\ call'[c].held = None
      /\ \/ /\ pending # None /\ UNCHANGED pending
            /\ call'[c].at = "waiting" /\ call'[c].on = pending
         \/ /\ pending = None /\ pending' = c
            /\ call'[c].at = "loading" /\ call'[c].on = None
  BY ZenonT(60) DEF SetItem, IInv, TypeOK, Idle, PendingKey
<1>3. TypeOK'
  <2>1. Undisturbed \in BOOLEAN
    BY DEF Undisturbed
  <2>2. call'[c] \in CallRecords
    <3> DEFINE new(place, on) ==
                 [at |-> place, value |-> v, on |-> on, key |-> None, held |-> None,
                  alone |-> Undisturbed]
    <3>1. \/ call'[c] = new("waiting", pending)
          \/ call'[c] = new("loading", None)
      BY <1>1, ZenonT(60) DEF SetItem, IInv, TypeOK, Idle, PendingKey
    <3>2. \A place \in Places, on \in Calls \cup {None} : new(place, on) \in CallRecords
      BY <2>1 DEF CallRecords
    <3> HIDE DEF new
    <3> QED
      BY <3>1, <3>2 DEF IInv, TypeOK, Places, Creating
  <2>3. call' \in [Calls -> CallRecords]
    BY <1>1, <2>2 DEF SetItem, IInv, TypeOK
  <2> QED
    BY <1>1, <1>2, <2>3 DEF IInv, TypeOK
<1>4. Holdings'
  BY <1>1, <1>2 DEF IInv, TypeOK, Holdings, IsWrite, Creating
<1>5. OneCreation'
  BY <1>1, <1>2, NullAssumption DEF IInv, TypeOK, OneCreation, Creating, Idle
<1>6. WaitersFollow'
  <2>1. \A d \in Calls : call[d].at = "waiting" => pending \in Calls /\ pending # c
    BY <1>1, NullAssumption DEF IInv, TypeOK, Holdings, OneCreation, WaitersFollow, Creating, Idle
  <2>2. pending # None => pending \in Calls /\ pending # c
    BY <1>1 DEF IInv, TypeOK, OneCreation, Creating, Idle
  <2>3. Undisturbed /\ pending # None => call[pending].alone
    BY <2>2 DEF IInv, OneCreation, Undisturbed, IsWrite
  <2> QED
    BY <1>1, <1>2, <2>1, <2>2, <2>3, NullAssumption DEF IInv, WaitersFollow
<1>7. RemovalsDisturb'
  BY <1>1, <1>2 DEF IInv, TypeOK, RemovalsDisturb, Removing, Undisturbed
<1>8. FreshKey'
  BY <1>1, <1>2 DEF IInv, TypeOK, FreshKey, Idle, Holdings
<1>9. WritesShareTheKey'
  BY <1>1, <1>2 DEF IInv, WritesShareTheKey
<1> QED
  BY <1>3, <1>4, <1>5, <1>6, <1>7, <1>8, <1>9 DEF IInv

LEMMA KeyLoadsInv ==
    ASSUME IInv, NEW c \in Calls, KeyLoads(c)
    PROVE  IInv'
<1>1. /\ UNCHANGED <<secret, cipher, pending, answer>>
      /\ call[c].at = "loading"
      /\ \A d \in Calls : d # c => call'[d] = call[d]
  BY DEF KeyLoads, IInv, TypeOK
<1>2. /\ call'[c].value = call[c].value /\ call'[c].alone = call[c].alone
      /\ call'[c].held = call[c].held /\ call'[c].on = call[c].on
      /\ \/ secret # None /\ call'[c].at = "keyed" /\ call'[c].key = secret
         \/ secret = None /\ call'[c].at = "storing" /\ call'[c].key \in Keys \ UsedKeys
  BY DEF KeyLoads, IInv, TypeOK, CallRecords, LoadedKey
<1>3. TypeOK'
  BY DEF KeyLoads, IInv, TypeOK, CallRecords, LoadedKey, Places, Creating
<1>4. Holdings'
  BY <1>1, <1>2 DEF IInv, TypeOK, Holdings, IsWrite, Creating
<1>5. OneCreation' /\ WaitersFollow'
  BY <1>1, <1>2 DEF IInv, TypeOK, OneCreation, WaitersFollow, Holdings, Creating
<1>6. RemovalsDisturb'
  BY <1>1, <1>2 DEF IInv, TypeOK, RemovalsDisturb, Removing
<1>7. FreshKey'
  <2>1. call[c].held = call'[c].held /\ \A d \in Calls : call[d].held \in Ciphertexts \cup {None}
    BY <1>2 DEF IInv, TypeOK, CallRecords
  <2>2. \A d \in Calls : call[d].at = "storing" => d = c
    BY <1>1 DEF IInv, OneCreation, Creating
  <2>3. ASSUME call'[c].at = "storing"
        PROVE  /\ call'[c].key \notin UsedKeys /\ secret = None
    BY <1>2, <2>3
  <2>4. \A d \in Calls : /\ call[d].key \in UsedKeys
                         /\ call[d].held # None => call[d].held.key \in UsedKeys
    BY DEF UsedKeys
  <2>5. cipher # None => cipher.key \in UsedKeys
    BY DEF UsedKeys
  <2> QED
    BY <1>1, <2>1, <2>2, <2>3, <2>4, <2>5 DEF FreshKey
<1>8. WritesShareTheKey'
  BY <1>1, <1>2 DEF IInv, WritesShareTheKey
<1> QED
  BY <1>3, <1>4, <1>5, <1>6, <1>7, <1>8 DEF IInv

LEMMA KeyStoredInv ==
    ASSUME IInv, NEW c \in Calls, KeyStored(c)
    PROVE  IInv'
<1>1. /\ UNCHANGED <<cipher, pending, answer>>
      /\ call[c].at = "storing" /\ secret' = call[c].key
      /\ \A d \in Calls : d # c => call'[d] = call[d]
  BY DEF KeyStored, IInv, TypeOK
<1>2. /\ call'[c].value = call[c].value /\ call'[c].alone = call[c].alone
      /\ call'[c].held = call[c].held /\ call'[c].on = call[c].on
      /\ call'[c].at = "keyed" /\ call'[c].key = call[c].key
  BY DEF KeyStored, IInv, TypeOK, CallRecords
<1>3. secret = None /\ call[c].key \in Keys
  BY <1>1 DEF IInv, FreshKey, Holdings
<1>4. TypeOK'
  BY <1>3 DEF KeyStored, IInv, TypeOK, CallRecords, Places, Creating
<1>5. Holdings'
  BY <1>1, <1>2 DEF IInv, TypeOK, Holdings, IsWrite, Creating
<1>6. OneCreation' /\ WaitersFollow'
  BY <1>1, <1>2 DEF IInv, TypeOK, OneCreation, WaitersFollow, Holdings, Creating
<1>7. RemovalsDisturb'
  BY <1>1, <1>2 DEF IInv, TypeOK, RemovalsDisturb, Removing
<1>8. FreshKey'
  BY <1>1, <1>2 DEF IInv, OneCreation, FreshKey, Creating
<1>9. WritesShareTheKey'
  <2>1. \A d \in Calls : d # c /\ call[d].at \in {"keyed", "writing"} => ~call[d].alone
    BY <1>3, NullAssumption DEF IInv, WritesShareTheKey, Holdings, TypeOK, CallRecords
  <2> QED
    BY <1>1, <1>2, <2>1 DEF WritesShareTheKey, IInv, TypeOK, CallRecords
<1> QED
  BY <1>4, <1>5, <1>6, <1>7, <1>8, <1>9 DEF IInv

LEMMA KeySettlesInv ==
    ASSUME IInv, NEW c \in Calls, KeySettles(c)
    PROVE  IInv'
<1> DEFINE S == Sharers(c)
<1>1. /\ UNCHANGED <<secret, cipher, answer>>
      /\ call[c].at = "keyed" /\ pending = c /\ pending' = None
      /\ \A d \in Calls : d \notin S => call'[d] = call[d]
  BY DEF KeySettles, NoLongerPending, IInv, OneCreation, Creating
<1>2. \A d \in S : /\ d \in Calls
                   /\ call'[d].at = "writing" /\ call'[d].on = None
                   /\ call'[d].key = call[c].key
                   /\ call'[d].value = call[d].value /\ call'[d].held = call[d].held
                   /\ call'[d].alone = call[d].alone
  <2> TAKE d \in S
  <2>1. d \in Calls
    BY DEF Sharers
  <2>2. call[d] \in CallRecords
    BY <2>1 DEF IInv, TypeOK
  <2>3. call'[d] = [call[d] EXCEPT !.at = "writing", !.on = None, !.key = call[c].key]
    BY <2>1 DEF KeySettles
  <2> QED
    BY <2>1, <2>2, <2>3 DEF CallRecords
<1>3. \A d \in Calls : d \in S <=> d = c \/ call[d].at = "waiting"
  BY <1>1 DEF Sharers, IInv, WaitersFollow
<1>4. \A d \in Calls : call[d].at \in Creating => d = c
  BY <1>1 DEF IInv, OneCreation
<1>5. call[c].key \in Keys
  BY <1>1 DEF IInv, Holdings
<1>6. TypeOK'
  <2>1. call' \in [Calls -> CallRecords]
    BY <1>5, ZenonT(60) DEF KeySettles, IInv, TypeOK, CallRecords, Places
  <2> QED
    BY <1>1, <2>1 DEF IInv, TypeOK
<1> HIDE DEF S
<1>7. Holdings'
  BY <1>1, <1>2, <1>3, <1>5 DEF IInv, Holdings, IsWrite, Creating
<1>8. OneCreation' /\ WaitersFollow' /\ FreshKey'
  BY <1>1, <1>2, <1>3, <1>4 DEF OneCreation, WaitersFollow, FreshKey, Creating
<1>9. RemovalsDisturb'
  BY <1>1, <1>2, <1>3 DEF IInv, RemovalsDisturb, Removing
<1>10. WritesShareTheKey'
  <2>1. \A d \in S : call[d].alone => call[c].alone
    BY <1>1, <1>2, <1>3 DEF IInv, WaitersFollow
  <2> QED
    BY <1>1, <1>2, <2>1 DEF IInv, WritesShareTheKey
<1> QED
  BY <1>6, <1>7, <1>8, <1>9, <1>10 DEF IInv

\* Calls end, the creation they share with them, and neither store changes.
LEMMA CutShortInv ==
    ASSUME IInv, NEW C \in SUBSET Calls,
           UNCHANGED <<secret, cipher>>, answer' \in Values \cup {None, Unreadable},
           call' = [d \in Calls |-> IF d \in C THEN Idle ELSE call[d]],
           \/ pending' = pending /\ pending \notin C
           \/ pending' = None /\ \A d \in Calls : call[d].at = "waiting" \/ pending = d => d \in C
    PROVE  IInv'
<1>1. \A d \in Calls : call'[d] = call[d] \/ (d \in C /\ call'[d] = Idle)
  OBVIOUS
<1>2. TypeOK'
  BY IdleType DEF IInv, TypeOK
<1>3. Holdings' /\ RemovalsDisturb' /\ WritesShareTheKey'
  BY <1>1, IdleType DEF IInv, Holdings, RemovalsDisturb, WritesShareTheKey, IsWrite, Creating, Removing
<1>4. OneCreation' /\ WaitersFollow'
  <2>1. pending' # None => pending' \in Calls /\ pending' \notin C /\ pending' = pending
    BY DEF IInv, TypeOK
  <2>2. \A d \in Calls : call'[d].at \in Creating \cup {"waiting"} => d \notin C /\ call'[d] = call[d]
    BY <1>1, IdleType DEF Creating
  <2>3. OneCreation'
    BY <2>1, <2>2 DEF IInv, OneCreation, Creating
  <2>4. WaitersFollow'
    <3> SUFFICES ASSUME NEW d \in Calls, call'[d].at = "waiting"
                 PROVE  call'[d].on = pending' /\ (call'[d].alone => call'[call'[d].on].alone)
      BY DEF WaitersFollow
    <3>1. d \notin C /\ call'[d] = call[d]
      BY <2>2
    <3>2. pending' = pending /\ pending \notin C
      BY <3>1
    <3>3. call[d].on = pending /\ call[d].on \in Calls /\ (call[d].alone => call[call[d].on].alone)
      BY <3>1 DEF IInv, WaitersFollow, Holdings
    <3> QED
      BY <3>1, <3>2, <3>3
  <2> QED
    BY <2>3, <2>4
<1>5. FreshKey'
  BY <1>1, IdleType, NullAssumption DEF IInv, FreshKey, Holdings
<1> QED
  BY <1>2, <1>3, <1>4, <1>5 DEF IInv

LEMMA KeyRefusedInv ==
    ASSUME IInv, NEW c \in Calls, KeyRefused(c)
    PROVE  IInv'
<1>1. pending = c /\ pending' = None /\ answer' = answer
  BY DEF KeyRefused, NoLongerPending, IInv, OneCreation, Creating
<1>2. \A d \in Calls : call[d].at = "waiting" \/ pending = d => d \in Sharers(c)
  BY <1>1 DEF Sharers, IInv, WaitersFollow
<1>3. Sharers(c) \in SUBSET Calls
  BY DEF Sharers
<1> QED
  BY <1>1, <1>2, <1>3, CutShortInv DEF KeyRefused, IInv, TypeOK

\* One call ends that holds up no other.
LEMMA OneEnds ==
    ASSUME IInv, NEW c \in Calls, call[c].at \notin Creating, UNCHANGED pending,
           call' = [call EXCEPT ![c] = Idle],
           UNCHANGED <<secret, cipher>>, answer' \in Values \cup {None, Unreadable}
    PROVE  IInv'
<1>1. call' = [d \in Calls |-> IF d \in {c} THEN Idle ELSE call[d]]
  BY DEF IInv, TypeOK
<1>2. pending # c
  BY NullAssumption DEF IInv, OneCreation
<1> QED
  BY <1>1, <1>2, CutShortInv

LEMMA RemoveItemInv ==
    ASSUME IInv, NEW c \in Calls, RemoveItem(c)
    PROVE  IInv'
<1>1. /\ UNCHANGED <<secret, pending, answer>>
      /\ call[c] = Idle /\ cipher' = None
      /\ call'[c].at = "deleting" /\ call'[c].held = None /\ call'[c].key = None
  BY DEF RemoveItem, Disturbed, IInv, TypeOK, Idle
<1>2. \A d \in Calls : d # c =>
         /\ call'[d].at = call[d].at /\ call'[d].value = call[d].value
         /\ call'[d].on = call[d].on /\ call'[d].key = call[d].key
         /\ call'[d].held = call[d].held
         /\ call'[d].at \notin {"idle", "deleting"} => call'[d].alone = FALSE
  BY DEF RemoveItem, Disturbed, IInv, TypeOK, CallRecords
<1>3. TypeOK'
  <2>1. \A d \in Calls : Disturbed(call)[d] \in CallRecords
    BY DEF Disturbed, IInv, TypeOK, CallRecords
  <2>2. [Disturbed(call)[c] EXCEPT !.at = "deleting"] \in CallRecords
    BY <2>1 DEF CallRecords, Places
  <2>3. call' \in [Calls -> CallRecords]
    BY <2>1, <2>2 DEF RemoveItem, Disturbed
  <2> QED
    BY <1>1, <2>3 DEF IInv, TypeOK
<1>4. Holdings'
  BY <1>1, <1>2 DEF IInv, Holdings, IsWrite, Creating
<1>5. OneCreation'
  <2>1. pending # None => pending \in Calls /\ pending # c
    BY <1>1 DEF IInv, TypeOK, OneCreation, Creating, Idle
  <2> QED
    BY <1>1, <1>2, <2>1 DEF IInv, OneCreation, Creating
<1>6. WaitersFollow'
  BY <1>1, <1>2 DEF IInv, WaitersFollow
<1>7. RemovalsDisturb' /\ WritesShareTheKey'
  BY <1>1, <1>2 DEF RemovalsDisturb, WritesShareTheKey, Removing
<1>8. FreshKey'
  BY <1>1, <1>2, NullAssumption DEF IInv, FreshKey, Holdings
<1> QED
  BY <1>3, <1>4, <1>5, <1>6, <1>7, <1>8 DEF IInv

LEMMA GetItemInv ==
    ASSUME IInv, NEW c \in Calls, GetItem(c)
    PROVE  IInv'
<1>1. /\ UNCHANGED <<secret, cipher, pending, answer>>
      /\ call[c] = Idle /\ cipher # None /\ cipher \in Ciphertexts
      /\ call'[c].at = "reading" /\ call'[c].held = cipher /\ call'[c].key = None
      /\ call'[c].alone = Calmly
      /\ \A d \in Calls : d # c => call'[d] = call[d]
  BY DEF GetItem, IInv, TypeOK, Idle
<1>2. TypeOK'
  <2>1. Calmly \in BOOLEAN
    BY DEF Calmly
  <2>2. [at |-> "reading", value |-> None, on |-> None, key |-> None, held |-> cipher,
         alone |-> Calmly] \in CallRecords
    BY <1>1, <2>1 DEF CallRecords, Places
  <2>3. call'[c] = [at |-> "reading", value |-> None, on |-> None, key |-> None,
                    held |-> cipher, alone |-> Calmly]
    BY DEF GetItem, IInv, TypeOK, Idle
  <2>4. call' \in [Calls -> CallRecords]
    BY <1>1, <2>2, <2>3 DEF GetItem, IInv, TypeOK
  <2> QED
    BY <1>1, <2>4 DEF IInv, TypeOK
<1>3. Holdings'
  BY <1>1 DEF IInv, Holdings, IsWrite, Creating
<1>4. \A d \in Calls : call'[d].at \in Creating \cup {"waiting", "writing"} =>
         d # c /\ call'[d] = call[d]
  BY <1>1 DEF Creating
<1>5. OneCreation' /\ WaitersFollow'
  <2>1. pending # None => pending \in Calls /\ pending # c
    BY <1>1 DEF IInv, TypeOK, OneCreation, Creating, Idle
  <2>2. OneCreation'
    BY <1>1, <1>4, <2>1 DEF IInv, OneCreation, Creating
  <2>3. \A d \in Calls : call[d].at = "waiting" => pending # None
    BY NullAssumption DEF IInv, WaitersFollow, Holdings
  <2>4. WaitersFollow'
    BY <1>1, <1>4, <2>1, <2>3 DEF IInv, WaitersFollow
  <2> QED
    BY <2>2, <2>4
<1>6. RemovalsDisturb'
  BY <1>1 DEF IInv, RemovalsDisturb, Removing, Calmly
<1>7. FreshKey'
  BY <1>1, <1>4, NullAssumption DEF IInv, FreshKey, Holdings, Creating
<1>8. WritesShareTheKey'
  BY <1>1 DEF IInv, WritesShareTheKey
<1> QED
  BY <1>2, <1>3, <1>5, <1>6, <1>7, <1>8 DEF IInv

\* The last steps, and a step that a store refuses.
LEMMA LastStepInv ==
    ASSUME IInv, NEW c \in Calls, LastStep(c)
    PROVE  IInv'
<1>1. CASE CipherStored(c)
  <2>1. /\ call[c].at = "writing" /\ call[c].key \in Keys /\ call[c].value \in Values
        /\ cipher' = [value |-> call[c].value, key |-> call[c].key]
        /\ UNCHANGED <<secret, pending, answer>>
        /\ call'[c] = Idle /\ \A d \in Calls : d # c => call'[d] = call[d]
    BY <1>1 DEF CipherStored, IInv, TypeOK, Holdings, IsWrite
  <2>2. TypeOK'
    BY <2>1, <1>1, IdleType DEF IInv, TypeOK, CipherStored, Ciphertexts
  <2>3. Holdings' /\ RemovalsDisturb' /\ WritesShareTheKey'
    BY <2>1, IdleType DEF IInv, Holdings, RemovalsDisturb, WritesShareTheKey, IsWrite,
                          Creating, Removing
  <2>4. \A d \in Calls : call'[d].at \in Creating \cup {"waiting"} => d # c /\ call'[d] = call[d]
    BY <2>1, IdleType DEF Creating
  <2>5. pending # c
    BY <2>1, NullAssumption DEF IInv, OneCreation, Creating
  <2>6. OneCreation' /\ WaitersFollow'
    <3>1. OneCreation'
      BY <2>1, <2>4, <2>5 DEF IInv, TypeOK, OneCreation, Creating
    <3>2. WaitersFollow'
      BY <2>1, <2>4, <2>5 DEF IInv, WaitersFollow, Holdings
    <3> QED
      BY <3>1, <3>2
  <2>7. FreshKey'
    BY <2>1, <2>4, IdleType, NullAssumption DEF IInv, FreshKey, Creating, Holdings
  <2> QED
    BY <2>2, <2>3, <2>6, <2>7 DEF IInv
<1>2. CASE KeyDeleted(c)
  <2>1. /\ call[c].at = "deleting" /\ secret' = None /\ UNCHANGED <<cipher, pending, answer>>
        /\ call'[c] = Idle /\ \A d \in Calls : d # c => call'[d] = call[d]
    BY <1>2 DEF KeyDeleted, IInv, TypeOK
  <2>2. TypeOK'
    BY <2>1, <1>2, IdleType DEF IInv, TypeOK, KeyDeleted
  <2>3. Holdings' /\ RemovalsDisturb'
    BY <2>1, IdleType DEF IInv, Holdings, RemovalsDisturb, IsWrite, Creating, Removing
  <2>4. \A d \in Calls : call'[d].at \in Creating \cup {"waiting", "writing"} =>
           d # c /\ call'[d] = call[d] /\ ~call[d].alone
    BY <2>1, IdleType DEF IInv, RemovalsDisturb, Removing, Creating
  <2>5. pending # c
    BY <2>1, NullAssumption DEF IInv, OneCreation, Creating
  <2>6. OneCreation' /\ WaitersFollow'
    <3>1. OneCreation'
      BY <2>1, <2>4, <2>5 DEF IInv, TypeOK, OneCreation, Creating
    <3>2. WaitersFollow'
      BY <2>1, <2>4, <2>5 DEF IInv, WaitersFollow, Holdings
    <3> QED
      BY <3>1, <3>2
  <2>7. FreshKey' /\ WritesShareTheKey'
    BY <2>1, <2>4, IdleType, NullAssumption DEF IInv, FreshKey, WritesShareTheKey, Creating, Holdings
  <2> QED
    BY <2>2, <2>3, <2>6, <2>7 DEF IInv
<1>3. CASE Answer(c)
  <2>1. answer' \in Values \cup {None, Unreadable}
    BY <1>3 DEF Answer, Decrypted, IInv, Holdings, Ciphertexts
  <2> QED
    BY <1>3, <2>1, OneEnds DEF Answer, Creating
<1>4. CASE Refused(c)
  BY <1>4, OneEnds DEF Refused, Creating, IInv, TypeOK
<1> QED
  BY <1>1, <1>2, <1>3, <1>4 DEF LastStep

LEMMA StepInv == IInv /\ [Next]_vars => IInv'
<1> SUFFICES ASSUME IInv, [Next]_vars
             PROVE  IInv'
  OBVIOUS
<1>1. ASSUME NEW c \in Calls, Creation(c)
      PROVE  IInv'
  BY <1>1, KeyLoadsInv, KeyStoredInv, KeySettlesInv, KeyRefusedInv DEF Creation
<1>2. ASSUME NEW c \in Calls, NothingStored(c)
      PROVE  IInv'
  <2>1. TypeOK' /\ UNCHANGED <<secret, cipher, pending, call>>
    BY <1>2 DEF NothingStored, IInv, TypeOK
  <2> QED
    BY <2>1 DEF IInv, Holdings, OneCreation, WaitersFollow, RemovalsDisturb, FreshKey,
                WritesShareTheKey, Removing
<1>3. CASE Kill
  <2>1. call' = [d \in Calls |-> IF d \in Calls THEN Idle ELSE call[d]]
    BY <1>3 DEF Kill
  <2>2. Calls \in SUBSET Calls
    OBVIOUS
  <2> QED
    BY <1>3, <2>1, <2>2, CutShortInv DEF Kill, IInv, TypeOK
<1>4. CASE UNCHANGED vars
  BY <1>4 DEF vars, IInv, TypeOK, Holdings, OneCreation, WaitersFollow, RemovalsDisturb,
              FreshKey, WritesShareTheKey, Removing
<1> QED
  BY <1>1, <1>2, <1>3, <1>4, SetItemInv, RemoveItemInv, GetItemInv, LastStepInv DEF Next

LEMMA Invariance == Spec => []IInv
<1> QED
  BY InitInv, StepInv, PTL DEF Spec

-----------------------------------------------------------------------------
(* The refinement: what each step does to the register.                    *)

\* What a call of the register looks like, by the place of its call.
LEMMA CallOfCases ==
    ASSUME NEW r \in CallRecords
    PROVE  /\ IsWrite(r) => CallOf(r) = [kind |-> "write", value |-> r.value, alone |-> r.alone]
           /\ r.at = "deleting" => CallOf(r) = [kind |-> "remove", value |-> None, alone |-> TRUE]
           /\ r.at = "idle" => CallOf(r) = [kind |-> "idle", value |-> None, alone |-> TRUE]
           /\ r.at = "reading" =>
                 /\ CallOf(r).kind = "read" /\ CallOf(r).alone = r.alone
                 /\ CallOf(r) = [kind |-> "read", alone |-> r.alone, value |-> CallOf(r).value]
                 /\ ~r.alone => CallOf(r).value = None
                 /\ r.alone /\ r.held.key = secret => CallOf(r).value = r.held.value
                 /\ r.alone /\ r.held.key # secret => CallOf(r).value = Unreadable
           /\ IsWrite(r) \/ r.at \in {"deleting", "idle", "reading"}
BY DEF CallOf, CallRecords, Places, IsWrite, Creating

LEMMA StoredOfCases ==
    /\ cipher = None => StoredOf = None
    /\ cipher # None /\ cipher.key = secret => StoredOf = cipher.value
    /\ cipher # None /\ cipher.key # secret => StoredOf = Unreadable
BY DEF StoredOf

\* The register sees what is removed, and what is alone, as the store does.
LEMMA SameView ==
    ASSUME TypeOK
    PROVE  /\ \A c \in Calls : Register!Removing(c) <=> Removing(c)
           /\ Register!Calmly <=> Calmly
           /\ Register!Undisturbed <=> Undisturbed
<1>1. \A c \in Calls : call[c] \in CallRecords
  BY DEF TypeOK
<1>2. \A c \in Calls : /\ CallOf(call[c]).kind = "remove" <=> call[c].at = "deleting"
                       /\ CallOf(call[c]).kind = "write" <=> IsWrite(call[c])
                       /\ IsWrite(call[c]) => CallOf(call[c]).alone = call[c].alone
  <2> SUFFICES ASSUME NEW c \in Calls
               PROVE  /\ CallOf(call[c]).kind = "remove" <=> call[c].at = "deleting"
                      /\ CallOf(call[c]).kind = "write" <=> IsWrite(call[c])
                      /\ IsWrite(call[c]) => CallOf(call[c]).alone = call[c].alone
    OBVIOUS
  <2>1. CASE IsWrite(call[c])
    <3>1. CallOf(call[c]) = [kind |-> "write", value |-> call[c].value, alone |-> call[c].alone]
      BY <1>1, <2>1, CallOfCases
    <3> QED
      BY <2>1, <3>1 DEF IsWrite, Creating
  <2>2. CASE call[c].at = "deleting"
    BY <1>1, <2>2, CallOfCases DEF IsWrite, Creating
  <2>3. CASE call[c].at \in {"idle", "reading"}
    BY <1>1, <2>3, CallOfCases DEF IsWrite, Creating
  <2> QED
    BY <1>1, <2>1, <2>2, <2>3, CallOfCases
<1> QED
  BY <1>2 DEF Register!Removing, Register!Calmly, Register!Undisturbed, Removing, Calmly, Undisturbed

LEMMA RegisterInit == Init => Register!Init
<1> SUFFICES ASSUME Init
             PROVE  Register!Init
  OBVIOUS
<1>1. \A c \in Calls : CallOf(call[c]) = Register!Idle
  BY IdleType, CallOfCases DEF Init, Register!Idle
<1>2. StoredOf \in Values \cup {None}
  BY StoredOfCases, NullAssumption DEF Init
<1> QED
  BY <1>1, <1>2 DEF Init, Register!Init

\* A step that changes no more of a call than where its creation is.
LEMMA CreationStutters ==
    ASSUME IInv, NEW c \in Calls, KeyLoads(c) \/ KeyStored(c) \/ KeySettles(c), IInv'
    PROVE  UNCHANGED Register!vars
<1>1. \A d \in Calls :
         \/ call'[d] = call[d]
         \/ /\ IsWrite(call[d]) /\ IsWrite(call'[d])
            /\ call'[d].value = call[d].value /\ call'[d].alone = call[d].alone
  <2>1. CASE KeyLoads(c)
    BY <2>1 DEF KeyLoads, IInv, TypeOK, CallRecords, IsWrite, Creating
  <2>2. CASE KeyStored(c)
    BY <2>2 DEF KeyStored, IInv, TypeOK, CallRecords, IsWrite, Creating
  <2>3. CASE KeySettles(c)
    BY <2>3 DEF KeySettles, Sharers, IInv, TypeOK, CallRecords, IsWrite, Creating
  <2> QED
    BY <2>1, <2>2, <2>3
<1>2. \/ secret' = secret
      \/ /\ secret = None
         /\ cipher # None => cipher.key \in Keys /\ cipher.key # secret'
         /\ \A d \in Calls : call[d].at = "reading" =>
               call[d].held.key \in Keys /\ call[d].held.key # secret'
  <2>1. CASE KeyStored(c)
    <3>1. call[c].at = "storing" /\ secret' = call[c].key
      BY <2>1 DEF KeyStored
    <3>2. secret = None /\ (cipher # None => cipher.key # call[c].key)
      BY <3>1 DEF IInv, FreshKey
    <3>3. cipher # None => cipher.key \in Keys
      BY DEF IInv, TypeOK, Ciphertexts
    <3>4. \A d \in Calls : call[d].at = "reading" =>
             call[d].held.key \in Keys /\ call[d].held.key # call[c].key
      BY <3>1, NullAssumption DEF IInv, FreshKey, Holdings, Ciphertexts
    <3> QED
      BY <3>1, <3>2, <3>3, <3>4
  <2>2. CASE ~KeyStored(c)
    BY <2>2 DEF KeyLoads, KeySettles
  <2> QED
    BY <2>1, <2>2
<1>3. UNCHANGED <<cipher, answer>>
  BY DEF KeyLoads, KeyStored, KeySettles
<1>4. StoredOf' = StoredOf
  BY <1>2, <1>3, NullAssumption DEF StoredOf
<1>5. \A d \in Calls : CallOf(call[d])' = CallOf(call[d])
  <2> SUFFICES ASSUME NEW d \in Calls
               PROVE  CallOf(call[d])' = CallOf(call[d])
    OBVIOUS
  <2>1. call[d] \in CallRecords /\ call'[d] \in CallRecords
    BY DEF IInv, TypeOK
  <2>2. CASE IsWrite(call[d]) /\ IsWrite(call'[d])
             /\ call'[d].value = call[d].value /\ call'[d].alone = call[d].alone
    BY <2>1, <2>2 DEF CallOf
  <2>3. CASE call'[d] = call[d] /\ call[d].at # "reading"
    BY <2>1, <2>3 DEF CallOf, IsWrite, Creating
  <2>4. CASE call'[d] = call[d] /\ call[d].at = "reading"
    <3>1. (call[d].held.key = secret)' <=> call[d].held.key = secret
      BY <1>2, <2>4, NullAssumption
    <3> QED
      BY <2>4, <3>1 DEF CallOf
  <2> QED
    BY <1>1, <2>2, <2>3, <2>4
<1> QED
  BY <1>3, <1>4, <1>5 DEF Register!vars

LEMMA SameCallOf ==
    ASSUME NEW d \in Calls, call'[d] = call[d], secret' = secret
    PROVE  CallOf(call[d])' = CallOf(call[d])
BY DEF CallOf

LEMMA EndedCallOf ==
    ASSUME NEW d \in Calls, call'[d] = Idle
    PROVE  CallOf(call[d])' = Register!Idle
BY IdleType DEF CallOf, Register!Idle, Idle, IsWrite, Creating

LEMMA NextCallOf ==
    ASSUME NEW d \in Calls
    PROVE  /\ IsWrite(call'[d]) =>
                 CallOf(call[d])' = [kind |-> "write", value |-> call'[d].value,
                                     alone |-> call'[d].alone]
           /\ call'[d].at = "deleting" =>
                 CallOf(call[d])' = [kind |-> "remove", value |-> None, alone |-> TRUE]
           /\ call'[d].at = "reading" =>
                 CallOf(call[d])' =
                    [kind |-> "read", alone |-> call'[d].alone,
                     value |-> CASE ~call'[d].alone -> None
                                 [] call'[d].alone /\ call'[d].held.key = secret' -> call'[d].held.value
                                 [] OTHER -> Unreadable]
BY DEF CallOf, IsWrite, Creating

LEMMA SetItemBegins ==
    ASSUME IInv, NEW c \in Calls, NEW v \in Values, SetItem(c, v)
    PROVE  Register!BeginWrite(c, v)
<1>1. /\ call[c] = Idle /\ UNCHANGED <<secret, cipher, answer>>
      /\ \A d \in Calls : d # c => call'[d] = call[d]
      /\ IsWrite(call'[c]) /\ call'[c].value = v /\ call'[c].alone = Undisturbed
  BY DEF SetItem, IInv, TypeOK, Idle, IsWrite, Creating
<1>2. CallOf(call[c]) = Register!Idle
  BY <1>1, IdleType, CallOfCases DEF Register!Idle
<1>3. CallOf(call[c])' = [kind |-> "write", value |-> v, alone |-> Register!Undisturbed]
  <2>1. (Undisturbed <=> Register!Undisturbed) /\ Undisturbed \in BOOLEAN /\ Register!Undisturbed \in BOOLEAN
    BY SameView DEF IInv, Undisturbed, Register!Undisturbed
  <2>2. Undisturbed = Register!Undisturbed
    BY <2>1
  <2>3. CallOf(call[c])' = [kind |-> "write", value |-> call'[c].value, alone |-> call'[c].alone]
    BY <1>1, NextCallOf
  <2>4. call'[c].alone = Register!Undisturbed
    BY <1>1, <2>2
  <2> QED
    BY <1>1, <2>3, <2>4
<1>4. \A d \in Calls : d # c => CallOf(call[d])' = CallOf(call[d])
  BY <1>1, SameCallOf
<1>5. StoredOf' = StoredOf
  BY <1>1 DEF StoredOf
<1> QED
  BY <1>1, <1>2, <1>3, <1>4, <1>5 DEF Register!BeginWrite

LEMMA CutShortEnds ==
    ASSUME NEW C \in SUBSET Calls, UNCHANGED <<secret, cipher, answer>>,
           call' = [d \in Calls |-> IF d \in C THEN Idle ELSE call[d]]
    PROVE  \E D \in SUBSET Calls : Register!CutShort(D)
<1>1. \A d \in Calls : CallOf(call[d])' = IF d \in C THEN Register!Idle ELSE CallOf(call[d])
  BY SameCallOf, EndedCallOf
<1>2. StoredOf' = StoredOf
  BY DEF StoredOf
<1>3. Register!CutShort(C)
  BY <1>1, <1>2 DEF Register!CutShort
<1> QED
  BY <1>3

LEMMA CipherStoredWrites ==
    ASSUME IInv, NEW c \in Calls, CipherStored(c)
    PROVE  Register!Write(c)
<1>1. /\ call[c].at = "writing" /\ call[c] \in CallRecords /\ UNCHANGED <<secret, answer>>
      /\ cipher' = [value |-> call[c].value, key |-> call[c].key]
      /\ call[c].value \in Values /\ call[c].key \in Keys
      /\ call'[c] = Idle /\ \A d \in Calls : d # c => call'[d] = call[d]
  BY DEF CipherStored, IInv, TypeOK, Holdings, IsWrite
<1>2. CallOf(call[c]) = [kind |-> "write", value |-> call[c].value, alone |-> call[c].alone]
  BY <1>1, CallOfCases DEF IsWrite
<1>3. CallOf(call[c])' = Register!Idle /\ \A d \in Calls : d # c => CallOf(call[d])' = CallOf(call[d])
  BY <1>1, SameCallOf, EndedCallOf
<1>4. cipher' # None
  BY <1>1, NullAssumption DEF Ciphertexts
<1>5. StoredOf' = IF call[c].key = secret THEN call[c].value ELSE Unreadable
  BY <1>1, <1>4 DEF StoredOf
<1>6. call[c].alone => call[c].key = secret
  BY <1>1 DEF IInv, WritesShareTheKey
<1>7. StoredOf' \in {call[c].value} \cup (IF call[c].alone THEN {} ELSE {Unreadable})
  BY <1>5, <1>6
<1>8. [d \in Calls |-> CallOf(call[d])]' = [[d \in Calls |-> CallOf(call[d])] EXCEPT ![c] = Register!Idle]
  BY <1>3
<1>9. /\ CallOf(call[c]).kind = "write" /\ CallOf(call[c]).value = call[c].value
      /\ CallOf(call[c]).alone = call[c].alone
  BY <1>2
<1> QED
  BY <1>1, <1>7, <1>8, <1>9 DEF Register!Write

LEMMA RemoveItemRemoves ==
    ASSUME IInv, NEW c \in Calls, RemoveItem(c)
    PROVE  Register!Remove(c)
<1>1. /\ UNCHANGED <<secret, answer>> /\ call[c] = Idle /\ cipher' = None
      /\ call'[c].at = "deleting"
  BY DEF RemoveItem, Disturbed, IInv, TypeOK, Idle
<1>2. \A d \in Calls : d # c =>
         /\ call[d] \in CallRecords
         /\ call'[d] = IF call[d].at \in {"idle", "deleting"} THEN call[d]
                       ELSE [call[d] EXCEPT !.alone = FALSE]
  BY DEF RemoveItem, Disturbed, IInv, TypeOK
<1>3. CallOf(call[c]) = Register!Idle
  BY <1>1, IdleType, CallOfCases DEF Register!Idle
<1>4. CallOf(call[c])' = [kind |-> "remove", value |-> None, alone |-> TRUE]
  BY <1>1, NextCallOf
<1> DEFINE old == [d \in Calls |-> CallOf(call[d])]
<1>5. \A d \in Calls : d # c => CallOf(call[d])' = Register!Disturbed(old)[d]
  <2> SUFFICES ASSUME NEW d \in Calls, d # c
               PROVE  CallOf(call[d])' = Register!Disturbed(old)[d]
    OBVIOUS
  <2>0. call[d] \in CallRecords
    BY <1>2
  <2>1. CASE IsWrite(call[d])
    <3>1. old[d] = [kind |-> "write", value |-> call[d].value, alone |-> call[d].alone]
      BY <1>2, <2>1, CallOfCases
    <3>2. call'[d] = [call[d] EXCEPT !.alone = FALSE]
      BY <1>2, <2>1 DEF IsWrite, Creating
    <3>3. call'[d].at = call[d].at /\ call'[d].value = call[d].value /\ call'[d].alone = FALSE
      BY <1>2, <3>2 DEF CallRecords
    <3>4. CallOf(call[d])' = [kind |-> "write", value |-> call[d].value, alone |-> FALSE]
      <4>1. IsWrite(call'[d])
        BY <2>1, <3>3 DEF IsWrite
      <4> QED
        BY <3>3, <4>1, NextCallOf
    <3>5. old[d].kind = "write" /\ old[d].value = call[d].value
      BY <3>1
    <3> HIDE DEF old
    <3> QED
      BY <3>4, <3>5 DEF Register!Disturbed
  <2>2. CASE call[d].at = "deleting" \/ call[d].at = "idle"
    <3>1. call'[d] = call[d]
      BY <1>2, <2>2
    <3>2. CallOf(call[d])' = CallOf(call[d])
      BY <1>1, <3>1, SameCallOf
    <3>3. CallOf(call[d]).kind \in {"remove", "idle"}
      <4>1. CASE call[d].at = "deleting"
        BY <2>0, <4>1, CallOfCases
      <4>2. CASE call[d].at = "idle"
        BY <2>0, <4>2, CallOfCases
      <4> QED
        BY <2>2, <4>1, <4>2
    <3>4. Register!Disturbed(old)[d] = old[d]
      BY <3>3 DEF Register!Disturbed
    <3> QED
      BY <3>2, <3>4
  <2>3. CASE call[d].at = "reading"
    <3>1. CallOf(call[d]).kind = "read"
      BY <2>0, <2>3, CallOfCases
    <3>2. call'[d].at = "reading" /\ call'[d].alone = FALSE
      BY <1>2, <2>3 DEF CallRecords
    <3>3. CallOf(call[d])' = [kind |-> "read", alone |-> FALSE, value |-> None]
      BY <3>2, NextCallOf
    <3>4. old[d].kind = "read"
      BY <3>1
    <3> HIDE DEF old
    <3> QED
      BY <3>3, <3>4 DEF Register!Disturbed
  <2> QED
    BY <2>0, <2>1, <2>2, <2>3, CallOfCases
<1>6. StoredOf' = None
  BY <1>1 DEF StoredOf
<1>7. [d \in Calls |-> CallOf(call[d])]' =
         [Register!Disturbed(old) EXCEPT ![c] = [kind |-> "remove", value |-> None, alone |-> TRUE]]
  <2>1. Register!Disturbed(old) = [d \in Calls |-> Register!Disturbed(old)[d]]
    BY DEF Register!Disturbed
  <2> HIDE DEF old
  <2> QED
    BY <1>4, <1>5, <2>1
<1> QED
  BY <1>1, <1>3, <1>6, <1>7 DEF Register!Remove

LEMMA KeyDeletedEnds ==
    ASSUME IInv, NEW c \in Calls, KeyDeleted(c)
    PROVE  Register!EndRemove(c)
<1>1. /\ call[c].at = "deleting" /\ secret' = None /\ UNCHANGED <<cipher, answer>>
      /\ call'[c] = Idle /\ \A d \in Calls : d # c => call'[d] = call[d]
  BY DEF KeyDeleted, IInv, TypeOK
<1>2. \A d \in Calls : call[d].at = "reading" => ~call[d].alone
  BY <1>1 DEF IInv, RemovalsDisturb, Removing
<1>3. \A d \in Calls : d # c => CallOf(call[d])' = CallOf(call[d])
  <2> SUFFICES ASSUME NEW d \in Calls, d # c
               PROVE  CallOf(call[d])' = CallOf(call[d])
    OBVIOUS
  <2>1. CASE call[d].at = "reading"
    BY <1>1, <1>2, <2>1 DEF CallOf
  <2>2. CASE call[d].at # "reading"
    BY <1>1, <2>2 DEF CallOf
  <2> QED
    BY <2>1, <2>2
<1>4. CallOf(call[c])' = Register!Idle
  BY <1>1, EndedCallOf
<1>5. StoredOf' \in {StoredOf} \cup (IF StoredOf = None THEN {} ELSE {Unreadable})
  <2>1. CASE cipher = None
    BY <1>1, <2>1 DEF StoredOf
  <2>2. CASE cipher # None
    <3>1. cipher.key \in Keys /\ cipher.value \in Values
      BY <2>2 DEF IInv, TypeOK, Ciphertexts
    <3>2. StoredOf' = Unreadable
      BY <1>1, <2>2, <3>1, NullAssumption DEF StoredOf
    <3>3. StoredOf # None
      BY <2>2, <3>1, StoredOfCases, NullAssumption
    <3> QED
      BY <3>2, <3>3
  <2> QED
    BY <2>1, <2>2
<1>6. Register!Removing(c)
  BY <1>1, SameView DEF IInv, Removing
<1> QED
  BY <1>1, <1>3, <1>4, <1>5, <1>6 DEF Register!EndRemove

LEMMA NothingStoredReads ==
    ASSUME IInv, NEW c \in Calls, NothingStored(c)
    PROVE  Register!ReadNothing(c)
<1>1. /\ call[c] = Idle /\ cipher = None /\ answer' = None
      /\ UNCHANGED <<secret, cipher, call>>
  BY DEF NothingStored
<1>2. CallOf(call[c]) = Register!Idle /\ StoredOf = None
  BY <1>1, IdleType, CallOfCases, StoredOfCases DEF Register!Idle
<1>3. StoredOf' = StoredOf /\ \A d \in Calls : CallOf(call[d])' = CallOf(call[d])
  BY <1>1, SameCallOf DEF StoredOf
<1> QED
  BY <1>1, <1>2, <1>3 DEF Register!ReadNothing

LEMMA GetItemReads ==
    ASSUME IInv, NEW c \in Calls, GetItem(c)
    PROVE  Register!Read(c)
<1>1. /\ UNCHANGED <<secret, cipher, answer>>
      /\ call[c] = Idle /\ cipher # None /\ cipher \in Ciphertexts
      /\ call'[c].at = "reading" /\ call'[c].held = cipher /\ call'[c].alone = Calmly
      /\ \A d \in Calls : d # c => call'[d] = call[d]
  BY DEF GetItem, IInv, TypeOK, Idle
<1>2. CallOf(call[c]) = Register!Idle
  BY <1>1, IdleType, CallOfCases DEF Register!Idle
<1>3. \A d \in Calls : d # c => CallOf(call[d])' = CallOf(call[d])
  BY <1>1, SameCallOf
<1>4. StoredOf # None /\ StoredOf' = StoredOf
  BY <1>1, StoredOfCases, NullAssumption DEF StoredOf, Ciphertexts
<1>5. Calmly = Register!Calmly
  <2>1. (Calmly <=> Register!Calmly) /\ Calmly \in BOOLEAN /\ Register!Calmly \in BOOLEAN
    BY SameView DEF IInv, Calmly, Register!Calmly
  <2> QED
    BY <2>1
<1>6. CallOf(call[c])' = [kind |-> "read", value |-> IF Calmly THEN StoredOf ELSE None, alone |-> Calmly]
  <2>1. Calmly \in BOOLEAN
    BY DEF Calmly
  <2>2. CASE Calmly
    <3>1. CallOf(call[c])' = [kind |-> "read", alone |-> call'[c].alone,
                              value |-> IF cipher.key = secret THEN cipher.value ELSE Unreadable]
      BY <1>1, <2>2, NextCallOf
    <3>2. StoredOf = IF cipher.key = secret THEN cipher.value ELSE Unreadable
      BY <1>1, StoredOfCases
    <3> QED
      BY <1>1, <2>2, <3>1, <3>2
  <2>3. CASE ~Calmly
    BY <1>1, <2>3, NextCallOf
  <2> QED
    BY <2>1, <2>2, <2>3
<1>7. [d \in Calls |-> CallOf(call[d])]' =
         [[d \in Calls |-> CallOf(call[d])] EXCEPT ![c] =
            [kind |-> "read", value |-> IF Register!Calmly THEN StoredOf ELSE None,
             alone |-> Register!Calmly]]
  BY <1>3, <1>5, <1>6
<1> QED
  BY <1>1, <1>2, <1>4, <1>7 DEF Register!Read

LEMMA AnswerEndsRead ==
    ASSUME IInv, NEW c \in Calls, Answer(c)
    PROVE  Register!EndRead(c)
<1>1. /\ UNCHANGED <<secret, cipher>> /\ call[c].at = "reading" /\ call[c] \in CallRecords
      /\ answer' = Decrypted(call[c].held) /\ call[c].held \in Ciphertexts
      /\ call'[c] = Idle /\ \A d \in Calls : d # c => call'[d] = call[d]
  BY DEF Answer, IInv, TypeOK, Holdings
<1>2. CallOf(call[c])' = Register!Idle /\ \A d \in Calls : d # c => CallOf(call[d])' = CallOf(call[d])
  BY <1>1, SameCallOf, EndedCallOf
<1>3. StoredOf' = StoredOf
  BY <1>1 DEF StoredOf
<1>4. CallOf(call[c]).kind = "read" /\ CallOf(call[c]).alone = call[c].alone
  BY <1>1, CallOfCases
<1>5. answer' \in Register!Answers(c)
  <2>1. answer' \in Values \cup {None, Unreadable}
    BY <1>1 DEF Decrypted, Ciphertexts
  <2>2. CASE ~call[c].alone
    BY <1>4, <2>1, <2>2 DEF Register!Answers
  <2>3. CASE call[c].alone /\ call[c].held.key = secret
    <3>1. CallOf(call[c]).value = call[c].held.value
      BY <1>1, <2>3, CallOfCases
    <3>2. secret # None /\ call[c].held.value # Unreadable
      BY <1>1, <2>3, NullAssumption DEF Ciphertexts
    <3>3. answer' = call[c].held.value
      BY <1>1, <2>3, <3>2 DEF Decrypted
    <3> QED
      BY <1>4, <2>3, <3>1, <3>2, <3>3 DEF Register!Answers
  <2>4. CASE call[c].alone /\ call[c].held.key # secret
    <3>1. CallOf(call[c]).value = Unreadable
      BY <1>1, <2>4, CallOfCases
    <3>2. answer' \in {None, Unreadable}
      BY <1>1, <2>4 DEF Decrypted
    <3> QED
      BY <1>4, <2>4, <3>1, <3>2 DEF Register!Answers
  <2>5. call[c].alone \in BOOLEAN
    BY <1>1 DEF CallRecords
  <2> QED
    BY <2>2, <2>3, <2>4
<1> QED
  BY <1>1, <1>2, <1>3, <1>4, <1>5 DEF Register!EndRead

LEMMA StepRefines ==
    ASSUME IInv, IInv', [Next]_vars
    PROVE  [Register!Next]_(Register!vars)
<1>1. ASSUME NEW c \in Calls, KeyLoads(c) \/ KeyStored(c) \/ KeySettles(c)
      PROVE  UNCHANGED Register!vars
  BY <1>1, CreationStutters
<1>2. ASSUME NEW c \in Calls, KeyRefused(c)
      PROVE  \E D \in SUBSET Calls : Register!CutShort(D)
  <2>1. Sharers(c) \in SUBSET Calls
    BY DEF Sharers
  <2> QED
    BY <1>2, <2>1, CutShortEnds DEF KeyRefused
<1>3. ASSUME NEW c \in Calls, Refused(c)
      PROVE  \E D \in SUBSET Calls : Register!CutShort(D)
  <2>1. call' = [d \in Calls |-> IF d \in {c} THEN Idle ELSE call[d]]
    BY <1>3 DEF Refused, IInv, TypeOK
  <2> QED
    BY <1>3, <2>1, CutShortEnds DEF Refused
<1>4. CASE Kill
  <2>1. call' = [d \in Calls |-> IF d \in Calls THEN Idle ELSE call[d]]
    BY <1>4 DEF Kill
  <2>2. \E D \in SUBSET Calls : Register!CutShort(D)
    BY <1>4, <2>1, CutShortEnds DEF Kill
  <2> QED
    BY <2>2 DEF Register!Next
<1>5. CASE UNCHANGED vars
  <2>1. \A d \in Calls : CallOf(call[d])' = CallOf(call[d])
    BY <1>5, SameCallOf DEF vars
  <2>2. StoredOf' = StoredOf /\ answer' = answer
    BY <1>5 DEF vars, StoredOf
  <2> QED
    BY <2>1, <2>2 DEF Register!vars
<1>6. ASSUME NEW c \in Calls, LastStep(c)
      PROVE  Register!Next
  <2>1. CASE CipherStored(c)
    BY <2>1, CipherStoredWrites DEF Register!Next
  <2>2. CASE KeyDeleted(c)
    BY <2>2, KeyDeletedEnds DEF Register!Next
  <2>3. CASE Answer(c)
    BY <2>3, AnswerEndsRead DEF Register!Next
  <2>4. CASE Refused(c)
    BY <1>3, <2>4 DEF Register!Next
  <2> QED
    BY <1>6, <2>1, <2>2, <2>3, <2>4 DEF LastStep
<1>7. ASSUME NEW c \in Calls, NEW v \in Values, SetItem(c, v)
      PROVE  Register!Next
  BY <1>7, SetItemBegins DEF Register!Next
<1>8. ASSUME NEW c \in Calls, RemoveItem(c) \/ GetItem(c) \/ NothingStored(c)
      PROVE  Register!Next
  BY <1>8, RemoveItemRemoves, GetItemReads, NothingStoredReads DEF Register!Next
<1>9. ASSUME NEW c \in Calls, Creation(c)
      PROVE  Register!Next \/ UNCHANGED Register!vars
  <2>1. CASE KeyRefused(c)
    BY <1>2, <2>1 DEF Register!Next
  <2> QED
    BY <1>1, <1>9, <2>1 DEF Creation
<1> QED
  BY <1>4, <1>5, <1>6, <1>7, <1>8, <1>9 DEF Next

-----------------------------------------------------------------------------
\* Every variable of the session storage keeps its type.
THEOREM TypeCorrect == Spec => []TypeOK
<1>1. IInv => TypeOK
  BY DEF IInv
<1> QED
  BY <1>1, Invariance, PTL

\* For any number of calls: writes that no removal runs beside encrypt under
\* the stored key, and whoever waits for a creation waits for one that runs.
THEOREM CreationAlwaysShared == Spec => []CreationIsShared
<1>1. IInv => CreationIsShared
  <2>1. ASSUME IInv
        PROVE  AwaitedCreationsRun
    <3>1. \A c \in Calls : call[c].at = "waiting" => call[c].on = pending /\ pending # None
      BY <2>1, NullAssumption DEF IInv, WaitersFollow, Holdings
    <3> QED
      BY <2>1, <3>1 DEF IInv, OneCreation, AwaitedCreationsRun
  <2> QED
    BY <2>1 DEF IInv, CreationIsShared
<1> QED
  BY <1>1, Invariance, PTL

\* LargeSecureStore's two stores implement one register of the session, for
\* any calls, sessions and keys.
THEOREM StoreImplementsRegister == Spec => ImplementsRegister
<1>1. Init => Register!Init
  BY RegisterInit
<1>2. IInv /\ IInv' /\ [Next]_vars => [Register!Next]_(Register!vars)
  BY StepRefines
<1>3. Spec => Register!Spec
  BY <1>1, <1>2, Invariance, PTL DEF Spec, Register!Spec
<1> QED
  BY <1>3 DEF ImplementsRegister
=============================================================================
