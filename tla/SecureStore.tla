---------------------------- MODULE SecureStore -----------------------------
(***************************************************************************)
(* LargeSecureStore, where the auth client keeps the session: ciphertext   *)
(* in AsyncStorage (valueStore), its AES key in SecureStore (keyStore).    *)
(* Both survive the process; pendingKeys, the creations of a key that are  *)
(* in flight, does not.                                                    *)
(*                                                                         *)
(* One storage key is modelled: nothing is shared between two.  A call of  *)
(* one of the stores takes effect at one step and is answered later; where *)
(* nothing can tell, the two are one step.  A ciphertext is the value and  *)
(* the key it was encrypted with, and decrypts to the value or to          *)
(* something unreadable; initial counters are left out.                    *)
(***************************************************************************)
CONSTANTS
    Calls,          \* calls of the auth client that may be in flight
    Values,         \* sessions
    Keys,           \* AES keys
    None,           \* null
    Unreadable      \* what a ciphertext decrypts to under another key

Ciphertexts == [value : Values, key : Keys]

ASSUME NullAssumption ==
    /\ None \notin Values \cup Keys \cup Calls \cup Ciphertexts
    /\ Unreadable \notin Values \cup {None}

VARIABLES
    secret,         \* keyStore: the key, or None
    cipher,         \* valueStore: the ciphertext, or None
    pending,        \* pendingKeys: the call whose creation is in flight, or None
    call,           \* the calls in flight
    answer          \* what the latest getItem answered

vars == <<secret, cipher, pending, call, answer>>

\* loading, storing, keyed: the steps of loadOrCreateKey; waiting: on the
\* creation of another call; writing: the ciphertext is on its way; deleting:
\* the key is, after the ciphertext; reading: the key, for a ciphertext held.
Creating == {"loading", "storing", "keyed"}
Places == {"idle", "waiting", "writing", "deleting", "reading"} \cup Creating

\* alone: no removal has run beside this call, nor beside a write it overlaps
\* (a history variable; the code keeps none).
CallRecords ==
    [at : Places, value : Values \cup {None}, on : Calls \cup {None}, key : Keys \cup {None},
     held : Ciphertexts \cup {None}, alone : BOOLEAN]

Idle == [at |-> "idle", value |-> None, on |-> None, key |-> None, held |-> None, alone |-> TRUE]

IsWrite(r) == r.at \in Creating \cup {"waiting", "writing"}
Removing(c) == call[c].at = "deleting"

Calmly == \A c \in Calls : ~Removing(c)
Undisturbed == \A c \in Calls : ~Removing(c) /\ (IsWrite(call[c]) => call[c].alone)

\* What getRandomValues does not return again.
UsedKeys ==
    {secret} \cup {call[c].key : c \in Calls}
             \cup {t.key : t \in ({cipher} \cup {call[c].held : c \in Calls}) \ {None}}

\* A fresh install, or one whose session was written before the app started
\* (by this adapter or, under Counter(1), by the one before it).
Init ==
    /\ \/ secret = None /\ cipher = None
       \/ \E k \in Keys, v \in Values : secret = k /\ cipher = [value |-> v, key |-> k]
    /\ pending = None
    /\ call = [c \in Calls |-> Idle]
    /\ answer = None

-----------------------------------------------------------------------------
(* setItem.                                                                *)

\* Mutant: no write looks for a creation in flight.
PendingNever == None

PendingKey == pending

\* encrypt -> loadOrCreateKey: share the creation in flight, or start one.
SetItem(c, v) ==
    /\ call[c] = Idle
    /\ LET new == [Idle EXCEPT !.value = v, !.alone = Undisturbed]
       IN  IF PendingKey # None
           THEN /\ call' = [call EXCEPT ![c] = [new EXCEPT !.at = "waiting", !.on = PendingKey]]
                /\ UNCHANGED pending
           ELSE /\ call' = [call EXCEPT ![c] = [new EXCEPT !.at = "loading"]]
                /\ pending' = c
    /\ UNCHANGED <<secret, cipher, answer>>

\* Mutant: the key is rotated by every write.
RotatesKey == None

\* loadKey.
LoadedKey == secret

\* The key store answers: the key is there, or one is made and sent to it.
KeyLoads(c) ==
    /\ call[c].at = "loading"
    /\ \/ /\ LoadedKey # None
          /\ call' = [call EXCEPT ![c].at = "keyed", ![c].key = LoadedKey]
       \/ /\ LoadedKey = None
          /\ \E k \in Keys \ UsedKeys :
                call' = [call EXCEPT ![c].at = "storing", ![c].key = k]
    /\ UNCHANGED <<secret, cipher, pending, answer>>

KeyStored(c) ==
    /\ call[c].at = "storing"
    /\ secret' = call[c].key
    /\ call' = [call EXCEPT ![c].at = "keyed"]
    /\ UNCHANGED <<cipher, pending, answer>>

\* Those who await the creation of c: c, and those that share it.
Sharers(c) == {c} \cup {i \in Calls : call[i].at = "waiting" /\ call[i].on = c}

\* Mutant: a creation that fails stays in flight.
KeptPending(c) == IF call[c].at = "keyed" THEN None ELSE pending

\* finally.
NoLongerPending(c) == None

\* The creation settles: everybody encrypts under its key.
KeySettles(c) ==
    /\ call[c].at = "keyed"
    /\ pending' = NoLongerPending(c)
    /\ call' = [i \in Calls |->
          IF i \in Sharers(c)
          THEN [call[i] EXCEPT !.at = "writing", !.on = None, !.key = call[c].key]
          ELSE call[i]]
    /\ UNCHANGED <<secret, cipher, answer>>

\* The key store refuses to load or to store: every write that shares the
\* creation fails.
KeyRefused(c) ==
    /\ call[c].at \in {"loading", "storing"}
    /\ pending' = NoLongerPending(c)
    /\ call' = [i \in Calls |-> IF i \in Sharers(c) THEN Idle ELSE call[i]]
    /\ UNCHANGED <<secret, cipher, answer>>

CipherStored(c) ==
    /\ call[c].at = "writing"
    /\ cipher' = [value |-> call[c].value, key |-> call[c].key]
    /\ call' = [call EXCEPT ![c] = Idle]
    /\ UNCHANGED <<secret, pending, answer>>

-----------------------------------------------------------------------------
(* removeItem.                                                             *)

Disturbed(cs) ==
    [c \in Calls |-> IF cs[c].at \in {"idle", "deleting"} THEN cs[c]
                     ELSE [cs[c] EXCEPT !.alone = FALSE]]

\* The ciphertext first.
RemoveItem(c) ==
    /\ call[c] = Idle
    /\ cipher' = None
    /\ call' = [Disturbed(call) EXCEPT ![c].at = "deleting"]
    /\ UNCHANGED <<secret, pending, answer>>

\* Then the key.
KeyDeleted(c) ==
    /\ call[c].at = "deleting"
    /\ secret' = None
    /\ call' = [call EXCEPT ![c] = Idle]
    /\ UNCHANGED <<cipher, pending, answer>>

-----------------------------------------------------------------------------
(* getItem.                                                                *)

NothingStored(c) ==
    /\ call[c] = Idle
    /\ cipher = None
    /\ answer' = None
    /\ UNCHANGED <<secret, cipher, pending, call>>

GetItem(c) ==
    /\ call[c] = Idle
    /\ cipher # None
    /\ call' = [call EXCEPT ![c] = [Idle EXCEPT !.at = "reading", !.held = cipher,
                                                !.alone = Calmly]]
    /\ UNCHANGED <<secret, cipher, pending, answer>>

\* decrypt: the key is loaded after the ciphertext was.
Decrypted(t) ==
    CASE secret = None -> None
      [] secret = t.key -> t.value
      [] OTHER -> Unreadable

Answer(c) ==
    /\ call[c].at = "reading"
    /\ answer' = Decrypted(call[c].held)
    /\ call' = [call EXCEPT ![c] = Idle]
    /\ UNCHANGED <<secret, cipher, pending>>

-----------------------------------------------------------------------------
\* A store refuses the last step of a call; what went before stays.
Refused(c) ==
    /\ call[c].at \in {"writing", "deleting", "reading"}
    /\ call' = [call EXCEPT ![c] = Idle]
    /\ UNCHANGED <<secret, cipher, pending, answer>>

\* The app is killed and started again.
Kill ==
    /\ \E c \in Calls : call[c] # Idle
    /\ pending' = None
    /\ call' = [c \in Calls |-> Idle]
    /\ UNCHANGED <<secret, cipher, answer>>

Creation(c) == KeyLoads(c) \/ KeyStored(c) \/ KeySettles(c) \/ KeyRefused(c)

LastStep(c) == CipherStored(c) \/ KeyDeleted(c) \/ Answer(c) \/ Refused(c)

Next ==
    \/ \E c \in Calls :
          \/ \E v \in Values : SetItem(c, v)
          \/ RemoveItem(c) \/ GetItem(c) \/ NothingStored(c)
          \/ Creation(c) \/ LastStep(c)
    \/ Kill

Spec == Init /\ [][Next]_vars

-----------------------------------------------------------------------------
(* Properties.                                                             *)

\* Every variable has its type, and a creation in flight is somebody's.
TypeOK ==
    /\ secret \in Keys \cup {None}
    /\ cipher \in Ciphertexts \cup {None}
    /\ pending \in Calls \cup {None}
    /\ call \in [Calls -> CallRecords]
    /\ answer \in Values \cup {None, Unreadable}

WritesShareTheKey ==
    \A c \in Calls : call[c].at \in {"keyed", "writing"} /\ call[c].alone => call[c].key = secret

AwaitedCreationsRun ==
    /\ pending # None => call[pending].at \in Creating
    /\ \A c \in Calls : call[c].at = "waiting" =>
          call[c].on = pending /\ call[call[c].on].at \in Creating

\* Two writes at once, on a fresh install too, encrypt under one key, the one
\* that is stored, and none leaves the other's ciphertext without its key; and
\* nobody waits for nothing: the creation that a write shares, or would share,
\* is in flight, also after one that failed.
CreationIsShared == WritesShareTheKey /\ AwaitedCreationsRun

\* The register's call for a call: a write with its value, a removal, a read
\* with what it saw.
CallOf(r) ==
    CASE IsWrite(r) -> [kind |-> "write", value |-> r.value, alone |-> r.alone]
      [] r.at = "deleting" -> [kind |-> "remove", value |-> None, alone |-> TRUE]
      [] r.at = "reading" ->
            [kind |-> "read", alone |-> r.alone,
             value |-> CASE ~r.alone -> None
                         [] r.alone /\ r.held.key = secret -> r.held.value
                         [] OTHER -> Unreadable]
      [] OTHER -> [kind |-> "idle", value |-> None, alone |-> TRUE]

\* What is stored: the session, while its key is there.
StoredOf ==
    CASE cipher = None -> None
      [] cipher # None /\ cipher.key = secret -> cipher.value
      [] OTHER -> Unreadable

Register == INSTANCE SessionRegister
    WITH stored <- StoredOf, call <- [c \in Calls |-> CallOf(call[c])]

\* The two stores are one register: keys that are made, a process killed
\* between the two stores, a store that refuses and writes at once never
\* change what is stored or take it out of reach, and a read that no removal
\* runs beside answers what was stored.
ImplementsRegister == Register!Spec
=============================================================================
