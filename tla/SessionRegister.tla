-------------------------- MODULE SessionRegister ---------------------------
(***************************************************************************)
(* What LargeSecureStore promises the auth client: one register for the    *)
(* session, written, read and removed by calls that may overlap, cut short *)
(* by a failing store or by the end of the process.  What is stored        *)
(* changes when a write or a removal takes effect and at no other step.    *)
(*                                                                         *)
(* Nothing is promised of a removal that runs beside other calls: a write  *)
(* it overlaps may leave what nobody can read, a read it overlaps may      *)
(* answer anything.  A write that overlaps such a write shares its key and *)
(* its fate.                                                               *)
(***************************************************************************)
CONSTANTS
    Calls,          \* calls of the auth client that may be in flight
    Values,         \* sessions
    None,           \* null
    Unreadable      \* a ciphertext without its key, and what comes of it

VARIABLES
    stored,         \* what is stored: a session, None, or Unreadable
    call,           \* per call, what it is about
    answer          \* what the latest read answered

vars == <<stored, call, answer>>

Idle == [kind |-> "idle", value |-> None, alone |-> TRUE]

Removing(c) == call[c].kind = "remove"

\* No removal is in flight, nor a write that one has run beside.
Undisturbed ==
    \A c \in Calls : ~Removing(c) /\ (call[c].kind = "write" => call[c].alone)

Calmly == \A c \in Calls : ~Removing(c)

\* A removal has begun: whatever is in flight is no longer alone.  What a
\* read has seen no longer matters.
Disturbed(cs) ==
    [c \in Calls |->
        CASE cs[c].kind = "write" -> [kind |-> "write", value |-> cs[c].value, alone |-> FALSE]
          [] cs[c].kind = "read" -> [kind |-> "read", value |-> None, alone |-> FALSE]
          [] OTHER -> cs[c]]

Init ==
    /\ stored \in Values \cup {None}
    /\ call = [c \in Calls |-> Idle]
    /\ answer = None

BeginWrite(c, v) ==
    /\ call[c] = Idle
    /\ call' = [call EXCEPT ![c] = [kind |-> "write", value |-> v, alone |-> Undisturbed]]
    /\ UNCHANGED <<stored, answer>>

Write(c) ==
    /\ call[c].kind = "write"
    /\ stored' \in {call[c].value} \cup (IF call[c].alone THEN {} ELSE {Unreadable})
    /\ call' = [call EXCEPT ![c] = Idle]
    /\ UNCHANGED answer

Remove(c) ==
    /\ call[c] = Idle
    /\ stored' = None
    /\ call' = [Disturbed(call) EXCEPT ![c] = [kind |-> "remove", value |-> None, alone |-> TRUE]]
    /\ UNCHANGED answer

\* A write that took effect meanwhile may lose its key.
EndRemove(c) ==
    /\ Removing(c)
    /\ stored' \in {stored} \cup (IF stored = None THEN {} ELSE {Unreadable})
    /\ call' = [call EXCEPT ![c] = Idle]
    /\ UNCHANGED answer

ReadNothing(c) ==
    /\ call[c] = Idle
    /\ stored = None
    /\ answer' = None
    /\ UNCHANGED <<stored, call>>

Read(c) ==
    /\ call[c] = Idle
    /\ stored # None
    /\ call' = [call EXCEPT ![c] =
          [kind |-> "read", value |-> IF Calmly THEN stored ELSE None, alone |-> Calmly]]
    /\ UNCHANGED <<stored, answer>>

Answers(c) ==
    IF ~call[c].alone THEN Values \cup {None, Unreadable}
    ELSE IF call[c].value = Unreadable THEN {None, Unreadable}
    ELSE {call[c].value}

EndRead(c) ==
    /\ call[c].kind = "read"
    /\ answer' \in Answers(c)
    /\ call' = [call EXCEPT ![c] = Idle]
    /\ UNCHANGED stored

\* Calls end without having taken effect: a store refused them, or the
\* process is gone.
CutShort(C) ==
    /\ call' = [c \in Calls |-> IF c \in C THEN Idle ELSE call[c]]
    /\ UNCHANGED <<stored, answer>>

Next ==
    \/ \E c \in Calls :
          \/ \E v \in Values : BeginWrite(c, v)
          \/ Write(c) \/ Remove(c) \/ EndRemove(c)
          \/ ReadNothing(c) \/ Read(c) \/ EndRead(c)
    \/ \E C \in SUBSET Calls : CutShort(C)

Spec == Init /\ [][Next]_vars
=============================================================================
