--------------------------- MODULE ReceiptsProofs ---------------------------
(***************************************************************************)
(* Theorems of Receipts, for every number of tokens, users, deliveries and *)
(* pollers, every batch size and ceiling, and any number of registrations  *)
(* and faults; and, after them, of RowLocks: which of the transactions can *)
(* wait for one another, that a re-seed strands no job, and that each      *)
(* transaction is one step of RowTransactions, at its commit.              *)
(***************************************************************************)
EXTENDS Receipts, RowLocksInvariants, FiniteSetTheorems, TLAPS

USE PolicyAssumption, BoundsAssumption, NobodyAssumption

-----------------------------------------------------------------------------
(* Types.                                                                  *)

LEMMA InitTypes == Init => TypeOK
  BY DEF Init, TypeOK

LEMMA UnlinkedTypes ==
  ASSUME NEW id, NEW rows \in [Deliveries -> Rows \cup {Nobody}]
  PROVE  /\ Unlinked(id, rows) \in [Deliveries -> Rows \cup {Nobody}]
         /\ \A d \in Deliveries :
               /\ Unlinked(id, rows)[d] = Nobody <=> rows[d] = Nobody
               /\ rows[d] # Nobody =>
                    /\ Unlinked(id, rows)[d].status = rows[d].status
                    /\ Unlinked(id, rows)[d].attempts = rows[d].attempts
                    /\ Unlinked(id, rows)[d].user = rows[d].user
                    /\ Unlinked(id, rows)[d].createdAt = rows[d].createdAt
                    /\ Unlinked(id, rows)[d].link = IF rows[d].link = id THEN Nobody ELSE rows[d].link
<1> SUFFICES ASSUME NEW d \in Deliveries
             PROVE  /\ Unlinked(id, rows)[d] \in Rows \cup {Nobody}
                    /\ Unlinked(id, rows)[d] = Nobody <=> rows[d] = Nobody
                    /\ rows[d] # Nobody =>
                         /\ Unlinked(id, rows)[d].status = rows[d].status
                         /\ Unlinked(id, rows)[d].attempts = rows[d].attempts
                         /\ Unlinked(id, rows)[d].user = rows[d].user
                         /\ Unlinked(id, rows)[d].createdAt = rows[d].createdAt
                         /\ Unlinked(id, rows)[d].link =
                              IF rows[d].link = id THEN Nobody ELSE rows[d].link
  BY DEF Unlinked
<1>1. CASE rows[d] # Nobody /\ rows[d].link = id
  <2>1. Unlinked(id, rows)[d] = [rows[d] EXCEPT !.link = Nobody] /\ rows[d] \in Rows
    BY <1>1 DEF Unlinked
  <2>2. [rows[d] EXCEPT !.link = Nobody] \in Rows
    BY <2>1 DEF Rows
  <2> QED
    BY <1>1, <2>1, <2>2 DEF Rows
<1>2. CASE ~(rows[d] # Nobody /\ rows[d].link = id)
  BY <1>2 DEF Unlinked
<1> QED
  BY <1>1, <1>2

LEMMA RegisterTypes ==
  ASSUME TypeOK, NEW u \in Users, NEW t \in Tokens, Register(u, t)
  PROVE  /\ clock' = clock + 1 /\ clock' \in 0..MaxClock
         /\ registration' \in [Tokens -> Registrations \cup {Nobody}]
         /\ registration'[t] # Nobody
         /\ registration'[t].token = t
         /\ \/ registration'[t].id = clock + 1
            \/ registration[t] # Nobody /\ registration'[t].id = registration[t].id
         /\ \A s \in Tokens : s # t => registration'[s] = registration[s]
<1>1. clock \in 0..MaxClock /\ clock + 1 \in 1..MaxClock /\ clock' = clock + 1
  BY DEF TypeOK, Register
<1>2. CASE registration[t] = Nobody
  <2> DEFINE new == [token |-> t, id |-> clock + 1, user |-> u, createdAt |-> clock + 1]
  <2>1. new \in Registrations /\ new.token = t /\ new.id = clock + 1
    BY <1>1 DEF Registrations
  <2>2. registration' = [registration EXCEPT ![t] = new]
    BY <1>2 DEF Register
  <2> HIDE DEF new
  <2> QED
    BY <1>1, <2>1, <2>2 DEF TypeOK
<1>3. CASE registration[t] # Nobody
  <2> DEFINE new == Renewed(u, t)
  <2>1. registration[t] \in Registrations
    BY <1>3 DEF TypeOK
  <2>2. new \in Registrations /\ new.token = t /\ new.id = registration[t].id
    BY <1>1, <2>1 DEF Registrations, Renewed
  <2>3. registration' = [registration EXCEPT ![t] = new]
    BY <1>3 DEF Register
  <2> HIDE DEF new
  <2> QED
    BY <1>1, <1>3, <2>2, <2>3 DEF TypeOK
<1> QED
  BY <1>2, <1>3

LEMMA ClaimBatchTypes ==
  ASSUME TypeOK, NEW p \in Pollers, NEW S \in SUBSET Deliveries, ClaimBatch(p, S)
  PROVE  /\ receipt' \in [Deliveries -> Rows \cup {Nobody}]
         /\ \A d \in Deliveries \ S : receipt'[d] = receipt[d]
         /\ \A d \in S :
              /\ receipt[d] # Nobody /\ receipt'[d] # Nobody
              /\ receipt'[d].attempts = receipt[d].attempts + 1
              /\ receipt'[d].status = receipt[d].status
              /\ receipt'[d].link = receipt[d].link
              /\ receipt'[d].user = receipt[d].user
              /\ receipt'[d].createdAt = receipt[d].createdAt
         /\ claim' \in [Pollers -> [Deliveries -> Claims \cup {Nobody}]]
         /\ \A q \in Pollers : q # p => claim'[q] = claim[q]
         /\ \A d \in Deliveries : claim'[p][d] # Nobody =>
              d \in S /\ claim'[p][d].attempts = receipt[d].attempts + 1 /\ ~claim'[p][d].prune
         /\ due' \subseteq Deliveries
<1>1. \A d \in S : receipt[d] \in Rows /\ receipt[d] # Nobody /\ CountedClaim(d) = receipt[d].attempts + 1
  BY DEF TypeOK, ClaimBatch, Claimable, Pending, CountedClaim
<1>2. \A d \in S : /\ receipt'[d] \in Rows
                   /\ receipt'[d].attempts = receipt[d].attempts + 1
                   /\ receipt'[d].status = receipt[d].status
                   /\ receipt'[d].link = receipt[d].link
                   /\ receipt'[d].user = receipt[d].user
                   /\ receipt'[d].createdAt = receipt[d].createdAt
  <2> TAKE d \in S
  <2>1. receipt'[d] = [receipt[d] EXCEPT !.attempts = receipt[d].attempts + 1]
    BY <1>1 DEF ClaimBatch
  <2>2. receipt[d].attempts + 1 \in Nat
    BY <1>1 DEF Rows
  <2> QED
    BY <1>1, <2>1, <2>2 DEF Rows
<1>3. \A d \in Deliveries \ S : receipt'[d] = receipt[d]
  BY DEF ClaimBatch
<1>4. receipt' \in [Deliveries -> Rows \cup {Nobody}]
  BY <1>2, <1>3 DEF ClaimBatch, TypeOK
<1>5. \A d \in S : [attempts |-> CountedClaim(d), update |-> Nobody, prune |-> FALSE] \in Claims
  BY <1>1 DEF Claims, Rows
<1>6. /\ claim' \in [Pollers -> [Deliveries -> Claims \cup {Nobody}]]
      /\ \A q \in Pollers : q # p => claim'[q] = claim[q]
      /\ \A d \in Deliveries : claim'[p][d] =
            IF d \in S THEN [attempts |-> CountedClaim(d), update |-> Nobody, prune |-> FALSE]
            ELSE Nobody
  <2> DEFINE row == [d \in Deliveries |->
              IF d \in S THEN [attempts |-> CountedClaim(d), update |-> Nobody, prune |-> FALSE]
              ELSE Nobody]
  <2>1. row \in [Deliveries -> Claims \cup {Nobody}]
    BY <1>5
  <2>2. claim' = [claim EXCEPT ![p] = row]
    BY DEF ClaimBatch
  <2>3. \A d \in Deliveries : row[d] =
            IF d \in S THEN [attempts |-> CountedClaim(d), update |-> Nobody, prune |-> FALSE]
            ELSE Nobody
    OBVIOUS
  <2> HIDE DEF row
  <2> QED
    BY <2>1, <2>2, <2>3 DEF TypeOK
<1>7. due' \subseteq Deliveries
  BY DEF TypeOK, ClaimBatch
<1>8. ASSUME NEW d \in Deliveries, claim'[p][d] # Nobody
      PROVE  d \in S /\ claim'[p][d].attempts = receipt[d].attempts + 1 /\ ~claim'[p][d].prune
  <2>1. d \in S
    BY <1>6, <1>8
  <2>2. claim'[p][d] = [attempts |-> CountedClaim(d), update |-> Nobody, prune |-> FALSE]
    BY <1>6, <2>1
  <2> QED
    BY <1>1, <2>1, <2>2
<1>9. \A d \in S : receipt[d] # Nobody /\ receipt'[d] # Nobody
  BY <1>1, <1>2
<1> QED
  BY <1>2, <1>3, <1>4, <1>6, <1>7, <1>8, <1>9

LEMMA DecidedTypes ==
  ASSUME TypeOK, NEW p \in Pollers, NEW d \in Deliveries, claim[p][d] # Nobody,
         NEW s \in Statuses, NEW prune \in BOOLEAN, Decided(p, d, s, prune)
  PROVE  /\ claim' \in [Pollers -> [Deliveries -> Claims \cup {Nobody}]]
         /\ claim'[p][d] # Nobody
         /\ claim'[p][d].attempts = claim[p][d].attempts
         /\ claim'[p][d].update = s
         /\ claim'[p][d].prune = prune
         /\ \A q \in Pollers, e \in Deliveries : q # p \/ e # d => claim'[q][e] = claim[q][e]
<1>1. claim[p][d] \in Claims
  BY DEF TypeOK
<1>0. claim[p] \in [Deliveries -> Claims \cup {Nobody}]
  BY DEF TypeOK
<1>2. /\ claim'[p][d].attempts = claim[p][d].attempts
      /\ claim'[p][d].update = s
      /\ claim'[p][d].prune = prune
  BY <1>0, <1>1 DEF TypeOK, Decided, Claims
<1>3. claim'[p][d] \in Claims
  BY <1>1 DEF TypeOK, Decided, Claims
<1>4. \A q \in Pollers, e \in Deliveries : q # p \/ e # d => claim'[q][e] = claim[q][e]
  BY DEF TypeOK, Decided
<1>5. claim'[p] \in [Deliveries -> Claims \cup {Nobody}]
  <2>1. claim'[p] = [e \in Deliveries |-> claim'[p][e]]
    BY <1>0 DEF Decided, TypeOK
  <2>2. \A e \in Deliveries : claim'[p][e] \in Claims \cup {Nobody}
    BY <1>0, <1>3, <1>4
  <2> QED
    BY <2>1, <2>2
<1>6. claim' = [q \in Pollers |-> claim'[q]] /\ \A q \in Pollers : q # p => claim'[q] = claim[q]
  BY DEF Decided, TypeOK
<1>7. claim' \in [Pollers -> [Deliveries -> Claims \cup {Nobody}]]
  BY <1>5, <1>6 DEF TypeOK
<1> QED
  BY <1>2, <1>3, <1>4, <1>7

LEMMA DecideTypes ==
  ASSUME TypeOK, NEW p \in Pollers, NEW d \in Deliveries, Decide(p, d)
  PROVE  /\ claim[p][d] # Nobody
         /\ claim' \in [Pollers -> [Deliveries -> Claims \cup {Nobody}]]
         /\ claim'[p][d] # Nobody
         /\ claim'[p][d].attempts = claim[p][d].attempts
         /\ claim'[p][d].prune => claim'[p][d].update = "error"
         /\ \A q \in Pollers, e \in Deliveries : q # p \/ e # d => claim'[q][e] = claim[q][e]
         /\ UNCHANGED <<clock, registration, sent, receipt, due, aged, faults>>
<1>1. WithoutAnswer(p, d) \in Statuses
  BY DEF WithoutAnswer, Statuses
<1>2. ASSUME Expire(p, d)
      PROVE  \E s \in Statuses, prune \in BOOLEAN :
                Decided(p, d, s, prune) /\ (prune => s = "error")
  BY <1>1, <1>2 DEF Expire
<1>3. ASSUME NEW answer \in Answers, Answered(p, d, answer)
      PROVE  \E s \in Statuses, prune \in BOOLEAN :
                Decided(p, d, s, prune) /\ (prune => s = "error")
  <2>1. CASE answer = "ok"
    BY <1>3, <2>1 DEF Answered, Statuses
  <2>2. CASE answer = "error"
    BY <1>3, <2>2 DEF Answered, Statuses
  <2>3. CASE answer = "DeviceNotRegistered"
    BY <1>3, <2>3 DEF Answered, Statuses
  <2>4. CASE answer = "unusable"
    BY <1>1, <1>3, <2>4 DEF Answered
  <2> QED
    BY <1>3, <2>1, <2>2, <2>3, <2>4 DEF Answers
<1>4. /\ claim[p][d] # Nobody
      /\ UNCHANGED <<clock, registration, sent, receipt, due, aged, faults>>
  BY DEF Decide, Expire, Answered
<1> QED
  BY <1>2, <1>3, <1>4, DecidedTypes DEF Decide

\* What finish does to the rows, with the prune or without it.
LEMMA FinishTypes ==
  ASSUME TypeOK, NEW p \in Pollers, NEW d \in Deliveries, Finish(p, d)
  PROVE  /\ registration' \in [Tokens -> Registrations \cup {Nobody}]
         /\ receipt' \in [Deliveries -> Rows \cup {Nobody}]
         /\ claim' \in [Pollers -> [Deliveries -> Claims \cup {Nobody}]]
         /\ claim'[p][d] = Nobody
         /\ \A q \in Pollers, e \in Deliveries : q # p \/ e # d => claim'[q][e] = claim[q][e]
         /\ due' \subseteq Deliveries
         /\ \A e \in Deliveries :
              /\ receipt'[e] = Nobody <=> receipt[e] = Nobody
              /\ receipt[e] # Nobody =>
                   /\ receipt'[e].attempts = receipt[e].attempts
                   /\ receipt'[e].user = receipt[e].user
                   /\ receipt'[e].createdAt = receipt[e].createdAt
                   /\ \/ receipt'[e].status = receipt[e].status
                      \/ e = d /\ Fenced(p, d) /\ receipt'[e].status = claim[p][d].update
                   /\ receipt'[e].link = receipt[e].link \/ receipt'[e].link = Nobody
         /\ \A e \in Deliveries, t \in Tokens :
               /\ receipt[e] # Nobody /\ registration[t] # Nobody /\ registration'[t] = Nobody
               /\ receipt[e].link = registration[t].id
               => receipt'[e].link = Nobody
         /\ \A t \in Tokens :
               \/ registration'[t] = registration[t]
               \/ /\ registration'[t] = Nobody
                  /\ claim[p][d].prune /\ IsSentTo(registration[t], receipt[d]) /\ Fenced(p, d)
                  /\ receipt'[d].status = claim[p][d].update
<1> DEFINE written == [receipt EXCEPT ![d].status = claim[p][d].update]
           doomed == {t \in Tokens : claim[p][d].prune /\ IsSentTo(registration[t], receipt[d])}
<1>1. /\ claim' = [claim EXCEPT ![p][d] = Nobody]
      /\ claim[p][d] \in Claims /\ claim[p][d].update \in Statuses
  BY DEF Finish, TypeOK, Claims
<1>2. /\ claim' \in [Pollers -> [Deliveries -> Claims \cup {Nobody}]]
      /\ claim'[p][d] = Nobody
      /\ \A q \in Pollers, e \in Deliveries : q # p \/ e # d => claim'[q][e] = claim[q][e]
  BY <1>1 DEF TypeOK
<1>3. due' \subseteq Deliveries
  BY DEF Finish, TypeOK
<1>4. CASE ~Fenced(p, d)
  <2>1. UNCHANGED <<registration, receipt>>
    BY <1>4 DEF Finish
  <2> QED
    BY <1>2, <1>3, <2>1 DEF TypeOK
<1>5. CASE Fenced(p, d)
  <2>1. receipt[d] \in Rows /\ receipt[d] # Nobody
    BY <1>5 DEF Fenced, Pending, TypeOK
  <2>2. /\ registration' = [t \in Tokens |-> IF t \in doomed THEN Nobody ELSE registration[t]]
        /\ receipt' = IF doomed = {} THEN written ELSE Unlinked(receipt[d].link, written)
    BY <1>5 DEF Finish
  <2>3. registration' \in [Tokens -> Registrations \cup {Nobody}]
    BY <2>2 DEF TypeOK
  <2>4. /\ written[d].status = claim[p][d].update
        /\ written[d].attempts = receipt[d].attempts
        /\ written[d].user = receipt[d].user
        /\ written[d].createdAt = receipt[d].createdAt
        /\ written[d].link = receipt[d].link
    BY <1>1, <2>1 DEF TypeOK, Rows
  <2>5. written[d] \in Rows
    BY <1>1, <2>1 DEF TypeOK, Rows
  <2>6. \A e \in Deliveries : e # d => written[e] = receipt[e]
    BY DEF TypeOK
  <2>7. written \in [Deliveries -> Rows \cup {Nobody}]
    BY <2>5 DEF TypeOK
  <2>8. \A t \in doomed : registration[t].id = receipt[d].link
    BY DEF IsSentTo
  <2>9. \A t \in Tokens : registration'[t] = registration[t] \/ (t \in doomed /\ registration'[t] = Nobody)
    BY <2>2
  <2> HIDE DEF written, doomed
  <2>10. receipt' \in [Deliveries -> Rows \cup {Nobody}]
    BY <2>2, <2>7, UnlinkedTypes
  <2>11. ASSUME NEW e \in Deliveries
         PROVE  /\ receipt'[e] = Nobody <=> receipt[e] = Nobody
                /\ receipt[e] # Nobody =>
                     /\ receipt'[e].attempts = receipt[e].attempts
                     /\ receipt'[e].user = receipt[e].user
                     /\ receipt'[e].createdAt = receipt[e].createdAt
                     /\ receipt'[e].status = written[e].status
                     /\ receipt'[e].link = receipt[e].link \/ receipt'[e].link = Nobody
                     /\ doomed # {} /\ receipt[e].link = receipt[d].link => receipt'[e].link = Nobody
    <3>1. /\ written[e] = Nobody <=> receipt[e] = Nobody
          /\ receipt[e] # Nobody =>
               /\ written[e].attempts = receipt[e].attempts
               /\ written[e].user = receipt[e].user
               /\ written[e].createdAt = receipt[e].createdAt
               /\ written[e].link = receipt[e].link
      BY <2>1, <2>4, <2>5, <2>6
    <3> QED
      BY <2>2, <2>7, <3>1, UnlinkedTypes
  <2>12. \A e \in Deliveries : receipt[e] # Nobody =>
            \/ receipt'[e].status = receipt[e].status
            \/ e = d /\ receipt'[e].status = claim[p][d].update
    BY <2>4, <2>6, <2>11
  <2>13. receipt'[d].status = claim[p][d].update
    BY <2>1, <2>4, <2>11
  <2>14. \A t \in doomed : claim[p][d].prune /\ IsSentTo(registration[t], receipt[d])
    BY DEF doomed
  <2>15. \A t \in Tokens : registration[t] # Nobody /\ registration'[t] = Nobody => t \in doomed
    BY <2>9
  <2>16. \A e \in Deliveries, t \in Tokens :
            /\ receipt[e] # Nobody /\ registration[t] # Nobody /\ registration'[t] = Nobody
            /\ receipt[e].link = registration[t].id
            => receipt'[e].link = Nobody
    BY <2>8, <2>11, <2>15
  <2> QED
    BY <1>2, <1>3, <1>5, <2>3, <2>9, <2>10, <2>11, <2>12, <2>13, <2>14, <2>16
<1> QED
  BY <1>4, <1>5

LEMMA NextTypes == TypeOK /\ [Next]_vars => TypeOK'
<1> SUFFICES ASSUME TypeOK, [Next]_vars PROVE TypeOK'
  OBVIOUS
<1>0. Fault => faults' \in 0..MaxFaults
  BY DEF TypeOK, Fault
<1>1. ASSUME NEW u \in Users, NEW t \in Tokens, Register(u, t)
      PROVE  TypeOK'
  <2>1. UNCHANGED <<sent, receipt, due, aged, claim, faults>>
    BY <1>1 DEF Register
  <2> QED
    BY <1>1, <2>1, RegisterTypes DEF TypeOK
<1>2. ASSUME NEW u \in Users, NEW t \in Tokens, Remove(u, t)
      PROVE  TypeOK'
  <2>1. receipt' \in [Deliveries -> Rows \cup {Nobody}]
    BY <1>2, UnlinkedTypes DEF Remove, TypeOK
  <2> QED
    BY <1>2, <2>1 DEF Remove, TypeOK
<1>3. ASSUME NEW d \in Deliveries, NEW t \in Tokens, Send(d, t)
      PROVE  TypeOK'
  BY <1>3 DEF Send, TypeOK
<1>4. ASSUME NEW d \in Deliveries, RecordTicket(d)
      PROVE  TypeOK'
  <2>1. sent[d] \in Registrations
    BY <1>4 DEF RecordTicket, TypeOK
  <2>2. [status |-> "pending", attempts |-> 0,
         link |-> IF Present(sent[d].id) THEN sent[d].id ELSE Nobody,
         user |-> sent[d].user, createdAt |-> sent[d].createdAt] \in Rows
    BY <2>1 DEF Rows, Registrations, Statuses
  <2> QED
    BY <1>4, <2>2 DEF RecordTicket, TypeOK
<1>5. ASSUME NEW p \in Pollers, NEW S \in SUBSET Deliveries, ClaimBatch(p, S)
      PROVE  TypeOK'
  <2>1. UNCHANGED <<clock, registration, sent, aged, faults>>
    BY <1>5 DEF ClaimBatch
  <2> QED
    BY <1>5, <2>1, ClaimBatchTypes DEF TypeOK
<1>6. ASSUME NEW p \in Pollers, NEW d \in Deliveries, Decide(p, d)
      PROVE  TypeOK'
  BY <1>6, DecideTypes DEF TypeOK
<1>7. ASSUME NEW p \in Pollers, NEW d \in Deliveries, Finish(p, d)
      PROVE  TypeOK'
  <2>1. UNCHANGED <<clock, sent, aged, faults>>
    BY <1>7 DEF Finish
  <2> QED
    BY <1>7, <2>1, FinishTypes DEF TypeOK
<1>8. ASSUME NEW p \in Pollers, NEW d \in Deliveries, FinishFails(p, d)
      PROVE  TypeOK'
  BY <1>0, <1>8 DEF FinishFails, TypeOK
<1>9. ASSUME NEW p \in Pollers, Crash(p)
      PROVE  TypeOK'
  BY <1>0, <1>9 DEF Crash, TypeOK
<1>10. ASSUME NEW d \in Deliveries, CheckDue(d) \/ LeaseOutrun(d) \/ Ages(d)
       PROVE  TypeOK'
  BY <1>0, <1>10 DEF CheckDue, LeaseOutrun, Ages, TypeOK
<1>11. CASE UNCHANGED vars
  BY <1>11 DEF vars, TypeOK
<1> QED
  BY <1>1, <1>2, <1>3, <1>4, <1>5, <1>6, <1>7, <1>8, <1>9, <1>10, <1>11
     DEF Next, Registration, Worker, Poll, Time

\* Every column keeps its type.
THEOREM TypeCorrect == Spec => []TypeOK
  BY InitTypes, NextTypes, PTL DEF Spec

\* A receipt that is decided stays as it was decided.
THEOREM TerminalStaysFinal == Spec => TerminalIsFinal
<1>1. TypeOK /\ [Next]_vars =>
        [\A d \in Deliveries : Terminal(d) => receipt'[d].status = receipt[d].status]_vars
  <2> SUFFICES ASSUME TypeOK, Next, NEW d \in Deliveries, Terminal(d)
               PROVE  receipt'[d].status = receipt[d].status
    BY DEF vars
  <2>1. receipt[d] # Nobody /\ ~Pending(d)
    BY DEF Terminal, Pending
  <2>2. ASSUME NEW u \in Users, NEW t \in Tokens, Remove(u, t)
        PROVE  receipt'[d].status = receipt[d].status
    BY <2>1, <2>2, UnlinkedTypes DEF Remove, TypeOK
  <2>3. ASSUME NEW e \in Deliveries, RecordTicket(e)
        PROVE  receipt'[d].status = receipt[d].status
    BY <2>1, <2>3 DEF RecordTicket, TypeOK
  <2>4. ASSUME NEW p \in Pollers, NEW S \in SUBSET Deliveries, ClaimBatch(p, S)
        PROVE  receipt'[d].status = receipt[d].status
    BY <2>4, ClaimBatchTypes
  <2>5. ASSUME NEW p \in Pollers, NEW e \in Deliveries, Finish(p, e)
        PROVE  receipt'[d].status = receipt[d].status
    BY <2>1, <2>5, FinishTypes DEF Fenced
  <2>6. ASSUME UNCHANGED receipt
        PROVE  receipt'[d].status = receipt[d].status
    BY <2>6
  <2> QED
    BY <2>2, <2>3, <2>4, <2>5, <2>6, ZenonT(60) DEF Next, Registration, Worker, Poll, Time, Register, Send,
       Decide, Expire, Answered, FinishFails, Crash, CheckDue, LeaseOutrun, Ages
<1> QED
  BY <1>1, TypeCorrect, PTL DEF Spec, TerminalIsFinal

-----------------------------------------------------------------------------
(* The inductive invariant: ids are given once, so an id that a delivery   *)
(* was sent to is the same token for ever; a receipt repeats the version   *)
(* it was sent to; and of two claims of one receipt only one is its last.  *)

RegistrationIds ==
    /\ \A t \in Tokens : registration[t] # Nobody =>
          registration[t].token = t /\ registration[t].id <= clock
    /\ \A s, t \in Tokens : registration[s] # Nobody /\ registration[t] # Nobody
                            /\ registration[s].id = registration[t].id => s = t

SentIds ==
    \A d \in Deliveries : sent[d] # Nobody =>
        /\ sent[d].id <= clock
        /\ \A t \in Tokens : registration[t] # Nobody /\ registration[t].id = sent[d].id =>
              sent[d].token = t

ReceiptsOfSent ==
    \A d \in Deliveries : receipt[d] # Nobody =>
        /\ sent[d] # Nobody
        /\ receipt[d].user = sent[d].user
        /\ receipt[d].createdAt = sent[d].createdAt
        /\ receipt[d].link # Nobody => receipt[d].link = sent[d].id

ClaimsOfReceipts ==
    \A p \in Pollers, d \in Deliveries : claim[p][d] # Nobody =>
        /\ receipt[d] # Nobody
        /\ claim[p][d].attempts <= receipt[d].attempts
        /\ claim[p][d].prune => claim[p][d].update = "error"

ClaimsDistinct ==
    \A p, q \in Pollers, d \in Deliveries :
        claim[p][d] # Nobody /\ claim[q][d] # Nobody /\ claim[p][d].attempts = claim[q][d].attempts
        => p = q

IInv ==
    /\ TypeOK
    /\ RegistrationIds
    /\ SentIds
    /\ ReceiptsOfSent
    /\ LinksExist
    /\ ClaimsOfReceipts
    /\ ClaimsDistinct

LEMMA InitInv == Init => IInv
  BY InitTypes DEF Init, IInv, RegistrationIds, SentIds, ReceiptsOfSent, LinksExist,
     ClaimsOfReceipts, ClaimsDistinct

LEMMA FieldTypes ==
  ASSUME TypeOK
  PROVE  /\ \A t \in Tokens : registration[t] # Nobody =>
              registration[t] \in Registrations /\ registration[t].id \in 1..MaxClock
         /\ \A d \in Deliveries : sent[d] # Nobody =>
              sent[d] \in Registrations /\ sent[d].id \in 1..MaxClock
         /\ \A d \in Deliveries : receipt[d] # Nobody =>
              receipt[d].attempts \in Nat /\ receipt[d].link \in (1..MaxClock) \cup {Nobody}
         /\ \A p \in Pollers, d \in Deliveries : claim[p][d] # Nobody =>
              claim[p][d].attempts \in Nat
         /\ clock \in Nat
<1>1. \A t \in Tokens : registration[t] # Nobody =>
              registration[t] \in Registrations /\ registration[t].id \in 1..MaxClock
  BY DEF TypeOK, Registrations
<1>2. \A d \in Deliveries : sent[d] # Nobody =>
              sent[d] \in Registrations /\ sent[d].id \in 1..MaxClock
  BY DEF TypeOK, Registrations
<1>3. \A d \in Deliveries : receipt[d] # Nobody =>
              receipt[d].attempts \in Nat /\ receipt[d].link \in (1..MaxClock) \cup {Nobody}
  BY DEF TypeOK, Rows
<1>4. \A p \in Pollers, d \in Deliveries : claim[p][d] # Nobody => claim[p][d].attempts \in Nat
  BY DEF TypeOK, Claims
<1> QED
  BY <1>1, <1>2, <1>3, <1>4 DEF TypeOK

LEMMA RegisterInv ==
  ASSUME IInv, NEW u \in Users, NEW t \in Tokens, Register(u, t), TypeOK'
  PROVE  IInv'
<1>1. /\ clock' = clock + 1 /\ registration'[t] # Nobody /\ registration'[t].token = t
      /\ \/ registration'[t].id = clock + 1
         \/ registration[t] # Nobody /\ registration'[t].id = registration[t].id
      /\ \A s \in Tokens : s # t => registration'[s] = registration[s]
      /\ UNCHANGED <<sent, receipt, claim>>
  BY RegisterTypes DEF IInv, Register
<1>2. RegistrationIds'
  BY <1>1, FieldTypes DEF IInv, RegistrationIds
<1>3. SentIds'
  BY <1>1, FieldTypes DEF IInv, SentIds
<1>4. LinksExist'
  <2> SUFFICES ASSUME NEW d \in Deliveries, receipt[d] # Nobody, receipt[d].link # Nobody
               PROVE  \E s \in Tokens :
                         registration'[s] # Nobody /\ registration'[s].id = receipt[d].link
                         /\ sent[d].token = s
    BY <1>1 DEF LinksExist
  <2>1. PICK s \in Tokens : registration[s] # Nobody /\ registration[s].id = receipt[d].link
                            /\ sent[d].token = s
    BY DEF IInv, LinksExist
  <2>2. registration'[s] # Nobody /\ registration'[s].id = registration[s].id
    BY <1>1, <2>1 DEF Register, Renewed, IInv, TypeOK
  <2> QED
    BY <2>1, <2>2
<1>5. ReceiptsOfSent' /\ ClaimsOfReceipts' /\ ClaimsDistinct'
  BY <1>1 DEF IInv, ReceiptsOfSent, ClaimsOfReceipts, ClaimsDistinct
<1> QED
  BY <1>2, <1>3, <1>4, <1>5 DEF IInv

\* Registrations go, and with them the links to them.
LEMMA UnlinkInv ==
  ASSUME IInv, TypeOK', UNCHANGED <<clock, sent>>,
         \A t \in Tokens : registration'[t] = registration[t] \/ registration'[t] = Nobody,
         \A e \in Deliveries :
              /\ receipt'[e] = Nobody <=> receipt[e] = Nobody
              /\ receipt[e] # Nobody =>
                   /\ receipt'[e].user = receipt[e].user
                   /\ receipt'[e].createdAt = receipt[e].createdAt
                   /\ receipt'[e].link = receipt[e].link \/ receipt'[e].link = Nobody,
         \A e \in Deliveries, t \in Tokens :
               /\ receipt[e] # Nobody /\ registration[t] # Nobody /\ registration'[t] = Nobody
               /\ receipt[e].link = registration[t].id
               => receipt'[e].link = Nobody
  PROVE  RegistrationIds' /\ SentIds' /\ ReceiptsOfSent' /\ LinksExist'
<1>1. RegistrationIds'
  BY DEF IInv, RegistrationIds
<1>2. SentIds'
  BY DEF IInv, SentIds
<1>3. ReceiptsOfSent'
  BY DEF IInv, ReceiptsOfSent
<1>4. LinksExist'
  BY DEF IInv, LinksExist
<1> QED
  BY <1>1, <1>2, <1>3, <1>4

LEMMA RemoveInv ==
  ASSUME IInv, NEW u \in Users, NEW t \in Tokens, Remove(u, t), TypeOK'
  PROVE  IInv'
<1>1. /\ registration[t] # Nobody
      /\ registration' = [registration EXCEPT ![t] = Nobody]
      /\ receipt' = Unlinked(registration[t].id, receipt)
      /\ UNCHANGED <<clock, sent, claim>>
  BY DEF Remove
<1>2. /\ receipt \in [Deliveries -> Rows \cup {Nobody}]
      /\ registration \in [Tokens -> Registrations \cup {Nobody}]
  BY DEF IInv, TypeOK
<1>3. RegistrationIds' /\ SentIds' /\ ReceiptsOfSent' /\ LinksExist'
  BY <1>1, <1>2, UnlinkInv, UnlinkedTypes
<1>4. ClaimsOfReceipts' /\ ClaimsDistinct'
  BY <1>1, <1>2, UnlinkedTypes DEF IInv, ClaimsOfReceipts, ClaimsDistinct
<1> QED
  BY <1>3, <1>4 DEF IInv

LEMMA SendInv ==
  ASSUME IInv, NEW d \in Deliveries, NEW t \in Tokens, Send(d, t), TypeOK'
  PROVE  IInv'
<1>1. /\ sent[d] = Nobody /\ registration[t] # Nobody /\ sent'[d] = registration[t]
      /\ \A e \in Deliveries : e # d => sent'[e] = sent[e]
      /\ UNCHANGED <<clock, registration, receipt, claim>>
  BY DEF Send, IInv, TypeOK
<1>2. receipt[d] = Nobody
  BY <1>1 DEF IInv, ReceiptsOfSent
<1> QED
  BY <1>1, <1>2 DEF IInv, RegistrationIds, SentIds, ReceiptsOfSent, LinksExist, ClaimsOfReceipts,
     ClaimsDistinct

LEMMA RecordTicketInv ==
  ASSUME IInv, NEW d \in Deliveries, RecordTicket(d), TypeOK'
  PROVE  IInv'
<1> DEFINE link == IF Present(sent[d].id) THEN sent[d].id ELSE Nobody
           row == [status |-> "pending", attempts |-> 0, link |-> link,
                   user |-> sent[d].user, createdAt |-> sent[d].createdAt]
<1>1. /\ sent[d] # Nobody /\ receipt[d] = Nobody
      /\ receipt' = [receipt EXCEPT ![d] = row]
      /\ UNCHANGED <<clock, registration, sent, claim>>
  BY DEF RecordTicket
<1>2. row.user = sent[d].user /\ row.createdAt = sent[d].createdAt /\ row.link = link
  OBVIOUS
<1>3. link # Nobody => link = sent[d].id /\ Present(sent[d].id)
  OBVIOUS
<1> HIDE DEF link, row
<1>4. /\ receipt'[d] = row
      /\ \A e \in Deliveries : e # d => receipt'[e] = receipt[e]
  BY <1>1 DEF IInv, TypeOK
<1>5. ReceiptsOfSent'
  BY <1>1, <1>2, <1>3, <1>4 DEF IInv, ReceiptsOfSent
<1>6. LinksExist'
  BY <1>1, <1>2, <1>3, <1>4 DEF IInv, LinksExist, SentIds, Present
<1>7. ClaimsOfReceipts'
  BY <1>1, <1>4 DEF IInv, ClaimsOfReceipts
<1> QED
  BY <1>1, <1>5, <1>6, <1>7 DEF IInv, RegistrationIds, SentIds, ClaimsDistinct

LEMMA ClaimBatchInv ==
  ASSUME IInv, NEW p \in Pollers, NEW S \in SUBSET Deliveries, ClaimBatch(p, S), TypeOK'
  PROVE  IInv'
<1>1. UNCHANGED <<clock, registration, sent>> /\ TypeOK
  BY DEF ClaimBatch, IInv
<1>2. \A d \in Deliveries :
         /\ receipt'[d] = Nobody <=> receipt[d] = Nobody
         /\ receipt[d] # Nobody => /\ receipt'[d].link = receipt[d].link
                                   /\ receipt'[d].user = receipt[d].user
                                   /\ receipt'[d].createdAt = receipt[d].createdAt
         /\ d \in S => receipt[d] # Nobody /\ receipt'[d].attempts = receipt[d].attempts + 1
         /\ d \notin S => receipt'[d] = receipt[d]
  BY <1>1, ClaimBatchTypes
<1>3. RegistrationIds' /\ SentIds' /\ ReceiptsOfSent' /\ LinksExist'
  BY <1>1, <1>2 DEF IInv, RegistrationIds, SentIds, ReceiptsOfSent, LinksExist
<1>4. /\ \A q \in Pollers : q # p => claim'[q] = claim[q]
      /\ \A d \in Deliveries : claim'[p][d] # Nobody =>
              d \in S /\ claim'[p][d].attempts = receipt[d].attempts + 1 /\ ~claim'[p][d].prune
  BY <1>1, ClaimBatchTypes
<1>5. ClaimsOfReceipts'
  BY <1>1, <1>2, <1>4, FieldTypes DEF IInv, ClaimsOfReceipts
<1>6. ClaimsDistinct'
  <2> SUFFICES ASSUME NEW a \in Pollers, NEW b \in Pollers, NEW d \in Deliveries,
                      claim'[a][d] # Nobody, claim'[b][d] # Nobody,
                      claim'[a][d].attempts = claim'[b][d].attempts, a # b
               PROVE  FALSE
    BY DEF ClaimsDistinct
  <2>1. CASE a # p /\ b # p
    BY <1>4, <2>1 DEF IInv, ClaimsDistinct
  <2>2. \A q \in Pollers : claim[q][d] # Nobody =>
            claim[q][d].attempts < receipt[d].attempts + 1
    BY <1>1, FieldTypes DEF IInv, ClaimsOfReceipts
  <2>3. CASE a = p
    BY <1>1, <1>4, <2>2, <2>3, FieldTypes DEF IInv, ClaimsOfReceipts
  <2>4. CASE b = p
    BY <1>1, <1>4, <2>2, <2>4, FieldTypes DEF IInv, ClaimsOfReceipts
  <2> QED
    BY <2>1, <2>3, <2>4
<1> QED
  BY <1>3, <1>5, <1>6 DEF IInv

\* A claim goes or is decided: which receipts are claimed, and how often,
\* stays as it was.
LEMMA ClaimsKept ==
  ASSUME IInv,
         \A d \in Deliveries : /\ receipt'[d] = Nobody <=> receipt[d] = Nobody
                               /\ receipt[d] # Nobody => receipt'[d].attempts = receipt[d].attempts,
         \A q \in Pollers, e \in Deliveries :
            \/ claim'[q][e] = claim[q][e] \/ claim'[q][e] = Nobody
            \/ /\ claim[q][e] # Nobody /\ claim'[q][e].attempts = claim[q][e].attempts
               /\ claim'[q][e].prune => claim'[q][e].update = "error"
  PROVE  ClaimsOfReceipts' /\ ClaimsDistinct'
<1>1. ClaimsOfReceipts'
  BY DEF IInv, ClaimsOfReceipts
<1>2. ClaimsDistinct'
  BY DEF IInv, ClaimsDistinct
<1> QED
  BY <1>1, <1>2

LEMMA NextInv == IInv /\ [Next]_vars => IInv'
<1> SUFFICES ASSUME IInv, [Next]_vars PROVE IInv'
  OBVIOUS
<1>0. TypeOK /\ TypeOK'
  BY NextTypes DEF IInv
<1>1. ASSUME NEW p \in Pollers, NEW d \in Deliveries, Decide(p, d)
      PROVE  IInv'
  <2>1. UNCHANGED <<clock, registration, sent, receipt>>
    BY <1>0, <1>1, DecideTypes
  <2>2. ClaimsOfReceipts' /\ ClaimsDistinct'
    BY <1>0, <1>1, <2>1, DecideTypes, ClaimsKept
  <2> QED
    BY <1>0, <2>1, <2>2 DEF IInv, RegistrationIds, SentIds, ReceiptsOfSent, LinksExist
<1>2. ASSUME NEW p \in Pollers, NEW d \in Deliveries, Finish(p, d)
      PROVE  IInv'
  <2>1. UNCHANGED <<clock, sent>>
    BY <1>2 DEF Finish
  <2>2. RegistrationIds' /\ SentIds' /\ ReceiptsOfSent' /\ LinksExist'
    BY <1>0, <1>2, <2>1, FinishTypes, UnlinkInv
  <2>3. ClaimsOfReceipts' /\ ClaimsDistinct'
    BY <1>0, <1>2, FinishTypes, ClaimsKept
  <2> QED
    BY <1>0, <2>2, <2>3 DEF IInv
<1>3. ASSUME NEW p \in Pollers, NEW d \in Deliveries, FinishFails(p, d)
      PROVE  IInv'
  <2>1. UNCHANGED <<clock, registration, sent, receipt>> /\ claim' = [claim EXCEPT ![p][d] = Nobody]
    BY <1>3 DEF FinishFails
  <2>2. \A q \in Pollers, e \in Deliveries : claim'[q][e] = claim[q][e] \/ claim'[q][e] = Nobody
    BY <1>0, <2>1 DEF TypeOK
  <2>3. ClaimsOfReceipts' /\ ClaimsDistinct'
    BY <2>1, <2>2, ClaimsKept
  <2> QED
    BY <1>0, <2>1, <2>3 DEF IInv, RegistrationIds, SentIds, ReceiptsOfSent, LinksExist
<1>4. ASSUME NEW p \in Pollers, Crash(p)
      PROVE  IInv'
  <2>1. /\ UNCHANGED <<clock, registration, sent, receipt>>
        /\ claim' = [claim EXCEPT ![p] = [d \in Deliveries |-> Nobody]]
    BY <1>4 DEF Crash
  <2>2. \A q \in Pollers, e \in Deliveries : claim'[q][e] = claim[q][e] \/ claim'[q][e] = Nobody
    BY <1>0, <2>1 DEF TypeOK
  <2>3. ClaimsOfReceipts' /\ ClaimsDistinct'
    BY <2>1, <2>2, ClaimsKept
  <2> QED
    BY <1>0, <2>1, <2>3 DEF IInv, RegistrationIds, SentIds, ReceiptsOfSent, LinksExist
<1>5. ASSUME UNCHANGED <<clock, registration, sent, receipt, claim>>
      PROVE  IInv'
  BY <1>0, <1>5 DEF IInv, RegistrationIds, SentIds, ReceiptsOfSent, LinksExist, ClaimsOfReceipts,
     ClaimsDistinct
<1>6. ASSUME NEW d \in Deliveries, CheckDue(d) \/ LeaseOutrun(d) \/ Ages(d)
      PROVE  UNCHANGED <<clock, registration, sent, receipt, claim>>
  BY <1>6 DEF CheckDue, LeaseOutrun, Ages
<1>7. UNCHANGED vars => UNCHANGED <<clock, registration, sent, receipt, claim>>
  BY DEF vars
<1> QED
  BY <1>0, <1>1, <1>2, <1>3, <1>4, <1>5, <1>6, <1>7, RegisterInv, RemoveInv, SendInv,
     RecordTicketInv, ClaimBatchInv
     DEF Next, Registration, Worker, Poll, Time

LEMMA Invariance == Spec => []IInv
  BY InitInv, NextInv, PTL DEF Spec

\* push_receipts.push_token_id never dangles, and what it links is the token
\* the push went to.
THEOREM LinksAlwaysExist == Spec => []LinksExist
<1>1. IInv => LinksExist
  BY DEF IInv
<1> QED
  BY <1>1, Invariance, PTL

\* finish deletes a registration only at the version its push was sent to.
THEOREM AlwaysPrunesTheSent == Spec => PrunesOnlyTheSent
<1> DEFINE Prunes == \A t \in Tokens : registration[t] # Nobody /\ registration'[t] = Nobody =>
          \/ \E u \in Users : Remove(u, t)
          \/ \E d \in Deliveries :
                sent[d] = registration[t] /\ receipt'[d] # Nobody /\ receipt'[d].status = "error"
<1>1. IInv /\ [Next]_vars => [Prunes]_vars
  <2> SUFFICES ASSUME IInv, Next, NEW t \in Tokens, registration[t] # Nobody,
                      registration'[t] = Nobody
               PROVE  \/ \E u \in Users : Remove(u, t)
                      \/ \E d \in Deliveries :
                           sent[d] = registration[t] /\ receipt'[d] # Nobody /\ receipt'[d].status = "error"
    OBVIOUS
  <2>0. TypeOK
    BY DEF IInv
  <2>1. ASSUME NEW u \in Users, NEW s \in Tokens, Register(u, s)
        PROVE  FALSE
    BY <2>0, <2>1, RegisterTypes
  <2>2. ASSUME NEW u \in Users, NEW s \in Tokens, Remove(u, s)
        PROVE  s = t
    BY <2>0, <2>2 DEF Remove, TypeOK
  <2>3. ASSUME NEW p \in Pollers, NEW d \in Deliveries, Finish(p, d)
        PROVE  sent[d] = registration[t] /\ receipt'[d] # Nobody /\ receipt'[d].status = "error"
    <3>a. registration'[t] # registration[t]
      OBVIOUS
    <3>b. /\ registration'[t] = Nobody
          /\ claim[p][d].prune /\ IsSentTo(registration[t], receipt[d]) /\ Fenced(p, d)
          /\ receipt'[d].status = claim[p][d].update
      BY <2>0, <2>3, <3>a, FinishTypes
    <3>1. /\ claim[p][d].prune /\ IsSentTo(registration[t], receipt[d]) /\ Fenced(p, d)
          /\ receipt'[d].status = claim[p][d].update
          /\ claim[p][d] # Nobody
      BY <2>3, <3>b DEF Finish
    <3>2. receipt[d] # Nobody /\ receipt'[d] # Nobody
      BY <2>0, <2>3, <3>1, FinishTypes DEF Fenced, Pending
    <3>3. receipt'[d].status = "error"
      BY <3>1 DEF IInv, ClaimsOfReceipts
    <3>4. /\ sent[d].id = registration[t].id /\ sent[d].user = registration[t].user
          /\ sent[d].createdAt = registration[t].createdAt /\ sent[d] # Nobody
      BY <2>0, <3>1, <3>2, FieldTypes DEF IInv, ReceiptsOfSent, IsSentTo
    <3>5. sent[d].token = registration[t].token
      BY <3>4 DEF IInv, SentIds, RegistrationIds
    <3>6. sent[d] \in Registrations /\ registration[t] \in Registrations
      BY <2>0, <3>4, FieldTypes
    <3>7. sent[d] = registration[t]
      BY <3>4, <3>5, <3>6 DEF Registrations
    <3> QED
      BY <3>2, <3>3, <3>7
  <2>4. ~UNCHANGED registration
    OBVIOUS
  <2> QED
    BY <2>1, <2>2, <2>3, <2>4, ZenonT(60) DEF Next, Registration, Worker, Poll, Time, Send, RecordTicket,
       ClaimBatch, Decide, Expire, Answered, FinishFails, Crash, CheckDue, LeaseOutrun, Ages
<1> QED
  BY <1>1, Invariance, PTL DEF Spec, PrunesOnlyTheSent

\* finish, guarded by the attempts of the claim: while a claim is the last of
\* its receipt, nobody else ends the receipt.
THEOREM NewestAlwaysDecides == Spec => NewestClaimDecides
<1> DEFINE Newest == \A p \in Pollers, d \in Deliveries :
          /\ Pending(d)
          /\ HoldsNewest(p, d)
          /\ receipt'[d].status # "pending"
          => claim'[p][d] = Nobody
<1>1. IInv /\ [Next]_vars => [Newest]_vars
  <2> SUFFICES ASSUME IInv, Next, NEW p \in Pollers, NEW d \in Deliveries, Pending(d),
                      HoldsNewest(p, d), receipt'[d].status # "pending"
               PROVE  claim'[p][d] = Nobody
    OBVIOUS
  <2>0. TypeOK /\ receipt[d] # Nobody /\ receipt[d].status = "pending"
    BY DEF IInv, Pending
  <2>1. ASSUME NEW u \in Users, NEW t \in Tokens, Remove(u, t)
        PROVE  FALSE
    BY <2>0, <2>1, UnlinkedTypes DEF Remove, TypeOK
  <2>2. ASSUME NEW e \in Deliveries, RecordTicket(e)
        PROVE  FALSE
    BY <2>0, <2>2 DEF RecordTicket, TypeOK
  <2>3. ASSUME NEW q \in Pollers, NEW S \in SUBSET Deliveries, ClaimBatch(q, S)
        PROVE  FALSE
    BY <2>0, <2>3, ClaimBatchTypes
  <2>4. ASSUME NEW q \in Pollers, NEW e \in Deliveries, Finish(q, e)
        PROVE  claim'[p][d] = Nobody
    <3>1. e = d /\ Fenced(q, d)
      BY <2>0, <2>4, FinishTypes
    <3>2. claim[q][d] # Nobody /\ claim[q][d].attempts = receipt[d].attempts
      BY <2>4, <3>1 DEF Finish, Fenced
    <3>3. q = p
      BY <3>2 DEF HoldsNewest, IInv, ClaimsDistinct
    <3> QED
      BY <2>0, <2>4, <3>1, <3>3, FinishTypes
  <2>5. ~UNCHANGED receipt
    BY <2>0
  <2> QED
    BY <2>1, <2>2, <2>3, <2>4, <2>5, ZenonT(60) DEF Next, Registration, Worker, Poll, Time, Register, Send,
       Decide, Expire, Answered, FinishFails, Crash, CheckDue, LeaseOutrun, Ages
<1> QED
  BY <1>1, Invariance, PTL DEF Spec, NewestClaimDecides

-----------------------------------------------------------------------------
(* Row locks.  That finish is one action above, and enqueue, complete and  *)
(* the re-seed are in JobQueue, rests on the locks these transactions take *)
(* of the same rows.  What follows is about RowLocks, which has a state    *)
(* and a specification of its own.                                         *)

\* A list that names each element of S once names no other.
LEMMA OrderLists ==
  ASSUME NEW S, IsFiniteSet(S), NEW o \in Orders(S)
  PROVE  o \in Seq(S) /\ Rest(o) = S
<1>1. Cardinality(S) \in Nat
  BY FS_CardinalityType
<1>2. o \in [1..Cardinality(S) -> S] /\ \A x \in S : \E i \in DOMAIN o : o[i] = x
  BY DEF Orders
<1> QED
  BY <1>1, <1>2 DEF Rest

\* What a statement over the rows S asks for.
LEMMA AskLists ==
  ASSUME NEW S, IsFiniteSet(S), NEW o \in Orders(S), NEW table, NEW mode
  PROVE  /\ AskAll(table, o, mode) \in Seq(RowsOf(table, S, mode))
         /\ Len(AskAll(table, o, mode)) = Len(o)
         /\ \A i \in 1..Len(o) : o[i] \in S /\ AskAll(table, o, mode)[i] = Ask(table, o[i], mode)
         /\ Rest(AskAll(table, o, mode)) = RowsOf(table, S, mode)
<1>1. o \in Seq(S) /\ Rest(o) = S
  BY OrderLists
<1>2. /\ AskAll(table, o, mode) = [i \in 1..Len(o) |-> Ask(table, o[i], mode)]
      /\ \A i \in 1..Len(o) : o[i] \in S
  BY <1>1 DEF AskAll
<1>3. \A i \in 1..Len(o) : Ask(table, o[i], mode) \in RowsOf(table, S, mode)
  BY <1>2 DEF RowsOf
<1>4. Len(o) \in Nat
  BY <1>1
<1>5. /\ AskAll(table, o, mode) \in Seq(RowsOf(table, S, mode))
      /\ Len(AskAll(table, o, mode)) = Len(o)
  BY <1>2, <1>3, <1>4
<1>6. ASSUME NEW a \in RowsOf(table, S, mode)
      PROVE  a \in Rest(AskAll(table, o, mode))
  <2>1. PICK x \in S : a = Ask(table, x, mode)
    BY <1>6 DEF RowsOf
  <2>2. PICK i \in 1..Len(o) : o[i] = x
    BY <1>1, <2>1 DEF Rest
  <2> QED
    BY <2>1, <2>2, <1>2, <1>5 DEF Rest
<1>7. Rest(AskAll(table, o, mode)) \subseteq RowsOf(table, S, mode)
  BY <1>2, <1>3, <1>5 DEF Rest
<1> QED
  BY <1>2, <1>5, <1>6, <1>7

\* The first lock of a list, and those that are left after it.
LEMMA RestOfTail ==
  ASSUME NEW T, NEW s \in Seq(T), s # <<>>
  PROVE  /\ Head(s) \in T /\ Tail(s) \in Seq(T)
         /\ Head(s) = s[1] /\ Len(s) \in Nat \ {0} /\ Len(Tail(s)) = Len(s) - 1
         /\ \A i \in 1..Len(Tail(s)) : Tail(s)[i] = s[i + 1]
         /\ Rest(s) = {Head(s)} \cup Rest(Tail(s))
<1>1. /\ Head(s) \in T /\ Tail(s) \in Seq(T)
      /\ Head(s) = s[1] /\ Len(s) \in Nat \ {0} /\ Len(Tail(s)) = Len(s) - 1
      /\ \A i \in 1..Len(Tail(s)) : Tail(s)[i] = s[i + 1]
  OBVIOUS
<1>2. Rest(Tail(s)) \subseteq Rest(s) /\ Head(s) \in Rest(s)
  BY <1>1 DEF Rest
<1>3. ASSUME NEW i \in 1..Len(s)
      PROVE  s[i] = Head(s) \/ s[i] \in Rest(Tail(s))
  <2>1. CASE i = 1
    BY <2>1, <1>1
  <2>2. CASE i # 1
    <3>1. i - 1 \in 1..Len(Tail(s)) /\ Tail(s)[i - 1] = s[i]
      BY <2>2, <1>1
    <3> QED
      BY <3>1 DEF Rest
  <2> QED
    BY <2>1, <2>2
<1> QED
  BY <1>1, <1>2, <1>3 DEF Rest

\* A record of a lock that is asked for is told by its three fields.
LEMMA AskFields ==
  ASSUME NEW t, NEW i, NEW m
  PROVE  Ask(t, i, m).table = t /\ Ask(t, i, m).id = i /\ Ask(t, i, m).mode = m
BY DEF Ask

\* The rows of each table are among the locks there are.
LEMMA RowsAreAsks ==
  /\ \A m \in Modes : /\ RowsOf("job", Reminders, m) \subseteq Asks
                      /\ RowsOf("reminder", Reminders, m) \subseteq Asks
                      /\ RowsOf("receipt", Receipts, m) \subseteq Asks
                      /\ RowsOf("day", OrdinaryUsers, m) \subseteq Asks
                      /\ Ask("token", 1, m) \in Asks
BY DEF RowsOf, Asks, Ask

\* No transaction has begun.
LEMMA InitLocks == LocksInit => LocksInv
BY DEF LocksInit, LocksInv, LockTypes, Exclusive, Shaped, Shape, Idle, Transactions, Rest

\* A transaction begins with no lock and the whole of its list.
LEMMA BeginKeeps ==
  ASSUME LocksInv, NEW p \in Processes, NEW t, NEW s, Begin(p, t, s),
         t \in Transactions \X (Reminders \cup Receipts \cup {Nothing}),
         s \in Seq(Asks), Shape(p, t, s, {}, linked)
  PROVE  LocksInv'
<1>1. /\ doing' = [doing EXCEPT ![p] = t] /\ plan' = [plan EXCEPT ![p] = s]
      /\ held' = held /\ linked' = linked /\ job' = job /\ token' = token
      /\ doing[p] = Idle
  BY DEF Begin
<1>2. LockTypes'
  BY <1>1 DEF LocksInv, LockTypes
<1>3. Exclusive'
  BY <1>1 DEF LocksInv, Exclusive
<1>4. held[p] = {}
  BY <1>1 DEF LocksInv, Shaped, Shape, Idle
<1>5. Shaped'
  <2> SUFFICES ASSUME NEW q \in Processes
               PROVE  Shape(q, doing'[q], plan'[q], held'[q], linked')
    BY DEF Shaped
  <2>1. CASE q = p
    BY <2>1, <1>1, <1>4 DEF LocksInv, LockTypes
  <2>2. CASE q # p
    BY <2>2, <1>1 DEF LocksInv, LockTypes, Shaped
  <2> QED
    BY <2>1, <2>2
<1> QED
  BY <1>2, <1>3, <1>5 DEF LocksInv

\* A statement that gets its lock, or finds no row, leaves the shape.
LEMMA RecordMoves ==
  ASSUME NEW r, NEW s, NEW h, RecordShape(r, s, h), s # <<>>
  PROVE  /\ RecordShape(r, Tail(s), h)
         /\ RecordShape(r, Tail(s), h \cup {Head(s)})
         /\ LET J == Ask("job", r, "update")
                K == Ask("reminder", r, "keyShare")
                T == Ask("token", 1, "keyShare")
                N == Ask("reminder", r, "noKeyUpdate")
            IN  \/ Head(s) = J /\ h = {}
                \/ Head(s) = K /\ h \subseteq {J}
                \/ Head(s) = T /\ h \subseteq {J, K}
                \/ Head(s) = N /\ h \subseteq {J, K, T}
<1> DEFINE J == Ask("job", r, "update")
           K == Ask("reminder", r, "keyShare")
           T == Ask("token", 1, "keyShare")
           N == Ask("reminder", r, "noKeyUpdate")
<1>1. \A a, b, c, d :
        /\ Tail(<<a, b, c, d>>) = <<b, c, d>> /\ Head(<<a, b, c, d>>) = a
        /\ Tail(<<a, b, c>>) = <<b, c>> /\ Head(<<a, b, c>>) = a
        /\ Tail(<<a, b>>) = <<b>> /\ Head(<<a, b>>) = a
        /\ Tail(<<a>>) = <<>> /\ Head(<<a>>) = a
  OBVIOUS
<1> HIDE DEF J, K, T, N
<1>2. /\ h \subseteq {J, K, T, N}
      /\ \/ s \in {<<J, K, T, N>>, <<J, K, T>>, <<J, N>>} /\ h = {}
         \/ s \in {<<K, T, N>>, <<K, T>>} /\ h \subseteq {J}
         \/ s \in {<<T, N>>, <<T>>} /\ h \subseteq {J, K}
         \/ s = <<N>> /\ h \subseteq {J, K, T}
  BY DEF RecordShape, J, K, T, N
<1> DEFINE Goal(x, g) ==
             /\ g \subseteq {J, K, T, N}
             /\ \/ x \in {<<J, K, T, N>>, <<J, K, T>>, <<J, N>>} /\ g = {}
                \/ x \in {<<K, T, N>>, <<K, T>>} /\ g \subseteq {J}
                \/ x \in {<<T, N>>, <<T>>} /\ g \subseteq {J, K}
                \/ x = <<N>> /\ g \subseteq {J, K, T}
                \/ x = <<>>
           Heads == \/ Head(s) = J /\ h = {}
                    \/ Head(s) = K /\ h \subseteq {J}
                    \/ Head(s) = T /\ h \subseteq {J, K}
                    \/ Head(s) = N /\ h \subseteq {J, K, T}
<1>3. Goal(Tail(s), h) /\ Goal(Tail(s), h \cup {Head(s)}) /\ Heads
  <2>1. CASE s = <<J, K, T, N>> /\ h = {}
    <3>1. Tail(s) = <<K, T, N>> /\ Head(s) = J
      BY <2>1, <1>1
    <3> QED
      BY <3>1, <2>1, Zenon
  <2>2. CASE s = <<J, K, T>> /\ h = {}
    <3>1. Tail(s) = <<K, T>> /\ Head(s) = J
      BY <2>2, <1>1
    <3> QED
      BY <3>1, <2>2, Zenon
  <2>3. CASE s = <<J, N>> /\ h = {}
    <3>1. Tail(s) = <<N>> /\ Head(s) = J
      BY <2>3, <1>1
    <3> QED
      BY <3>1, <2>3, Zenon
  <2>4. CASE s = <<K, T, N>> /\ h \subseteq {J}
    <3>1. Tail(s) = <<T, N>> /\ Head(s) = K
      BY <2>4, <1>1
    <3> QED
      BY <3>1, <2>4, Zenon
  <2>5. CASE s = <<K, T>> /\ h \subseteq {J}
    <3>1. Tail(s) = <<T>> /\ Head(s) = K
      BY <2>5, <1>1
    <3> QED
      BY <3>1, <2>5, Zenon
  <2>6. CASE s = <<T, N>> /\ h \subseteq {J, K}
    <3>1. Tail(s) = <<N>> /\ Head(s) = T
      BY <2>6, <1>1
    <3> QED
      BY <3>1, <2>6, Zenon
  <2>7. CASE s = <<T>> /\ h \subseteq {J, K}
    <3>1. Tail(s) = <<>> /\ Head(s) = T
      BY <2>7, <1>1
    <3> QED
      BY <3>1, <2>7, Zenon
  <2>8. CASE s = <<N>> /\ h \subseteq {J, K, T}
    <3>1. Tail(s) = <<>> /\ Head(s) = N
      BY <2>8, <1>1
    <3> QED
      BY <3>1, <2>8, Zenon
  <2> QED
    BY <1>2, <2>1, <2>2, <2>3, <2>4, <2>5, <2>6, <2>7, <2>8, Zenon
<1> QED
  BY <1>3 DEF RecordShape, J, K, T, N

\* The same of a list of one lock.
LEMMA SingleMoves ==
  ASSUME NEW a, NEW s, NEW h, SingleShape(a, s, h), s # <<>>
  PROVE  SingleShape(a, Tail(s), h) /\ SingleShape(a, Tail(s), h \cup {Head(s)})
<1>1. s = <<a>> /\ h = {}
  BY DEF SingleShape
<1>2. Tail(s) = <<>> /\ Head(s) = a
  BY <1>1
<1> QED
  BY <1>1, <1>2, Zenon DEF SingleShape

\* The same of a list that starts with the token.
LEMMA TokenFirstMoves ==
  ASSUME NEW t, NEW s \in Seq(Asks), NEW h, NEW l, NEW there \in BOOLEAN, NEW g,
         s # <<>>, TokenFirstShape(t, s, h, l), l # {} => there,
         \/ /\ g = h \cup {Head(s)}
            /\ Head(s).table = "receipt" => Head(s).id \in l \/ (t[1] = "prune" /\ t[2] = Head(s).id)
         \/ /\ g = h
            /\ Head(s).table = "token" => ~there
  PROVE  TokenFirstShape(t, Tail(s), g, l)
<1> DEFINE own == Ask("receipt", t[2], "noKeyUpdate")
           Once(x) == t[1] = "prune" => \A i, k \in 1..Len(x) : x[i] = own /\ x[k] = own => i = k
<1>1. /\ Head(s) \in Asks /\ Tail(s) \in Seq(Asks)
      /\ Head(s) = s[1] /\ Len(s) \in Nat \ {0} /\ Len(Tail(s)) = Len(s) - 1
      /\ \A i \in 1..Len(Tail(s)) : Tail(s)[i] = s[i + 1]
      /\ Rest(s) = {Head(s)} \cup Rest(Tail(s))
  BY RestOfTail
<1>2. Once(s)
  BY DEF TokenFirstShape
<1>3. Once(Tail(s))
  <2> SUFFICES ASSUME t[1] = "prune", NEW i \in 1..Len(Tail(s)), NEW k \in 1..Len(Tail(s)),
                      Tail(s)[i] = own, Tail(s)[k] = own
               PROVE  i = k
    OBVIOUS
  <2>1. i + 1 \in 1..Len(s) /\ k + 1 \in 1..Len(s) /\ s[i + 1] = own /\ s[k + 1] = own
    BY <1>1
  <2>2. i + 1 = k + 1
    BY <2>1, <1>2
  <2> QED
    BY <2>2
<1>4. t[1] = "prune" /\ Head(s) = own => own \notin Rest(Tail(s))
  <2> SUFFICES ASSUME t[1] = "prune", Head(s) = own, own \in Rest(Tail(s))
               PROVE  FALSE
    OBVIOUS
  <2>1. PICK i \in 1..Len(Tail(s)) : Tail(s)[i] = own
    BY DEF Rest
  <2>2. 1 \in 1..Len(s) /\ i + 1 \in 1..Len(s) /\ s[1] = own /\ s[i + 1] = own
    BY <2>1, <1>1
  <2>3. i + 1 = 1
    BY <2>2, <1>2
  <2> QED
    BY <2>3
<1>5. TokenRow \notin ReceiptRows
  BY AskFields DEF TokenRow, ReceiptRows, RowsOf
<1>6. \A a \in ReceiptRows : a.table = "receipt" /\ a = Ask("receipt", a.id, "noKeyUpdate")
  BY AskFields DEF ReceiptRows, RowsOf
<1>7. TokenRow.table = "token"
  BY AskFields DEF TokenRow
<1>8. CASE Head(s) = TokenRow /\ h = {} /\ Rest(Tail(s)) \subseteq ReceiptRows
  BY <1>8, <1>3, <1>7 DEF TokenFirstShape
<1>9. CASE /\ Rest(s) \subseteq ReceiptRows
           /\ h \subseteq ReceiptRows \cup {TokenRow}
           /\ TokenRow \notin h =>
                l = {} /\ (h # {} => t[1] = "prune" /\ own \notin Rest(s))
  <2>1. /\ Rest(Tail(s)) \subseteq ReceiptRows /\ Head(s) \in ReceiptRows
        /\ g \subseteq ReceiptRows \cup {TokenRow}
        /\ TokenRow \in g <=> TokenRow \in h
    BY <1>9, <1>1, <1>5
  <2>2. ASSUME TokenRow \notin g
        PROVE  l = {} /\ (g # {} => t[1] = "prune" /\ own \notin Rest(Tail(s)))
    <3>1. l = {} /\ (h # {} => t[1] = "prune" /\ own \notin Rest(Tail(s)))
      BY <2>1, <2>2, <1>9, <1>1
    <3>2. CASE g = h
      BY <3>1, <3>2
    <3>3. CASE g = h \cup {Head(s)} /\ g # h
      <4>1. t[1] = "prune" /\ t[2] = Head(s).id
        BY <3>1, <3>3, <2>1, <1>6
      <4>2. Head(s) = own
        BY <4>1, <2>1, <1>6
      <4> QED
        BY <4>1, <4>2, <1>4, <3>1
    <3> QED
      BY <3>2, <3>3
  <2> QED
    BY <2>1, <2>2, <1>3 DEF TokenFirstShape
<1> QED
  BY <1>8, <1>9 DEF TokenFirstShape

\* The same of every transaction.
LEMMA ShapeMoves ==
  ASSUME NEW p, NEW t, NEW s \in Seq(Asks), NEW h, NEW l, NEW there \in BOOLEAN, NEW g,
         s # <<>>, Shape(p, t, s, h, l), l # {} => there,
         \/ /\ g = h \cup {Head(s)}
            /\ Head(s).table = "receipt" =>
                 Head(s).id \in l \/ (t[1] \in {"prune", "finish"} /\ t[2] = Head(s).id)
         \/ /\ g = h
            /\ Head(s).table = "token" => ~there
  PROVE  Shape(p, t, Tail(s), g, l)
<1>1. Rest(s) = {Head(s)} \cup Rest(Tail(s))
  BY RestOfTail
<1>2. t[1] # "idle"
  BY DEF Shape
<1>3. CASE t[1] \in {"complete", "retry"}
  BY <1>3, RecordMoves, ZenonT(60) DEF Shape
<1>4. CASE t[1] = "register"
  BY <1>4, SingleMoves DEF Shape
<1>5. CASE t[1] = "finish"
  BY <1>5, SingleMoves DEF Shape
<1>6. CASE t[1] \in {"remove", "prune"}
  <2>1. TokenFirstShape(t, s, h, l)
    BY <1>6 DEF Shape
  <2>2. TokenFirstShape(t, Tail(s), g, l)
    BY <2>1, <1>6, TokenFirstMoves
  <2> QED
    BY <2>2, <1>6 DEF Shape
<1>7. CASE t[1] \in {"materialize", "enqueue", "cascade", "sweep"}
  BY <1>7, <1>1 DEF Shape
<1> QED
  BY <1>2, <1>3, <1>4, <1>5, <1>6, <1>7 DEF Shape

\* A list asked for in one statement is in no particular order.
LEMMA OneStatement ==
  ASSUME NEW S, IsFiniteSet(S), NEW o \in Orders(S), NEW table, NEW mode,
         RowsOf(table, S, mode) \subseteq Asks
  PROVE  /\ AskAll(table, o, mode) \in Seq(Asks)
         /\ Rest(AskAll(table, o, mode)) = RowsOf(table, S, mode)
BY AskLists

LEMMA TokenFirstStarts ==
  ASSUME NEW S \in SUBSET Receipts, IsFiniteSet(S), NEW o \in Orders(S), NEW l,
         NEW t, NEW s,
         \/ t[1] = "remove" /\ s = RemovePlan(o)
         \/ t[1] = "prune" /\ t[2] \in Receipts \ S /\ s = PrunePlan(t[2], o)
  PROVE  s \in Seq(Asks) /\ TokenFirstShape(t, s, {}, l)
<1> DEFINE all == AskAll("receipt", o, "noKeyUpdate")
           own == Ask("receipt", t[2], "noKeyUpdate")
<1>1. /\ all \in Seq(ReceiptRows) /\ Rest(all) \subseteq ReceiptRows
      /\ \A i \in 1..Len(all) : all[i].id \in S
  <2>1. RowsOf("receipt", S, "noKeyUpdate") \subseteq ReceiptRows
    BY DEF RowsOf, ReceiptRows
  <2>2. \A i \in 1..Len(o) : o[i] \in S /\ all[i] = Ask("receipt", o[i], "noKeyUpdate")
    BY AskLists
  <2>3. Len(all) = Len(o) /\ all \in Seq(RowsOf("receipt", S, "noKeyUpdate"))
    BY AskLists
  <2>4. Rest(all) = RowsOf("receipt", S, "noKeyUpdate")
    BY AskLists
  <2> QED
    BY <2>1, <2>2, <2>3, <2>4, AskFields
<1>2. ReceiptRows \subseteq Asks /\ TokenRow \in Asks /\ Ask("token", 1, "update") = TokenRow
  BY RowsAreAsks DEF ReceiptRows, TokenRow, Modes
<1> HIDE DEF all
<1>3. CASE t[1] = "remove" /\ s = RemovePlan(o)
  <2>1. s = <<TokenRow>> \o all
    BY <1>3 DEF RemovePlan, all, TokenRow
  <2>2. /\ s \in Seq(Asks) /\ s # <<>> /\ Head(s) = TokenRow /\ Tail(s) = all
    BY <2>1, <1>1, <1>2
  <2> QED
    BY <2>2, <1>1, <1>3 DEF TokenFirstShape
<1>4. CASE t[1] = "prune" /\ t[2] \in Receipts \ S /\ s = PrunePlan(t[2], o)
  <2>1. s = <<TokenRow, own>> \o all
    BY <1>4 DEF PrunePlan, all, TokenRow
  <2>2. own \in ReceiptRows /\ own.id = t[2] /\ own # TokenRow
    BY <1>4, AskFields DEF ReceiptRows, RowsOf, TokenRow
  <2>3. /\ s \in Seq(Asks) /\ s # <<>> /\ Head(s) = TokenRow
        /\ Len(s) = Len(all) + 2 /\ Len(all) \in Nat
        /\ s[1] = TokenRow /\ s[2] = own
        /\ \A i \in 3..Len(s) : s[i] = all[i - 2]
    BY <2>1, <2>2, <1>1, <1>2
  <2>4. \A i \in 1..Len(all) : all[i] \in ReceiptRows
    BY <1>1
  <2>5. Rest(Tail(s)) \subseteq ReceiptRows
    <3>1. \A i \in 2..Len(s) : s[i] \in ReceiptRows
      <4> SUFFICES ASSUME NEW i \in 2..Len(s)
                   PROVE  s[i] \in ReceiptRows
        OBVIOUS
      <4>1. CASE i = 2
        BY <4>1, <2>2, <2>3
      <4>2. CASE i >= 3
        <5>1. i \in 3..Len(s) /\ i - 2 \in 1..Len(all)
          BY <4>2, <2>3
        <5>2. s[i] = all[i - 2]
          BY <5>1, <2>3, Zenon
        <5> QED
          BY <5>1, <5>2, <2>4, Zenon
      <4> QED
        BY <4>1, <4>2, <2>3
    <3>2. Len(Tail(s)) = Len(s) - 1 /\ \A i \in 1..Len(Tail(s)) : Tail(s)[i] = s[i + 1]
      BY <2>3, RestOfTail
    <3> QED
      BY <3>1, <3>2, <2>3 DEF Rest
  <2>6. ASSUME NEW i \in 1..Len(s), s[i] = own
        PROVE  i = 2
    <3>1. i # 1
      BY <2>2, <2>3, <2>6
    <3>2. ASSUME i >= 3
          PROVE  FALSE
      <4>1. i - 2 \in 1..Len(all) /\ s[i] = all[i - 2]
        BY <2>3, <3>2
      <4>2. own.id \in S
        BY <4>1, <2>6, <1>1
      <4> QED
        BY <4>2, <2>2, <1>4
    <3> QED
      BY <3>1, <3>2, <2>3
  <2> QED
    BY <2>3, <2>5, <2>6, <1>4 DEF TokenFirstShape
<1> QED
  BY <1>3, <1>4

LEMMA FiniteParts ==
  ASSUME NEW S, IsFiniteSet(S), NEW T \in SUBSET S
  PROVE  IsFiniteSet(T)
BY FS_Subset

\* Every transaction that begins has one of the shapes.
LEMMA BeginShaped ==
  ASSUME LocksInv, NEW p \in Processes, NEW t, NEW s, Begin(p, t, s),
         \/ \E r \in Reminders : \/ t = <<"complete", r>> /\ s = CompletePlan(r)
                                 \/ t = <<"retry", r>> /\ s = RetryPlan(r)
                                 \/ t = <<"complete", r>> /\ s = SkipPlan(r)
         \/ /\ p \in Schedulers /\ t = <<"materialize", Nothing>>
            /\ \E o \in Orders(OrdinaryUsers \ days) : s = MaterializePlan(o)
         \/ /\ p \in Schedulers /\ t = <<"enqueue", Nothing>>
            /\ \E S \in SUBSET Reminders : \E o \in Orders(S) :
                 s = AskAll("reminder", o, "noKeyUpdate")
         \/ /\ p = Seed /\ t = <<"cascade", Nothing>>
            /\ \E S \in SUBSET Reminders : \E o \in Orders(S) :
                 s = AskAll("reminder", o, "update")
         \/ t = <<"remove", Nothing>> /\ \E o \in Orders(Receipts) : s = RemovePlan(o)
         \/ t = <<"register", Nothing>> /\ s = << Ask("token", 1, "noKeyUpdate") >>
         \/ \E d \in Receipts :
              \/ /\ t = <<"prune", d>>
                 /\ \E o \in Orders(Receipts \ {d}) : s = PrunePlan(d, o)
              \/ t = <<"finish", d>> /\ s = FinishPlan(d)
  PROVE  LocksInv'
<1>1. \A m \in Modes : /\ RowsOf("job", Reminders, m) \subseteq Asks
                       /\ RowsOf("reminder", Reminders, m) \subseteq Asks
                       /\ RowsOf("receipt", Receipts, m) \subseteq Asks
                       /\ RowsOf("day", OrdinaryUsers, m) \subseteq Asks
                       /\ Ask("token", 1, m) \in Asks
  BY RowsAreAsks
<1>2. Modes = {"keyShare", "noKeyUpdate", "update"}
  BY DEF Modes
<1> DEFINE Goal ==
             /\ t \in Transactions \X (Reminders \cup Receipts \cup {Nothing})
             /\ s \in Seq(Asks) /\ Shape(p, t, s, {}, linked)
<1>3. ASSUME NEW r \in Reminders,
             \/ t = <<"complete", r>> /\ s = CompletePlan(r)
             \/ t = <<"retry", r>> /\ s = RetryPlan(r)
             \/ t = <<"complete", r>> /\ s = SkipPlan(r)
      PROVE  Goal
  <2>1. /\ Ask("job", r, "update") \in Asks /\ Ask("reminder", r, "keyShare") \in Asks
        /\ Ask("token", 1, "keyShare") \in Asks /\ Ask("reminder", r, "noKeyUpdate") \in Asks
    BY DEF Asks, Ask, Modes
  <2>2. s \in {CompletePlan(r), RetryPlan(r), SkipPlan(r)}
    BY <1>3
  <2>3. RecordShape(r, s, {})
    <3> DEFINE J == Ask("job", r, "update")
               K == Ask("reminder", r, "keyShare")
               T == Ask("token", 1, "keyShare")
               N == Ask("reminder", r, "noKeyUpdate")
    <3>1. CompletePlan(r) = <<J, K, T, N>> /\ RetryPlan(r) = <<J, K, T>> /\ SkipPlan(r) = <<J, N>>
      BY DEF CompletePlan, RetryPlan, SkipPlan
    <3>2. s \in {<<J, K, T, N>>, <<J, K, T>>, <<J, N>>}
      BY <2>2, <3>1
    <3> HIDE DEF J, K, T, N
    <3>3. /\ {} \subseteq {J, K, T, N}
          /\ \/ s \in {<<J, K, T, N>>, <<J, K, T>>, <<J, N>>} /\ {} = {}
             \/ s \in {<<K, T, N>>, <<K, T>>} /\ {} \subseteq {J}
             \/ s \in {<<T, N>>, <<T>>} /\ {} \subseteq {J, K}
             \/ s = <<N>> /\ {} \subseteq {J, K, T}
             \/ s = <<>>
      BY <3>2, Zenon
    <3> QED
      BY <3>3 DEF RecordShape, J, K, T, N
  <2>4. s \in Seq(Asks)
    <3>1. \A a, b, c, d \in Asks : /\ <<a, b, c, d>> \in Seq(Asks)
                                    /\ <<a, b, c>> \in Seq(Asks) /\ <<a, b>> \in Seq(Asks)
      OBVIOUS
    <3>2. /\ CompletePlan(r) \in Seq(Asks) /\ RetryPlan(r) \in Seq(Asks)
          /\ SkipPlan(r) \in Seq(Asks)
      BY <3>1, <2>1, Zenon DEF CompletePlan, RetryPlan, SkipPlan
    <3> QED
      BY <3>2, <2>2, Zenon
  <2> QED
    BY <1>3, <2>3, <2>4 DEF Shape, Transactions
<1>4. ASSUME p \in Schedulers, t = <<"materialize", Nothing>>,
             NEW o \in Orders(OrdinaryUsers \ days), s = MaterializePlan(o)
      PROVE  Goal
  <2>1. IsFiniteSet(OrdinaryUsers \ days)
    BY FiniteAssumption, FS_Subset
  <2>2. RowsOf("day", OrdinaryUsers \ days, "update") \subseteq RowsOf("day", OrdinaryUsers, "update")
    BY DEF RowsOf
  <2>3. s \in Seq(Asks) /\ Rest(s) = RowsOf("day", OrdinaryUsers \ days, "update")
    <3>1. s = AskAll("day", o, "update")
      BY <1>4 DEF MaterializePlan
    <3>2. RowsOf("day", OrdinaryUsers \ days, "update") \subseteq Asks
      <4>1. RowsOf("day", OrdinaryUsers, "update") \subseteq Asks
        <5>1. "update" \in Modes
          BY Zenon DEF Modes
        <5> QED
          BY <5>1, <1>1, Zenon
      <4> QED
        BY <4>1, <2>2, Zenon
    <3>3. \A S : IsFiniteSet(S) /\ o \in Orders(S) /\ RowsOf("day", S, "update") \subseteq Asks
                   => /\ AskAll("day", o, "update") \in Seq(Asks)
                      /\ Rest(AskAll("day", o, "update")) = RowsOf("day", S, "update")
      BY OneStatement
    <3>4. o \in Orders(OrdinaryUsers \ days)
      BY <1>4
    <3> QED
      BY <3>1, <3>2, <3>3, <3>4, <2>1, Zenon
  <2> QED
    BY <1>4, <2>2, <2>3 DEF Shape, Transactions
<1>5. ASSUME NEW S \in SUBSET Reminders, NEW o \in Orders(S), NEW m \in {"noKeyUpdate", "update"},
             s = AskAll("reminder", o, m)
      PROVE  s \in Seq(Asks) /\ Rest(s) \subseteq RowsOf("reminder", Reminders, m)
  <2>1. IsFiniteSet(S)
    BY FiniteAssumption, FS_Subset
  <2>2. RowsOf("reminder", S, m) \subseteq RowsOf("reminder", Reminders, m)
    BY DEF RowsOf
  <2> QED
    BY <1>5, <2>1, <2>2, <1>1, <1>2, OneStatement
<1>6. ASSUME p \in Schedulers, t = <<"enqueue", Nothing>>,
             NEW S \in SUBSET Reminders, NEW o \in Orders(S), s = AskAll("reminder", o, "noKeyUpdate")
      PROVE  Goal
  BY <1>5, <1>6 DEF Shape, Transactions
<1>7. ASSUME p = Seed, t = <<"cascade", Nothing>>,
             NEW S \in SUBSET Reminders, NEW o \in Orders(S), s = AskAll("reminder", o, "update")
      PROVE  Goal
  BY <1>5, <1>7 DEF Shape, Transactions
<1>8. ASSUME t = <<"remove", Nothing>>, NEW o \in Orders(Receipts), s = RemovePlan(o)
      PROVE  Goal
  <2>1. s \in Seq(Asks) /\ TokenFirstShape(t, s, {}, linked)
    BY <1>8, FiniteAssumption, TokenFirstStarts
  <2> QED
    BY <1>8, <2>1 DEF Shape, Transactions
<1>9. ASSUME t = <<"register", Nothing>>, s = << Ask("token", 1, "noKeyUpdate") >>
      PROVE  Goal
  BY <1>9, <1>1, <1>2 DEF Shape, Transactions, SingleShape
<1>10. ASSUME NEW d \in Receipts, t = <<"prune", d>>, NEW o \in Orders(Receipts \ {d}),
              s = PrunePlan(d, o)
       PROVE  Goal
  <2>1. IsFiniteSet(Receipts \ {d})
    BY FiniteAssumption, FS_Subset
  <2>2. s \in Seq(Asks) /\ TokenFirstShape(t, s, {}, linked)
    BY <1>10, <2>1, TokenFirstStarts
  <2> QED
    BY <1>10, <2>2 DEF Shape, Transactions
<1>11. ASSUME NEW d \in Receipts, t = <<"finish", d>>, s = FinishPlan(d)
       PROVE  Goal
  <2>1. Ask("receipt", d, "noKeyUpdate") \in Asks
    BY DEF Asks, Ask, Modes
  <2> QED
    BY <1>11, <2>1 DEF Shape, Transactions, SingleShape, FinishPlan
<1>12. Goal
  BY <1>3, <1>4, <1>6, <1>7, <1>8, <1>9, <1>10, <1>11
<1> QED
  BY <1>12, BeginKeeps

\* Which locks a statement gets, and what its predicate says of them.
LEMMA LockKeeps ==
  ASSUME LocksInv, NEW p \in Processes, Lock(p)
  PROVE  LocksInv'
<1> DEFINE a == Next1(p)
<1>1. /\ plan[p] \in Seq(Asks) /\ plan[p] # <<>> /\ a = Head(plan[p])
      /\ a \in Asks /\ Tail(plan[p]) \in Seq(Asks)
  BY RestOfTail DEF LocksInv, LockTypes, Lock, Next1
<1>2. /\ plan' = [plan EXCEPT ![p] = Tail(plan[p])]
      /\ \/ held' = [held EXCEPT ![p] = held[p] \cup {a}] /\ Selects(p, a)
         \/ held' = [held EXCEPT ![p] = held[p]] /\ ~Selects(p, a)
      /\ job' = job /\ token' = token /\ linked' = linked /\ doing' = doing
      /\ WaitsFor(p) = {}
  BY DEF Lock
<1> HIDE DEF a
<1>3. LockTypes'
  <2>1. held' \in [Processes -> SUBSET Asks]
    <3>1. held \in [Processes -> SUBSET Asks] /\ held[p] \cup {a} \in SUBSET Asks
      BY <1>1 DEF LocksInv, LockTypes
    <3> QED
      BY <3>1, <1>2
  <2>2. plan' \in [Processes -> Seq(Asks)]
    BY <1>1, <1>2 DEF LocksInv, LockTypes
  <2> QED
    BY <2>1, <2>2, <1>2 DEF LocksInv, LockTypes
<1>4. Exclusive'
  <2> SUFFICES ASSUME NEW q \in Processes, NEW q2 \in Processes, q # q2,
                      NEW b \in held'[q], NEW c \in held'[q2],
                      b.table = c.table, b.id = c.id, Conflicting(b.mode, c.mode)
               PROVE  FALSE
    BY DEF Exclusive
  <2>1. Conflicting(c.mode, b.mode)
    BY DEF Conflicting
  <2>2. /\ \A x \in Processes : x # p => held'[x] = held[x]
        /\ held'[p] \subseteq held[p] \cup {a}
        /\ held'[p] # held[p] => Selects(p, a)
    BY <1>2 DEF LocksInv, LockTypes
  <2>3. ASSUME NEW x \in Processes, x # p, NEW e \in held[x], Selects(p, a),
               e.table = a.table, e.id = a.id, Conflicting(e.mode, a.mode)
        PROVE  FALSE
    BY <2>3, <1>1, <1>2 DEF WaitsFor, a
  <2>4. CASE b \in held[q] /\ c \in held[q2]
    BY <2>4 DEF LocksInv, Exclusive
  <2>5. CASE b \notin held[q]
    BY <2>5, <2>1, <2>2, <2>3
  <2>6. CASE c \notin held[q2]
    BY <2>6, <2>1, <2>2, <2>3
  <2> QED
    BY <2>4, <2>5, <2>6
<1>5. Shaped'
  <2> SUFFICES ASSUME NEW q \in Processes
               PROVE  Shape(q, doing'[q], plan'[q], held'[q], linked')
    BY DEF Shaped
  <2>1. Shape(q, doing[q], plan[q], held[q], linked)
    BY DEF LocksInv, Shaped
  <2>2. CASE q = p
    <3>1. plan'[p] = Tail(plan[p]) /\ doing'[p] = doing[p] /\ linked' = linked
      BY <1>2 DEF LocksInv, LockTypes
    <3>2. \/ /\ held'[p] = held[p] \cup {a}
             /\ a.table = "receipt" =>
                  a.id \in linked \/ (doing[p][1] \in {"prune", "finish"} /\ doing[p][2] = a.id)
          \/ /\ held'[p] = held[p]
             /\ a.table = "token" => ~token
      BY <1>2 DEF LocksInv, LockTypes, Selects
    <3>3. token \in BOOLEAN /\ (linked # {} => token)
      BY DEF LocksInv, LockTypes
    <3> QED
      BY <2>1, <2>2, <3>1, <3>2, <3>3, <1>1, ShapeMoves
  <2>3. CASE q # p
    BY <2>1, <2>3, <1>2 DEF LocksInv, LockTypes
  <2> QED
    BY <2>2, <2>3
<1> QED
  BY <1>3, <1>4, <1>5 DEF LocksInv

\* A shape allows receipts to lose their links.
LEMMA ShapeOfFewer ==
  ASSUME NEW p, NEW t, NEW s, NEW h, NEW l, NEW k \in SUBSET l, Shape(p, t, s, h, l)
  PROVE  Shape(p, t, s, h, k)
<1>1. TokenFirstShape(t, s, h, l) => TokenFirstShape(t, s, h, k)
  BY DEF TokenFirstShape
<1> QED
  BY <1>1 DEF Shape

\* A transaction that is over holds nothing; the others lose no lock.
LEMMA OverKeeps ==
  ASSUME LocksInv, NEW p \in Processes, Over(p),
         job' \in [Reminders -> {"none", "open", "done", "gone"}],
         token' \in BOOLEAN, linked' \subseteq linked, linked' # {} => token'
  PROVE  LocksInv'
<1>1. /\ doing' = [doing EXCEPT ![p] = Idle]
      /\ plan' = [plan EXCEPT ![p] = <<>>]
      /\ held' = [held EXCEPT ![p] = {}]
  BY DEF Over
<1>2. LockTypes'
  <2>1. Idle \in Transactions \X (Reminders \cup Receipts \cup {Nothing})
    BY DEF Idle, Transactions
  <2> QED
    BY <1>1, <2>1 DEF LocksInv, LockTypes
<1>3. \A q \in Processes : held'[q] = IF q = p THEN {} ELSE held[q]
  BY <1>1 DEF LocksInv, LockTypes
<1>4. Exclusive'
  BY <1>3 DEF LocksInv, Exclusive
<1>5. Shaped'
  <2> SUFFICES ASSUME NEW q \in Processes
               PROVE  Shape(q, doing'[q], plan'[q], held'[q], linked')
    BY DEF Shaped
  <2>1. CASE q = p
    <3>1. doing'[q] = Idle /\ plan'[q] = <<>> /\ held'[q] = {}
      BY <2>1, <1>1 DEF LocksInv, LockTypes
    <3> QED
      BY <3>1 DEF Shape, Idle
  <2>2. CASE q # p
    <3>1. doing'[q] = doing[q] /\ plan'[q] = plan[q] /\ held'[q] = held[q]
      BY <2>2, <1>1 DEF LocksInv, LockTypes
    <3> QED
      BY <3>1, ShapeOfFewer DEF LocksInv, Shaped
  <2> QED
    BY <2>1, <2>2
<1> QED
  BY <1>2, <1>4, <1>5 DEF LocksInv

\* The seed goes on from its cascade to the jobs, with the locks it has.
LEMMA SweepKeeps ==
  ASSUME LocksInv, SeedSweep
  PROVE  LocksInv'
<1>1. Seed \in Processes
  BY DEF Processes
<1>2. PICK o \in Orders(SweepSees) : plan' = [plan EXCEPT ![Seed] = AskAll("job", o, "update")]
  BY DEF SeedSweep
<1>3. /\ doing[Seed][1] = "cascade"
      /\ doing' = [doing EXCEPT ![Seed] = <<"sweep", Nothing>>]
      /\ held' = held /\ job' = job /\ token' = token /\ linked' = linked
  BY DEF SeedSweep
<1>4. /\ AskAll("job", o, "update") \in Seq(Asks)
      /\ Rest(AskAll("job", o, "update")) \subseteq RowsOf("job", Reminders, "update")
  <2>1. SweepSees \subseteq Reminders
    BY DEF SweepSees
  <2>2. IsFiniteSet(SweepSees)
    BY <2>1, FiniteAssumption, FS_Subset
  <2>3. RowsOf("job", SweepSees, "update") \subseteq RowsOf("job", Reminders, "update")
    BY <2>1 DEF RowsOf
  <2>4. RowsOf("job", Reminders, "update") \subseteq Asks
    BY RowsAreAsks DEF Modes
  <2> QED
    BY <2>2, <2>3, <2>4, OneStatement
<1>5. LockTypes'
  BY <1>1, <1>2, <1>3, <1>4 DEF LocksInv, LockTypes, Transactions
<1>6. Exclusive'
  BY <1>3 DEF LocksInv, Exclusive
<1>7. Shaped'
  <2> SUFFICES ASSUME NEW q \in Processes
               PROVE  Shape(q, doing'[q], plan'[q], held'[q], linked')
    BY DEF Shaped
  <2>1. Shape(q, doing[q], plan[q], held[q], linked)
    BY DEF LocksInv, Shaped
  <2>2. CASE q = Seed
    <3>1. /\ doing'[Seed] = <<"sweep", Nothing>> /\ plan'[Seed] = AskAll("job", o, "update")
          /\ held'[Seed] = held[Seed]
      BY <1>1, <1>2, <1>3 DEF LocksInv, LockTypes
    <3>2. held[Seed] \subseteq RowsOf("reminder", Reminders, "update")
      BY <2>1, <2>2, <1>3 DEF Shape
    <3> QED
      BY <2>2, <3>1, <3>2, <1>4 DEF Shape
  <2>3. CASE q # Seed
    BY <2>1, <2>3, <1>1, <1>2, <1>3 DEF LocksInv, LockTypes
  <2> QED
    BY <2>2, <2>3
<1> QED
  BY <1>5, <1>6, <1>7 DEF LocksInv

\* What a commit writes, by type.
LEMMA CommitTypes ==
  ASSUME LocksInv, NEW p \in Processes, Commit(p)
  PROVE  /\ job' \in [Reminders -> {"none", "open", "done", "gone"}]
         /\ token' \in BOOLEAN /\ linked' \subseteq linked /\ (linked' # {} => token')
<1>1. /\ linked' = IF token' THEN linked ELSE {}
      /\ \A r \in Reminders : job'[r] \in {"open", "done", "gone", job[r]}
      /\ job' = [r \in Reminders |-> job'[r]]
  BY DEF Commit
<1>2. token' \in BOOLEAN
  BY DEF Commit, LocksInv, LockTypes
<1>3. \A r \in Reminders : job'[r] \in {"none", "open", "done", "gone"}
  BY <1>1 DEF LocksInv, LockTypes
<1> QED
  BY <1>1, <1>2, <1>3

\* The invariant of the locks is inductive.
LEMMA NextLocks ==
  LocksInv /\ [LocksNext]_lockVars => LocksInv'
<1> SUFFICES ASSUME LocksInv, [LocksNext]_lockVars
             PROVE  LocksInv'
  OBVIOUS
<1>1. CASE UNCHANGED lockVars
  BY <1>1 DEF lockVars, LocksInv, LockTypes, Exclusive, Shaped
<1>2. ASSUME NEW w \in Workers, NEW r \in Reminders, Record(w, r)
      PROVE  LocksInv'
  <2>1. w \in Processes
    BY DEF Processes
  <2> QED
    BY <1>2, <2>1, BeginShaped DEF Record
<1>3. ASSUME NEW s \in Schedulers, Materialize(s)
      PROVE  LocksInv'
  <2>1. s \in Processes
    BY DEF Processes
  <2> QED
    BY <1>3, <2>1, BeginShaped DEF Materialize
<1>4. ASSUME NEW s \in Schedulers, Enqueue(s)
      PROVE  LocksInv'
  <2>1. s \in Processes
    BY DEF Processes
  <2> DEFINE pending == {r \in Reminders : reminder[r] = "pending"}
  <2>2. pending \in SUBSET Reminders
    OBVIOUS
  <2>3. \E o \in Orders(pending) :
          Begin(s, <<"enqueue", Nothing>>, AskAll("reminder", o, "noKeyUpdate"))
    BY <1>4 DEF Enqueue
  <2> HIDE DEF pending
  <2> QED
    BY <2>1, <2>2, <2>3, BeginShaped
<1>5. ASSUME SeedCascade
      PROVE  LocksInv'
  <2>1. Seed \in Processes
    BY DEF Processes
  <2> DEFINE rows == {r \in Reminders : reminder[r] # "gone"}
  <2>2. rows \in SUBSET Reminders
    OBVIOUS
  <2>3. \E o \in Orders(rows) :
          Begin(Seed, <<"cascade", Nothing>>, AskAll("reminder", o, "update"))
    BY <1>5 DEF SeedCascade
  <2> HIDE DEF rows
  <2> QED
    BY <2>1, <2>2, <2>3, BeginShaped
<1>6. ASSUME NEW f \in Phones, SignOut(f) \/ RegisterToken(f)
      PROVE  LocksInv'
  <2>1. f \in Processes
    BY DEF Processes
  <2>2. CASE SignOut(f)
    BY <2>1, <2>2, BeginShaped DEF SignOut
  <2>3. CASE RegisterToken(f)
    BY <2>1, <2>3, BeginShaped DEF RegisterToken
  <2> QED
    BY <1>6, <2>2, <2>3
<1>7. ASSUME NEW q \in ReceiptPollers, NEW d \in Receipts, PollerFinishes(q, d)
      PROVE  LocksInv'
  <2>1. q \in Processes
    BY DEF Processes
  <2> QED
    BY <1>7, <2>1, BeginShaped DEF PollerFinishes
<1>8. ASSUME NEW p \in Processes, Commit(p)
      PROVE  LocksInv'
  <2>1. Over(p)
    BY <1>8 DEF Commit
  <2> QED
    BY <1>8, <2>1, CommitTypes, OverKeeps
<1>9. ASSUME NEW p \in Processes, Abort(p)
      PROVE  LocksInv'
  BY <1>9, OverKeeps DEF Abort, LocksInv, LockTypes
<1> QED
  BY <1>1, <1>2, <1>3, <1>4, <1>5, <1>6, <1>7, <1>8, <1>9, SweepKeeps, LockKeeps DEF LocksNext

\* One scheduler is in no cycle, for what it asks for only another scheduler or
\* the seed holds against it: a worker that still waits has FOR KEY SHARE of a
\* reminder at most.  Then nobody waits for a receipt (two would have the
\* token), nor for a reminder, the token or a job in turn.
LEMMA NoOtherCycles == LocksInv => CyclesNeedTheSeed
<1> SUFFICES ASSUME LocksInv, NEW S \in Deadlocks, Seed \notin S,
                    ~ \E s, t \in S \cap Schedulers : s # t
             PROVE  FALSE
  BY DEF CyclesNeedTheSeed
<1> DEFINE a(p) == Next1(p)
           Meets(p, q, b) ==
             /\ q # p /\ b \in held[q]
             /\ b.table = a(p).table /\ b.id = a(p).id /\ Conflicting(b.mode, a(p).mode)
<1>1. /\ S # {} /\ S \subseteq Processes
      /\ \A p \in S : /\ plan[p] # <<>> /\ Selects(p, a(p))
                      /\ \E q \in S, b \in Asks : Meets(p, q, b)
  <2>1. S # {} /\ S \subseteq Processes /\ \A p \in S : WaitsFor(p) \cap S # {}
    BY DEF Deadlocks
  <2>2. \A p \in S : plan[p] # <<>> /\ Selects(p, a(p))
    BY <2>1 DEF WaitsFor
  <2>3. \A p \in S : \E q \in S, b \in Asks : Meets(p, q, b)
    BY <2>1, <2>2 DEF WaitsFor, LocksInv, LockTypes
  <2> QED
    BY <2>1, <2>2, <2>3
<1>2. \A p \in S : /\ Shape(p, doing[p], plan[p], held[p], linked)
                   /\ doing[p][1] \in Transactions
                   /\ a(p) = Head(plan[p])
  BY <1>1 DEF LocksInv, LockTypes, Shaped, Next1
<1>20. \A p \in S : a(p) \in Rest(plan[p])
  <2> SUFFICES ASSUME NEW p \in S
               PROVE  a(p) \in Rest(plan[p])
    OBVIOUS
  <2>1. plan[p] \in Seq(Asks) /\ plan[p] # <<>>
    BY <1>1 DEF LocksInv, LockTypes
  <2>2. Head(plan[p]) \in Rest(plan[p])
    BY <2>1, RestOfTail
  <2> QED
    BY <2>2 DEF Next1
<1> HIDE DEF a
<1>3. \A p \in S : doing[p][1] \notin {"idle", "cascade", "sweep"}
  BY <1>1, <1>2 DEF Shape
<1>4. \A p, q \in S : p \in Schedulers /\ q \in Schedulers => p = q
  OBVIOUS
\* Whoever has taken its only lock, or the last of a record, asks for no more.
<1>5. \A p \in S : doing[p][1] \in {"register", "finish"} => held[p] = {}
  BY <1>1, <1>2 DEF Shape, SingleShape
<1>6. ASSUME NEW p \in S, doing[p][1] \in {"complete", "retry"}
      PROVE  /\ \A b \in held[p] : \/ b.table = "job" /\ b.mode = "update"
                                   \/ b.table = "reminder" /\ b.mode = "keyShare"
                                   \/ b.table = "token" /\ b.mode = "keyShare"
             /\ \/ a(p).table = "job" /\ held[p] = {}
                \/ a(p).table = "reminder" /\ a(p).mode \in {"keyShare", "noKeyUpdate"}
                \/ a(p).table = "token" /\ a(p).mode = "keyShare"
             /\ (\E b \in held[p] : b.table = "token") => a(p).table = "reminder"
  <2> DEFINE r == doing[p][2]
             J == Ask("job", r, "update")
             K == Ask("reminder", r, "keyShare")
             T == Ask("token", 1, "keyShare")
             N == Ask("reminder", r, "noKeyUpdate")
  <2>1. \/ a(p) = J /\ held[p] = {}
        \/ a(p) = K /\ held[p] \subseteq {J}
        \/ a(p) = T /\ held[p] \subseteq {J, K}
        \/ a(p) = N /\ held[p] \subseteq {J, K, T}
    <3>1. RecordShape(r, plan[p], held[p])
      BY <1>2, <1>6 DEF Shape
    <3>2. plan[p] # <<>> /\ a(p) = Head(plan[p])
      BY <1>1, <1>2
    <3> QED
      BY <3>1, <3>2, RecordMoves, ZenonT(60)
  <2>2. /\ J.table = "job" /\ J.mode = "update"
        /\ K.table = "reminder" /\ K.mode = "keyShare"
        /\ T.table = "token" /\ T.mode = "keyShare"
        /\ N.table = "reminder" /\ N.mode = "noKeyUpdate"
    BY AskFields
  <2> HIDE DEF J, K, T, N
  <2> QED
    BY <2>1, <2>2
<1>7. \A p \in S : /\ doing[p][1] = "materialize" =>
                        /\ p \in Schedulers /\ a(p).table = "day"
                        /\ \A b \in held[p] : b.table = "day"
                   /\ doing[p][1] = "enqueue" =>
                        /\ p \in Schedulers /\ a(p).table = "reminder" /\ a(p).mode = "noKeyUpdate"
                        /\ \A b \in held[p] : b.table = "reminder" /\ b.mode = "noKeyUpdate"
  <2>1. \A table, ids, mode : \A b \in RowsOf(table, ids, mode) : b.table = table /\ b.mode = mode
    BY AskFields DEF RowsOf
  <2> QED
    BY <1>2, <1>20, <2>1 DEF Shape
\* A sign-out and a prune that wait for a receipt have the token.
<1>8. ASSUME NEW p \in S, doing[p][1] \in {"remove", "prune"}
      PROVE  \/ a(p).table = "token" /\ held[p] = {}
             \/ /\ a(p).table = "receipt" /\ TokenRow \in held[p]
                /\ \A b \in held[p] : b.table \in {"token", "receipt"}
             \/ a(p).table = "receipt" /\ held[p] = {}
  <2>1. TokenFirstShape(doing[p], plan[p], held[p], linked)
    BY <1>2, <1>8 DEF Shape
  <2>2. \A b \in ReceiptRows : b.table = "receipt" /\ b = Ask("receipt", b.id, "noKeyUpdate")
    BY AskFields DEF ReceiptRows, RowsOf
  <2>3. TokenRow.table = "token"
    BY AskFields DEF TokenRow
  <2>4. CASE Head(plan[p]) = TokenRow /\ held[p] = {}
    BY <2>4, <2>3, <1>2
  <2>5. CASE /\ Rest(plan[p]) \subseteq ReceiptRows
             /\ held[p] \subseteq ReceiptRows \cup {TokenRow}
             /\ TokenRow \notin held[p] =>
                  /\ linked = {}
                  /\ held[p] # {} => /\ doing[p][1] = "prune"
                                     /\ Ask("receipt", doing[p][2], "noKeyUpdate") \notin Rest(plan[p])
    <3>1. a(p) \in ReceiptRows
      BY <2>5, <1>20
    <3>2. CASE TokenRow \in held[p]
      BY <3>1, <3>2, <2>5, <2>2, <2>3
    <3>3. CASE TokenRow \notin held[p] /\ held[p] # {}
      <4>1. linked = {} /\ a(p).id # doing[p][2]
        BY <2>5, <3>1, <3>3, <2>2, <1>20
      <4>2. ~Selects(p, a(p))
        BY <4>1, <3>1, <2>2 DEF Selects
      <4> QED
        BY <4>2, <1>1
    <3> QED
      BY <3>1, <3>2, <3>3, <2>2
  <2> QED
    BY <2>1, <2>4, <2>5 DEF TokenFirstShape
<1>9. Transactions = {"idle", "complete", "retry", "materialize", "enqueue", "cascade", "sweep",
                      "remove", "register", "prune", "finish"}
  BY DEF Transactions
\* Nobody in it is a scheduler's.
<1>10. ASSUME NEW p \in S
       PROVE  doing[p][1] \notin {"materialize", "enqueue"}
  <2> SUFFICES ASSUME doing[p][1] \in {"materialize", "enqueue"}
               PROVE  FALSE
    OBVIOUS
  <2>1. PICK q \in S, b \in Asks : Meets(p, q, b)
    BY <1>1
  <2>2. doing[q][1] \in {"materialize", "enqueue"} => FALSE
    BY <2>1, <1>4, <1>7
  <2>3. doing[q][1] \in {"complete", "retry"} => FALSE
    BY <2>1, <1>6, <1>7 DEF Conflicting
  <2>4. doing[q][1] \in {"register", "finish"} => FALSE
    BY <2>1, <1>5
  <2>5. doing[q][1] \in {"remove", "prune"} => FALSE
    BY <2>1, <1>7, <1>8
  <2> QED
    BY <2>2, <2>3, <2>4, <2>5, <1>2, <1>3, <1>9
\* Nobody in it waits for a receipt: two would have the token.
<1>11. ASSUME NEW p \in S, a(p).table = "receipt"
       PROVE  FALSE
  <2>1. ASSUME NEW x \in S, a(x).table = "receipt"
        PROVE  \E y \in S : y # x /\ TokenRow \in held[y] /\ a(y).table = "receipt"
    <3>1. PICK y \in S, b \in Asks : Meets(x, y, b)
      BY <1>1, <2>1
    <3>2. b.table = "receipt"
      BY <3>1, <2>1
    <3>3. doing[y][1] \in {"remove", "prune"}
      BY <3>1, <3>2, <1>2, <1>3, <1>5, <1>6, <1>9, <1>10
    <3> QED
      BY <3>1, <3>2, <3>3, <1>8
  <2>2. PICK q \in S : TokenRow \in held[q] /\ a(q).table = "receipt"
    BY <2>1, <1>11
  <2>3. PICK x \in S : x # q /\ TokenRow \in held[x]
    BY <2>1, <2>2
  <2>4. \A b \in held[x], c \in held[q] :
          b.table = c.table /\ b.id = c.id => ~Conflicting(b.mode, c.mode)
    BY <2>3, <1>1 DEF LocksInv, Exclusive
  <2>5. Conflicting(TokenRow.mode, TokenRow.mode)
    BY AskFields DEF Conflicting, TokenRow
  <2> QED
    BY <2>2, <2>3, <2>4, <2>5
\* Nor for a reminder: another worker that waits shares it.
<1>12. ASSUME NEW p \in S, a(p).table = "reminder"
       PROVE  FALSE
  <2>1. doing[p][1] \in {"complete", "retry"}
    BY <1>12, <1>2, <1>3, <1>8, <1>9, <1>10, <1>5, <1>1, AskFields DEF Shape, SingleShape
  <2>2. PICK q \in S, b \in Asks : Meets(p, q, b)
    BY <1>1
  <2>3. doing[q][1] \in {"complete", "retry"}
    BY <2>2, <1>12, <1>2, <1>3, <1>5, <1>8, <1>9, <1>10
  <2> QED
    BY <2>1, <2>2, <2>3, <1>6, <1>12 DEF Conflicting
\* Nor for the token: whoever has it waits for a receipt or a reminder.
<1>13. ASSUME NEW p \in S, a(p).table = "token"
       PROVE  FALSE
  <2>1. PICK q \in S, b \in Asks : Meets(p, q, b)
    BY <1>1
  <2>2. b.table = "token"
    BY <2>1, <1>13
  <2>3. doing[q][1] \notin {"complete", "retry"}
    BY <2>1, <2>2, <1>6, <1>12
  <2>4. doing[q][1] \in {"remove", "prune"}
    BY <2>1, <2>3, <1>2, <1>3, <1>5, <1>9, <1>10
  <2> QED
    BY <2>1, <2>2, <2>4, <1>8, <1>11
\* Nor for a job: its holder is past its own.
<1>14. ASSUME NEW p \in S, a(p).table = "job"
       PROVE  FALSE
  <2>1. PICK q \in S, b \in Asks : Meets(p, q, b)
    BY <1>1
  <2>2. b.table = "job"
    BY <2>1, <1>14
  <2>3. doing[q][1] \in {"complete", "retry"}
    BY <2>1, <2>2, <1>2, <1>3, <1>5, <1>8, <1>9, <1>10
  <2>4. a(q).table # "job"
    BY <2>1, <2>3, <1>6
  <2> QED
    BY <2>3, <2>4, <1>6, <1>12, <1>13
<1>15. PICK p \in S : TRUE
  BY <1>1
<1>16. CASE doing[p][1] \in {"complete", "retry"}
  BY <1>16, <1>6, <1>12, <1>13, <1>14
<1>17. CASE doing[p][1] \in {"remove", "prune"}
  BY <1>17, <1>8, <1>11, <1>13
<1>18. CASE doing[p][1] \in {"register", "finish"}
  <2>1. a(p).table \in {"token", "receipt"}
    <3>1. PICK c : SingleShape(c, plan[p], held[p]) /\ c.table \in {"token", "receipt"}
      BY <1>18, <1>2, AskFields DEF Shape
    <3>2. plan[p] = <<c>>
      BY <3>1, <1>1 DEF SingleShape
    <3>3. a(p) = c
      BY <3>2, <1>2
    <3> QED
      BY <3>1, <3>3
  <2> QED
    BY <2>1, <1>11, <1>13
<1> QED
  BY <1>16, <1>17, <1>18, <1>2, <1>3, <1>9, <1>10

\* Workers, pollers, sign-outs, registrations and one scheduler, however many
\* and in whatever order they lock, never wait for one another in a cycle: every
\* deadlock has the re-seed in it, or two schedulers.
THEOREM CyclesAlwaysNeedTheSeed ==
  LocksSpec => []CyclesNeedTheSeed
  BY InitLocks, NextLocks, NoOtherCycles, PTL DEF LocksSpec

\* A seed that has begun its sweep is alone with every reminder there is.
LEMMA SeedHasAll ==
  ASSUME SweepInv, doing[Seed][1] = "sweep", NEW p \in Processes, p # Seed,
         NEW r \in Reminders, NEW m \in Modes, Ask("reminder", r, m) \in held[p]
  PROVE  reminder[r] = "gone"
<1> SUFFICES ASSUME reminder[r] # "gone"
             PROVE  FALSE
  OBVIOUS
<1>1. Ask("reminder", r, "update") \in held[Seed]
  BY DEF SweepInv, SeedSees
<1>2. Seed \in Processes
  BY DEF Processes
<1> QED
  BY <1>1, <1>2, AskFields DEF SweepInv, LocksInv, Exclusive, Conflicting

\* The rows a process has locked in a mode.
LEMMA HeldRows ==
  ASSUME LocksInv, NEW p \in Processes, NEW table, NEW mode, NEW i
  PROVE  i \in Holds(p, table, mode) <=> Ask(table, i, mode) \in held[p]
<1>1. \A h \in held[p] : h = [table |-> h.table, id |-> h.id, mode |-> h.mode]
  BY DEF LocksInv, LockTypes, Asks
<1> QED
  BY <1>1 DEF Holds, Ask

\* The seed has begun nothing.
LEMMA InitSweep == LocksInit => SweepInv
<1> SUFFICES ASSUME LocksInit  PROVE SweepInv
  OBVIOUS
<1>1. LocksInv
  BY InitLocks
<1>2. SeedSees
  BY DEF LocksInit, SeedSees, Idle, Processes
<1>3. StillSelected
  BY DEF LocksInit, StillSelected
<1>4. NoOrphanJobs
  BY DEF LocksInit, NoOrphanJobs
<1> QED
  BY <1>1, <1>2, <1>3, <1>4 DEF SweepInv

\* The rows do not change when a transaction begins.
LEMMA BeginSweep ==
  ASSUME SweepInv, LocksInv', NEW p \in Processes, NEW t, NEW s, Begin(p, t, s),
         t[1] # "sweep",
         t[1] = "cascade" => \A r \in Reminders : reminder[r] # "gone" =>
                               Ask("reminder", r, "update") \in Rest(s),
         sees' = sees \/ p = Seed
  PROVE  SweepInv'
<1>1. /\ doing' = [doing EXCEPT ![p] = t] /\ plan' = [plan EXCEPT ![p] = s]
      /\ held' = held /\ reminder' = reminder /\ job' = job /\ doing[p] = Idle
  BY DEF Begin
<1>2. held[p] = {}
  BY <1>1 DEF SweepInv, LocksInv, Shaped, Shape, Idle
<1>3. \A q \in Processes : /\ q # p => doing'[q] = doing[q] /\ plan'[q] = plan[q]
                           /\ q = p => doing'[q] = t /\ plan'[q] = s
  BY <1>1 DEF SweepInv, LocksInv, LockTypes
<1>4. SeedSees'
  <2>1. Seed \in Processes
    BY DEF Processes
  <2>2. CASE p = Seed
    BY <2>1, <2>2, <1>1, <1>3 DEF SeedSees
  <2>3. CASE p # Seed
    <3>1. /\ doing'[Seed] = doing[Seed] /\ plan'[Seed] = plan[Seed] /\ held' = held
          /\ sees' = sees /\ reminder' = reminder /\ job' = job
      BY <2>1, <2>3, <1>1, <1>3
    <3> QED
      BY <3>1 DEF SweepInv, SeedSees
  <2> QED
    BY <2>2, <2>3
<1>5. StillSelected'
  BY <1>1, <1>2, <1>3 DEF SweepInv, StillSelected
<1>6. NoOrphanJobs'
  BY <1>1 DEF SweepInv, NoOrphanJobs
<1> QED
  BY <1>4, <1>5, <1>6 DEF SweepInv

\* What the predicates of the transactions say of a row.
LEMMA SelectsRows ==
  ASSUME NEW p, NEW r
  PROVE  /\ Selects(p, Ask("job", r, "update")) <=> job[r] \in {"open", "done"}
         /\ doing[p][1] # "enqueue" =>
              /\ Selects(p, Ask("reminder", r, "update")) <=> reminder[r] # "gone"
              /\ Selects(p, Ask("reminder", r, "noKeyUpdate")) <=> reminder[r] = "queued"
         /\ doing[p][1] = "enqueue" =>
              (Selects(p, Ask("reminder", r, "noKeyUpdate")) <=> reminder[r] = "pending")
<1>1. ASSUME NEW a, a.table = "job", a.id = r
      PROVE  Selects(p, a) <=> job[r] \in {"open", "done"}
  BY <1>1 DEF Selects
<1>2. ASSUME NEW a, a.table = "reminder", a.id = r
      PROVE  /\ doing[p][1] = "enqueue" => (Selects(p, a) <=> reminder[r] = "pending")
             /\ doing[p][1] # "enqueue" /\ a.mode = "noKeyUpdate"
                => (Selects(p, a) <=> reminder[r] = "queued")
             /\ doing[p][1] # "enqueue" /\ a.mode = "update"
                => (Selects(p, a) <=> reminder[r] # "gone")
  BY <1>2 DEF Selects, StillPending
<1>3. /\ Ask("job", r, "update").table = "job" /\ Ask("job", r, "update").id = r
      /\ \A m : /\ Ask("reminder", r, m).table = "reminder"
               /\ Ask("reminder", r, m).id = r /\ Ask("reminder", r, m).mode = m
  BY AskFields
<1> QED
  BY <1>1, <1>2, <1>3

\* A lock that is granted is of a row the predicate selects; what the seed
\* asks for is there until it has it.
LEMMA LockSweep ==
  ASSUME SweepInv, LocksInv', NEW p \in Processes, Lock(p)
  PROVE  SweepInv'
<1> DEFINE a == Next1(p)
<1>1. /\ plan[p] \in Seq(Asks) /\ plan[p] # <<>> /\ a \in Asks
      /\ Rest(plan[p]) = {a} \cup Rest(Tail(plan[p]))
  BY RestOfTail DEF SweepInv, LocksInv, LockTypes, Lock, Next1
<1>2. /\ plan' = [plan EXCEPT ![p] = Tail(plan[p])]
      /\ \/ held' = [held EXCEPT ![p] = held[p] \cup {a}] /\ Selects(p, a)
         \/ held' = [held EXCEPT ![p] = held[p]] /\ ~Selects(p, a)
      /\ job' = job /\ reminder' = reminder /\ doing' = doing /\ sees' = sees
  BY DEF Lock
<1> HIDE DEF a
<1>3. \A q \in Processes : q # p => plan'[q] = plan[q] /\ held'[q] = held[q]
  BY <1>2 DEF SweepInv, LocksInv, LockTypes
<1>4. /\ plan'[p] = Tail(plan[p])
      /\ \/ held'[p] = held[p] \cup {a} /\ Selects(p, a)
         \/ held'[p] = held[p] /\ ~Selects(p, a)
  BY <1>2 DEF SweepInv, LocksInv, LockTypes
<1>5. SeedSees'
  <2>1. Seed \in Processes
    BY DEF Processes
  <2>2. CASE p # Seed
    <3>1. plan'[Seed] = plan[Seed] /\ held'[Seed] = held[Seed]
      BY <2>1, <2>2, <1>3
    <3> QED
      BY <3>1, <1>2 DEF SweepInv, SeedSees
  <2>3. CASE p = Seed
    <3>1. ASSUME NEW b, b \in Rest(plan[p]) \cup held[p], b = a => Selects(p, a)
          PROVE  b \in Rest(plan'[p]) \cup held'[p]
      BY <3>1, <1>1, <1>4
    <3>2. held[p] \subseteq held'[p]
      BY <1>4
    <3>3. ASSUME doing[p][1] = "cascade", NEW r \in Reminders, reminder[r] # "gone"
          PROVE  Ask("reminder", r, "update") \in Rest(plan'[p]) \cup held'[p]
      <4>1. Ask("reminder", r, "update") \in Rest(plan[p]) \cup held[p]
        BY <2>3, <3>3 DEF SweepInv, SeedSees
      <4>2. Selects(p, Ask("reminder", r, "update"))
        BY <3>3, SelectsRows
      <4> QED
        BY <4>1, <4>2, <3>1
    <3>4. ASSUME doing[p][1] = "sweep", NEW r \in sees
          PROVE  Ask("job", r, "update") \in Rest(plan'[p]) \cup held'[p]
      <4>1. /\ Ask("job", r, "update") \in Rest(plan[p]) \cup held[p]
            /\ job[r] \in {"open", "done"}
        BY <2>3, <3>4 DEF SweepInv, SeedSees
      <4>2. Selects(p, Ask("job", r, "update"))
        BY <4>1, SelectsRows
      <4> QED
        BY <4>1, <4>2, <3>1
    <3> QED
      BY <2>3, <1>2, <3>2, <3>3, <3>4 DEF SweepInv, SeedSees
  <2> QED
    BY <2>2, <2>3
<1>6. StillSelected'
  <2> SUFFICES ASSUME NEW q \in Processes, NEW r \in Reminders
               PROVE  /\ doing[q][1] = "enqueue" /\ Ask("reminder", r, "noKeyUpdate") \in held'[q]
                           => reminder[r] = "pending"
                      /\ doing[q][1] \in {"complete", "retry"} =>
                           /\ Ask("reminder", r, "noKeyUpdate") \in held'[q] => reminder[r] = "queued"
                           /\ Ask("job", r, "update") \in held'[q] => job[r] \in {"open", "done"}
    BY <1>2 DEF StillSelected
  <2>1. CASE held'[q] = held[q]
    BY <2>1 DEF SweepInv, StillSelected
  <2>2. CASE held'[q] # held[q]
    <3>1. q = p /\ held'[p] = held[p] \cup {a} /\ Selects(p, a)
      BY <2>2, <1>3, <1>4
    <3>2. doing[p][1] = "enqueue" /\ a = Ask("reminder", r, "noKeyUpdate")
          => reminder[r] = "pending"
      BY <3>1, SelectsRows
    <3>3. doing[p][1] \in {"complete", "retry"} =>
            /\ a = Ask("reminder", r, "noKeyUpdate") => reminder[r] = "queued"
            /\ a = Ask("job", r, "update") => job[r] \in {"open", "done"}
      BY <3>1, SelectsRows
    <3> QED
      BY <3>1, <3>2, <3>3 DEF SweepInv, StillSelected
  <2> QED
    BY <2>1, <2>2
<1>7. NoOrphanJobs'
  BY <1>2 DEF SweepInv, NoOrphanJobs
<1> QED
  BY <1>5, <1>6, <1>7 DEF SweepInv

\* What a commit changes of a reminder and its job, it has locked.
LEMMA CommitRows ==
  ASSUME SweepInv, NEW p \in Processes, Commit(p), NEW r \in Reminders
  PROVE  /\ reminder'[r] # reminder[r] =>
              \E m \in {"noKeyUpdate", "update"} : Ask("reminder", r, m) \in held[p]
         /\ reminder[r] = "gone" => reminder'[r] = "gone"
         /\ job'[r] \in {job[r], "open", "done"} \/ Ask("job", r, "update") \in held[p]
         /\ job'[r] # job[r] =>
              \/ doing[p][1] = "enqueue" /\ Ask("reminder", r, "noKeyUpdate") \in held[p]
              \/ job[r] \in {"open", "done"} /\ job'[r] \in {"open", "done"}
              \/ doing[p][1] = "sweep"
<1> DEFINE what == doing[p][1]
           moved == r \in Holds(p, "reminder", "noKeyUpdate")
<1>1. /\ reminder'[r] = CASE what = "enqueue" /\ moved -> "queued"
                          [] what = "complete" /\ moved -> "decided"
                          [] what = "sweep" /\ r \in Holds(p, "reminder", "update") -> "gone"
                          [] OTHER -> reminder[r]
      /\ job'[r] = CASE what = "enqueue" /\ moved -> "open"
                     [] what = "complete" /\ r \in Holds(p, "job", "update") -> "done"
                     [] what = "sweep" /\ r \in sees /\ r \in Holds(p, "job", "update") -> "gone"
                     [] OTHER -> job[r]
  BY DEF Commit
<1>2. \A table, mode : r \in Holds(p, table, mode) <=> Ask(table, r, mode) \in held[p]
  BY HeldRows DEF SweepInv
<1>3. /\ what = "enqueue" /\ moved => reminder[r] = "pending"
      /\ what = "complete" /\ moved => reminder[r] = "queued"
      /\ what = "complete" /\ r \in Holds(p, "job", "update") => job[r] \in {"open", "done"}
  BY <1>2 DEF SweepInv, StillSelected
<1> HIDE DEF what, moved
<1>4. CASE what = "enqueue"
  BY <1>4, <1>1, <1>2, <1>3 DEF what, moved
<1>5. CASE what = "complete"
  BY <1>5, <1>1, <1>2, <1>3 DEF what, moved
<1>6. CASE what = "sweep"
  BY <1>6, <1>1, <1>2 DEF what
<1>7. CASE what \notin {"enqueue", "complete", "sweep"}
  BY <1>7, <1>1
<1> QED
  BY <1>4, <1>5, <1>6, <1>7

\* The other processes' locks, and what they were granted for, outlast it.
LEMMA OverSweep ==
  ASSUME SweepInv, LocksInv', NEW p \in Processes, Over(p),
         sees' = IF p = Seed THEN {} ELSE sees,
         NoOrphanJobs',
         \A r \in Reminders :
           /\ reminder'[r] # reminder[r] =>
                \E m \in {"noKeyUpdate", "update"} : Ask("reminder", r, m) \in held[p]
           /\ reminder[r] = "gone" => reminder'[r] = "gone"
           /\ job'[r] \in {job[r], "open", "done"} \/ Ask("job", r, "update") \in held[p]
           /\ p # Seed /\ doing[Seed][1] = "sweep"
              => (job'[r] \in {"open", "done"} <=> job[r] \in {"open", "done"})
  PROVE  SweepInv'
<1>1. /\ doing' = [doing EXCEPT ![p] = Idle]
      /\ plan' = [plan EXCEPT ![p] = <<>>]
      /\ held' = [held EXCEPT ![p] = {}]
  BY DEF Over
<1>2. \A q \in Processes :
        /\ q # p => doing'[q] = doing[q] /\ plan'[q] = plan[q] /\ held'[q] = held[q]
        /\ q = p => doing'[q] = Idle /\ held'[q] = {}
  BY <1>1 DEF SweepInv, LocksInv, LockTypes
<1>3. Seed \in Processes
  BY DEF Processes
<1>4. SeedSees'
  <2>1. CASE p = Seed
    BY <2>1, <1>2, <1>3 DEF SeedSees, Idle
  <2>2. CASE p # Seed
    <3>1. /\ doing'[Seed] = doing[Seed] /\ plan'[Seed] = plan[Seed] /\ held'[Seed] = held[Seed]
          /\ sees' = sees
      BY <2>2, <1>2, <1>3
    <3>2. \A r \in Reminders : reminder'[r] # "gone" => reminder[r] # "gone"
      OBVIOUS
    <3>3. CASE doing[Seed][1] = "cascade"
      BY <3>1, <3>2, <3>3 DEF SweepInv, SeedSees
    <3>4. CASE doing[Seed][1] = "sweep"
      <4>1. {r \in Reminders : job'[r] \in {"open", "done"}}
              = {r \in Reminders : job[r] \in {"open", "done"}}
        BY <2>2, <3>4
      <4> QED
        BY <4>1, <3>1, <3>2, <3>4 DEF SweepInv, SeedSees
    <3> QED
      BY <3>1, <3>3, <3>4 DEF SeedSees
  <2> QED
    BY <2>1, <2>2
<1>5. StillSelected'
  <2> SUFFICES ASSUME NEW q \in Processes, NEW r \in Reminders
               PROVE  /\ doing'[q][1] = "enqueue" /\ Ask("reminder", r, "noKeyUpdate") \in held'[q]
                           => reminder'[r] = "pending"
                      /\ doing'[q][1] \in {"complete", "retry"} =>
                           /\ Ask("reminder", r, "noKeyUpdate") \in held'[q] => reminder'[r] = "queued"
                           /\ Ask("job", r, "update") \in held'[q] => job'[r] \in {"open", "done"}
    BY DEF StillSelected
  <2>1. CASE q = p
    BY <2>1, <1>2
  <2>2. CASE q # p
    <3>1. doing'[q] = doing[q] /\ held'[q] = held[q]
      BY <2>2, <1>2
    <3>2. \A b \in held[q], c \in held[p] :
            b.table = c.table /\ b.id = c.id => ~Conflicting(b.mode, c.mode)
      BY <2>2 DEF SweepInv, LocksInv, Exclusive
    <3>3. Ask("reminder", r, "noKeyUpdate") \in held[q] => reminder'[r] = reminder[r]
      BY <3>2, AskFields DEF Conflicting
    <3>4. Ask("job", r, "update") \in held[q] => job'[r] \in {job[r], "open", "done"}
      BY <3>2, AskFields DEF Conflicting
    <3> QED
      BY <3>1, <3>3, <3>4 DEF SweepInv, StillSelected
  <2> QED
    BY <2>1, <2>2
<1> QED
  BY <1>4, <1>5 DEF SweepInv

\* A commit queues what it locked pending, decides what it locked queued, and
\* the seed's deletes jobs and reminders together.
LEMMA CommitSweep ==
  ASSUME SweepInv, LocksInv', NEW p \in Processes, Commit(p)
  PROVE  SweepInv'
<1>1. /\ Over(p) /\ sees' = (IF p = Seed THEN {} ELSE sees)
      /\ plan[p] = <<>> /\ doing[p][1] # "cascade"
  BY DEF Commit
<1>2. Shape(p, doing[p], plan[p], held[p], linked)
  BY DEF SweepInv, LocksInv, Shaped
<1>3. NoOrphanJobs'
  <2> SUFFICES ASSUME NEW r \in Reminders, reminder'[r] = "gone"
               PROVE  job'[r] \in {"none", "gone"}
    BY DEF NoOrphanJobs
  <2>1. job[r] \in {"none", "open", "done", "gone"}
    BY DEF SweepInv, LocksInv, LockTypes
  <2>2. CASE doing[p][1] = "sweep"
    <3>1. p = Seed
      BY <1>2, <2>2 DEF Shape
    <3>2. Rest(plan[p]) = {}
      BY <1>1 DEF Rest
    <3>3. r \in sees => r \in Holds(p, "job", "update")
      BY <2>2, <3>1, <3>2, HeldRows DEF SweepInv, SeedSees
    <3>4. job[r] \in {"open", "done"} => r \in sees
      BY <2>2, <3>1 DEF SweepInv, SeedSees
    <3>5. job'[r] = IF r \in sees /\ r \in Holds(p, "job", "update") THEN "gone" ELSE job[r]
      BY <2>2 DEF Commit
    <3> QED
      BY <2>1, <3>3, <3>4, <3>5
  <2>3. CASE doing[p][1] # "sweep"
    <3>1. reminder[r] = "gone"
      BY <2>3 DEF Commit
    <3>2. job[r] \in {"none", "gone"}
      BY <3>1 DEF SweepInv, NoOrphanJobs
    <3>3. ~(doing[p][1] = "enqueue" /\ Ask("reminder", r, "noKeyUpdate") \in held[p])
      BY <3>1 DEF SweepInv, StillSelected
    <3> QED
      BY <2>3, <3>2, <3>3, CommitRows
  <2> QED
    BY <2>2, <2>3
<1>4. ASSUME NEW r \in Reminders, p # Seed, doing[Seed][1] = "sweep"
      PROVE  job'[r] \in {"open", "done"} <=> job[r] \in {"open", "done"}
  <2>1. doing[p][1] # "sweep"
    BY <1>2, <1>4 DEF Shape
  <2>2. ~(doing[p][1] = "enqueue" /\ Ask("reminder", r, "noKeyUpdate") \in held[p])
    <3> SUFFICES ASSUME doing[p][1] = "enqueue", Ask("reminder", r, "noKeyUpdate") \in held[p]
                 PROVE  FALSE
      OBVIOUS
    <3>1. reminder[r] = "pending"
      BY DEF SweepInv, StillSelected
    <3> QED
      BY <3>1, <1>4, SeedHasAll DEF Modes
  <2> QED
    BY <2>1, <2>2, CommitRows
<1> QED
  BY <1>1, <1>3, <1>4, CommitRows, OverSweep

\* With every reminder locked no job is opened: the sweep lists all there are.
LEMMA SeedSweepKeeps ==
  ASSUME SweepInv, LocksInv', SeedSweep
  PROVE  SweepInv'
<1>1. Seed \in Processes
  BY DEF Processes
<1>2. PICK o \in Orders(SweepSees) : plan' = [plan EXCEPT ![Seed] = AskAll("job", o, "update")]
  BY DEF SeedSweep
<1>3. /\ doing[Seed][1] = "cascade" /\ plan[Seed] = <<>>
      /\ doing' = [doing EXCEPT ![Seed] = <<"sweep", Nothing>>]
      /\ sees' = SweepSees
      /\ held' = held /\ job' = job /\ reminder' = reminder
  BY DEF SeedSweep
<1>4. Rest(AskAll("job", o, "update")) = RowsOf("job", SweepSees, "update")
  <2>1. IsFiniteSet(SweepSees)
    BY FiniteAssumption, FS_Subset DEF SweepSees
  <2> QED
    BY <2>1, AskLists
<1>5. /\ doing'[Seed] = <<"sweep", Nothing>> /\ plan'[Seed] = AskAll("job", o, "update")
      /\ \A q \in Processes : q # Seed => doing'[q] = doing[q]
  BY <1>1, <1>2, <1>3 DEF SweepInv, LocksInv, LockTypes
<1>6. SeedSees'
  <2>1. \A r \in Reminders : reminder[r] # "gone" => Ask("reminder", r, "update") \in held[Seed]
    BY <1>3 DEF SweepInv, SeedSees, Rest
  <2>2. \A r \in SweepSees : Ask("job", r, "update") \in Rest(plan'[Seed])
    BY <1>4, <1>5 DEF RowsOf
  <2> QED
    BY <2>1, <2>2, <1>3, <1>5 DEF SeedSees, SweepSees
<1>7. StillSelected'
  <2>1. doing'[Seed][1] \notin {"enqueue", "complete", "retry"}
    BY <1>5
  <2> QED
    BY <2>1, <1>3, <1>5 DEF SweepInv, StillSelected
<1>8. NoOrphanJobs'
  BY <1>3 DEF SweepInv, NoOrphanJobs
<1> QED
  BY <1>6, <1>7, <1>8 DEF SweepInv

\* The invariant of the re-seed is inductive.
LEMMA NextSweep ==
  SweepInv /\ [LocksNext]_lockVars => SweepInv'
<1> SUFFICES ASSUME SweepInv, [LocksNext]_lockVars
             PROVE  SweepInv'
  OBVIOUS
<1>1. LocksInv'
  BY NextLocks DEF SweepInv
<1>2. CASE UNCHANGED lockVars
  BY <1>1, <1>2 DEF lockVars, SweepInv, SeedSees, StillSelected, NoOrphanJobs
<1>3. ASSUME NEW p \in Processes, NEW t, NEW s, Begin(p, t, s), UNCHANGED sees,
             t[1] \notin {"cascade", "sweep"}
      PROVE  SweepInv'
  BY <1>1, <1>3, BeginSweep
<1>4. ASSUME NEW w \in Workers, NEW r \in Reminders, Record(w, r)
      PROVE  SweepInv'
  <2>1. w \in Processes /\ UNCHANGED sees
    BY <1>4 DEF Processes, Record
  <2>2. /\ <<"complete", r>>[1] \notin {"cascade", "sweep"}
        /\ <<"retry", r>>[1] \notin {"cascade", "sweep"}
    OBVIOUS
  <2> QED
    BY <1>3, <1>4, <2>1, <2>2 DEF Record
<1>5. ASSUME NEW s \in Schedulers, Materialize(s) \/ Enqueue(s)
      PROVE  SweepInv'
  <2>1. s \in Processes /\ UNCHANGED sees
    BY <1>5 DEF Processes, Materialize, Enqueue
  <2>2. \E t, x : Begin(s, t, x) /\ t[1] \in {"materialize", "enqueue"}
    <3>1. \/ \E x : Begin(s, <<"materialize", Nothing>>, x)
          \/ \E x : Begin(s, <<"enqueue", Nothing>>, x)
      BY <1>5, Zenon DEF Materialize, Enqueue
    <3>2. /\ <<"materialize", Nothing>>[1] = "materialize"
          /\ <<"enqueue", Nothing>>[1] = "enqueue"
      OBVIOUS
    <3> QED
      BY <3>1, <3>2
  <2> QED
    BY <1>3, <2>1, <2>2
<1>6. CASE SeedCascade
  <2>1. Seed \in Processes
    BY DEF Processes
  <2> DEFINE rows == {r \in Reminders : reminder[r] # "gone"}
  <2>2. PICK o \in Orders(rows) :
          Begin(Seed, <<"cascade", Nothing>>, AskAll("reminder", o, "update"))
    BY <1>6 DEF SeedCascade
  <2>3. IsFiniteSet(rows)
    BY FiniteAssumption, FS_Subset
  <2>4. Rest(AskAll("reminder", o, "update")) = RowsOf("reminder", rows, "update")
    BY <2>3, AskLists
  <2>5. \A r \in Reminders : reminder[r] # "gone" =>
          Ask("reminder", r, "update") \in Rest(AskAll("reminder", o, "update"))
    BY <2>4 DEF RowsOf
  <2> QED
    BY <1>1, <2>1, <2>2, <2>5, BeginSweep
<1>7. ASSUME NEW f \in Phones, SignOut(f) \/ RegisterToken(f)
      PROVE  SweepInv'
  <2>1. f \in Processes /\ UNCHANGED sees
    BY <1>7 DEF Processes, SignOut, RegisterToken
  <2>2. \E t, x : Begin(f, t, x) /\ t[1] \in {"remove", "register"}
    BY <1>7 DEF SignOut, RegisterToken
  <2> QED
    BY <1>3, <2>1, <2>2
<1>8. ASSUME NEW q \in ReceiptPollers, NEW d \in Receipts, PollerFinishes(q, d)
      PROVE  SweepInv'
  <2>1. q \in Processes /\ UNCHANGED sees
    BY <1>8 DEF Processes, PollerFinishes
  <2>2. \E t, x : Begin(q, t, x) /\ t[1] \in {"prune", "finish"}
    BY <1>8 DEF PollerFinishes
  <2> QED
    BY <1>3, <2>1, <2>2
<1>9. ASSUME NEW p \in Processes, Abort(p)
      PROVE  SweepInv'
  <2>1. /\ Over(p) /\ sees' = (IF p = Seed THEN {} ELSE sees)
        /\ reminder' = reminder /\ job' = job
    BY <1>9 DEF Abort
  <2>2. NoOrphanJobs'
    BY <2>1 DEF SweepInv, NoOrphanJobs
  <2> QED
    BY <1>1, <2>1, <2>2, OverSweep
<1> QED
  BY <1>1, <1>2, <1>4, <1>5, <1>6, <1>7, <1>8, <1>9, LockSweep, CommitSweep, SeedSweepKeeps
  DEF LocksNext

\* However a re-seed and the transactions of schedulers and workers wait for one
\* another, it leaves no open or done job whose reminder it deleted.
THEOREM NoJobOrphaned ==
  LocksSpec => []NoOrphanJobs
<1>1. SweepInv => NoOrphanJobs
  BY DEF SweepInv
<1> QED
  BY <1>1, InitSweep, NextSweep, PTL DEF LocksSpec

-----------------------------------------------------------------------------
(* The transactions as single steps: RowLocks implements RowTransactions.  *)

\* A step of a transaction keeps a reminder and its job together, and takes
\* nothing from what the others will find.
LEMMA TransactionKeeps ==
  ASSUME SweepInv, RowsAgree, [Atomic!Next]_(Atomic!vars)
  PROVE  /\ RowsAgree'
         /\ days \subseteq days'
         /\ \A r \in Reminders :
              /\ reminder'[r] = "pending" => reminder[r] = "pending"
              /\ job[r] # "none" =>
                   /\ job'[r] # "none"
                   /\ job'[r] \in {"open", "done"} => job[r] \in {"open", "done"}
                   /\ reminder'[r] = "queued" => reminder[r] = "queued"
<1>1. /\ job \in [Reminders -> {"none", "open", "done", "gone"}]
      /\ reminder \in [Reminders -> {"pending", "queued", "decided", "gone"}]
      /\ days \subseteq OrdinaryUsers
  BY DEF SweepInv, LocksInv, LockTypes, RowsAgree
<1>2. \A r \in Reminders :
        /\ reminder[r] = "pending" => job[r] = "none"
        /\ reminder[r] = "queued" <=> job[r] = "open"
        /\ reminder[r] = "decided" <=> job[r] = "done"
  BY DEF RowsAgree
<1>3. CASE UNCHANGED <<reminder, job>> /\ days \subseteq days' /\ days' \subseteq OrdinaryUsers
  BY <1>1, <1>2, <1>3 DEF RowsAgree
<1>4. CASE Atomic!Materialize
  BY <1>1, <1>3, <1>4 DEF Atomic!Materialize
<1>5. CASE Atomic!Enqueue
  BY <1>1, <1>2, <1>5 DEF Atomic!Enqueue, RowsAgree
<1>6. ASSUME NEW r \in Reminders, Atomic!Complete(r)
      PROVE  /\ RowsAgree' /\ days' = days
             /\ \A x \in Reminders : x # r => reminder'[x] = reminder[x] /\ job'[x] = job[x]
             /\ reminder'[r] = "decided" /\ job'[r] = "done" /\ job[r] = "open"
  BY <1>1, <1>2, <1>6 DEF Atomic!Complete, RowsAgree
<1>7. CASE Atomic!Reseed
  <2>1. \A r \in Reminders : reminder'[r] = "gone" /\ job'[r] \in {"none", "gone"} /\ (job[r] # "none" => job'[r] # "none")
    BY <1>1, <1>7 DEF Atomic!Reseed
  <2> QED
    BY <2>1, <1>1, <1>2, <1>7 DEF Atomic!Reseed, RowsAgree
<1>8. CASE Atomic!RemoveToken \/ Atomic!RegisterToken \/ UNCHANGED Atomic!vars
  BY <1>1, <1>3, <1>8 DEF Atomic!RemoveToken, Atomic!RegisterToken, Atomic!vars
<1>9. CASE \E r \in Reminders : Atomic!Complete(r)
  BY <1>6, <1>9
<1> QED
  BY <1>4, <1>5, <1>7, <1>8, <1>9 DEF Atomic!Next

\* What a transaction needs is there to be locked.
LEMMA NeedsAreThere ==
  ASSUME NEW p \in Processes, NEW b \in Needs(doing[p])
  PROVE  Selects(p, b)
<1>1. CASE doing[p][1] = "materialize"
  <2>1. PICK u \in OrdinaryUsers \ days : b = Ask("day", u, "update")
    BY <1>1 DEF Needs, RowsOf
  <2>2. b.table = "day" /\ b.id = u
    BY <2>1, AskFields
  <2> QED
    BY <2>1, <2>2 DEF Selects
<1>2. CASE doing[p][1] = "enqueue"
  <2>1. PICK r \in Reminders : reminder[r] = "pending" /\ b = Ask("reminder", r, "noKeyUpdate")
    BY <1>2 DEF Needs, RowsOf
  <2> QED
    BY <1>2, <2>1, SelectsRows
<1>3. CASE doing[p][1] = "complete"
  <2> DEFINE r == doing[p][2]
  <2>1. \/ job[r] \in {"open", "done"} /\ b = Ask("job", r, "update")
        \/ reminder[r] = "queued" /\ b = Ask("reminder", r, "noKeyUpdate")
    BY <1>3 DEF Needs, RowsOf
  <2> QED
    BY <1>3, <2>1, SelectsRows
<1> QED
  BY <1>1, <1>2, <1>3 DEF Needs

\* What is committed meanwhile adds nothing to it.
LEMMA NeedsShrink ==
  ASSUME NothingMissed, NEW p \in Processes, doing'[p] = doing[p],
         days \subseteq days',
         \A r \in Reminders :
              /\ reminder'[r] = "pending" => reminder[r] = "pending"
              /\ job[r] # "none" =>
                   /\ job'[r] # "none"
                   /\ job'[r] \in {"open", "done"} => job[r] \in {"open", "done"}
                   /\ reminder'[r] = "queued" => reminder[r] = "queued",
         doing[p][1] = "complete" => doing[p][2] \in Reminders
  PROVE  /\ Needs(doing[p])' \subseteq Needs(doing[p])
         /\ doing'[p][1] = "complete" => job'[doing'[p][2]] # "none"
<1>1. CASE doing[p][1] = "materialize"
  BY <1>1 DEF Needs, RowsOf
<1>2. CASE doing[p][1] = "enqueue"
  BY <1>2 DEF Needs, RowsOf
<1>3. CASE doing[p][1] = "complete"
  <2> DEFINE r == doing[p][2]
  <2>1. r \in Reminders /\ job[r] # "none"
    BY <1>3 DEF NothingMissed
  <2>2. /\ job'[r] \in {"open", "done"} => job[r] \in {"open", "done"}
        /\ reminder'[r] = "queued" => reminder[r] = "queued"
        /\ job'[r] # "none"
    BY <2>1
  <2> QED
    BY <1>3, <2>1, <2>2 DEF Needs, RowsOf
<1>4. CASE doing[p][1] \notin {"materialize", "enqueue", "complete"}
  BY <1>4 DEF Needs
<1> QED
  BY <1>1, <1>2, <1>3, <1>4

\* A transaction begins with what it needs in its list.
LEMMA BeginAtomic ==
  ASSUME AtomicInv, SweepInv', NEW p \in Processes, NEW t, NEW s, Begin(p, t, s),
         Needs(t) \subseteq Rest(s),
         t[1] = "complete" => job[t[2]] # "none"
  PROVE  AtomicInv'
<1>1. /\ doing' = [doing EXCEPT ![p] = t] /\ plan' = [plan EXCEPT ![p] = s]
      /\ held' = held /\ reminder' = reminder /\ job' = job /\ days' = days
  BY DEF Begin
<1>2. \A q \in Processes : /\ q # p => doing'[q] = doing[q] /\ plan'[q] = plan[q]
                           /\ q = p => doing'[q] = t /\ plan'[q] = s
  BY <1>1 DEF AtomicInv, SweepInv, LocksInv, LockTypes
<1>3. RowsAgree'
  BY <1>1 DEF AtomicInv, RowsAgree
<1>4. ASSUME NEW q \in Processes
      PROVE  /\ Needs(doing[q])' = Needs(doing'[q])
             /\ doing'[q][1] = "complete" => job'[doing'[q][2]] = job[doing'[q][2]]
  BY <1>1 DEF Needs
<1>5. NothingMissed'
  <2> SUFFICES ASSUME NEW q \in Processes
               PROVE  /\ Needs(doing[q])' \subseteq Rest(plan'[q]) \cup held'[q]
                      /\ doing'[q][1] = "complete" => job'[doing'[q][2]] # "none"
    BY DEF NothingMissed, Rest
  <2>1. CASE q = p
    BY <2>1, <1>1, <1>2, <1>4
  <2>2. CASE q # p
    BY <2>2, <1>1, <1>2, <1>4 DEF AtomicInv, NothingMissed
  <2> QED
    BY <2>1, <2>2
<1> QED
  BY <1>3, <1>5 DEF AtomicInv

\* What is needed is locked where it is asked for.
LEMMA LockAtomic ==
  ASSUME AtomicInv, SweepInv', NEW p \in Processes, Lock(p)
  PROVE  AtomicInv'
<1> DEFINE a == Next1(p)
<1>1. /\ plan[p] \in Seq(Asks) /\ plan[p] # <<>> /\ a \in Asks
      /\ Rest(plan[p]) = {a} \cup Rest(Tail(plan[p]))
  BY RestOfTail DEF AtomicInv, SweepInv, LocksInv, LockTypes, Lock, Next1
<1>2. /\ plan' = [plan EXCEPT ![p] = Tail(plan[p])]
      /\ \/ held' = [held EXCEPT ![p] = held[p] \cup {a}] /\ Selects(p, a)
         \/ held' = [held EXCEPT ![p] = held[p]] /\ ~Selects(p, a)
      /\ job' = job /\ reminder' = reminder /\ doing' = doing /\ days' = days
  BY DEF Lock
<1> HIDE DEF a
<1>3. \A q \in Processes : q # p => plan'[q] = plan[q] /\ held'[q] = held[q]
  BY <1>2 DEF AtomicInv, SweepInv, LocksInv, LockTypes
<1>4. /\ plan'[p] = Tail(plan[p])
      /\ \/ held'[p] = held[p] \cup {a} /\ Selects(p, a)
         \/ held'[p] = held[p] /\ ~Selects(p, a)
  BY <1>2 DEF AtomicInv, SweepInv, LocksInv, LockTypes
<1>5. RowsAgree'
  BY <1>2 DEF AtomicInv, RowsAgree
<1>6. ASSUME NEW q \in Processes
      PROVE  Needs(doing[q])' = Needs(doing[q])
  BY <1>2 DEF Needs
<1>7. NothingMissed'
  <2> SUFFICES ASSUME NEW q \in Processes
               PROVE  /\ Needs(doing[q])' \subseteq Rest(plan'[q]) \cup held'[q]
                      /\ doing'[q][1] = "complete" => job'[doing'[q][2]] # "none"
    BY DEF NothingMissed, Rest
  <2>1. Needs(doing[q]) \subseteq Rest(plan[q]) \cup held[q]
    BY DEF AtomicInv, NothingMissed
  <2>2. doing'[q][1] = "complete" => job'[doing'[q][2]] # "none"
    BY <1>2 DEF AtomicInv, NothingMissed
  <2>3. CASE q = p
    <3>1. ASSUME NEW b \in Needs(doing[p])
          PROVE  b \in Rest(plan'[p]) \cup held'[p]
      BY <2>1, <2>3, <1>1, <1>4, NeedsAreThere
    <3> QED
      BY <2>2, <2>3, <3>1, <1>6
  <2>4. CASE q # p
    BY <2>1, <2>2, <2>4, <1>3, <1>6
  <2> QED
    BY <2>3, <2>4
<1> QED
  BY <1>5, <1>7 DEF AtomicInv

\* One transaction is over, and the others miss nothing.
LEMMA OverAtomic ==
  ASSUME AtomicInv, SweepInv', NEW p \in Processes, Over(p),
         [Atomic!Next]_(Atomic!vars)
  PROVE  AtomicInv'
<1>1. /\ doing' = [doing EXCEPT ![p] = Idle]
      /\ plan' = [plan EXCEPT ![p] = <<>>]
      /\ held' = [held EXCEPT ![p] = {}]
  BY DEF Over
<1>2. \A q \in Processes :
        /\ q # p => doing'[q] = doing[q] /\ plan'[q] = plan[q] /\ held'[q] = held[q]
        /\ q = p => doing'[q] = Idle
  BY <1>1 DEF AtomicInv, SweepInv, LocksInv, LockTypes
<1>3. RowsAgree'
  BY TransactionKeeps DEF AtomicInv
<1>4. ASSUME NEW q \in Processes
      PROVE  /\ Needs(doing[q])' \subseteq Rest(plan'[q]) \cup held'[q]
             /\ doing'[q][1] = "complete" => job'[doing'[q][2]] # "none"
  <2>1. CASE q = p
    BY <2>1, <1>2 DEF Idle, Needs
  <2>2. CASE q # p
    <3>1. doing'[q] = doing[q] /\ plan'[q] = plan[q] /\ held'[q] = held[q]
      BY <1>2, <2>2
    <3>2. doing[q][1] = "complete" => doing[q][2] \in Reminders
      BY DEF AtomicInv, SweepInv, LocksInv, Shaped, Shape
    <3>3. /\ Needs(doing[q])' \subseteq Needs(doing[q])
          /\ doing'[q][1] = "complete" => job'[doing'[q][2]] # "none"
      BY <3>1, <3>2, TransactionKeeps, NeedsShrink DEF AtomicInv
    <3>4. Needs(doing[q]) \subseteq Rest(plan[q]) \cup held[q]
      BY DEF AtomicInv, NothingMissed
    <3> QED
      BY <3>1, <3>3, <3>4
  <2> QED
    BY <2>1, <2>2
<1>5. NothingMissed'
  BY <1>4 DEF NothingMissed, Rest
<1> QED
  BY <1>3, <1>5 DEF AtomicInv

\* Only a materialisation locks the keys of days.
LEMMA OnlyItsDays ==
  ASSUME LocksInv, NEW p \in Processes
  PROVE  /\ doing[p][1] = "materialize" => Holds(p, "day", "update") \subseteq OrdinaryUsers
         /\ doing[p][1] # "materialize" => Holds(p, "day", "update") = {}
<1>1. Shape(p, doing[p], plan[p], held[p], linked)
  BY DEF LocksInv, Shaped
<1>2. \A i : i \in Holds(p, "day", "update") <=> Ask("day", i, "update") \in held[p]
  BY HeldRows
<1>3. CASE doing[p][1] = "materialize"
  <2>1. held[p] \subseteq RowsOf("day", OrdinaryUsers, "update")
    BY <1>1, <1>3 DEF Shape
  <2> QED
    BY <2>1, <1>2, <1>3, AskFields DEF RowsOf
<1>4. CASE doing[p][1] # "materialize"
  <2>1. doing[p][1] \in Transactions
    BY DEF LocksInv, LockTypes
  <2>2. \A a \in held[p] : a.table # "day"
    <3>1. CASE doing[p][1] \in {"complete", "retry"}
      <4>1. RecordShape(doing[p][2], plan[p], held[p])
        BY <3>1, <1>1 DEF Shape
      <4> QED
        BY <4>1, AskFields DEF RecordShape
    <3>2. CASE doing[p][1] \in {"enqueue", "cascade", "sweep"}
      BY <3>2, <1>1, AskFields DEF Shape, RowsOf
    <3>3. CASE doing[p][1] \in {"register", "finish"}
      BY <3>3, <1>1, AskFields DEF Shape, SingleShape
    <3>4. CASE doing[p][1] \in {"remove", "prune"}
      <4>1. TokenFirstShape(doing[p], plan[p], held[p], linked)
        BY <3>4, <1>1 DEF Shape
      <4>2. held[p] \subseteq ReceiptRows \cup {TokenRow}
        BY <4>1 DEF TokenFirstShape
      <4> QED
        BY <4>2, AskFields DEF ReceiptRows, TokenRow, RowsOf
    <3>5. CASE doing[p][1] = "idle"
      BY <3>5, <1>1 DEF Shape
    <3> QED
      BY <1>4, <2>1, <3>1, <3>2, <3>3, <3>4, <3>5 DEF Transactions
  <2> QED
    BY <2>2, <1>2, <1>4, AskFields
<1> QED
  BY <1>3, <1>4

\* A commit is one step of its transaction.
LEMMA CommitIsWhole ==
  ASSUME AtomicInv, NEW p \in Processes, Commit(p)
  PROVE  CommitsAs(p) /\ [Atomic!Next]_(Atomic!vars)
<1> DEFINE what == doing[p][1]
           own == doing[p][2]
           Moved(r) == Ask("reminder", r, "noKeyUpdate") \in held[p]
<1>1. /\ job \in [Reminders -> {"none", "open", "done", "gone"}]
      /\ reminder \in [Reminders -> {"pending", "queued", "decided", "gone"}]
      /\ token \in BOOLEAN /\ (linked # {} => token)
      /\ what \in Transactions
  BY DEF AtomicInv, SweepInv, LocksInv, LockTypes, RowsAgree
<1>2. Needs(doing[p]) \subseteq held[p]
  <2>1. Rest(plan[p]) = {}
    BY DEF Commit, Rest
  <2> QED
    BY <2>1 DEF AtomicInv, NothingMissed
<1>3. \A table, mode, i : i \in Holds(p, table, mode) <=> Ask(table, i, mode) \in held[p]
  BY HeldRows DEF AtomicInv, SweepInv
<1>4. Shape(p, doing[p], plan[p], held[p], linked)
  BY DEF AtomicInv, SweepInv, LocksInv, Shaped
<1>5. /\ reminder' = [r \in Reminders |->
            CASE what = "enqueue" /\ Moved(r) -> "queued"
              [] what = "complete" /\ Moved(r) -> "decided"
              [] what = "sweep" /\ Ask("reminder", r, "update") \in held[p] -> "gone"
              [] OTHER -> reminder[r]]
      /\ job' = [r \in Reminders |->
            CASE what = "enqueue" /\ Moved(r) -> "open"
              [] what = "complete" /\ Ask("job", r, "update") \in held[p] -> "done"
              [] what = "sweep" /\ r \in sees /\ Ask("job", r, "update") \in held[p] -> "gone"
              [] OTHER -> job[r]]
      /\ days' = days \cup Holds(p, "day", "update")
      /\ token' = IF what = "register" THEN TRUE
                   ELSE token /\ what # "remove" /\ ~(what = "prune" /\ own \in linked)
      /\ linked' = IF token' THEN linked ELSE {}
  BY <1>3 DEF Commit
<1>6. what # "idle" /\ what # "cascade"
  BY DEF Commit
<1>7. what # "materialize" => days' = days
  BY <1>5, OnlyItsDays DEF AtomicInv, SweepInv
<1>8. what \notin {"remove", "prune", "register"} => token' = token /\ linked' = linked
  BY <1>1, <1>5
<1>9. what \notin {"enqueue", "complete", "sweep"} => reminder' = reminder /\ job' = job
  BY <1>1, <1>5
<1> HIDE DEF what, own, Moved
<1>10. CASE what = "materialize"
  <2>1. Holds(p, "day", "update") \subseteq OrdinaryUsers /\ days \subseteq OrdinaryUsers
    BY <1>10, OnlyItsDays DEF what, AtomicInv, SweepInv, RowsAgree
  <2>2. OrdinaryUsers \ days \subseteq Holds(p, "day", "update")
    BY <1>2, <1>3, <1>10 DEF what, Needs, RowsOf
  <2>3. days' = OrdinaryUsers
    BY <2>1, <2>2, <1>5
  <2>4. Atomic!Materialize
    BY <2>3, <1>8, <1>9, <1>10 DEF Atomic!Materialize
  <2> QED
    BY <2>4, <1>10 DEF what, CommitsAs, Atomic!Next
<1>11. CASE what = "enqueue"
  <2>1. ASSUME NEW r \in Reminders
        PROVE  Moved(r) <=> reminder[r] = "pending"
    <3>1. Moved(r) => reminder[r] = "pending"
      BY <1>11 DEF what, Moved, AtomicInv, SweepInv, StillSelected
    <3>2. reminder[r] = "pending" => Moved(r)
      BY <1>2, <1>11 DEF what, Moved, Needs, RowsOf
    <3> QED
      BY <3>1, <3>2
  <2>2. Atomic!Enqueue
    BY <2>1, <1>5, <1>7, <1>8, <1>11 DEF Atomic!Enqueue
  <2> QED
    BY <2>2, <1>11 DEF what, CommitsAs, Atomic!Next
<1>12. CASE what = "complete"
  <2>1. own \in Reminders /\ RecordShape(own, plan[p], held[p]) /\ job[own] # "none"
    BY <1>4, <1>12 DEF what, own, Shape, AtomicInv, NothingMissed
  <2>2. ASSUME NEW r \in Reminders
        PROVE  /\ Moved(r) => r = own /\ reminder[r] = "queued"
               /\ Ask("job", r, "update") \in held[p] => r = own /\ job[r] \in {"open", "done"}
    <3>1. /\ Moved(r) => reminder[r] = "queued"
          /\ Ask("job", r, "update") \in held[p] => job[r] \in {"open", "done"}
      BY <1>12 DEF what, Moved, AtomicInv, SweepInv, StillSelected
    <3>2. \A a \in held[p] : a.table \in {"job", "reminder"} => a.id = own
      BY <2>1, AskFields DEF RecordShape
    <3> QED
      BY <3>1, <3>2, AskFields DEF Moved
  <2>3. /\ job[own] \in {"open", "done"} => Ask("job", own, "update") \in held[p]
        /\ reminder[own] = "queued" => Moved(own)
    BY <1>2, <1>12 DEF what, own, Moved, Needs, RowsOf
  <2>4. /\ reminder[own] = "queued" <=> job[own] = "open"
        /\ \A r \in Reminders : reminder[r] = "queued" <=> job[r] = "open"
    BY <2>1 DEF AtomicInv, RowsAgree
  <2>5. CASE job[own] = "open"
    <3>1. Atomic!Complete(own)
      BY <2>1, <2>2, <2>3, <2>4, <2>5, <1>1, <1>5, <1>7, <1>8, <1>12 DEF Atomic!Complete
    <3> QED
      BY <3>1, <2>1, <2>5, <1>12 DEF what, own, CommitsAs, Atomic!Next
  <2>6. CASE job[own] # "open"
    <3>1. reminder' = reminder /\ job' = job
      BY <2>2, <2>4, <2>6, <1>1, <1>5, <1>12
    <3>2. UNCHANGED Atomic!vars
      BY <3>1, <1>7, <1>8, <1>12 DEF Atomic!vars
    <3> QED
      BY <3>2, <2>6, <1>12 DEF what, own, CommitsAs
  <2> QED
    BY <2>5, <2>6
<1>13. CASE what = "sweep"
  <2>1. p = Seed
    BY <1>4, <1>13 DEF what, Shape
  <2>2. /\ \A r \in Reminders : reminder[r] # "gone" => Ask("reminder", r, "update") \in held[p]
        /\ \A r \in Reminders : r \in sees <=> job[r] \in {"open", "done"}
        /\ \A r \in sees : Ask("job", r, "update") \in held[p]
    BY <2>1, <1>13 DEF what, AtomicInv, SweepInv, SeedSees, Commit, Rest
  <2>3. reminder' = [r \in Reminders |-> "gone"]
    BY <2>2, <1>1, <1>5, <1>13
  <2>4. job' = [r \in Reminders |-> IF job[r] = "none" THEN "none" ELSE "gone"]
    BY <2>2, <1>1, <1>5, <1>13
  <2>5. Atomic!Reseed
    BY <2>3, <2>4, <1>7, <1>8, <1>13 DEF Atomic!Reseed
  <2> QED
    BY <2>5, <1>13 DEF what, CommitsAs, Atomic!Next
<1>14. CASE what = "remove" \/ (what = "prune" /\ own \in linked)
  <2>1. Atomic!RemoveToken
    BY <1>5, <1>7, <1>9, <1>14 DEF Atomic!RemoveToken
  <2> QED
    BY <2>1, <1>14 DEF what, own, CommitsAs, Atomic!Next
<1>15. CASE what = "register"
  <2>1. Atomic!RegisterToken
    BY <1>5, <1>7, <1>9, <1>15 DEF Atomic!RegisterToken
  <2> QED
    BY <2>1, <1>15 DEF what, CommitsAs, Atomic!Next
<1>16. CASE what \in {"retry", "finish"} \/ (what = "prune" /\ own \notin linked)
  <2>1. token' = token /\ linked' = linked
    BY <1>1, <1>5, <1>16
  <2>2. UNCHANGED Atomic!vars
    BY <2>1, <1>7, <1>9, <1>16 DEF Atomic!vars
  <2> QED
    BY <2>2, <1>16 DEF what, own, CommitsAs
<1>17. \/ what \in {"materialize", "enqueue", "complete", "sweep", "remove", "register", "retry", "finish"}
       \/ what = "prune" /\ own \in linked
       \/ what = "prune" /\ own \notin linked
  BY <1>1, <1>6 DEF Transactions
<1>18. CASE what \in {"materialize", "enqueue", "complete", "sweep"}
  BY <1>10, <1>11, <1>12, <1>13, <1>18
<1> QED
  BY <1>14, <1>15, <1>16, <1>17, <1>18

\* Nothing is half committed at the start.
LEMMA InitAtomic == LocksInit => AtomicInv /\ Atomic!Init
<1> SUFFICES ASSUME LocksInit  PROVE AtomicInv /\ Atomic!Init
  OBVIOUS
<1>1. SweepInv
  BY InitSweep
<1>2. RowsAgree
  BY DEF LocksInit, RowsAgree
<1>3. NothingMissed
  BY DEF LocksInit, NothingMissed, Needs, Idle
<1>4. Atomic!Init
  BY DEF LocksInit, Atomic!Init
<1> QED
  BY <1>1, <1>2, <1>3, <1>4 DEF AtomicInv

\* What is committed changes at a commit alone.
LEMMA RowsChangeAtCommits ==
  ASSUME AtomicInv, [LocksNext]_lockVars
  PROVE  [Atomic!Next]_(Atomic!vars)
<1>1. CASE UNCHANGED lockVars
  BY <1>1 DEF lockVars, Atomic!vars
<1>2. ASSUME NEW p, NEW t, NEW s, Begin(p, t, s)
      PROVE  UNCHANGED Atomic!vars
  BY <1>2 DEF Begin, Atomic!vars
<1>3. ASSUME NEW w, NEW r, Record(w, r)
      PROVE  UNCHANGED Atomic!vars
  BY <1>2, <1>3 DEF Record
<1>4. ASSUME NEW s, Materialize(s) \/ Enqueue(s)
      PROVE  UNCHANGED Atomic!vars
  BY <1>2, <1>4 DEF Materialize, Enqueue
<1>5. CASE SeedCascade
  BY <1>2, <1>5 DEF SeedCascade
<1>6. ASSUME NEW f, SignOut(f) \/ RegisterToken(f)
      PROVE  UNCHANGED Atomic!vars
  BY <1>2, <1>6 DEF SignOut, RegisterToken
<1>7. ASSUME NEW q, NEW d, PollerFinishes(q, d)
      PROVE  UNCHANGED Atomic!vars
  BY <1>2, <1>7 DEF PollerFinishes
<1>8. ASSUME NEW p \in Processes, Lock(p) \/ Abort(p)
      PROVE  UNCHANGED Atomic!vars
  BY <1>8 DEF Lock, Abort, Atomic!vars
<1>9. CASE SeedSweep
  BY <1>9 DEF SeedSweep, Atomic!vars
<1> QED
  BY <1>1, <1>3, <1>4, <1>5, <1>6, <1>7, <1>8, <1>9, CommitIsWhole DEF LocksNext

\* The invariant of the refinement is inductive.
LEMMA NextAtomic ==
  AtomicInv /\ [LocksNext]_lockVars => AtomicInv'
<1> SUFFICES ASSUME AtomicInv, [LocksNext]_lockVars
             PROVE  AtomicInv'
  OBVIOUS
<1>1. SweepInv' /\ [Atomic!Next]_(Atomic!vars)
  BY NextSweep, RowsChangeAtCommits DEF AtomicInv
<1>2. CASE UNCHANGED lockVars
  <2>1. /\ doing' = doing /\ plan' = plan /\ held' = held
        /\ days' = days /\ reminder' = reminder /\ job' = job
    BY <1>2 DEF lockVars
  <2>2. RowsAgree'
    BY <2>1 DEF AtomicInv, RowsAgree
  <2>3. ASSUME NEW p \in Processes
        PROVE  Needs(doing[p])' = Needs(doing[p])
    BY <2>1 DEF Needs
  <2>4. NothingMissed'
    BY <2>1, <2>3 DEF AtomicInv, NothingMissed, Rest
  <2> QED
    BY <1>1, <2>2, <2>4 DEF AtomicInv
<1>3. ASSUME NEW p \in Processes, NEW t, NEW s, Begin(p, t, s),
             t[1] \notin {"materialize", "enqueue", "complete"}
      PROVE  AtomicInv'
  BY <1>1, <1>3, BeginAtomic DEF Needs
<1>4. ASSUME NEW w \in Workers, NEW r \in Reminders, Record(w, r)
      PROVE  AtomicInv'
  <2> DEFINE t == <<"complete", r>>
  <2>1. w \in Processes /\ job[r] # "none"
    BY <1>4 DEF Processes, Record
  <2>2. Needs(t) \subseteq {Ask("job", r, "update"), Ask("reminder", r, "noKeyUpdate")}
    BY DEF Needs, RowsOf
  <2>3. /\ Rest(CompletePlan(r)) = {CompletePlan(r)[i] : i \in 1..4}
        /\ Rest(SkipPlan(r)) = {SkipPlan(r)[i] : i \in 1..2}
    BY DEF Rest, CompletePlan, SkipPlan
  <2>4. /\ Ask("job", r, "update") = CompletePlan(r)[1] /\ Ask("job", r, "update") = SkipPlan(r)[1]
        /\ Ask("reminder", r, "noKeyUpdate") = CompletePlan(r)[4]
        /\ Ask("reminder", r, "noKeyUpdate") = SkipPlan(r)[2]
    BY DEF CompletePlan, SkipPlan
  <2>5. Needs(t) \subseteq Rest(CompletePlan(r)) /\ Needs(t) \subseteq Rest(SkipPlan(r))
    BY <2>2, <2>3, <2>4
  <2>6. t[1] = "complete" /\ t[2] = r
    OBVIOUS
  <2> HIDE DEF t
  <2>7. CASE Begin(w, t, CompletePlan(r)) \/ Begin(w, t, SkipPlan(r))
    BY <1>1, <2>1, <2>5, <2>6, <2>7, BeginAtomic
  <2>8. CASE Begin(w, <<"retry", r>>, RetryPlan(r))
    BY <1>3, <2>1, <2>8
  <2> QED
    BY <1>4, <2>7, <2>8 DEF Record, t
<1>5. ASSUME NEW s \in Schedulers, Materialize(s)
      PROVE  AtomicInv'
  <2> DEFINE missing == OrdinaryUsers \ days
             t == <<"materialize", Nothing>>
  <2>1. PICK o \in Orders(missing) : Begin(s, t, MaterializePlan(o))
    BY <1>5 DEF Materialize
  <2>2. IsFiniteSet(missing)
    BY FiniteAssumption, FS_Subset
  <2>3. Rest(MaterializePlan(o)) = RowsOf("day", missing, "update")
    BY <2>2, AskLists DEF MaterializePlan
  <2>4. s \in Processes /\ t[1] = "materialize"
    BY DEF Processes
  <2>5. Needs(t) \subseteq Rest(MaterializePlan(o))
    BY <2>3, <2>4 DEF Needs
  <2> HIDE DEF t
  <2> QED
    BY <1>1, <2>1, <2>4, <2>5, BeginAtomic
<1>6. ASSUME NEW s \in Schedulers, Enqueue(s)
      PROVE  AtomicInv'
  <2> DEFINE pending == {r \in Reminders : reminder[r] = "pending"}
             t == <<"enqueue", Nothing>>
  <2>1. PICK o \in Orders(pending) : Begin(s, t, AskAll("reminder", o, "noKeyUpdate"))
    BY <1>6 DEF Enqueue
  <2>2. IsFiniteSet(pending)
    BY FiniteAssumption, FS_Subset
  <2>3. Rest(AskAll("reminder", o, "noKeyUpdate")) = RowsOf("reminder", pending, "noKeyUpdate")
    BY <2>2, AskLists
  <2>4. s \in Processes /\ t[1] = "enqueue"
    BY DEF Processes
  <2>5. Needs(t) \subseteq Rest(AskAll("reminder", o, "noKeyUpdate"))
    BY <2>3, <2>4 DEF Needs
  <2> HIDE DEF t
  <2> QED
    BY <1>1, <2>1, <2>4, <2>5, BeginAtomic
<1>7. CASE SeedCascade
  <2>1. Seed \in Processes /\ \E x : Begin(Seed, <<"cascade", Nothing>>, x)
    BY <1>7 DEF Processes, SeedCascade
  <2> QED
    BY <1>3, <2>1
<1>8. ASSUME NEW f \in Phones, SignOut(f) \/ RegisterToken(f)
      PROVE  AtomicInv'
  <2>1. f \in Processes
    BY DEF Processes
  <2>2. \E t, x : Begin(f, t, x) /\ t[1] \in {"remove", "register"}
    BY <1>8 DEF SignOut, RegisterToken
  <2> QED
    BY <1>3, <2>1, <2>2
<1>9. ASSUME NEW q \in ReceiptPollers, NEW d \in Receipts, PollerFinishes(q, d)
      PROVE  AtomicInv'
  <2>1. q \in Processes
    BY DEF Processes
  <2>2. \E t, x : Begin(q, t, x) /\ t[1] \in {"prune", "finish"}
    BY <1>9 DEF PollerFinishes
  <2> QED
    BY <1>3, <2>1, <2>2
<1>10. CASE SeedSweep
  <2>1. Seed \in Processes
    BY DEF Processes
  <2>2. /\ doing' = [doing EXCEPT ![Seed] = <<"sweep", Nothing>>]
        /\ held' = held /\ job' = job /\ reminder' = reminder /\ days' = days
        /\ \E x : plan' = [plan EXCEPT ![Seed] = x]
    BY <1>10 DEF SeedSweep
  <2>3. \A p \in Processes :
          /\ p # Seed => doing'[p] = doing[p] /\ plan'[p] = plan[p]
          /\ p = Seed => doing'[p][1] = "sweep"
    BY <2>2 DEF AtomicInv, SweepInv, LocksInv, LockTypes
  <2>4. RowsAgree'
    BY <2>2 DEF AtomicInv, RowsAgree
  <2>5. ASSUME NEW p \in Processes
        PROVE  /\ Needs(doing[p])' \subseteq Rest(plan'[p]) \cup held'[p]
               /\ doing'[p][1] = "complete" => job'[doing'[p][2]] # "none"
    <3>1. CASE p = Seed
      BY <3>1, <2>3 DEF Needs
    <3>2. CASE p # Seed
      <4>1. Needs(doing[p])' = Needs(doing[p])
        BY <3>2, <2>2, <2>3 DEF Needs
      <4> QED
        BY <4>1, <3>2, <2>2, <2>3 DEF AtomicInv, NothingMissed
    <3> QED
      BY <3>1, <3>2
  <2> QED
    BY <1>1, <2>4, <2>5 DEF AtomicInv, NothingMissed, Rest
<1>11. ASSUME NEW p \in Processes, Commit(p) \/ Abort(p)
       PROVE  AtomicInv'
  <2>1. Over(p)
    BY <1>11 DEF Commit, Abort
  <2> QED
    BY <1>1, <2>1, OverAtomic
<1> QED
  BY <1>1, <1>2, <1>4, <1>5, <1>6, <1>7, <1>8, <1>9, <1>10, <1>11, LockAtomic DEF LocksNext

\* Whatever the transactions wait for and read before they wait, what is
\* committed changes as if each ran alone, at its commit: the other modules may
\* take each as one step.
THEOREM TransactionsAreAtomic ==
  LocksSpec => ImplementsTransactions
<1>1. AtomicInv /\ [LocksNext]_lockVars => [Atomic!Next]_(Atomic!vars)
  BY RowsChangeAtCommits
<1> QED
  BY <1>1, InitAtomic, NextAtomic, PTL DEF LocksSpec, ImplementsTransactions, Atomic!Spec

\* And the step is its own, whole: no enqueue leaves a pending reminder or moves
\* another, no re-seed leaves a reminder or a job, no materialisation a user, and
\* a record decides an open job with its reminder or changes nothing.
THEOREM CommitsAreWhole ==
  LocksSpec => [][\A p \in Processes : Commit(p) => CommitsAs(p)]_lockVars
<1>1. AtomicInv => \A p \in Processes : Commit(p) => CommitsAs(p)
  BY CommitIsWhole
<1> QED
  BY <1>1, InitAtomic, NextAtomic, PTL DEF LocksSpec

=============================================================================
