------------------------------ MODULE Receipts ------------------------------
(***************************************************************************)
(* Expo receipts: a worker records the tickets its pushes were given, and  *)
(* pollers claim due receipts, ask the provider and finish them, pruning   *)
(* the registration the push was refused for.  Installations register and  *)
(* unregister the same tokens meanwhile, so the registration a push was    *)
(* sent to may have been removed, renewed or taken over since.             *)
(*                                                                         *)
(* registerForUser, removeForUser, the recording transaction, the claim    *)
(* and the finishing transaction are one action each: their row locks      *)
(* order them.  Time is abstract: a check is due or not, a receipt is      *)
(* older than its 24 hours or not.                                         *)
(***************************************************************************)
EXTENDS Integers, FiniteSets

CONSTANTS
    Users,          \* users that register tokens
    Tokens,         \* push tokens
    Deliveries,     \* deliveries accepted by the provider
    Pollers,        \* receipt poller processes
    Nobody,         \* null: no registration, no link, no claim, no snapshot
    BatchSize,      \* RECEIPT_DEFAULTS.batchSize
    MaxAttempts,    \* RECEIPT_DEFAULTS.maxAttempts
    MaxClock,       \* bound: registrations
    MaxFaults       \* bound: crashes, failed transactions, outrun leases

ASSUME PolicyAssumption == BatchSize \in Nat \ {0} /\ MaxAttempts \in Nat \ {0}
ASSUME BoundsAssumption == MaxClock \in Nat /\ MaxFaults \in Nat

VARIABLES
    clock,          \* the created_at and id of the latest registration
    registration,   \* push_tokens: per token Nobody, or its row
    sent,           \* per delivery, the registration the worker sent to
    receipt,        \* push_receipts: per delivery Nobody, or its row
    due,            \* receipts whose next_check_at has passed
    aged,           \* receipts accepted 24 hours ago or more
    claim,          \* per poller and delivery: what it holds of its batch
    faults          \* faults so far

vars == <<clock, registration, sent, receipt, due, aged, claim, faults>>

Statuses == {"pending", "ok", "error", "expired"}

\* What the provider says of one ticket: delivered, refused for another
\* reason, DeviceNotRegistered, or nothing usable (no receipt yet, a malformed
\* one, a failed request).
Answers == {"ok", "error", "DeviceNotRegistered", "unusable"}

Registrations == [token : Tokens, id : 1..MaxClock, user : Users, createdAt : 1..MaxClock]

\* The two columns that make a registration a version, and the row linked.
Rows == [status : Statuses, attempts : Nat, link : (1..MaxClock) \cup {Nobody},
         user : Users, createdAt : 1..MaxClock]

\* A claimed row (attempts as claimed), and the update decided for it.
Claims == [attempts : Nat, update : Statuses \cup {Nobody}, prune : BOOLEAN]

ASSUME NobodyAssumption ==
    Nobody \notin Registrations \cup Rows \cup Claims \cup Statuses \cup (1..MaxClock)

Init ==
    /\ clock = 0
    /\ registration = [t \in Tokens |-> Nobody]
    /\ sent = [d \in Deliveries |-> Nobody]
    /\ receipt = [d \in Deliveries |-> Nobody]
    /\ due = {}
    /\ aged = {}
    /\ claim = [p \in Pollers |-> [d \in Deliveries |-> Nobody]]
    /\ faults = 0

Fault ==
    /\ faults < MaxFaults
    /\ faults' = faults + 1

Pending(d) == receipt[d] # Nobody /\ receipt[d].status = "pending"

-----------------------------------------------------------------------------
(* The registrations.                                                      *)

\* ON CONFLICT: the row keeps its id, and created_at strictly advances.
Renewed(u, t) == [token |-> t, id |-> registration[t].id, user |-> u, createdAt |-> clock + 1]

\* registerForUser.
Register(u, t) ==
    /\ clock < MaxClock
    /\ clock' = clock + 1
    /\ registration' = [registration EXCEPT ![t] =
          IF @ = Nobody THEN [token |-> t, id |-> clock + 1, user |-> u, createdAt |-> clock + 1]
          ELSE Renewed(u, t)]
    /\ UNCHANGED <<sent, receipt, due, aged, claim, faults>>

\* ON DELETE SET NULL.
Unlinked(id, rows) ==
    [d \in Deliveries |-> IF rows[d] # Nobody /\ rows[d].link = id
                          THEN [rows[d] EXCEPT !.link = Nobody] ELSE rows[d]]

\* removeForUser: sign-out, or a revoked permission.
Remove(u, t) ==
    /\ registration[t] # Nobody
    /\ registration[t].user = u
    /\ registration' = [registration EXCEPT ![t] = Nobody]
    /\ receipt' = Unlinked(registration[t].id, receipt)
    /\ UNCHANGED <<clock, sent, due, aged, claim, faults>>

-----------------------------------------------------------------------------
(* The worker.                                                             *)

\* The claim's snapshot of a registration; the push goes to its token.
Send(d, t) ==
    /\ sent[d] = Nobody
    /\ registration[t] # Nobody
    /\ sent' = [sent EXCEPT ![d] = registration[t]]
    /\ UNCHANGED <<clock, registration, receipt, due, aged, claim, faults>>

\* A row of push_tokens with this id, found and locked against deletion.
Present(id) == \E t \in Tokens : registration[t] # Nobody /\ registration[t].id = id

\* recordWorkerSends: the ticket, under the version of the snapshot, linked
\* to the registration if its row is still there.
RecordTicket(d) ==
    /\ sent[d] # Nobody
    /\ receipt[d] = Nobody
    /\ receipt' = [receipt EXCEPT ![d] =
          [status |-> "pending", attempts |-> 0,
           link |-> IF Present(sent[d].id) THEN sent[d].id ELSE Nobody,
           user |-> sent[d].user, createdAt |-> sent[d].createdAt]]
    /\ UNCHANGED <<clock, registration, sent, due, aged, claim, faults>>

-----------------------------------------------------------------------------
(* The poller.  A batch is claimed, every row of it gets an update, every  *)
(* update is written in a transaction of its own, and all have settled     *)
(* before the next claim.                                                  *)

\* Mutant: a receipt is claimed once, whatever became of the claim.
ClaimableOnce(d) == Pending(d) /\ d \in due /\ receipt[d].attempts = 0

Claimable(d) == Pending(d) /\ d \in due

\* attempts + 1: what this claim is told apart from another by.
CountedClaim(d) == receipt[d].attempts + 1

\* One statement: the rows are leased by moving next_check_at.
ClaimBatch(p, S) ==
    /\ \A d \in Deliveries : claim[p][d] = Nobody
    /\ S # {}
    /\ Cardinality(S) <= BatchSize
    /\ \A d \in S : Claimable(d)
    /\ receipt' = [d \in Deliveries |->
          IF d \in S THEN [receipt[d] EXCEPT !.attempts = CountedClaim(d)] ELSE receipt[d]]
    /\ due' = due \ S
    /\ claim' = [claim EXCEPT ![p] =
          [d \in Deliveries |->
              IF d \in S THEN [attempts |-> CountedClaim(d), update |-> Nobody, prune |-> FALSE]
              ELSE Nobody]]
    /\ UNCHANGED <<clock, registration, sent, aged, faults>>

\* resultFor when there is no usable answer: another try, or the end.
WithoutAnswer(p, d) ==
    IF claim[p][d].attempts >= MaxAttempts \/ d \in aged THEN "expired" ELSE "pending"

Decided(p, d, status, prune) ==
    claim' = [claim EXCEPT ![p][d].update = status, ![p][d].prune = prune]

\* Too often or too late: the provider is not asked.
Expire(p, d) ==
    /\ claim[p][d] # Nobody
    /\ claim[p][d].update = Nobody
    /\ claim[p][d].attempts > MaxAttempts \/ d \in aged
    /\ Decided(p, d, WithoutAnswer(p, d), FALSE)
    /\ UNCHANGED <<clock, registration, sent, receipt, due, aged, faults>>

\* The provider answered for the chunk, or the request failed.  The row was
\* put in the chunk before it aged, so it may be aged by now.
Answered(p, d, answer) ==
    /\ claim[p][d] # Nobody
    /\ claim[p][d].update = Nobody
    /\ claim[p][d].attempts <= MaxAttempts
    /\ CASE answer = "ok" -> Decided(p, d, "ok", FALSE)
         [] answer = "error" -> Decided(p, d, "error", FALSE)
         [] answer = "DeviceNotRegistered" -> Decided(p, d, "error", TRUE)
         [] answer = "unusable" -> Decided(p, d, WithoutAnswer(p, d), FALSE)
    /\ UNCHANGED <<clock, registration, sent, receipt, due, aged, faults>>

\* Mutant: whoever answers for a pending row decides it.
FencedByStatus(p, d) == Pending(d)

\* Mutant: no guard, the row is written by whoever comes.
Unfenced(p, d) == TRUE

\* The guarded UPDATE: the row is still pending and this claim is its last.
Fenced(p, d) == Pending(d) /\ receipt[d].attempts = claim[p][d].attempts

\* Mutant: the registration is known by its id alone.
IsSameRow(reg, row) == reg # Nobody /\ reg.id = row.link

\* The registration the row was sent to, at the version it was sent to.
IsSentTo(reg, row) ==
    /\ reg # Nobody
    /\ reg.id = row.link
    /\ reg.user = row.user
    /\ reg.createdAt = row.createdAt

\* finish, one transaction.
Finish(p, d) ==
    /\ claim[p][d] # Nobody
    /\ claim[p][d].update # Nobody
    /\ LET written == [receipt EXCEPT ![d].status = claim[p][d].update]
           doomed == {t \in Tokens : claim[p][d].prune /\ IsSentTo(registration[t], receipt[d])}
       IN  IF Fenced(p, d)
           THEN /\ registration' =
                     [t \in Tokens |-> IF t \in doomed THEN Nobody ELSE registration[t]]
                /\ receipt' = IF doomed = {} THEN written ELSE Unlinked(receipt[d].link, written)
                \* next_check_at: the backoff, or the 24th hour if that is sooner.
                /\ due' = IF claim[p][d].update = "pending" /\ d \in aged
                          THEN due \cup {d} ELSE due \ {d}
           ELSE UNCHANGED <<registration, receipt, due>>
    /\ claim' = [claim EXCEPT ![p][d] = Nobody]
    /\ UNCHANGED <<clock, sent, aged, faults>>

\* The transaction rolls back; the other rows of the batch are still
\* finished, then the poller ends with the error and is started again.
FinishFails(p, d) ==
    /\ claim[p][d] # Nobody
    /\ claim[p][d].update # Nobody
    /\ Fault
    /\ claim' = [claim EXCEPT ![p][d] = Nobody]
    /\ UNCHANGED <<clock, registration, sent, receipt, due, aged>>

\* The process is killed and started again: its batch is left to the lease.
Crash(p) ==
    /\ \E d \in Deliveries : claim[p][d] # Nobody
    /\ Fault
    /\ claim' = [claim EXCEPT ![p] = [d \in Deliveries |-> Nobody]]
    /\ UNCHANGED <<clock, registration, sent, receipt, due, aged>>

-----------------------------------------------------------------------------
(* Time.                                                                   *)

HoldsNewest(p, d) == claim[p][d] # Nobody /\ claim[p][d].attempts = receipt[d].attempts

\* next_check_at passes: the first check, a retry, or the lease of a poller
\* that has gone.
CheckDue(d) ==
    /\ Pending(d)
    /\ d \notin due
    /\ \A p \in Pollers : ~HoldsNewest(p, d)
    /\ due' = due \cup {d}
    /\ UNCHANGED <<clock, registration, sent, receipt, aged, claim, faults>>

\* A poller that is still at work on its batch outruns its lease.
LeaseOutrun(d) ==
    /\ Pending(d)
    /\ d \notin due
    /\ \E p \in Pollers : HoldsNewest(p, d)
    /\ Fault
    /\ due' = due \cup {d}
    /\ UNCHANGED <<clock, registration, sent, receipt, aged, claim>>

\* 24 hours after acceptance.  No next_check_at is later than that, except a
\* lease taken after it.
Ages(d) ==
    /\ Pending(d)
    /\ d \notin aged
    /\ aged' = aged \cup {d}
    /\ due' = due \cup {d}
    /\ UNCHANGED <<clock, registration, sent, receipt, claim, faults>>

-----------------------------------------------------------------------------
Registration ==
    \E u \in Users, t \in Tokens : Register(u, t) \/ Remove(u, t)

Worker ==
    \E d \in Deliveries : RecordTicket(d) \/ \E t \in Tokens : Send(d, t)

Decide(p, d) == Expire(p, d) \/ \E answer \in Answers : Answered(p, d, answer)

Poll(p) ==
    \/ \E S \in SUBSET Deliveries : ClaimBatch(p, S)
    \/ \E d \in Deliveries : Decide(p, d) \/ Finish(p, d) \/ FinishFails(p, d)
    \/ Crash(p)

Time == \E d \in Deliveries : CheckDue(d) \/ LeaseOutrun(d) \/ Ages(d)

Next == Registration \/ Worker \/ (\E p \in Pollers : Poll(p)) \/ Time

Spec == Init /\ [][Next]_vars

\* Pollers poll and are started again, the oldest due receipt is claimed
\* first, every await returns, and time passes.  Nothing is assumed of the
\* 24th hour: the count alone ends the polling.
Fairness ==
    /\ \A d \in Deliveries : WF_vars(CheckDue(d))
    /\ \A d \in Deliveries :
          SF_vars(\E p \in Pollers, S \in SUBSET Deliveries : d \in S /\ ClaimBatch(p, S))
    /\ \A p \in Pollers, d \in Deliveries : WF_vars(Decide(p, d)) /\ WF_vars(Finish(p, d))

FairSpec == Spec /\ Fairness

-----------------------------------------------------------------------------
(* Properties.                                                             *)

\* Every variable has the type of its columns.
TypeOK ==
    /\ clock \in 0..MaxClock
    /\ registration \in [Tokens -> Registrations \cup {Nobody}]
    /\ sent \in [Deliveries -> Registrations \cup {Nobody}]
    /\ receipt \in [Deliveries -> Rows \cup {Nobody}]
    /\ due \subseteq Deliveries
    /\ aged \subseteq Deliveries
    /\ claim \in [Pollers -> [Deliveries -> Claims \cup {Nobody}]]
    /\ faults \in 0..MaxFaults

\* The nullable foreign key holds, with the registration removed, replaced
\* or pruned while the push, its recording or its poll was on its way; and
\* what it links has the token that was pushed to.
LinksExist ==
    \A d \in Deliveries : receipt[d] # Nobody /\ receipt[d].link # Nobody =>
        \E t \in Tokens :
            registration[t] # Nobody /\ registration[t].id = receipt[d].link /\ sent[d].token = t

\* A late receipt prunes only what its push was sent to: a registration made
\* or renewed since, by the same user or another, is never taken away.
PrunesOnlyTheSent ==
    [][\A t \in Tokens : registration[t] # Nobody /\ registration'[t] = Nobody =>
          \/ \E u \in Users : Remove(u, t)
          \/ \E d \in Deliveries :
                sent[d] = registration[t] /\ receipt'[d] # Nobody /\ receipt'[d].status = "error"]_vars

Terminal(d) == receipt[d] # Nobody /\ receipt[d].status # "pending"

\* A receipt is decided once: no poller that answers late, after its lease
\* and another's answer, changes it.
TerminalIsFinal ==
    [][\A d \in Deliveries : Terminal(d) => receipt'[d].status = receipt[d].status]_vars

\* Only the newest claim of a receipt decides it: while a poller holds a claim
\* that no later one replaced, nobody else's answer ends the receipt.
NewestClaimDecides ==
    [][\A p \in Pollers, d \in Deliveries :
          /\ Pending(d)
          /\ HoldsNewest(p, d)
          /\ receipt'[d].status # "pending"
          => claim'[p][d] = Nobody]_vars

\* The polling of a receipt ends, whatever the provider answers.
ReceiptSettles ==
    \A d \in Deliveries : Pending(d) ~> Terminal(d)
=============================================================================
