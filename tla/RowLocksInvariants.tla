------------------------- MODULE RowLocksInvariants -------------------------
(***************************************************************************)
(* What holds of RowLocks between any two statements, and is kept by each: *)
(* what every transaction still has to lock and what it holds (LocksInv),  *)
(* from which no waiting cycle but the documented ones can close; and what *)
(* the re-seed has locked and listed (SweepInv); and that no transaction   *)
(* has passed over a row it is to change (AtomicInv), with what each       *)
(* commits (CommitsAs).  ReceiptsProofs has the theorems.                  *)
(***************************************************************************)
EXTENDS RowLocks

Asks ==
  [table : {"job", "reminder", "token", "day", "receipt"},
   id : Reminders \cup OrdinaryUsers \cup Receipts \cup {1}, mode : Modes]

\* What a process can be at.
Transactions ==
  {"idle", "complete", "retry", "materialize", "enqueue", "cascade", "sweep",
   "remove", "register", "prune", "finish"}

\* The types of the state the locks depend on.
LockTypes ==
  /\ doing \in [Processes -> Transactions \X (Reminders \cup Receipts \cup {Nothing})]
  /\ plan \in [Processes -> Seq(Asks)]
  /\ held \in [Processes -> SUBSET Asks]
  /\ job \in [Reminders -> {"none", "open", "done", "gone"}]
  /\ token \in BOOLEAN
  /\ linked \subseteq Receipts
  /\ linked # {} => token

\* Two processes never hold locks of one row that conflict.
Exclusive ==
  \A p, q \in Processes : p # q =>
    \A a \in held[p], b \in held[q] :
      a.table = b.table /\ a.id = b.id => ~Conflicting(a.mode, b.mode)

\* The locks a list still asks for, and the locks of some rows of a table.
Rest(s) == {s[i] : i \in 1..Len(s)}
RowsOf(table, ids, mode) == {Ask(table, i, mode) : i \in ids}

TokenRow == Ask("token", 1, "update")
ReceiptRows == RowsOf("receipt", Receipts, "noKeyUpdate")

\* A worker's record of an attempt of r goes on to s, holding at most h: the
\* locks it has are those the list named before, and the reminder for its state
\* is the last of them.
RecordShape(r, s, h) ==
  LET J == Ask("job", r, "update")
      K == Ask("reminder", r, "keyShare")
      T == Ask("token", 1, "keyShare")
      N == Ask("reminder", r, "noKeyUpdate")
  IN  /\ h \subseteq {J, K, T, N}
      /\ \/ s \in {<<J, K, T, N>>, <<J, K, T>>, <<J, N>>} /\ h = {}
         \/ s \in {<<K, T, N>>, <<K, T>>} /\ h \subseteq {J}
         \/ s \in {<<T, N>>, <<T>>} /\ h \subseteq {J, K}
         \/ s = <<N>> /\ h \subseteq {J, K, T}
         \/ s = <<>>

\* A transaction of one lock.
SingleShape(a, s, h) ==
  \/ s = <<a>> /\ h = {}
  \/ s = <<>> /\ h \subseteq {a}

\* A sign-out or a prune has the token before any receipt.  One that goes on
\* without it found the row gone, and then no receipt is linked: the only one it
\* can still lock is the prune's own, which its list names once.
TokenFirstShape(t, s, h, l) ==
  LET own == Ask("receipt", t[2], "noKeyUpdate")
  IN  \/ /\ s # <<>> /\ Head(s) = TokenRow /\ h = {}
         /\ Rest(Tail(s)) \subseteq ReceiptRows
         /\ t[1] = "prune" => \A i, k \in 1..Len(s) : s[i] = own /\ s[k] = own => i = k
      \/ /\ Rest(s) \subseteq ReceiptRows
         /\ h \subseteq ReceiptRows \cup {TokenRow}
         /\ t[1] = "prune" => \A i, k \in 1..Len(s) : s[i] = own /\ s[k] = own => i = k
         /\ TokenRow \notin h =>
              /\ l = {}
              /\ h # {} => t[1] = "prune" /\ own \notin Rest(s)

\* Process p in transaction t, with the list s to go, the locks h and the linked
\* receipts l.
Shape(p, t, s, h, l) ==
  /\ t[1] = "idle" => t = Idle /\ s = <<>> /\ h = {}
  /\ t[1] \in {"complete", "retry"} => t[2] \in Reminders /\ RecordShape(t[2], s, h)
  /\ t[1] = "materialize" =>
       p \in Schedulers /\ Rest(s) \cup h \subseteq RowsOf("day", OrdinaryUsers, "update")
  /\ t[1] = "enqueue" =>
       p \in Schedulers /\ Rest(s) \cup h \subseteq RowsOf("reminder", Reminders, "noKeyUpdate")
  /\ t[1] = "cascade" =>
       p = Seed /\ Rest(s) \cup h \subseteq RowsOf("reminder", Reminders, "update")
  /\ t[1] = "sweep" =>
       /\ p = Seed /\ Rest(s) \subseteq RowsOf("job", Reminders, "update")
       /\ h \subseteq RowsOf("reminder", Reminders, "update") \cup RowsOf("job", Reminders, "update")
  /\ t[1] = "register" => SingleShape(Ask("token", 1, "noKeyUpdate"), s, h)
  /\ t[1] = "finish" => t[2] \in Receipts /\ SingleShape(Ask("receipt", t[2], "noKeyUpdate"), s, h)
  /\ t[1] = "prune" => t[2] \in Receipts
  /\ t[1] \in {"remove", "prune"} => TokenFirstShape(t, s, h, l)

Shaped == \A p \in Processes : Shape(p, doing[p], plan[p], held[p], linked)

\* The inductive invariant behind CyclesNeedTheSeed.
LocksInv == LockTypes /\ Exclusive /\ Shaped

\* The seed has, or will ask for, every reminder it is to delete and every
\* job it has listed; nothing is listed that is not there, nor missing.
SeedSees ==
  /\ doing[Seed][1] = "cascade" =>
       \A r \in Reminders : reminder[r] # "gone" =>
         Ask("reminder", r, "update") \in Rest(plan[Seed]) \cup held[Seed]
  /\ doing[Seed][1] = "sweep" =>
       /\ \A r \in Reminders : reminder[r] # "gone" =>
            Ask("reminder", r, "update") \in held[Seed]
       /\ sees = {r \in Reminders : job[r] \in {"open", "done"}}
       /\ \A r \in sees : Ask("job", r, "update") \in Rest(plan[Seed]) \cup held[Seed]

\* What a predicate selected stays selected while the row is locked.
StillSelected ==
  \A p \in Processes : \A r \in Reminders :
    /\ doing[p][1] = "enqueue" /\ Ask("reminder", r, "noKeyUpdate") \in held[p]
         => reminder[r] = "pending"
    /\ doing[p][1] \in {"complete", "retry"} =>
         /\ Ask("reminder", r, "noKeyUpdate") \in held[p] => reminder[r] = "queued"
         /\ Ask("job", r, "update") \in held[p] => job[r] \in {"open", "done"}

\* The inductive invariant behind NoOrphanJobs.
SweepInv == LocksInv /\ SeedSees /\ StillSelected /\ NoOrphanJobs

\* A reminder and its job agree whenever nothing is half committed.
RowsAgree ==
  /\ days \subseteq OrdinaryUsers
  /\ reminder \in [Reminders -> {"pending", "queued", "decided", "gone"}]
  /\ \A r \in Reminders :
       /\ reminder[r] = "pending" => job[r] = "none"
       /\ reminder[r] = "queued" <=> job[r] = "open"
       /\ reminder[r] = "decided" <=> job[r] = "done"

\* The locks that transaction t may not commit without, as the rows are now.
Needs(t) ==
  CASE t[1] = "materialize" -> RowsOf("day", OrdinaryUsers \ days, "update")
    [] t[1] = "enqueue" ->
         RowsOf("reminder", {r \in Reminders : reminder[r] = "pending"}, "noKeyUpdate")
    [] t[1] = "complete" ->
         RowsOf("job", {r \in {t[2]} : job[r] \in {"open", "done"}}, "update")
           \cup RowsOf("reminder", {r \in {t[2]} : reminder[r] = "queued"}, "noKeyUpdate")
    [] OTHER -> {}

\* A transaction has them or will ask for them, whatever has been committed
\* since it read what it is about; and a recorded job was opened once.
NothingMissed ==
  \A p \in Processes :
    /\ Needs(doing[p]) \subseteq Rest(plan[p]) \cup held[p]
    /\ doing[p][1] = "complete" => job[doing[p][2]] # "none"

\* The inductive invariant behind ImplementsTransactions.
AtomicInv == SweepInv /\ RowsAgree /\ NothingMissed

\* What the commit of p comes to in one step: an enqueue, a re-seed and a
\* materialisation are whole, a record is of an open job or changes nothing.
CommitsAs(p) ==
  /\ doing[p][1] = "materialize" => Atomic!Materialize
  /\ doing[p][1] = "enqueue" => Atomic!Enqueue
  /\ doing[p][1] = "sweep" => Atomic!Reseed
  /\ doing[p][1] = "complete" =>
       IF job[doing[p][2]] = "open" THEN Atomic!Complete(doing[p][2]) ELSE UNCHANGED Atomic!vars
  /\ doing[p][1] = "remove" => Atomic!RemoveToken
  /\ doing[p][1] = "prune" =>
       IF doing[p][2] \in linked THEN Atomic!RemoveToken ELSE UNCHANGED Atomic!vars
  /\ doing[p][1] = "register" => Atomic!RegisterToken
  /\ doing[p][1] \in {"retry", "finish"} => UNCHANGED Atomic!vars
=============================================================================
