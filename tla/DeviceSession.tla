--------------------------- MODULE DeviceSession ---------------------------
(***************************************************************************)
(* One installation of the app: push-token registration, sign-out, the     *)
(* magic-link callback and the reconcile of the remembered token, sharing  *)
(* one FIFO lane whose steps are bounded, and the rows the API keeps for   *)
(* this installation's tokens.                                             *)
(*                                                                         *)
(* A job is one press, one opened link or one reconcile.  A lane step ends *)
(* at its bound whether or not it was answered: its request may still      *)
(* reach the server, and a session or storage read may still resume it.    *)
(* AsyncStorage answers in call order, so a write takes effect when it is  *)
(* issued and a read sees what it held when the read was issued.           *)
(***************************************************************************)
EXTENDS Integers, Sequences, FiniteSets

CONSTANTS
    Users,          \* accounts that sign in on this installation
    Tokens,         \* Expo push tokens this installation is given, in turn
    Jobs,           \* names for the jobs, as many as there will be
    Known,          \* the accounts that already have a users row
    None,           \* no session, no token, no owner
    MaxFaults       \* bound: failed storage, refused calls, expiries, kills

ASSUME KnownAssumption == Known \subseteq Users
ASSUME NoneAssumption == None \notin Users \cup Tokens \cup Jobs
ASSUME BoundAssumption == MaxFaults \in Nat

VARIABLES
    \* Kept by the device.
    session,        \* the stored Supabase session's user
    remembered,     \* AsyncStorage: peak-fanout.registered-push-token
    minted,         \* what getExpoPushTokenAsync answers
    \* Kept by the server.
    owner,          \* push_tokens: the user of each token's row
    accounts,       \* users with a row
    \* The running app.
    job,            \* every job
    lane,           \* sessionLane: the running step's job, then those queued
    links,          \* the callback's own lane: one link after the other
    slot,           \* the Me card's one attempt: user, job and status
    card,           \* the loaded ['me', userId] query: its user and tokens
    reconciled,     \* reconciledFor: the user of the last reconcile that could learn
    screen,         \* the callback screen: the link of handledUrl, and its error
    \* The surroundings.
    faults,
    excused         \* history: tokens with a row left behind for a named reason

serverVars == <<owner, accounts>>
uiVars == <<slot, card, reconciled, screen>>
vars == <<session, remembered, minted, serverVars, job, lane, links, uiVars,
          faults, excused>>

-----------------------------------------------------------------------------
Kinds == {"none", "register", "signOut", "link", "learn", "spent"}

\* Where a job is: before its lane step, in it, or past it.
Queued == {"queued", "undoQueued"}
InStep == {"reading", "sending", "confirming", "exchanging", "leaving",
           "undoSending", "undoLeaving"}
Over == {"late", "done"}
PastRequest == {"confirming", "leaving", "creating", "upserting", "undoQueued", "undoLeaving"}
Places == {"prompt", "waiting", "creating", "upserting"} \cup Queued \cup InStep \cup Over

Requests == {"none", "sent", "applied", "refused"}

\* prev is what the job's first read answered: the link's previous account, or
\* the storage for a reconcile.  signer signs its PUT or DELETE, req is how far
\* that request got, and poster signs a link's POST.
NoJob == [kind |-> "none", at |-> "done", user |-> None, token |-> None,
          prev |-> None, signer |-> None, req |-> "none", poster |-> None]

NoCard == [user |-> None, tokens |-> {}]
NoScreen == [link |-> None, failed |-> FALSE]

Init ==
    /\ session \in Known \cup {None}
    /\ minted \in Tokens
    /\ owner \in [Tokens -> {None, session}]
    /\ remembered \in {None} \cup {t \in Tokens : session # None /\ owner[t] = session}
    /\ accounts = Known
    /\ job = [j \in Jobs |-> NoJob]
    /\ lane = <<>>
    /\ links = <<>>
    /\ slot = [user |-> None, job |-> None, status |-> "idle"]
    /\ card = NoCard
    /\ reconciled = None
    /\ screen = NoScreen
    /\ faults = 0
    /\ excused = {}

Fault ==
    /\ faults < MaxFaults
    /\ faults' = faults + 1

\* getExpoPushTokenAsync answers t: the token it gave before, or a new one.
Mints(t) ==
    /\ minted' = t
    /\ IF t = minted THEN UNCHANGED faults ELSE Fault

Running(j) == lane # <<>> /\ Head(lane) = j

\* j is the step the lane runs, and it is of this kind and at this place.
In(j, k, p) == Running(j) /\ job[j].kind = k /\ job[j].at = p

\* A job of kind k begins; names are interchangeable.
Begins(j, k, p, u) ==
    /\ job[j].kind = "none"
    /\ job' = [job EXCEPT ![j] = [NoJob EXCEPT !.kind = k, !.at = p, !.user = u]]

Rows(u) == {t \in Tokens : owner[t] = u}

\* The rows a query answers with, kept while a reconcile, their only reader,
\* may still learn from them: nothing ever empties the remembered token.
Listed(u) == IF reconciled = u \/ remembered # None THEN {} ELSE Rows(u)

\* What nothing reads any more is dropped: an answered request the job is
\* past, and of a job at its end all but a request that may still arrive.
Tidy(r) ==
    CASE r.at = "done" /\ r.req = "sent" ->
            [r EXCEPT !.user = None, !.prev = None, !.poster = None]
      [] r.at = "done" /\ r.req # "sent" /\ r.kind # "none" -> [NoJob EXCEPT !.kind = "spent"]
      [] r.at \in PastRequest /\ r.req # "sent" ->
            [r EXCEPT !.token = None, !.signer = None, !.req = "none"]
      [] OTHER -> r

Ended(j) == Tidy([job[j] EXCEPT !.at = "done"])

Ends(j) == job' = [job EXCEPT ![j] = Ended(j)]

\* Mutant: the query cache outlives the session it was filled under.
SessionBecomesQuietly(u) == session' = u /\ UNCHANGED card

\* SessionProvider's apply: another user's query cache is cleared.
SessionBecomes(u) ==
    /\ session' = u
    /\ card' = IF u = session THEN card ELSE NoCard

\* Mutant: every attempt writes its ending.
ReportsAlways(j) == slot.job # None

\* pushTokenAttemptSeq: only the latest attempt writes its status.
Reports(j) == slot.job = j

Report(j, status) ==
    slot' = IF Reports(j) THEN [slot EXCEPT !.status = status] ELSE slot

\* visiblePushTokenStatus
VisibleStatus == IF slot.user = session THEN slot.status ELSE "idle"

\* The lane takes up the next step: its first await is a read of the
\* session (of the storage, for the reconcile) or, undoing a link, the clear.
Start(j) ==
    /\ Running(j)
    /\ job[j].at = "queued"
    /\ job' = [job EXCEPT ![j].at = "reading",
                          ![j].prev = IF job[j].kind = "learn" THEN remembered ELSE @]
    /\ UNCHANGED <<session, remembered, minted, serverVars, lane, links, uiVars,
                   faults, excused>>

-----------------------------------------------------------------------------
(* registerPushToken.                                                      *)

PressRegister(j) ==
    /\ session # None
    /\ card.user = session
    /\ VisibleStatus # "registering"
    /\ Begins(j, "register", "prompt", session)
    /\ slot' = [user |-> session, job |-> j, status |-> "registering"]
    /\ screen' = NoScreen
    /\ UNCHANGED <<session, remembered, minted, serverVars, lane, links, card,
                   reconciled, faults, excused>>

\* Permission granted and the token read: storePushToken enters the lane.
TokenRead(j) ==
    /\ job[j].kind = "register" /\ job[j].at = "prompt"
    /\ \E t \in Tokens :
          /\ Mints(t)
          /\ job' = [job EXCEPT ![j].at = "queued", ![j].token = t]
    /\ lane' = Append(lane, j)
    /\ UNCHANGED <<session, remembered, serverVars, links, uiVars, excused>>

\* permission_denied or unsupported.
TokenRefused(j) ==
    /\ job[j].kind = "register" /\ job[j].at = "prompt"
    /\ Ends(j)
    /\ Report(j, "error")
    /\ UNCHANGED <<session, remembered, minted, serverVars, lane, links, card,
                   reconciled, screen, faults, excused>>

\* The step's result is known: it leaves the lane and the card shows it.
EndRegister(j, status) ==
    /\ Ends(j)
    /\ lane' = Tail(lane)
    /\ Report(j, status)

\* The session read answers with another account or none: no PUT.
RegisterSkips(j) ==
    /\ In(j, "register", "reading")
    /\ session # job[j].user
    /\ EndRegister(j, "idle")
    /\ UNCHANGED <<session, remembered, minted, serverVars, links, card, reconciled, screen,
                   faults, excused>>

\* The session read answers in time: the PUT is signed with its token.
RegisterSends(j) ==
    /\ In(j, "register", "reading")
    /\ session = job[j].user
    /\ job' = [job EXCEPT ![j].at = "sending", ![j].signer = session, ![j].req = "sent"]
    /\ UNCHANGED <<session, remembered, minted, serverVars, lane, links, uiVars,
                   faults, excused>>

\* Mutant: a read that answers late still sends.
AbortedUnseen(j) == FALSE

\* signal.aborted
Aborted(j) == job[j].at = "late"

\* It answers after the bound: the PUT must not go out any more.
RegisterResumesLate(j) ==
    /\ job[j].kind = "register" /\ job[j].at = "late"
    /\ IF session = job[j].user /\ ~Aborted(j)
       THEN job' = [job EXCEPT ![j].at = "done", ![j].signer = session, ![j].req = "sent"]
       ELSE Ends(j)
    /\ UNCHANGED <<session, remembered, minted, serverVars, lane, links, uiVars,
                   faults, excused>>

\* The PUT answered 2xx: the token is remembered, or the write fails.
RegisterStored(j) ==
    /\ In(j, "register", "sending")
    /\ job[j].req = "applied"
    /\ job' = [job EXCEPT ![j] = Tidy([@ EXCEPT !.at = "confirming"])]
    /\ \/ remembered' = job[j].token /\ UNCHANGED faults
       \/ Fault /\ UNCHANGED remembered
    /\ UNCHANGED <<session, minted, serverVars, lane, links, uiVars, excused>>

\* The session read after it: the same user, or session_changed.
RegisterConfirms(j) ==
    /\ In(j, "register", "confirming")
    /\ EndRegister(j, "idle")
    /\ card' = IF session = job[j].user THEN [user |-> session, tokens |-> Listed(session)]
                                        ELSE card
    /\ UNCHANGED <<session, remembered, minted, serverVars, links, reconciled, screen, faults,
                   excused>>

\* A rejected read or request, or an API refusal.
RegisterFails(j) ==
    /\ Running(j)
    /\ job[j].kind = "register"
    /\ job[j].at \in {"reading", "sending", "confirming"}
    /\ EndRegister(j, IF job[j].at = "confirming" THEN "idle" ELSE "error")
    /\ UNCHANGED <<session, remembered, minted, serverVars, links, card, reconciled, screen,
                   faults, excused>>

\* Mutant: the bound covers the PUT alone.
BoundedByPut == {"sending"}

\* What withTimeout covers in storePushToken.
Bounded == {"reading", "sending", "confirming"}

\* PUSH_TOKEN_WRITE_TIMEOUT_MS: the step is abandoned where it waits.
RegisterTimesOut(j) ==
    /\ Running(j)
    /\ job[j].kind = "register"
    /\ job[j].at \in Bounded
    /\ job' = [job EXCEPT ![j] = IF job[j].at = "reading" THEN [@ EXCEPT !.at = "late"]
                                                          ELSE Ended(j)]
    /\ lane' = Tail(lane)
    /\ Report(j, IF job[j].at = "confirming" THEN "idle" ELSE "error")
    /\ UNCHANGED <<session, remembered, minted, serverVars, links, card, reconciled, screen,
                   faults, excused>>

-----------------------------------------------------------------------------
(* clearPushToken: a DELETE that names the remembered token.               *)

\* A clear that never reached the server leaves the row it names.
Left(j) == IF job[j].req = "sent" THEN {job[j].token} ELSE {}

\* Rows of u that a clear naming t does not delete.
Unnamed(u, t) == {x \in Tokens \ {t} : u # None /\ owner[x] = u}

\* The request, signed as u, once the storage read has answered (or failed).
ClearSends(j, p, u) ==
    \/ /\ job' = [job EXCEPT ![j].at = p, ![j].signer = u, ![j].token = remembered,
                             ![j].req = "sent"]
       /\ excused' = excused \cup Unnamed(u, remembered)
       /\ UNCHANGED faults
    \/ /\ Fault
       /\ job' = [job EXCEPT ![j].at = p, ![j].signer = u, ![j].req = "sent"]
       /\ excused' = excused \cup Unnamed(u, None)

\* The clear is over, answered, failed or abandoned at the bound.
ClearEnds(j, p) ==
    /\ job' = [job EXCEPT ![j] = Tidy([@ EXCEPT !.at = p])]
    /\ excused' = excused \cup (Left(j) \ {None})

-----------------------------------------------------------------------------
(* signOutWithFeedback.                                                    *)

\* The button is inactive while a sign-out runs.
PressSignOut(j) ==
    /\ session # None
    /\ \A i \in Jobs : job[i].kind = "signOut" => job[i].at = "done"
    /\ Begins(j, "signOut", "queued", None)
    /\ lane' = Append(lane, j)
    /\ screen' = NoScreen
    /\ UNCHANGED <<session, remembered, minted, serverVars, links, slot, card,
                   reconciled, faults, excused>>

\* The session read: one snapshot signs the clear; no session, no clear.
SignOutReads(j) ==
    /\ In(j, "signOut", "reading")
    /\ IF session = None
       THEN /\ job' = [job EXCEPT ![j].at = "leaving"]
            /\ UNCHANGED <<faults, excused>>
       ELSE ClearSends(j, "sending", session)
    /\ UNCHANGED <<session, remembered, minted, serverVars, lane, links, uiVars>>

\* The clear answered: the card shows the rows as the server has them.
SignOutCleared(j) ==
    /\ In(j, "signOut", "sending")
    /\ job[j].req = "applied"
    /\ ClearEnds(j, "leaving")
    /\ card' = IF card.user = job[j].signer THEN [card EXCEPT !.tokens = Listed(card.user)]
                                            ELSE card
    /\ UNCHANGED <<session, remembered, minted, serverVars, lane, links, slot,
                   reconciled, screen, faults>>

\* A failed clear, or one not answered within the bound, is ignored.
SignOutGivesUpClear(j) ==
    /\ \/ In(j, "signOut", "reading")
       \/ In(j, "signOut", "sending")
    /\ job' = [job EXCEPT ![j] = Tidy([@ EXCEPT !.at = "leaving"])]
    /\ excused' = excused \cup (IF job[j].at = "reading" THEN Unnamed(session, None)
                              ELSE Left(j) \ {None})
    /\ UNCHANGED <<session, remembered, minted, serverVars, lane, links, uiVars, faults>>

\* supabase.auth.signOut(), which keeps the session when it fails.
SignOutLeaves(j) ==
    /\ In(j, "signOut", "leaving")
    /\ \/ SessionBecomes(None) /\ UNCHANGED faults
       \/ Fault /\ UNCHANGED <<session, card>>
    /\ Ends(j)
    /\ lane' = Tail(lane)
    /\ UNCHANGED <<remembered, minted, serverVars, links, slot, reconciled, screen, excused>>

-----------------------------------------------------------------------------
(* createSignInCompleter and the callback screen.                          *)

\* Mutant: whichever link settles, the screen tells of it.
IsAnyLink(j) == screen.link # None

\* handledUrl: the link opened last, while its screen is there.
IsLatest(j) == screen.link = j

TellsOfFailure(j) ==
    screen' = IF IsLatest(j) THEN [screen EXCEPT !.failed = TRUE] ELSE screen

\* A link for u is opened, and the callback screen shows it in place of the
\* one before.  Who presses on the Me card has left that screen.
OpenLink(j, u) ==
    /\ Begins(j, "link", "waiting", u)
    /\ links' = Append(links, j)
    /\ screen' = [link |-> j, failed |-> FALSE]
    /\ UNCHANGED <<session, remembered, minted, serverVars, lane, slot, card, reconciled,
                   faults, excused>>

\* parseAuthCallback refuses the link: it waits for nothing, and its error
\* shows at once, whatever an earlier link is at.
OpenRefusedLink(j) ==
    /\ Begins(j, "spent", "done", None)
    /\ screen' = [link |-> j, failed |-> TRUE]
    /\ UNCHANGED <<session, remembered, minted, serverVars, lane, links, slot, card, reconciled,
                   faults, excused>>

\* Mutant: links do not wait for one another.
TurnOfAny(j) == \E n \in 1..Len(links) : links[n] = j

\* attempts: a link starts when the one before it has settled.
Turn(j) == links # <<>> /\ Head(links) = j

LinkEnters(j) ==
    /\ job[j].kind = "link" /\ job[j].at = "waiting"
    /\ Turn(j)
    /\ job' = [job EXCEPT ![j].at = "queued"]
    /\ lane' = Append(lane, j)
    /\ UNCHANGED <<session, remembered, minted, serverVars, links, uiVars, faults,
                   excused>>

\* readPreviousSession
LinkReadsPrevious(j) ==
    /\ In(j, "link", "reading")
    /\ job' = [job EXCEPT ![j].at = "exchanging", ![j].prev = session]
    /\ UNCHANGED <<session, remembered, minted, serverVars, lane, links, uiVars, faults,
                   excused>>

\* The read failed, or did not answer within its bound: as with no session, no
\* clear will name what the account left by the exchange has registered.
LinkMissesPrevious(j) ==
    /\ In(j, "link", "reading")
    /\ job' = [job EXCEPT ![j].at = "exchanging"]
    /\ excused' = excused \cup Unnamed(session, None)
    /\ UNCHANGED <<session, remembered, minted, serverVars, lane, links, uiVars, faults>>

\* The link, the first of them, has settled: the next one may start.
LinkSettles == links' = Tail(links)

\* exchangeCode refused the code: the session stays what it was.
LinkRefused(j) ==
    /\ In(j, "link", "exchanging")
    /\ Ends(j)
    /\ lane' = Tail(lane)
    /\ LinkSettles
    /\ TellsOfFailure(j)
    /\ UNCHANGED <<session, remembered, minted, serverVars, slot, card, reconciled,
                   faults, excused>>

\* Mutant: the account a switch leaves keeps its registration.
SwitchesNever(j) == FALSE

\* previous && previous.userId !== exchanged.userId
Switches(j) == job[j].prev # None /\ job[j].prev # job[j].user

\* The code is exchanged, and another account's registration cleared.
LinkExchanges(j) ==
    /\ In(j, "link", "exchanging")
    /\ SessionBecomes(job[j].user)
    /\ IF Switches(j)
       THEN ClearSends(j, "sending", job[j].prev) /\ UNCHANGED lane
       ELSE /\ job' = [job EXCEPT ![j].at = "creating"]
            /\ lane' = Tail(lane)
            /\ UNCHANGED <<faults, excused>>
    /\ UNCHANGED <<remembered, minted, serverVars, links, slot, reconciled, screen>>

\* clearKeptPushToken, answered or not.
LinkCleared(j) ==
    /\ In(j, "link", "sending")
    /\ ClearEnds(j, "creating")
    /\ lane' = Tail(lane)
    /\ UNCHANGED <<session, remembered, minted, serverVars, links, uiVars, faults>>

\* POST /auth/session goes out, signed as whoever is signed in by now.
LinkPosts(j) ==
    /\ job[j].kind = "link" /\ job[j].at = "creating"
    /\ job' = [job EXCEPT ![j].at = "upserting", ![j].poster = session]
    /\ UNCHANGED <<session, remembered, minted, serverVars, lane, links, uiVars,
                   faults, excused>>

LinkSignedIn(j) ==
    /\ job[j].kind = "link" /\ job[j].at = "upserting"
    /\ job[j].poster # None
    /\ accounts' = accounts \cup {job[j].poster}
    /\ Ends(j)
    /\ LinkSettles
    /\ screen' = IF IsLatest(j) THEN NoScreen ELSE screen
    /\ UNCHANGED <<session, remembered, minted, owner, lane, slot, card, reconciled,
                   faults, excused>>

\* It failed, with or without its effect, or nobody was signed in: one further
\* lane step undoes the link.
LinkUnposted(j) ==
    /\ job[j].kind = "link" /\ job[j].at = "upserting"
    /\ IF job[j].poster = None THEN UNCHANGED faults ELSE Fault
    /\ accounts' \in {accounts, accounts \cup ({job[j].poster} \ {None})}
    /\ job' = [job EXCEPT ![j].at = "undoQueued", ![j].poster = None]
    /\ lane' = Append(lane, j)
    /\ UNCHANGED <<session, remembered, minted, owner, links, uiVars, excused>>

\* previous && !previousClearAttempted: the clear not made yet.
UndoStarts(j) ==
    /\ Running(j)
    /\ job[j].at = "undoQueued"
    /\ IF job[j].prev # None /\ ~Switches(j)
       THEN ClearSends(j, "undoSending", job[j].prev)
       ELSE /\ job' = [job EXCEPT ![j].at = "undoLeaving"]
            /\ UNCHANGED <<faults, excused>>
    /\ UNCHANGED <<session, remembered, minted, serverVars, lane, links, uiVars>>

UndoCleared(j) ==
    /\ In(j, "link", "undoSending")
    /\ ClearEnds(j, "undoLeaving")
    /\ UNCHANGED <<session, remembered, minted, serverVars, lane, links, uiVars, faults>>

\* What the link's own account registered since the exchange: the only clear
\* an undo makes is for the account it found signed in, so unless that is the
\* same one, nobody deletes these rows.
Unclaimed(j) == IF job[j].prev = job[j].user THEN {} ELSE Unnamed(job[j].user, None)

\* signOutLocal; nothing looks at its failure, which keeps the session.
UndoLeaves(j) ==
    /\ In(j, "link", "undoLeaving")
    /\ \/ /\ SessionBecomes(None)
          /\ excused' = excused \cup Unclaimed(j)
          /\ UNCHANGED faults
       \/ /\ Fault
          /\ UNCHANGED <<session, card, excused>>
    /\ Ends(j)
    /\ lane' = Tail(lane)
    /\ LinkSettles
    /\ TellsOfFailure(j)
    /\ UNCHANGED <<remembered, minted, serverVars, slot, reconciled>>

-----------------------------------------------------------------------------
(* The Me query and the reconcile of the remembered token.                 *)

\* fetchMeWithRecovery: GET /me, and the upsert first after a 404.
LoadMe ==
    /\ session # None
    /\ accounts' = accounts \cup {session}
    /\ card' = [user |-> session, tokens |-> Listed(session)]
    /\ UNCHANGED <<session, remembered, minted, owner, job, lane, links, slot,
                   reconciled, screen, faults, excused>>

\* reconcileIsDue: once for the account whose card is loaded.  With a token
\* remembered, the run only answers that token.
Reconciles ==
    /\ card.user = session /\ session # None
    /\ remembered = None
    /\ reconciled # session
    /\ reconciled' = session
    /\ card' = [card EXCEPT !.tokens = {}]

\* Nothing is learned: no token can be read, or the card does not list it.
ReconcileEnds ==
    /\ Reconciles
    /\ UNCHANGED <<session, remembered, minted, serverVars, job, lane, links, slot, screen,
                   faults, excused>>

\* Nothing remembered: the device's token is read, and the card lists it.
ReconcileStarts(j) ==
    /\ job[j].kind = "none"
    /\ Reconciles
    /\ \E t \in card.tokens :
          /\ Mints(t)
          /\ job' = [job EXCEPT ![j] = [NoJob EXCEPT !.kind = "learn", !.at = "prompt",
                                                     !.token = t]]
    /\ UNCHANGED <<session, remembered, serverVars, lane, links, slot, screen, excused>>

\* The device's token has been read and is listed: the write takes its turn.
ReconcileEnters(j) ==
    /\ job[j].kind = "learn" /\ job[j].at = "prompt"
    /\ job' = [job EXCEPT ![j].at = "queued"]
    /\ lane' = Append(lane, j)
    /\ UNCHANGED <<session, remembered, minted, serverVars, links, uiVars, faults,
                   excused>>

\* Mutant: the storage is not read again in the lane.
RereadNever(j) == None

\* What the re-read of the step answers: the storage when it was asked.
Reread(j) == job[j].prev

\* rememberLearnedPushToken: written only where nothing was remembered, and
\* not by a re-read that answers after the bound.
Learns(j) ==
    /\ job[j].kind = "learn"
    /\ In(j, "learn", "reading") \/ job[j].at = "late"
    /\ \/ /\ remembered' = IF Reread(j) = None /\ ~Aborted(j) THEN job[j].token
                                                              ELSE remembered
          /\ UNCHANGED faults
       \/ Fault /\ UNCHANGED remembered
    /\ Ends(j)
    /\ lane' = IF Running(j) THEN Tail(lane) ELSE lane
    /\ UNCHANGED <<session, minted, serverVars, links, uiVars, excused>>

LearnTimesOut(j) ==
    /\ In(j, "learn", "reading")
    /\ job' = [job EXCEPT ![j].at = "late"]
    /\ lane' = Tail(lane)
    /\ UNCHANGED <<session, remembered, minted, serverVars, links, uiVars, faults,
                   excused>>

-----------------------------------------------------------------------------
(* The API, and what happens to the device.                                *)

\* Whether the app still waits for the answer to j's request.
Awaited(j) == Running(j) /\ job[j].at \in {"sending", "undoSending"}

\* registerForUser: the row is created, renewed or moved to the signer.
PutArrives(j) ==
    /\ job[j].kind = "register" /\ job[j].req = "sent"
    /\ IF job[j].signer \in accounts
       THEN /\ owner' = [owner EXCEPT ![job[j].token] = job[j].signer]
            /\ excused' = IF ~Awaited(j) THEN excused \cup {job[j].token}
                          ELSE IF job[j].signer = session THEN excused \ {job[j].token}
                          ELSE excused
            /\ job' = [job EXCEPT ![j] = Tidy([@ EXCEPT !.req = "applied"])]
       ELSE /\ job' = [job EXCEPT ![j] = Tidy([@ EXCEPT !.req = "refused"])]
            /\ UNCHANGED <<owner, excused>>
    /\ UNCHANGED <<session, remembered, minted, accounts, lane, links, uiVars, faults>>

\* removeForUser: only the signer's row of the named token; no body, no row.
DeleteArrives(j) ==
    /\ job[j].kind # "register" /\ job[j].req = "sent"
    /\ IF job[j].signer \in accounts
       THEN /\ owner' = [t \in Tokens |-> IF t = job[j].token /\ owner[t] = job[j].signer
                                          THEN None ELSE owner[t]]
            /\ job' = [job EXCEPT ![j] = Tidy([@ EXCEPT !.req = "applied"])]
       ELSE /\ job' = [job EXCEPT ![j] = Tidy([@ EXCEPT !.req = "refused"])]
            /\ UNCHANGED owner
    /\ UNCHANGED <<session, remembered, minted, accounts, lane, links, uiVars, faults,
                   excused>>

\* A refresh token is refused: supabase-js drops the session, which can no
\* longer sign a clear of its rows, those about to be written included.
SessionExpires ==
    /\ session # None
    /\ Fault
    /\ SessionBecomes(None)
    /\ excused' = excused \cup Unnamed(session, None)
                         \cup {job[j].token : j \in {i \in Jobs : /\ job[i].kind = "register"
                                                                 /\ job[i].req = "sent"}}
    /\ UNCHANGED <<remembered, minted, serverVars, job, lane, links, slot, reconciled, screen>>

\* The app is killed and started again: what it stored is what is left.
Kill ==
    /\ lane # <<>> \/ links # <<>>
    /\ Fault
    /\ job' = [j \in Jobs |-> Ended(j)]
    /\ lane' = <<>>
    /\ links' = <<>>
    /\ slot' = [user |-> None, job |-> None, status |-> "idle"]
    /\ card' = NoCard
    /\ reconciled' = None
    /\ screen' = NoScreen
    /\ excused' = excused \cup ((UNION {Left(j) : j \in {i \in Jobs : job[i].kind # "register"}})
                                \ {None})
    /\ UNCHANGED <<session, remembered, minted, serverVars>>

-----------------------------------------------------------------------------
Register(j) ==
    \/ TokenRead(j) \/ TokenRefused(j) \/ RegisterSkips(j) \/ RegisterSends(j)
    \/ RegisterResumesLate(j) \/ RegisterStored(j) \/ RegisterConfirms(j) \/ RegisterFails(j)

SignOut(j) == SignOutReads(j) \/ SignOutCleared(j) \/ SignOutLeaves(j)

Link(j) ==
    \/ LinkReadsPrevious(j) \/ LinkRefused(j) \/ LinkExchanges(j)
    \/ LinkPosts(j) \/ LinkSignedIn(j) \/ LinkUnposted(j) \/ UndoLeaves(j)

Bounds(j) ==
    \/ RegisterTimesOut(j) \/ SignOutGivesUpClear(j) \/ LinkMissesPrevious(j) \/ LinkCleared(j)
    \/ UndoCleared(j) \/ LearnTimesOut(j)

Enters(j) == Start(j) \/ UndoStarts(j) \/ LinkEnters(j)

\* Where a lane step awaits a call under no withTimeout: exchangeCode, the
\* sign-out of the Me card and the signOutLocal of an undo.
Unbounded == {"exchanging", "leaving", "undoLeaving"}

Next ==
    \/ \E j \in Jobs :
          \/ PressRegister(j) \/ PressSignOut(j)
          \/ (\E u \in Users : OpenLink(j, u)) \/ OpenRefusedLink(j)
          \/ Enters(j) \/ Bounds(j)
          \/ Register(j) \/ SignOut(j) \/ Link(j)
          \/ ReconcileStarts(j) \/ ReconcileEnters(j) \/ Learns(j)
          \/ PutArrives(j) \/ DeleteArrives(j)
    \/ LoadMe \/ ReconcileEnds
    \/ SessionExpires
    \/ Kill

Spec == Init /\ [][Next]_vars

-----------------------------------------------------------------------------
(* Properties.                                                             *)

\* Every variable keeps its type.
TypeOK ==
    /\ session \in Users \cup {None}
    /\ remembered \in Tokens \cup {None}
    /\ minted \in Tokens
    /\ owner \in [Tokens -> Users \cup {None}]
    /\ accounts \subseteq Users
    /\ job \in [Jobs -> [kind : Kinds, at : Places, user : Users \cup {None},
                         token : Tokens \cup {None}, prev : Users \cup Tokens \cup {None},
                         signer : Users \cup {None}, req : Requests,
                         poster : Users \cup {None}]]
    /\ lane \in Seq(Jobs) /\ links \in Seq(Jobs)
    /\ slot \in [user : Users \cup {None}, job : Jobs \cup {None},
                 status : {"idle", "registering", "error"}]
    /\ card \in [user : Users \cup {None}, tokens : SUBSET Tokens]
    /\ reconciled \in Users \cup {None}
    /\ screen \in [link : Jobs \cup {None}, failed : BOOLEAN]
    /\ faults \in 0..MaxFaults
    /\ excused \subseteq Tokens

\* Once the lane is empty, an account that is not signed in keeps no row of
\* this installation but the excused ones: its clear failed, was abandoned or
\* could not name it; a PUT landed after its step was abandoned; its session
\* expired, or could not be read when a link or a sign-out left it; or a link
\* signed it in, it registered, and the link's upsert then failed, whose undo
\* signs it out without a clear (Unclaimed).
NoRowLeftBehind ==
    lane = <<>> => \A t \in Tokens \ excused : owner[t] \in {None, session}

\* A link whose upsert failed signs out the session it made, or none: never
\* one that a later link made.
LinkUndoesItself ==
    \A j \in Jobs : In(j, "link", "undoLeaving") => session \in {None, job[j].user}

\* The Me card is the signed-in user's, and its state the latest attempt's:
\* registering exactly while that runs, whatever earlier attempts of other
\* accounts do meanwhile.  The callback screen shows an error exactly when the
\* link opened last has failed, whatever earlier links do meanwhile.
ScreensFollowLatest ==
    /\ card.user \in {session, None}
    /\ slot.job # None =>
          (slot.status = "registering" <=> job[slot.job].at \notin Over)
    /\ screen.link # None => (screen.failed <=> job[screen.link].at = "done")

\* A remembered token is replaced only by a PUT that answered: neither the
\* reconcile nor a step past its bound puts an older one in its place.
OnlyAPutReplaces ==
    [][remembered # None /\ remembered' # remembered =>
        \E j \in Jobs : /\ Running(j) /\ job[j].req = "applied"
                        /\ remembered' = job[j].token]_vars

\* No PUT goes out from a step the lane has left.
PutsStayInTheLane ==
    [][\A j \in Jobs : job[j].req # "sent" /\ job'[j].req = "sent" => Running(j)]_vars

\* With nothing answered, by the network, the storage or the session, the lane
\* moves the step it is at, itself or by a timer of the phone, unless that step
\* is in one of the three calls with no bound; there it stays until an answer.
OnlyUnboundedCallsHold ==
    lane # <<>> => LET j == Head(lane)
                   IN  ENABLED (Start(j) \/ UndoStarts(j) \/ Bounds(j)) <=> job[j].at \notin Unbounded
=============================================================================
