------------------------ MODULE DeviceSessionProofs ------------------------
(***************************************************************************)
(* The device for any accounts, tokens, jobs and faults: steps of one lane *)
(* that may end unanswered, links that follow one another, and screens     *)
(* that tell of the latest attempt.                                        *)
(***************************************************************************)
EXTENDS DeviceSession, SequenceTheorems, TLAPS

JobRecords == [kind : Kinds, at : Places, user : Users \cup {None},
               token : Tokens \cup {None}, prev : Users \cup Tokens \cup {None},
               signer : Users \cup {None}, req : Requests, poster : Users \cup {None}]

\* A registration carries its token from the prompt to its PUT.  Only a
\* reconcile reads a token first; the other jobs read an account.
Fits(r) ==
    /\ r.kind = "register" =>
          /\ r.at \in {"prompt", "queued", "reading", "sending", "confirming", "late", "done"}
          /\ r.at \in {"queued", "reading", "sending", "late"} \/ r.req = "sent" => r.token \in Tokens
    /\ r.kind = "learn" => r.at \in {"prompt", "queued", "reading", "late", "done"}
    /\ r.kind # "learn" => r.prev \in Users \cup {None}

TypeInv == TypeOK /\ \A j \in Jobs : Fits(job[j])

\* The link's first read is over, with an answer or without one.
LinkReads(j) == LinkReadsPrevious(j) \/ LinkMissesPrevious(j)

-----------------------------------------------------------------------------
(* Types.                                                                  *)

LEMMA NoJobType == /\ NoJob \in JobRecords
                   /\ NoJob.kind = "none" /\ NoJob.at = "done" /\ NoJob.req = "none"
BY DEF NoJob, JobRecords, Kinds, Places, Requests, Over

\* Tidying a job keeps where it is, and of a job that is not over who runs it.
LEMMA Tidied ==
    ASSUME NEW r \in JobRecords
    PROVE  /\ Tidy(r) \in JobRecords
           /\ Tidy(r).at = r.at
           /\ Tidy(r).kind = r.kind \/ (Tidy(r).kind = "spent" /\ r.at = "done" /\ r.kind # "none")
           /\ r.at # "done" => Tidy(r).user = r.user /\ Tidy(r).prev = r.prev
           /\ Tidy(r).prev \in {r.prev, None} /\ (Tidy(r).kind # r.kind => Tidy(r).prev = None)
           /\ Tidy(r).req \in {r.req, "none"}
           /\ Tidy(r).req = "sent" \/ r.at \notin PastRequest \cup {"done"} => Tidy(r).token = r.token
<1>1. CASE r.at = "done" /\ r.req = "sent"
  <2>1. Tidy(r) = [r EXCEPT !.user = None, !.prev = None, !.poster = None]
    BY <1>1 DEF Tidy, PastRequest
  <2> QED  BY <1>1, <2>1 DEF JobRecords
<1>2. CASE r.at = "done" /\ r.req # "sent" /\ r.kind # "none"
  <2>1. Tidy(r) = [NoJob EXCEPT !.kind = "spent"]
    BY <1>2 DEF Tidy, PastRequest
  <2> QED  BY <1>2, <2>1, NoJobType DEF JobRecords, NoJob, Kinds
<1>3. CASE r.at \in PastRequest /\ r.req # "sent"
  <2>1. r.at # "done"
    BY <1>3 DEF PastRequest
  <2>2. Tidy(r) = [r EXCEPT !.token = None, !.signer = None, !.req = "none"]
    BY <1>3, <2>1 DEF Tidy
  <2>3. [r EXCEPT !.token = None, !.signer = None, !.req = "none"] \in JobRecords
    BY DEF JobRecords, Requests
  <2> QED  BY <1>3, <2>1, <2>2, <2>3 DEF JobRecords
<1>4. CASE /\ ~(r.at = "done" /\ r.req = "sent")
           /\ ~(r.at = "done" /\ r.req # "sent" /\ r.kind # "none")
           /\ ~(r.at \in PastRequest /\ r.req # "sent")
  <2>1. Tidy(r) = r
    BY <1>4 DEF Tidy
  <2> QED  BY <2>1
<1> QED  BY <1>1, <1>2, <1>3, <1>4

LEMMA TidiedAt ==
    ASSUME NEW r \in JobRecords, NEW p \in Places
    PROVE  /\ Tidy([r EXCEPT !.at = p]) \in JobRecords
           /\ Tidy([r EXCEPT !.at = p]).at = p
           /\ \/ Tidy([r EXCEPT !.at = p]).kind = r.kind
              \/ Tidy([r EXCEPT !.at = p]).kind = "spent" /\ p = "done" /\ r.kind # "none"
           /\ p # "done" => /\ Tidy([r EXCEPT !.at = p]).user = r.user
                            /\ Tidy([r EXCEPT !.at = p]).prev = r.prev
           /\ \/ Tidy([r EXCEPT !.at = p]).req = "sent"
              \/ p \notin PastRequest \cup {"done"}
              => Tidy([r EXCEPT !.at = p]).token = r.token
           /\ Tidy([r EXCEPT !.at = p]).prev \in {r.prev, None}
           /\ Tidy([r EXCEPT !.at = p]).kind # r.kind => Tidy([r EXCEPT !.at = p]).prev = None
           /\ Tidy([r EXCEPT !.at = p]).req \in {r.req, "none"}
<1>1. [r EXCEPT !.at = p] \in JobRecords /\ [r EXCEPT !.at = p].at = p
      /\ [r EXCEPT !.at = p].kind = r.kind /\ [r EXCEPT !.at = p].user = r.user /\ [r EXCEPT !.at = p].token = r.token
      /\ [r EXCEPT !.at = p].prev = r.prev /\ [r EXCEPT !.at = p].req = r.req
  BY DEF JobRecords
<1>2. \A s \in JobRecords :
           /\ Tidy(s) \in JobRecords
           /\ Tidy(s).at = s.at
           /\ Tidy(s).kind = s.kind \/ (Tidy(s).kind = "spent" /\ s.at = "done" /\ s.kind # "none")
           /\ s.at # "done" => Tidy(s).user = s.user /\ Tidy(s).prev = s.prev
           /\ Tidy(s).prev \in {s.prev, None} /\ (Tidy(s).kind # s.kind => Tidy(s).prev = None)
           /\ Tidy(s).req \in {s.req, "none"}
           /\ Tidy(s).req = "sent" \/ s.at \notin PastRequest \cup {"done"} => Tidy(s).token = s.token
  BY Tidied
<1> HIDE DEF JobRecords, Tidy
<1> DEFINE s == [r EXCEPT !.at = p]
<1> HIDE DEF s
<1> QED  BY <1>1, <1>2 DEF s

LEMMA TidiedReq ==
    ASSUME NEW r \in JobRecords, NEW q \in Requests
    PROVE  /\ Tidy([r EXCEPT !.req = q]) \in JobRecords
           /\ Tidy([r EXCEPT !.req = q]).at = r.at
           /\ \/ Tidy([r EXCEPT !.req = q]).kind = r.kind
              \/ Tidy([r EXCEPT !.req = q]).kind = "spent" /\ r.at = "done" /\ r.kind # "none"
           /\ r.at # "done" => /\ Tidy([r EXCEPT !.req = q]).user = r.user
                               /\ Tidy([r EXCEPT !.req = q]).prev = r.prev
           /\ \/ Tidy([r EXCEPT !.req = q]).req = "sent"
              \/ r.at \notin PastRequest \cup {"done"}
              => Tidy([r EXCEPT !.req = q]).token = r.token
           /\ Tidy([r EXCEPT !.req = q]).prev \in {r.prev, None}
           /\ Tidy([r EXCEPT !.req = q]).kind # r.kind => Tidy([r EXCEPT !.req = q]).prev = None
           /\ Tidy([r EXCEPT !.req = q]).req \in {q, "none"}
<1>1. [r EXCEPT !.req = q] \in JobRecords /\ [r EXCEPT !.req = q].at = r.at
      /\ [r EXCEPT !.req = q].kind = r.kind /\ [r EXCEPT !.req = q].user = r.user /\ [r EXCEPT !.req = q].token = r.token
      /\ [r EXCEPT !.req = q].prev = r.prev /\ [r EXCEPT !.req = q].req = q
  BY DEF JobRecords
<1>2. \A s \in JobRecords :
           /\ Tidy(s) \in JobRecords
           /\ Tidy(s).at = s.at
           /\ Tidy(s).kind = s.kind \/ (Tidy(s).kind = "spent" /\ s.at = "done" /\ s.kind # "none")
           /\ s.at # "done" => Tidy(s).user = s.user /\ Tidy(s).prev = s.prev
           /\ Tidy(s).prev \in {s.prev, None} /\ (Tidy(s).kind # s.kind => Tidy(s).prev = None)
           /\ Tidy(s).req \in {s.req, "none"}
           /\ Tidy(s).req = "sent" \/ s.at \notin PastRequest \cup {"done"} => Tidy(s).token = s.token
  BY Tidied
<1> HIDE DEF JobRecords, Tidy
<1> DEFINE s == [r EXCEPT !.req = q]
<1> HIDE DEF s
<1> QED  BY <1>1, <1>2 DEF s

-----------------------------------------------------------------------------
(* What each action does to the jobs.                                      *)

\* A step of j is of no other job, and leaves every record typed.
Only(j) == /\ job' \in [Jobs -> JobRecords]
           /\ \A i \in Jobs \ {j} : job'[i] = job[i]

\* j begins as a job of kind k at p, for u.
Created(j, k, p, u) ==
    /\ Only(j)
    /\ job[j].kind = "none"
    /\ job'[j].kind = k /\ job'[j].at = p /\ job'[j].user = u /\ job'[j].req = "none"
    /\ job'[j].prev = None

\* j comes to p and is the same job.
Puts(j, p) ==
    /\ Only(j)
    /\ job'[j].at = p /\ job'[j].kind = job[j].kind /\ job'[j].user = job[j].user

\* j is over, and remembers its kind at most.
Finishes(j) ==
    /\ Only(j)
    /\ job'[j].req \in {job[j].req, "none"}
    /\ job'[j].at = "done"
    /\ job'[j].kind = job[j].kind \/ (job'[j].kind = "spent" /\ job[j].kind # "none")
    /\ job'[j].prev \in {job[j].prev, None} /\ (job'[j].kind # job[j].kind => job'[j].prev = None)

\* The answer to j's request is known, and j is where it was.
Answered(j) ==
    /\ Only(j)
    /\ job'[j].at = job[j].at
    /\ \/ job'[j].kind = job[j].kind
       \/ job'[j].kind = "spent" /\ job[j].at = "done" /\ job[j].kind # "none"
    /\ job[j].at # "done" => job'[j].user = job[j].user /\ job'[j].prev = job[j].prev
    /\ job'[j].prev \in {job[j].prev, None} /\ (job'[j].kind # job[j].kind => job'[j].prev = None)

\* The kept job's previous read.
KeepsPrev(j) == job'[j].prev = job[j].prev

\* What j carries, it carries on while it may need it.
KeepsToken(j) ==
    job'[j].req = "sent" \/ job'[j].at \notin PastRequest \cup {"done"} =>
        job'[j].token = job[j].token

LEMMA OneJobSet ==
    ASSUME job \in [Jobs -> JobRecords], NEW j \in Jobs, NEW r \in JobRecords,
           job' = [job EXCEPT ![j] = r]
    PROVE  Only(j) /\ job'[j] = r
BY DEF Only

LEMMA EndsFinishes ==
    ASSUME job \in [Jobs -> JobRecords], NEW j \in Jobs, Ends(j)
    PROVE  Finishes(j) /\ KeepsToken(j) /\ job'[j].req \in {job[j].req, "none"}
<1> DEFINE r == Tidy([job[j] EXCEPT !.at = "done"])
<1>1. job[j] \in JobRecords /\ "done" \in Places
  BY DEF Places, Over
<1>2. /\ r \in JobRecords /\ r.at = "done" /\ r.req \in {job[j].req, "none"}
      /\ r.kind = job[j].kind \/ (r.kind = "spent" /\ job[j].kind # "none")
      /\ r.req = "sent" => r.token = job[j].token
      /\ r.prev \in {job[j].prev, None} /\ (r.kind # job[j].kind => r.prev = None)
  BY <1>1, TidiedAt
<1>3. job' = [job EXCEPT ![j] = r]
  BY DEF Ends, Ended
<1> HIDE DEF r
<1>4. Only(j) /\ job'[j] = r
  BY <1>2, <1>3, OneJobSet
<1> QED  BY <1>2, <1>4 DEF Finishes, KeepsToken

LEMMA TidyPuts ==
    ASSUME job \in [Jobs -> JobRecords], NEW j \in Jobs, NEW p \in Places \ {"done"},
           job' = [job EXCEPT ![j] = Tidy([@ EXCEPT !.at = p])]
    PROVE  Puts(j, p) /\ KeepsPrev(j) /\ KeepsToken(j) /\ job'[j].req \in {job[j].req, "none"}
<1> DEFINE r == Tidy([job[j] EXCEPT !.at = p])
<1>1. /\ r \in JobRecords /\ r.at = p /\ r.req \in {job[j].req, "none"}
      /\ r.kind = job[j].kind /\ r.user = job[j].user /\ r.prev = job[j].prev
      /\ r.req = "sent" \/ r.at \notin PastRequest \cup {"done"} => r.token = job[j].token
  BY TidiedAt
<1>2. job' = [job EXCEPT ![j] = r]
  OBVIOUS
<1> HIDE DEF r
<1>3. Only(j) /\ job'[j] = r
  BY <1>1, <1>2, OneJobSet
<1> QED  BY <1>1, <1>3 DEF Puts, KeepsPrev, KeepsToken

LEMMA TidyAnswers ==
    ASSUME job \in [Jobs -> JobRecords], NEW j \in Jobs, NEW q \in Requests,
           job' = [job EXCEPT ![j] = Tidy([@ EXCEPT !.req = q])]
    PROVE  Answered(j) /\ KeepsToken(j) /\ job'[j].req \in {q, "none"}
<1> DEFINE r == Tidy([job[j] EXCEPT !.req = q])
<1>1. /\ r \in JobRecords /\ r.at = job[j].at /\ r.req \in {q, "none"}
      /\ r.kind = job[j].kind \/ (r.kind = "spent" /\ job[j].at = "done" /\ job[j].kind # "none")
      /\ job[j].at # "done" => r.user = job[j].user /\ r.prev = job[j].prev
      /\ r.req = "sent" \/ r.at \notin PastRequest \cup {"done"} => r.token = job[j].token
      /\ r.prev \in {job[j].prev, None} /\ (r.kind # job[j].kind => r.prev = None)
  BY TidiedReq
<1>2. job' = [job EXCEPT ![j] = r]
  OBVIOUS
<1> HIDE DEF r
<1>3. Only(j) /\ job'[j] = r
  BY <1>1, <1>2, OneJobSet
<1> QED  BY <1>1, <1>3 DEF Answered, KeepsToken

LEMMA BeginsCreates ==
    ASSUME job \in [Jobs -> JobRecords], NEW j \in Jobs, NEW k \in Kinds, NEW p \in Places,
           NEW u \in Users \cup {None}, Begins(j, k, p, u)
    PROVE  Created(j, k, p, u)
<1> DEFINE r == [NoJob EXCEPT !.kind = k, !.at = p, !.user = u]
<1>1. r \in JobRecords /\ r.kind = k /\ r.at = p /\ r.user = u /\ r.req = "none" /\ r.prev = None
  BY NoJobType DEF JobRecords, NoJob
<1>2. job' = [job EXCEPT ![j] = r] /\ job[j].kind = "none"
  BY DEF Begins
<1> HIDE DEF r
<1>3. Only(j) /\ job'[j] = r
  BY <1>1, <1>2, OneJobSet
<1> QED  BY <1>1, <1>2, <1>3 DEF Created

\* A job that is sent on its way.
LEMMA RecordPuts ==
    ASSUME job \in [Jobs -> JobRecords], NEW j \in Jobs, NEW p, NEW r \in JobRecords,
           r.at = p, r.kind = job[j].kind, r.user = job[j].user, job' = [job EXCEPT ![j] = r]
    PROVE  Puts(j, p) /\ job'[j] = r
BY OneJobSet DEF Puts

LEMMA AtPuts ==
    ASSUME job \in [Jobs -> JobRecords], NEW j \in Jobs, NEW p \in Places,
           job' = [job EXCEPT ![j].at = p]
    PROVE  Puts(j, p) /\ KeepsPrev(j) /\ KeepsToken(j) /\ job'[j].req = job[j].req
<1> DEFINE r == [job[j] EXCEPT !.at = p]
<1>1. job[j] \in JobRecords
  OBVIOUS
<1>2. /\ r \in JobRecords /\ r.at = p /\ r.kind = job[j].kind /\ r.user = job[j].user
      /\ r.prev = job[j].prev /\ r.req = job[j].req /\ r.token = job[j].token
  BY <1>1 DEF JobRecords
<1>3. job' = [job EXCEPT ![j] = r]
  BY <1>1 DEF JobRecords
<1> HIDE DEF r
<1> QED  BY <1>2, <1>3, RecordPuts DEF KeepsPrev, KeepsToken

LEMMA JobTypes ==
    ASSUME TypeOK
    PROVE  /\ job \in [Jobs -> JobRecords]
           /\ \A j \in Jobs : job[j] \in JobRecords
           /\ session \in Users \cup {None} /\ remembered \in Tokens \cup {None}
           /\ minted \in Tokens
BY DEF TypeOK, JobRecords

LEMMA ClearSendsPuts ==
    ASSUME TypeOK, NEW j \in Jobs, NEW p \in Places, NEW u \in Users \cup {None},
           ClearSends(j, p, u)
    PROVE  Puts(j, p) /\ KeepsPrev(j) /\ job'[j].req = "sent"
<1>1. /\ job \in [Jobs -> JobRecords] /\ job[j] \in JobRecords
      /\ remembered \in Tokens \cup {None}
  BY JobTypes
<1>2. CASE job' = [job EXCEPT ![j].at = p, ![j].signer = u, ![j].token = remembered,
                             ![j].req = "sent"]
  <2> DEFINE r == [job[j] EXCEPT !.at = p, !.signer = u, !.token = remembered, !.req = "sent"]
  <2>1. r \in JobRecords /\ r.at = p /\ r.kind = job[j].kind /\ r.user = job[j].user
        /\ r.prev = job[j].prev /\ r.req = "sent"
    BY <1>1 DEF JobRecords, Requests
  <2>2. job' = [job EXCEPT ![j] = r]
    BY <1>1, <1>2 DEF JobRecords
  <2> HIDE DEF r
  <2> QED  BY <1>1, <2>1, <2>2, RecordPuts DEF KeepsPrev
<1>3. CASE job' = [job EXCEPT ![j].at = p, ![j].signer = u, ![j].req = "sent"]
  <2> DEFINE r == [job[j] EXCEPT !.at = p, !.signer = u, !.req = "sent"]
  <2>1. r \in JobRecords /\ r.at = p /\ r.kind = job[j].kind /\ r.user = job[j].user
        /\ r.prev = job[j].prev /\ r.req = "sent"
    BY <1>1 DEF JobRecords, Requests
  <2>2. job' = [job EXCEPT ![j] = r]
    BY <1>1, <1>3 DEF JobRecords
  <2> HIDE DEF r
  <2> QED  BY <1>1, <2>1, <2>2, RecordPuts DEF KeepsPrev
<1> QED  BY <1>2, <1>3 DEF ClearSends

LEMMA StartPuts ==
    ASSUME TypeOK, NEW j \in Jobs, Start(j)
    PROVE  /\ Puts(j, "reading") /\ KeepsToken(j)
           /\ job'[j].prev = IF job[j].kind = "learn" THEN remembered ELSE job[j].prev
<1>1. /\ job \in [Jobs -> JobRecords] /\ job[j] \in JobRecords
      /\ session \in Users \cup {None} /\ remembered \in Tokens \cup {None}
  BY JobTypes
<1> DEFINE v == IF job[j].kind = "learn" THEN remembered ELSE job[j].prev
           r == [job[j] EXCEPT !.at = "reading", !.prev = v]
<1>2. v \in Users \cup Tokens \cup {None}
  BY <1>1 DEF JobRecords
<1>3. /\ r \in JobRecords /\ r.at = "reading" /\ r.kind = job[j].kind /\ r.user = job[j].user
      /\ r.prev = v /\ r.token = job[j].token
  <2> HIDE DEF v
  <2> QED  BY <1>1, <1>2 DEF JobRecords, Places, Queued, InStep, Over, Requests
<1>4. job' = [job EXCEPT ![j] = r]
  BY <1>1 DEF JobRecords, Start
<1> HIDE DEF r
<1> QED  BY <1>1, <1>3, <1>4, RecordPuts DEF KeepsToken

LEMMA TokenReadPuts ==
    ASSUME TypeOK, NEW j \in Jobs, TokenRead(j)
    PROVE  Puts(j, "queued") /\ KeepsPrev(j) /\ job'[j].token \in Tokens /\ job'[j].req = job[j].req
<1>1. /\ job \in [Jobs -> JobRecords] /\ job[j] \in JobRecords
      /\ session \in Users \cup {None} /\ remembered \in Tokens \cup {None}
  BY JobTypes
<1>2. PICK t \in Tokens : job' = [job EXCEPT ![j].at = "queued", ![j].token = t]
  BY DEF TokenRead
<1> DEFINE r == [job[j] EXCEPT !.at = "queued", !.token = t]
<1>3. /\ r \in JobRecords /\ r.at = "queued" /\ r.kind = job[j].kind /\ r.user = job[j].user
      /\ r.token \in Tokens /\ r.prev = job[j].prev /\ r.req = job[j].req
  BY <1>1, <1>2 DEF JobRecords, Places, Queued, InStep, Over, Requests
<1>4. job' = [job EXCEPT ![j] = r]
  BY <1>1, <1>2 DEF JobRecords, TokenRead
<1> HIDE DEF r
<1> QED  BY <1>1, <1>2, <1>3, <1>4, RecordPuts DEF KeepsPrev

LEMMA RegisterSendsPuts ==
    ASSUME TypeOK, NEW j \in Jobs, RegisterSends(j)
    PROVE  Puts(j, "sending") /\ KeepsPrev(j) /\ KeepsToken(j)
<1>1. /\ job \in [Jobs -> JobRecords] /\ job[j] \in JobRecords
      /\ session \in Users \cup {None} /\ remembered \in Tokens \cup {None}
  BY JobTypes
<1> DEFINE r == [job[j] EXCEPT !.at = "sending", !.signer = session, !.req = "sent"]
<1>3. /\ r \in JobRecords /\ r.at = "sending" /\ r.kind = job[j].kind /\ r.user = job[j].user
      /\ r.token = job[j].token /\ r.prev = job[j].prev
  BY <1>1, ZenonT(60) DEF JobRecords, Places, Queued, InStep, Over, Requests
<1>4. job' = [job EXCEPT ![j] = r]
  BY <1>1 DEF JobRecords, RegisterSends
<1> HIDE DEF r
<1> QED  BY <1>1, <1>3, <1>4, RecordPuts DEF KeepsPrev, KeepsToken

LEMMA LinkPostsPuts ==
    ASSUME TypeOK, NEW j \in Jobs, LinkPosts(j)
    PROVE  Puts(j, "upserting") /\ KeepsPrev(j) /\ job'[j].req = job[j].req
<1>1. /\ job \in [Jobs -> JobRecords] /\ job[j] \in JobRecords
      /\ session \in Users \cup {None} /\ remembered \in Tokens \cup {None}
  BY JobTypes
<1> DEFINE r == [job[j] EXCEPT !.at = "upserting", !.poster = session]
<1>3. /\ r \in JobRecords /\ r.at = "upserting" /\ r.kind = job[j].kind /\ r.user = job[j].user
      /\ r.prev = job[j].prev /\ r.req = job[j].req
  BY <1>1, ZenonT(60) DEF JobRecords, Places, Queued, InStep, Over, Requests
<1>4. job' = [job EXCEPT ![j] = r]
  BY <1>1 DEF JobRecords, LinkPosts
<1> HIDE DEF r
<1> QED  BY <1>1, <1>3, <1>4, RecordPuts DEF KeepsPrev

LEMMA LinkUnpostedPuts ==
    ASSUME TypeOK, NEW j \in Jobs, LinkUnposted(j)
    PROVE  Puts(j, "undoQueued") /\ KeepsPrev(j) /\ job'[j].req = job[j].req
<1>1. /\ job \in [Jobs -> JobRecords] /\ job[j] \in JobRecords
      /\ session \in Users \cup {None} /\ remembered \in Tokens \cup {None}
  BY JobTypes
<1> DEFINE r == [job[j] EXCEPT !.at = "undoQueued", !.poster = None]
<1>3. /\ r \in JobRecords /\ r.at = "undoQueued" /\ r.kind = job[j].kind /\ r.user = job[j].user
      /\ r.prev = job[j].prev /\ r.req = job[j].req
  BY <1>1, ZenonT(60) DEF JobRecords, Places, Queued, InStep, Over, Requests
<1>4. job' = [job EXCEPT ![j] = r]
  BY <1>1 DEF JobRecords, LinkUnposted
<1> HIDE DEF r
<1> QED  BY <1>1, <1>3, <1>4, RecordPuts DEF KeepsPrev

LEMMA LinkReadsPuts ==
    ASSUME TypeOK, NEW j \in Jobs, LinkReads(j)
    PROVE  Puts(j, "exchanging") /\ job'[j].prev \in {session, job[j].prev}
<1>1. /\ job \in [Jobs -> JobRecords] /\ job[j] \in JobRecords
      /\ session \in Users \cup {None} /\ "exchanging" \in Places
  BY JobTypes DEF Places, InStep
<1>2. CASE job' = [job EXCEPT ![j].at = "exchanging", ![j].prev = session]
  <2> DEFINE r == [job[j] EXCEPT !.at = "exchanging", !.prev = session]
  <2>1. r \in JobRecords /\ r.at = "exchanging" /\ r.kind = job[j].kind /\ r.user = job[j].user
        /\ r.prev = session
    BY <1>1 DEF JobRecords
  <2>2. job' = [job EXCEPT ![j] = r]
    BY <1>1, <1>2 DEF JobRecords
  <2> HIDE DEF r
  <2> QED  BY <1>1, <2>1, <2>2, RecordPuts
<1>3. CASE job' = [job EXCEPT ![j].at = "exchanging"]
  BY <1>1, <1>3, AtPuts DEF KeepsPrev
<1> QED  BY <1>2, <1>3 DEF LinkReads, LinkReadsPrevious, LinkMissesPrevious

LEMMA BeganEffects ==
    ASSUME TypeOK, NEW j \in Jobs
    PROVE  /\ PressRegister(j) => Created(j, "register", "prompt", session)
           /\ PressSignOut(j) => Created(j, "signOut", "queued", None)
           /\ \A u \in Users : OpenLink(j, u) => Created(j, "link", "waiting", u)
           /\ OpenRefusedLink(j) => Created(j, "spent", "done", None)
           /\ ReconcileStarts(j) => Created(j, "learn", "prompt", None)
<1>1. /\ job \in [Jobs -> JobRecords] /\ session \in Users \cup {None}
      /\ "register" \in Kinds /\ "signOut" \in Kinds /\ "link" \in Kinds /\ "learn" \in Kinds
      /\ "prompt" \in Places /\ "queued" \in Places /\ "waiting" \in Places
      /\ "spent" \in Kinds /\ "done" \in Places
  BY JobTypes DEF Kinds, Places, Queued, Over
<1>2. ASSUME ReconcileStarts(j)  PROVE Created(j, "learn", "prompt", None)
  <2>1. PICK t \in card.tokens :
          job' = [job EXCEPT ![j] = [NoJob EXCEPT !.kind = "learn", !.at = "prompt", !.token = t]]
    BY <1>2 DEF ReconcileStarts
  <2>2. t \in Tokens
    BY DEF TypeOK
  <2> DEFINE r == [NoJob EXCEPT !.kind = "learn", !.at = "prompt", !.token = t]
  <2>3. r \in JobRecords /\ r.kind = "learn" /\ r.at = "prompt" /\ r.user = None /\ r.req = "none" /\ r.prev = None
    BY <1>1, <2>2, NoJobType DEF JobRecords, NoJob
  <2>4. job' = [job EXCEPT ![j] = r] /\ job[j].kind = "none"
    BY <1>2, <2>1 DEF ReconcileStarts
  <2> HIDE DEF r
  <2>5. Only(j) /\ job'[j] = r
    BY <1>1, <2>3, <2>4, OneJobSet
  <2> QED  BY <2>3, <2>4, <2>5 DEF Created
<1>3. PressRegister(j) => Created(j, "register", "prompt", session)
  BY <1>1, BeginsCreates DEF PressRegister
<1>4. PressSignOut(j) => Created(j, "signOut", "queued", None)
  BY <1>1, BeginsCreates DEF PressSignOut
<1>5. \A u \in Users : OpenLink(j, u) => Created(j, "link", "waiting", u)
  BY <1>1, BeginsCreates DEF OpenLink
<1>6. OpenRefusedLink(j) => Created(j, "spent", "done", None)
  BY <1>1, BeginsCreates DEF OpenRefusedLink
<1> QED  BY <1>2, <1>3, <1>4, <1>5, <1>6

LEMMA RegisterEffects ==
    ASSUME TypeOK, NEW j \in Jobs
    PROVE  /\ TokenRefused(j) => Finishes(j) /\ KeepsToken(j)
           /\ RegisterSkips(j) => Finishes(j) /\ KeepsToken(j)
           /\ RegisterResumesLate(j) => Finishes(j) /\ KeepsToken(j)
                                        /\ job'[j].req \in {job[j].req, "none"}
           /\ RegisterStored(j) => Puts(j, "confirming") /\ KeepsPrev(j) /\ KeepsToken(j)
           /\ RegisterConfirms(j) => Finishes(j) /\ KeepsToken(j)
           /\ RegisterFails(j) => Finishes(j) /\ KeepsToken(j)
           /\ RegisterTimesOut(j) => \/ job[j].at = "reading" /\ Puts(j, "late") /\ KeepsPrev(j) /\ KeepsToken(j)
                                     \/ Finishes(j) /\ KeepsToken(j)
<1>1. job \in [Jobs -> JobRecords] /\ "confirming" \in Places \ {"done"} /\ "late" \in Places
  BY JobTypes DEF Places, InStep, Over
<1>2. Ends(j) => Finishes(j) /\ KeepsToken(j) /\ job'[j].req \in {job[j].req, "none"}
  BY <1>1, EndsFinishes
<1>3. RegisterResumesLate(j) => Ends(j)
  BY DEF RegisterResumesLate, Aborted
<1>4. RegisterStored(j) => Puts(j, "confirming") /\ KeepsPrev(j) /\ KeepsToken(j)
  BY <1>1, TidyPuts DEF RegisterStored
<1>5. ASSUME RegisterTimesOut(j)
      PROVE  \/ job[j].at = "reading" /\ Puts(j, "late") /\ KeepsPrev(j) /\ KeepsToken(j)
             \/ Finishes(j) /\ KeepsToken(j)
  <2>1. CASE job[j].at = "reading"
    <3>1. job' = [job EXCEPT ![j].at = "late"]
      BY <1>1, <1>5, <2>1 DEF RegisterTimesOut
    <3> QED  BY <1>1, <2>1, <3>1, AtPuts
  <2>2. CASE job[j].at # "reading"
    <3>1. Ends(j)
      BY <1>5, <2>2 DEF RegisterTimesOut, Ends
    <3> QED  BY <1>2, <3>1
  <2> QED  BY <2>1, <2>2
<1> QED  BY <1>2, <1>3, <1>4, <1>5 DEF TokenRefused, RegisterSkips, RegisterConfirms, RegisterFails,
                                       EndRegister

LEMMA SignOutEffects ==
    ASSUME TypeOK, NEW j \in Jobs
    PROVE  /\ SignOutReads(j) => (Puts(j, "leaving") \/ Puts(j, "sending")) /\ KeepsPrev(j)
           /\ SignOutCleared(j) => Puts(j, "leaving") /\ KeepsPrev(j)
           /\ SignOutGivesUpClear(j) => Puts(j, "leaving") /\ KeepsPrev(j)
           /\ SignOutLeaves(j) => Finishes(j)
<1>1. /\ job \in [Jobs -> JobRecords] /\ session \in Users \cup {None}
      /\ "leaving" \in Places \ {"done"} /\ "sending" \in Places
  BY JobTypes DEF Places, InStep, Over
<1>2. ASSUME SignOutReads(j)  PROVE (Puts(j, "leaving") \/ Puts(j, "sending")) /\ KeepsPrev(j)
  <2>1. CASE job' = [job EXCEPT ![j].at = "leaving"]
    BY <1>1, <2>1, AtPuts
  <2>2. CASE ClearSends(j, "sending", session)
    BY <1>1, <2>2, ClearSendsPuts
  <2> QED  BY <1>2, <2>1, <2>2 DEF SignOutReads
<1>3. SignOutCleared(j) => Puts(j, "leaving") /\ KeepsPrev(j)
  BY <1>1, TidyPuts DEF SignOutCleared, ClearEnds
<1>4. SignOutGivesUpClear(j) => Puts(j, "leaving") /\ KeepsPrev(j)
  BY <1>1, TidyPuts DEF SignOutGivesUpClear
<1>5. SignOutLeaves(j) => Finishes(j)
  BY <1>1, EndsFinishes DEF SignOutLeaves
<1> QED  BY <1>2, <1>3, <1>4, <1>5

LEMMA LinkEffects ==
    ASSUME TypeInv, NEW j \in Jobs
    PROVE  /\ LinkEnters(j) => Puts(j, "queued") /\ KeepsPrev(j) /\ job'[j].req = job[j].req
           /\ LinkReads(j) => /\ Puts(j, "exchanging")
                              /\ job'[j].prev \in {session, job[j].prev}
           /\ LinkRefused(j) => Finishes(j)
           /\ LinkExchanges(j) => \/ Puts(j, "sending") /\ KeepsPrev(j) /\ UNCHANGED lane
                                  \/ Puts(j, "creating") /\ KeepsPrev(j) /\ lane' = Tail(lane)
           /\ LinkCleared(j) => Puts(j, "creating") /\ KeepsPrev(j)
           /\ LinkPosts(j) => Puts(j, "upserting") /\ KeepsPrev(j) /\ job'[j].req = job[j].req
           /\ LinkSignedIn(j) => Finishes(j)
           /\ LinkUnposted(j) => Puts(j, "undoQueued") /\ KeepsPrev(j) /\ job'[j].req = job[j].req
           /\ UndoStarts(j) => (Puts(j, "undoSending") \/ Puts(j, "undoLeaving")) /\ KeepsPrev(j)
           /\ UndoCleared(j) => Puts(j, "undoLeaving") /\ KeepsPrev(j)
           /\ UndoLeaves(j) => Finishes(j)
<1> USE DEF TypeInv
<1>1. /\ job \in [Jobs -> JobRecords] /\ session \in Users \cup {None} /\ job[j] \in JobRecords
      /\ "queued" \in Places /\ "sending" \in Places /\ "creating" \in Places \ {"done"}
      /\ "undoSending" \in Places /\ "undoLeaving" \in Places \ {"done"}
  BY JobTypes DEF Places, InStep, Over, Queued
<1>2. LinkEnters(j) => Puts(j, "queued") /\ KeepsPrev(j) /\ job'[j].req = job[j].req
  BY <1>1, AtPuts DEF LinkEnters
<1>3. LinkCleared(j) => Puts(j, "creating") /\ KeepsPrev(j)
  BY <1>1, TidyPuts DEF LinkCleared, ClearEnds
<1>4. UndoCleared(j) => Puts(j, "undoLeaving") /\ KeepsPrev(j)
  BY <1>1, TidyPuts DEF UndoCleared, ClearEnds
<1>5. /\ LinkRefused(j) => Finishes(j)
      /\ LinkSignedIn(j) => Finishes(j)
      /\ UndoLeaves(j) => Finishes(j)
  BY <1>1, EndsFinishes DEF LinkRefused, LinkSignedIn, UndoLeaves
<1>6. ASSUME LinkExchanges(j)
      PROVE  \/ Puts(j, "sending") /\ KeepsPrev(j) /\ UNCHANGED lane
             \/ Puts(j, "creating") /\ KeepsPrev(j) /\ lane' = Tail(lane)
  <2>1. job[j].prev \in Users \cup {None}
    BY <1>6 DEF LinkExchanges, In, Fits
  <2>2. CASE Switches(j)
    BY <1>1, <1>6, <2>1, <2>2, ClearSendsPuts DEF LinkExchanges
  <2>3. CASE ~Switches(j)
    BY <1>1, <1>6, <2>3, AtPuts DEF LinkExchanges
  <2> QED  BY <2>2, <2>3
<1>7. ASSUME UndoStarts(j)
      PROVE  (Puts(j, "undoSending") \/ Puts(j, "undoLeaving")) /\ KeepsPrev(j)
  <2>1. job[j].prev \in Users \cup {None}
    BY <1>7 DEF UndoStarts, Fits
  <2>2. CASE ClearSends(j, "undoSending", job[j].prev)
    BY <1>1, <2>1, <2>2, ClearSendsPuts
  <2>3. CASE job' = [job EXCEPT ![j].at = "undoLeaving"]
    BY <1>1, <2>3, AtPuts
  <2> QED  BY <1>7, <2>2, <2>3 DEF UndoStarts
<1>8. LinkReads(j) => Puts(j, "exchanging") /\ job'[j].prev \in {session, job[j].prev}
  BY LinkReadsPuts
<1>9. LinkPosts(j) => Puts(j, "upserting") /\ KeepsPrev(j) /\ job'[j].req = job[j].req
  BY LinkPostsPuts
<1>10. LinkUnposted(j) => Puts(j, "undoQueued") /\ KeepsPrev(j) /\ job'[j].req = job[j].req
  BY LinkUnpostedPuts
<1> QED  BY <1>2, <1>3, <1>4, <1>5, <1>6, <1>7, <1>8, <1>9, <1>10

LEMMA LearnEffects ==
    ASSUME TypeOK, NEW j \in Jobs
    PROVE  /\ ReconcileEnters(j) => Puts(j, "queued") /\ KeepsPrev(j) /\ job'[j].req = job[j].req
           /\ Learns(j) => Finishes(j)
           /\ LearnTimesOut(j) => Puts(j, "late") /\ KeepsPrev(j)
<1>1. job \in [Jobs -> JobRecords] /\ "queued" \in Places /\ "late" \in Places
  BY JobTypes DEF Places, Queued, Over
<1>2. Learns(j) => Finishes(j)
  BY <1>1, EndsFinishes DEF Learns
<1>3. ReconcileEnters(j) => Puts(j, "queued") /\ KeepsPrev(j) /\ job'[j].req = job[j].req
  BY <1>1, AtPuts DEF ReconcileEnters
<1>4. LearnTimesOut(j) => Puts(j, "late") /\ KeepsPrev(j)
  BY <1>1, AtPuts DEF LearnTimesOut
<1> QED  BY <1>2, <1>3, <1>4

LEMMA ArrivalEffects ==
    ASSUME TypeOK, NEW j \in Jobs
    PROVE  /\ PutArrives(j) => Answered(j) /\ KeepsToken(j)
           /\ DeleteArrives(j) => Answered(j)
           /\ PutArrives(j) \/ DeleteArrives(j) => job'[j].req # "sent"
<1>1. job \in [Jobs -> JobRecords] /\ "applied" \in Requests /\ "refused" \in Requests
  BY JobTypes DEF Requests
<1>2. /\ job' = [job EXCEPT ![j] = Tidy([@ EXCEPT !.req = "applied"])] =>
             Answered(j) /\ KeepsToken(j) /\ job'[j].req # "sent"
      /\ job' = [job EXCEPT ![j] = Tidy([@ EXCEPT !.req = "refused"])] =>
             Answered(j) /\ KeepsToken(j) /\ job'[j].req # "sent"
  BY <1>1, TidyAnswers
<1>3. PutArrives(j) => \/ job' = [job EXCEPT ![j] = Tidy([@ EXCEPT !.req = "applied"])]
                       \/ job' = [job EXCEPT ![j] = Tidy([@ EXCEPT !.req = "refused"])]
  BY DEF PutArrives
<1>4. DeleteArrives(j) => \/ job' = [job EXCEPT ![j] = Tidy([@ EXCEPT !.req = "applied"])]
                          \/ job' = [job EXCEPT ![j] = Tidy([@ EXCEPT !.req = "refused"])]
  BY DEF DeleteArrives
<1> QED  BY <1>2, <1>3, <1>4

\* A kill ends every job.
LEMMA KillEffects ==
    ASSUME TypeOK, Kill
    PROVE  /\ job' \in [Jobs -> JobRecords]
           /\ \A j \in Jobs :
                 /\ job'[j].at = "done"
                 /\ job'[j].kind = job[j].kind \/ (job'[j].kind = "spent" /\ job[j].kind # "none")
                 /\ job'[j].prev \in {job[j].prev, None}
                 /\ job'[j].kind # job[j].kind => job'[j].prev = None
                 /\ job'[j].req = "sent" => job[j].req = "sent" /\ job'[j].token = job[j].token
<1>1. \A j \in Jobs : job[j] \in JobRecords /\ "done" \in Places
  BY JobTypes DEF Places, Over
<1>2. job' = [j \in Jobs |-> Ended(j)]
  BY DEF Kill
<1>3. \A j \in Jobs :
        /\ Ended(j) \in JobRecords /\ Ended(j).at = "done"
        /\ Ended(j).kind = job[j].kind \/ (Ended(j).kind = "spent" /\ job[j].kind # "none")
        /\ Ended(j).prev \in {job[j].prev, None}
        /\ Ended(j).kind # job[j].kind => Ended(j).prev = None
        /\ Ended(j).req \in {job[j].req, "none"}
        /\ Ended(j).req = "sent" => Ended(j).token = job[j].token
  BY <1>1, TidiedAt DEF Ended
<1> QED  BY <1>2, <1>3

-----------------------------------------------------------------------------
(* Types, continued: what each action leaves of the jobs still fits.       *)

LEMMA CreatedFits ==
    ASSUME NEW j \in Jobs, NEW k, NEW p, NEW u, Created(j, k, p, u),
           k \in {"register", "learn"} => p = "prompt"
    PROVE  Fits(job'[j])
BY DEF Created, Fits

LEMMA FinishedFits ==
    ASSUME TypeInv, NEW j \in Jobs, Finishes(j), KeepsToken(j) \/ job[j].kind # "register"
    PROVE  Fits(job'[j])
<1>1. Fits(job[j])
  BY DEF TypeInv
<1> QED  BY <1>1 DEF Finishes, Fits, KeepsToken, PastRequest

LEMMA PutFits ==
    ASSUME TypeInv, NEW j \in Jobs, NEW p, Puts(j, p), KeepsPrev(j),
           job[j].kind \notin {"register", "learn"}
    PROVE  Fits(job'[j])
<1>1. Fits(job[j])
  BY DEF TypeInv
<1> QED  BY <1>1 DEF Puts, Fits, KeepsPrev

LEMMA RegisterFits ==
    ASSUME TypeInv, NEW j \in Jobs,
           \/ TokenRead(j) \/ TokenRefused(j) \/ RegisterSkips(j) \/ RegisterSends(j)
           \/ RegisterResumesLate(j) \/ RegisterStored(j) \/ RegisterConfirms(j)
           \/ RegisterFails(j) \/ RegisterTimesOut(j)
    PROVE  Only(j) /\ Fits(job'[j])
<1> USE DEF TypeInv
<1>1. Fits(job[j]) /\ job[j].kind = "register"
  BY DEF TokenRead, TokenRefused, RegisterSkips, RegisterSends, RegisterResumesLate, RegisterStored,
         RegisterConfirms, RegisterFails, RegisterTimesOut, In
<1>2. CASE Finishes(j) /\ KeepsToken(j)
  BY <1>2, FinishedFits DEF Finishes
<1>3. CASE TokenRead(j)
  <2>1. Puts(j, "queued") /\ KeepsPrev(j) /\ job'[j].token \in Tokens
    BY <1>3, TokenReadPuts
  <2> QED  BY <1>1, <2>1 DEF Puts, KeepsPrev, Fits
<1>4. CASE RegisterSends(j)
  <2>1. Puts(j, "sending") /\ KeepsPrev(j) /\ KeepsToken(j) /\ job[j].at = "reading"
    BY <1>4, RegisterSendsPuts DEF RegisterSends, In
  <2> QED  BY <1>1, <2>1 DEF Puts, KeepsPrev, KeepsToken, Fits, PastRequest
<1>5. CASE RegisterStored(j)
  <2>1. Puts(j, "confirming") /\ KeepsPrev(j) /\ KeepsToken(j) /\ job[j].at = "sending"
    BY <1>5, RegisterEffects DEF RegisterStored, In
  <2> QED  BY <1>1, <2>1 DEF Puts, KeepsPrev, KeepsToken, Fits, PastRequest
<1>6. CASE RegisterTimesOut(j) /\ ~Finishes(j)
  <2>1. job[j].at = "reading" /\ Puts(j, "late") /\ KeepsPrev(j) /\ KeepsToken(j)
    BY <1>6, RegisterEffects
  <2> QED  BY <1>1, <2>1 DEF Puts, KeepsPrev, KeepsToken, Fits, PastRequest
<1> QED  BY <1>2, <1>3, <1>4, <1>5, <1>6, RegisterEffects

LEMMA StartFits ==
    ASSUME TypeInv, NEW j \in Jobs, Start(j)
    PROVE  Only(j) /\ Fits(job'[j])
<1> USE DEF TypeInv
<1>1. Fits(job[j]) /\ job[j].at = "queued"
  BY DEF Start
<1>2. /\ Puts(j, "reading") /\ KeepsToken(j)
      /\ job'[j].prev = IF job[j].kind = "learn" THEN remembered ELSE job[j].prev
  BY StartPuts
<1> QED  BY <1>1, <1>2 DEF Puts, KeepsToken, Fits, PastRequest

LEMMA LeaverFits ==
    ASSUME TypeInv, NEW j \in Jobs,
           \/ SignOutReads(j) \/ SignOutCleared(j) \/ SignOutGivesUpClear(j) \/ SignOutLeaves(j)
    PROVE  Only(j) /\ Fits(job'[j])
<1> USE DEF TypeInv
<1>1. job[j].kind = "signOut"
  BY DEF SignOutReads, SignOutCleared, SignOutGivesUpClear, SignOutLeaves, In
<1>2. \/ Puts(j, "leaving") /\ KeepsPrev(j)
      \/ Puts(j, "sending") /\ KeepsPrev(j)
      \/ Finishes(j)
  BY SignOutEffects
<1>3. Only(j)
  BY <1>2 DEF Puts, Finishes
<1> QED  BY <1>1, <1>2, <1>3, PutFits, FinishedFits

LEMMA LinkFits ==
    ASSUME TypeInv, NEW j \in Jobs,
           \/ LinkEnters(j) \/ LinkReads(j) \/ LinkRefused(j) \/ LinkExchanges(j)
           \/ LinkCleared(j) \/ LinkPosts(j) \/ LinkSignedIn(j) \/ LinkUnposted(j)
           \/ UndoStarts(j) \/ UndoCleared(j) \/ UndoLeaves(j)
    PROVE  Only(j) /\ Fits(job'[j])
<1> USE DEF TypeInv
<1>1. job[j].kind \notin {"register", "learn"} /\ Fits(job[j])
  <2>1. Fits(job[j])
    OBVIOUS
  <2>2. CASE UndoStarts(j)
    BY <2>1, <2>2 DEF UndoStarts, Fits
  <2>3. CASE ~UndoStarts(j)
    <3>1. job[j].kind = "link"
      BY <2>3 DEF LinkEnters, LinkReads, LinkReadsPrevious, LinkMissesPrevious, LinkRefused,
                  LinkExchanges, LinkCleared,
                  LinkPosts, LinkSignedIn, LinkUnposted, UndoCleared, UndoLeaves, In
    <3> QED  BY <2>1, <3>1
  <2> QED  BY <2>2, <2>3
<1>2. CASE LinkReads(j)
  <2>1. Puts(j, "exchanging") /\ job'[j].prev \in {session, job[j].prev}
    BY <1>2, LinkEffects
  <2> QED  BY <1>1, <2>1, JobTypes DEF Puts, Fits
<1>3. CASE ~LinkReads(j)
  <2>1. (\E p \in Places : Puts(j, p) /\ KeepsPrev(j)) \/ Finishes(j)
    <3>1. /\ "queued" \in Places /\ "sending" \in Places /\ "creating" \in Places
          /\ "upserting" \in Places /\ "undoQueued" \in Places /\ "undoSending" \in Places
          /\ "undoLeaving" \in Places
      BY DEF Places, Queued, InStep
    <3> QED  BY <1>3, <3>1, LinkEffects
  <2>2. Only(j)
    BY <2>1 DEF Puts, Finishes
  <2> QED  BY <1>1, <2>1, <2>2, PutFits, FinishedFits
<1> QED  BY <1>2, <1>3

LEMMA LearnFits ==
    ASSUME TypeInv, NEW j \in Jobs, ReconcileEnters(j) \/ Learns(j) \/ LearnTimesOut(j)
    PROVE  Only(j) /\ Fits(job'[j])
<1> USE DEF TypeInv
<1>1. job[j].kind = "learn" /\ Fits(job[j])
  BY DEF ReconcileEnters, Learns, LearnTimesOut, In
<1>2. CASE Learns(j)
  <2>1. Finishes(j)
    BY <1>2, LearnEffects
  <2> QED  BY <1>1, <2>1, FinishedFits DEF Finishes
<1>3. CASE ReconcileEnters(j) \/ LearnTimesOut(j)
  BY <1>1, <1>3, LearnEffects DEF Puts, KeepsPrev, Fits
<1> QED  BY <1>2, <1>3

LEMMA ArrivalFits ==
    ASSUME TypeInv, NEW j \in Jobs, PutArrives(j) \/ DeleteArrives(j)
    PROVE  Only(j) /\ Fits(job'[j])
<1> USE DEF TypeInv
<1>1. Fits(job[j])
  OBVIOUS
<1>2. CASE PutArrives(j)
  <2>1. job[j].kind = "register" /\ job[j].token \in Tokens
    BY <1>1, <1>2 DEF PutArrives, Fits
  <2>2. Answered(j) /\ KeepsToken(j)
    BY <1>2, ArrivalEffects
  <2> QED  BY <1>1, <2>1, <2>2 DEF Answered, KeepsToken, Fits, PastRequest
<1>3. CASE DeleteArrives(j)
  <2>1. job[j].kind # "register"
    BY <1>3 DEF DeleteArrives
  <2> QED  BY <1>1, <1>3, <2>1, ArrivalEffects DEF Answered, Fits
<1> QED  BY <1>2, <1>3

\* Every step is of one job, a kill, or of none.
JobsStep == \/ \E j \in Jobs : Only(j)
            \/ Kill
            \/ UNCHANGED job

LEMMA NextJobs ==
    ASSUME TypeInv, [Next]_vars
    PROVE  job' \in [Jobs -> JobRecords] /\ \A j \in Jobs : Fits(job'[j])
<1> USE DEF TypeInv
<1>1. ASSUME NEW j \in Jobs, Only(j), Fits(job'[j])
      PROVE  job' \in [Jobs -> JobRecords] /\ \A i \in Jobs : Fits(job'[i])
  BY <1>1 DEF Only
<1>2. ASSUME UNCHANGED job
      PROVE  job' \in [Jobs -> JobRecords] /\ \A i \in Jobs : Fits(job'[i])
  BY <1>2, JobTypes
<1>3. ASSUME Kill
      PROVE  job' \in [Jobs -> JobRecords] /\ \A i \in Jobs : Fits(job'[i])
  <2>1. ASSUME NEW i \in Jobs  PROVE Fits(job'[i])
    <3>1. /\ job'[i].at = "done"
          /\ job'[i].kind = job[i].kind \/ (job'[i].kind = "spent" /\ job[i].kind # "none")
          /\ job'[i].prev \in {job[i].prev, None}
          /\ job'[i].kind # job[i].kind => job'[i].prev = None
          /\ job'[i].req = "sent" => job[i].req = "sent" /\ job'[i].token = job[i].token
      BY <1>3, KillEffects
    <3>2. Fits(job[i])
      OBVIOUS
    <3> QED  BY <3>1, <3>2 DEF Fits
  <2> QED  BY <1>3, <2>1, KillEffects
<1>4. ASSUME NEW j \in Jobs,
             \/ PressRegister(j) \/ PressSignOut(j) \/ (\E u \in Users : OpenLink(j, u))
             \/ OpenRefusedLink(j) \/ ReconcileStarts(j)
      PROVE  Only(j) /\ Fits(job'[j])
  BY <1>4, BeganEffects, CreatedFits DEF Created
<1>5. ASSUME NEW j \in Jobs, Enters(j) \/ Bounds(j) \/ Register(j) \/ SignOut(j) \/ Link(j)
      PROVE  Only(j) /\ Fits(job'[j])
  BY <1>5, StartFits, LinkFits, RegisterFits, LeaverFits, LearnFits
     DEF Enters, Bounds, Register, SignOut, Link, LinkReads
<1>6. ASSUME NEW j \in Jobs,
             ReconcileEnters(j) \/ Learns(j) \/ PutArrives(j) \/ DeleteArrives(j)
      PROVE  Only(j) /\ Fits(job'[j])
  BY <1>6, LearnFits, ArrivalFits
<1>7. ASSUME LoadMe \/ ReconcileEnds \/ SessionExpires \/ UNCHANGED vars  PROVE UNCHANGED job
  BY <1>7 DEF LoadMe, ReconcileEnds, SessionExpires, vars
<1> QED  BY <1>1, <1>2, <1>3, <1>4, <1>5, <1>6, <1>7 DEF Next

-----------------------------------------------------------------------------
(* Types of the rest.                                                      *)

OthersTyped ==
    /\ session \in Users \cup {None}
    /\ remembered \in Tokens \cup {None}
    /\ minted \in Tokens
    /\ owner \in [Tokens -> Users \cup {None}]
    /\ accounts \subseteq Users
    /\ lane \in Seq(Jobs) /\ links \in Seq(Jobs)
    /\ slot \in [user : Users \cup {None}, job : Jobs \cup {None},
                 status : {"idle", "registering", "error"}]
    /\ card \in [user : Users \cup {None}, tokens : SUBSET Tokens]
    /\ reconciled \in Users \cup {None}
    /\ screen \in [link : Jobs \cup {None}, failed : BOOLEAN]
    /\ faults \in 0..MaxFaults
    /\ excused \subseteq Tokens

LEMMA SeqTypes ==
    ASSUME NEW S, NEW s \in Seq(S), NEW x \in S
    PROVE  /\ Append(s, x) \in Seq(S)
           /\ s # <<>> => Tail(s) \in Seq(S) /\ Head(s) \in S
OBVIOUS

LEMMA FaultTypes ==
    ASSUME OthersTyped
    PROVE  /\ Fault => faults' \in 0..MaxFaults
           /\ UNCHANGED faults => faults' \in 0..MaxFaults
           /\ \A t \in Tokens : Mints(t) => minted' \in Tokens /\ faults' \in 0..MaxFaults
BY BoundAssumption DEF OthersTyped, Fault, Mints

LEMMA ClearTypes ==
    ASSUME OthersTyped, NEW j, NEW p, NEW u
    PROVE  /\ \A t : Unnamed(u, t) \subseteq Tokens
           /\ ClearSends(j, p, u) => faults' \in 0..MaxFaults /\ excused' \subseteq Tokens
<1>1. \A t : Unnamed(u, t) \subseteq Tokens
  BY DEF Unnamed
<1>2. ASSUME ClearSends(j, p, u)  PROVE faults' \in 0..MaxFaults /\ excused' \subseteq Tokens
  BY <1>1, <1>2, FaultTypes DEF ClearSends, OthersTyped
<1> QED  BY <1>1, <1>2

\* The clear of a typed job leaves a row at most.
LEMMA LeftTypes ==
    ASSUME TypeInv, OthersTyped, NEW j \in Jobs
    PROVE  /\ Left(j) \ {None} \subseteq Tokens
           /\ \A p : ClearEnds(j, p) => excused' \subseteq Tokens
<1>1. job[j].token \in Tokens \cup {None}
  BY JobTypes DEF TypeInv, JobRecords
<1>2. Left(j) \ {None} \subseteq Tokens
  BY <1>1 DEF Left
<1> QED  BY <1>2 DEF ClearEnds, OthersTyped

LEMMA ListedTypes ==
    ASSUME NEW u
    PROVE  Listed(u) \subseteq Tokens
BY DEF Listed, Rows

LEMMA ShownTypes ==
    ASSUME OthersTyped, NEW j \in Jobs
    PROVE  /\ \A u \in Users \cup {None} : SessionBecomes(u) =>
                 /\ session' \in Users \cup {None}
                 /\ card' \in [user : Users \cup {None}, tokens : SUBSET Tokens]
           /\ \A status \in {"idle", "registering", "error"} : Report(j, status) =>
                 slot' \in [user : Users \cup {None}, job : Jobs \cup {None},
                            status : {"idle", "registering", "error"}]
           /\ TellsOfFailure(j) => screen' \in [link : Jobs \cup {None}, failed : BOOLEAN]
<1>1. NoCard \in [user : Users \cup {None}, tokens : SUBSET Tokens]
  BY DEF NoCard
<1> USE DEF OthersTyped
<1>2. ASSUME NEW u \in Users \cup {None}, SessionBecomes(u)
      PROVE  /\ session' \in Users \cup {None}
             /\ card' \in [user : Users \cup {None}, tokens : SUBSET Tokens]
  BY <1>1, <1>2 DEF SessionBecomes
<1>3. ASSUME NEW status \in {"idle", "registering", "error"}, Report(j, status)
      PROVE  slot' \in [user : Users \cup {None}, job : Jobs \cup {None},
                        status : {"idle", "registering", "error"}]
  BY <1>3 DEF Report
<1>4. ASSUME TellsOfFailure(j)
      PROVE  screen' \in [link : Jobs \cup {None}, failed : BOOLEAN]
  BY <1>4 DEF TellsOfFailure
<1> QED  BY <1>2, <1>3, <1>4

LEMMA BeginTypes ==
    ASSUME OthersTyped, TypeInv, NEW j \in Jobs,
           \/ PressRegister(j) \/ PressSignOut(j) \/ (\E u \in Users : OpenLink(j, u))
           \/ OpenRefusedLink(j) \/ Start(j) \/ LinkEnters(j) \/ UndoStarts(j)
    PROVE  OthersTyped'
<1> USE DEF OthersTyped, serverVars, uiVars
<1>1. CASE PressRegister(j)
  BY <1>1 DEF PressRegister, NoScreen
<1>2. CASE PressSignOut(j)
  BY <1>2, SeqTypes DEF PressSignOut, NoScreen
<1>3. CASE \E u \in Users : OpenLink(j, u)
  BY <1>3, SeqTypes DEF OpenLink
<1>4. CASE Start(j)
  BY <1>4 DEF Start
<1>5. CASE LinkEnters(j)
  BY <1>5, SeqTypes DEF LinkEnters
<1>6. CASE UndoStarts(j)
  <2>1. faults' \in 0..MaxFaults /\ excused' \subseteq Tokens
    BY <1>6, ClearTypes, FaultTypes DEF UndoStarts
  <2> QED  BY <1>6, <2>1 DEF UndoStarts
<1>7. CASE OpenRefusedLink(j)
  BY <1>7 DEF OpenRefusedLink
<1> QED  BY <1>1, <1>2, <1>3, <1>4, <1>5, <1>6, <1>7

LEMMA RegisterTypes ==
    ASSUME OthersTyped, TypeInv, NEW j \in Jobs, Register(j) \/ RegisterTimesOut(j)
    PROVE  OthersTyped'
<1> USE DEF serverVars, uiVars
<1>1. /\ job[j].token \in Tokens \cup {None}
      /\ lane # <<>> => Tail(lane) \in Seq(Jobs)
      /\ Append(lane, j) \in Seq(Jobs)
  BY JobTypes, SeqTypes DEF TypeInv, JobRecords, OthersTyped
<1>2. /\ Report(j, "idle") => slot' \in [user : Users \cup {None}, job : Jobs \cup {None},
                                         status : {"idle", "registering", "error"}]
      /\ Report(j, "error") => slot' \in [user : Users \cup {None}, job : Jobs \cup {None},
                                          status : {"idle", "registering", "error"}]
  BY ShownTypes
<1>3. CASE TokenRead(j)
  <2>1. minted' \in Tokens /\ faults' \in 0..MaxFaults
    BY <1>3, FaultTypes DEF TokenRead
  <2> QED  BY <1>1, <1>3, <2>1 DEF TokenRead, OthersTyped
<1>4. CASE TokenRefused(j)
  BY <1>2, <1>4 DEF TokenRefused, OthersTyped
<1>5. CASE RegisterSkips(j)
  BY <1>1, <1>2, <1>5 DEF RegisterSkips, EndRegister, In, Running, OthersTyped
<1>6. CASE RegisterSends(j)
  BY <1>6 DEF RegisterSends, OthersTyped
<1>7. CASE RegisterResumesLate(j)
  BY <1>7 DEF RegisterResumesLate, OthersTyped
<1>8. CASE RegisterStored(j)
  <2>1. faults' \in 0..MaxFaults /\ remembered' \in Tokens \cup {None}
    BY <1>1, <1>8, FaultTypes DEF RegisterStored, OthersTyped
  <2> QED  BY <1>8, <2>1 DEF RegisterStored, OthersTyped
<1>9. CASE RegisterConfirms(j)
  <2>1. card' \in [user : Users \cup {None}, tokens : SUBSET Tokens]
    BY <1>9, ListedTypes DEF RegisterConfirms, OthersTyped
  <2> QED  BY <1>1, <1>2, <1>9, <2>1 DEF RegisterConfirms, EndRegister, In, Running, OthersTyped
<1>10. CASE RegisterFails(j)
  <2>1. Report(j, "idle") \/ Report(j, "error")
    BY <1>10 DEF RegisterFails, EndRegister
  <2> QED  BY <1>1, <1>2, <1>10, <2>1 DEF RegisterFails, EndRegister, Running, OthersTyped
<1>11. CASE RegisterTimesOut(j)
  <2>1. Report(j, "idle") \/ Report(j, "error")
    BY <1>11 DEF RegisterTimesOut
  <2> QED  BY <1>1, <1>2, <1>11, <2>1 DEF RegisterTimesOut, Running, OthersTyped
<1> QED  BY <1>3, <1>4, <1>5, <1>6, <1>7, <1>8, <1>9, <1>10, <1>11 DEF Register

LEMMA SignOutTypes ==
    ASSUME OthersTyped, TypeInv, NEW j \in Jobs, SignOut(j) \/ SignOutGivesUpClear(j)
    PROVE  OthersTyped'
<1> USE DEF serverVars, uiVars
<1>1. CASE SignOutReads(j)
  <2>1. faults' \in 0..MaxFaults /\ excused' \subseteq Tokens
    BY <1>1, ClearTypes, FaultTypes DEF SignOutReads, OthersTyped
  <2> QED  BY <1>1, <2>1 DEF SignOutReads, OthersTyped
<1>2. CASE SignOutCleared(j)
  <2>1. excused' \subseteq Tokens
    BY <1>2, LeftTypes DEF SignOutCleared
  <2>2. card' \in [user : Users \cup {None}, tokens : SUBSET Tokens]
    BY <1>2, ListedTypes DEF SignOutCleared, OthersTyped
  <2> QED  BY <1>2, <2>1, <2>2 DEF SignOutCleared, OthersTyped
<1>3. CASE SignOutGivesUpClear(j)
  <2>1. excused' \subseteq Tokens
    BY <1>3, LeftTypes, ClearTypes DEF SignOutGivesUpClear, OthersTyped
  <2> QED  BY <1>3, <2>1 DEF SignOutGivesUpClear, OthersTyped
<1>4. CASE SignOutLeaves(j)
  <2>1. faults' \in 0..MaxFaults
    BY <1>4, FaultTypes DEF SignOutLeaves
  <2>2. /\ session' \in Users \cup {None}
        /\ card' \in [user : Users \cup {None}, tokens : SUBSET Tokens]
    BY <1>4, ShownTypes DEF SignOutLeaves, OthersTyped
  <2>3. lane' \in Seq(Jobs)
    BY <1>4, SeqTypes DEF SignOutLeaves, In, Running, OthersTyped
  <2> QED  BY <1>4, <2>1, <2>2, <2>3 DEF SignOutLeaves, OthersTyped
<1> QED  BY <1>1, <1>2, <1>3, <1>4 DEF SignOut

LEMMA LinkTypes ==
    ASSUME OthersTyped, TypeInv, NEW j \in Jobs,
           Link(j) \/ LinkMissesPrevious(j) \/ LinkCleared(j) \/ UndoCleared(j),
           links # <<>>
    PROVE  OthersTyped'
<1> USE DEF serverVars, uiVars
<1>1. /\ job[j].user \in Users \cup {None} /\ job[j].poster \in Users \cup {None}
      /\ lane # <<>> => Tail(lane) \in Seq(Jobs)
      /\ Tail(links) \in Seq(Jobs)
      /\ Append(lane, j) \in Seq(Jobs)
  BY JobTypes, SeqTypes DEF TypeInv, JobRecords, OthersTyped
<1>2. CASE LinkReads(j)
  <2>1. excused' \subseteq Tokens
    BY <1>2, ClearTypes DEF LinkReads, LinkReadsPrevious, LinkMissesPrevious, OthersTyped
  <2> QED  BY <1>2, <2>1 DEF LinkReads, LinkReadsPrevious, LinkMissesPrevious, OthersTyped
<1>3. CASE LinkRefused(j)
  <2>1. screen' \in [link : Jobs \cup {None}, failed : BOOLEAN]
    BY <1>3, ShownTypes DEF LinkRefused
  <2> QED  BY <1>1, <1>3, <2>1 DEF LinkRefused, LinkSettles, In, Running, OthersTyped
<1>4. CASE LinkExchanges(j)
  <2>1. /\ session' \in Users \cup {None}
        /\ card' \in [user : Users \cup {None}, tokens : SUBSET Tokens]
    BY <1>1, <1>4, ShownTypes DEF LinkExchanges
  <2>2. faults' \in 0..MaxFaults /\ excused' \subseteq Tokens
    BY <1>4, ClearTypes, FaultTypes DEF LinkExchanges, OthersTyped
  <2> QED  BY <1>1, <1>4, <2>1, <2>2 DEF LinkExchanges, In, Running, OthersTyped
<1>5. CASE LinkCleared(j)
  <2>1. excused' \subseteq Tokens
    BY <1>5, LeftTypes DEF LinkCleared
  <2> QED  BY <1>1, <1>5, <2>1 DEF LinkCleared, In, Running, OthersTyped
<1>6. CASE LinkPosts(j)
  BY <1>6 DEF LinkPosts, OthersTyped
<1>7. CASE LinkSignedIn(j)
  <2>1. screen' \in [link : Jobs \cup {None}, failed : BOOLEAN]
    BY <1>7 DEF LinkSignedIn, NoScreen, OthersTyped
  <2>2. accounts' \subseteq Users
    BY <1>1, <1>7 DEF LinkSignedIn, OthersTyped
  <2> QED  BY <1>1, <1>7, <2>1, <2>2 DEF LinkSignedIn, LinkSettles, OthersTyped
<1>8. CASE LinkUnposted(j)
  <2>1. faults' \in 0..MaxFaults
    BY <1>8, FaultTypes DEF LinkUnposted
  <2>2. accounts' \subseteq Users
    BY <1>1, <1>8 DEF LinkUnposted, OthersTyped
  <2> QED  BY <1>1, <1>8, <2>1, <2>2 DEF LinkUnposted, OthersTyped
<1>9. CASE UndoCleared(j)
  <2>1. excused' \subseteq Tokens
    BY <1>9, LeftTypes DEF UndoCleared
  <2> QED  BY <1>9, <2>1 DEF UndoCleared, OthersTyped
<1>10. CASE UndoLeaves(j)
  <2>1. screen' \in [link : Jobs \cup {None}, failed : BOOLEAN]
    BY <1>10, ShownTypes DEF UndoLeaves
  <2>2. /\ session' \in Users \cup {None}
        /\ card' \in [user : Users \cup {None}, tokens : SUBSET Tokens]
    BY <1>10, ShownTypes DEF UndoLeaves, OthersTyped
  <2>3. Unclaimed(j) \subseteq Tokens
    BY ClearTypes DEF Unclaimed
  <2>4. faults' \in 0..MaxFaults /\ excused' \subseteq Tokens
    BY <1>10, <2>3, FaultTypes DEF UndoLeaves, OthersTyped
  <2> QED  BY <1>1, <1>10, <2>1, <2>2, <2>4 DEF UndoLeaves, LinkSettles, In, Running, OthersTyped
<1> QED  BY <1>2, <1>3, <1>4, <1>5, <1>6, <1>7, <1>8, <1>9, <1>10 DEF Link, LinkReads

LEMMA ReconcileTypes ==
    ASSUME OthersTyped, TypeInv, NEW j \in Jobs,
           ReconcileStarts(j) \/ ReconcileEnters(j) \/ Learns(j) \/ LearnTimesOut(j)
    PROVE  OthersTyped'
<1> USE DEF serverVars, uiVars
<1>1. /\ job[j].token \in Tokens \cup {None}
      /\ lane # <<>> => Tail(lane) \in Seq(Jobs)
      /\ Append(lane, j) \in Seq(Jobs)
  BY JobTypes, SeqTypes DEF TypeInv, JobRecords, OthersTyped
<1>2. CASE ReconcileStarts(j)
  <2>1. minted' \in Tokens /\ faults' \in 0..MaxFaults
    BY <1>2, FaultTypes DEF ReconcileStarts, OthersTyped
  <2> QED  BY <1>2, <2>1 DEF ReconcileStarts, Reconciles, OthersTyped
<1>3. CASE ReconcileEnters(j)
  BY <1>1, <1>3 DEF ReconcileEnters, OthersTyped
<1>4. CASE Learns(j)
  <2>1. remembered' \in Tokens \cup {None} /\ faults' \in 0..MaxFaults
    BY <1>1, <1>4, FaultTypes DEF Learns, OthersTyped
  <2> QED  BY <1>1, <1>4, <2>1 DEF Learns, Running, OthersTyped
<1>5. CASE LearnTimesOut(j)
  BY <1>1, <1>5 DEF LearnTimesOut, In, Running, OthersTyped
<1> QED  BY <1>2, <1>3, <1>4, <1>5

LEMMA ArrivalTypes ==
    ASSUME OthersTyped, TypeInv, NEW j \in Jobs, PutArrives(j) \/ DeleteArrives(j)
    PROVE  OthersTyped'
<1> USE DEF serverVars, uiVars
<1>1. job[j].signer \in Users \cup {None} /\ Fits(job[j])
  BY JobTypes DEF TypeInv, JobRecords
<1>2. CASE PutArrives(j)
  <2>1. job[j].token \in Tokens
    BY <1>1, <1>2 DEF PutArrives, Fits
  <2>2. excused' \subseteq Tokens
    BY <1>2, <2>1 DEF PutArrives, OthersTyped
  <2>3. owner' \in [Tokens -> Users \cup {None}]
    BY <1>1, <1>2 DEF PutArrives, OthersTyped
  <2> QED  BY <1>2, <2>2, <2>3 DEF PutArrives, OthersTyped
<1>3. CASE DeleteArrives(j)
  <2>1. owner' \in [Tokens -> Users \cup {None}]
    BY <1>3 DEF DeleteArrives, OthersTyped
  <2> QED  BY <1>3, <2>1 DEF DeleteArrives, OthersTyped
<1> QED  BY <1>2, <1>3

LEMMA SurroundingTypes ==
    ASSUME OthersTyped, TypeInv,
           LoadMe \/ ReconcileEnds \/ SessionExpires \/ Kill \/ UNCHANGED vars
    PROVE  OthersTyped'
<1> USE DEF serverVars, uiVars
<1>1. CASE LoadMe
  <2>1. card' \in [user : Users \cup {None}, tokens : SUBSET Tokens]
    BY <1>1, ListedTypes DEF LoadMe, OthersTyped
  <2> QED  BY <1>1, <2>1 DEF LoadMe, OthersTyped
<1>2. CASE ReconcileEnds
  BY <1>2 DEF ReconcileEnds, Reconciles, OthersTyped
<1>3. CASE SessionExpires
  <2>1. \A i \in Jobs : job[i].kind = "register" /\ job[i].req = "sent" => job[i].token \in Tokens
    BY DEF TypeInv, Fits
  <2>2. excused' \subseteq Tokens
    <3>1. Unnamed(session, None) \subseteq Tokens
      BY ClearTypes
    <3> QED  BY <1>3, <2>1, <3>1 DEF SessionExpires, OthersTyped
  <2>3. faults' \in 0..MaxFaults
    BY <1>3, FaultTypes DEF SessionExpires
  <2>4. /\ session' \in Users \cup {None}
        /\ card' \in [user : Users \cup {None}, tokens : SUBSET Tokens]
    <3>1. NoCard \in [user : Users \cup {None}, tokens : SUBSET Tokens]
      BY DEF NoCard
    <3> QED  BY <1>3, <3>1 DEF SessionExpires, SessionBecomes, OthersTyped
  <2> QED  BY <1>3, <2>2, <2>3, <2>4 DEF SessionExpires, OthersTyped
<1>4. CASE Kill
  <2>1. excused' \subseteq Tokens
    <3>1. \A i \in Jobs : Left(i) \subseteq Tokens \cup {None}
      BY LeftTypes
    <3> QED  BY <1>4, <3>1 DEF Kill, OthersTyped
  <2>2. faults' \in 0..MaxFaults
    BY <1>4, FaultTypes DEF Kill
  <2>3. <<>> \in Seq(Jobs)
    OBVIOUS
  <2> QED  BY <1>4, <2>1, <2>2, <2>3 DEF Kill, NoCard, NoScreen, OthersTyped
<1>5. CASE UNCHANGED vars
  BY <1>5 DEF vars, OthersTyped
<1> QED  BY <1>1, <1>2, <1>3, <1>4, <1>5

\* A link that has begun is the first of those that have not settled.
LinkHasTurn == \A j \in Jobs : job[j].kind = "link" /\ job[j].at \notin {"waiting", "done"} => Turn(j)

LEMMA NextTypes ==
    ASSUME TypeInv, LinkHasTurn, [Next]_vars
    PROVE  TypeInv'
<1>1. OthersTyped
  BY DEF TypeInv, TypeOK, OthersTyped
<1>2. job' \in [Jobs -> JobRecords] /\ \A j \in Jobs : Fits(job'[j])
  BY NextJobs
<1>3. OthersTyped'
  <2>1. ASSUME NEW j \in Jobs,
               Link(j) \/ LinkMissesPrevious(j) \/ LinkCleared(j) \/ UndoCleared(j)
        PROVE  links # <<>>
    <3>1. job[j].kind = "link" /\ job[j].at \notin {"waiting", "done"}
      <4>1. CASE \/ LinkReads(j) \/ LinkRefused(j) \/ LinkExchanges(j)
                 \/ LinkCleared(j) \/ UndoCleared(j) \/ UndoLeaves(j)
        BY <4>1 DEF LinkReads, LinkReadsPrevious, LinkMissesPrevious, LinkRefused, LinkExchanges,
                    LinkCleared, UndoCleared, UndoLeaves, In
      <4>2. CASE LinkPosts(j) \/ LinkSignedIn(j) \/ LinkUnposted(j)
        BY <4>2 DEF LinkPosts, LinkSignedIn, LinkUnposted
      <4> QED  BY <2>1, <4>1, <4>2 DEF Link, LinkReads
    <3> QED  BY <3>1 DEF LinkHasTurn, Turn
  <2>2. ASSUME NEW j \in Jobs,
               \/ PressRegister(j) \/ PressSignOut(j) \/ (\E u \in Users : OpenLink(j, u))
               \/ OpenRefusedLink(j)
               \/ Enters(j) \/ Bounds(j) \/ Register(j) \/ SignOut(j) \/ Link(j)
               \/ ReconcileStarts(j) \/ ReconcileEnters(j) \/ Learns(j)
               \/ PutArrives(j) \/ DeleteArrives(j)
        PROVE  OthersTyped'
    BY <1>1, <2>1, <2>2, BeginTypes, RegisterTypes, SignOutTypes, LinkTypes, ReconcileTypes,
       ArrivalTypes DEF Enters, Bounds
  <2> QED  BY <1>1, <2>2, SurroundingTypes DEF Next
<1>4. TypeOK'
  BY <1>2, <1>3 DEF TypeOK, OthersTyped, JobRecords
<1> QED  BY <1>2, <1>4 DEF TypeInv

-----------------------------------------------------------------------------
(* The lane: the step at its head alone has begun.                         *)

\* Only the step at the head of the lane has begun.
InStepAtHead == \A j \in Jobs : job[j].at \in InStep => Running(j)

\* What the reconcile's step read is what the storage holds, while it waits.
LearnReadsStorage ==
    \A j \in Jobs : job[j].kind = "learn" /\ job[j].at = "reading" => job[j].prev = remembered

\* A step of j lets the lane be, queues j, or is j's last there.
Lanes(j) ==
    \/ lane' = lane /\ (job'[j].at \in InStep => Running(j))
    \/ lane' = Append(lane, j) /\ job'[j].at \notin InStep
    \/ Running(j) /\ lane' = Tail(lane) /\ job'[j].at \notin InStep

\* The remembered token changes in the lane alone, and a read is of the new one.
Remembers(j) ==
    /\ remembered' = remembered \/ Running(j)
    /\ job'[j].kind = "learn" /\ job'[j].at = "reading" => job'[j].prev = remembered'

\* A request goes out in the lane alone.
Sends(j) == job'[j].req = "sent" => job[j].req = "sent" \/ Running(j)

LaneStep(j) == Only(j) /\ Lanes(j) /\ Remembers(j) /\ Sends(j)

LEMMA BeginLane ==
    ASSUME TypeInv, NEW j \in Jobs,
           \/ PressRegister(j) \/ PressSignOut(j) \/ (\E u \in Users : OpenLink(j, u))
           \/ OpenRefusedLink(j)
           \/ ReconcileStarts(j) \/ Start(j) \/ UndoStarts(j) \/ LinkEnters(j)
    PROVE  LaneStep(j)
<1> USE DEF TypeInv
<1>1. CASE PressRegister(j)
  <2>1. Created(j, "register", "prompt", session) /\ lane' = lane /\ remembered' = remembered
    BY <1>1, BeganEffects DEF PressRegister
  <2> QED  BY <2>1 DEF Created, LaneStep, Lanes, Remembers, Sends, InStep
<1>2. CASE PressSignOut(j)
  <2>1. Created(j, "signOut", "queued", None) /\ lane' = Append(lane, j) /\ remembered' = remembered
    BY <1>2, BeganEffects DEF PressSignOut
  <2> QED  BY <2>1 DEF Created, LaneStep, Lanes, Remembers, Sends, InStep
<1>3. CASE \E u \in Users : OpenLink(j, u)
  <2>1. PICK u \in Users : OpenLink(j, u)
    BY <1>3
  <2>2. Created(j, "link", "waiting", u) /\ lane' = lane /\ remembered' = remembered
    BY <2>1, BeganEffects DEF OpenLink
  <2> QED  BY <2>2 DEF Created, LaneStep, Lanes, Remembers, Sends, InStep
<1>4. CASE ReconcileStarts(j)
  <2>1. Created(j, "learn", "prompt", None) /\ lane' = lane /\ remembered' = remembered
    BY <1>4, BeganEffects DEF ReconcileStarts
  <2> QED  BY <2>1 DEF Created, LaneStep, Lanes, Remembers, Sends, InStep
<1>5. CASE Start(j)
  <2>1. /\ Puts(j, "reading") /\ lane' = lane /\ remembered' = remembered /\ Running(j)
        /\ job'[j].prev = IF job[j].kind = "learn" THEN remembered ELSE job[j].prev
    BY <1>5, StartPuts DEF Start
  <2> QED  BY <2>1 DEF Puts, LaneStep, Lanes, Remembers, Sends
<1>6. CASE UndoStarts(j)
  <2>1. /\ Puts(j, "undoSending") \/ Puts(j, "undoLeaving")
        /\ lane' = lane /\ remembered' = remembered /\ Running(j)
    BY <1>6, LinkEffects DEF UndoStarts
  <2> QED  BY <2>1 DEF Puts, LaneStep, Lanes, Remembers, Sends
<1>7. CASE LinkEnters(j)
  <2>1. /\ Puts(j, "queued") /\ job'[j].req = job[j].req
        /\ lane' = Append(lane, j) /\ remembered' = remembered
    BY <1>7, LinkEffects DEF LinkEnters
  <2> QED  BY <2>1 DEF Puts, LaneStep, Lanes, Remembers, Sends, InStep
<1>8. CASE OpenRefusedLink(j)
  <2>1. Created(j, "spent", "done", None) /\ lane' = lane /\ remembered' = remembered
    BY <1>8, BeganEffects DEF OpenRefusedLink
  <2> QED  BY <2>1 DEF Created, LaneStep, Lanes, Remembers, Sends, InStep
<1> QED  BY <1>1, <1>2, <1>3, <1>4, <1>5, <1>6, <1>7, <1>8

\* A step that ends its job, in the lane or out of it.
LEMMA FinishLane ==
    ASSUME TypeInv, NEW j \in Jobs, Finishes(j), remembered' = remembered \/ Running(j),
           lane' = lane \/ (Running(j) /\ lane' = Tail(lane))
    PROVE  LaneStep(j)
BY DEF Finishes, LaneStep, Lanes, Remembers, Sends, InStep

\* A step that takes its job on: within the lane, out of it or to its queue.
LEMMA PutLane ==
    ASSUME TypeInv, NEW j \in Jobs, NEW p \in Places \ {"reading"}, Puts(j, p),
           remembered' = remembered \/ Running(j), job'[j].req = job[j].req \/ Running(j),
           \/ lane' = lane /\ (p \in InStep => Running(j))
           \/ lane' = Append(lane, j) /\ p \notin InStep
           \/ Running(j) /\ lane' = Tail(lane) /\ p \notin InStep
    PROVE  LaneStep(j)
BY DEF Puts, LaneStep, Lanes, Remembers, Sends

LEMMA RegisterLane ==
    ASSUME TypeInv, NEW j \in Jobs, Register(j) \/ RegisterTimesOut(j)
    PROVE  LaneStep(j)
<1> USE DEF TypeInv
<1>1. "queued" \in Places \ InStep /\ "sending" \in Places /\ "confirming" \in Places
      /\ "late" \in Places \ InStep /\ "reading" \in Places
  BY DEF Places, Queued, InStep, Over
<1>2. CASE TokenRead(j)
  BY <1>1, <1>2, TokenReadPuts, PutLane DEF TokenRead
<1>3. CASE TokenRefused(j) \/ RegisterResumesLate(j)
  <2>1. Finishes(j) /\ lane' = lane /\ remembered' = remembered
    BY <1>3, RegisterEffects DEF TokenRefused, RegisterResumesLate
  <2> QED  BY <2>1, FinishLane
<1>4. CASE RegisterSkips(j) \/ RegisterConfirms(j) \/ RegisterFails(j)
  <2>1. Finishes(j) /\ Running(j) /\ lane' = Tail(lane)
    BY <1>4, RegisterEffects DEF RegisterSkips, RegisterConfirms, RegisterFails, EndRegister, In
  <2> QED  BY <2>1, FinishLane
<1>5. CASE RegisterSends(j)
  <2>1. Puts(j, "sending") /\ Running(j) /\ lane' = lane /\ remembered' = remembered
    BY <1>5, RegisterSendsPuts DEF RegisterSends, In
  <2> QED  BY <1>1, <2>1, PutLane
<1>6. CASE RegisterStored(j)
  <2>1. Puts(j, "confirming") /\ Running(j) /\ lane' = lane
    BY <1>6, RegisterEffects DEF RegisterStored, In
  <2> QED  BY <1>1, <2>1, PutLane
<1>7. CASE RegisterTimesOut(j)
  <2>1. Puts(j, "late") \/ Finishes(j)
    BY <1>7, RegisterEffects
  <2>2. Running(j) /\ lane' = Tail(lane)
    BY <1>7 DEF RegisterTimesOut
  <2> QED  BY <1>1, <2>1, <2>2, PutLane, FinishLane
<1> QED  BY <1>2, <1>3, <1>4, <1>5, <1>6, <1>7 DEF Register

LEMMA SignOutLane ==
    ASSUME TypeInv, NEW j \in Jobs, SignOut(j) \/ SignOutGivesUpClear(j)
    PROVE  LaneStep(j)
<1> USE DEF TypeInv
<1>1. "leaving" \in Places /\ "sending" \in Places
  BY DEF Places, InStep
<1>2. CASE SignOutLeaves(j)
  <2>1. Finishes(j) /\ Running(j) /\ lane' = Tail(lane)
    BY <1>2, SignOutEffects DEF SignOutLeaves, In
  <2> QED  BY <2>1, FinishLane
<1>3. CASE SignOutReads(j) \/ SignOutCleared(j) \/ SignOutGivesUpClear(j)
  <2>1. Puts(j, "leaving") \/ Puts(j, "sending")
    BY <1>3, SignOutEffects
  <2>2. Running(j) /\ lane' = lane
    BY <1>3 DEF SignOutReads, SignOutCleared, SignOutGivesUpClear, In
  <2> QED  BY <1>1, <2>1, <2>2, PutLane
<1> QED  BY <1>2, <1>3 DEF SignOut

LEMMA LinkLane ==
    ASSUME TypeInv, NEW j \in Jobs, Link(j) \/ LinkMissesPrevious(j) \/ LinkCleared(j) \/ UndoCleared(j)
    PROVE  LaneStep(j)
<1> USE DEF TypeInv
<1>1. /\ "exchanging" \in Places /\ "sending" \in Places /\ "undoLeaving" \in Places
      /\ "creating" \in Places \ InStep /\ "upserting" \in Places \ InStep
      /\ "undoQueued" \in Places \ InStep /\ "reading" \in InStep
  BY DEF Places, Queued, InStep
<1>2. CASE LinkReads(j)
  <2>1. Puts(j, "exchanging") /\ Running(j) /\ lane' = lane
    BY <1>2, LinkEffects DEF LinkReads, LinkReadsPrevious, LinkMissesPrevious, In
  <2> QED  BY <1>1, <2>1, PutLane
<1>3. CASE LinkRefused(j) \/ UndoLeaves(j)
  <2>1. Finishes(j) /\ Running(j) /\ lane' = Tail(lane)
    BY <1>3, LinkEffects DEF LinkRefused, UndoLeaves, In
  <2> QED  BY <2>1, FinishLane
<1>4. CASE LinkExchanges(j)
  <2>1. \/ Puts(j, "sending") /\ lane' = lane
        \/ Puts(j, "creating") /\ lane' = Tail(lane)
    BY <1>4, LinkEffects
  <2>2. Running(j)
    BY <1>4 DEF LinkExchanges, In
  <2> QED  BY <1>1, <2>1, <2>2, PutLane
<1>5. CASE LinkCleared(j)
  <2>1. Puts(j, "creating") /\ Running(j) /\ lane' = Tail(lane)
    BY <1>5, LinkEffects DEF LinkCleared, In
  <2> QED  BY <1>1, <2>1, PutLane
<1>6. CASE LinkPosts(j)
  <2>1. Puts(j, "upserting") /\ lane' = lane /\ remembered' = remembered /\ job'[j].req = job[j].req
    BY <1>6, LinkEffects DEF LinkPosts
  <2> QED  BY <1>1, <2>1, PutLane
<1>7. CASE LinkSignedIn(j)
  <2>1. Finishes(j) /\ lane' = lane /\ remembered' = remembered
    BY <1>7, LinkEffects DEF LinkSignedIn
  <2> QED  BY <2>1, FinishLane
<1>8. CASE LinkUnposted(j)
  <2>1. /\ Puts(j, "undoQueued") /\ lane' = Append(lane, j) /\ remembered' = remembered
        /\ job'[j].req = job[j].req
    BY <1>8, LinkEffects DEF LinkUnposted
  <2> QED  BY <1>1, <2>1, PutLane
<1>9. CASE UndoCleared(j)
  <2>1. Puts(j, "undoLeaving") /\ Running(j) /\ lane' = lane
    BY <1>9, LinkEffects DEF UndoCleared, In
  <2> QED  BY <1>1, <2>1, PutLane
<1> QED  BY <1>2, <1>3, <1>4, <1>5, <1>6, <1>7, <1>8, <1>9 DEF Link, LinkReads

LEMMA ReconcileLane ==
    ASSUME TypeInv, NEW j \in Jobs, ReconcileEnters(j) \/ Learns(j) \/ LearnTimesOut(j),
           InStepAtHead
    PROVE  LaneStep(j)
<1> USE DEF TypeInv
<1>1. "queued" \in Places \ InStep /\ "late" \in Places \ InStep /\ "reading" \in InStep
  BY DEF Places, Queued, InStep, Over
<1>2. CASE ReconcileEnters(j)
  <2>1. /\ Puts(j, "queued") /\ lane' = Append(lane, j) /\ remembered' = remembered
        /\ job'[j].req = job[j].req
    BY <1>2, LearnEffects DEF ReconcileEnters
  <2> QED  BY <1>1, <2>1, PutLane
<1>3. CASE Learns(j)
  <2>1. Finishes(j)
    BY <1>3, LearnEffects
  <2>2. remembered' = remembered \/ Running(j)
    BY <1>3 DEF Learns, Aborted, In
  <2>3. lane' = lane \/ (Running(j) /\ lane' = Tail(lane))
    BY <1>3 DEF Learns
  <2> QED  BY <2>1, <2>2, <2>3, FinishLane
<1>4. CASE LearnTimesOut(j)
  <2>1. Puts(j, "late") /\ Running(j) /\ lane' = Tail(lane)
    BY <1>4, LearnEffects DEF LearnTimesOut, In
  <2> QED  BY <1>1, <2>1, PutLane
<1> QED  BY <1>2, <1>3, <1>4

LEMMA ArrivalLane ==
    ASSUME TypeInv, NEW j \in Jobs, PutArrives(j) \/ DeleteArrives(j),
           InStepAtHead, LearnReadsStorage
    PROVE  LaneStep(j)
<1>1. Answered(j) /\ job'[j].req # "sent"
  BY ArrivalEffects DEF TypeInv
<1>2. lane' = lane /\ remembered' = remembered
  BY DEF PutArrives, DeleteArrives
<1>3. /\ job[j].at \in InStep => Running(j)
      /\ job[j].kind = "learn" /\ job[j].at = "reading" => job[j].prev = remembered
  BY DEF InStepAtHead, LearnReadsStorage
<1> QED  BY <1>1, <1>2, <1>3 DEF Answered, LaneStep, Lanes, Remembers, Sends

\* One job, and which.
Acts(j) ==
    \/ PressRegister(j) \/ PressSignOut(j)
    \/ (\E u \in Users : OpenLink(j, u)) \/ OpenRefusedLink(j)
    \/ Enters(j) \/ Bounds(j)
    \/ Register(j) \/ SignOut(j) \/ Link(j)
    \/ ReconcileStarts(j) \/ ReconcileEnters(j) \/ Learns(j)
    \/ PutArrives(j) \/ DeleteArrives(j)

LEMMA NextActs == Next => \/ \E j \in Jobs : Acts(j)
                          \/ LoadMe \/ ReconcileEnds \/ SessionExpires \/ Kill
BY DEF Next, Acts

LEMMA ActsInLane ==
    ASSUME TypeInv, InStepAtHead, LearnReadsStorage, NEW j \in Jobs, Acts(j)
    PROVE  LaneStep(j)
BY BeginLane, RegisterLane, SignOutLane, LinkLane, ReconcileLane, ArrivalLane
   DEF Acts, Enters, Bounds

LEMMA HeadOfLane ==
    ASSUME NEW S, NEW s \in Seq(S), NEW x \in S, s # <<>>
    PROVE  Append(s, x) # <<>> /\ Head(Append(s, x)) = Head(s)
OBVIOUS

LEMMA NextLane ==
    ASSUME TypeInv, InStepAtHead, LearnReadsStorage, [Next]_vars
    PROVE  InStepAtHead' /\ LearnReadsStorage'
<1>1. ASSUME NEW j \in Jobs, Acts(j)  PROVE InStepAtHead' /\ LearnReadsStorage'
  <2>1. LaneStep(j)
    BY <1>1, ActsInLane
  <2>2. ASSUME NEW i \in Jobs, job'[i].at \in InStep  PROVE Running(i)'
    <3>1. lane \in Seq(Jobs)
      BY DEF TypeInv, TypeOK
    <3>2. CASE i = j
      BY <2>1, <2>2, <3>2 DEF LaneStep, Lanes, Running
    <3>3. CASE i # j
      <4>1. Running(i)
        BY <2>1, <2>2, <3>3 DEF LaneStep, Only, InStepAtHead
      <4> QED  BY <2>1, <3>1, <3>3, <4>1, HeadOfLane DEF LaneStep, Lanes, Running
    <3> QED  BY <3>2, <3>3
  <2>3. ASSUME NEW i \in Jobs, job'[i].kind = "learn", job'[i].at = "reading"
        PROVE  job'[i].prev = remembered'
    <3>1. CASE i = j
      BY <2>1, <2>3, <3>1 DEF LaneStep, Remembers
    <3>2. CASE i # j
      <4>1. job'[i] = job[i]
        BY <2>1, <3>2 DEF LaneStep, Only
      <4>2. Running(i) /\ job[i].prev = remembered
        BY <2>3, <4>1 DEF InStepAtHead, LearnReadsStorage, InStep
      <4> QED  BY <2>1, <3>2, <4>1, <4>2 DEF LaneStep, Remembers, Running
    <3> QED  BY <3>1, <3>2
  <2> QED  BY <2>2, <2>3 DEF InStepAtHead, LearnReadsStorage
<1>2. ASSUME UNCHANGED <<job, lane, remembered>>  PROVE InStepAtHead' /\ LearnReadsStorage'
  BY <1>2 DEF InStepAtHead, LearnReadsStorage, Running
<1>3. CASE Kill
  BY <1>3, KillEffects DEF TypeInv, InStepAtHead, LearnReadsStorage, InStep
<1>4. LoadMe \/ ReconcileEnds \/ SessionExpires \/ UNCHANGED vars => UNCHANGED <<job, lane, remembered>>
  BY DEF LoadMe, ReconcileEnds, SessionExpires, vars
<1> QED  BY <1>1, <1>2, <1>3, <1>4, NextActs

-----------------------------------------------------------------------------
(* The links: one after the other, each signed in from its exchange on.    *)

\* The links that have not settled wait in the order they were opened, each
\* once, and the first alone may have begun.
LinksInOrder ==
    /\ \A n \in 1..Len(links) : job[links[n]].kind = "link" /\ job[links[n]].at # "done"
    /\ \A n, m \in 1..Len(links) : links[n] = links[m] => n = m
    /\ LinkHasTurn

\* From its exchange to its end, a link's account is signed in or nobody is.
PastExchange == {"sending", "creating", "upserting", "undoQueued", "undoSending", "undoLeaving"}

LinkIsSignedIn ==
    \A j \in Jobs : job[j].kind = "link" /\ job[j].at \in PastExchange =>
                        session \in {None, job[j].user}

OfNoLink(j) ==
    /\ job[j].kind # "link" /\ job'[j].kind # "link"
    /\ links' = links /\ session' \in {session, None}

LinkOpens(j) ==
    /\ job[j].kind = "none" /\ job'[j].kind = "link" /\ job'[j].at = "waiting"
    /\ links' = Append(links, j) /\ session' = session

\* The link whose turn it is takes its steps, the exchange among them.
LinkGoesOn(j) ==
    /\ Turn(j) /\ links' = links
    /\ job[j].kind = "link" /\ job[j].at # "done"
    /\ job'[j].kind = "link" /\ job'[j].at # "done" /\ job'[j].user = job[j].user
    /\ \/ session' = session /\ (job'[j].at \in PastExchange => job[j].at \in PastExchange)
       \/ session' = job[j].user

LinkEnds(j) ==
    /\ Turn(j) /\ links' = Tail(links)
    /\ job'[j].at = "done" /\ session' \in {session, None}

LinkAnswered(j) == Answered(j) /\ links' = links /\ session' = session

LinkStep(j) ==
    /\ Only(j)
    /\ OfNoLink(j) \/ LinkOpens(j) \/ LinkGoesOn(j) \/ LinkEnds(j) \/ LinkAnswered(j)

\* A job that is no link does not become one, nor moves the links.
LEMMA NoLinkStep ==
    ASSUME NEW j \in Jobs, job[j].kind # "link", links' = links, session' \in {session, None},
           \/ Finishes(j)
           \/ \E p : Puts(j, p)
           \/ \E k \in {"register", "signOut", "learn", "spent"} : \E p, u : Created(j, k, p, u)
    PROVE  LinkStep(j)
BY DEF Finishes, Puts, Created, LinkStep, OfNoLink

LEMMA OtherKindsLinks ==
    ASSUME TypeInv, NEW j \in Jobs,
           \/ PressRegister(j) \/ PressSignOut(j) \/ OpenRefusedLink(j) \/ ReconcileStarts(j)
           \/ Register(j) \/ RegisterTimesOut(j) \/ SignOut(j) \/ SignOutGivesUpClear(j)
           \/ ReconcileEnters(j) \/ Learns(j) \/ LearnTimesOut(j)
    PROVE  LinkStep(j)
<1> USE DEF TypeInv
<1>1. CASE PressRegister(j) \/ PressSignOut(j) \/ OpenRefusedLink(j) \/ ReconcileStarts(j)
  <2>1. \E k \in {"register", "signOut", "learn", "spent"} : \E p, u : Created(j, k, p, u)
    BY <1>1, BeganEffects
  <2>2. job[j].kind # "link" /\ links' = links /\ session' = session
    BY <1>1 DEF PressRegister, PressSignOut, OpenRefusedLink, ReconcileStarts, Begins
  <2> QED  BY <2>1, <2>2, NoLinkStep
<1>2. CASE Register(j) \/ RegisterTimesOut(j)
  <2>1. Finishes(j) \/ \E p : Puts(j, p)
    BY <1>2, RegisterEffects, TokenReadPuts, RegisterSendsPuts DEF Register
  <2>2. job[j].kind # "link"
    BY <1>2 DEF Register, TokenRead, TokenRefused, RegisterSkips, RegisterSends, RegisterResumesLate,
                RegisterStored, RegisterConfirms, RegisterFails, RegisterTimesOut, In
  <2>3. links' = links /\ session' = session
    BY <1>2 DEF Register, TokenRead, TokenRefused, RegisterSkips, RegisterSends, RegisterResumesLate,
                RegisterStored, RegisterConfirms, RegisterFails, RegisterTimesOut
  <2> QED  BY <2>1, <2>2, <2>3, NoLinkStep
<1>3. CASE SignOut(j) \/ SignOutGivesUpClear(j)
  <2>1. Finishes(j) \/ \E p : Puts(j, p)
    BY <1>3, SignOutEffects DEF SignOut
  <2>2. job[j].kind # "link" /\ links' = links /\ session' \in {session, None}
    BY <1>3 DEF SignOut, SignOutReads, SignOutCleared, SignOutLeaves, SignOutGivesUpClear, In,
                SessionBecomes
  <2> QED  BY <2>1, <2>2, NoLinkStep
<1>4. CASE ReconcileEnters(j) \/ Learns(j) \/ LearnTimesOut(j)
  <2>1. Finishes(j) \/ \E p : Puts(j, p)
    BY <1>4, LearnEffects
  <2>2. job[j].kind # "link" /\ links' = links /\ session' = session
    BY <1>4 DEF ReconcileEnters, Learns, LearnTimesOut, In
  <2> QED  BY <2>1, <2>2, NoLinkStep
<1> QED  BY <1>1, <1>2, <1>3, <1>4

\* A link that has begun takes a step that leaves the session alone.
LEMMA LinkPutStep ==
    ASSUME LinkHasTurn, NEW j \in Jobs, NEW p, Puts(j, p), p # "done", job[j].kind = "link",
           job[j].at \notin {"waiting", "done"},
           links' = links, session' = session, p \in PastExchange => job[j].at \in PastExchange
    PROVE  LinkStep(j)
BY DEF Puts, LinkHasTurn, LinkStep, LinkGoesOn

LEMMA LinksLink ==
    ASSUME TypeInv, LinkHasTurn, NEW j \in Jobs,
           \/ (\E u \in Users : OpenLink(j, u)) \/ LinkEnters(j) \/ Link(j)
           \/ LinkMissesPrevious(j) \/ LinkCleared(j) \/ UndoCleared(j)
    PROVE  LinkStep(j)
<1> USE DEF TypeInv
<1>1. CASE \E u \in Users : OpenLink(j, u)
  <2>1. PICK u \in Users : OpenLink(j, u)
    BY <1>1
  <2>2. Created(j, "link", "waiting", u) /\ links' = Append(links, j) /\ session' = session
    BY <2>1, BeganEffects DEF OpenLink
  <2> QED  BY <2>2 DEF Created, LinkStep, LinkOpens
<1>2. CASE LinkEnters(j)
  <2>1. Puts(j, "queued") /\ Turn(j) /\ job[j].kind = "link" /\ job[j].at = "waiting"
        /\ links' = links /\ session' = session
    BY <1>2, LinkEffects DEF LinkEnters
  <2> QED  BY <2>1 DEF Puts, LinkStep, LinkGoesOn, PastExchange
<1>3. CASE LinkReads(j)
  <2>1. Puts(j, "exchanging") /\ job[j].kind = "link" /\ job[j].at = "reading"
        /\ links' = links /\ session' = session
    BY <1>3, LinkEffects DEF LinkReads, LinkReadsPrevious, LinkMissesPrevious, In
  <2> QED  BY <2>1, LinkPutStep DEF PastExchange
<1>4. CASE LinkRefused(j) \/ LinkSignedIn(j) \/ UndoLeaves(j)
  <2>1. Finishes(j)
    BY <1>4, LinkEffects
  <2>2. /\ job[j].kind = "link" /\ job[j].at \notin {"waiting", "done"}
        /\ links' = Tail(links) /\ session' \in {session, None}
    BY <1>4 DEF LinkRefused, LinkSignedIn, UndoLeaves, In, LinkSettles, SessionBecomes
  <2> QED  BY <2>1, <2>2 DEF LinkHasTurn, Finishes, LinkStep, LinkEnds
<1>5. CASE LinkExchanges(j)
  <2>1. Puts(j, "sending") \/ Puts(j, "creating")
    BY <1>5, LinkEffects
  <2>2. /\ job[j].kind = "link" /\ job[j].at = "exchanging"
        /\ links' = links /\ session' = job[j].user
    BY <1>5 DEF LinkExchanges, In, SessionBecomes
  <2> QED  BY <2>1, <2>2 DEF LinkHasTurn, Puts, LinkStep, LinkGoesOn
<1>6. CASE LinkCleared(j)
  <2>1. Puts(j, "creating") /\ job[j].kind = "link" /\ job[j].at = "sending"
        /\ links' = links /\ session' = session
    BY <1>6, LinkEffects DEF LinkCleared, In
  <2> QED  BY <2>1, LinkPutStep DEF PastExchange
<1>7. CASE LinkPosts(j)
  <2>1. Puts(j, "upserting") /\ job[j].kind = "link" /\ job[j].at = "creating"
        /\ links' = links /\ session' = session
    BY <1>7, LinkEffects DEF LinkPosts
  <2> QED  BY <2>1, LinkPutStep DEF PastExchange
<1>8. CASE LinkUnposted(j)
  <2>1. Puts(j, "undoQueued") /\ job[j].kind = "link" /\ job[j].at = "upserting"
        /\ links' = links /\ session' = session
    BY <1>8, LinkEffects DEF LinkUnposted
  <2> QED  BY <2>1, LinkPutStep DEF PastExchange
<1>9. CASE UndoCleared(j)
  <2>1. Puts(j, "undoLeaving") /\ job[j].kind = "link" /\ job[j].at = "undoSending"
        /\ links' = links /\ session' = session
    BY <1>9, LinkEffects DEF UndoCleared, In
  <2> QED  BY <2>1, LinkPutStep DEF PastExchange
<1> QED  BY <1>1, <1>2, <1>3, <1>4, <1>5, <1>6, <1>7, <1>8, <1>9 DEF Link, LinkReads

LEMMA ActsOnLinks ==
    ASSUME TypeInv, LinkHasTurn, NEW j \in Jobs, Acts(j)
    PROVE  LinkStep(j)
<1> USE DEF TypeInv
<1>1. CASE Start(j) \/ UndoStarts(j)
  <2>1. PICK p \in {"reading", "undoSending", "undoLeaving"} : Puts(j, p)
    BY <1>1, StartPuts, LinkEffects
  <2>2. /\ links' = links /\ session' = session
        /\ job[j].at \in {"queued", "undoQueued"}
        /\ p \in PastExchange => job[j].at \in PastExchange
    <3>1. CASE Start(j)
      BY <2>1, <3>1, StartPuts DEF Start, Puts, PastExchange
    <3>2. CASE UndoStarts(j)
      BY <3>2 DEF UndoStarts, PastExchange
    <3> QED  BY <1>1, <3>1, <3>2
  <2>3. CASE job[j].kind = "link"
    BY <2>1, <2>2, <2>3, LinkPutStep
  <2>4. CASE job[j].kind # "link"
    BY <2>1, <2>2, <2>4, NoLinkStep
  <2> QED  BY <2>3, <2>4
<1>2. CASE PutArrives(j) \/ DeleteArrives(j)
  <2>1. Answered(j) /\ links' = links /\ session' = session
    BY <1>2, ArrivalEffects DEF PutArrives, DeleteArrives
  <2> QED  BY <2>1 DEF LinkStep, LinkAnswered, Answered
<1> QED  BY <1>1, <1>2, OtherKindsLinks, LinksLink DEF Acts, Enters, Bounds

LEMMA QueueFacts ==
    ASSUME NEW S, NEW s \in Seq(S), NEW x \in S
    PROVE  /\ Len(Append(s, x)) = Len(s) + 1 /\ Append(s, x)[Len(s) + 1] = x
           /\ \A n \in 1..Len(s) : Append(s, x)[n] = s[n]
           /\ s # <<>> => /\ Len(s) \in Nat \ {0} /\ Head(s) = s[1]
                          /\ Len(Tail(s)) = Len(s) - 1
                          /\ \A n \in 1..Len(s) - 1 : Tail(s)[n] = s[n + 1]
                          /\ Tail(s) = <<>> <=> Len(s) = 1
           /\ Len(s) \in Nat /\ \A n \in 1..Len(s) : s[n] \in S
<1>1. Len(Append(s, x)) = Len(s) + 1 /\ Append(s, x)[Len(s) + 1] = x
  OBVIOUS
<1>2. \A n \in 1..Len(s) : Append(s, x)[n] = s[n]
  OBVIOUS
<1>3. Len(s) \in Nat /\ \A n \in 1..Len(s) : s[n] \in S
  OBVIOUS
<1>4. ASSUME s # <<>>
      PROVE  /\ Len(s) \in Nat \ {0} /\ Head(s) = s[1]
             /\ Len(Tail(s)) = Len(s) - 1
             /\ \A n \in 1..Len(s) - 1 : Tail(s)[n] = s[n + 1]
             /\ Tail(s) = <<>> <=> Len(s) = 1
  <2>1. Len(s) \in Nat \ {0} /\ Head(s) = s[1]
    BY <1>4
  <2>2. Len(Tail(s)) = Len(s) - 1
    BY <1>4
  <2>3. \A n \in 1..Len(s) - 1 : Tail(s)[n] = s[n + 1]
    BY <1>4
  <2>4. Tail(s) \in Seq(S)
    BY <1>4
  <2>5. Tail(s) = <<>> <=> Len(Tail(s)) = 0
    BY <2>4, EmptySeq
  <2> QED  BY <2>1, <2>2, <2>3, <2>5
<1> QED  BY <1>1, <1>2, <1>3, <1>4

LEMMA LinkStepKeepsOrder ==
    ASSUME TypeInv, LinksInOrder, NEW j \in Jobs, LinkStep(j)
    PROVE  LinksInOrder'
<1>1. /\ \A i \in Jobs \ {j} : job'[i] = job[i]
      /\ links \in Seq(Jobs)
  BY DEF LinkStep, Only, TypeInv, TypeOK
<1>2. CASE links' = links /\ (job[j].kind = "link" /\ job[j].at # "done" =>
                                  job'[j].kind = "link" /\ job'[j].at # "done")
                          /\ (job'[j].kind = "link" /\ job'[j].at \notin {"waiting", "done"} => Turn(j))
  <2>1. \A n \in 1..Len(links) : job'[links[n]].kind = "link" /\ job'[links[n]].at # "done"
    BY <1>1, <1>2, QueueFacts DEF LinksInOrder
  <2>2. \A i \in Jobs : job'[i].kind = "link" /\ job'[i].at \notin {"waiting", "done"} => Turn(i)
    BY <1>1, <1>2 DEF LinksInOrder, LinkHasTurn
  <2> QED  BY <1>2, <2>1, <2>2 DEF LinksInOrder, LinkHasTurn, Turn
<1>3. CASE LinkOpens(j)
  <2>1. \A n \in 1..Len(links) : links[n] \in Jobs /\ links[n] # j
    BY <1>1, <1>3, QueueFacts DEF LinkOpens, LinksInOrder
  <2>2. /\ Len(links') = Len(links) + 1 /\ links'[Len(links) + 1] = j
        /\ \A n \in 1..Len(links) : links'[n] = links[n]
        /\ Len(links) \in Nat
    BY <1>1, <1>3, QueueFacts DEF LinkOpens
  <2>3. \A n \in 1..Len(links') : job'[links'[n]].kind = "link" /\ job'[links'[n]].at # "done"
    <3> SUFFICES ASSUME NEW n \in 1..Len(links')
                 PROVE  job'[links'[n]].kind = "link" /\ job'[links'[n]].at # "done"
      OBVIOUS
    <3>1. CASE n \in 1..Len(links)
      BY <1>1, <2>1, <2>2, <3>1 DEF LinksInOrder
    <3>2. CASE n \notin 1..Len(links)
      <4>1. n = Len(links) + 1
        BY <2>2, <3>2
      <4> QED  BY <1>3, <2>2, <4>1 DEF LinkOpens
    <3> QED  BY <3>1, <3>2
  <2>4. \A n, m \in 1..Len(links') : links'[n] = links'[m] => n = m
    BY <2>1, <2>2 DEF LinksInOrder
  <2>5. \A i \in Jobs : job'[i].kind = "link" /\ job'[i].at \notin {"waiting", "done"} => Turn(i)'
    <3> SUFFICES ASSUME NEW i \in Jobs, job'[i].kind = "link", job'[i].at \notin {"waiting", "done"}
                 PROVE  Turn(i)'
      OBVIOUS
    <3>1. i # j
      BY <1>3 DEF LinkOpens
    <3>2. Turn(i)
      BY <1>1, <3>1 DEF LinksInOrder, LinkHasTurn
    <3> QED  BY <1>1, <1>3, <3>2, HeadOfLane DEF LinkOpens, Turn
  <2> QED  BY <2>3, <2>4, <2>5 DEF LinksInOrder, LinkHasTurn
<1>4. CASE LinkEnds(j)
  <2>1. /\ links # <<>> /\ links[1] = j
        /\ Len(links) \in Nat \ {0} /\ Len(links') = Len(links) - 1
        /\ \A n \in 1..Len(links) - 1 : links'[n] = links[n + 1]
    BY <1>1, <1>4, QueueFacts DEF LinkEnds, Turn
  <2>2. \A n \in 1..Len(links') : n + 1 \in 1..Len(links) /\ links'[n] = links[n + 1]
    BY <2>1
  <2>3. \A n \in 1..Len(links') : links'[n] # j
    BY <2>1, <2>2 DEF LinksInOrder
  <2>4. \A n \in 1..Len(links') : job'[links'[n]].kind = "link" /\ job'[links'[n]].at # "done"
    <3> SUFFICES ASSUME NEW n \in 1..Len(links')
                 PROVE  job'[links'[n]].kind = "link" /\ job'[links'[n]].at # "done"
      OBVIOUS
    <3>1. n + 1 \in 1..Len(links) /\ links'[n] = links[n + 1] /\ links'[n] # j
      BY <2>2, <2>3
    <3>2. links'[n] \in Jobs
      BY <1>1, <3>1, QueueFacts
    <3>3. job'[links'[n]] = job[links[n + 1]]
      BY <1>1, <3>1, <3>2
    <3> QED  BY <3>1, <3>3 DEF LinksInOrder
  <2>5. \A n, m \in 1..Len(links') : links'[n] = links'[m] => n = m
    <3> SUFFICES ASSUME NEW n \in 1..Len(links'), NEW m \in 1..Len(links'), links'[n] = links'[m]
                 PROVE  n = m
      OBVIOUS
    <3>1. n + 1 = m + 1
      BY <2>2, ZenonT(60) DEF LinksInOrder
    <3> QED  BY <3>1
  <2>6. \A i \in Jobs : ~(job'[i].kind = "link" /\ job'[i].at \notin {"waiting", "done"})
    <3> SUFFICES ASSUME NEW i \in Jobs, job'[i].kind = "link", job'[i].at \notin {"waiting", "done"}
                 PROVE  FALSE
      OBVIOUS
    <3>1. i # j
      BY <1>4 DEF LinkEnds
    <3>2. Turn(i)
      BY <1>1, <3>1 DEF LinksInOrder, LinkHasTurn
    <3> QED  BY <1>4, <3>1, <3>2 DEF LinkEnds, Turn
  <2> QED  BY <2>4, <2>5, <2>6 DEF LinksInOrder, LinkHasTurn
<1>5. OfNoLink(j) \/ LinkGoesOn(j) \/ LinkAnswered(j) =>
        links' = links /\ (job[j].kind = "link" /\ job[j].at # "done" =>
                              job'[j].kind = "link" /\ job'[j].at # "done")
                       /\ (job'[j].kind = "link" /\ job'[j].at \notin {"waiting", "done"} => Turn(j))
  BY DEF OfNoLink, LinkGoesOn, LinkAnswered, Answered, LinksInOrder, LinkHasTurn
<1> QED  BY <1>2, <1>3, <1>4, <1>5 DEF LinkStep

LEMMA LinkStepSignsIn ==
    ASSUME TypeInv, LinksInOrder, LinkIsSignedIn, NEW j \in Jobs, LinkStep(j)
    PROVE  LinkIsSignedIn'
<1> SUFFICES ASSUME NEW i \in Jobs, job'[i].kind = "link", job'[i].at \in PastExchange
             PROVE  session' \in {None, job'[i].user}
  BY DEF LinkIsSignedIn, PastExchange
<1>1. job'[i].at \notin {"waiting", "done"}
  BY DEF PastExchange
<1>2. CASE i # j
  <2>1. job'[i] = job[i]
    BY <1>2 DEF LinkStep, Only
  <2>2. session \in {None, job[i].user} /\ Turn(i)
    BY <1>1, <2>1 DEF LinkIsSignedIn, LinksInOrder, LinkHasTurn
  <2>3. session' \in {session, None}
    BY <1>2, <2>2 DEF LinkStep, OfNoLink, LinkOpens, LinkGoesOn, LinkEnds, LinkAnswered, Turn
  <2> QED  BY <2>1, <2>2, <2>3
<1>3. CASE i = j
  <2>1. CASE LinkGoesOn(j)
    BY <1>3, <2>1 DEF LinkGoesOn, LinkIsSignedIn
  <2>2. CASE LinkAnswered(j)
    <3>1. job[j].kind = "link" /\ job'[j].at = job[j].at /\ job'[j].user = job[j].user
      BY <1>1, <1>3, <2>2 DEF LinkAnswered, Answered
    <3> QED  BY <1>3, <2>2, <3>1 DEF LinkAnswered, LinkIsSignedIn
  <2> QED  BY <1>1, <1>3, <2>1, <2>2 DEF LinkStep, OfNoLink, LinkOpens, LinkEnds
<1> QED  BY <1>2, <1>3

LEMMA NextLinks ==
    ASSUME TypeInv, LinksInOrder, LinkIsSignedIn, [Next]_vars
    PROVE  LinksInOrder' /\ LinkIsSignedIn'
<1>1. ASSUME NEW j \in Jobs, Acts(j)  PROVE LinksInOrder' /\ LinkIsSignedIn'
  <2>1. LinkStep(j)
    BY <1>1, ActsOnLinks DEF LinksInOrder
  <2> QED  BY <2>1, LinkStepKeepsOrder, LinkStepSignsIn
<1>2. ASSUME UNCHANGED <<job, links>>, session' \in {session, None}
      PROVE  LinksInOrder' /\ LinkIsSignedIn'
  BY <1>2 DEF LinksInOrder, LinkHasTurn, Turn, LinkIsSignedIn
<1>3. CASE Kill
  <2>1. links' = <<>> /\ \A i \in Jobs : job'[i].at = "done"
    BY <1>3, KillEffects DEF TypeInv, Kill
  <2> QED  BY <2>1 DEF LinksInOrder, LinkHasTurn, LinkIsSignedIn, PastExchange
<1>4. LoadMe \/ ReconcileEnds \/ SessionExpires \/ UNCHANGED vars =>
        UNCHANGED <<job, links>> /\ session' \in {session, None}
  BY DEF LoadMe, ReconcileEnds, SessionExpires, SessionBecomes, vars
<1> QED  BY <1>1, <1>2, <1>3, <1>4, NextActs

-----------------------------------------------------------------------------
(* The screens: the Me card's user and attempt, and the callback screen.   *)

\* The Me card's attempt is a registration, and the card waits while it runs.
SlotFollows ==
    slot.job # None =>
        /\ job[slot.job].kind = "register" \/ (job[slot.job].kind = "spent" /\ job[slot.job].at = "done")
        /\ slot.status = "registering" <=> job[slot.job].at \notin Over

CardFollows == card.user \in {session, None}

\* A job that is a link, or one that was and is over.
MaybeLink(r) == r.kind = "link" \/ (r.kind = "spent" /\ r.at = "done")

\* The callback screen is of one link, and its error says that this one is over.
ScreenFollows ==
    screen.link # None =>
        /\ MaybeLink(job[screen.link])
        /\ screen.failed <=> job[screen.link].at = "done"

\* A registration and what the card tells of it.
SlotStep(j) ==
    \/ /\ slot' = slot
       /\ slot.job = j => /\ job'[j].at \in Over <=> job[j].at \in Over
                          /\ \/ job'[j].kind = job[j].kind /\ (job[j].kind = "spent" => job'[j].at = job[j].at)
                             \/ job'[j].kind = "spent" /\ job'[j].at = "done"
    \/ /\ slot'.job = j /\ slot'.status = "registering"
       /\ job'[j].kind = "register" /\ job'[j].at \notin Over
    \/ /\ slot.job = j => slot'.job = j /\ slot'.status # "registering"
       /\ slot.job # j => slot' = slot
       /\ job'[j].at \in Over
       /\ job'[j].kind = "register" \/ (job'[j].kind = "spent" /\ job'[j].at = "done")

LEMMA ReportStep ==
    ASSUME TypeInv, NEW j \in Jobs, NEW status \in {"idle", "error"}, Report(j, status),
           job[j].kind = "register", job'[j].at \in Over,
           job'[j].kind = "register" \/ (job'[j].kind = "spent" /\ job'[j].at = "done")
    PROVE  SlotStep(j)
<1>1. slot \in [user : Users \cup {None}, job : Jobs \cup {None},
                status : {"idle", "registering", "error"}]
  BY DEF TypeInv, TypeOK
<1> QED  BY <1>1 DEF Report, Reports, SlotStep

LEMMA RegisterSlot ==
    ASSUME TypeInv, NEW j \in Jobs, PressRegister(j) \/ Register(j) \/ RegisterTimesOut(j)
    PROVE  SlotStep(j)
<1> USE DEF TypeInv
<1>1. CASE PressRegister(j)
  <2>1. Created(j, "register", "prompt", session)
    BY <1>1, BeganEffects
  <2>2. slot' = [user |-> session, job |-> j, status |-> "registering"]
    BY <1>1 DEF PressRegister
  <2> QED  BY <2>1, <2>2 DEF Created, SlotStep, Over
<1>2. CASE TokenRefused(j) \/ RegisterSkips(j) \/ RegisterConfirms(j) \/ RegisterFails(j)
           \/ RegisterTimesOut(j)
  <2>1. Finishes(j) \/ Puts(j, "late")
    BY <1>2, RegisterEffects
  <2>2. job[j].kind = "register"
    BY <1>2 DEF TokenRefused, RegisterSkips, RegisterConfirms, RegisterFails, RegisterTimesOut, In
  <2>3. Report(j, "idle") \/ Report(j, "error")
    BY <1>2 DEF TokenRefused, RegisterSkips, RegisterConfirms, RegisterFails, RegisterTimesOut,
                EndRegister
  <2>4. /\ job'[j].at \in Over
        /\ job'[j].kind = "register" \/ (job'[j].kind = "spent" /\ job'[j].at = "done")
    BY <2>1, <2>2 DEF Finishes, Puts, Over
  <2> QED  BY <2>2, <2>3, <2>4, ReportStep
<1>3. CASE TokenRead(j) \/ RegisterSends(j) \/ RegisterStored(j)
  <2>1. Puts(j, "queued") \/ Puts(j, "sending") \/ Puts(j, "confirming")
    BY <1>3, TokenReadPuts, RegisterSendsPuts, RegisterEffects
  <2>2. slot' = slot /\ job[j].kind = "register" /\ job[j].at \in {"prompt", "reading", "sending"}
    BY <1>3 DEF TokenRead, RegisterSends, RegisterStored, In, uiVars
  <2> QED  BY <2>1, <2>2 DEF Puts, SlotStep, Over
<1>4. CASE RegisterResumesLate(j)
  <2>1. Finishes(j)
    BY <1>4, RegisterEffects
  <2>2. slot' = slot /\ job[j].at = "late" /\ job[j].kind = "register"
    BY <1>4 DEF RegisterResumesLate, uiVars
  <2> QED  BY <2>1, <2>2 DEF Finishes, SlotStep, Over
<1> QED  BY <1>1, <1>2, <1>3, <1>4 DEF Register

LEMMA ActsOnSlot ==
    ASSUME TypeInv, SlotFollows, NEW j \in Jobs, Acts(j)
    PROVE  SlotStep(j)
<1> USE DEF TypeInv
<1>1. slot.job = j => job[j].kind = "register" \/ (job[j].kind = "spent" /\ job[j].at = "done")
  BY NoneAssumption DEF SlotFollows
<1>2. CASE PressRegister(j) \/ Register(j) \/ RegisterTimesOut(j)
  BY <1>2, RegisterSlot
<1>3. CASE Start(j)
  <2>1. Puts(j, "reading") /\ slot' = slot /\ job[j].at = "queued"
    BY <1>3, StartPuts DEF Start, uiVars
  <2> QED  BY <1>1, <2>1 DEF Puts, SlotStep, Over
<1>4. CASE UndoStarts(j)
  <2>1. slot' = slot /\ job[j].at = "undoQueued" /\ Fits(job[j])
    BY <1>4 DEF UndoStarts, uiVars
  <2> QED  BY <1>1, <2>1 DEF Fits, SlotStep
<1>5. CASE PutArrives(j) \/ DeleteArrives(j)
  <2>1. Answered(j) /\ slot' = slot
    BY <1>5, ArrivalEffects DEF PutArrives, DeleteArrives, uiVars
  <2> QED  BY <2>1 DEF Answered, SlotStep
<1>6. CASE \/ PressSignOut(j) \/ (\E u \in Users : OpenLink(j, u)) \/ OpenRefusedLink(j)
           \/ ReconcileStarts(j) \/ ReconcileEnters(j) \/ Learns(j) \/ LearnTimesOut(j)
           \/ LinkEnters(j) \/ LinkMissesPrevious(j) \/ LinkCleared(j) \/ UndoCleared(j)
           \/ SignOut(j) \/ SignOutGivesUpClear(j) \/ Link(j)
  <2>1. slot' = slot
    BY <1>6 DEF PressSignOut, OpenLink, OpenRefusedLink, ReconcileStarts, ReconcileEnters, Learns,
                LearnTimesOut, LinkEnters, LinkCleared, UndoCleared, SignOut, SignOutReads,
                SignOutCleared, SignOutLeaves, SignOutGivesUpClear, Link, LinkReadsPrevious,
                LinkMissesPrevious, LinkRefused, LinkExchanges, LinkPosts, LinkSignedIn,
                LinkUnposted, UndoLeaves, uiVars
  <2>2. job[j].kind \in {"none", "link", "signOut", "learn"}
    <3>1. CASE \/ PressSignOut(j) \/ (\E u \in Users : OpenLink(j, u)) \/ OpenRefusedLink(j)
               \/ ReconcileStarts(j) \/ ReconcileEnters(j) \/ Learns(j) \/ LearnTimesOut(j)
      BY <3>1 DEF PressSignOut, OpenLink, OpenRefusedLink, ReconcileStarts, ReconcileEnters,
                  Learns, LearnTimesOut,
                  Begins, In
    <3>2. CASE LinkEnters(j) \/ LinkMissesPrevious(j) \/ LinkCleared(j) \/ UndoCleared(j) \/ Link(j)
      BY <3>2 DEF LinkEnters, LinkCleared, UndoCleared, Link, LinkReadsPrevious,
                  LinkMissesPrevious, LinkRefused, LinkExchanges, LinkPosts, LinkSignedIn,
                  LinkUnposted, UndoLeaves, In
    <3>3. CASE SignOut(j) \/ SignOutGivesUpClear(j)
      BY <3>3 DEF SignOut, SignOutReads, SignOutCleared, SignOutLeaves, SignOutGivesUpClear, In
    <3> QED  BY <1>6, <3>1, <3>2, <3>3
  <2> QED  BY <1>1, <2>1, <2>2 DEF SlotStep
<1> QED  BY <1>2, <1>3, <1>4, <1>5, <1>6 DEF Acts, Enters, Bounds

LEMMA NextSlot ==
    ASSUME TypeInv, LinkHasTurn, SlotFollows, [Next]_vars
    PROVE  SlotFollows'
<1>1. slot.job \in Jobs \cup {None}
  BY DEF TypeInv, TypeOK
<1>2. ASSUME NEW j \in Jobs, Acts(j)  PROVE SlotFollows'
  <2>1. SlotStep(j) /\ \A i \in Jobs \ {j} : job'[i] = job[i]
    BY <1>2, ActsOnSlot, ActsOnLinks DEF LinkStep, Only
  <2> QED  BY <1>1, <2>1, NoneAssumption DEF SlotStep, SlotFollows, Over
<1>3. ASSUME UNCHANGED <<job, slot>>  PROVE SlotFollows'
  BY <1>3 DEF SlotFollows
<1>4. Kill => SlotFollows'
  BY DEF Kill, SlotFollows
<1>5. LoadMe \/ ReconcileEnds \/ SessionExpires \/ UNCHANGED vars => UNCHANGED <<job, slot>>
  BY DEF LoadMe, ReconcileEnds, SessionExpires, vars, uiVars
<1> QED  BY <1>2, <1>3, <1>4, <1>5, NextActs

LEMMA SessionShown ==
    ASSUME TypeInv, CardFollows, NEW u \in Users \cup {None}, SessionBecomes(u)
    PROVE  CardFollows'
BY DEF SessionBecomes, CardFollows, NoCard

LEMMA NextCard ==
    ASSUME TypeInv, CardFollows, [Next]_vars
    PROVE  CardFollows'
<1> USE DEF TypeInv
<1>1. card \in [user : Users \cup {None}, tokens : SUBSET Tokens]
  BY DEF TypeOK
<1>2. ASSUME UNCHANGED <<session, card>>  PROVE CardFollows'
  BY <1>2 DEF CardFollows
<1>3. ASSUME UNCHANGED session, card' \in [user : Users \cup {None}, tokens : SUBSET Tokens],
             card'.user \in {session, card.user}
      PROVE  CardFollows'
  BY <1>3 DEF CardFollows
<1>4. ASSUME NEW j \in Jobs, Acts(j)  PROVE CardFollows'
  <2>1. job[j].user \in Users \cup {None}
    BY JobTypes DEF JobRecords
  <2>2. CASE SignOutLeaves(j) \/ LinkExchanges(j) \/ UndoLeaves(j)
    BY <1>2, <2>1, <2>2, SessionShown DEF SignOutLeaves, LinkExchanges, UndoLeaves
  <2>3. CASE RegisterConfirms(j)
    BY <2>3 DEF RegisterConfirms, CardFollows
  <2>4. CASE SignOutCleared(j)
    BY <1>1, <2>4 DEF SignOutCleared, CardFollows
  <2>5. CASE ReconcileStarts(j)
    BY <1>1, <2>5 DEF ReconcileStarts, Reconciles, CardFollows
  <2>6. CASE \/ PressRegister(j) \/ PressSignOut(j) \/ (\E u \in Users : OpenLink(j, u))
             \/ OpenRefusedLink(j) \/ Enters(j) \/ Bounds(j)
             \/ TokenRead(j) \/ TokenRefused(j) \/ RegisterSkips(j) \/ RegisterSends(j)
             \/ RegisterResumesLate(j) \/ RegisterStored(j) \/ RegisterFails(j)
    BY <1>2, <2>6 DEF PressRegister, PressSignOut, OpenLink, OpenRefusedLink, Enters, Start,
                      UndoStarts, LinkEnters, Bounds, RegisterTimesOut, SignOutGivesUpClear,
                      LinkMissesPrevious, LinkCleared, UndoCleared, LearnTimesOut, TokenRead,
                      TokenRefused, RegisterSkips, RegisterSends,
                      RegisterResumesLate, RegisterStored, RegisterFails, uiVars
  <2>7. CASE \/ SignOutReads(j) \/ LinkReadsPrevious(j) \/ LinkRefused(j) \/ LinkPosts(j)
             \/ LinkSignedIn(j) \/ LinkUnposted(j)
             \/ ReconcileEnters(j) \/ Learns(j) \/ PutArrives(j) \/ DeleteArrives(j)
    BY <1>2, <2>7 DEF SignOutReads, LinkReadsPrevious, LinkRefused, LinkPosts, LinkSignedIn,
                      LinkUnposted, ReconcileEnters, Learns, PutArrives, DeleteArrives, uiVars
  <2> QED  BY <1>4, <2>2, <2>3, <2>4, <2>5, <2>6, <2>7 DEF Acts, Register, SignOut, Link
<1>5. CASE LoadMe
  BY <1>5 DEF LoadMe, CardFollows
<1>6. CASE ReconcileEnds
  BY <1>1, <1>6 DEF ReconcileEnds, Reconciles, CardFollows
<1>7. CASE SessionExpires
  BY <1>7, SessionShown DEF SessionExpires
<1>8. CASE Kill
  BY <1>8 DEF Kill, NoCard, CardFollows
<1>9. CASE UNCHANGED vars
  BY <1>2, <1>9 DEF vars, uiVars
<1> QED  BY <1>4, <1>5, <1>6, <1>7, <1>8, <1>9, NextActs

\* A step of j and the callback screen: left, of j from now on, or as it was.
ScreenStep(j) ==
    \/ screen' = NoScreen
    \/ /\ screen'.link = j /\ MaybeLink(job'[j])
       /\ screen'.failed <=> job'[j].at = "done"
    \/ /\ screen' = screen
       /\ screen.link = j => /\ MaybeLink(job'[j])
                             /\ job'[j].at = "done" <=> job[j].at = "done"

\* A link that goes on, or whose request is answered, and the screen as it was.
LEMMA LinkOnScreen ==
    ASSUME ScreenFollows, NEW j \in Jobs, screen' = screen,
           \/ job[j].at # "done" /\ \E p : p # "done" /\ Puts(j, p)
           \/ Answered(j)
    PROVE  ScreenStep(j)
<1>1. screen.link = j => MaybeLink(job[j])
  BY NoneAssumption DEF ScreenFollows
<1> QED  BY <1>1 DEF Puts, Answered, MaybeLink, ScreenStep

\* A job of another kind is not on the callback screen.
LEMMA OtherOffScreen ==
    ASSUME ScreenFollows, NEW j \in Jobs, screen' = screen, job[j].kind \notin {"link", "spent"}
    PROVE  ScreenStep(j)
<1>1. screen.link = j => MaybeLink(job[j])
  BY NoneAssumption DEF ScreenFollows
<1> QED  BY <1>1 DEF MaybeLink, ScreenStep

LEMMA LinksOnScreen ==
    ASSUME TypeInv, ScreenFollows, NEW j \in Jobs,
           \/ (\E u \in Users : OpenLink(j, u)) \/ OpenRefusedLink(j) \/ LinkEnters(j) \/ Link(j)
           \/ LinkMissesPrevious(j) \/ LinkCleared(j) \/ UndoCleared(j)
    PROVE  ScreenStep(j)
<1> USE DEF TypeInv
<1>1. screen \in [link : Jobs \cup {None}, failed : BOOLEAN]
  BY DEF TypeOK
<1>2. CASE \E u \in Users : OpenLink(j, u)
  <2>1. PICK u \in Users : OpenLink(j, u)
    BY <1>2
  <2>2. Created(j, "link", "waiting", u) /\ screen' = [link |-> j, failed |-> FALSE]
    BY <2>1, BeganEffects DEF OpenLink
  <2> QED  BY <2>2 DEF Created, MaybeLink, ScreenStep
<1>3. CASE OpenRefusedLink(j)
  <2>1. Created(j, "spent", "done", None) /\ screen' = [link |-> j, failed |-> TRUE]
    BY <1>3, BeganEffects DEF OpenRefusedLink
  <2> QED  BY <2>1 DEF Created, MaybeLink, ScreenStep
<1>4. CASE LinkRefused(j) \/ UndoLeaves(j)
  <2>1. Finishes(j) /\ job[j].kind = "link" /\ TellsOfFailure(j)
    BY <1>4, LinkEffects DEF LinkRefused, UndoLeaves, In
  <2>2. MaybeLink(job'[j]) /\ job'[j].at = "done"
    BY <2>1 DEF Finishes, MaybeLink
  <2>3. CASE screen.link = j
    <3>1. screen'.link = j /\ screen'.failed = TRUE
      BY <1>1, <2>1, <2>3 DEF TellsOfFailure, IsLatest
    <3> QED  BY <2>2, <3>1 DEF ScreenStep
  <2>4. CASE screen.link # j
    <3>1. screen' = screen
      BY <2>1, <2>4 DEF TellsOfFailure, IsLatest
    <3> QED  BY <2>4, <3>1 DEF ScreenStep
  <2> QED  BY <2>3, <2>4
<1>5. CASE LinkSignedIn(j)
  <2>1. screen' = IF screen.link = j THEN NoScreen ELSE screen
    BY <1>5 DEF LinkSignedIn, IsLatest
  <2> QED  BY <2>1 DEF ScreenStep
<1>6. CASE \/ LinkEnters(j) \/ LinkReads(j) \/ LinkExchanges(j) \/ LinkCleared(j)
           \/ LinkPosts(j) \/ LinkUnposted(j) \/ UndoCleared(j)
  <2>1. screen' = screen /\ job[j].at # "done"
    BY <1>6 DEF LinkEnters, LinkReads, LinkReadsPrevious, LinkMissesPrevious, LinkExchanges,
                LinkCleared, LinkPosts, LinkUnposted, UndoCleared, In, uiVars
  <2>2. \E p : p # "done" /\ Puts(j, p)
    BY <1>6, LinkEffects
  <2> QED  BY <2>1, <2>2, LinkOnScreen
<1> QED  BY <1>2, <1>3, <1>4, <1>5, <1>6 DEF Link, LinkReads

LEMMA OthersOnScreen ==
    ASSUME TypeInv, ScreenFollows, NEW j \in Jobs,
           \/ Register(j) \/ RegisterTimesOut(j) \/ SignOut(j) \/ SignOutGivesUpClear(j)
           \/ ReconcileStarts(j) \/ ReconcileEnters(j) \/ Learns(j) \/ LearnTimesOut(j)
    PROVE  ScreenStep(j)
<1>1. CASE Register(j) \/ RegisterTimesOut(j)
  <2>1. job[j].kind = "register" /\ screen' = screen
    BY <1>1 DEF Register, TokenRead, TokenRefused, RegisterSkips, RegisterSends, RegisterResumesLate,
                RegisterStored, RegisterConfirms, RegisterFails, RegisterTimesOut, In, uiVars
  <2> QED  BY <2>1, OtherOffScreen
<1>2. CASE SignOut(j) \/ SignOutGivesUpClear(j)
  <2>1. job[j].kind = "signOut" /\ screen' = screen
    BY <1>2 DEF SignOut, SignOutReads, SignOutCleared, SignOutLeaves, SignOutGivesUpClear, In, uiVars
  <2> QED  BY <2>1, OtherOffScreen
<1>3. CASE ReconcileStarts(j) \/ ReconcileEnters(j) \/ Learns(j) \/ LearnTimesOut(j)
  <2>1. job[j].kind \in {"none", "learn"} /\ screen' = screen
    BY <1>3 DEF ReconcileStarts, ReconcileEnters, Learns, LearnTimesOut, In, uiVars
  <2> QED  BY <2>1, OtherOffScreen
<1> QED  BY <1>1, <1>2, <1>3

LEMMA ActsOnScreen ==
    ASSUME TypeInv, ScreenFollows, NEW j \in Jobs, Acts(j)
    PROVE  ScreenStep(j)
<1>1. CASE PressRegister(j) \/ PressSignOut(j)
  BY <1>1 DEF PressRegister, PressSignOut, ScreenStep
<1>2. CASE Start(j) \/ UndoStarts(j)
  <2>1. screen' = screen /\ job[j].at # "done"
    BY <1>2 DEF Start, UndoStarts, uiVars
  <2>2. \E p : p # "done" /\ Puts(j, p)
    BY <1>2, StartPuts, LinkEffects DEF TypeInv
  <2> QED  BY <2>1, <2>2, LinkOnScreen
<1>3. CASE PutArrives(j) \/ DeleteArrives(j)
  <2>1. screen' = screen /\ Answered(j)
    BY <1>3, ArrivalEffects DEF PutArrives, DeleteArrives, uiVars, TypeInv
  <2> QED  BY <2>1, LinkOnScreen
<1> QED  BY <1>1, <1>2, <1>3, LinksOnScreen, OthersOnScreen DEF Acts, Enters, Bounds

LEMMA NextScreen ==
    ASSUME TypeInv, LinkHasTurn, ScreenFollows, [Next]_vars
    PROVE  ScreenFollows'
<1>1. screen.link \in Jobs \cup {None}
  BY DEF TypeInv, TypeOK
<1>2. screen' = NoScreen => ScreenFollows'
  BY DEF NoScreen, ScreenFollows
<1>3. ASSUME NEW j \in Jobs, Acts(j)  PROVE ScreenFollows'
  <2>1. ScreenStep(j) /\ \A i \in Jobs \ {j} : job'[i] = job[i]
    BY <1>3, ActsOnScreen, ActsOnLinks DEF LinkStep, Only
  <2>2. CASE /\ screen'.link = j /\ MaybeLink(job'[j])
             /\ screen'.failed <=> job'[j].at = "done"
    BY <2>2 DEF ScreenFollows
  <2>3. CASE /\ screen' = screen
             /\ screen.link = j => /\ MaybeLink(job'[j])
                                   /\ job'[j].at = "done" <=> job[j].at = "done"
    <3>1. CASE screen.link = j
      BY <2>3, <3>1, NoneAssumption DEF ScreenFollows
    <3>2. CASE screen.link # j
      BY <1>1, <2>1, <2>3, <3>2 DEF ScreenFollows
    <3> QED  BY <3>1, <3>2
  <2> QED  BY <1>2, <2>1, <2>2, <2>3 DEF ScreenStep
<1>4. ASSUME UNCHANGED <<job, screen>>  PROVE ScreenFollows'
  BY <1>4 DEF ScreenFollows
<1>5. Kill => screen' = NoScreen
  BY DEF Kill
<1>6. LoadMe \/ ReconcileEnds \/ SessionExpires \/ UNCHANGED vars => UNCHANGED <<job, screen>>
  BY DEF LoadMe, ReconcileEnds, SessionExpires, vars, uiVars
<1> QED  BY <1>2, <1>3, <1>4, <1>5, <1>6, NextActs

-----------------------------------------------------------------------------
(* The theorems.                                                           *)

DeviceInv ==
    /\ TypeInv /\ InStepAtHead /\ LearnReadsStorage
    /\ LinksInOrder /\ LinkIsSignedIn
    /\ SlotFollows /\ CardFollows /\ ScreenFollows

LEMMA InitHolds == Init => DeviceInv
<1> SUFFICES ASSUME Init  PROVE DeviceInv
  OBVIOUS
<1>1. NoJob \in JobRecords /\ Fits(NoJob)
  BY NoJobType DEF NoJob, Fits
<1>2. \A j \in Jobs : job[j] = NoJob
  BY DEF Init
<1>3. OthersTyped
  BY KnownAssumption, BoundAssumption DEF Init, OthersTyped, NoCard, NoScreen
<1>4. job \in [Jobs -> JobRecords]
  BY <1>1 DEF Init
<1>5. TypeInv
  BY <1>1, <1>2, <1>3, <1>4 DEF TypeInv, TypeOK, OthersTyped, JobRecords
<1>6. InStepAtHead /\ LearnReadsStorage /\ LinkIsSignedIn
  BY <1>2, NoJobType DEF InStepAtHead, LearnReadsStorage, LinkIsSignedIn, InStep
<1>7. LinksInOrder
  BY <1>2, NoJobType DEF Init, LinksInOrder, LinkHasTurn
<1>8. SlotFollows /\ CardFollows /\ ScreenFollows
  BY DEF Init, SlotFollows, CardFollows, ScreenFollows, NoCard, NoScreen
<1> QED  BY <1>5, <1>6, <1>7, <1>8 DEF DeviceInv

LEMMA NextHolds == DeviceInv /\ [Next]_vars => DeviceInv'
<1> SUFFICES ASSUME DeviceInv, [Next]_vars  PROVE DeviceInv'
  OBVIOUS
<1> USE DEF DeviceInv
<1>1. TypeInv'
  BY NextTypes DEF LinksInOrder
<1>2. InStepAtHead' /\ LearnReadsStorage'
  BY NextLane
<1>3. LinksInOrder' /\ LinkIsSignedIn'
  BY NextLinks
<1>4. SlotFollows' /\ CardFollows' /\ ScreenFollows'
  BY NextSlot, NextCard, NextScreen DEF LinksInOrder
<1> QED  BY <1>1, <1>2, <1>3, <1>4

LEMMA Invariant == Spec => []DeviceInv
BY InitHolds, NextHolds, PTL DEF Spec

\* Every variable keeps its type, whatever the network and the storage do.
THEOREM TypeCorrect == Spec => []TypeOK
<1>1. DeviceInv => TypeOK
  BY DEF DeviceInv, TypeInv
<1> QED  BY <1>1, Invariant, PTL

\* A link that undoes itself finds its own session or none: the links follow
\* one another, so no later one has signed in meanwhile.
THEOREM LinkAlwaysUndoesItself == Spec => []LinkUndoesItself
<1>1. DeviceInv => LinkUndoesItself
  BY DEF DeviceInv, LinkIsSignedIn, LinkUndoesItself, In, PastExchange
<1> QED  BY <1>1, Invariant, PTL

\* The Me card and the callback screen tell of the session and of the latest
\* attempt, whichever of the earlier ones ends in between: the callback screen
\* of the link opened last, one refused at once included.
THEOREM ScreensAlwaysFollow == Spec => []ScreensFollowLatest
<1>1. DeviceInv => ScreensFollowLatest
  <2> SUFFICES ASSUME DeviceInv  PROVE ScreensFollowLatest
    OBVIOUS
  <2>1. SlotFollows /\ CardFollows /\ ScreenFollows
    BY DEF DeviceInv
  <2>2. card.user \in {session, None}
    BY <2>1 DEF CardFollows
  <2>3. slot.job # None => (slot.status = "registering" <=> job[slot.job].at \notin Over)
    BY <2>1 DEF SlotFollows
  <2>4. screen.link # None => (screen.failed <=> job[screen.link].at = "done")
    BY <2>1 DEF ScreenFollows
  <2> QED  BY <2>2, <2>3, <2>4 DEF ScreensFollowLatest
<1> QED  BY <1>1, Invariant, PTL

\* A step that changes a remembered token is the end of an answered PUT.
LEMMA StepReplaces ==
    ASSUME DeviceInv, [Next]_vars, remembered # None, remembered' # remembered
    PROVE  \E j \in Jobs : /\ Running(j) /\ job[j].req = "applied"
                           /\ remembered' = job[j].token
<1>1. ASSUME NEW j \in Jobs, RegisterStored(j)
      PROVE  Running(j) /\ job[j].req = "applied" /\ remembered' = job[j].token
  BY <1>1 DEF RegisterStored, In
<1>2. ASSUME NEW j \in Jobs, Learns(j)  PROVE FALSE
  <2>1. job[j].kind = "learn" /\ job[j].at = "reading" /\ job[j].prev = None
    BY <1>2 DEF Learns, Reread, Aborted, In
  <2> QED  BY <2>1 DEF DeviceInv, LearnReadsStorage
<1>3. ASSUME NEW j \in Jobs, Acts(j)  PROVE RegisterStored(j) \/ Learns(j)
  <2>1. CASE \/ PressRegister(j) \/ PressSignOut(j) \/ (\E u \in Users : OpenLink(j, u))
             \/ OpenRefusedLink(j) \/ Enters(j) \/ Bounds(j) \/ SignOut(j)
    BY <2>1 DEF PressRegister, PressSignOut, OpenLink, OpenRefusedLink, Enters, Start, UndoStarts,
                LinkEnters, Bounds, RegisterTimesOut, SignOutGivesUpClear, LinkMissesPrevious,
                LinkCleared, UndoCleared,
                LearnTimesOut, SignOut, SignOutReads, SignOutCleared, SignOutLeaves
  <2>2. CASE \/ TokenRead(j) \/ TokenRefused(j) \/ RegisterSkips(j) \/ RegisterSends(j)
             \/ RegisterResumesLate(j) \/ RegisterConfirms(j) \/ RegisterFails(j)
    BY <2>2 DEF TokenRead, TokenRefused, RegisterSkips, RegisterSends, RegisterResumesLate,
                RegisterConfirms, RegisterFails
  <2>3. CASE Link(j)
    BY <2>3 DEF Link, LinkReadsPrevious, LinkRefused, LinkExchanges, LinkPosts, LinkSignedIn,
                LinkUnposted, UndoLeaves
  <2>4. CASE ReconcileStarts(j) \/ ReconcileEnters(j) \/ PutArrives(j) \/ DeleteArrives(j)
    BY <2>4 DEF ReconcileStarts, ReconcileEnters, PutArrives, DeleteArrives
  <2> QED  BY <1>3, <2>1, <2>2, <2>3, <2>4 DEF Acts, Register
<1>4. ~(LoadMe \/ ReconcileEnds \/ SessionExpires \/ Kill \/ UNCHANGED vars)
  BY DEF LoadMe, ReconcileEnds, SessionExpires, Kill, vars
<1> QED  BY <1>1, <1>2, <1>3, <1>4, NextActs

\* Neither the reconcile nor a step past its bound puts an older token in the
\* place of a remembered one: only a PUT the server answered does.
THEOREM OnlyPutsReplace == Spec => OnlyAPutReplaces
<1>1. DeviceInv /\ [Next]_vars =>
        (remembered # None /\ remembered' # remembered =>
            \E j \in Jobs : /\ Running(j) /\ job[j].req = "applied"
                            /\ remembered' = job[j].token)
  BY StepReplaces
<1> QED  BY <1>1, Invariant, PTL DEF Spec, OnlyAPutReplaces

\* A step that was abandoned sends nothing any more when its read answers.
THEOREM PutsAlwaysInTheLane == Spec => PutsStayInTheLane
<1>1. DeviceInv /\ [Next]_vars =>
        \A j \in Jobs : job[j].req # "sent" /\ job'[j].req = "sent" => Running(j)
  <2> SUFFICES ASSUME DeviceInv, [Next]_vars,
                      NEW j \in Jobs, job[j].req # "sent", job'[j].req = "sent"
               PROVE  Running(j)
    OBVIOUS
  <2>1. ASSUME NEW i \in Jobs, Acts(i)  PROVE Running(j)
    <3>1. Sends(i) /\ Only(i)
      BY <2>1, ActsInLane DEF DeviceInv, LaneStep
    <3> QED  BY <3>1 DEF Sends, Only
  <2>2. ~Kill
    BY KillEffects DEF DeviceInv, TypeInv
  <2>3. ~(LoadMe \/ ReconcileEnds \/ SessionExpires \/ UNCHANGED vars)
    BY DEF LoadMe, ReconcileEnds, SessionExpires, vars
  <2> QED  BY <2>1, <2>2, <2>3, NextActs
<1> QED  BY <1>1, Invariant, PTL DEF Spec, PutsStayInTheLane

-----------------------------------------------------------------------------
(* The rows the device leaves behind.  A row is of the account signed in,  *)
(* excused, or named by a clear on its way; before the session goes, the   *)
(* step that ends it has seen to the rows of the account.                  *)

\* j has asked the server for the row of t, which is still there.
Clears(j, t) ==
    /\ job[j].kind \in {"signOut", "link"} /\ job[j].at \in {"sending", "undoSending"}
    /\ job[j].req = "sent" /\ job[j].token = t /\ job[j].signer = owner[t]

RowsAccounted ==
    \A t \in Tokens : \/ owner[t] \in {None, session} \/ t \in excused
                      \/ \E j \in Jobs : Clears(j, t)

\* The row of t, of the account signed in, is seen to as far as j has come.  An
\* undo has seen to it only where it made the clear.
Sees(j, t) ==
    /\ job[j].at = "leaving" => t \in excused
    /\ job[j].at = "undoLeaving" => t \in excused \/ job[j].prev # job[j].user
    /\ job[j].at = "undoSending" \/ (job[j].kind = "signOut" /\ job[j].at = "sending")
           => t \in excused \/ Clears(j, t)
    /\ job[j].at = "exchanging" => t \in excused \/ job[j].prev = session

LeaversSee ==
    session # None => \A j \in Jobs, t \in Tokens : owner[t] = session => Sees(j, t)

\* A PUT the lane waits for is of the account signed in, or its row excused.
PutsAreSigned ==
    \A j \in Jobs : job[j].kind = "register" /\ job[j].at = "sending" /\ job[j].req = "sent"
                    => job[j].signer = session \/ job[j].token \in excused

OwnersHaveAccounts == \A t \in Tokens : owner[t] \in accounts \cup {None}

UndosAreLinks == \A j \in Jobs : job[j].at = "undoQueued" => job[j].kind = "link"

RowsInv ==
    /\ RowsAccounted /\ LeaversSee /\ PutsAreSigned /\ OwnersHaveAccounts /\ UndosAreLinks

Active == {"sending", "undoSending", "leaving", "undoLeaving", "exchanging"}

\* j alone is in its step: any other job is before or past it.
LEMMA OneInStep ==
    ASSUME InStepAtHead, NEW j \in Jobs, Running(j), NEW i \in Jobs, i # j
    PROVE  job[i].at \notin Active
BY DEF InStepAtHead, Running, Active, InStep

\* A step of j that leaves the session and the rows as they are.
RowsStay(j) ==
    /\ Only(j)
    /\ owner' = owner /\ session' = session
    /\ excused \subseteq excused' /\ accounts \subseteq accounts'
    /\ \A t \in Tokens : Clears(j, t) => t \in excused'
    /\ session # None => \A t \in Tokens : owner[t] = session => Sees(j, t)'
    /\ job'[j].kind = "register" /\ job'[j].at = "sending" /\ job'[j].req = "sent"
           => job'[j].signer = session
    /\ job'[j].at = "undoQueued" => job'[j].kind = "link"

LEMMA StayKeeps ==
    ASSUME RowsInv, NEW j \in Jobs, RowsStay(j)
    PROVE  RowsInv'
<1> USE DEF RowsStay, Only
<1>1. \A i \in Jobs \ {j} : job'[i] = job[i]
  OBVIOUS
<1>2. \A i \in Jobs \ {j}, t \in Tokens : Clears(i, t) => Clears(i, t)'
  BY <1>1 DEF Clears
<1>3. RowsAccounted'
  BY <1>2 DEF RowsInv, RowsAccounted
<1>4. LeaversSee'
  <2> SUFFICES ASSUME session # None, NEW i \in Jobs, NEW t \in Tokens, owner[t] = session
               PROVE  Sees(i, t)'
    BY DEF LeaversSee
  <2>1. CASE i = j
    BY <2>1
  <2>2. CASE i # j
    <3>1. Sees(i, t)
      BY DEF RowsInv, LeaversSee
    <3> QED  BY <1>1, <1>2, <2>2, <3>1 DEF Sees
  <2> QED  BY <2>1, <2>2
<1>5. PutsAreSigned' /\ OwnersHaveAccounts' /\ UndosAreLinks'
  BY <1>1 DEF RowsInv, PutsAreSigned, OwnersHaveAccounts, UndosAreLinks
<1> QED  BY <1>3, <1>4, <1>5 DEF RowsInv

\* A step that takes j to none of the places the rows matter at.
LEMMA QuietStays ==
    ASSUME NEW j \in Jobs, Only(j), owner' = owner, session' = session,
           excused \subseteq excused', accounts \subseteq accounts',
           job'[j].at \notin Active,
           job'[j].at = "undoQueued" => job'[j].kind = "link",
           \A t \in Tokens : Clears(j, t) => t \in excused'
    PROVE  RowsStay(j)
BY DEF RowsStay, Active, Sees

\* The steps before a request and after it: none of them is of a clear.
LEMMA BeginStays ==
    ASSUME TypeInv, NEW j \in Jobs,
           \/ PressRegister(j) \/ PressSignOut(j) \/ (\E u \in Users : OpenLink(j, u))
           \/ OpenRefusedLink(j) \/ ReconcileStarts(j) \/ Start(j) \/ LinkEnters(j)
           \/ ReconcileEnters(j) \/ Learns(j) \/ LearnTimesOut(j)
    PROVE  RowsStay(j)
<1> USE DEF TypeInv
<1>1. UNCHANGED <<owner, session, excused, accounts>>
  BY DEF PressRegister, PressSignOut, OpenLink, OpenRefusedLink, ReconcileStarts, Start,
         LinkEnters, ReconcileEnters, Learns, LearnTimesOut, serverVars
<1>2. CASE \/ PressRegister(j) \/ PressSignOut(j) \/ (\E u \in Users : OpenLink(j, u))
           \/ OpenRefusedLink(j) \/ ReconcileStarts(j)
  <2>1. \E k \in Kinds, p \in {"prompt", "queued", "waiting", "done"} : \E u : Created(j, k, p, u)
    BY <1>2, BeganEffects DEF Kinds
  <2>2. Only(j) /\ job[j].kind = "none" /\ job'[j].at \in {"prompt", "queued", "waiting", "done"}
    BY <2>1 DEF Created
  <2> QED  BY <1>1, <2>2, QuietStays DEF Active, Clears
<1>3. CASE Start(j) \/ LinkEnters(j) \/ ReconcileEnters(j) \/ LearnTimesOut(j)
  <2>1. \E p \in {"reading", "queued", "late"} : Puts(j, p)
    BY <1>3, StartPuts, LinkEffects, LearnEffects
  <2>2. Only(j) /\ job'[j].at \in {"reading", "queued", "late"}
    BY <2>1 DEF Puts
  <2>3. job[j].at \notin {"sending", "undoSending"}
    BY <1>3 DEF Start, LinkEnters, ReconcileEnters, LearnTimesOut, In
  <2> QED  BY <1>1, <2>2, <2>3, QuietStays DEF Active, Clears
<1>4. CASE Learns(j)
  <2>1. Only(j) /\ job'[j].at = "done" /\ job[j].kind = "learn"
    BY <1>4, LearnEffects DEF Finishes, Learns
  <2> QED  BY <1>1, <2>1, QuietStays DEF Active, Clears
<1> QED  BY <1>2, <1>3, <1>4

LEMMA RegisterStays ==
    ASSUME TypeInv, NEW j \in Jobs, Register(j) \/ RegisterTimesOut(j)
    PROVE  RowsStay(j)
<1> USE DEF TypeInv
<1>1. UNCHANGED <<owner, session, excused, accounts>> /\ job[j].kind = "register"
  BY DEF Register, TokenRead, TokenRefused, RegisterSkips, RegisterSends, RegisterResumesLate,
         RegisterStored, RegisterConfirms, RegisterFails, RegisterTimesOut, In, serverVars
<1>2. CASE RegisterSends(j)
  <2>1. Puts(j, "sending")
    BY <1>2, RegisterSendsPuts
  <2>2. job'[j].signer = session
    <3>1. job[j] \in JobRecords /\ job \in [Jobs -> JobRecords]
      BY JobTypes
    <3> QED  BY <1>2, <3>1 DEF RegisterSends, JobRecords
  <2> QED  BY <1>1, <2>1, <2>2 DEF RowsStay, Puts, Clears, Sees
<1>3. CASE ~RegisterSends(j)
  <2>1. Finishes(j) \/ \E p \in {"queued", "confirming", "late"} : Puts(j, p)
    BY <1>3, RegisterEffects, TokenReadPuts DEF Register
  <2>2. Only(j) /\ job'[j].at \in {"done", "queued", "confirming", "late"}
    BY <2>1 DEF Puts, Finishes
  <2> QED  BY <1>1, <2>2, QuietStays DEF Active, Clears
<1> QED  BY <1>2, <1>3

\* A clear goes out signed as u: what it does not name is excused.
LEMMA ClearCovers ==
    ASSUME TypeOK, NEW j \in Jobs, NEW p \in Places, NEW u \in Users \cup {None},
           ClearSends(j, p, u), NEW t \in Tokens, owner[t] = u, u # None
    PROVE  \/ t \in excused'
           \/ job'[j].req = "sent" /\ job'[j].token = t /\ job'[j].signer = u
<1>1. /\ job \in [Jobs -> JobRecords] /\ job[j] \in JobRecords
  BY JobTypes
<1>2. CASE /\ job' = [job EXCEPT ![j].at = p, ![j].signer = u, ![j].token = remembered,
                                ![j].req = "sent"]
           /\ excused' = excused \cup Unnamed(u, remembered)
  <2>1. CASE t = remembered
    BY <1>1, <1>2, <2>1 DEF JobRecords
  <2>2. CASE t # remembered
    BY <1>2, <2>2 DEF Unnamed
  <2> QED  BY <2>1, <2>2
<1>3. CASE excused' = excused \cup Unnamed(u, None) /\ t # None
  BY <1>3 DEF Unnamed
<1>4. t # None
  BY NoneAssumption
<1> QED  BY <1>2, <1>3, <1>4 DEF ClearSends

LEMMA ClearExcuses ==
    ASSUME NEW j, NEW p, NEW u, ClearSends(j, p, u)
    PROVE  excused \subseteq excused'
BY DEF ClearSends

\* The end of a clear excuses the row it did not reach.
LEMMA ClearEndsCovers ==
    ASSUME NEW j \in Jobs, NEW t \in Tokens, Clears(j, t),
           excused' = excused \cup (Left(j) \ {None})
    PROVE  t \in excused'
BY NoneAssumption DEF Clears, Left

LEMMA SignOutStays ==
    ASSUME TypeInv, RowsInv, NEW j \in Jobs,
           SignOutReads(j) \/ SignOutCleared(j) \/ SignOutGivesUpClear(j)
    PROVE  RowsStay(j)
<1> USE DEF TypeInv
<1>1. /\ UNCHANGED <<owner, session, accounts>> /\ job[j].kind = "signOut"
      /\ job[j].at \in {"reading", "sending"}
  BY DEF SignOutReads, SignOutCleared, SignOutGivesUpClear, In, serverVars
<1>2. /\ Only(j) /\ job'[j].kind = "signOut"
      /\ job'[j].at \in {"leaving", "sending"}
  BY <1>1, SignOutEffects DEF Puts
<1>3. ASSUME NEW t \in Tokens, owner[t] = session, session # None, job[j].at = "sending"
      PROVE  t \in excused \/ Clears(j, t)
  BY <1>1, <1>3 DEF RowsInv, LeaversSee, Sees
<1>4. CASE SignOutReads(j) /\ session = None
  <2>1. Puts(j, "leaving") /\ excused' = excused /\ job[j].at = "reading"
    <3>1. job' = [job EXCEPT ![j].at = "leaving"] /\ excused' = excused /\ job[j].at = "reading"
      BY <1>4 DEF SignOutReads, In
    <3> QED  BY <3>1, JobTypes, AtPuts DEF Places, InStep
  <2> QED  BY <1>1, <1>2, <1>4, <2>1 DEF RowsStay, Clears, Puts
<1>5. CASE SignOutReads(j) /\ session # None
  <2>1. ClearSends(j, "sending", session) /\ job[j].at = "reading"
    BY <1>5 DEF SignOutReads, In
  <2>2. "sending" \in Places /\ session \in Users \cup {None}
    BY JobTypes DEF Places, InStep
  <2>3. Puts(j, "sending") /\ excused \subseteq excused'
    BY <2>1, <2>2, ClearSendsPuts, ClearExcuses
  <2>4. ASSUME NEW t \in Tokens, owner[t] = session
        PROVE  t \in excused' \/ Clears(j, t)'
    BY <1>1, <1>2, <1>5, <2>1, <2>2, <2>3, <2>4, ClearCovers DEF Clears, Puts
  <2> QED  BY <1>1, <1>2, <2>1, <2>3, <2>4 DEF RowsStay, Clears, Sees, Puts
<1>6. CASE SignOutCleared(j) \/ SignOutGivesUpClear(j)
  <2>1. Puts(j, "leaving")
    BY <1>6, SignOutEffects
  <2>2. CASE job[j].at = "sending"
    <3>1. excused' = excused \cup (Left(j) \ {None})
      BY <1>6, <2>2 DEF SignOutCleared, SignOutGivesUpClear, ClearEnds
    <3>2. \A t \in Tokens : Clears(j, t) => t \in excused'
      BY <3>1, ClearEndsCovers
    <3> QED  BY <1>1, <1>2, <1>3, <2>1, <2>2, <3>1, <3>2 DEF RowsStay, Sees, Puts
  <2>3. CASE job[j].at = "reading"
    <3>1. excused' = excused \cup Unnamed(session, None)
      BY <1>6, <2>3 DEF SignOutCleared, SignOutGivesUpClear, In
    <3>2. session # None => \A t \in Tokens : owner[t] = session => t \in excused'
      BY <3>1, NoneAssumption DEF Unnamed
    <3> QED  BY <1>1, <1>2, <2>1, <2>3, <3>1, <3>2 DEF RowsStay, Sees, Puts, Clears
  <2> QED  BY <1>1, <2>2, <2>3
<1> QED  BY <1>4, <1>5, <1>6

LEMMA LinkStays ==
    ASSUME TypeInv, RowsInv, NEW j \in Jobs,
           LinkRefused(j) \/ LinkCleared(j) \/ LinkPosts(j) \/ LinkSignedIn(j) \/ LinkUnposted(j)
    PROVE  RowsStay(j)
<1> USE DEF TypeInv
<1>1. /\ UNCHANGED <<owner, session>> /\ job[j].kind = "link" /\ excused \subseteq excused'
      /\ accounts \subseteq accounts'
  BY DEF LinkRefused, LinkCleared, LinkPosts, LinkSignedIn, LinkUnposted, ClearEnds, In, serverVars
<1>2. /\ Only(j) /\ job'[j].at \in {"done", "creating", "upserting", "undoQueued"}
      /\ job'[j].at = "undoQueued" => job'[j].kind = "link"
  BY <1>1, LinkEffects DEF Puts, Finishes
<1>3. ASSUME NEW t \in Tokens, Clears(j, t)  PROVE t \in excused'
  <2>1. LinkCleared(j)
    BY <1>3 DEF LinkRefused, LinkPosts, LinkSignedIn, LinkUnposted, In, Clears
  <2> QED  BY <1>3, <2>1, ClearEndsCovers DEF LinkCleared, ClearEnds
<1> QED  BY <1>1, <1>2, <1>3, QuietStays DEF Active

LEMMA LinkReadStays ==
    ASSUME TypeInv, NEW j \in Jobs, LinkReads(j)
    PROVE  RowsStay(j)
<1> USE DEF TypeInv
<1>1. /\ UNCHANGED <<owner, session, accounts>> /\ job[j].kind = "link" /\ job[j].at = "reading"
      /\ excused \subseteq excused'
  BY DEF LinkReads, LinkReadsPrevious, LinkMissesPrevious, In, serverVars
<1>2. Puts(j, "exchanging")
  BY LinkEffects
<1>3. ASSUME NEW t \in Tokens, owner[t] = session, session # None
      PROVE  t \in excused' \/ job'[j].prev = session
  <2>1. CASE job' = [job EXCEPT ![j].at = "exchanging", ![j].prev = session]
    <3>1. job[j] \in JobRecords /\ job \in [Jobs -> JobRecords]
      BY JobTypes
    <3> QED  BY <2>1, <3>1 DEF JobRecords
  <2>2. CASE excused' = excused \cup Unnamed(session, None)
    BY <1>3, <2>2, NoneAssumption DEF Unnamed
  <2> QED  BY <2>1, <2>2 DEF LinkReads, LinkReadsPrevious, LinkMissesPrevious
<1> QED  BY <1>1, <1>2, <1>3 DEF RowsStay, Puts, Sees, Clears

\* The undo begins with a clear of the account it signs out, or names nothing.
LEMMA UndoStays ==
    ASSUME TypeInv, LinkIsSignedIn, RowsInv, NEW j \in Jobs, UndoStarts(j) \/ UndoCleared(j)
    PROVE  RowsStay(j)
<1> USE DEF TypeInv
<1>1. /\ UNCHANGED <<owner, session, accounts>> /\ job[j].kind = "link"
      /\ job[j].at \in {"undoQueued", "undoSending"} /\ session \in {None, job[j].user}
  BY DEF UndoStarts, UndoCleared, In, serverVars, RowsInv, UndosAreLinks, LinkIsSignedIn, PastExchange
<1>2. /\ Only(j) /\ job'[j].kind = "link" /\ job'[j].at \in {"undoSending", "undoLeaving"}
  BY <1>1, LinkEffects DEF Puts
<1>3. CASE UndoStarts(j) /\ job[j].prev # None /\ ~Switches(j)
  <2>1. ClearSends(j, "undoSending", job[j].prev) /\ job[j].at = "undoQueued"
    BY <1>3 DEF UndoStarts
  <2>2. /\ "undoSending" \in Places /\ job[j].prev \in Users \cup {None}
        /\ session # None => session = job[j].prev
    BY <1>1, <1>3 DEF Places, InStep, Fits, Switches
  <2>3. Puts(j, "undoSending") /\ excused \subseteq excused'
    BY <2>1, <2>2, ClearSendsPuts, ClearExcuses
  <2>4. ASSUME NEW t \in Tokens, owner[t] = session, session # None
        PROVE  t \in excused' \/ Clears(j, t)'
    BY <1>1, <1>2, <2>1, <2>2, <2>3, <2>4, ClearCovers DEF Clears, Puts
  <2> QED  BY <1>1, <1>2, <2>1, <2>3, <2>4 DEF RowsStay, Clears, Sees, Puts
<1>4. CASE UndoStarts(j) /\ ~(job[j].prev # None /\ ~Switches(j))
  <2>1. /\ job' = [job EXCEPT ![j].at = "undoLeaving"] /\ job[j].at = "undoQueued"
        /\ excused' = excused
    BY <1>4 DEF UndoStarts
  <2>2. Puts(j, "undoLeaving") /\ KeepsPrev(j)
    BY <2>1, JobTypes, AtPuts DEF Places, InStep
  <2>3. session # None => job'[j].prev # job'[j].user
    BY <1>1, <1>4, <2>2 DEF Switches, Puts, KeepsPrev
  <2> QED  BY <1>1, <1>2, <2>1, <2>2, <2>3 DEF RowsStay, Clears, Sees, Puts
<1>5. CASE UndoCleared(j)
  <2>1. /\ job[j].at = "undoSending" /\ excused' = excused \cup (Left(j) \ {None})
        /\ Puts(j, "undoLeaving")
    BY <1>5, LinkEffects DEF UndoCleared, ClearEnds, In
  <2>2. \A t \in Tokens : Clears(j, t) => t \in excused'
    BY <2>1, ClearEndsCovers
  <2>3. ASSUME NEW t \in Tokens, owner[t] = session, session # None  PROVE t \in excused'
    <3>1. t \in excused \/ Clears(j, t)
      BY <2>1, <2>3 DEF RowsInv, LeaversSee, Sees
    <3> QED  BY <2>1, <2>2, <3>1
  <2> QED  BY <1>1, <1>2, <2>1, <2>2, <2>3 DEF RowsStay, Sees, Puts
<1> QED  BY <1>3, <1>4, <1>5

\* The session goes: the rows of its account have been seen to, or are named.
LEMMA SessionGoesKeeps ==
    ASSUME InStepAtHead, RowsInv, NEW j \in Jobs, Running(j), Only(j),
           job[j].at \in Active, \A t \in Tokens : ~Clears(j, t), job'[j].at = "done",
           session' = None, UNCHANGED <<owner, accounts>>, excused \subseteq excused',
           session # None => \A t \in Tokens : owner[t] = session => t \in excused'
    PROVE  RowsInv'
<1>1. \A i \in Jobs : job'[i].at \notin Active
  BY OneInStep DEF Only, Active
<1>2. ASSUME NEW t \in Tokens, owner[t] # None  PROVE t \in excused'
  <2>1. CASE owner[t] = session
    BY <1>2, <2>1
  <2>2. CASE owner[t] # session
    <3>1. \A i \in Jobs : ~Clears(i, t)
      BY OneInStep DEF Clears, Active
    <3> QED  BY <1>2, <2>2, <3>1 DEF RowsInv, RowsAccounted
  <2> QED  BY <2>1, <2>2
<1>3. RowsAccounted' /\ LeaversSee'
  BY <1>2 DEF RowsAccounted, LeaversSee
<1>4. PutsAreSigned'
  BY <1>1 DEF PutsAreSigned, Active
<1>5. OwnersHaveAccounts' /\ UndosAreLinks'
  BY DEF RowsInv, OwnersHaveAccounts, UndosAreLinks, Only
<1> QED  BY <1>3, <1>4, <1>5 DEF RowsInv

LEMMA LeavesKeeps ==
    ASSUME TypeInv, InStepAtHead, LinkIsSignedIn, RowsInv, NEW j \in Jobs,
           SignOutLeaves(j) \/ UndoLeaves(j)
    PROVE  RowsInv'
<1> USE DEF TypeInv
<1>1. /\ UNCHANGED <<owner, accounts>> /\ Running(j) /\ excused \subseteq excused'
      /\ job[j].at \in {"leaving", "undoLeaving"}
      /\ session' \in {session, None}
  BY DEF SignOutLeaves, UndoLeaves, In, serverVars, SessionBecomes
<1>2. Only(j) /\ job'[j].at = "done" /\ \A t \in Tokens : ~Clears(j, t)
  BY <1>1, SignOutEffects, LinkEffects DEF Finishes, Clears
<1>3. CASE session' = session
  <2>1. RowsStay(j)
    BY <1>1, <1>2, <1>3, QuietStays DEF Active
  <2> QED  BY <2>1, StayKeeps
<1>4. CASE session' = None /\ session # None
  <2>1. ASSUME NEW t \in Tokens, owner[t] = session  PROVE t \in excused'
    <3>1. Sees(j, t)
      BY <1>4, <2>1 DEF RowsInv, LeaversSee
    <3>2. CASE SignOutLeaves(j)
      BY <1>1, <3>1, <3>2 DEF SignOutLeaves, In, Sees
    <3>3. CASE UndoLeaves(j)
      <4>1. session = job[j].user /\ job[j].at = "undoLeaving"
        BY <1>4, <3>3 DEF UndoLeaves, In, LinkIsSignedIn, PastExchange
      <4>2. CASE job[j].prev = job[j].user
        BY <1>1, <3>1, <4>1, <4>2 DEF Sees
      <4>3. CASE job[j].prev # job[j].user
        <5>1. Unclaimed(j) = Unnamed(session, None) /\ t # None
          BY <4>1, <4>3, NoneAssumption DEF Unclaimed
        <5>2. excused' = excused \cup Unclaimed(j)
          BY <1>4, <3>3 DEF UndoLeaves
        <5> QED  BY <1>4, <2>1, <5>1, <5>2 DEF Unnamed
      <4> QED  BY <4>2, <4>3
    <3> QED  BY <3>2, <3>3
  <2> QED  BY <1>1, <1>2, <1>4, <2>1, SessionGoesKeeps DEF Active
<1> QED  BY <1>1, <1>3, <1>4

\* The exchange signs another account in: the rows of the one before are the
\* new one's, named by its clear or excused.
LEMMA ExchangeKeeps ==
    ASSUME TypeInv, InStepAtHead, RowsInv, NEW j \in Jobs, LinkExchanges(j)
    PROVE  RowsInv'
<1> USE DEF TypeInv
<1>1. /\ UNCHANGED <<owner, accounts>> /\ Running(j) /\ job[j].kind = "link"
      /\ job[j].at = "exchanging" /\ session' = job[j].user
  BY DEF LinkExchanges, In, serverVars, SessionBecomes
<1>2. Only(j) /\ job'[j].kind = "link" /\ job'[j].at \in {"sending", "creating"}
  BY <1>1, LinkEffects DEF Puts
<1>3. \A i \in Jobs \ {j} : job'[i] = job[i] /\ job[i].at \notin Active
  BY <1>1, <1>2, OneInStep DEF Only
<1>4. excused \subseteq excused' /\ job[j].prev \in Users \cup {None}
  BY <1>1, ClearExcuses DEF LinkExchanges, Fits
<1>5. ASSUME NEW t \in Tokens
      PROVE  \/ owner'[t] \in {None, session'} \/ t \in excused' \/ Clears(j, t)'
  <2> SUFFICES ASSUME owner[t] # None, t \notin excused
               PROVE  owner[t] = session' \/ t \in excused' \/ Clears(j, t)'
    BY <1>1, <1>4
  <2>1. \A i \in Jobs : ~Clears(i, t)
    BY <1>1, <1>3 DEF Clears, Active
  <2>2. owner[t] = session /\ job[j].prev = session
    <3>1. owner[t] = session
      BY <2>1 DEF RowsInv, RowsAccounted
    <3> QED  BY <1>1, <3>1 DEF RowsInv, LeaversSee, Sees
  <2>3. CASE Switches(j)
    <3>1. ClearSends(j, "sending", job[j].prev) /\ "sending" \in Places
      BY <2>3 DEF LinkExchanges, Places, InStep
    <3>2. Puts(j, "sending")
      BY <1>4, <3>1, ClearSendsPuts
    <3>3. \/ t \in excused'
          \/ job'[j].req = "sent" /\ job'[j].token = t /\ job'[j].signer = owner[t]
      BY <1>4, <2>2, <3>1, ClearCovers
    <3> QED  BY <1>1, <1>2, <3>2, <3>3 DEF Clears, Puts
  <2>4. CASE ~Switches(j)
    BY <1>1, <2>2, <2>4 DEF Switches
  <2> QED  BY <2>3, <2>4
<1>6. RowsAccounted'
  BY <1>5 DEF RowsAccounted
<1>7. LeaversSee'
  BY <1>2, <1>3 DEF LeaversSee, Sees, Active
<1>8. PutsAreSigned'
  BY <1>2, <1>3 DEF PutsAreSigned, Active
<1>9. OwnersHaveAccounts' /\ UndosAreLinks'
  BY <1>1, <1>2, <1>3 DEF RowsInv, OwnersHaveAccounts, UndosAreLinks
<1> QED  BY <1>6, <1>7, <1>8, <1>9 DEF RowsInv

\* A PUT lands: its row is the session's, or excused.
LEMMA PutKeeps ==
    ASSUME TypeInv, InStepAtHead, RowsInv, NEW j \in Jobs, PutArrives(j)
    PROVE  RowsInv'
<1> USE DEF TypeInv
<1> DEFINE k == job[j].token
<1>1. /\ UNCHANGED <<session, accounts>> /\ job[j].kind = "register" /\ job[j].req = "sent"
      /\ Fits(job[j]) /\ owner \in [Tokens -> Users \cup {None}]
  BY DEF PutArrives, TypeOK
<1>2. /\ Answered(j) /\ job'[j].req # "sent" /\ Only(j)
      /\ job'[j].kind # "signOut" /\ job'[j].at = job[j].at
  BY <1>1, ArrivalEffects DEF Answered
<1>3. /\ job[j].at \notin Active \ {"sending"} /\ job[j].at # "undoQueued" /\ k \in Tokens
  BY <1>1 DEF Fits, Active
<1>4. \A t \in Tokens : ~Clears(j, t) /\ Sees(j, t)'
  BY <1>1, <1>2, <1>3 DEF Clears, Sees, Active
<1>5. CASE job[j].signer \notin accounts
  <2>1. UNCHANGED <<owner, excused>>
    BY <1>5 DEF PutArrives
  <2>2. RowsStay(j)
    BY <1>1, <1>2, <1>3, <1>4, <2>1 DEF RowsStay
  <2> QED  BY <2>2, StayKeeps
<1>6. CASE job[j].signer \in accounts
  <2>1. /\ owner' = [owner EXCEPT ![k] = job[j].signer]
        /\ excused' = IF ~Awaited(j) THEN excused \cup {k}
                      ELSE IF job[j].signer = session THEN excused \ {k}
                      ELSE excused
    BY <1>6 DEF PutArrives
  <2>2. \A t \in Tokens \ {k} : owner'[t] = owner[t] /\ (t \in excused => t \in excused')
    BY <1>1, <1>3, <2>1
  <2>3. k \in excused' \/ owner'[k] = session
    <3>1. CASE ~Awaited(j)
      BY <2>1, <3>1
    <3>2. CASE Awaited(j) /\ job[j].signer = session
      BY <1>1, <1>3, <2>1, <3>2
    <3>3. CASE Awaited(j) /\ job[j].signer # session
      <4>1. job[j].at = "sending"
        BY <1>3, <3>3 DEF Awaited, Active
      <4>2. k \in excused
        BY <1>1, <3>3, <4>1 DEF RowsInv, PutsAreSigned
      <4> QED  BY <2>1, <3>3, <4>2
    <3> QED  BY <3>1, <3>2, <3>3
  <2>4. k \in excused => k \in excused' \/ Awaited(j)
    BY <2>1
  <2>5. Awaited(j) => \A i \in Jobs \ {j} : job[i].at \notin Active
    BY OneInStep DEF Awaited
  <2>6. \A i \in Jobs \ {j} : job'[i] = job[i]
    BY <1>2 DEF Only
  <2>7. RowsAccounted'
    <3> SUFFICES ASSUME NEW t \in Tokens
                 PROVE  \/ owner'[t] \in {None, session'} \/ t \in excused'
                        \/ \E i \in Jobs : Clears(i, t)'
      BY DEF RowsAccounted
    <3>1. CASE t = k
      BY <1>1, <2>3, <3>1
    <3>2. CASE t # k
      <4>1. \A i \in Jobs : Clears(i, t) => Clears(i, t)'
        BY <1>4, <2>2, <2>6, <3>2 DEF Clears
      <4> QED  BY <1>1, <2>2, <3>2, <4>1 DEF RowsInv, RowsAccounted
    <3> QED  BY <3>1, <3>2
  <2>8. LeaversSee'
    <3> SUFFICES ASSUME session # None, NEW i \in Jobs, NEW t \in Tokens, owner'[t] = session
                 PROVE  Sees(i, t)'
      BY <1>1 DEF LeaversSee
    <3>1. CASE i = j
      BY <1>4, <3>1
    <3>2. CASE i # j /\ Awaited(j)
      BY <2>5, <2>6, <3>2 DEF Sees, Active
    <3>3. CASE i # j /\ ~Awaited(j) /\ t = k
      <4>1. t \in excused'
        BY <2>1, <3>3
      <4> QED  BY <4>1 DEF Sees
    <3>4. CASE i # j /\ t # k
      <4>1. owner[t] = session /\ Sees(i, t)
        BY <2>2, <3>4 DEF RowsInv, LeaversSee
      <4>2. Clears(i, t) => Clears(i, t)'
        BY <2>2, <2>6, <3>4 DEF Clears
      <4> QED  BY <1>1, <2>2, <2>6, <3>4, <4>1, <4>2 DEF Sees
    <3> QED  BY <3>1, <3>2, <3>3, <3>4
  <2>9. PutsAreSigned'
    <3> SUFFICES ASSUME NEW i \in Jobs, job'[i].kind = "register", job'[i].at = "sending",
                        job'[i].req = "sent"
                 PROVE  job'[i].signer = session \/ job'[i].token \in excused'
      BY <1>1 DEF PutsAreSigned
    <3>1. i # j /\ job'[i] = job[i]
      BY <1>2, <2>6
    <3>2. ~Awaited(j)
      BY <2>5, <3>1 DEF Active
    <3> QED  BY <2>1, <3>1, <3>2 DEF RowsInv, PutsAreSigned
  <2>10. OwnersHaveAccounts'
    BY <1>1, <1>3, <1>6, <2>1, <2>2 DEF RowsInv, OwnersHaveAccounts
  <2>11. UndosAreLinks'
    BY <1>2, <1>3, <2>6 DEF RowsInv, UndosAreLinks
  <2> QED  BY <2>7, <2>8, <2>9, <2>10, <2>11 DEF RowsInv
<1> QED  BY <1>5, <1>6

\* A DELETE lands: the row it names is gone, unless it is another account's.
LEMMA DeleteKeeps ==
    ASSUME TypeInv, RowsInv, NEW j \in Jobs, DeleteArrives(j)
    PROVE  RowsInv'
<1> USE DEF TypeInv
<1>1. /\ UNCHANGED <<session, accounts, excused>> /\ job[j].kind # "register"
      /\ job[j].req = "sent" /\ owner \in [Tokens -> Users \cup {None}]
  BY DEF DeleteArrives, TypeOK
<1>2. /\ Answered(j) /\ job'[j].req # "sent" /\ Only(j) /\ job'[j].kind # "register"
      /\ job'[j].at = job[j].at
      /\ job[j].at # "done" => /\ job'[j].kind = job[j].kind /\ job'[j].prev = job[j].prev
                               /\ job'[j].user = job[j].user
  BY <1>1, ArrivalEffects DEF Answered
<1>3. \A i \in Jobs \ {j} : job'[i] = job[i]
  BY <1>2 DEF Only
<1>4. ASSUME NEW t \in Tokens
      PROVE  /\ owner'[t] \in {owner[t], None}
             /\ Clears(j, t) => owner'[t] = None
  <2>1. CASE job[j].signer \in accounts
    <3>1. owner' = [x \in Tokens |-> IF x = job[j].token /\ owner[x] = job[j].signer
                                     THEN None ELSE owner[x]]
      BY <2>1 DEF DeleteArrives
    <3> QED  BY <3>1 DEF Clears
  <2>2. CASE job[j].signer \notin accounts
    <3>1. owner' = owner
      BY <2>2 DEF DeleteArrives
    <3> QED  BY <2>2, <3>1 DEF Clears, RowsInv, OwnersHaveAccounts
  <2> QED  BY <2>1, <2>2
<1>5. ASSUME NEW i \in Jobs, NEW t \in Tokens, Clears(i, t), owner'[t] # None
      PROVE  Clears(i, t)'
  <2>1. i # j /\ owner'[t] = owner[t]
    BY <1>4, <1>5
  <2> QED  BY <1>3, <1>5, <2>1 DEF Clears
<1>6. RowsAccounted'
  BY <1>1, <1>4, <1>5 DEF RowsInv, RowsAccounted
<1>7. LeaversSee'
  <2> SUFFICES ASSUME session # None, NEW i \in Jobs, NEW t \in Tokens, owner'[t] = session
               PROVE  Sees(i, t)'
    BY <1>1 DEF LeaversSee
  <2>1. owner[t] = session /\ Sees(i, t)
    BY <1>4 DEF RowsInv, LeaversSee
  <2>2. Clears(i, t) => Clears(i, t)'
    BY <1>5
  <2>3. /\ job'[i].at = job[i].at
        /\ job[i].at # "done" => /\ job'[i].kind = job[i].kind /\ job'[i].prev = job[i].prev
                                 /\ job'[i].user = job[i].user
    BY <1>2, <1>3
  <2> QED  BY <1>1, <2>1, <2>2, <2>3 DEF Sees
<1>8. PutsAreSigned'
  BY <1>1, <1>2, <1>3 DEF RowsInv, PutsAreSigned
<1>9. OwnersHaveAccounts'
  BY <1>1, <1>4 DEF RowsInv, OwnersHaveAccounts
<1>10. UndosAreLinks'
  BY <1>2, <1>3 DEF RowsInv, UndosAreLinks
<1> QED  BY <1>6, <1>7, <1>8, <1>9, <1>10 DEF RowsInv

\* What is of no job.
LEMMA SurroundingKeeps ==
    ASSUME TypeInv, RowsInv,
           LoadMe \/ ReconcileEnds \/ SessionExpires \/ Kill \/ UNCHANGED vars
    PROVE  RowsInv'
<1> USE DEF TypeInv
<1>1. ASSUME UNCHANGED <<session, owner, excused, job>>, accounts \subseteq accounts'
      PROVE  RowsInv'
  BY <1>1 DEF RowsInv, RowsAccounted, LeaversSee, PutsAreSigned, OwnersHaveAccounts,
              UndosAreLinks, Clears, Sees
<1>2. CASE LoadMe \/ ReconcileEnds \/ UNCHANGED vars
  BY <1>1, <1>2 DEF LoadMe, ReconcileEnds, vars, serverVars
<1>3. CASE SessionExpires
  <2>1. /\ UNCHANGED <<owner, accounts, job>> /\ session' = None
        /\ excused' = excused \cup Unnamed(session, None)
                        \cup {job[j].token : j \in {i \in Jobs : /\ job[i].kind = "register"
                                                                /\ job[i].req = "sent"}}
    BY <1>3 DEF SessionExpires, SessionBecomes, serverVars
  <2>2. \A t \in Tokens : owner[t] = session => t \in excused'
    BY <1>3, <2>1, NoneAssumption DEF SessionExpires, Unnamed
  <2>3. RowsAccounted'
    BY <2>1, <2>2 DEF RowsInv, RowsAccounted, Clears
  <2>4. LeaversSee'
    BY <2>1 DEF LeaversSee
  <2>5. PutsAreSigned'
    BY <2>1 DEF PutsAreSigned
  <2>6. OwnersHaveAccounts' /\ UndosAreLinks'
    BY <2>1 DEF RowsInv, OwnersHaveAccounts, UndosAreLinks
  <2> QED  BY <2>3, <2>4, <2>5, <2>6 DEF RowsInv
<1>4. CASE Kill
  <2>1. /\ UNCHANGED <<session, owner, accounts>>
        /\ excused' = excused \cup ((UNION {Left(j) : j \in {i \in Jobs : job[i].kind # "register"}})
                                    \ {None})
    BY <1>4 DEF Kill, serverVars
  <2>2. \A j \in Jobs : job'[j].at = "done"
    BY <1>4, KillEffects
  <2>3. ASSUME NEW j \in Jobs, NEW t \in Tokens, Clears(j, t)  PROVE t \in excused'
    <3>1. t \in Left(j) /\ job[j].kind # "register" /\ t # None
      BY <2>3, NoneAssumption DEF Clears, Left
    <3> QED  BY <2>1, <3>1
  <2>4. RowsAccounted'
    BY <2>1, <2>3 DEF RowsInv, RowsAccounted
  <2>5. LeaversSee' /\ PutsAreSigned' /\ UndosAreLinks'
    BY <2>2 DEF LeaversSee, Sees, PutsAreSigned, UndosAreLinks
  <2>6. OwnersHaveAccounts'
    BY <2>1 DEF RowsInv, OwnersHaveAccounts
  <2> QED  BY <2>4, <2>5, <2>6 DEF RowsInv
<1> QED  BY <1>2, <1>3, <1>4

LEMMA InitRows == Init => RowsInv
<1> SUFFICES ASSUME Init  PROVE RowsInv
  OBVIOUS
<1>1. /\ session \in accounts \cup {None} /\ \A t \in Tokens : owner[t] \in {None, session}
      /\ \A j \in Jobs : job[j] = NoJob
  BY DEF Init
<1>2. RowsAccounted /\ OwnersHaveAccounts
  BY <1>1 DEF RowsAccounted, OwnersHaveAccounts
<1>3. LeaversSee /\ PutsAreSigned /\ UndosAreLinks
  BY <1>1, NoJobType DEF LeaversSee, Sees, PutsAreSigned, UndosAreLinks
<1> QED  BY <1>2, <1>3 DEF RowsInv

LEMMA NextRows == DeviceInv /\ RowsInv /\ [Next]_vars => RowsInv'
<1> SUFFICES ASSUME DeviceInv, RowsInv, [Next]_vars  PROVE RowsInv'
  OBVIOUS
<1>0. TypeInv /\ InStepAtHead /\ LinkIsSignedIn
  BY DEF DeviceInv
<1>1. ASSUME NEW j \in Jobs, Acts(j)  PROVE RowsInv'
  <2>1. CASE RowsStay(j)
    BY <2>1, StayKeeps
  <2>2. CASE SignOutLeaves(j) \/ UndoLeaves(j)
    BY <1>0, <2>2, LeavesKeeps
  <2>3. CASE LinkExchanges(j)
    BY <1>0, <2>3, ExchangeKeeps
  <2>4. CASE PutArrives(j) \/ DeleteArrives(j)
    BY <1>0, <2>4, PutKeeps, DeleteKeeps
  <2> QED
    BY <1>0, <1>1, <2>1, <2>2, <2>3, <2>4, BeginStays, RegisterStays, SignOutStays, LinkStays,
       LinkReadStays, UndoStays DEF Acts, Enters, Bounds, SignOut, Link, LinkReads
<1> QED  BY <1>0, <1>1, SurroundingKeeps, NextActs

\* Once the lane is empty, an account that is not signed in keeps no row of
\* this installation but the excused ones: whoever ended a session had cleared
\* its rows, or named what stayed and why, among it what the undo of a failed
\* sign-in never clears: the rows its own account has registered since.
THEOREM NeverARowLeftBehind == Spec => []NoRowLeftBehind
<1>1. DeviceInv /\ RowsInv => NoRowLeftBehind
  <2> SUFFICES ASSUME DeviceInv, RowsInv, lane = <<>>, NEW t \in Tokens, t \notin excused
               PROVE  owner[t] \in {None, session}
    BY DEF NoRowLeftBehind
  <2>1. \A j \in Jobs : ~Clears(j, t)
    BY DEF DeviceInv, InStepAtHead, InStep, Running, Clears
  <2> QED  BY <2>1 DEF RowsInv, RowsAccounted
<1>2. Spec => []RowsInv
  BY Invariant, InitRows, NextRows, PTL DEF Spec
<1> QED  BY <1>1, <1>2, Invariant, PTL

-----------------------------------------------------------------------------
(* The lane as a queue: what it lists, and where its head may stay.        *)

\* A job in the lane: waiting for its step or at it.
InLane(r) == r.at \in Queued \cup InStep

\* Where each kind of job can be; Fits has the other two.
Placed(r) ==
    /\ r.kind = "signOut" => r.at \in {"queued", "reading", "sending", "leaving", "done"}
    /\ r.kind = "link" =>
          r.at \in {"waiting", "queued", "reading", "exchanging", "sending", "creating",
                    "upserting", "undoQueued", "undoSending", "undoLeaving", "done"}
    /\ r.kind \in {"none", "spent"} => r.at = "done"

AllPlaced == \A j \in Jobs : Placed(job[j])

\* The lane lists the jobs that are in it, each once.
LaneListsSteps ==
    /\ \A n \in 1..Len(lane) : InLane(job[lane[n]])
    /\ \A n, m \in 1..Len(lane) : lane[n] = lane[m] => n = m
    /\ \A j \in Jobs : InLane(job[j]) => \E n \in 1..Len(lane) : lane[n] = j

LaneInv == DeviceInv /\ AllPlaced /\ LaneListsSteps

\* The step that j is at begins by itself, or a timer ends it: the guards of
\* the actions of OnlyUnboundedCallsHold.
MovesUnanswered(j) ==
    \/ job[j].at \in Queued
    \/ job[j].kind = "register" /\ job[j].at \in Bounded
    \/ job[j].kind = "signOut" /\ job[j].at \in {"reading", "sending"}
    \/ job[j].kind = "link" /\ job[j].at \in {"reading", "sending", "undoSending"}
    \/ job[j].kind = "learn" /\ job[j].at = "reading"

\* A step of j stays in the lane or out of it, enters it or leaves it.
Queues(j) ==
    \/ lane' = lane /\ (InLane(job'[j]) <=> InLane(job[j]))
    \/ lane' = Append(lane, j) /\ ~InLane(job[j]) /\ InLane(job'[j])
    \/ Running(j) /\ lane' = Tail(lane) /\ ~InLane(job'[j])

QueueStep(j) == Only(j) /\ Queues(j) /\ Placed(job'[j])

LEMMA RunningIsInLane ==
    ASSUME TypeInv, LaneListsSteps, NEW j \in Jobs, Running(j)
    PROVE  InLane(job[j])
<1>1. lane \in Seq(Jobs) /\ lane # <<>> /\ Head(lane) = j
  BY DEF TypeInv, TypeOK, Running
<1>2. 1 \in 1..Len(lane) /\ lane[1] = j
  BY <1>1, QueueFacts
<1> QED  BY <1>2 DEF LaneListsSteps

LEMMA BeginQueues ==
    ASSUME TypeInv, AllPlaced, NEW j \in Jobs,
           \/ PressRegister(j) \/ PressSignOut(j) \/ (\E u \in Users : OpenLink(j, u))
           \/ OpenRefusedLink(j) \/ ReconcileStarts(j)
    PROVE  QueueStep(j)
<1> USE DEF TypeInv
<1>1. Placed(job[j])
  BY DEF AllPlaced
<1>2. CASE PressSignOut(j)
  <2>1. Created(j, "signOut", "queued", None) /\ lane' = Append(lane, j)
    BY <1>2, BeganEffects DEF PressSignOut
  <2> QED  BY <1>1, <2>1 DEF Created, QueueStep, Queues, InLane, Placed, Queued, InStep
<1>3. CASE \/ PressRegister(j) \/ ReconcileStarts(j)
           \/ (\E u \in Users : OpenLink(j, u)) \/ OpenRefusedLink(j)
  <2>1. /\ \/ Created(j, "register", "prompt", session)
           \/ Created(j, "learn", "prompt", None)
           \/ \E u \in Users : Created(j, "link", "waiting", u)
           \/ Created(j, "spent", "done", None)
        /\ lane' = lane
    BY <1>3, BeganEffects DEF PressRegister, ReconcileStarts, OpenLink, OpenRefusedLink
  <2> QED  BY <1>1, <2>1 DEF Created, QueueStep, Queues, InLane, Placed, Queued, InStep
<1> QED  BY <1>2, <1>3

\* A job that ends does so at the head of the lane or outside it.
LEMMA FinishQueues ==
    ASSUME NEW j \in Jobs, Finishes(j), Placed(job[j]),
           \/ lane' = lane /\ ~InLane(job[j])
           \/ Running(j) /\ lane' = Tail(lane)
    PROVE  QueueStep(j)
BY DEF Finishes, QueueStep, Queues, InLane, Placed, Queued, InStep

LEMMA RegisterQueues ==
    ASSUME TypeInv, AllPlaced, NEW j \in Jobs, Register(j) \/ RegisterTimesOut(j)
    PROVE  QueueStep(j)
<1> USE DEF TypeInv
<1>1. Placed(job[j])
  BY DEF AllPlaced
<1>2. CASE TokenRead(j)
  <2>1. /\ Puts(j, "queued") /\ lane' = Append(lane, j)
        /\ job[j].kind = "register" /\ job[j].at = "prompt"
    BY <1>2, TokenReadPuts DEF TokenRead
  <2> QED  BY <2>1 DEF Puts, QueueStep, Queues, InLane, Placed, Queued, InStep
<1>3. CASE TokenRefused(j) \/ RegisterResumesLate(j)
  <2>1. Finishes(j) /\ lane' = lane /\ job[j].at \in {"prompt", "late"}
    BY <1>3, RegisterEffects DEF TokenRefused, RegisterResumesLate
  <2> QED  BY <1>1, <2>1, FinishQueues DEF InLane, Queued, InStep
<1>4. CASE RegisterSkips(j) \/ RegisterConfirms(j) \/ RegisterFails(j)
  <2>1. Finishes(j) /\ Running(j) /\ lane' = Tail(lane)
    BY <1>4, RegisterEffects DEF RegisterSkips, RegisterConfirms, RegisterFails, EndRegister, In
  <2> QED  BY <1>1, <2>1, FinishQueues
<1>5. CASE RegisterSends(j) \/ RegisterStored(j)
  <2>1. /\ Puts(j, "sending") \/ Puts(j, "confirming")
        /\ lane' = lane /\ job[j].kind = "register" /\ job[j].at \in {"reading", "sending"}
    BY <1>5, RegisterSendsPuts, RegisterEffects DEF RegisterSends, RegisterStored, In
  <2> QED  BY <2>1 DEF Puts, QueueStep, Queues, InLane, Placed, Queued, InStep
<1>6. CASE RegisterTimesOut(j)
  <2>1. Puts(j, "late") \/ Finishes(j)
    BY <1>6, RegisterEffects
  <2>2. Running(j) /\ lane' = Tail(lane) /\ job[j].kind = "register"
    BY <1>6 DEF RegisterTimesOut
  <2>3. CASE Puts(j, "late")
    BY <2>2, <2>3 DEF Puts, QueueStep, Queues, InLane, Placed, Queued, InStep
  <2> QED  BY <1>1, <2>1, <2>2, <2>3, FinishQueues
<1> QED  BY <1>2, <1>3, <1>4, <1>5, <1>6 DEF Register

LEMMA SignOutQueues ==
    ASSUME TypeInv, AllPlaced, NEW j \in Jobs, SignOut(j) \/ SignOutGivesUpClear(j)
    PROVE  QueueStep(j)
<1> USE DEF TypeInv
<1>1. CASE SignOutLeaves(j)
  <2>1. Finishes(j) /\ Running(j) /\ lane' = Tail(lane) /\ Placed(job[j])
    BY <1>1, SignOutEffects DEF SignOutLeaves, In, AllPlaced
  <2> QED  BY <2>1, FinishQueues
<1>2. CASE SignOutReads(j) \/ SignOutCleared(j) \/ SignOutGivesUpClear(j)
  <2>1. Puts(j, "leaving") \/ Puts(j, "sending")
    BY <1>2, SignOutEffects
  <2>2. lane' = lane /\ job[j].kind = "signOut" /\ job[j].at \in {"reading", "sending"}
    BY <1>2 DEF SignOutReads, SignOutCleared, SignOutGivesUpClear, In
  <2> QED  BY <2>1, <2>2 DEF Puts, QueueStep, Queues, InLane, Placed, Queued, InStep
<1> QED  BY <1>1, <1>2 DEF SignOut

LEMMA LinkQueues ==
    ASSUME TypeInv, AllPlaced, NEW j \in Jobs,
           Link(j) \/ LinkMissesPrevious(j) \/ LinkCleared(j) \/ UndoCleared(j) \/ LinkEnters(j)
    PROVE  QueueStep(j)
<1> USE DEF TypeInv
<1>1. Placed(job[j]) /\ job[j].kind = "link"
  BY DEF AllPlaced, Link, LinkReadsPrevious, LinkMissesPrevious, LinkRefused, LinkExchanges,
         LinkPosts, LinkSignedIn, LinkUnposted, UndoLeaves, LinkCleared, UndoCleared, LinkEnters, In
<1>2. CASE LinkRefused(j) \/ UndoLeaves(j) \/ LinkSignedIn(j)
  <2>1. Finishes(j)
    BY <1>2, LinkEffects
  <2>2. \/ Running(j) /\ lane' = Tail(lane)
        \/ lane' = lane /\ job[j].at = "upserting"
    BY <1>2 DEF LinkRefused, UndoLeaves, LinkSignedIn, In
  <2> QED  BY <1>1, <2>1, <2>2, FinishQueues DEF InLane, Queued, InStep
<1>3. CASE LinkReads(j) \/ UndoCleared(j) \/ LinkPosts(j)
  <2>1. \/ Puts(j, "exchanging") /\ job[j].at = "reading"
        \/ Puts(j, "undoLeaving") /\ job[j].at = "undoSending"
        \/ Puts(j, "upserting") /\ job[j].at = "creating"
    BY <1>3, LinkEffects DEF LinkReads, LinkReadsPrevious, LinkMissesPrevious, UndoCleared, LinkPosts, In
  <2>2. lane' = lane
    BY <1>3 DEF LinkReads, LinkReadsPrevious, LinkMissesPrevious, UndoCleared, LinkPosts
  <2> QED  BY <1>1, <2>1, <2>2 DEF Puts, QueueStep, Queues, InLane, Placed, Queued, InStep
<1>4. CASE LinkExchanges(j)
  <2>1. /\ \/ Puts(j, "sending") /\ lane' = lane
           \/ Puts(j, "creating") /\ lane' = Tail(lane)
        /\ Running(j) /\ job[j].at = "exchanging"
    BY <1>4, LinkEffects DEF LinkExchanges, In
  <2> QED  BY <1>1, <2>1 DEF Puts, QueueStep, Queues, InLane, Placed, Queued, InStep
<1>5. CASE LinkCleared(j)
  <2>1. Puts(j, "creating") /\ lane' = Tail(lane) /\ Running(j)
    BY <1>5, LinkEffects DEF LinkCleared, In
  <2> QED  BY <1>1, <2>1 DEF Puts, QueueStep, Queues, InLane, Placed, Queued, InStep
<1>6. CASE LinkUnposted(j) \/ LinkEnters(j)
  <2>1. Puts(j, "undoQueued") \/ Puts(j, "queued")
    BY <1>6, LinkEffects
  <2>2. lane' = Append(lane, j) /\ job[j].at \in {"upserting", "waiting"}
    BY <1>6 DEF LinkUnposted, LinkEnters
  <2> QED  BY <1>1, <2>1, <2>2 DEF Puts, QueueStep, Queues, InLane, Placed, Queued, InStep
<1> QED  BY <1>2, <1>3, <1>4, <1>5, <1>6 DEF Link, LinkReads

LEMMA ReconcileQueues ==
    ASSUME TypeInv, AllPlaced, LaneListsSteps, NEW j \in Jobs,
           ReconcileEnters(j) \/ Learns(j) \/ LearnTimesOut(j)
    PROVE  QueueStep(j)
<1> USE DEF TypeInv
<1>1. job[j].kind = "learn" /\ Placed(job[j])
  BY DEF ReconcileEnters, Learns, LearnTimesOut, In, AllPlaced
<1>2. CASE ReconcileEnters(j)
  <2>1. Puts(j, "queued") /\ lane' = Append(lane, j) /\ job[j].at = "prompt"
    BY <1>2, LearnEffects DEF ReconcileEnters
  <2> QED  BY <1>1, <2>1 DEF Puts, QueueStep, Queues, InLane, Placed, Queued, InStep
<1>3. CASE Learns(j)
  <2>1. Finishes(j) /\ lane' = IF Running(j) THEN Tail(lane) ELSE lane
    BY <1>3, LearnEffects DEF Learns
  <2>2. ~Running(j) => ~InLane(job[j])
    BY <1>3 DEF Learns, In, InLane, Queued, InStep
  <2> QED  BY <1>1, <2>1, <2>2, FinishQueues
<1>4. CASE LearnTimesOut(j)
  <2>1. Puts(j, "late") /\ Running(j) /\ lane' = Tail(lane)
    BY <1>4, LearnEffects DEF LearnTimesOut, In
  <2> QED  BY <1>1, <2>1 DEF Puts, QueueStep, Queues, InLane, Placed, Queued, InStep
<1> QED  BY <1>2, <1>3, <1>4

LEMMA ActsQueue ==
    ASSUME TypeInv, AllPlaced, LaneListsSteps, NEW j \in Jobs, Acts(j)
    PROVE  QueueStep(j)
<1> USE DEF TypeInv
<1>1. Placed(job[j])
  BY DEF AllPlaced
<1>2. CASE Start(j)
  <2>1. Puts(j, "reading") /\ lane' = lane /\ job[j].at = "queued"
    BY <1>2, StartPuts DEF Start
  <2> QED  BY <1>1, <2>1 DEF Puts, QueueStep, Queues, InLane, Placed, Queued, InStep
<1>3. CASE UndoStarts(j)
  <2>1. /\ Puts(j, "undoSending") \/ Puts(j, "undoLeaving")
        /\ lane' = lane /\ job[j].at = "undoQueued"
    BY <1>3, LinkEffects DEF UndoStarts
  <2> QED  BY <1>1, <2>1 DEF Puts, QueueStep, Queues, InLane, Placed, Queued, InStep
<1>4. CASE PutArrives(j) \/ DeleteArrives(j)
  <2>1. Answered(j) /\ lane' = lane
    BY <1>4, ArrivalEffects DEF PutArrives, DeleteArrives
  <2> QED  BY <1>1, <2>1 DEF Answered, QueueStep, Queues, InLane, Placed
<1> QED  BY <1>2, <1>3, <1>4, BeginQueues, RegisterQueues, SignOutQueues, LinkQueues, ReconcileQueues
            DEF Acts, Enters, Bounds

LEMMA QueueStepLists ==
    ASSUME TypeInv, LaneListsSteps, NEW j \in Jobs, QueueStep(j)
    PROVE  LaneListsSteps'
<1>1. lane \in Seq(Jobs) /\ \A i \in Jobs \ {j} : job'[i] = job[i]
  BY DEF TypeInv, TypeOK, QueueStep, Only
<1>2. CASE lane' = lane /\ (InLane(job'[j]) <=> InLane(job[j]))
  <2>1. \A i \in Jobs : InLane(job'[i]) <=> InLane(job[i])
    BY <1>1, <1>2
  <2>2. \A n \in 1..Len(lane) : lane[n] \in Jobs
    BY <1>1, QueueFacts
  <2> QED  BY <1>2, <2>1, <2>2 DEF LaneListsSteps
<1>3. CASE lane' = Append(lane, j) /\ ~InLane(job[j]) /\ InLane(job'[j])
  <2> DEFINE last == Len(lane) + 1
  <2>1. /\ Len(lane) \in Nat /\ Len(lane') = last /\ lane'[last] = j
        /\ \A n \in 1..Len(lane) : lane'[n] = lane[n] /\ lane[n] \in Jobs
    BY <1>1, <1>3, QueueFacts
  <2>2. \A n \in 1..Len(lane) : lane[n] # j
    BY <1>3 DEF LaneListsSteps
  <2>3. \A n \in 1..last : n # last => n \in 1..Len(lane)
    BY <2>1
  <2>4. last \in 1..last /\ \A n \in 1..Len(lane) : n \in 1..last
    BY <2>1
  <2>5. \A n \in 1..last : InLane(job'[lane'[n]])
    BY <1>1, <1>3, <2>1, <2>2, <2>3 DEF LaneListsSteps
  <2>6. \A n, m \in 1..last : lane'[n] = lane'[m] => n = m
    BY <2>1, <2>2, <2>3 DEF LaneListsSteps
  <2>7. ASSUME NEW i \in Jobs, InLane(job'[i])
        PROVE  \E n \in 1..last : lane'[n] = i
    <3>1. CASE i = j
      BY <2>1, <2>4, <3>1
    <3>2. CASE i # j
      BY <1>1, <2>1, <2>4, <2>7, <3>2 DEF LaneListsSteps
    <3> QED  BY <3>1, <3>2
  <2> QED  BY <2>1, <2>5, <2>6, <2>7 DEF LaneListsSteps
<1>4. CASE Running(j) /\ lane' = Tail(lane) /\ ~InLane(job'[j])
  <2>1. /\ lane # <<>> /\ Len(lane) \in Nat \ {0} /\ lane[1] = j /\ Len(lane') = Len(lane) - 1
        /\ \A n \in 1..Len(lane) - 1 : lane'[n] = lane[n + 1]
        /\ \A n \in 1..Len(lane) : lane[n] \in Jobs
    BY <1>1, <1>4, QueueFacts DEF Running
  <2>2. \A n \in 1..Len(lane) - 1 : n + 1 \in 1..Len(lane) /\ n + 1 # 1
    BY <2>1
  <2>3. 1 \in 1..Len(lane) /\ \A n \in 1..Len(lane) : n # 1 => n - 1 \in 1..Len(lane) - 1 /\ (n - 1) + 1 = n
    BY <2>1
  <2>4. \A n \in 1..Len(lane) - 1 : lane'[n] # j
    BY <2>1, <2>2, <2>3 DEF LaneListsSteps
  <2>5. \A n \in 1..Len(lane) - 1 : InLane(job'[lane'[n]])
    BY <1>1, <2>1, <2>2, <2>4 DEF LaneListsSteps
  <2>6. ASSUME NEW n \in 1..Len(lane) - 1, NEW m \in 1..Len(lane) - 1, lane'[n] = lane'[m]
        PROVE  n = m
    <3>1. n + 1 = m + 1
      BY <2>1, <2>2, <2>6 DEF LaneListsSteps
    <3> QED  BY <3>1
  <2>7. ASSUME NEW i \in Jobs, InLane(job'[i])
        PROVE  \E n \in 1..Len(lane) - 1 : lane'[n] = i
    <3>1. i # j
      BY <1>4, <2>7
    <3>2. PICK n \in 1..Len(lane) : lane[n] = i
      BY <1>1, <2>7, <3>1 DEF LaneListsSteps
    <3>3. n # 1
      BY <2>1, <3>1, <3>2
    <3>4. lane'[n - 1] = lane[(n - 1) + 1]
      BY <2>1, <2>3, <3>3
    <3> QED  BY <2>3, <3>2, <3>3, <3>4
  <2> QED  BY <2>1, <2>5, <2>6, <2>7 DEF LaneListsSteps
<1> QED  BY <1>2, <1>3, <1>4 DEF QueueStep, Queues

LEMMA InitLane == Init => LaneInv
<1> SUFFICES ASSUME Init  PROVE LaneInv
  OBVIOUS
<1>1. \A j \in Jobs : job[j] = NoJob
  BY DEF Init
<1>2. AllPlaced
  BY <1>1, NoJobType DEF AllPlaced, Placed
<1>3. LaneListsSteps
  <2>1. lane = <<>> /\ \A j \in Jobs : ~InLane(job[j])
    BY <1>1, NoJobType DEF Init, InLane, Queued, InStep
  <2> QED  BY <2>1 DEF LaneListsSteps
<1> QED  BY <1>2, <1>3, InitHolds DEF LaneInv

LEMMA NextLists == LaneInv /\ [Next]_vars => LaneInv'
<1> SUFFICES ASSUME LaneInv, [Next]_vars  PROVE LaneInv'
  OBVIOUS
<1>1. DeviceInv' /\ TypeInv /\ AllPlaced /\ LaneListsSteps
  BY NextHolds DEF LaneInv, DeviceInv
<1>2. ASSUME NEW j \in Jobs, Acts(j)  PROVE AllPlaced' /\ LaneListsSteps'
  <2>1. QueueStep(j)
    BY <1>1, <1>2, ActsQueue
  <2>2. \A i \in Jobs : Placed(job'[i])
    BY <1>1, <2>1 DEF QueueStep, Only, AllPlaced
  <2> QED  BY <1>1, <2>1, <2>2, QueueStepLists DEF AllPlaced
<1>3. ASSUME Kill  PROVE AllPlaced' /\ LaneListsSteps'
  <2>1. lane' = <<>> /\ \A j \in Jobs : job'[j].at = "done"
    BY <1>1, <1>3, KillEffects DEF Kill, TypeInv
  <2>2. AllPlaced'
    BY <2>1 DEF AllPlaced, Placed
  <2>3. \A j \in Jobs : ~InLane(job'[j])
    BY <2>1 DEF InLane, Queued, InStep
  <2> QED  BY <2>1, <2>2, <2>3 DEF LaneListsSteps, InLane
<1>4. ASSUME LoadMe \/ ReconcileEnds \/ SessionExpires \/ UNCHANGED vars
      PROVE  AllPlaced' /\ LaneListsSteps'
  <2>1. job' = job /\ lane' = lane
    BY <1>4 DEF LoadMe, ReconcileEnds, SessionExpires, vars
  <2> QED  BY <1>1, <2>1 DEF AllPlaced, LaneListsSteps, Placed, InLane
<1>5. AllPlaced' /\ LaneListsSteps'
  BY <1>2, <1>3, <1>4, NextActs
<1> QED  BY <1>1, <1>5 DEF LaneInv

LEMMA LaneInvariant == Spec => []LaneInv
BY InitLane, NextLists, PTL DEF Spec

\* The lane never holds a step twice, nor one that is over, and every step that
\* waits or runs is in it: nothing is lost or run again, whatever is abandoned.
THEOREM LaneListsEachOnce == Spec => []LaneListsSteps
<1>1. LaneInv => LaneListsSteps
  BY DEF LaneInv
<1> QED  BY <1>1, LaneInvariant, PTL

\* With nothing answered, the lane moves on from the step at its head, unless
\* that step is in one of the three calls with no bound, where it stays: the
\* guards of OnlyUnboundedCallsHold, without its ENABLED.
THEOREM OnlyUnboundedHeadsStay ==
    Spec => [](lane # <<>> => (MovesUnanswered(Head(lane)) <=> job[Head(lane)].at \notin Unbounded))
<1>1. LaneInv =>
        (lane # <<>> => (MovesUnanswered(Head(lane)) <=> job[Head(lane)].at \notin Unbounded))
  <2> SUFFICES ASSUME LaneInv, lane # <<>>
               PROVE  MovesUnanswered(Head(lane)) <=> job[Head(lane)].at \notin Unbounded
    OBVIOUS
  <2>1. TypeInv /\ AllPlaced /\ LaneListsSteps
    BY DEF LaneInv, DeviceInv
  <2>2. PICK j \in Jobs : Head(lane) = j
    BY <2>1 DEF TypeInv, TypeOK
  <2>3. InLane(job[j]) /\ Placed(job[j]) /\ Fits(job[j]) /\ job[j].kind \in Kinds
    BY <2>1, <2>2, RunningIsInLane DEF Running, AllPlaced, TypeInv, TypeOK
  <2>4. job[j].at \notin Unbounded => MovesUnanswered(j)
    BY <2>3 DEF MovesUnanswered, Unbounded, InLane, Placed, Fits, Queued, InStep, Bounded, Kinds
  <2>5. MovesUnanswered(j) => job[j].at \notin Unbounded
    BY DEF MovesUnanswered, Unbounded, Queued, Bounded
  <2> QED  BY <2>2, <2>4, <2>5
<1> QED  BY <1>1, LaneInvariant, PTL
=============================================================================
