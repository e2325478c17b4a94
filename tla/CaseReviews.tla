---------------------------- MODULE CaseReviews ----------------------------
(***************************************************************************)
(* One improvement case: its review row and proposals, the jobs that judge *)
(* it, and the journal of approval requests beside the database            *)
(* (vocabulary-case-reviews.ts, approval-requests.ts and the operator's    *)
(* actions of vocabulary-reflection.ts).  The journal is a file of its own,*)
(* so a step that writes both can be cut between the two: by a write that  *)
(* fails, or by the death of the process.                                  *)
(*                                                                         *)
(* The server is single-threaded and these steps await nothing: a step is  *)
(* one action, with one disjunct for each place it can be cut at.          *)
(* Proposals, jobs and requests are numbered in the order they were made.  *)
(***************************************************************************)
EXTENDS Naturals, Sequences, FiniteSets, SequencesExt

CONSTANTS
  MaxAttempts,   \* starts of a request before a transient error stops it
  MaxRequests,   \* bound: approval requests
  MaxActs,       \* bound: what the operator does beside requesting approvals
  MaxFaults      \* bound: deaths, failed writes and errors

ASSUME CaseAssumption ==
  /\ MaxAttempts \in Nat \ {0}
  /\ {MaxRequests, MaxActs, MaxFaults} \subseteq Nat

VARIABLES
  review,    \* the review row: [state, current, approval, request, job]
  status,    \* the case's own status
  jobs,      \* [kind, status, source, pinned, about, outcome]
  proposals, \* [status, version, base, assessed]
  content,   \* the version of the content
  approvals, \* [proposal, version] an operator approved
  applied,   \* applications: [by, proposal, version], by 0 for the operator
  asked,     \* what each request authorises: [proposal, version]
  journal,   \* [request, status, attempts], in the order first recorded; an
             \* item queued or running is "active", nothing tells them apart
  up,        \* the server runs
  missed,    \* since it started, a write of the review row failed alone
  acts, faults

case   == <<status, jobs, proposals, content>>
given  == <<approvals, applied>>
server == <<given, asked, journal, up, missed, faults>>
vars   == <<review, case, server, acts>>

-----------------------------------------------------------------------------
(* The review row.                                                         *)

ActiveJobs == {j \in DOMAIN jobs : jobs[j].status = "active"}

\* A queued or running reassessment freezes the case.
Frozen == \E j \in ActiveJobs : jobs[j].kind = "reassess"

Pending == review.approval = "pending"

\* Mutation of Editable: the operator edits a case being reassessed.
EditableUnlessHeld == ~Pending

\* What an operator may edit, and what the request holding the case may.
Editable == ~Frozen /\ ~Pending
EditableFor(r, p) ==
  ~Frozen /\ (Pending => review.request = r /\ review.current = p)

CanQueue == review.state = "open" /\ ActiveJobs = {} /\ ~Pending

Free(row) == [row EXCEPT !.approval = "none", !.request = 0]
Release(row, r) == IF row.request = r THEN Free(row) ELSE row

\* The row held by request r, for proposal p.
Hold(row, r, p) == [row EXCEPT !.approval = "pending", !.request = r,
                               !.current = p]

\* Attention is shown unless another request holds the case.
Warn(row, r) == IF row.approval = "pending" /\ row.request # r THEN row
                ELSE [row EXCEPT !.approval = "attention", !.request = r]
Unwarned(row) == IF row.approval = "attention" THEN Free(row) ELSE row

Unsettled(ps) == {p \in DOMAIN ps : ps[p].status \in {"awaiting", "approved"}}

\* Mutation of ResolveTo: the case is resolved with its last decision.
ResolveAlways(ps, p) ==
  [Free(review) EXCEPT !.current = p, !.state = "resolved"]

\* The oldest proposal left becomes current; with none the case is resolved.
ResolveTo(ps, p) ==
  IF Unsettled(ps) = {}
  THEN [Free(review) EXCEPT !.current = p, !.state = "resolved"]
  ELSE [Free(review) EXCEPT !.current = Min(Unsettled(ps)), !.state = "open"]

-----------------------------------------------------------------------------
(* Proposals, under the operator's hand.                                   *)

Act == acts < MaxActs /\ acts' = acts + 1

NewProposal(j) ==
  [status |-> "awaiting", version |-> 1, base |-> content, assessed |-> j]

\* createVocabularyProposal: a manual proposal reopens a resolved case.
CreateProposal ==
  /\ up /\ Act /\ Editable
  /\ proposals' = Append(proposals, NewProposal(review.job))
  /\ review' = [Free(review) EXCEPT !.current = Len(proposals) + 1,
                                    !.state = "open"]
  /\ UNCHANGED <<status, jobs, content, server>>

\* saveVocabularyProposal: a new version is reviewed again.
SaveProposal(p) ==
  /\ up /\ Act /\ Editable
  /\ p \in Unsettled(proposals)
  /\ proposals' = [proposals EXCEPT ![p].version = @ + 1,
                                    ![p].status = "awaiting",
                                    ![p].base = content]
  /\ review' = Unwarned(review)
  /\ UNCHANGED <<status, jobs, content, server>>

Authorised(p) == [proposal |-> p, version |-> proposals[p].version]

\* approveVocabularyProposal
ApproveProposal(p) ==
  /\ up /\ Act /\ Editable
  /\ p \in Unsettled(proposals) /\ proposals[p].base = content
  /\ approvals' = approvals \cup {Authorised(p)}
  /\ proposals' = [proposals EXCEPT ![p].status = "approved"]
  /\ UNCHANGED <<review, status, jobs, content, applied, asked, journal, up,
                 missed, faults>>

\* Applying p: its operations write the source, or create beside it.
Write(by, p) ==
  LET ps == [proposals EXCEPT ![p].status = "applied"]
  IN  /\ proposals' = ps
      /\ content' \in {content, content + 1}
      /\ applied' = applied \cup {[by |-> by, proposal |-> p,
                                   version |-> proposals[p].version]}

\* applyVocabularyProposal, on its own route.
ApplyProposal(p) ==
  /\ up /\ Act /\ Editable
  /\ p \in DOMAIN proposals
  /\ proposals[p].status = "approved" /\ proposals[p].base = content
  /\ Authorised(p) \in approvals
  /\ Write(0, p)
  /\ review' = ResolveTo(proposals', p)
  /\ UNCHANGED <<status, jobs, approvals, asked, journal, up, missed, faults>>

CloseProposal(p) ==
  /\ up /\ Act /\ Editable
  /\ p \in Unsettled(proposals)
  /\ LET ps == [proposals EXCEPT ![p].status = "closed"]
     IN  proposals' = ps /\ review' = ResolveTo(ps, p)
  /\ UNCHANGED <<status, jobs, content, server>>

\* What the job the review stands on concluded.
Judged == IF review.job = 0 THEN "none" ELSE jobs[review.job].outcome

\* closeVocabularyCase: an assessment without a proposal is set aside, with
\* every proposal made by hand since; the last one closed stays current.
CloseCase ==
  /\ up /\ Act /\ Editable
  /\ Judged \in {"nothing", "attention"}
  /\ proposals' = [p \in DOMAIN proposals |->
                     IF p \in Unsettled(proposals)
                     THEN [proposals[p] EXCEPT !.status = "closed"]
                     ELSE proposals[p]]
  /\ \E p \in IF Unsettled(proposals) = {} THEN {review.current}
              ELSE Unsettled(proposals) : review' = ResolveTo(proposals', p)
  /\ status' = "closed"
  /\ UNCHANGED <<jobs, content, server>>

\* The content is edited elsewhere.
EditContent ==
  /\ up /\ Act
  /\ content' = content + 1
  /\ UNCHANGED <<review, status, jobs, proposals, server>>

-----------------------------------------------------------------------------
(* Jobs of the case: how one is run is in ReflectionJobs; here a queued or *)
(* running one is active, and ends by a result or a failure.               *)

NewJob(kind, source, pinned, about) ==
  [ kind |-> kind, status |-> "active", source |-> source, pinned |-> pinned,
    about |-> about, outcome |-> "none" ]

QueueJob(job) == jobs' = Append(jobs, job)

NoProposal == [proposal |-> 0, version |-> 0]

\* requestVocabularyReassessment, of the case or of one of its proposals.
RequestReassessment ==
  /\ up /\ Act /\ CanQueue /\ review.job # 0
  /\ QueueJob(NewJob("reassess", review.job, content, NoProposal))
  /\ \E p \in Unsettled(proposals) \cup {review.current} :
       review' = [Unwarned(review) EXCEPT !.current = p]
  /\ UNCHANGED <<status, proposals, content, server>>

PinnedBy(j) == IF j = 0 THEN 0 ELSE jobs[j].pinned

\* requestVocabularySecondOpinion: one for each version of a proposal.
RequestSecondOpinion(p) ==
  /\ up /\ Act /\ Editable /\ CanQueue
  /\ p \in Unsettled(proposals) /\ proposals[p].base = content
  /\ \A j \in DOMAIN jobs : jobs[j].about # Authorised(p)
  /\ QueueJob(NewJob("opinion", 0, PinnedBy(proposals[p].assessed),
                     Authorised(p)))
  /\ UNCHANGED <<review, status, proposals, content, server>>

\* requestVocabularyCaseSecondOpinion: of a judgment that proposed nothing.
RequestCaseOpinion ==
  /\ up /\ Act /\ CanQueue
  /\ Judged \in {"nothing", "attention"} /\ status # "open"
  /\ QueueJob(NewJob("opinion", 0, PinnedBy(review.job), NoProposal))
  /\ UNCHANGED <<review, status, proposals, content, server>>

\* A reassessment, or an opinion on one, is of the version it was asked for.
Current(job) == job.pinned \in {0, content}

\* The proposals once job j ended: a reassessment replaces the current one.
Replaced(j, outcome) ==
  LET ps == IF jobs[j].kind = "reassess"
               /\ review.current \in Unsettled(proposals)
            THEN [proposals EXCEPT ![review.current].status = "closed"]
            ELSE proposals
  IN  IF outcome = "proposal" THEN Append(ps, NewProposal(j)) ELSE ps

\* recordVocabularyImprovementResult and finish, of an assessment.
FinishAssessment(j, outcome) ==
  LET ps == Replaced(j, outcome)
      left == Unsettled(ps)
  IN  /\ up /\ jobs[j].status = "active" /\ jobs[j].kind # "opinion"
      /\ Current(jobs[j])
      /\ proposals' = ps
      /\ jobs' = [jobs EXCEPT ![j].status = "succeeded",
                              ![j].outcome = outcome]
      /\ review' = [review EXCEPT
           !.current = IF outcome = "proposal" THEN Len(ps)
                       ELSE IF left = {} THEN 0 ELSE Min(left),
           !.job = j, !.state = "open"]
      /\ status' = IF outcome = "attention" THEN "open" ELSE "completed"
      /\ UNCHANGED <<content, server, acts>>

\* A second opinion advises and changes nothing else.
FinishOpinion(j) ==
  /\ up /\ jobs[j].status = "active" /\ jobs[j].kind = "opinion"
  /\ Current(jobs[j])
  /\ jobs' = [jobs EXCEPT ![j].status = "succeeded"]
  /\ UNCHANGED <<review, status, proposals, content, server, acts>>

FailJob(j) ==
  /\ up /\ jobs[j].status = "active"
  /\ jobs' = [jobs EXCEPT ![j].status = "failed"]
  /\ UNCHANGED <<review, status, proposals, content, server, acts>>

\* retryJob: the latest job, unless a newer judgment superseded its source.
RetryJob(j) ==
  /\ up /\ Act /\ jobs[j].status = "failed" /\ CanQueue
  /\ j = Len(jobs)
  /\ jobs[j].source # 0 => review.job = jobs[j].source
  /\ jobs' = [jobs EXCEPT ![j].status = "active"]
  /\ UNCHANGED <<review, status, proposals, content, server>>

-----------------------------------------------------------------------------
(* The journal of approval requests.                                       *)

ActiveItem(item) == item.status = "active"
Requested        == {journal[i].request : i \in DOMAIN journal}

Faulty == faults < MaxFaults /\ faults' = faults + 1

Item(r, st, n) == [request |-> r, status |-> st, attempts |-> n]

\* The revision request r authorises is the one on the table.
SameRevision(a) ==
  a.proposal \in DOMAIN proposals
    /\ proposals[a.proposal].version = a.version

\* recordVocabularyApprovalIntent, then the journal.  A failed append takes
\* the hold back; a death between the two leaves it for reconciliation.
Intend(r, a, items) ==
  LET held == Hold(review, r, a.proposal)
  IN  \/ review' = held /\ journal' = items /\ UNCHANGED <<up, faults>>
      \/ /\ review' = Release(held, r)
         /\ Faulty /\ UNCHANGED <<journal, up>>
      \/ /\ review' = held /\ up' = FALSE
         /\ Faulty /\ UNCHANGED journal

\* enqueue: no request of this revision is under way.  The proposal's status
\* is not looked at.
Admissible(a) ==
  /\ SameRevision(a) /\ Editable
  /\ \A i \in DOMAIN journal :
       ActiveItem(journal[i]) => asked[journal[i].request] # a

Admit(r, a) ==
  /\ Admissible(a)
  /\ Intend(r, a, Append(journal, Item(r, "active", 0)))
  /\ UNCHANGED <<case, given, missed, acts>>

RequestApproval(p) ==
  /\ up /\ Len(asked) < MaxRequests
  /\ asked' = Append(asked, Authorised(p))
  /\ Admit(Len(asked) + 1, Authorised(p))

\* A request the journal does not hold is sent again.
RepeatRequest(r) ==
  /\ up /\ r \notin Requested
  /\ Admit(r, asked[r])
  /\ UNCHANGED asked

\* retry: of a request that needs attention.
RetryRequest(i) ==
  LET r == journal[i].request
  IN  /\ up /\ Act /\ journal[i].status = "attention"
      /\ SameRevision(asked[r]) /\ Editable
      /\ Intend(r, asked[r], [journal EXCEPT ![i] = Item(r, "active", 0)])
      /\ UNCHANGED <<case, given, asked, missed>>

\* Mutation of Taken: one started before is not taken up again.
TakenFresh(i) == /\ ActiveItem(journal[i]) /\ journal[i].attempts = 0
                 /\ \A k \in 1..(i - 1) : ~ActiveItem(journal[k])

\* The request the worker takes: the first one queued or running.
Taken(i) == /\ ActiveItem(journal[i])
            /\ \A k \in 1..(i - 1) : ~ActiveItem(journal[k])

Started(i) == [journal EXCEPT ![i].attempts = @ + 1]
Ended(i, st) == [Started(i) EXCEPT ![i].status = st]

\* The receipt of an application carries the request's own key.
HasReceipt(r) == \E a \in applied : a.by = r

\* Mutation of Answered: the receipt is looked up by the revision, as the
\* operator's own route does, and not by the request.
AnsweredByRevision(r) ==
  \E a \in applied : asked[r] = [proposal |-> a.proposal, version |-> a.version]

Answered(r) == HasReceipt(r)

\* Mutation of Approvable: a proposal already decided is applied again.
ApprovableSettled(r) ==
  LET p == asked[r].proposal
  IN  SameRevision(asked[r]) /\ EditableFor(r, p)

\* completeVocabularyApprovalRequest: what the request authorises can still
\* be approved and applied.
Approvable(r) ==
  LET p == asked[r].proposal
  IN  /\ SameRevision(asked[r]) /\ EditableFor(r, p)
      /\ p \in Unsettled(proposals) /\ proposals[p].base = content

\* The review and the application commit together.
Complete(r) ==
  \/ Answered(r) /\ UNCHANGED <<proposals, content, given>>
  \/ /\ ~Answered(r) /\ Approvable(r)
     /\ approvals' = approvals \cup {asked[r]}
     /\ Write(r, asked[r].proposal)

\* The row it leaves.
Completed(r) ==
  IF Answered(r) THEN Release(review, r)
  ELSE ResolveTo(proposals', asked[r].proposal)

\* The worker's step, once the database was written and the journal too.
Succeed(i) ==
  LET r == journal[i].request
  IN  /\ up /\ Taken(i)
      /\ Complete(r) /\ review' = Completed(r)
      /\ journal' = Ended(i, "succeeded")
      /\ UNCHANGED <<status, jobs, asked, up, missed, acts, faults>>

\* After the application committed, the append that records it fails, or the
\* write of the row that follows it, or the process dies before either: what
\* holds the case then holds it still.
SucceedCut(i) ==
  LET r == journal[i].request
  IN  /\ up /\ Taken(i) /\ Faulty
      /\ Complete(r)
      /\ review' = IF Answered(r) THEN review ELSE Completed(r)
      /\ up' \in BOOLEAN
      /\ \/ journal' = Started(i) /\ missed' = missed
         \/ journal' = Ended(i, "succeeded") /\ missed' = TRUE
      /\ UNCHANGED <<status, jobs, asked, acts>>

\* What a request ends with when its error is not one to try again.
Stop(i) ==
  /\ journal' = Ended(i, "attention")
  /\ review' = Warn(review, journal[i].request)
  /\ UNCHANGED <<case, given, asked, up, missed, acts>>

\* Without a receipt the request may be refused: what it authorises can no
\* longer be approved, or its preview or an operation of it is not valid.
Refuse(i) ==
  /\ up /\ Taken(i) /\ ~Answered(journal[i].request)
  /\ Stop(i) /\ UNCHANGED faults

\* Any other error stops it at once, at any attempt and with or without a
\* receipt: the operator is looked up before the receipt is, and of the
\* database's errors only a few are transient.
Fail(i) == up /\ Taken(i) /\ Faulty /\ Stop(i)

\* The row is not written after the attention was recorded: the write fails,
\* or the process died.
StopCut(i) ==
  /\ up /\ Taken(i) /\ Faulty
  /\ journal' = Ended(i, "attention")
  /\ up' \in BOOLEAN /\ missed' = TRUE
  /\ UNCHANGED <<review, case, given, asked, acts>>

\* A transient error is tried again, up to the last attempt.
Transient(i) ==
  LET again == journal[i].attempts + 1 < MaxAttempts
  IN  /\ up /\ Taken(i) /\ Faulty
      /\ \/ /\ again /\ journal' = Ended(i, "active")
            /\ UNCHANGED <<review, case, given, asked, up, missed, acts>>
         \/ ~again /\ Stop(i)

\* Nothing committed, and the outcome is not recorded either.
Interrupt(i) ==
  /\ up /\ Taken(i) /\ Faulty
  /\ journal' = Started(i) /\ up' \in BOOLEAN
  /\ UNCHANGED <<review, case, given, asked, missed, acts>>

\* Attention to a revision that is no longer on the table is dropped.
Moot(item) ==
  LET a == asked[item.request]
  IN  item.status = "attention"
        /\ (~SameRevision(a) \/ a.proposal \notin Unsettled(proposals))

Kept == {i \in DOMAIN journal : ~Moot(journal[i])}

\* The journal is written again with the items that are kept, in their order.
Compact ==
  /\ up
  /\ \E at \in [1..Cardinality(Kept) -> Kept] :
       /\ \A k, l \in DOMAIN at : k < l => at[k] < at[l]
       /\ \A i \in Kept : \E k \in DOMAIN at : at[k] = i
       /\ journal' = [k \in DOMAIN at |-> journal[at[k]]]
  /\ UNCHANGED <<review, case, given, asked, up, missed, acts, faults>>

Crash ==
  /\ up /\ Faulty
  /\ up' = FALSE
  /\ UNCHANGED <<review, case, given, asked, journal, missed, acts>>

-----------------------------------------------------------------------------
(* reconcileVocabularyCaseApprovals, when the server starts.               *)

Active == {i \in DOMAIN journal : ActiveItem(journal[i])}

\* Mutation of Unclaimed: a hold whose request was never recorded stays.
UnclaimedKept == review

\* Holds the journal knows nothing of are dropped first.
Unclaimed ==
  IF \E i \in Active : journal[i].request = review.request THEN review
  ELSE Free(review)

\* The row can be held for item i: it is already, or nothing forbids it.
Holdable(row, i) ==
  \/ row.approval = "pending" /\ row.request = journal[i].request
  \/ row.approval # "pending" /\ ~Frozen

\* Every active request holds its case again; two of them cannot.
Startable == \A i \in Active : Active = {i} /\ Holdable(Unclaimed, i)

Reclaimed(row, i) ==
  IF row.approval = "pending" THEN row
  ELSE Hold(row, journal[i].request, asked[journal[i].request].proposal)

\* A request of the current revision that needs attention shows it again.
Reminds(row, i) ==
  /\ journal[i].status = "attention" /\ ~Moot(journal[i])
  /\ row.approval # "pending"
  /\ row.current = asked[journal[i].request].proposal

Reminded(row) ==
  LET due == {i \in DOMAIN journal : Reminds(row, i)}
  IN  IF due = {} THEN row ELSE Warn(row, journal[Max(due)].request)

Start ==
  /\ ~up /\ Startable
  /\ review' = Reminded(IF Active = {} THEN Unclaimed
                        ELSE Reclaimed(Unclaimed, Min(Active)))
  /\ up' = TRUE /\ missed' = FALSE
  /\ UNCHANGED <<case, given, asked, journal, acts, faults>>

\* A request that cannot hold its case stops the start; what was written of
\* the row until then stays.
StartFails ==
  /\ ~up /\ ~Startable
  /\ review' = IF Holdable(Unclaimed, Min(Active))
               THEN Reclaimed(Unclaimed, Min(Active)) ELSE Unclaimed
  /\ UNCHANGED <<case, server, acts>>

-----------------------------------------------------------------------------
(* The specification.                                                      *)

\* createCase: the case with its review row and its first job.
Init ==
  /\ review = [ state |-> "open", current |-> 0, approval |-> "none",
                request |-> 0, job |-> 0 ]
  /\ status = "open"
  /\ jobs = <<NewJob("assess", 0, 0, NoProposal)>>
  /\ proposals = <<>> /\ content = 1
  /\ approvals = {} /\ applied = {}
  /\ asked = <<>> /\ journal = <<>>
  /\ up = TRUE /\ missed = FALSE /\ acts = 0 /\ faults = 0

Operator ==
  \/ CreateProposal \/ CloseCase \/ EditContent
  \/ \E p \in DOMAIN proposals :
       \/ SaveProposal(p) \/ ApproveProposal(p) \/ ApplyProposal(p)
       \/ CloseProposal(p)
       \/ RequestSecondOpinion(p) \/ RequestApproval(p)
  \/ RequestReassessment \/ RequestCaseOpinion
  \/ \E r \in DOMAIN asked : RepeatRequest(r)
  \/ \E i \in DOMAIN journal : RetryRequest(i)
  \/ \E j \in DOMAIN jobs : RetryJob(j)

FinishJob ==
  \E j \in DOMAIN jobs :
    \/ \E outcome \in {"proposal", "nothing", "attention"} :
         FinishAssessment(j, outcome)
    \/ FinishOpinion(j) \/ FailJob(j)

Work == \E i \in DOMAIN journal : Succeed(i) \/ Refuse(i)

Trouble ==
  \/ \E i \in DOMAIN journal :
       \/ SucceedCut(i) \/ Fail(i) \/ StopCut(i) \/ Transient(i)
       \/ Interrupt(i)
  \/ Crash

Next == Operator \/ FinishJob \/ Work \/ Compact \/ Trouble \/ Start
          \/ StartFails

\* The worker's timer is set again after every step, and the server is
\* started again after it died.
Spec == Init /\ [][Next]_vars /\ WF_vars(Work) /\ WF_vars(Start)

-----------------------------------------------------------------------------
(* Properties.                                                             *)

JobType ==
  [ kind : {"assess", "reassess", "opinion"},
    status : {"active", "succeeded", "failed"},
    source : Nat, pinned : Nat,
    about : [proposal : Nat, version : Nat],
    outcome : {"none", "proposal", "nothing", "attention"} ]

ProposalType ==
  [ status : {"awaiting", "approved", "applied", "closed"},
    version : Nat, base : Nat, assessed : Nat ]

\* The shapes, and that what a row, an item or an application refers to
\* exists.
CaseTypeOK ==
  /\ review \in [ state : {"open", "resolved"}, current : Nat, request : Nat,
                  approval : {"none", "pending", "attention"}, job : Nat ]
  /\ status \in {"open", "completed", "closed"}
  /\ jobs \in Seq(JobType) /\ proposals \in Seq(ProposalType)
  /\ content \in Nat
  /\ approvals \subseteq [proposal : DOMAIN proposals, version : Nat]
  /\ applied \subseteq [by : {0} \cup DOMAIN asked,
                        proposal : DOMAIN proposals, version : Nat]
  /\ asked \in Seq([proposal : DOMAIN proposals, version : Nat])
  /\ journal \in Seq([request : DOMAIN asked, attempts : Nat,
       status : {"active", "succeeded", "attention"}])
  /\ up \in BOOLEAN /\ missed \in BOOLEAN /\ acts \in Nat /\ faults \in Nat
  /\ review.current \in {0} \cup DOMAIN proposals
  /\ review.job \in {0} \cup DOMAIN jobs
  /\ \A p \in DOMAIN proposals :
       proposals[p].assessed \in {0} \cup DOMAIN jobs

\* Whatever is retried, repeated or cut, and on whichever route: a proposal
\* is applied at most once, in a revision an operator approved and, for a
\* request, the one it named (vocabulary-reflection.ts:716-797).
AppliedOnceAsAsked ==
  /\ \A a, b \in applied : a.proposal = b.proposal => a = b
  /\ \A a \in applied :
       LET revision == [proposal |-> a.proposal, version |-> a.version]
       IN  /\ proposals[a.proposal].status = "applied"
           /\ SameRevision(revision) /\ revision \in approvals
           /\ a.by # 0 => asked[a.by] = revision

\* The journal and the database are two files, and whatever is cut, refused
\* or tried again: a request recorded as succeeded has its own receipt; one
\* that was applied and yet asks for attention, for an error that came after
\* the commit, is moot, so that no start shows it again; and the operator is
\* never shown for attention a request that is still under way, or ended well
\* (approval-requests.ts:105-132, vocabulary-case-reviews.ts:54-60).
JournalTellsTheTruth ==
  \A i \in DOMAIN journal :
    LET r == journal[i].request
    IN  /\ journal[i].status = "succeeded" => HasReceipt(r)
        /\ journal[i].status = "attention" /\ HasReceipt(r) => Moot(journal[i])
        /\ review.approval = "attention" /\ review.request = r =>
             journal[i].status = "attention"

\* While the server runs, a request not yet applied holds its case against
\* every other writer; what holds the case is a request the worker will take,
\* unless the write that had to let go of it failed alone; and a case being
\* reassessed is held by none (vocabulary-case-reviews.ts:15-56).
RequestHoldsItsCase ==
  /\ ~(Frozen /\ Pending)
  /\ up => \A i \in Active : ~HasReceipt(journal[i].request) =>
             Pending /\ review.request = journal[i].request
  /\ up /\ ~missed /\ Pending =>
       \E i \in Active : journal[i].request = review.request

\* While a reassessment is under way nothing of the case is approved or
\* applied and no proposal changes, but the current one when the
\* reassessment replaces it (vocabulary-case-reviews.ts:15-19).
FrozenUntouched ==
  [][Frozen => /\ UNCHANGED given
               /\ \A p \in DOMAIN proposals :
                    proposals'[p] # proposals[p] =>
                      p = review.current /\ ~Frozen']_vars

\* A resolved case has no proposal left to decide and no reassessment to wait
\* for (vocabulary-case-reviews.ts:32-37).
ResolvedIsSettled ==
  review.state = "resolved" => Unsettled(proposals) = {} /\ ~Frozen

UnderWay(r) == \E i \in Active : journal[i].request = r

\* A request already applied whose success was not recorded keeps the server
\* from starting: its case was reassessed, or held again, since.
LockedOut ==
  ~up /\ ~Startable /\ \E i \in Active : HasReceipt(journal[i].request)

\* An approval request ends: it succeeds, or asks for attention, whatever
\* fails meanwhile.  The one exception is a server that cannot start again
\* (approval-requests.ts:105-132, vocabulary-case-reviews.ts:48-56).
RequestsConclude ==
  \A r \in 1..MaxRequests : UnderWay(r) ~> (~UnderWay(r) \/ LockedOut)

\* What approval-requests.ts:120-127 says of an application that committed
\* while its success could not be appended: the request is replayed, finds
\* its receipt and ends.
ReceiptIsReconciled ==
  \A r \in 1..MaxRequests :
    UnderWay(r) /\ HasReceipt(r) ~> ~UnderWay(r)
=============================================================================
