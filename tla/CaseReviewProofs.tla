-------------------------- MODULE CaseReviewProofs --------------------------
(***************************************************************************)
(* What holds of an improvement case and its approval requests however     *)
(* many requests, actions and faults there are: from one inductive         *)
(* invariant, that a proposal is applied once and as it was asked, that    *)
(* the journal tells the truth, that a request holds its case, and that a  *)
(* case under reassessment is left alone.                                  *)
(***************************************************************************)
EXTENDS CaseReviews, FiniteSetTheorems, SequenceTheorems, TLAPS

ReviewType ==
  [ state : {"open", "resolved"}, current : Nat, request : Nat,
    approval : {"none", "pending", "attention"}, job : Nat ]

ItemType ==
  [ request : Nat, attempts : Nat,
    status : {"active", "succeeded", "attention"} ]

RevisionType == [proposal : Nat, version : Nat]

-----------------------------------------------------------------------------
(* Sets of numbers.                                                        *)

\* A set of numbers that has a member has a least one.
LEMMA MinMember ==
  ASSUME NEW S \in SUBSET Nat, S # {}
  PROVE  Min(S) \in S /\ \A x \in S : Min(S) <= x
<1> DEFINE T == {0 .. x : x \in S}
           R == StrictSubsetOrdering(Nat)
<1>1. IsWellFoundedOn(R, FiniteSubsetsOf(Nat))
  BY FS_StrictSubsetOrderingWellFounded
<1>2. T \subseteq FiniteSubsetsOf(Nat)
  <2> SUFFICES ASSUME NEW x \in S PROVE (0 .. x) \in FiniteSubsetsOf(Nat)
    OBVIOUS
  <2>1. (0 .. x) \in SUBSET Nat /\ 0 \in Int /\ x \in Int
    OBVIOUS
  <2>2. IsFiniteSet(0 .. x)
    BY <2>1, FS_Interval
  <2> QED BY <2>1, <2>2 DEF FiniteSubsetsOf
<1>3. T # {}
  OBVIOUS
<1> HIDE DEF R, T
<1>4. \E t \in T : \A u \in T : ~(<<u, t>> \in R)
  BY <1>1, <1>2, <1>3, WFMin
<1> USE DEF R, T
<1>5. PICK x \in S : \A y \in S : ~(<<0 .. y, 0 .. x>> \in R)
  BY <1>4
<1>6. \A y \in S : x <= y
  <2>1. SUFFICES ASSUME NEW y \in S, y < x PROVE FALSE
    OBVIOUS
  <2>2. (0 .. y) \in SUBSET Nat /\ (0 .. x) \in SUBSET Nat
        /\ (0 .. y) \subseteq (0 .. x)
    BY <2>1
  <2>3. x \in 0 .. x /\ x \notin 0 .. y
    BY <2>1
  <2> QED BY <2>2, <2>3, <1>5 DEF StrictSubsetOrdering
<1> QED BY <1>5, <1>6 DEF Min

\* A set of numbers up to n that has a member has a greatest one.
LEMMA MaxMember ==
  ASSUME NEW n \in Nat, NEW S \in SUBSET (1 .. n), S # {}
  PROVE  Max(S) \in S
<1> DEFINE T == {n - x : x \in S}
<1>1. \A x \in S : x \in Nat /\ n - x \in Nat /\ n - x \in T
  OBVIOUS
<1>2. \A t \in T : \E x \in S : t = n - x
  OBVIOUS
<1>3. T \in SUBSET Nat /\ T # {}
  BY <1>1, <1>2
<1> HIDE DEF T
<1>4. Min(T) \in T /\ \A y \in T : Min(T) <= y
  BY <1>3, MinMember
<1>5. PICK x \in S : Min(T) = n - x
  BY <1>2, <1>4
<1>6. ASSUME NEW y \in S PROVE x >= y
  <2>1. n - x <= n - y /\ x \in Nat /\ y \in Nat
    BY <1>1, <1>4, <1>5
  <2> QED BY <2>1
<1> QED BY <1>6 DEF Max

\* A function on 1..n is a sequence of its values.
LEMMA FunctionSeq ==
  ASSUME NEW T, NEW n \in Nat, NEW f \in [1 .. n -> T]
  PROVE  f \in Seq(T) /\ Len(f) = n
BY SeqDef

\* The elements of a sequence.
LEMMA Elements ==
  ASSUME NEW S, NEW s \in Seq(S)
  PROVE  /\ Len(s) \in Nat /\ DOMAIN s = 1 .. Len(s)
         /\ \A i \in DOMAIN s : s[i] \in S
BY LenProperties, ElementOfSeq

\* A sequence is one of whatever its elements are.
LEMMA Retyped ==
  ASSUME NEW S, NEW T, NEW s \in Seq(S), \A i \in DOMAIN s : s[i] \in T
  PROVE  s \in Seq(T)
<1>1. Len(s) \in Nat /\ s \in [1 .. Len(s) -> S] /\ DOMAIN s = 1 .. Len(s)
  BY LenProperties
<1>2. s \in [1 .. Len(s) -> T]
  BY <1>1
<1> QED BY <1>1, <1>2, FunctionSeq

-----------------------------------------------------------------------------
(* The rows.                                                               *)

\* Undecided proposals are proposals.
LEMMA UnsettledMember ==
  ASSUME NEW ps \in Seq(ProposalType), Unsettled(ps) # {}
  PROVE  Min(Unsettled(ps)) \in Unsettled(ps) /\ Min(Unsettled(ps)) \in DOMAIN ps
<1>1. Unsettled(ps) \in SUBSET Nat /\ Unsettled(ps) \subseteq DOMAIN ps
  BY DEF Unsettled
<1> QED BY <1>1, MinMember

\* The row of a case on which a decision was taken, of proposal p.
LEMMA Resolution ==
  ASSUME review \in ReviewType, NEW ps \in Seq(ProposalType),
         NEW p \in 0 .. Len(ps)
  PROVE  /\ ResolveTo(ps, p) \in ReviewType
         /\ ResolveTo(ps, p).current \in 0 .. Len(ps)
         /\ ResolveTo(ps, p).job = review.job
         /\ ResolveTo(ps, p).approval = "none"
         /\ ResolveTo(ps, p).state = "resolved" => Unsettled(ps) = {}
<1>1. p \in Nat /\ Len(ps) \in Nat /\ DOMAIN ps = 1 .. Len(ps)
  BY LenProperties
<1>2. CASE Unsettled(ps) = {}
  BY <1>1, <1>2 DEF ResolveTo, Free, ReviewType
<1>3. CASE Unsettled(ps) # {}
  <2>1. Min(Unsettled(ps)) \in 0 .. Len(ps) /\ Min(Unsettled(ps)) \in Nat
    BY <1>1, <1>3, UnsettledMember
  <2> QED BY <1>3, <2>1 DEF ResolveTo, Free, ReviewType
<1> QED BY <1>2, <1>3

\* What is done to the row alone.
LEMMA FreeRow ==
  ASSUME NEW row \in ReviewType
  PROVE  /\ Free(row) \in ReviewType /\ Free(row).approval = "none"
         /\ Free(row).current = row.current /\ Free(row).job = row.job
         /\ Free(row).state = row.state
         /\ Unwarned(row) \in {row, Free(row)}
BY DEF ReviewType, Free, Unwarned

LEMMA HoldRow ==
  ASSUME NEW row \in ReviewType, NEW r \in Nat, NEW p \in Nat
  PROVE  /\ Hold(row, r, p) \in ReviewType /\ Hold(row, r, p).current = p
         /\ Hold(row, r, p).approval = "pending" /\ Hold(row, r, p).request = r
         /\ Hold(row, r, p).job = row.job /\ Hold(row, r, p).state = row.state
BY DEF ReviewType, Hold

LEMMA WarnRow ==
  ASSUME NEW row \in ReviewType, NEW r \in Nat
  PROVE  /\ Warn(row, r) \in ReviewType
         /\ Warn(row, r).current = row.current /\ Warn(row, r).job = row.job
         /\ Warn(row, r).state = row.state
         /\ row.approval = "pending" /\ row.request # r => Warn(row, r) = row
         /\ ~(row.approval = "pending" /\ row.request # r) =>
              Warn(row, r).approval = "attention" /\ Warn(row, r).request = r
BY DEF ReviewType, Warn

-----------------------------------------------------------------------------
(* Types.                                                                  *)

RowOK(row, n, m) ==
  row \in ReviewType /\ row.current \in 0 .. n /\ row.job \in 0 .. m

\* The types of the sequences, with the lengths they refer to each other by.
LEMMA TypeFacts ==
  ASSUME CaseTypeOK
  PROVE  /\ RowOK(review, Len(proposals), Len(jobs))
         /\ proposals \in Seq(ProposalType) /\ Len(proposals) \in Nat
         /\ DOMAIN proposals = 1 .. Len(proposals)
         /\ jobs \in Seq(JobType) /\ Len(jobs) \in Nat
         /\ DOMAIN jobs = 1 .. Len(jobs)
         /\ journal \in Seq(ItemType) /\ Len(journal) \in Nat
         /\ DOMAIN journal = 1 .. Len(journal)
         /\ Len(asked) \in Nat /\ DOMAIN asked = 1 .. Len(asked)
         /\ \A p \in DOMAIN proposals : proposals[p].assessed \in 0 .. Len(jobs)
         /\ \A i \in DOMAIN journal : journal[i].request \in DOMAIN asked
         /\ \A r \in DOMAIN asked : /\ asked[r] \in RevisionType
                                    /\ asked[r].proposal \in DOMAIN proposals
<1> USE DEF CaseTypeOK
<1>1. RowOK(review, Len(proposals), Len(jobs))
  BY DEF RowOK, ReviewType
<1>2. journal \in Seq([request : DOMAIN asked, attempts : Nat,
                       status : {"active", "succeeded", "attention"}])
  OBVIOUS
<1>3. \A i \in DOMAIN journal :
        journal[i] \in [request : DOMAIN asked, attempts : Nat,
                        status : {"active", "succeeded", "attention"}]
  BY <1>2, Elements
<1>4. DOMAIN asked \subseteq Nat /\ DOMAIN proposals \subseteq Nat
  BY SMTT(30)
<1>5. \A i \in DOMAIN journal :
        journal[i].request \in DOMAIN asked /\ journal[i] \in ItemType
  BY <1>3, <1>4 DEF ItemType
<1>6. journal \in Seq(ItemType)
  BY <1>2, <1>5, Retyped
<1>7. \A r \in DOMAIN asked :
        asked[r] \in [proposal : DOMAIN proposals, version : Nat]
  BY Elements
<1>8. \A r \in DOMAIN asked :
        asked[r] \in RevisionType /\ asked[r].proposal \in DOMAIN proposals
  BY <1>4, <1>7 DEF RevisionType
<1>9. /\ proposals \in Seq(ProposalType) /\ Len(proposals) \in Nat
      /\ DOMAIN proposals = 1 .. Len(proposals)
      /\ jobs \in Seq(JobType) /\ Len(jobs) \in Nat
      /\ DOMAIN jobs = 1 .. Len(jobs)
  BY Elements
<1>10. \A p \in DOMAIN proposals : proposals[p].assessed \in 0 .. Len(jobs)
  BY <1>9
<1>11. Len(journal) \in Nat /\ DOMAIN journal = 1 .. Len(journal)
       /\ Len(asked) \in Nat /\ DOMAIN asked = 1 .. Len(asked)
  BY Elements
<1> QED BY <1>1, <1>5, <1>6, <1>8, <1>9, <1>10, <1>11

\* A step that leaves the requests alone keeps the types, if the case's own
\* variables keep theirs and no proposal or job is lost.
LEMMA CaseStepType ==
  ASSUME CaseTypeOK, missed' \in BOOLEAN,
         proposals' \in Seq(ProposalType), Len(proposals) <= Len(proposals'),
         jobs' \in Seq(JobType),
         RowOK(review', Len(proposals'), Len(jobs')),
         \A p \in DOMAIN proposals' :
           proposals'[p].assessed \in 0 .. Len(jobs'),
         status' \in {"open", "completed", "closed"}, content' \in Nat,
         approvals' = approvals \/ \E a \in [proposal : DOMAIN proposals,
                                            version : Nat] :
                                     approvals' = approvals \cup {a},
         applied' = applied \/ \E a \in [by : {0} \cup DOMAIN asked,
                                        proposal : DOMAIN proposals,
                                        version : Nat] :
                                 applied' = applied \cup {a},
         asked' = asked,
         journal' \in Seq(ItemType),
         \A i \in DOMAIN journal' : journal'[i].request \in DOMAIN asked,
         up' \in BOOLEAN, acts' \in Nat, faults' \in Nat
  PROVE  CaseTypeOK'
<1>1. /\ DOMAIN proposals \subseteq DOMAIN proposals'
      /\ DOMAIN proposals' = 1 .. Len(proposals') /\ Len(proposals') \in Nat
      /\ DOMAIN jobs' = 1 .. Len(jobs') /\ Len(jobs') \in Nat
  BY TypeFacts
<1>2. /\ review' \in ReviewType
      /\ review'.current \in {0} \cup DOMAIN proposals'
      /\ review'.job \in {0} \cup DOMAIN jobs'
  BY <1>1 DEF RowOK
<1>3. approvals' \subseteq [proposal : DOMAIN proposals', version : Nat]
  BY <1>1, SMTT(30) DEF CaseTypeOK
<1>4. applied' \subseteq [by : {0} \cup DOMAIN asked', proposal : DOMAIN proposals',
                         version : Nat]
  BY <1>1 DEF CaseTypeOK
<1>5. asked' \in Seq([proposal : DOMAIN proposals', version : Nat])
  <2>1. asked \in Seq([proposal : DOMAIN proposals, version : Nat])
    BY DEF CaseTypeOK
  <2>2. \A r \in DOMAIN asked :
          asked[r] \in [proposal : DOMAIN proposals', version : Nat]
    <3>1. \A r \in DOMAIN asked :
            asked[r] \in [proposal : DOMAIN proposals, version : Nat]
      BY <2>1, Elements
    <3> QED BY <1>1, <3>1
  <2> QED BY <2>1, <2>2, Retyped
<1>6. journal' \in Seq([request : DOMAIN asked', attempts : Nat,
                       status : {"active", "succeeded", "attention"}])
  <2>1. \A i \in DOMAIN journal' :
          journal'[i] \in [request : DOMAIN asked', attempts : Nat,
                           status : {"active", "succeeded", "attention"}]
    <3>1. \A i \in DOMAIN journal' : journal'[i] \in ItemType
      BY Elements
    <3> QED BY <3>1 DEF ItemType
  <2> QED BY <2>1, Retyped
<1>7. \A p \in DOMAIN proposals' :
        proposals'[p].assessed \in {0} \cup DOMAIN jobs'
  BY <1>1
<1> QED BY <1>2, <1>3, <1>4, <1>5, <1>6, <1>7 DEF CaseTypeOK, ReviewType

\* The same when a request is numbered: it names a proposal that exists.
LEMMA RequestStepType ==
  ASSUME CaseTypeOK, missed' \in BOOLEAN,
         RowOK(review', Len(proposals), Len(jobs)),
         UNCHANGED <<case, given, acts>>,
         NEW a \in [proposal : DOMAIN proposals, version : Nat],
         asked' = Append(asked, a),
         journal' \in Seq(ItemType),
         \A i \in DOMAIN journal' : journal'[i].request \in DOMAIN asked',
         up' \in BOOLEAN, faults' \in Nat
  PROVE  CaseTypeOK'
<1> DEFINE D == [proposal : DOMAIN proposals, version : Nat]
<1>1. asked \in Seq(D)
  BY DEF CaseTypeOK
<1>2. /\ asked' \in Seq(D) /\ Len(asked') = Len(asked) + 1
      /\ DOMAIN asked \subseteq DOMAIN asked'
  <2>1. asked' \in Seq(D) /\ Len(asked') = Len(asked) + 1
    BY <1>1, AppendProperties
  <2> QED BY <1>1, <2>1, LenProperties
<1>3. applied' \subseteq [by : {0} \cup DOMAIN asked', proposal : DOMAIN proposals,
                         version : Nat]
  BY <1>2 DEF CaseTypeOK, given
<1>4. journal' \in Seq([request : DOMAIN asked', attempts : Nat,
                       status : {"active", "succeeded", "attention"}])
  <2>1. \A i \in DOMAIN journal' :
          journal'[i] \in [request : DOMAIN asked', attempts : Nat,
                           status : {"active", "succeeded", "attention"}]
    <3>1. \A i \in DOMAIN journal' : journal'[i] \in ItemType
      BY Elements
    <3> QED BY <3>1 DEF ItemType
  <2> QED BY <2>1, Retyped
<1>5. /\ DOMAIN proposals = 1 .. Len(proposals) /\ Len(proposals) \in Nat
      /\ DOMAIN jobs = 1 .. Len(jobs) /\ Len(jobs) \in Nat
  BY TypeFacts
<1>6. /\ status' = status /\ jobs' = jobs /\ proposals' = proposals
      /\ content' = content /\ approvals' = approvals /\ acts' = acts
  BY DEF case, given
<1>7. /\ review' \in ReviewType
      /\ review'.current \in {0} \cup DOMAIN proposals
      /\ review'.job \in {0} \cup DOMAIN jobs
  BY <1>5 DEF RowOK
<1> QED BY <1>2, <1>3, <1>4, <1>6, <1>7 DEF CaseTypeOK, ReviewType

\* A proposal that is edited is one still; so with a job and an item.
LEMMA ProposalPut ==
  ASSUME CaseTypeOK, NEW p \in DOMAIN proposals, NEW e \in ProposalType,
         e.assessed = proposals[p].assessed
  PROVE  LET ps == [proposals EXCEPT ![p] = e]
         IN  /\ ps \in Seq(ProposalType) /\ Len(ps) = Len(proposals)
             /\ DOMAIN ps = DOMAIN proposals /\ ps[p] = e
             /\ \A q \in DOMAIN proposals : q # p => ps[q] = proposals[q]
             /\ \A q \in DOMAIN ps : ps[q].assessed \in 0 .. Len(jobs)
<1> DEFINE ps == [proposals EXCEPT ![p] = e]
<1>1. /\ proposals \in Seq(ProposalType) /\ p \in 1 .. Len(proposals)
      /\ DOMAIN proposals = 1 .. Len(proposals)
      /\ \A q \in DOMAIN proposals : proposals[q].assessed \in 0 .. Len(jobs)
  BY TypeFacts
<1>2. ps \in Seq(ProposalType) /\ Len(ps) = Len(proposals)
  BY <1>1, ExceptSeq
<1>3. DOMAIN ps = DOMAIN proposals /\ ps[p] = e
      /\ \A q \in DOMAIN proposals : q # p => ps[q] = proposals[q]
  BY <1>1
<1> QED BY <1>1, <1>2, <1>3

Marked(p, st) == [proposals EXCEPT ![p].status = st]

LEMMA ProposalStatus ==
  ASSUME CaseTypeOK, NEW p \in DOMAIN proposals,
         NEW st \in {"awaiting", "approved", "applied", "closed"}
  PROVE  LET ps == Marked(p, st)
         IN  /\ ps \in Seq(ProposalType) /\ Len(ps) = Len(proposals)
             /\ DOMAIN ps = DOMAIN proposals
             /\ \A q \in DOMAIN proposals : q # p => ps[q] = proposals[q]
             /\ ps[p].status = st /\ ps[p].version = proposals[p].version
             /\ \A q \in DOMAIN ps : ps[q].assessed \in 0 .. Len(jobs)
<1> DEFINE e == [proposals[p] EXCEPT !.status = st]
<1>1. proposals[p] \in ProposalType
  BY TypeFacts, Elements
<1>2. /\ e \in ProposalType /\ e.status = st
      /\ e.version = proposals[p].version
      /\ e.assessed = proposals[p].assessed
  BY <1>1 DEF ProposalType
<1>3. Marked(p, st) = [proposals EXCEPT ![p] = e]
  BY DEF Marked
<1> HIDE DEF e
<1> QED BY <1>2, <1>3, ProposalPut

LEMMA ProposalSaved ==
  ASSUME CaseTypeOK, NEW p \in DOMAIN proposals
  PROVE  LET ps == [proposals EXCEPT ![p].version = @ + 1,
                                     ![p].status = "awaiting",
                                     ![p].base = content]
         IN  /\ ps \in Seq(ProposalType) /\ Len(ps) = Len(proposals)
             /\ DOMAIN ps = DOMAIN proposals
             /\ \A q \in DOMAIN proposals : q # p => ps[q] = proposals[q]
             /\ ps[p].status = "awaiting"
             /\ \A q \in DOMAIN ps : ps[q].assessed \in 0 .. Len(jobs)
<1> DEFINE r == proposals[p]
           e1 == [r EXCEPT !.version = @ + 1]
           e2 == [e1 EXCEPT !.status = "awaiting"]
           e == [e2 EXCEPT !.base = content]
<1>1. r \in ProposalType /\ content \in Nat
  BY TypeFacts, Elements DEF CaseTypeOK
<1>2. e1 \in ProposalType /\ e1.assessed = r.assessed
  <2>1. r.version \in Nat
    BY <1>1 DEF ProposalType
  <2>2. PICK n \in Nat : r.version + 1 = n
    BY <2>1
  <2> QED BY <1>1, <2>2 DEF ProposalType
<1>3. e2 \in ProposalType /\ e2.status = "awaiting"
      /\ e2.assessed = r.assessed
  BY <1>2 DEF ProposalType
<1>4. e \in ProposalType /\ e.status = "awaiting" /\ e.assessed = r.assessed
  BY <1>1, <1>3 DEF ProposalType
<1>5. [proposals EXCEPT ![p].version = @ + 1, ![p].status = "awaiting",
                        ![p].base = content] = [proposals EXCEPT ![p] = e]
  <2>1. [r EXCEPT !.version = @ + 1, !.status = "awaiting",
                  !.base = content] = e
    BY <1>1, Zenon DEF ProposalType
  <2>2. [proposals EXCEPT ![p].version = @ + 1, ![p].status = "awaiting",
                          ![p].base = content]
          = [proposals EXCEPT ![p] = [r EXCEPT !.version = @ + 1,
                                !.status = "awaiting", !.base = content]]
    OBVIOUS
  <2> QED BY <2>1, <2>2
<1> HIDE DEF e
<1> QED BY <1>4, <1>5, ProposalPut, SMTT(30)

JobMarked(j, st) == [jobs EXCEPT ![j].status = st]
JobJudged(j, st, outcome) ==
  [jobs EXCEPT ![j].status = st, ![j].outcome = outcome]

LEMMA JobEdits ==
  ASSUME CaseTypeOK, NEW j \in DOMAIN jobs,
         NEW st \in {"active", "succeeded", "failed"},
         NEW outcome \in {"none", "proposal", "nothing", "attention"},
         NEW js \in {JobMarked(j, st), JobJudged(j, st, outcome)}
  PROVE  /\ js \in Seq(JobType) /\ Len(js) = Len(jobs)
         /\ DOMAIN js = DOMAIN jobs
         /\ \A i \in DOMAIN jobs : i # j => js[i] = jobs[i]
         /\ js[j].status = st /\ js[j].kind = jobs[j].kind
<1>1. jobs \in Seq(JobType) /\ j \in 1 .. Len(jobs) /\ jobs[j] \in JobType
  BY TypeFacts, Elements
<1>2. PICK e \in JobType : /\ js = [jobs EXCEPT ![j] = e]
                           /\ e.status = st /\ e.kind = jobs[j].kind
  <2>1. CASE js = JobMarked(j, st)
    <3>1. [jobs[j] EXCEPT !.status = st] \in JobType
      BY <1>1 DEF JobType
    <3> QED BY <2>1, <3>1, <1>1 DEF JobType, JobMarked
  <2>2. CASE js = JobJudged(j, st, outcome)
    <3> DEFINE e == [jobs[j] EXCEPT !.status = st, !.outcome = outcome]
    <3>1. e \in JobType /\ e.status = st /\ e.kind = jobs[j].kind
      BY <1>1 DEF JobType
    <3>2. js = [jobs EXCEPT ![j] = e]
      BY <2>2, <1>1 DEF JobJudged
    <3> QED BY <3>1, <3>2
  <2> QED BY <2>1, <2>2
<1>3. js \in Seq(JobType) /\ Len(js) = Len(jobs)
  BY <1>1, <1>2, ExceptSeq
<1> QED BY <1>1, <1>2, <1>3, LenProperties

\* An attempt at a request counts, and is recorded as it ended.
LEMMA Attempt ==
  ASSUME CaseTypeOK, NEW i \in DOMAIN journal,
         NEW st \in {"active", "succeeded", "attention"},
         NEW js, \/ js = Started(i) /\ st = journal[i].status
                 \/ js = Ended(i, st)
  PROVE  /\ js \in Seq(ItemType) /\ DOMAIN js = DOMAIN journal
         /\ \A k \in DOMAIN journal : k # i => js[k] = journal[k]
         /\ js[i].request = journal[i].request /\ js[i].status = st
         /\ js[i].attempts = journal[i].attempts + 1
<1> DEFINE item == journal[i]
           started == [item EXCEPT !.attempts = @ + 1]
           ended == [started EXCEPT !.status = st]
<1>1. /\ journal \in Seq(ItemType) /\ i \in 1 .. Len(journal)
      /\ DOMAIN journal = 1 .. Len(journal) /\ item \in ItemType
  BY TypeFacts, Elements
<1>2. /\ started \in ItemType /\ started.request = item.request
      /\ started.status = item.status /\ started.attempts = item.attempts + 1
  <2>1. item.attempts \in Nat
    BY <1>1 DEF ItemType
  <2>2. PICK n \in Nat : item.attempts + 1 = n
    BY <2>1
  <2> QED BY <1>1, <2>2 DEF ItemType
<1>3. /\ ended \in ItemType /\ ended.request = item.request
      /\ ended.status = st /\ ended.attempts = item.attempts + 1
  BY <1>2 DEF ItemType
<1>4. Started(i) = [journal EXCEPT ![i] = started]
  BY <1>1 DEF Started
<1> HIDE DEF started
<1>5. /\ Started(i) \in Seq(ItemType) /\ Len(Started(i)) = Len(journal)
      /\ DOMAIN Started(i) = 1 .. Len(journal) /\ Started(i)[i] = started
      /\ \A k \in DOMAIN journal : k # i => Started(i)[k] = journal[k]
  <2>1. Started(i) \in Seq(ItemType) /\ Len(Started(i)) = Len(journal)
    BY <1>1, <1>2, <1>4, ExceptSeq
  <2> QED BY <1>1, <1>4, <2>1, LenProperties
<1>6. Ended(i, st) = [Started(i) EXCEPT ![i] = ended]
  BY <1>1, <1>5 DEF Ended
<1> HIDE DEF ended
<1>7. /\ Ended(i, st) \in Seq(ItemType) /\ Len(Ended(i, st)) = Len(journal)
      /\ DOMAIN Ended(i, st) = 1 .. Len(journal) /\ Ended(i, st)[i] = ended
      /\ \A k \in DOMAIN journal : k # i => Ended(i, st)[k] = journal[k]
  <2>1. Ended(i, st) \in Seq(ItemType) /\ Len(Ended(i, st)) = Len(journal)
    BY <1>1, <1>3, <1>5, <1>6, ExceptSeq
  <2> QED BY <1>1, <1>5, <1>6, <2>1, LenProperties
<1>8. CASE js = Started(i) /\ st = journal[i].status
  BY <1>1, <1>2, <1>5, <1>8
<1>9. CASE js = Ended(i, st)
  BY <1>1, <1>3, <1>7, <1>9
<1> QED BY <1>8, <1>9

\* A request recorded anew, at the end of the journal or in its place.
LEMMA Recorded ==
  ASSUME CaseTypeOK, NEW r \in Nat
  PROVE  /\ Item(r, "active", 0) \in ItemType
         /\ Item(r, "active", 0).request = r
         /\ Item(r, "active", 0).status = "active"
         /\ LET js == Append(journal, Item(r, "active", 0))
            IN  /\ js \in Seq(ItemType)
                /\ DOMAIN js = DOMAIN journal \cup {Len(journal) + 1}
                /\ \A k \in DOMAIN journal : js[k] = journal[k]
                /\ js[Len(journal) + 1] = Item(r, "active", 0)
         /\ \A i \in DOMAIN journal :
              LET js == [journal EXCEPT ![i] = Item(r, "active", 0)]
              IN  /\ js \in Seq(ItemType) /\ DOMAIN js = DOMAIN journal
                  /\ \A k \in DOMAIN journal : k # i => js[k] = journal[k]
                  /\ js[i] = Item(r, "active", 0)
<1> DEFINE e == Item(r, "active", 0)
<1>1. e \in ItemType /\ e.request = r /\ e.status = "active"
  BY DEF Item, ItemType
<1>2. /\ journal \in Seq(ItemType) /\ Len(journal) \in Nat
      /\ DOMAIN journal = 1 .. Len(journal)
  BY TypeFacts
<1> HIDE DEF e
<1>3. LET js == Append(journal, e)
      IN  /\ js \in Seq(ItemType)
          /\ DOMAIN js = DOMAIN journal \cup {Len(journal) + 1}
          /\ \A k \in DOMAIN journal : js[k] = journal[k]
          /\ js[Len(journal) + 1] = e
  <2> DEFINE js == Append(journal, e)
  <2>1. /\ js \in Seq(ItemType) /\ Len(js) = Len(journal) + 1
        /\ \A k \in 1 .. Len(journal) : js[k] = journal[k]
        /\ js[Len(journal) + 1] = e
    BY <1>1, <1>2, AppendProperties
  <2>2. DOMAIN js = 1 .. Len(journal) + 1
    BY <2>1, LenProperties
  <2> QED BY <1>2, <2>1, <2>2
<1>4. ASSUME NEW i \in DOMAIN journal
      PROVE LET js == [journal EXCEPT ![i] = e]
            IN  /\ js \in Seq(ItemType) /\ DOMAIN js = DOMAIN journal
                /\ \A k \in DOMAIN journal : k # i => js[k] = journal[k]
                /\ js[i] = e
  <2>1. [journal EXCEPT ![i] = e] \in Seq(ItemType)
    BY <1>1, <1>2, ExceptSeq
  <2> QED BY <1>2, <2>1
<1> QED BY <1>1, <1>3, <1>4 DEF e

\* What a compaction keeps.
LEMMA Compacted ==
  ASSUME CaseTypeOK, Compact
  PROVE  /\ journal' \in Seq(ItemType)
         /\ \A k \in DOMAIN journal' : \E i \in Kept : journal'[k] = journal[i]
         /\ \A i \in Kept : \E k \in DOMAIN journal' : journal'[k] = journal[i]
         /\ \E at \in [DOMAIN journal' -> Kept] :
              /\ \A k \in DOMAIN journal' : journal'[k] = journal[at[k]]
              /\ \A k, l \in DOMAIN journal' : k # l => at[k] # at[l]
<1>1. /\ journal \in Seq(ItemType) /\ Len(journal) \in Nat
      /\ DOMAIN journal = 1 .. Len(journal)
      /\ \A i \in DOMAIN journal : journal[i] \in ItemType
  BY TypeFacts, Elements
<1>2. Kept \subseteq 1 .. Len(journal)
  BY <1>1 DEF Kept
<1>3. Cardinality(Kept) \in Nat
  <2>1. IsFiniteSet(1 .. Len(journal))
    BY <1>1, FS_Interval
  <2>2. IsFiniteSet(Kept)
    BY <1>2, <2>1, FS_Subset
  <2> QED BY <2>2, FS_CardinalityType
<1> DEFINE n == Cardinality(Kept)
<1>4. PICK at \in [1 .. n -> Kept] :
        /\ \A k, l \in DOMAIN at : k < l => at[k] < at[l]
        /\ \A i \in Kept : \E k \in DOMAIN at : at[k] = i
        /\ journal' = [k \in DOMAIN at |-> journal[at[k]]]
  BY DEF Compact
<1> HIDE DEF n
<1>5. journal' \in [1 .. n -> ItemType] /\ DOMAIN journal' = 1 .. n
  BY <1>1, <1>2, <1>4
<1>6. journal' \in Seq(ItemType)
  BY <1>3, <1>5, FunctionSeq DEF n
<1>7. \A k \in DOMAIN journal' : at[k] \in Kept /\ journal'[k] = journal[at[k]]
  BY <1>4, <1>5
<1>8. \A i \in Kept : \E k \in DOMAIN journal' : journal'[k] = journal[i]
  BY <1>4, <1>5, <1>7
<1>9. \A k, l \in DOMAIN journal' : k # l => at[k] # at[l]
  <2>1. SUFFICES ASSUME NEW k \in 1 .. n, NEW l \in 1 .. n, k # l
                 PROVE at[k] # at[l]
    BY <1>5
  <2>2. k \in Int /\ l \in Int /\ at[k] \in Int /\ at[l] \in Int
    <3>1. n \in Nat
      BY <1>3 DEF n
    <3>2. at[k] \in 1 .. Len(journal) /\ at[l] \in 1 .. Len(journal)
      BY <1>2, <1>4
    <3> QED BY <1>1, <3>1, <3>2
  <2>3. k < l \/ l < k
    BY <2>1, <2>2
  <2> QED BY <1>4, <2>2, <2>3
<1> QED BY <1>4, <1>5, <1>6, <1>7, <1>8, <1>9, ZenonT(40)

\* An intention is recorded in the row and the journal, in neither, or in the
\* row alone.
LEMMA IntendCases ==
  ASSUME CaseTypeOK, NEW r \in Nat, NEW a \in RevisionType, NEW items,
         items \in Seq(ItemType), Intend(r, a, items)
  PROVE  LET held == Hold(review, r, a.proposal)
         IN  /\ faults' \in Nat /\ up' \in BOOLEAN /\ (up' => up)
             /\ journal' \in Seq(ItemType)
             /\ \/ review' = held /\ journal' = items
                \/ review' = Free(held) /\ journal' = journal /\ up' = up
                \/ review' = held /\ journal' = journal /\ up' = FALSE
<1>1. review \in ReviewType /\ a.proposal \in Nat /\ faults \in Nat
      /\ up \in BOOLEAN /\ journal \in Seq(ItemType)
  BY TypeFacts DEF RowOK, RevisionType, CaseTypeOK
<1> DEFINE p == a.proposal
           held == Hold(review, r, a.proposal)
<1>2. held.request = r /\ Release(held, r) = Free(held)
  <2>1. held.request = r
    <3>1. p \in Nat
      BY <1>1
    <3> HIDE DEF p
    <3>2. Hold(review, r, p).request = r
      BY <1>1, <3>1, HoldRow
    <3> QED BY <3>2 DEF p
  <2> QED BY <2>1 DEF Release
<1>3. CASE review' = held /\ journal' = items /\ UNCHANGED <<up, faults>>
  BY <1>1, <1>3
<1>4. CASE review' = Release(held, r) /\ Faulty /\ UNCHANGED <<journal, up>>
  BY <1>1, <1>2, <1>4 DEF Faulty
<1>5. CASE review' = held /\ up' = FALSE /\ Faulty /\ UNCHANGED journal
  <2>1. faults' \in Nat /\ journal' \in Seq(ItemType)
    BY <1>1, <1>5 DEF Faulty
  <2>2. up' \in BOOLEAN /\ (up' => up)
    BY <1>5
  <2> QED BY <1>5, <2>1, <2>2
<1> QED BY <1>3, <1>4, <1>5 DEF Intend

\* The row an intention leaves.
LEMMA IntendedRow ==
  ASSUME CaseTypeOK, NEW r \in Nat, NEW p \in DOMAIN proposals
  PROVE  /\ RowOK(Hold(review, r, p), Len(proposals), Len(jobs))
         /\ RowOK(Free(Hold(review, r, p)), Len(proposals), Len(jobs))
         /\ Free(Hold(review, r, p)).approval = "none"
         /\ Free(Hold(review, r, p)).state = review.state
<1>1. review \in ReviewType /\ p \in Nat /\ p \in 0 .. Len(proposals)
      /\ review.job \in 0 .. Len(jobs)
  BY TypeFacts DEF RowOK
<1>2. Hold(review, r, p) \in ReviewType /\ Hold(review, r, p).current = p
      /\ Hold(review, r, p).job = review.job
      /\ Hold(review, r, p).state = review.state
  BY <1>1 DEF Hold, ReviewType
<1> HIDE DEF RowOK
<1>3. \A row \in ReviewType :
        /\ Free(row) \in ReviewType /\ Free(row).approval = "none"
        /\ Free(row).current = row.current /\ Free(row).job = row.job
        /\ Free(row).state = row.state
  BY FreeRow
<1> QED BY <1>1, <1>2, <1>3 DEF RowOK

\* An application writes one proposal and what it produced.
LEMMA WriteType ==
  ASSUME CaseTypeOK, NEW p \in DOMAIN proposals,
         NEW by \in {0} \cup DOMAIN asked, Write(by, p)
  PROVE  /\ proposals' \in Seq(ProposalType)
         /\ Len(proposals') = Len(proposals)
         /\ DOMAIN proposals' = DOMAIN proposals
         /\ \A q \in DOMAIN proposals : q # p => proposals'[q] = proposals[q]
         /\ proposals'[p].status = "applied"
         /\ proposals'[p].version = proposals[p].version
         /\ \A q \in DOMAIN proposals' :
              proposals'[q].assessed \in 0 .. Len(jobs)
         /\ content' \in Nat
         /\ [by |-> by, proposal |-> p, version |-> proposals[p].version] \in
              [by : {0} \cup DOMAIN asked, proposal : DOMAIN proposals,
               version : Nat]
         /\ applied' = applied \cup
              {[by |-> by, proposal |-> p, version |-> proposals[p].version]}
<1>1. /\ proposals' = Marked(p, "applied")
      /\ content' \in {content, content + 1} /\ content \in Nat
      /\ applied' = applied \cup {[by |-> by, proposal |-> p,
                                   version |-> proposals[p].version]}
  BY DEF Write, CaseTypeOK, Marked
<1>2. proposals[p] \in ProposalType
  BY TypeFacts, Elements
<1>3. proposals[p].version \in Nat
  BY <1>2 DEF ProposalType
<1>4. /\ proposals' \in Seq(ProposalType) /\ Len(proposals') = Len(proposals)
      /\ DOMAIN proposals' = DOMAIN proposals
      /\ \A q \in DOMAIN proposals : q # p => proposals'[q] = proposals[q]
      /\ proposals'[p].status = "applied"
      /\ proposals'[p].version = proposals[p].version
      /\ \A q \in DOMAIN proposals' : proposals'[q].assessed \in 0 .. Len(jobs)
  BY <1>1, ProposalStatus
<1> QED BY <1>1, <1>3, <1>4

\* Completing a request writes the proposal it names, or nothing.
LEMMA CompleteCases ==
  ASSUME CaseTypeOK, NEW r \in DOMAIN asked, Complete(r)
  PROVE  /\ proposals' \in Seq(ProposalType)
         /\ Len(proposals') = Len(proposals)
         /\ \A p \in DOMAIN proposals' :
              proposals'[p].assessed \in 0 .. Len(jobs)
         /\ content' \in Nat
         /\ approvals' = approvals \/ approvals' = approvals \cup {asked[r]}
         /\ applied' = applied \/ \E a \in [by : {0} \cup DOMAIN asked,
                                           proposal : DOMAIN proposals,
                                           version : Nat] :
                                    applied' = applied \cup {a}
         /\ RowOK(Completed(r), Len(proposals'), Len(jobs))
         /\ \/ /\ Answered(r) /\ UNCHANGED <<proposals, content, given>>
               /\ Completed(r) \in {review, Free(review)}
            \/ /\ ~Answered(r) /\ Approvable(r) /\ Write(r, asked[r].proposal)
               /\ approvals' = approvals \cup {asked[r]}
               /\ Completed(r) = ResolveTo(proposals', asked[r].proposal)
<1>1. CASE Answered(r) /\ UNCHANGED <<proposals, content, given>>
  <2>1. Completed(r) = Release(review, r)
    BY <1>1 DEF Completed
  <2>2. review \in ReviewType /\ r \in Nat
    BY TypeFacts DEF RowOK
  <2>3. Completed(r) \in {review, Free(review)}
    BY <2>1 DEF Release
  <2>4. RowOK(Completed(r), Len(proposals), Len(jobs))
    <3>1. Free(review) \in ReviewType /\ Free(review).current = review.current
          /\ Free(review).job = review.job
      BY <2>2, FreeRow
    <3>2. RowOK(review, Len(proposals), Len(jobs))
      BY TypeFacts
    <3> QED BY <2>3, <3>1, <3>2 DEF RowOK
  <2> QED BY <1>1, <2>3, <2>4, TypeFacts DEF given, CaseTypeOK
<1>2. CASE /\ ~Answered(r) /\ Approvable(r) /\ Write(r, asked[r].proposal)
           /\ approvals' = approvals \cup {asked[r]}
  <2> DEFINE p == asked[r].proposal
  <2>1. p \in DOMAIN proposals /\ p \in 0 .. Len(proposals)
        /\ review \in ReviewType /\ review.job \in 0 .. Len(jobs)
    BY TypeFacts DEF RowOK
  <2> HIDE DEF p
  <2>2. /\ proposals' \in Seq(ProposalType)
        /\ Len(proposals') = Len(proposals)
        /\ DOMAIN proposals' = DOMAIN proposals
        /\ \A q \in DOMAIN proposals' :
             proposals'[q].assessed \in 0 .. Len(jobs)
        /\ content' \in Nat
        /\ \E a \in [by : {0} \cup DOMAIN asked, proposal : DOMAIN proposals,
                     version : Nat] : applied' = applied \cup {a}
    <3>1. Write(r, p)
      BY <1>2 DEF p
    <3> QED BY <2>1, <3>1, WriteType
  <2>3. Completed(r) = ResolveTo(proposals', p)
    BY <1>2 DEF Completed, p
  <2>4. RowOK(Completed(r), Len(proposals'), Len(jobs))
    BY <2>1, <2>2, <2>3, Resolution DEF RowOK
  <2> QED BY <1>2, <2>2, <2>3, <2>4 DEF p
<1> QED BY <1>1, <1>2 DEF Complete

\* What a start shows again leaves the row as it was, but for the attention.
LEMMA RemindedRow ==
  ASSUME CaseTypeOK, NEW row \in ReviewType
  PROVE  /\ Reminded(row) \in ReviewType
         /\ Reminded(row).current = row.current
         /\ Reminded(row).job = row.job /\ Reminded(row).state = row.state
         /\ row.approval = "pending" => Reminded(row) = row
         /\ row.approval # "pending" => Reminded(row).approval # "pending"
         /\ \/ Reminded(row) = row
            \/ \E i \in DOMAIN journal : /\ journal[i].status = "attention"
                                        /\ Reminded(row).request =
                                             journal[i].request
<1> DEFINE due == {i \in DOMAIN journal : Reminds(row, i)}
<1>1. CASE due = {}
  BY <1>1 DEF Reminded
<1>2. CASE due # {}
  <2>1. due \in SUBSET (1 .. Len(journal)) /\ Len(journal) \in Nat
    BY TypeFacts
  <2>2. Max(due) \in due
    <3> HIDE DEF due
    <3> QED BY <1>2, <2>1, MaxMember
  <2>3. Max(due) \in DOMAIN journal /\ Reminds(row, Max(due))
    BY <2>2
  <2>4. PICK r \in Nat : r = journal[Max(due)].request
    <3>1. \A i \in DOMAIN journal : journal[i].request \in Nat
      BY TypeFacts
    <3> QED BY <2>3, <3>1
  <2>5. row.approval # "pending" /\ Reminded(row) = Warn(row, r)
    BY <1>2, <2>3, <2>4 DEF Reminds, Reminded
  <2>6. Reminded(row).request = journal[Max(due)].request
    BY <2>4, <2>5, WarnRow
  <2>7. journal[Max(due)].status = "attention"
    BY <2>3 DEF Reminds
  <2> HIDE DEF due
  <2> QED BY <2>3, <2>4, <2>5, <2>6, <2>7, WarnRow
<1> QED BY <1>1, <1>2

\* The row at a start.
LEMMA StartRow ==
  ASSUME CaseTypeOK
  PROVE  /\ RowOK(Unclaimed, Len(proposals), Len(jobs))
         /\ Unclaimed \in {review, Free(review)}
         /\ Active # {} => Min(Active) \in Active
         /\ Active \subseteq DOMAIN journal
         /\ \A i \in DOMAIN journal :
              /\ RowOK(Reclaimed(Unclaimed, i), Len(proposals), Len(jobs))
              /\ Reclaimed(Unclaimed, i).state = review.state
<1>1. RowOK(review, Len(proposals), Len(jobs)) /\ review \in ReviewType
  BY TypeFacts DEF RowOK
<1>2. Unclaimed \in {review, Free(review)}
  BY DEF Unclaimed
<1>3. /\ RowOK(Unclaimed, Len(proposals), Len(jobs))
      /\ Unclaimed \in ReviewType /\ Unclaimed.state = review.state
      /\ Unclaimed.job = review.job
  BY <1>1, <1>2, FreeRow DEF RowOK
<1>4. Active \in SUBSET Nat /\ Active \subseteq DOMAIN journal
  BY TypeFacts DEF Active
<1>5. Active # {} => Min(Active) \in Active
  BY <1>4, MinMember
<1>6. ASSUME NEW i \in DOMAIN journal
      PROVE  /\ RowOK(Reclaimed(Unclaimed, i), Len(proposals), Len(jobs))
             /\ Reclaimed(Unclaimed, i).state = review.state
  <2>1. PICK r \in DOMAIN asked : r = journal[i].request
    BY TypeFacts
  <2>2. PICK p \in DOMAIN proposals : p = asked[r].proposal
    BY TypeFacts
  <2>3. r \in Nat /\ p \in Nat /\ p \in 0 .. Len(proposals)
    BY TypeFacts
  <2>4. /\ Hold(Unclaimed, r, p) \in ReviewType
        /\ Hold(Unclaimed, r, p).current = p
        /\ Hold(Unclaimed, r, p).job = Unclaimed.job
        /\ Hold(Unclaimed, r, p).state = Unclaimed.state
    BY <1>3, <2>3 DEF Hold, ReviewType
  <2>5. Reclaimed(Unclaimed, i) \in {Unclaimed, Hold(Unclaimed, r, p)}
    BY <2>1, <2>2 DEF Reclaimed
  <2>6. Unclaimed.job \in 0 .. Len(jobs)
    BY <1>3 DEF RowOK
  <2>7. RowOK(Hold(Unclaimed, r, p), Len(proposals), Len(jobs))
    BY <2>3, <2>4, <2>6 DEF RowOK
  <2> QED BY <1>3, <2>4, <2>5, <2>7
<1> QED BY <1>2, <1>3, <1>4, <1>5, <1>6

\* A row that is claimed for an active request is held.
LEMMA ReclaimedRow ==
  ASSUME CaseTypeOK, NEW i \in Active
  PROVE  LET row == Reclaimed(Unclaimed, i)
         IN  row \in ReviewType /\ row.approval = "pending"
<1>1. Unclaimed \in ReviewType
  BY StartRow DEF RowOK
<1>2. journal[i].request \in Nat /\ asked[journal[i].request].proposal \in Nat
  BY TypeFacts DEF Active
<1> QED BY <1>1, <1>2, HoldRow DEF Reclaimed

\* Steps of the operator or of a job: nothing of the requests changes.
LEMMA ActStepType ==
  ASSUME CaseTypeOK, missed' \in BOOLEAN, UNCHANGED server, acts' \in Nat,
         proposals' \in Seq(ProposalType), Len(proposals) <= Len(proposals'),
         jobs' \in Seq(JobType),
         RowOK(review', Len(proposals'), Len(jobs')),
         \A p \in DOMAIN proposals' :
           proposals'[p].assessed \in 0 .. Len(jobs'),
         status' \in {"open", "completed", "closed"}, content' \in Nat
  PROVE  CaseTypeOK'
<1>1. /\ approvals' = approvals /\ applied' = applied /\ asked' = asked
      /\ journal' = journal /\ up' = up /\ faults' = faults
  BY DEF server, given
<1>2. journal' \in Seq(ItemType)
      /\ \A i \in DOMAIN journal' : journal'[i].request \in DOMAIN asked
  BY <1>1, TypeFacts
<1>3. up' \in BOOLEAN /\ faults' \in Nat
  BY <1>1 DEF CaseTypeOK
<1> QED BY <1>1, <1>2, <1>3, CaseStepType

\* Steps on the requests: nothing of the case but its row changes.
LEMMA JournalStepType ==
  ASSUME CaseTypeOK, missed' \in BOOLEAN, UNCHANGED <<case, given, asked>>, acts' \in Nat,
         RowOK(review', Len(proposals), Len(jobs)),
         journal' \in Seq(ItemType),
         \A i \in DOMAIN journal' : journal'[i].request \in DOMAIN asked,
         up' \in BOOLEAN, faults' \in Nat
  PROVE  CaseTypeOK'
<1>1. /\ approvals' = approvals /\ applied' = applied /\ asked' = asked
      /\ proposals' = proposals /\ jobs' = jobs /\ status' = status
      /\ content' = content
  BY DEF case, given
<1>2. /\ proposals' \in Seq(ProposalType) /\ Len(proposals) <= Len(proposals')
      /\ jobs' \in Seq(JobType)
      /\ RowOK(review', Len(proposals'), Len(jobs'))
      /\ \A p \in DOMAIN proposals' :
           proposals'[p].assessed \in 0 .. Len(jobs')
      /\ status' \in {"open", "completed", "closed"} /\ content' \in Nat
  BY <1>1, TypeFacts DEF CaseTypeOK
<1> QED BY <1>1, <1>2, CaseStepType

\* A job that is queued.
LEMMA Queued ==
  ASSUME CaseTypeOK, NEW kind \in {"assess", "reassess", "opinion"},
         NEW source \in Nat, NEW pinned \in Nat, NEW about \in RevisionType,
         QueueJob(NewJob(kind, source, pinned, about))
  PROVE  /\ jobs' \in Seq(JobType) /\ Len(jobs') = Len(jobs) + 1
         /\ DOMAIN jobs' = DOMAIN jobs \cup {Len(jobs) + 1}
         /\ \A j \in DOMAIN jobs : jobs'[j] = jobs[j]
         /\ jobs'[Len(jobs) + 1] = NewJob(kind, source, pinned, about)
         /\ \A p \in DOMAIN proposals :
              proposals[p].assessed \in 0 .. Len(jobs')
<1> DEFINE e == NewJob(kind, source, pinned, about)
<1>1. e \in JobType
  BY DEF NewJob, JobType, RevisionType
<1>2. jobs' = Append(jobs, e)
  BY DEF QueueJob
<1> HIDE DEF e
<1>3. jobs \in Seq(JobType) /\ Len(jobs) \in Nat /\ DOMAIN jobs = 1 .. Len(jobs)
  BY TypeFacts
<1>4. /\ jobs' \in Seq(JobType) /\ Len(jobs') = Len(jobs) + 1
      /\ \A j \in 1 .. Len(jobs) : jobs'[j] = jobs[j]
      /\ jobs'[Len(jobs) + 1] = e
  BY <1>1, <1>2, <1>3, AppendProperties
<1>5. DOMAIN jobs' = 1 .. Len(jobs) + 1
  BY <1>3, <1>4, LenProperties
<1>6. \A p \in DOMAIN proposals : proposals[p].assessed \in 0 .. Len(jobs')
  BY <1>3, <1>4, TypeFacts
<1> QED BY <1>3, <1>4, <1>5, <1>6 DEF e

\* A proposal that is made, beside those there are.
LEMMA Made ==
  ASSUME CaseTypeOK, NEW j \in 0 .. Len(jobs), NEW ps \in Seq(ProposalType),
         \A p \in DOMAIN ps : ps[p].assessed \in 0 .. Len(jobs)
  PROVE  LET qs == Append(ps, NewProposal(j))
         IN  /\ qs \in Seq(ProposalType) /\ Len(qs) = Len(ps) + 1
             /\ DOMAIN qs = DOMAIN ps \cup {Len(ps) + 1}
             /\ \A p \in DOMAIN ps : qs[p] = ps[p]
             /\ qs[Len(ps) + 1].status = "awaiting"
             /\ \A p \in DOMAIN qs : qs[p].assessed \in 0 .. Len(jobs)
<1> DEFINE e == NewProposal(j)
           qs == Append(ps, e)
<1>1. content \in Nat /\ j \in Nat
  BY TypeFacts DEF CaseTypeOK
<1>2. e \in ProposalType /\ e.status = "awaiting" /\ e.assessed = j
  BY <1>1 DEF NewProposal, ProposalType
<1> HIDE DEF e
<1>3. Len(ps) \in Nat /\ DOMAIN ps = 1 .. Len(ps)
  BY LenProperties
<1>4. /\ qs \in Seq(ProposalType) /\ Len(qs) = Len(ps) + 1
      /\ \A p \in 1 .. Len(ps) : qs[p] = ps[p]
      /\ qs[Len(ps) + 1] = e
  BY <1>2, AppendProperties
<1>5. DOMAIN qs = 1 .. Len(ps) + 1
  BY <1>3, <1>4, LenProperties
<1>6. \A p \in DOMAIN qs : qs[p].assessed \in 0 .. Len(jobs)
  BY <1>2, <1>3, <1>4, <1>5
<1> QED BY <1>2, <1>3, <1>4, <1>5, <1>6 DEF e

\* Closing a case closes what was undecided of it.
LEMMA ClosedCase ==
  ASSUME CaseTypeOK, CloseCase
  PROVE  /\ proposals' \in Seq(ProposalType)
         /\ Len(proposals') = Len(proposals)
         /\ DOMAIN proposals' = DOMAIN proposals
         /\ \A p \in DOMAIN proposals :
              \/ p \in Unsettled(proposals) /\ proposals'[p].status = "closed"
              \/ p \notin Unsettled(proposals) /\ proposals'[p] = proposals[p]
         /\ \A p \in DOMAIN proposals' :
              proposals'[p].assessed \in 0 .. Len(jobs)
         /\ \E p \in 0 .. Len(proposals') : review' = ResolveTo(proposals', p)
<1>1. /\ proposals \in Seq(ProposalType) /\ Len(proposals) \in Nat
      /\ DOMAIN proposals = 1 .. Len(proposals)
      /\ review.current \in 0 .. Len(proposals)
      /\ \A p \in DOMAIN proposals :
           /\ proposals[p] \in ProposalType
           /\ proposals[p].assessed \in 0 .. Len(jobs)
  BY TypeFacts, Elements DEF RowOK
<1>2. proposals' = [p \in DOMAIN proposals |->
                      IF p \in Unsettled(proposals)
                      THEN [proposals[p] EXCEPT !.status = "closed"]
                      ELSE proposals[p]]
  BY DEF CloseCase
<1>3. \A p \in DOMAIN proposals :
        LET e == [proposals[p] EXCEPT !.status = "closed"]
        IN  /\ e \in ProposalType /\ e.status = "closed"
            /\ e.assessed = proposals[p].assessed
  BY <1>1 DEF ProposalType
<1>4. \A p \in DOMAIN proposals :
        /\ proposals'[p] \in ProposalType
        /\ proposals'[p].assessed = proposals[p].assessed
        /\ \/ p \in Unsettled(proposals) /\ proposals'[p].status = "closed"
           \/ p \notin Unsettled(proposals) /\ proposals'[p] = proposals[p]
  BY <1>1, <1>2, <1>3
<1>5. proposals' \in [1 .. Len(proposals) -> ProposalType]
      /\ DOMAIN proposals' = DOMAIN proposals
  BY <1>1, <1>2, <1>4
<1>6. proposals' \in Seq(ProposalType) /\ Len(proposals') = Len(proposals)
  BY <1>1, <1>5, FunctionSeq
<1>7. \E p \in 0 .. Len(proposals') : review' = ResolveTo(proposals', p)
  <2>1. PICK p \in IF Unsettled(proposals) = {} THEN {review.current}
                   ELSE Unsettled(proposals) :
               review' = ResolveTo(proposals', p)
    BY DEF CloseCase
  <2>2. p \in 0 .. Len(proposals)
    BY <1>1, <2>1 DEF Unsettled
  <2> QED BY <1>6, <2>1, <2>2
<1> QED BY <1>1, <1>4, <1>5, <1>6, <1>7

\* What the operator does to the proposals keeps the types.
LEMMA ProposalActsType ==
  ASSUME CaseTypeOK, missed' \in BOOLEAN, NEW p \in DOMAIN proposals,
         SaveProposal(p) \/ ApproveProposal(p) \/ ApplyProposal(p)
           \/ CloseProposal(p)
  PROVE  CaseTypeOK'
<1>1. /\ proposals \in Seq(ProposalType) /\ Len(proposals) \in Nat
      /\ p \in 0 .. Len(proposals) /\ p \in Nat
      /\ proposals[p] \in ProposalType /\ jobs \in Seq(JobType)
      /\ review \in ReviewType /\ review.job \in 0 .. Len(jobs)
      /\ review.current \in 0 .. Len(proposals)
      /\ acts \in Nat /\ content \in Nat
      /\ status \in {"open", "completed", "closed"}
  BY TypeFacts, Elements DEF RowOK, CaseTypeOK
<1>2. Authorised(p) \in [proposal : DOMAIN proposals, version : Nat]
  BY <1>1 DEF Authorised, ProposalType
<1>3. RowOK(Unwarned(review), Len(proposals), Len(jobs))
  <2>1. Unwarned(review) \in {review, Free(review)}
        /\ Free(review) \in ReviewType
        /\ Free(review).current = review.current
        /\ Free(review).job = review.job
    BY <1>1, FreeRow
  <2> QED BY <1>1, <2>1 DEF RowOK
<1>4. ASSUME NEW ps \in Seq(ProposalType), Len(ps) = Len(proposals)
      PROVE  RowOK(ResolveTo(ps, p), Len(ps), Len(jobs))
  <2>1. p \in 0 .. Len(ps)
    BY <1>1, <1>4
  <2> QED BY <1>1, <2>1, Resolution DEF RowOK
<1>5. CASE SaveProposal(p)
  <2>1. /\ proposals' = [proposals EXCEPT ![p].version = @ + 1,
                                          ![p].status = "awaiting",
                                          ![p].base = content]
        /\ review' = Unwarned(review) /\ acts' \in Nat
        /\ UNCHANGED <<status, jobs, content, server>>
    BY <1>1, <1>5 DEF SaveProposal, Act
  <2>2. /\ proposals' \in Seq(ProposalType)
        /\ Len(proposals') = Len(proposals)
        /\ \A q \in DOMAIN proposals' :
             proposals'[q].assessed \in 0 .. Len(jobs)
    BY <2>1, ProposalSaved, ZenonT(40)
  <2> QED BY <1>1, <1>3, <2>1, <2>2, ActStepType
<1>6. CASE ApproveProposal(p)
  <2>1. /\ proposals' = Marked(p, "approved")
        /\ approvals' = approvals \cup {Authorised(p)} /\ acts' \in Nat
        /\ UNCHANGED <<review, status, jobs, content, applied, asked, journal,
                       up, faults>>
    BY <1>1, <1>6 DEF ApproveProposal, Act, Marked
  <2>2. /\ proposals' \in Seq(ProposalType)
        /\ Len(proposals') = Len(proposals)
        /\ \A q \in DOMAIN proposals' :
             proposals'[q].assessed \in 0 .. Len(jobs)
    BY <2>1, ProposalStatus
  <2>3. RowOK(review', Len(proposals'), Len(jobs'))
    BY <2>1, <2>2, TypeFacts
  <2>4. /\ journal' \in Seq(ItemType)
        /\ \A i \in DOMAIN journal' : journal'[i].request \in DOMAIN asked
        /\ up' \in BOOLEAN /\ faults' \in Nat
    BY <2>1, TypeFacts DEF CaseTypeOK
  <2>5. \E a \in [proposal : DOMAIN proposals, version : Nat] :
          approvals' = approvals \cup {a}
    BY <1>2, <2>1
  <2>6. /\ status' \in {"open", "completed", "closed"} /\ content' \in Nat
        /\ jobs' = jobs /\ applied' = applied /\ asked' = asked
        /\ jobs' \in Seq(JobType) /\ Len(proposals) <= Len(proposals')
    BY <1>1, <2>1, <2>2
  <2>7. acts' \in Nat
    BY <2>1
  <2> QED BY <2>2, <2>3, <2>4, <2>5, <2>6, <2>7, CaseStepType
<1>7. CASE ApplyProposal(p)
  <2>1. /\ Write(0, p) /\ review' = ResolveTo(proposals', p) /\ acts' \in Nat
        /\ UNCHANGED <<status, jobs, approvals, asked, journal, up, faults>>
    BY <1>1, <1>7 DEF ApplyProposal, Act
  <2>2. /\ proposals' \in Seq(ProposalType)
        /\ Len(proposals') = Len(proposals)
        /\ \A q \in DOMAIN proposals' :
             proposals'[q].assessed \in 0 .. Len(jobs)
        /\ content' \in Nat
        /\ \E a \in [by : {0} \cup DOMAIN asked, proposal : DOMAIN proposals,
                     version : Nat] : applied' = applied \cup {a}
    <3>1. 0 \in {0} \cup DOMAIN asked
      OBVIOUS
    <3> QED BY <2>1, <3>1, WriteType
  <2>3. RowOK(review', Len(proposals'), Len(jobs'))
    BY <1>4, <2>1, <2>2
  <2>4. /\ journal' \in Seq(ItemType)
        /\ \A i \in DOMAIN journal' : journal'[i].request \in DOMAIN asked
        /\ up' \in BOOLEAN /\ faults' \in Nat
    BY <2>1, TypeFacts DEF CaseTypeOK
  <2> QED BY <1>1, <2>1, <2>2, <2>3, <2>4, CaseStepType
<1>8. CASE CloseProposal(p)
  <2>1. /\ proposals' = Marked(p, "closed")
        /\ review' = ResolveTo(proposals', p) /\ acts' \in Nat
        /\ UNCHANGED <<status, jobs, content, server>>
    BY <1>1, <1>8 DEF CloseProposal, Act, Marked
  <2>2. /\ proposals' \in Seq(ProposalType)
        /\ Len(proposals') = Len(proposals)
        /\ \A q \in DOMAIN proposals' :
             proposals'[q].assessed \in 0 .. Len(jobs)
    BY <2>1, ProposalStatus
  <2>3. RowOK(review', Len(proposals'), Len(jobs'))
    BY <1>4, <2>1, <2>2
  <2> QED BY <1>1, <2>1, <2>2, <2>3, ActStepType
<1> QED BY <1>5, <1>6, <1>7, <1>8

\* So with a proposal made by hand, a case closed and an edit elsewhere.
LEMMA CaseActsType ==
  ASSUME CaseTypeOK, missed' \in BOOLEAN, CreateProposal \/ CloseCase \/ EditContent
  PROVE  CaseTypeOK'
<1>1. /\ proposals \in Seq(ProposalType) /\ Len(proposals) \in Nat
      /\ jobs \in Seq(JobType) /\ review \in ReviewType
      /\ review.job \in 0 .. Len(jobs)
      /\ \A p \in DOMAIN proposals : proposals[p].assessed \in 0 .. Len(jobs)
      /\ acts \in Nat /\ content \in Nat
      /\ status \in {"open", "completed", "closed"}
  BY TypeFacts DEF RowOK, CaseTypeOK
<1>2. CASE CreateProposal
  <2>1. /\ proposals' = Append(proposals, NewProposal(review.job))
        /\ review' = [Free(review) EXCEPT !.current = Len(proposals) + 1,
                                          !.state = "open"]
        /\ acts' \in Nat /\ UNCHANGED <<status, jobs, content, server>>
    BY <1>1, <1>2 DEF CreateProposal, Act
  <2>2. /\ proposals' \in Seq(ProposalType)
        /\ Len(proposals') = Len(proposals) + 1
        /\ \A p \in DOMAIN proposals' :
             proposals'[p].assessed \in 0 .. Len(jobs)
    BY <1>1, <2>1, Made
  <2>3. PICK n \in Nat : n = Len(proposals) + 1
    BY <1>1
  <2>4. review' = [Free(review) EXCEPT !.current = n, !.state = "open"]
    BY <2>1, <2>3
  <2>5. review' \in ReviewType /\ review'.current = n
        /\ review'.job = review.job
    BY <1>1, <2>4, FreeRow DEF ReviewType
  <2>6. RowOK(review', Len(proposals'), Len(jobs'))
    BY <1>1, <2>1, <2>2, <2>3, <2>5 DEF RowOK
  <2> QED BY <1>1, <2>1, <2>2, <2>6, ActStepType
<1>3. CASE CloseCase
  <2>1. /\ status' = "closed" /\ acts' \in Nat
        /\ UNCHANGED <<jobs, content, server>>
    BY <1>1, <1>3 DEF CloseCase, Act
  <2>2. /\ proposals' \in Seq(ProposalType)
        /\ Len(proposals') = Len(proposals)
        /\ \A p \in DOMAIN proposals' :
             proposals'[p].assessed \in 0 .. Len(jobs)
        /\ \E p \in 0 .. Len(proposals') : review' = ResolveTo(proposals', p)
    BY <1>3, ClosedCase
  <2>3. RowOK(review', Len(proposals'), Len(jobs'))
    BY <1>1, <2>1, <2>2, Resolution DEF RowOK
  <2> QED BY <1>1, <2>1, <2>2, <2>3, ActStepType
<1>4. CASE EditContent
  <2>1. /\ content' \in Nat /\ acts' \in Nat
        /\ UNCHANGED <<review, status, jobs, proposals, server>>
    BY <1>1, <1>4 DEF EditContent, Act
  <2>2. RowOK(review', Len(proposals'), Len(jobs'))
    BY <2>1, TypeFacts
  <2> QED BY <1>1, <2>1, <2>2, ActStepType
<1> QED BY <1>2, <1>3, <1>4

\* What a judgment replaces and proposes.
LEMMA Judgment ==
  ASSUME CaseTypeOK, NEW j \in DOMAIN jobs,
         NEW outcome \in {"proposal", "nothing", "attention"}
  PROVE  LET ps == Replaced(j, outcome)
         IN  /\ ps \in Seq(ProposalType) /\ Len(proposals) <= Len(ps)
             /\ \A p \in DOMAIN ps : ps[p].assessed \in 0 .. Len(jobs)
             /\ outcome = "proposal" => Len(ps) \in DOMAIN ps
             /\ \A p \in DOMAIN proposals :
                  /\ p \in DOMAIN ps
                  /\ \/ ps[p] = proposals[p]
                     \/ /\ p = review.current /\ jobs[j].kind = "reassess"
                        /\ p \in Unsettled(proposals) /\ ps[p].status = "closed"
             /\ \A p \in DOMAIN ps \ DOMAIN proposals : ps[p].status = "awaiting"
<1>1. /\ proposals \in Seq(ProposalType) /\ Len(proposals) \in Nat
      /\ DOMAIN proposals = 1 .. Len(proposals)
      /\ \A p \in DOMAIN proposals : proposals[p].assessed \in 0 .. Len(jobs)
      /\ j \in 0 .. Len(jobs)
  BY TypeFacts
<1> DEFINE c == review.current
           qs == IF jobs[j].kind = "reassess" /\ c \in Unsettled(proposals)
                 THEN Marked(c, "closed") ELSE proposals
<1>2. /\ qs \in Seq(ProposalType) /\ Len(qs) = Len(proposals)
      /\ DOMAIN qs = DOMAIN proposals
      /\ \A p \in DOMAIN qs : qs[p].assessed \in 0 .. Len(jobs)
      /\ \A p \in DOMAIN proposals :
           \/ qs[p] = proposals[p]
           \/ /\ p = c /\ jobs[j].kind = "reassess"
              /\ p \in Unsettled(proposals) /\ qs[p].status = "closed"
  <2>1. CASE jobs[j].kind = "reassess" /\ c \in Unsettled(proposals)
    <3>1. c \in DOMAIN proposals /\ qs = Marked(c, "closed")
      BY <2>1 DEF Unsettled
    <3> HIDE DEF c, qs
    <3> QED BY <2>1, <3>1, ProposalStatus
  <2>2. CASE ~(jobs[j].kind = "reassess" /\ c \in Unsettled(proposals))
    BY <1>1, <2>2
  <2> QED BY <2>1, <2>2
<1>3. Replaced(j, outcome)
        = IF outcome = "proposal" THEN Append(qs, NewProposal(j)) ELSE qs
  BY DEF Replaced, Marked
<1> HIDE DEF qs
<1>4. CASE outcome = "proposal"
  <2>1. LET ps == Append(qs, NewProposal(j))
        IN  /\ ps \in Seq(ProposalType) /\ Len(ps) = Len(qs) + 1
            /\ DOMAIN ps = DOMAIN qs \cup {Len(qs) + 1}
            /\ \A p \in DOMAIN qs : ps[p] = qs[p]
            /\ ps[Len(qs) + 1].status = "awaiting"
            /\ \A p \in DOMAIN ps : ps[p].assessed \in 0 .. Len(jobs)
    BY <1>1, <1>2, Made
  <2> DEFINE ps == Append(qs, NewProposal(j))
  <2> HIDE DEF ps
  <2>2. ps = Replaced(j, outcome)
    BY <1>3, <1>4 DEF ps
  <2>3. /\ ps \in Seq(ProposalType) /\ Len(ps) = Len(proposals) + 1
        /\ DOMAIN ps = DOMAIN proposals \cup {Len(proposals) + 1}
        /\ \A p \in DOMAIN proposals : ps[p] = qs[p]
        /\ ps[Len(proposals) + 1].status = "awaiting"
        /\ \A p \in DOMAIN ps : ps[p].assessed \in 0 .. Len(jobs)
    BY <1>2, <2>1 DEF ps
  <2> QED BY <1>1, <1>2, <2>2, <2>3
<1>5. CASE outcome # "proposal"
  BY <1>1, <1>2, <1>3, <1>5
<1> QED BY <1>4, <1>5

\* The end of an assessment.
LEMMA Finished ==
  ASSUME CaseTypeOK, NEW j \in DOMAIN jobs,
         NEW outcome \in {"proposal", "nothing", "attention"},
         FinishAssessment(j, outcome)
  PROVE  /\ proposals' = Replaced(j, outcome)
         /\ jobs' = JobJudged(j, "succeeded", outcome)
         /\ RowOK(review', Len(proposals'), Len(jobs'))
         /\ review'.state = "open" /\ review'.approval = review.approval
         /\ review'.request = review.request
         /\ status' \in {"open", "completed", "closed"}
         /\ UNCHANGED <<content, server, acts>>
<1> DEFINE ps == Replaced(j, outcome)
           left == Unsettled(ps)
           c == IF outcome = "proposal" THEN Len(ps)
                ELSE IF left = {} THEN 0 ELSE Min(left)
<1>1. /\ proposals' = ps /\ jobs' = JobJudged(j, "succeeded", outcome)
      /\ review' = [review EXCEPT !.current = c, !.job = j, !.state = "open"]
      /\ status' = IF outcome = "attention" THEN "open" ELSE "completed"
      /\ UNCHANGED <<content, server, acts>>
  BY DEF FinishAssessment, JobJudged
<1>2. /\ ps \in Seq(ProposalType)
      /\ outcome = "proposal" => Len(ps) \in DOMAIN ps
  <2> HIDE DEF ps
  <2> QED BY Judgment DEF ps
<1>3. c \in 0 .. Len(ps) /\ c \in Nat
  <2> HIDE DEF ps
  <2>1. Len(ps) \in Nat /\ DOMAIN ps = 1 .. Len(ps)
    BY <1>2, LenProperties
  <2>2. left # {} => Min(left) \in DOMAIN ps
    BY <1>2, UnsettledMember
  <2> QED BY <1>2, <2>1, <2>2
<1>4. Len(jobs') = Len(jobs)
  BY <1>1, JobEdits
<1>5. review \in ReviewType /\ j \in Nat /\ j \in 0 .. Len(jobs)
  BY TypeFacts DEF RowOK
<1> HIDE DEF c
<1>6. /\ review' \in ReviewType /\ review'.current = c /\ review'.job = j
      /\ review'.state = "open" /\ review'.approval = review.approval
      /\ review'.request = review.request
  BY <1>1, <1>3, <1>5 DEF ReviewType
<1>7. RowOK(review', Len(proposals'), Len(jobs'))
  BY <1>1, <1>3, <1>4, <1>5, <1>6 DEF RowOK
<1> QED BY <1>1, <1>6, <1>7

\* The jobs of a case keep the types.
LEMMA JobActsType ==
  ASSUME CaseTypeOK, missed' \in BOOLEAN, FinishJob \/ \E j \in DOMAIN jobs : RetryJob(j)
  PROVE  CaseTypeOK'
<1>1. /\ proposals \in Seq(ProposalType) /\ jobs \in Seq(JobType)
      /\ Len(proposals) \in Nat /\ Len(jobs) \in Nat
      /\ RowOK(review, Len(proposals), Len(jobs))
      /\ \A p \in DOMAIN proposals : proposals[p].assessed \in 0 .. Len(jobs)
      /\ acts \in Nat /\ content \in Nat
      /\ status \in {"open", "completed", "closed"}
  BY TypeFacts DEF CaseTypeOK
<1>2. ASSUME NEW j \in DOMAIN jobs,
             NEW outcome \in {"proposal", "nothing", "attention"},
             FinishAssessment(j, outcome)
      PROVE  CaseTypeOK'
  <2>1. /\ proposals' = Replaced(j, outcome)
        /\ jobs' = JobJudged(j, "succeeded", outcome)
        /\ RowOK(review', Len(proposals'), Len(jobs'))
        /\ status' \in {"open", "completed", "closed"}
        /\ UNCHANGED <<content, server, acts>>
    BY <1>2, Finished
  <2>2. jobs' \in Seq(JobType) /\ Len(jobs') = Len(jobs)
    BY <2>1, JobEdits
  <2>3. /\ proposals' \in Seq(ProposalType)
        /\ Len(proposals) <= Len(proposals')
        /\ \A p \in DOMAIN proposals' :
             proposals'[p].assessed \in 0 .. Len(jobs')
    BY <2>1, <2>2, Judgment
  <2>4. acts' \in Nat /\ content' \in Nat
    BY <1>1, <2>1
  <2> QED BY <2>1, <2>2, <2>3, <2>4, ActStepType
<1>3. ASSUME NEW j \in DOMAIN jobs, FinishOpinion(j) \/ FailJob(j) \/ RetryJob(j)
      PROVE  CaseTypeOK'
  <2>1. /\ \E st \in {"active", "succeeded", "failed"} :
             jobs' = JobMarked(j, st)
        /\ acts' \in Nat
        /\ UNCHANGED <<review, status, proposals, content, server>>
    BY <1>1, <1>3 DEF FinishOpinion, FailJob, RetryJob, JobMarked, Act
  <2>2. jobs' \in Seq(JobType) /\ Len(jobs') = Len(jobs)
    BY <2>1, JobEdits
  <2>3. RowOK(review', Len(proposals'), Len(jobs'))
        /\ \A p \in DOMAIN proposals' :
             proposals'[p].assessed \in 0 .. Len(jobs')
    BY <1>1, <2>1, <2>2
  <2> QED BY <1>1, <2>1, <2>2, <2>3, ActStepType
<1> QED BY <1>2, <1>3 DEF FinishJob

\* So with the requests for one.
LEMMA QueueActsType ==
  ASSUME CaseTypeOK, missed' \in BOOLEAN,
         RequestReassessment \/ RequestCaseOpinion
           \/ \E p \in DOMAIN proposals : RequestSecondOpinion(p)
  PROVE  CaseTypeOK'
<1>1. /\ proposals \in Seq(ProposalType) /\ jobs \in Seq(JobType)
      /\ Len(proposals) \in Nat /\ Len(jobs) \in Nat
      /\ DOMAIN proposals = 1 .. Len(proposals)
      /\ review \in ReviewType /\ review.job \in 0 .. Len(jobs)
      /\ review.current \in 0 .. Len(proposals)
      /\ \A p \in DOMAIN proposals : proposals[p].assessed \in 0 .. Len(jobs)
      /\ acts \in Nat /\ content \in Nat
      /\ status \in {"open", "completed", "closed"}
  BY TypeFacts DEF CaseTypeOK, RowOK
<1>2. NoProposal \in RevisionType
  BY DEF NoProposal, RevisionType
<1>3. \A j \in 0 .. Len(jobs) : PinnedBy(j) \in Nat
  <2> SUFFICES ASSUME NEW j \in 0 .. Len(jobs), j # 0 PROVE jobs[j].pinned \in Nat
    BY DEF PinnedBy
  <2>1. jobs[j] \in JobType
    BY <1>1, Elements
  <2> QED BY <2>1 DEF JobType
<1>4. ASSUME NEW kind \in {"assess", "reassess", "opinion"},
             NEW source \in Nat, NEW pinned \in Nat, NEW about \in RevisionType,
             QueueJob(NewJob(kind, source, pinned, about)), acts' \in Nat,
             UNCHANGED <<status, proposals, content, server>>,
             RowOK(review', Len(proposals), Len(jobs))
      PROVE  CaseTypeOK'
  <2>1. /\ jobs' \in Seq(JobType) /\ Len(jobs') = Len(jobs) + 1
        /\ \A p \in DOMAIN proposals : proposals[p].assessed \in 0 .. Len(jobs')
    BY <1>4, Queued
  <2>2. RowOK(review', Len(proposals'), Len(jobs'))
    BY <1>1, <1>4, <2>1 DEF RowOK
  <2> QED BY <1>1, <1>4, <2>1, <2>2, ActStepType
<1>5. CASE RequestReassessment
  <2>1. PICK p \in Unsettled(proposals) \cup {review.current} :
          review' = [Unwarned(review) EXCEPT !.current = p]
    BY <1>5 DEF RequestReassessment
  <2>2. p \in 0 .. Len(proposals) /\ p \in Nat
    BY <1>1 DEF Unsettled
  <2>3. /\ Unwarned(review) \in ReviewType /\ Unwarned(review).job = review.job
    BY <1>1, FreeRow
  <2>4. review' \in ReviewType /\ review'.current = p
        /\ review'.job = review.job
    BY <2>1, <2>2, <2>3 DEF ReviewType
  <2>5. RowOK(review', Len(proposals), Len(jobs))
    BY <1>1, <2>2, <2>4 DEF RowOK
  <2>6. /\ QueueJob(NewJob("reassess", review.job, content, NoProposal))
        /\ acts' \in Nat /\ UNCHANGED <<status, proposals, content, server>>
        /\ review.job \in Nat
    BY <1>1, <1>5 DEF RequestReassessment, Act
  <2> QED BY <1>1, <1>2, <1>4, <2>5, <2>6
<1>6. CASE RequestCaseOpinion
  <2>1. /\ QueueJob(NewJob("opinion", 0, PinnedBy(review.job), NoProposal))
        /\ acts' \in Nat
        /\ UNCHANGED <<review, status, proposals, content, server>>
    BY <1>1, <1>6 DEF RequestCaseOpinion, Act
  <2>2. RowOK(review', Len(proposals), Len(jobs))
    BY <2>1, TypeFacts
  <2> QED BY <1>1, <1>2, <1>3, <1>4, <2>1, <2>2
<1>7. ASSUME NEW p \in DOMAIN proposals, RequestSecondOpinion(p)
      PROVE  CaseTypeOK'
  <2>1. /\ QueueJob(NewJob("opinion", 0, PinnedBy(proposals[p].assessed),
                           Authorised(p)))
        /\ acts' \in Nat
        /\ UNCHANGED <<review, status, proposals, content, server>>
    BY <1>1, <1>7 DEF RequestSecondOpinion, Act
  <2>2. RowOK(review', Len(proposals), Len(jobs))
    BY <2>1, TypeFacts
  <2>3. proposals[p] \in ProposalType
    BY <1>1, Elements
  <2>4. Authorised(p) \in RevisionType
    BY <1>1, <2>3 DEF Authorised, RevisionType, ProposalType
  <2>5. PinnedBy(proposals[p].assessed) \in Nat
    BY <1>1, <1>3
  <2> QED BY <1>4, <2>1, <2>2, <2>4, <2>5
<1> QED BY <1>5, <1>6, <1>7

\* The requests of the operator keep the types.
LEMMA RequestActsType ==
  ASSUME CaseTypeOK, missed' \in BOOLEAN,
         \/ \E p \in DOMAIN proposals : RequestApproval(p)
         \/ \E r \in DOMAIN asked : RepeatRequest(r)
         \/ \E i \in DOMAIN journal : RetryRequest(i)
  PROVE  CaseTypeOK'
<1>1. /\ journal \in Seq(ItemType)
      /\ \A i \in DOMAIN journal : journal[i].request \in DOMAIN asked
      /\ Len(asked) \in Nat /\ DOMAIN asked = 1 .. Len(asked)
      /\ \A r \in DOMAIN asked : /\ asked[r] \in RevisionType
                                 /\ asked[r].proposal \in DOMAIN proposals
      /\ acts \in Nat
  BY TypeFacts DEF CaseTypeOK
<1>2. ASSUME NEW r \in Nat, NEW a \in RevisionType,
             a.proposal \in DOMAIN proposals, NEW items \in Seq(ItemType),
             Intend(r, a, items)
      PROVE  /\ RowOK(review', Len(proposals), Len(jobs))
             /\ journal' \in Seq(ItemType) /\ journal' \in {items, journal}
             /\ up' \in BOOLEAN /\ faults' \in Nat
  <2> DEFINE p == a.proposal
  <2>1. /\ RowOK(Hold(review, r, p), Len(proposals), Len(jobs))
        /\ RowOK(Free(Hold(review, r, p)), Len(proposals), Len(jobs))
    <3>1. p \in DOMAIN proposals
      BY <1>2
    <3> HIDE DEF p
    <3> QED BY <3>1, IntendedRow
  <2> QED BY <1>2, <2>1, IntendCases
<1>3. ASSUME NEW p \in DOMAIN proposals, RequestApproval(p)
      PROVE  CaseTypeOK'
  <2> DEFINE a == Authorised(p)
             n == Len(asked) + 1
             items == Append(journal, Item(n, "active", 0))
  <2>1. /\ asked' = Append(asked, a) /\ Intend(n, a, items)
        /\ UNCHANGED <<case, given, acts>>
    BY <1>3 DEF RequestApproval, Admit
  <2>2. proposals[p] \in ProposalType /\ p \in Nat
    BY TypeFacts, Elements
  <2>3. /\ a \in [proposal : DOMAIN proposals, version : Nat]
        /\ a \in RevisionType /\ a.proposal \in DOMAIN proposals
    BY <2>2 DEF Authorised, RevisionType, ProposalType
  <2>4. n \in Nat
    BY <1>1
  <2> HIDE DEF n, a
  <2>5. /\ items \in Seq(ItemType)
        /\ \A i \in DOMAIN items :
             items[i].request \in DOMAIN asked \cup {n}
    <3>1. /\ items \in Seq(ItemType)
          /\ DOMAIN items = DOMAIN journal \cup {Len(journal) + 1}
          /\ \A k \in DOMAIN journal : items[k] = journal[k]
          /\ items[Len(journal) + 1].request = n
      BY <2>4, Recorded
    <3> HIDE DEF items
    <3> QED BY <1>1, <3>1
  <2> HIDE DEF items
  <2>6. /\ RowOK(review', Len(proposals), Len(jobs))
        /\ journal' \in Seq(ItemType) /\ journal' \in {items, journal}
        /\ up' \in BOOLEAN /\ faults' \in Nat
    BY <1>2, <2>1, <2>3, <2>4, <2>5
  <2>7. DOMAIN asked' = DOMAIN asked \cup {n}
    <3>1. asked \in Seq([proposal : DOMAIN proposals, version : Nat])
      BY DEF CaseTypeOK
    <3>2. /\ Len(asked') = Len(asked) + 1
          /\ asked' \in Seq([proposal : DOMAIN proposals, version : Nat])
      BY <2>1, <2>3, <3>1, AppendProperties
    <3>3. DOMAIN asked' = 1 .. Len(asked) + 1
      BY <3>2, LenProperties
    <3> QED BY <1>1, <3>3 DEF n
  <2>8. \A i \in DOMAIN journal' : journal'[i].request \in DOMAIN asked'
    BY <1>1, <2>5, <2>6, <2>7
  <2> QED BY <2>1, <2>3, <2>6, <2>8, RequestStepType
<1>4. ASSUME NEW r \in DOMAIN asked, RepeatRequest(r)
      PROVE  CaseTypeOK'
  <2> DEFINE a == asked[r]
             items == Append(journal, Item(r, "active", 0))
  <2>1. /\ Intend(r, a, items) /\ UNCHANGED <<case, given, asked, acts>>
    BY <1>4 DEF RepeatRequest, Admit
  <2>2. r \in Nat /\ a \in RevisionType /\ a.proposal \in DOMAIN proposals
    BY <1>1
  <2>3. /\ items \in Seq(ItemType)
        /\ \A i \in DOMAIN items : items[i].request \in DOMAIN asked
    <3>1. /\ items \in Seq(ItemType)
          /\ DOMAIN items = DOMAIN journal \cup {Len(journal) + 1}
          /\ \A k \in DOMAIN journal : items[k] = journal[k]
          /\ items[Len(journal) + 1].request = r
      BY <2>2, Recorded
    <3> HIDE DEF items
    <3> QED BY <1>1, <3>1
  <2> HIDE DEF items, a
  <2>4. /\ RowOK(review', Len(proposals), Len(jobs))
        /\ journal' \in Seq(ItemType) /\ journal' \in {items, journal}
        /\ up' \in BOOLEAN /\ faults' \in Nat
    BY <1>2, <2>1, <2>2, <2>3
  <2>5. \A i \in DOMAIN journal' : journal'[i].request \in DOMAIN asked
    BY <1>1, <2>3, <2>4
  <2>6. acts' \in Nat
    BY <1>1, <2>1
  <2> QED BY <2>1, <2>4, <2>5, <2>6, JournalStepType
<1>5. ASSUME NEW i \in DOMAIN journal, RetryRequest(i)
      PROVE  CaseTypeOK'
  <2> DEFINE r == journal[i].request
             a == asked[r]
             items == [journal EXCEPT ![i] = Item(r, "active", 0)]
  <2>1. /\ Intend(r, a, items) /\ UNCHANGED <<case, given, asked>>
        /\ acts' \in Nat
    BY <1>1, <1>5 DEF RetryRequest, Act
  <2>2. /\ r \in DOMAIN asked /\ r \in Nat /\ a \in RevisionType
        /\ a.proposal \in DOMAIN proposals
    BY <1>1
  <2> HIDE DEF r
  <2>3. /\ items \in Seq(ItemType)
        /\ \A k \in DOMAIN items : items[k].request \in DOMAIN asked
    <3>1. /\ items \in Seq(ItemType) /\ DOMAIN items = DOMAIN journal
          /\ \A k \in DOMAIN journal : k # i => items[k] = journal[k]
          /\ items[i].request = r
      BY <2>2, Recorded
    <3> HIDE DEF items
    <3> QED BY <1>1, <2>2, <3>1
  <2> HIDE DEF items, a
  <2>4. /\ RowOK(review', Len(proposals), Len(jobs))
        /\ journal' \in Seq(ItemType) /\ journal' \in {items, journal}
        /\ up' \in BOOLEAN /\ faults' \in Nat
    BY <1>2, <2>1, <2>2, <2>3
  <2>5. \A k \in DOMAIN journal' : journal'[k].request \in DOMAIN asked
    BY <1>1, <2>3, <2>4
  <2> QED BY <2>1, <2>4, <2>5, JournalStepType
<1> QED BY <1>3, <1>4, <1>5

\* The worker's steps keep the types.
LEMMA WorkType ==
  ASSUME CaseTypeOK, missed' \in BOOLEAN, NEW i \in DOMAIN journal,
         \/ Succeed(i) \/ Refuse(i) \/ SucceedCut(i) \/ Fail(i)
         \/ StopCut(i) \/ Transient(i) \/ Interrupt(i)
  PROVE  CaseTypeOK'
<1> DEFINE r == journal[i].request
<1>1. /\ journal \in Seq(ItemType) /\ r \in DOMAIN asked /\ r \in Nat
      /\ \A k \in DOMAIN journal : journal[k].request \in DOMAIN asked
      /\ journal[i].status \in {"active", "succeeded", "attention"}
      /\ RowOK(review, Len(proposals), Len(jobs)) /\ review \in ReviewType
      /\ asked[r] \in [proposal : DOMAIN proposals, version : Nat]
      /\ acts \in Nat /\ up \in BOOLEAN /\ faults \in Nat
      /\ jobs \in Seq(JobType) /\ status \in {"open", "completed", "closed"}
  <2>1. journal[i] \in ItemType
    BY TypeFacts, Elements
  <2>2. asked \in Seq([proposal : DOMAIN proposals, version : Nat])
    BY DEF CaseTypeOK
  <2>3. asked[r] \in [proposal : DOMAIN proposals, version : Nat]
    BY <2>2, TypeFacts, Elements
  <2> QED BY <2>1, <2>3, TypeFacts DEF ItemType, RowOK, CaseTypeOK
<1>2. ASSUME NEW st \in {"active", "succeeded", "attention"},
             journal' \in {Started(i), Ended(i, st)}
      PROVE  /\ journal' \in Seq(ItemType)
             /\ \A k \in DOMAIN journal' : journal'[k].request \in DOMAIN asked
  <2>1. /\ journal' \in Seq(ItemType) /\ DOMAIN journal' = DOMAIN journal
        /\ \A k \in DOMAIN journal : k # i => journal'[k] = journal[k]
        /\ journal'[i].request = journal[i].request
    <3>1. CASE journal' = Started(i)
      BY <1>1, <3>1, Attempt
    <3>2. CASE journal' = Ended(i, st)
      BY <1>1, <3>2, Attempt
    <3> QED BY <1>2, <3>1, <3>2
  <2> QED BY <1>1, <2>1
<1>3. RowOK(Warn(review, r), Len(proposals), Len(jobs))
  BY <1>1, WarnRow DEF RowOK
<1> HIDE DEF r
<1>4. ASSUME Complete(r), review' \in {review, Completed(r)},
             Answered(r) \/ review' = Completed(r),
             NEW st \in {"active", "succeeded", "attention"},
             journal' \in {Started(i), Ended(i, st)},
             UNCHANGED <<status, jobs, asked, acts>>, up' \in BOOLEAN,
             faults' \in Nat
      PROVE  CaseTypeOK'
  <2>1. /\ proposals' \in Seq(ProposalType)
        /\ Len(proposals') = Len(proposals)
        /\ \A p \in DOMAIN proposals' :
             proposals'[p].assessed \in 0 .. Len(jobs)
        /\ content' \in Nat
        /\ approvals' = approvals \/ approvals' = approvals \cup {asked[r]}
        /\ applied' = applied \/ \E a \in [by : {0} \cup DOMAIN asked,
                                          proposal : DOMAIN proposals,
                                          version : Nat] :
                                   applied' = applied \cup {a}
        /\ RowOK(Completed(r), Len(proposals'), Len(jobs))
    BY <1>1, <1>4, CompleteCases
  <2>2. RowOK(review', Len(proposals'), Len(jobs'))
    BY <1>1, <1>4, <2>1
  <2>3. approvals' = approvals \/ \E a \in [proposal : DOMAIN proposals,
                                           version : Nat] :
                                    approvals' = approvals \cup {a}
    BY <1>1, <2>1
  <2>4. /\ journal' \in Seq(ItemType)
        /\ \A k \in DOMAIN journal' : journal'[k].request \in DOMAIN asked
    BY <1>2, <1>4
  <2>5. /\ Len(proposals) <= Len(proposals') /\ jobs' \in Seq(JobType)
        /\ status' \in {"open", "completed", "closed"} /\ acts' \in Nat
        /\ asked' = asked
        /\ \A p \in DOMAIN proposals' :
             proposals'[p].assessed \in 0 .. Len(jobs')
    BY <1>1, <1>4, <2>1, TypeFacts
  <2>6. applied' = applied \/ \E a \in [by : {0} \cup DOMAIN asked,
                                       proposal : DOMAIN proposals,
                                       version : Nat] :
                                applied' = applied \cup {a}
    BY <2>1
  <2> HIDE DEF r
  <2> QED BY <1>4, <2>1, <2>2, <2>3, <2>4, <2>5, <2>6, CaseStepType
<1>5. ASSUME NEW st \in {"active", "succeeded", "attention"},
             journal' \in {Started(i), Ended(i, st)},
             review' \in {review, Warn(review, r)},
             UNCHANGED <<case, given, asked, acts>>, up' \in BOOLEAN,
             faults' \in Nat
      PROVE  CaseTypeOK'
  <2>1. /\ journal' \in Seq(ItemType)
        /\ \A k \in DOMAIN journal' : journal'[k].request \in DOMAIN asked
    BY <1>2, <1>5
  <2>2. RowOK(review', Len(proposals), Len(jobs)) /\ acts' \in Nat
    BY <1>1, <1>3, <1>5
  <2> QED BY <1>5, <2>1, <2>2, JournalStepType
<1>6. ASSUME Faulty PROVE faults' \in Nat
  BY <1>1, <1>6 DEF Faulty
<1>7. CASE Succeed(i)
  BY <1>1, <1>4, <1>7 DEF Succeed, r
<1>8. CASE Refuse(i)
  BY <1>1, <1>5, <1>8 DEF Refuse, Stop, r
<1>9. CASE SucceedCut(i)
  BY <1>1, <1>4, <1>6, <1>9 DEF SucceedCut, r
<1>10. CASE StopCut(i)
  BY <1>1, <1>5, <1>6, <1>10 DEF StopCut, r
<1>11. CASE Transient(i)
  <2>1. CASE journal' = Ended(i, "active") /\ review' = review
    BY <1>1, <1>5, <1>6, <1>11, <2>1 DEF Transient, Stop, r
  <2>2. CASE Stop(i)
    BY <1>1, <1>5, <1>6, <1>11, <2>2 DEF Transient, Stop, r
  <2> QED BY <1>11, <2>1, <2>2 DEF Transient
<1>12. CASE Interrupt(i)
  BY <1>1, <1>5, <1>6, <1>12 DEF Interrupt, r
<1>13. CASE Fail(i)
  BY <1>1, <1>5, <1>6, <1>13 DEF Fail, Stop, r
<1> QED BY <1>7, <1>8, <1>9, <1>10, <1>11, <1>12, <1>13

\* A write that was missed is made good only when the server starts.
LEMMA MissedMoves ==
  ASSUME [Next]_vars
  PROVE  missed' = missed \/ missed' = TRUE \/ (Start /\ missed' = FALSE)
<1>1. CASE Operator
  <2>1. CASE CreateProposal \/ CloseCase \/ EditContent
    BY <2>1 DEF CreateProposal, CloseCase, EditContent, server
  <2>2. ASSUME NEW p \in DOMAIN proposals,
               \/ SaveProposal(p) \/ ApproveProposal(p) \/ ApplyProposal(p)
               \/ CloseProposal(p) \/ RequestSecondOpinion(p)
               \/ RequestApproval(p)
        PROVE  missed' = missed
    BY <2>2 DEF SaveProposal, ApproveProposal, ApplyProposal, CloseProposal,
       RequestSecondOpinion, RequestApproval, Admit, server
  <2>3. CASE \/ RequestReassessment \/ RequestCaseOpinion
             \/ \E r \in DOMAIN asked : RepeatRequest(r)
             \/ \E i \in DOMAIN journal : RetryRequest(i)
             \/ \E j \in DOMAIN jobs : RetryJob(j)
    BY <2>3 DEF RequestReassessment, RequestCaseOpinion, RepeatRequest, Admit,
       RetryRequest, RetryJob, server
  <2> QED BY <1>1, <2>1, <2>2, <2>3 DEF Operator
<1>2. CASE FinishJob
  BY <1>2 DEF FinishJob, FinishAssessment, FinishOpinion, FailJob, server
<1>3. CASE Work
  BY <1>3 DEF Work, Succeed, Refuse, Stop
<1>4. CASE Trouble
  BY <1>4 DEF Trouble, SucceedCut, Fail, Stop, StopCut, Transient, Interrupt,
     Crash
<1>5. CASE Compact \/ Start \/ StartFails
  BY <1>5 DEF Compact, Start, StartFails, server
<1>6. CASE UNCHANGED vars
  BY <1>6 DEF vars, server
<1> QED BY <1>1, <1>2, <1>3, <1>4, <1>5, <1>6 DEF Next

\* Every step keeps the types.
LEMMA TypeStep ==
  ASSUME CaseTypeOK, [Next]_vars
  PROVE  CaseTypeOK'
<1> missed' \in BOOLEAN
  BY MissedMoves DEF CaseTypeOK
<1>1. /\ acts \in Nat /\ up \in BOOLEAN /\ faults \in Nat
      /\ RowOK(review, Len(proposals), Len(jobs)) /\ review \in ReviewType
      /\ journal \in Seq(ItemType)
      /\ \A i \in DOMAIN journal : journal[i].request \in DOMAIN asked
  BY TypeFacts DEF CaseTypeOK, RowOK
<1>2. CASE Operator
  BY <1>2, ProposalActsType, CaseActsType, QueueActsType, RequestActsType,
     JobActsType DEF Operator
<1>3. CASE FinishJob
  BY <1>3, JobActsType
<1>4. CASE Work
  BY <1>4, WorkType DEF Work
<1>5. CASE Trouble
  <2>1. CASE Crash
    <3>1. /\ UNCHANGED <<review, case, given, asked, journal, acts>>
          /\ up' \in BOOLEAN /\ faults' \in Nat
      <4>1. UNCHANGED <<review, case, given, asked, journal, acts>>
        BY <2>1 DEF Crash
      <4>2. up' = FALSE
        BY <2>1 DEF Crash
      <4>3. faults' \in Nat
        BY <1>1, <2>1 DEF Crash, Faulty
      <4> QED BY <4>1, <4>2, <4>3
    <3>2. RowOK(review', Len(proposals), Len(jobs)) /\ acts' \in Nat
      BY <1>1, <3>1
    <3>3. /\ journal' \in Seq(ItemType)
          /\ \A i \in DOMAIN journal' : journal'[i].request \in DOMAIN asked
      BY <1>1, <3>1
    <3> QED BY <3>1, <3>2, <3>3, JournalStepType
  <2> QED BY <1>5, <2>1, WorkType DEF Trouble
<1>6. CASE Compact
  <2>1. /\ UNCHANGED <<review, case, given, asked, up, acts, faults>>
    BY <1>6 DEF Compact
  <2>2. /\ journal' \in Seq(ItemType)
        /\ \A k \in DOMAIN journal' : \E i \in Kept : journal'[k] = journal[i]
    BY <1>6, Compacted
  <2>3. \A k \in DOMAIN journal' : journal'[k].request \in DOMAIN asked
    BY <1>1, <2>2 DEF Kept
  <2>4. RowOK(review', Len(proposals), Len(jobs)) /\ acts' \in Nat
        /\ up' \in BOOLEAN /\ faults' \in Nat
    BY <1>1, <2>1
  <2> QED BY <2>1, <2>2, <2>3, <2>4, JournalStepType
<1>7. CASE Start
  <2> DEFINE row == IF Active = {} THEN Unclaimed
                    ELSE Reclaimed(Unclaimed, Min(Active))
  <2>1. /\ review' = Reminded(row) /\ up' = TRUE
        /\ UNCHANGED <<case, given, asked, journal, acts, faults>>
    BY <1>7 DEF Start
  <2>2. RowOK(row, Len(proposals), Len(jobs))
    BY StartRow
  <2> HIDE DEF row
  <2>3. RowOK(review', Len(proposals), Len(jobs))
    BY <2>1, <2>2, RemindedRow DEF RowOK
  <2>4. /\ acts' \in Nat /\ up' \in BOOLEAN /\ faults' \in Nat
        /\ journal' \in Seq(ItemType)
        /\ \A i \in DOMAIN journal' : journal'[i].request \in DOMAIN asked
    BY <1>1, <2>1
  <2> QED BY <2>1, <2>3, <2>4, JournalStepType
<1>8. CASE StartFails
  <2>1. UNCHANGED <<case, server, acts>>
    BY <1>8 DEF StartFails
  <2>2. Active # {}
    BY <1>8 DEF StartFails, Startable
  <2>3. RowOK(review', Len(proposals), Len(jobs))
    BY <1>8, <2>2, StartRow DEF StartFails
  <2>4. /\ UNCHANGED <<given, asked, case>>
        /\ acts' \in Nat /\ up' \in BOOLEAN /\ faults' \in Nat
        /\ journal' \in Seq(ItemType)
        /\ \A i \in DOMAIN journal' : journal'[i].request \in DOMAIN asked
    BY <1>1, <2>1 DEF server
  <2> QED BY <2>3, <2>4, JournalStepType
<1>9. CASE UNCHANGED vars
  <2>1. /\ UNCHANGED <<review, case, given, asked, journal, up, acts, faults>>
    BY <1>9 DEF vars, server
  <2>2. /\ RowOK(review', Len(proposals), Len(jobs)) /\ acts' \in Nat
        /\ up' \in BOOLEAN /\ faults' \in Nat /\ journal' \in Seq(ItemType)
        /\ \A i \in DOMAIN journal' : journal'[i].request \in DOMAIN asked
    BY <1>1, <2>1
  <2> QED BY <2>1, <2>2, JournalStepType
<1> QED BY <1>2, <1>3, <1>4, <1>5, <1>6, <1>7, <1>8, <1>9 DEF Next

LEMMA TypeInit == Init => CaseTypeOK
<1> SUFFICES ASSUME Init PROVE CaseTypeOK
  OBVIOUS
<1>1. NewJob("assess", 0, 0, NoProposal) \in JobType
  BY DEF NewJob, NoProposal, JobType
<1>2. jobs \in Seq(JobType)
  BY <1>1 DEF Init
<1>3. up \in BOOLEAN /\ missed \in BOOLEAN
  BY DEF Init
<1>4. /\ review \in [ state : {"open", "resolved"}, current : Nat, request : Nat,
                     approval : {"none", "pending", "attention"}, job : Nat ]
      /\ review.current = 0 /\ review.job = 0
  BY DEF Init
<1>5. /\ proposals = <<>> /\ asked = <<>> /\ journal = <<>>
      /\ approvals = {} /\ applied = {}
  BY DEF Init
<1>6. status \in {"open", "completed", "closed"} /\ content \in Nat
      /\ acts \in Nat /\ faults \in Nat
  BY DEF Init
<1> QED BY <1>2, <1>3, <1>4, <1>5, <1>6 DEF CaseTypeOK

\* Whatever happens, the rows, the jobs, the journal and what refers to them
\* keep their shapes, and what is referred to exists.
THEOREM CaseTypeCorrect == Spec => []CaseTypeOK
<1>1. CaseTypeOK /\ [Next]_vars => CaseTypeOK'
  BY TypeStep
<1> QED BY <1>1, TypeInit, PTL DEF Spec

-----------------------------------------------------------------------------
(* What each group of actions leaves alone.                                *)

ProposalActs ==
  \/ CreateProposal \/ CloseCase
  \/ \E p \in DOMAIN proposals :
       SaveProposal(p) \/ ApproveProposal(p) \/ ApplyProposal(p)
         \/ CloseProposal(p)

QueueActs ==
  \/ RequestReassessment \/ RequestCaseOpinion
  \/ \E p \in DOMAIN proposals : RequestSecondOpinion(p)

RequestActs ==
  \/ \E p \in DOMAIN proposals : RequestApproval(p)
  \/ \E r \in DOMAIN asked : RepeatRequest(r)
  \/ \E i \in DOMAIN journal : RetryRequest(i)

Retried == \E j \in DOMAIN jobs : RetryJob(j)

Works(i) ==
  \/ Succeed(i) \/ Refuse(i) \/ SucceedCut(i) \/ Fail(i) \/ StopCut(i)
  \/ Transient(i) \/ Interrupt(i)

\* Those that apply nothing.
Unapplied(i) ==
  Refuse(i) \/ Fail(i) \/ StopCut(i) \/ Transient(i) \/ Interrupt(i)

WorkerActs == \E i \in DOMAIN journal : Works(i)

Idle == UNCHANGED vars

\* The groups cover every step.
LEMMA Groups ==
  ASSUME [Next]_vars
  PROVE  \/ ProposalActs \/ EditContent \/ QueueActs \/ RequestActs \/ FinishJob
         \/ Retried \/ WorkerActs \/ Compact \/ Crash \/ Start \/ StartFails
         \/ Idle
<1>1. CASE Operator
  BY <1>1 DEF Operator, ProposalActs, QueueActs, RequestActs, Retried
<1>2. CASE Work \/ Trouble
  BY <1>2 DEF Work, Trouble, WorkerActs, Works
<1>3. CASE UNCHANGED vars
  BY <1>3 DEF Idle
<1> QED BY <1>1, <1>2, <1>3 DEF Next

LEMMA JobsKept ==
  ASSUME ProposalActs \/ EditContent \/ RequestActs \/ WorkerActs \/ Compact
           \/ Crash \/ Start \/ StartFails \/ Idle
  PROVE  jobs' = jobs
<1>1. CASE CreateProposal \/ CloseCase
  BY <1>1 DEF CreateProposal, CloseCase
<1>2. ASSUME NEW p \in DOMAIN proposals,
             SaveProposal(p) \/ ApproveProposal(p) \/ ApplyProposal(p)
               \/ CloseProposal(p)
      PROVE  jobs' = jobs
  BY <1>2 DEF SaveProposal, ApproveProposal, ApplyProposal, CloseProposal
<1>3. ProposalActs => jobs' = jobs
  BY <1>1, <1>2 DEF ProposalActs
<1>4. RequestActs => jobs' = jobs
  BY DEF RequestActs, RequestApproval, RepeatRequest, RetryRequest, Admit, case
<1>5. ASSUME NEW i, Works(i) PROVE jobs' = jobs
  BY <1>5 DEF Works, Succeed, Refuse, SucceedCut, Fail, StopCut, Stop, Transient,
     Interrupt,
     case
<1>6. WorkerActs => jobs' = jobs
  BY <1>5 DEF WorkerActs
<1>7. EditContent \/ Compact \/ Crash \/ Start \/ StartFails \/ Idle => jobs' = jobs
  BY DEF EditContent, Compact, Crash, Start, StartFails, Idle, vars, case
<1> QED BY <1>3, <1>4, <1>6, <1>7

LEMMA JournalKept ==
  ASSUME ProposalActs \/ EditContent \/ QueueActs \/ FinishJob \/ Retried \/ Crash
           \/ Start \/ StartFails \/ Idle
  PROVE  journal' = journal /\ asked' = asked
<1>1. CASE CreateProposal \/ CloseCase
  BY <1>1 DEF CreateProposal, CloseCase, server
<1>2. ASSUME NEW p \in DOMAIN proposals,
             SaveProposal(p) \/ ApproveProposal(p) \/ ApplyProposal(p)
               \/ CloseProposal(p)
      PROVE  journal' = journal /\ asked' = asked
  BY <1>2 DEF SaveProposal, ApproveProposal, ApplyProposal, CloseProposal, server
<1>3. ProposalActs => journal' = journal /\ asked' = asked
  BY <1>1, <1>2 DEF ProposalActs
<1>4. QueueActs => journal' = journal /\ asked' = asked
  BY DEF QueueActs, RequestReassessment, RequestCaseOpinion,
     RequestSecondOpinion, server
<1>5. FinishJob \/ Retried => journal' = journal /\ asked' = asked
  BY DEF FinishJob, FinishAssessment, FinishOpinion, FailJob, Retried, RetryJob,
     server
<1>6. EditContent \/ Crash \/ Start \/ StartFails \/ Idle =>
        journal' = journal /\ asked' = asked
  BY DEF EditContent, Crash, Start, StartFails, Idle, vars, server
<1> QED BY <1>3, <1>4, <1>5, <1>6

LEMMA GivenKept ==
  ASSUME EditContent \/ QueueActs \/ RequestActs \/ FinishJob \/ Retried
           \/ Compact \/ Crash \/ Start \/ StartFails \/ Idle
  PROVE  approvals' = approvals /\ applied' = applied
<1>1. QueueActs => approvals' = approvals /\ applied' = applied
  BY DEF QueueActs, RequestReassessment, RequestCaseOpinion,
     RequestSecondOpinion, server, given
<1>2. FinishJob \/ Retried => approvals' = approvals /\ applied' = applied
  BY DEF FinishJob, FinishAssessment, FinishOpinion, FailJob, Retried, RetryJob,
     server, given
<1>3. RequestActs => approvals' = approvals /\ applied' = applied
  BY DEF RequestActs, RequestApproval, RepeatRequest, RetryRequest, Admit, given
<1>4. EditContent \/ Compact \/ Crash \/ Start \/ StartFails \/ Idle =>
        approvals' = approvals /\ applied' = applied
  BY DEF EditContent, Compact, Crash, Start, StartFails, Idle, vars, server,
     given
<1> QED BY <1>1, <1>2, <1>3, <1>4

LEMMA ProposalsKept ==
  ASSUME EditContent \/ QueueActs \/ RequestActs \/ Retried
           \/ Compact \/ Crash \/ Start \/ StartFails \/ Idle
  PROVE  proposals' = proposals
<1>1. QueueActs => proposals' = proposals
  BY DEF QueueActs, RequestReassessment, RequestCaseOpinion,
     RequestSecondOpinion
<1>2. Retried => proposals' = proposals
  BY DEF Retried, RetryJob
<1>3. RequestActs => proposals' = proposals
  BY DEF RequestActs, RequestApproval, RepeatRequest, RetryRequest, Admit, case
<1>4. EditContent \/ Compact \/ Crash \/ Start \/ StartFails \/ Idle =>
        proposals' = proposals
  BY DEF EditContent, Compact, Crash, Start, StartFails, Idle, vars, case
<1> QED BY <1>1, <1>2, <1>3, <1>4

-----------------------------------------------------------------------------
(* The jobs of a case: one at a time.                                      *)

OneActiveJob == \A i, j \in ActiveJobs : i = j

\* A case has one job queued or running at most, and one begins only on an
\* open case nothing holds.
LEMMA JobMoves ==
  ASSUME CaseTypeOK, [Next]_vars
  PROVE  \/ jobs' = jobs
         \/ /\ ActiveJobs' \subseteq ActiveJobs /\ (Frozen' => Frozen)
            /\ FinishJob
         \/ /\ QueueActs \/ Retried
            /\ CanQueue /\ \E j : ActiveJobs' = {j}
<1>1. CASE jobs' = jobs
  BY <1>1
<1>2. ASSUME NEW j \in DOMAIN jobs, NEW st \in {"succeeded", "failed"},
             NEW outcome \in {"none", "proposal", "nothing", "attention"},
             jobs' \in {JobMarked(j, st), JobJudged(j, st, outcome)}
      PROVE  ActiveJobs' \subseteq ActiveJobs /\ (Frozen' => Frozen)
  <2>1. /\ DOMAIN jobs' = DOMAIN jobs /\ jobs'[j].status = st
        /\ \A i \in DOMAIN jobs : i # j => jobs'[i] = jobs[i]
    BY <1>2, JobEdits
  <2> QED BY <2>1 DEF ActiveJobs, Frozen
<1>3. CASE FinishJob
  <2>1. \E j \in DOMAIN jobs, st \in {"succeeded", "failed"},
           outcome \in {"none", "proposal", "nothing", "attention"} :
             jobs' \in {JobMarked(j, st), JobJudged(j, st, outcome)}
    <3>1. ASSUME NEW j \in DOMAIN jobs,
                 NEW outcome \in {"proposal", "nothing", "attention"},
                 FinishAssessment(j, outcome)
          PROVE  jobs' = JobJudged(j, "succeeded", outcome)
      BY <3>1, Finished
    <3>2. ASSUME NEW j \in DOMAIN jobs, FinishOpinion(j) \/ FailJob(j)
          PROVE  jobs' \in {JobMarked(j, "succeeded"), JobMarked(j, "failed")}
      BY <3>2 DEF FinishOpinion, FailJob, JobMarked
    <3> QED BY <1>3, <3>1, <3>2 DEF FinishJob
  <2> QED BY <1>2, <1>3, <2>1
<1>4. ASSUME CanQueue, NEW kind \in {"assess", "reassess", "opinion"},
             NEW source \in Nat, NEW pinned \in Nat, NEW about \in RevisionType,
             QueueJob(NewJob(kind, source, pinned, about))
      PROVE  \E j : ActiveJobs' = {j}
  <2>1. /\ DOMAIN jobs' = DOMAIN jobs \cup {Len(jobs) + 1}
        /\ \A j \in DOMAIN jobs : jobs'[j] = jobs[j]
        /\ jobs'[Len(jobs) + 1] = NewJob(kind, source, pinned, about)
    BY <1>4, Queued
  <2>2. NewJob(kind, source, pinned, about).status = "active"
    BY DEF NewJob
  <2>3. ActiveJobs' = {Len(jobs) + 1}
    BY <1>4, <2>1, <2>2 DEF ActiveJobs, CanQueue
  <2> QED BY <2>3
<1>5. CASE QueueActs
  <2>1. /\ \A j \in 0 .. Len(jobs) : PinnedBy(j) \in Nat
        /\ review.job \in 0 .. Len(jobs) /\ review.job \in Nat
        /\ content \in Nat /\ NoProposal \in RevisionType
    <3>1. /\ jobs \in Seq(JobType) /\ Len(jobs) \in Nat
          /\ review.job \in 0 .. Len(jobs) /\ content \in Nat
      BY TypeFacts DEF RowOK, CaseTypeOK
    <3>2. ASSUME NEW j \in 0 .. Len(jobs), j # 0 PROVE jobs[j].pinned \in Nat
      <4>1. jobs[j] \in JobType
        BY <3>1, <3>2, Elements
      <4> QED BY <4>1 DEF JobType
    <3> QED BY <3>1, <3>2 DEF PinnedBy, NoProposal, RevisionType
  <2>2. CASE RequestReassessment \/ RequestCaseOpinion
    <3>1. CanQueue /\ \E kind \in {"reassess", "opinion"}, source \in Nat,
                         pinned \in Nat :
                        QueueJob(NewJob(kind, source, pinned, NoProposal))
      BY <2>1, <2>2 DEF RequestReassessment, RequestCaseOpinion
    <3> QED BY <1>4, <1>5, <2>1, <3>1
  <2>3. ASSUME NEW p \in DOMAIN proposals, RequestSecondOpinion(p)
        PROVE  CanQueue /\ \E j : ActiveJobs' = {j}
    <3>1. proposals[p] \in ProposalType /\ p \in Nat
          /\ proposals[p].assessed \in 0 .. Len(jobs)
      BY TypeFacts, Elements
    <3>2. Authorised(p) \in RevisionType
      BY <3>1 DEF Authorised, RevisionType, ProposalType
    <3>3. CanQueue
          /\ QueueJob(NewJob("opinion", 0, PinnedBy(proposals[p].assessed),
                             Authorised(p)))
      BY <2>3 DEF RequestSecondOpinion
    <3> QED BY <1>4, <2>1, <3>1, <3>2, <3>3
  <2> QED BY <1>5, <2>2, <2>3 DEF QueueActs
<1>6. CASE Retried
  <2>1. PICK j \in DOMAIN jobs : CanQueue /\ jobs' = JobMarked(j, "active")
    BY <1>6 DEF Retried, RetryJob, JobMarked
  <2>2. /\ DOMAIN jobs' = DOMAIN jobs /\ jobs'[j].status = "active"
        /\ \A i \in DOMAIN jobs : i # j => jobs'[i] = jobs[i]
    BY <2>1, JobEdits
  <2>3. ActiveJobs' = {j}
    BY <2>1, <2>2 DEF ActiveJobs, CanQueue
  <2> QED BY <1>6, <2>1, <2>3
<1> QED BY <1>1, <1>3, <1>5, <1>6, Groups, JobsKept

LEMMA OneActiveJobStep ==
  ASSUME CaseTypeOK, OneActiveJob, [Next]_vars
  PROVE  OneActiveJob'
<1>1. CASE jobs' = jobs
  BY <1>1 DEF OneActiveJob, ActiveJobs
<1>2. CASE ActiveJobs' \subseteq ActiveJobs
  BY <1>2 DEF OneActiveJob
<1>3. CASE \E j : ActiveJobs' = {j}
  BY <1>3 DEF OneActiveJob
<1> QED BY <1>1, <1>2, <1>3, JobMoves

-----------------------------------------------------------------------------
(* The journal: one item for each request.                                 *)

DistinctRequests ==
  \A i, k \in DOMAIN journal : journal[i].request = journal[k].request => i = k

\* A request is recorded as active, at the end of the journal or in its
\* place, and the row holds the case for it; or it is not recorded, and the
\* hold is taken back or the server dies.
LEMMA RequestMoves ==
  ASSUME CaseTypeOK, DistinctRequests, RequestActs
  PROVE  /\ up /\ Editable /\ review'.state = review.state
         /\ UNCHANGED <<case, given>>
         /\ up' => up
         /\ \E r \in Nat \ {0}, n \in Nat :
              \/ /\ review'.approval = "pending" /\ review'.request = r
                 /\ DOMAIN journal' = DOMAIN journal \cup {n}
                 /\ \A k \in DOMAIN journal :
                      k # n => /\ journal'[k] = journal[k]
                               /\ journal[k].request # r
                 /\ journal'[n] = Item(r, "active", 0)
              \/ /\ journal' = journal
                 /\ review'.approval = "none"
              \/ /\ journal' = journal
                 /\ review'.approval = "pending" /\ up' = FALSE
<1>1. /\ \A i \in DOMAIN journal : journal[i].request \in DOMAIN asked
      /\ Len(asked) \in Nat /\ DOMAIN asked = 1 .. Len(asked)
      /\ \A r \in DOMAIN asked : /\ asked[r] \in RevisionType
                                 /\ asked[r].proposal \in DOMAIN proposals
      /\ review \in ReviewType /\ Len(journal) \in Nat
      /\ DOMAIN journal = 1 .. Len(journal)
  BY TypeFacts DEF RowOK
<1>2. ASSUME NEW r \in Nat \ {0}, NEW a \in RevisionType, NEW n \in Nat,
             a.proposal \in DOMAIN proposals, NEW items \in Seq(ItemType),
             Intend(r, a, items),
             DOMAIN items = DOMAIN journal \cup {n},
             \A k \in DOMAIN journal : k # n => /\ items[k] = journal[k]
                                                /\ journal[k].request # r,
             items[n] = Item(r, "active", 0)
      PROVE  /\ review'.state = review.state /\ (up' => up)
             /\ \/ /\ review'.approval = "pending" /\ review'.request = r
                   /\ journal' = items
                \/ journal' = journal /\ review'.approval = "none"
                \/ /\ journal' = journal
                   /\ review'.approval = "pending" /\ up' = FALSE
  <2> DEFINE p == a.proposal
             held == Hold(review, r, p)
  <2>1. /\ held.approval = "pending" /\ held.request = r
        /\ held.state = review.state
        /\ Free(held).approval = "none" /\ Free(held).state = review.state
    <3>1. p \in Nat
      BY <1>2 DEF RevisionType
    <3> HIDE DEF p
    <3> QED BY <1>1, <3>1 DEF Hold, Free, ReviewType
  <2>2. /\ (up' => up)
        /\ \/ review' = held /\ journal' = items
           \/ review' = Free(held) /\ journal' = journal /\ up' = up
           \/ review' = held /\ journal' = journal /\ up' = FALSE
    BY <1>2, IntendCases
  <2> HIDE DEF held
  <2> QED BY <2>1, <2>2
<1>3. ASSUME NEW r \in Nat \ {0}, r \notin Requested, NEW a \in RevisionType,
             a.proposal \in DOMAIN proposals,
             Intend(r, a, Append(journal, Item(r, "active", 0)))
      PROVE  LET items == Append(journal, Item(r, "active", 0))
                 n == Len(journal) + 1
             IN  /\ review'.state = review.state /\ (up' => up)
                 /\ DOMAIN items = DOMAIN journal \cup {n} /\ n \in Nat
                 /\ \A k \in DOMAIN journal : k # n =>
                      items[k] = journal[k] /\ journal[k].request # r
                 /\ items[n] = Item(r, "active", 0)
                 /\ \/ /\ review'.approval = "pending" /\ review'.request = r
                       /\ journal' = items
                    \/ journal' = journal /\ review'.approval = "none"
                    \/ /\ journal' = journal
                       /\ review'.approval = "pending" /\ up' = FALSE
  <2> DEFINE items == Append(journal, Item(r, "active", 0))
             n == Len(journal) + 1
  <2>1. /\ items \in Seq(ItemType)
        /\ DOMAIN items = DOMAIN journal \cup {n}
        /\ \A k \in DOMAIN journal : items[k] = journal[k]
        /\ items[n] = Item(r, "active", 0)
    BY Recorded
  <2>2. n \in Nat /\ \A k \in DOMAIN journal : journal[k].request # r
    BY <1>1, <1>3 DEF Requested
  <2>3. Intend(r, a, items)
    BY <1>3
  <2> HIDE DEF items, n
  <2>4. \A k \in DOMAIN journal : k # n => /\ items[k] = journal[k]
                                           /\ journal[k].request # r
    BY <2>1, <2>2
  <2>5. /\ review'.state = review.state /\ (up' => up)
        /\ \/ /\ review'.approval = "pending" /\ review'.request = r
              /\ journal' = items
           \/ journal' = journal /\ review'.approval = "none"
           \/ /\ journal' = journal
              /\ review'.approval = "pending" /\ up' = FALSE
    BY <1>2, <1>3, <2>1, <2>2, <2>3, <2>4
  <2> QED BY <2>1, <2>2, <2>5 DEF items, n
<1>4. ASSUME NEW p \in DOMAIN proposals, RequestApproval(p)
      PROVE  \E r \in Nat \ {0}, a \in RevisionType :
               /\ r \notin Requested /\ a.proposal \in DOMAIN proposals
               /\ Intend(r, a, Append(journal, Item(r, "active", 0)))
               /\ up /\ Editable /\ UNCHANGED <<case, given>>
  <2>1. proposals[p] \in ProposalType /\ p \in Nat
    BY TypeFacts, Elements
  <2>2. Authorised(p) \in RevisionType /\ Authorised(p).proposal = p
    BY <2>1 DEF Authorised, RevisionType, ProposalType
  <2>3. Len(asked) + 1 \in Nat \ {0} /\ Len(asked) + 1 \notin Requested
    BY <1>1 DEF Requested
  <2>4. /\ Intend(Len(asked) + 1, Authorised(p),
                  Append(journal, Item(Len(asked) + 1, "active", 0)))
        /\ up /\ Editable /\ UNCHANGED <<case, given>>
    BY <1>4 DEF RequestApproval, Admit, Admissible
  <2> QED BY <2>2, <2>3, <2>4
<1>5. ASSUME NEW r \in DOMAIN asked, RepeatRequest(r)
      PROVE  \E q \in Nat \ {0}, a \in RevisionType :
               /\ q \notin Requested /\ a.proposal \in DOMAIN proposals
               /\ Intend(q, a, Append(journal, Item(q, "active", 0)))
               /\ up /\ Editable /\ UNCHANGED <<case, given>>
  <2>1. r \in Nat \ {0} /\ asked[r] \in RevisionType
        /\ asked[r].proposal \in DOMAIN proposals
    BY <1>1
  <2>2. /\ r \notin Requested
        /\ Intend(r, asked[r], Append(journal, Item(r, "active", 0)))
        /\ up /\ Editable /\ UNCHANGED <<case, given>>
    BY <1>5 DEF RepeatRequest, Admit, Admissible
  <2> QED BY <2>1, <2>2
<1>6. CASE \/ \E p \in DOMAIN proposals : RequestApproval(p)
           \/ \E r \in DOMAIN asked : RepeatRequest(r)
  <2>1. PICK r \in Nat \ {0}, a \in RevisionType :
               /\ r \notin Requested /\ a.proposal \in DOMAIN proposals
               /\ Intend(r, a, Append(journal, Item(r, "active", 0)))
               /\ up /\ Editable /\ UNCHANGED <<case, given>>
    BY <1>4, <1>5, <1>6
  <2> DEFINE items == Append(journal, Item(r, "active", 0))
             n == Len(journal) + 1
  <2>2. /\ review'.state = review.state /\ (up' => up)
        /\ DOMAIN items = DOMAIN journal \cup {n} /\ n \in Nat
        /\ \A k \in DOMAIN journal : k # n =>
             items[k] = journal[k] /\ journal[k].request # r
        /\ items[n] = Item(r, "active", 0)
        /\ \/ /\ review'.approval = "pending" /\ review'.request = r
              /\ journal' = items
           \/ journal' = journal /\ review'.approval = "none"
           \/ /\ journal' = journal
              /\ review'.approval = "pending" /\ up' = FALSE
    BY <1>3, <2>1
  <2> HIDE DEF items, n
  <2> QED BY <2>1, <2>2
<1>7. ASSUME NEW i \in DOMAIN journal, RetryRequest(i)
      PROVE  /\ up /\ Editable /\ review'.state = review.state
             /\ UNCHANGED <<case, given>> /\ (up' => up)
             /\ \E r \in Nat \ {0} :
                  \/ /\ review'.approval = "pending" /\ review'.request = r
                     /\ DOMAIN journal' = DOMAIN journal \cup {i}
                     /\ \A k \in DOMAIN journal :
                          k # i => /\ journal'[k] = journal[k]
                                   /\ journal[k].request # r
                     /\ journal'[i] = Item(r, "active", 0)
                  \/ journal' = journal /\ review'.approval = "none"
                  \/ /\ journal' = journal
                     /\ review'.approval = "pending" /\ up' = FALSE
  <2> DEFINE r == journal[i].request
             a == asked[r]
             items == [journal EXCEPT ![i] = Item(r, "active", 0)]
  <2>1. /\ up /\ Editable /\ UNCHANGED <<case, given>> /\ Intend(r, a, items)
    BY <1>7 DEF RetryRequest
  <2>2. /\ r \in Nat \ {0} /\ a \in RevisionType /\ i \in Nat
        /\ a.proposal \in DOMAIN proposals
    BY <1>1
  <2>3. \A k \in DOMAIN journal : k # i => journal[k].request # r
    BY DEF DistinctRequests
  <2> HIDE DEF r
  <2>4. /\ items \in Seq(ItemType) /\ DOMAIN items = DOMAIN journal
        /\ \A k \in DOMAIN journal : k # i => items[k] = journal[k]
        /\ items[i] = Item(r, "active", 0)
    BY <2>2, Recorded
  <2> HIDE DEF items, a
  <2>5. DOMAIN items = DOMAIN journal \cup {i}
        /\ \A k \in DOMAIN journal : k # i => /\ items[k] = journal[k]
                                              /\ journal[k].request # r
    BY <2>3, <2>4
  <2>6. /\ review'.state = review.state /\ (up' => up)
        /\ \/ /\ review'.approval = "pending" /\ review'.request = r
              /\ journal' = items
           \/ journal' = journal /\ review'.approval = "none"
           \/ /\ journal' = journal
              /\ review'.approval = "pending" /\ up' = FALSE
    BY <1>2, <2>1, <2>2, <2>4, <2>5
  <2> QED BY <2>1, <2>2, <2>4, <2>5, <2>6
<1>8. CASE \E i \in DOMAIN journal : RetryRequest(i)
  <2>1. PICK i \in DOMAIN journal : RetryRequest(i)
    BY <1>8
  <2>2. i \in Nat
    BY <1>1
  <2>3. PICK r \in Nat \ {0} :
          \/ /\ review'.approval = "pending" /\ review'.request = r
             /\ DOMAIN journal' = DOMAIN journal \cup {i}
             /\ \A k \in DOMAIN journal :
                  k # i => /\ journal'[k] = journal[k]
                           /\ journal[k].request # r
             /\ journal'[i] = Item(r, "active", 0)
          \/ journal' = journal /\ review'.approval = "none"
          \/ journal' = journal /\ review'.approval = "pending" /\ up' = FALSE
    BY <1>7, <2>1
  <2>4. /\ up /\ Editable /\ review'.state = review.state
        /\ UNCHANGED <<case, given>> /\ (up' => up)
    BY <1>7, <2>1
  <2> QED BY <2>2, <2>3, <2>4
<1> QED BY <1>6, <1>8 DEF RequestActs

\* The worker counts an attempt at the request it took, and records its
\* outcome.
LEMMA WorkMoves ==
  ASSUME CaseTypeOK, NEW i \in DOMAIN journal, Works(i)
  PROVE  /\ up /\ Taken(i) /\ jobs' = jobs /\ asked' = asked
         /\ DOMAIN journal' = DOMAIN journal
         /\ \A k \in DOMAIN journal : k # i => journal'[k] = journal[k]
         /\ journal'[i].request = journal[i].request
         /\ journal'[i].attempts = journal[i].attempts + 1
         /\ Succeed(i) => journal'[i].status = "succeeded"
         /\ Stop(i) \/ StopCut(i) => journal'[i].status = "attention"
         /\ SucceedCut(i) => \/ journal'[i].status = "active"
                             \/ journal'[i].status = "succeeded" /\ missed'
         /\ Transient(i) => Stop(i) \/ journal'[i].status = "active"
         /\ Interrupt(i) => journal'[i].status = "active"
<1> DEFINE Counts(st) ==
      /\ DOMAIN journal' = DOMAIN journal
      /\ \A k \in DOMAIN journal : k # i => journal'[k] = journal[k]
      /\ journal'[i].request = journal[i].request
      /\ journal'[i].attempts = journal[i].attempts + 1
      /\ journal'[i].status = st
<1>1. ASSUME NEW st \in {"active", "succeeded", "attention"},
             journal' = Ended(i, st)
      PROVE  Counts(st)
  BY <1>1, Attempt
<1>2. /\ journal[i].status \in {"active", "succeeded", "attention"}
      /\ journal[i].attempts \in Nat
  <2>1. journal[i] \in ItemType
    BY TypeFacts, Elements
  <2> QED BY <2>1 DEF ItemType
<1>3. Taken(i) /\ up
  BY DEF Works, Succeed, Refuse, SucceedCut, Fail, StopCut, Stop, Transient,
     Interrupt
<1>4. journal[i].status = "active"
  BY <1>3 DEF Taken, ActiveItem
<1>5. ASSUME journal' = Started(i) PROVE Counts("active")
  BY <1>2, <1>4, <1>5, Attempt
<1>6. jobs' = jobs /\ asked' = asked
  BY DEF Works, Succeed, Refuse, SucceedCut, Fail, StopCut, Stop, Transient,
     Interrupt,
     case
<1>7. Succeed(i) => journal' = Ended(i, "succeeded")
  BY DEF Succeed
<1>8. Stop(i) \/ StopCut(i) => journal' = Ended(i, "attention")
  BY DEF Stop, StopCut
<1>9. SucceedCut(i) => \/ journal' = Started(i)
                       \/ journal' = Ended(i, "succeeded") /\ missed'
  BY DEF SucceedCut
<1>10. Transient(i) => Stop(i) \/ journal' = Ended(i, "active")
  BY DEF Transient
<1>11. Interrupt(i) => journal' = Started(i)
  BY DEF Interrupt
<1>12. Fail(i) \/ Refuse(i) => Stop(i)
  BY DEF Fail, Refuse
<1> QED BY <1>1, <1>3, <1>5, <1>6, <1>7, <1>8, <1>9, <1>10, <1>11, <1>12
     DEF Works

LEMMA DistinctStep ==
  ASSUME CaseTypeOK, DistinctRequests, [Next]_vars
  PROVE  DistinctRequests'
<1>1. CASE journal' = journal
  BY <1>1 DEF DistinctRequests
<1>2. CASE RequestActs
  <2>1. CASE journal' = journal
    BY <2>1 DEF DistinctRequests
  <2>2. ASSUME NEW r \in Nat, NEW n \in Nat,
               DOMAIN journal' = DOMAIN journal \cup {n},
               \A k \in DOMAIN journal : k # n => /\ journal'[k] = journal[k]
                                                  /\ journal[k].request # r,
               journal'[n] = Item(r, "active", 0)
        PROVE  DistinctRequests'
    <3>1. journal'[n].request = r
      BY <2>2 DEF Item
    <3> QED BY <2>2, <3>1 DEF DistinctRequests
  <2> QED BY <1>2, <2>1, <2>2, RequestMoves
<1>3. CASE WorkerActs
  <2>1. PICK i \in DOMAIN journal : Works(i)
    BY <1>3 DEF WorkerActs
  <2>2. /\ DOMAIN journal' = DOMAIN journal
        /\ \A k \in DOMAIN journal : k # i => journal'[k] = journal[k]
        /\ journal'[i].request = journal[i].request
    BY <2>1, WorkMoves
  <2> QED BY <2>2 DEF DistinctRequests
<1>4. CASE Compact
  <2>1. PICK at \in [DOMAIN journal' -> Kept] :
          /\ \A k \in DOMAIN journal' : journal'[k] = journal[at[k]]
          /\ \A k, l \in DOMAIN journal' : k # l => at[k] # at[l]
    BY <1>4, Compacted
  <2>2. \A k \in DOMAIN journal' : at[k] \in DOMAIN journal
    BY <2>1 DEF Kept
  <2> QED BY <2>1, <2>2 DEF DistinctRequests
<1> QED BY <1>1, <1>2, <1>3, <1>4, Groups, JournalKept

-----------------------------------------------------------------------------
(* Applications.                                                           *)

\* One undecided proposal is applied, as it was approved and, for a request,
\* as the request names it.
Applies ==
  \E p \in Unsettled(proposals), by \in {0} \cup DOMAIN asked :
    /\ Write(by, p) /\ Authorised(p) \in approvals'
    /\ approvals \subseteq approvals' /\ asked' = asked
    /\ by # 0 => asked[by] = Authorised(p)

\* A revision that is the current one of its proposal.
LEMMA Revision ==
  ASSUME CaseTypeOK, NEW r \in DOMAIN asked, SameRevision(asked[r])
  PROVE  asked[r] = Authorised(asked[r].proposal)
<1>1. asked[r] \in RevisionType
  BY TypeFacts
<1> QED BY <1>1 DEF RevisionType, SameRevision, Authorised

\* A step applies one proposal, or it applies none, and then changes no
\* proposal that is decided and no revision that is asked for.
LEMMA ProposalMoves ==
  ASSUME CaseTypeOK, [Next]_vars
  PROVE  \/ Applies
         \/ /\ applied' = applied /\ approvals \subseteq approvals'
            /\ \A r \in DOMAIN asked :
                 r \in DOMAIN asked' /\ asked'[r] = asked[r]
            /\ \A p \in DOMAIN proposals :
                 /\ p \in DOMAIN proposals'
                 /\ p \in Unsettled(proposals) \/ proposals'[p] = proposals[p]
<1> DEFINE Same(ps) ==
      \A p \in DOMAIN proposals :
        /\ p \in DOMAIN ps
        /\ p \in Unsettled(proposals) \/ ps[p] = proposals[p]
           Still == \A r \in DOMAIN asked :
                      r \in DOMAIN asked' /\ asked'[r] = asked[r]
<1>1. asked' = asked => Still
  OBVIOUS
<1>2. proposals' = proposals => Same(proposals')
  OBVIOUS
<1>3. ASSUME NEW p \in Unsettled(proposals),
             NEW st \in {"approved", "closed"}, proposals' = Marked(p, st)
      PROVE  Same(proposals')
  <2>1. p \in DOMAIN proposals
    BY DEF Unsettled
  <2>2. /\ DOMAIN proposals' = DOMAIN proposals
        /\ \A q \in DOMAIN proposals : q # p => proposals'[q] = proposals[q]
    BY <1>3, <2>1, ProposalStatus
  <2> QED BY <1>3, <2>2
<1>4. CASE ProposalActs
  <2>1. Still
    BY <1>1, <1>4, JournalKept
  <2>2. CASE CreateProposal
    <3>1. /\ proposals' = Append(proposals, NewProposal(review.job))
          /\ applied' = applied /\ approvals' = approvals
      BY <2>2 DEF CreateProposal, server, given
    <3>2. review.job \in 0 .. Len(jobs) /\ proposals \in Seq(ProposalType)
          /\ \A p \in DOMAIN proposals : proposals[p].assessed \in 0 .. Len(jobs)
      BY TypeFacts DEF RowOK
    <3>3. /\ DOMAIN proposals' = DOMAIN proposals \cup {Len(proposals) + 1}
          /\ \A p \in DOMAIN proposals : proposals'[p] = proposals[p]
      BY <3>1, <3>2, Made
    <3> QED BY <2>1, <3>1, <3>3
  <2>3. CASE CloseCase
    <3>1. applied' = applied /\ approvals' = approvals
      BY <2>3 DEF CloseCase, server, given
    <3>2. Same(proposals')
      BY <2>3, ClosedCase
    <3> QED BY <2>1, <3>1, <3>2
  <2>4. ASSUME NEW p \in DOMAIN proposals, SaveProposal(p)
        PROVE  /\ applied' = applied /\ approvals' = approvals
               /\ Same(proposals')
    <3>1. /\ proposals' = [proposals EXCEPT ![p].version = @ + 1,
                                            ![p].status = "awaiting",
                                            ![p].base = content]
          /\ p \in Unsettled(proposals)
          /\ applied' = applied /\ approvals' = approvals
      BY <2>4 DEF SaveProposal, server, given
    <3>2. /\ DOMAIN proposals' = DOMAIN proposals
          /\ \A q \in DOMAIN proposals : q # p => proposals'[q] = proposals[q]
      BY <3>1, ProposalSaved
    <3> QED BY <3>1, <3>2
  <2>5. ASSUME NEW p \in DOMAIN proposals, ApproveProposal(p) \/ CloseProposal(p)
        PROVE  /\ applied' = applied /\ approvals \subseteq approvals'
               /\ Same(proposals')
    <3>1. /\ p \in Unsettled(proposals)
          /\ \E st \in {"approved", "closed"} : proposals' = Marked(p, st)
          /\ applied' = applied /\ approvals \subseteq approvals'
      BY <2>5 DEF ApproveProposal, CloseProposal, Marked, server, given
    <3> QED BY <1>3, <3>1
  <2>6. ASSUME NEW p \in DOMAIN proposals, ApplyProposal(p)
        PROVE  Applies
    <3>1. /\ Write(0, p) /\ approvals' = approvals /\ asked' = asked
          /\ proposals[p].status = "approved" /\ Authorised(p) \in approvals
      BY <2>6 DEF ApplyProposal
    <3>2. p \in Unsettled(proposals)
      BY <3>1 DEF Unsettled
    <3> QED BY <3>1, <3>2 DEF Applies
  <2> QED BY <1>4, <2>1, <2>2, <2>3, <2>4, <2>5, <2>6 DEF ProposalActs
<1>5. CASE FinishJob
  <2>1. Still /\ applied' = applied /\ approvals' = approvals
    BY <1>1, <1>5, JournalKept, GivenKept
  <2>2. ASSUME NEW j \in DOMAIN jobs,
               NEW outcome \in {"proposal", "nothing", "attention"},
               FinishAssessment(j, outcome)
        PROVE  Same(proposals')
    <3>1. proposals' = Replaced(j, outcome)
      BY <2>2, Finished
    <3> QED BY <3>1, Judgment
  <2>3. ASSUME NEW j \in DOMAIN jobs, FinishOpinion(j) \/ FailJob(j)
        PROVE  Same(proposals')
    BY <1>2, <2>3 DEF FinishOpinion, FailJob
  <2> QED BY <1>5, <2>1, <2>2, <2>3 DEF FinishJob
<1>6. CASE RequestActs
  <2>1. proposals' = proposals /\ applied' = applied /\ approvals' = approvals
    BY <1>6, ProposalsKept, GivenKept
  <2>2. asked' = asked
        \/ \E p \in DOMAIN proposals : asked' = Append(asked, Authorised(p))
    BY <1>6 DEF RequestActs, RequestApproval, RepeatRequest, RetryRequest
  <2>3. ASSUME NEW p \in DOMAIN proposals, asked' = Append(asked, Authorised(p))
        PROVE  Still
    <3> DEFINE D == [proposal : DOMAIN proposals, version : Nat]
    <3>1. proposals[p] \in ProposalType
      BY TypeFacts, Elements
    <3>2. Authorised(p) \in D
      BY <3>1 DEF Authorised, ProposalType
    <3>3. asked \in Seq(D)
      BY DEF CaseTypeOK
    <3> HIDE DEF D
    <3>4. /\ asked' \in Seq(D) /\ Len(asked') = Len(asked) + 1
          /\ \A r \in 1 .. Len(asked) : asked'[r] = asked[r]
      BY <2>3, <3>2, <3>3, AppendProperties
    <3>5. DOMAIN asked = 1 .. Len(asked) /\ DOMAIN asked' = 1 .. Len(asked')
          /\ Len(asked) \in Nat
      BY <3>3, <3>4, LenProperties
    <3> QED BY <3>4, <3>5
  <2> QED BY <1>1, <1>2, <2>1, <2>2, <2>3
<1>7. CASE WorkerActs
  <2>1. PICK i \in DOMAIN journal : Works(i)
    BY <1>7 DEF WorkerActs
  <2>2. asked' = asked
    BY <2>1, WorkMoves
  <2> DEFINE r == journal[i].request
  <2>3. r \in DOMAIN asked
    BY TypeFacts
  <2>4. CASE Succeed(i) \/ SucceedCut(i)
    <3>1. Complete(r)
      BY <2>4 DEF Succeed, SucceedCut
    <3> HIDE DEF r
    <3>2. CASE UNCHANGED <<proposals, content, given>>
      BY <1>1, <1>2, <2>2, <3>2 DEF given
    <3>3. CASE /\ Approvable(r) /\ Write(r, asked[r].proposal)
               /\ approvals' = approvals \cup {asked[r]}
      <4>1. asked[r] = Authorised(asked[r].proposal)
            /\ asked[r].proposal \in Unsettled(proposals)
        BY <2>3, <3>3, Revision DEF Approvable
      <4> QED BY <2>2, <2>3, <3>3, <4>1 DEF Applies
    <3> QED BY <2>3, <3>1, <3>2, <3>3, CompleteCases
  <2>5. CASE Unapplied(i)
    <3>1. proposals' = proposals /\ applied' = applied /\ approvals' = approvals
      BY <2>5 DEF Unapplied, Refuse, Fail, StopCut, Stop, Transient, Interrupt, case, given
    <3> QED BY <1>1, <1>2, <2>2, <3>1
  <2> QED BY <2>1, <2>4, <2>5 DEF Works, Unapplied
<1>8. CASE Compact
  BY <1>1, <1>2, <1>8, ProposalsKept, GivenKept DEF Compact
<1>9. CASE EditContent \/ QueueActs \/ Retried \/ Crash \/ Start \/ StartFails
             \/ Idle
  BY <1>1, <1>2, <1>9, ProposalsKept, GivenKept, JournalKept
<1> QED BY <1>4, <1>5, <1>6, <1>7, <1>8, <1>9, Groups

LEMMA AppliedStep ==
  ASSUME CaseTypeOK, AppliedOnceAsAsked, [Next]_vars
  PROVE  AppliedOnceAsAsked'
<1> DEFINE Revised(a) == [proposal |-> a.proposal, version |-> a.version]
<1>1. /\ \A a, b \in applied : a.proposal = b.proposal => a = b
      /\ \A a \in applied :
           /\ proposals[a.proposal].status = "applied"
           /\ a.proposal \in DOMAIN proposals
           /\ proposals[a.proposal].version = a.version
           /\ Revised(a) \in approvals
           /\ a.by # 0 => asked[a.by] = Revised(a)
           /\ a.by # 0 => a.by \in DOMAIN asked
  BY DEF AppliedOnceAsAsked, SameRevision, CaseTypeOK
<1>2. \A a \in applied : a.proposal \notin Unsettled(proposals)
  BY <1>1 DEF Unsettled
<1>3. SUFFICES
        /\ \A a, b \in applied' : a.proposal = b.proposal => a = b
        /\ \A a \in applied' :
             /\ proposals'[a.proposal].status = "applied"
             /\ a.proposal \in DOMAIN proposals'
             /\ proposals'[a.proposal].version = a.version
             /\ Revised(a) \in approvals'
             /\ a.by # 0 => asked'[a.by] = Revised(a)
  BY DEF AppliedOnceAsAsked, SameRevision
<1>4. CASE Applies
  <2>1. PICK p \in Unsettled(proposals), by \in {0} \cup DOMAIN asked :
          /\ Write(by, p) /\ Authorised(p) \in approvals'
          /\ approvals \subseteq approvals' /\ asked' = asked
          /\ by # 0 => asked[by] = Authorised(p)
    BY <1>4 DEF Applies
  <2> DEFINE new == [by |-> by, proposal |-> p, version |-> proposals[p].version]
  <2>2. p \in DOMAIN proposals
    BY DEF Unsettled
  <2>3. /\ DOMAIN proposals' = DOMAIN proposals
        /\ \A q \in DOMAIN proposals : q # p => proposals'[q] = proposals[q]
        /\ proposals'[p].status = "applied"
        /\ proposals'[p].version = proposals[p].version
        /\ applied' = applied \cup {new}
    BY <2>1, <2>2, WriteType
  <2>4. \A a \in applied : a.proposal # p
    BY <1>2
  <2>5. new.by = by /\ new.proposal = p /\ new.version = proposals[p].version
        /\ Revised(new) = Authorised(p)
    BY DEF Authorised
  <2> HIDE DEF new, Revised
  <2> QED BY <1>1, <2>1, <2>2, <2>3, <2>4, <2>5
<1>5. CASE /\ applied' = applied /\ approvals \subseteq approvals'
           /\ \A r \in DOMAIN asked :
                r \in DOMAIN asked' /\ asked'[r] = asked[r]
           /\ \A p \in DOMAIN proposals :
                /\ p \in DOMAIN proposals'
                /\ p \in Unsettled(proposals) \/ proposals'[p] = proposals[p]
  <2> HIDE DEF Revised
  <2> QED BY <1>1, <1>2, <1>5
<1> QED BY <1>4, <1>5, ProposalMoves

\* A proposal is applied at most once, whatever is retried, repeated or cut
\* and on whichever route; it is applied in the revision an operator
\* approved, and for a request in the one it named.
THEOREM AppliedOnce == Spec => []AppliedOnceAsAsked
<1>1. Init => CaseTypeOK /\ AppliedOnceAsAsked
  BY TypeInit DEF Init, AppliedOnceAsAsked
<1>2. CaseTypeOK /\ AppliedOnceAsAsked /\ [Next]_vars
        => (CaseTypeOK /\ AppliedOnceAsAsked)'
  BY TypeStep, AppliedStep
<1> QED BY <1>1, <1>2, PTL DEF Spec

-----------------------------------------------------------------------------
(* Receipts, and the truth of the journal.                                 *)

Got(as, r) == \E a \in as : a.by = r

\* Only the worker's item can gain a receipt, by being completed.
LEMMA ReceiptMoves ==
  ASSUME CaseTypeOK, [Next]_vars
  PROVE  /\ applied \subseteq applied'
         /\ \A r \in Nat \ {0} :
              Got(applied', r) /\ ~Got(applied, r) =>
                \E i \in DOMAIN journal :
                  /\ journal[i].request = r
                  /\ Succeed(i) \/ SucceedCut(i)
         /\ \A i \in DOMAIN journal :
              Succeed(i) \/ SucceedCut(i) => Got(applied', journal[i].request)
<1>1. ASSUME NEW i \in DOMAIN journal, Succeed(i) \/ SucceedCut(i)
      PROVE  LET r == journal[i].request
             IN  /\ applied \subseteq applied' /\ Got(applied', r)
                 /\ \A q : Got(applied', q) => Got(applied, q) \/ q = r
  <2> DEFINE r == journal[i].request
  <2>1. r \in DOMAIN asked /\ Complete(r)
    BY <1>1, TypeFacts DEF Succeed, SucceedCut
  <2> SUFFICES /\ applied \subseteq applied' /\ Got(applied', r)
               /\ \A q : Got(applied', q) => Got(applied, q) \/ q = r
    OBVIOUS
  <2> HIDE DEF r
  <2>2. CASE Answered(r) /\ UNCHANGED <<proposals, content, given>>
    BY <2>2 DEF Answered, HasReceipt, Got, given
  <2>3. CASE Write(r, asked[r].proposal)
    <3> DEFINE p == asked[r].proposal
               new == [by |-> r, proposal |-> p,
                       version |-> proposals[p].version]
    <3>1. applied' = applied \cup {new} /\ new.by = r
      BY <2>3 DEF Write
    <3> HIDE DEF new
    <3> QED BY <3>1 DEF Got
  <2> QED BY <2>1, <2>2, <2>3, CompleteCases
<1>2. ASSUME NEW p \in DOMAIN proposals, ApplyProposal(p)
      PROVE  /\ applied \subseteq applied'
             /\ \A q \in Nat \ {0} : Got(applied', q) => Got(applied, q)
  <2> DEFINE new == [by |-> 0, proposal |-> p, version |-> proposals[p].version]
  <2>1. applied' = applied \cup {new} /\ new.by = 0
    BY <1>2 DEF ApplyProposal, Write
  <2> HIDE DEF new
  <2> QED BY <2>1 DEF Got
<1>3. ASSUME NEW i, Unapplied(i)
      PROVE  applied' = applied
  BY <1>3 DEF Unapplied, Refuse, Fail, StopCut, Stop, Transient, Interrupt, given
<1>4. ASSUME ProposalActs, \A p \in DOMAIN proposals : ~ApplyProposal(p)
      PROVE  applied' = applied
  BY <1>4 DEF ProposalActs, CreateProposal, CloseCase, SaveProposal,
     ApproveProposal, CloseProposal, server, given
<1>5. CASE \E i \in DOMAIN journal : Succeed(i) \/ SucceedCut(i)
  <2>1. PICK i \in DOMAIN journal : Succeed(i) \/ SucceedCut(i)
    BY <1>5
  <2> QED BY <1>1, <2>1
<1>6. CASE \A i \in DOMAIN journal : ~(Succeed(i) \/ SucceedCut(i))
  <2>1. applied' = applied \/ \E p \in DOMAIN proposals : ApplyProposal(p)
    BY <1>3, <1>4, <1>6, Groups, GivenKept DEF WorkerActs, Works, Unapplied
  <2> QED BY <1>2, <1>6, <2>1
<1> QED BY <1>5, <1>6

\* What an item says of its request is true of the receipts.
Truthful(item, as) == item.status = "succeeded" => Got(as, item.request)

\* What the row shows for attention is recorded so.
Shown(row, items) ==
  row.approval = "attention" =>
    \A i \in DOMAIN items :
      items[i].request = row.request => items[i].status = "attention"

LEMMA TruthParts ==
  ASSUME JournalTellsTheTruth
  PROVE  /\ \A i \in DOMAIN journal : Truthful(journal[i], applied)
         /\ Shown(review, journal)
BY DEF JournalTellsTheTruth, Truthful, Shown, HasReceipt, Got

\* An item that asks for attention although it was applied is moot: its
\* proposal was settled with the application.
LEMMA TruthWhole ==
  ASSUME CaseTypeOK', AppliedOnceAsAsked', Shown(review', journal'),
         \A i \in DOMAIN journal' : Truthful(journal'[i], applied')
  PROVE  JournalTellsTheTruth'
<1>1. ASSUME NEW i \in DOMAIN journal', journal'[i].status = "attention",
             HasReceipt(journal[i].request)'
      PROVE  Moot(journal[i])'
  <2>1. PICK a \in applied' : a.by = journal'[i].request
    BY <1>1 DEF HasReceipt
  <2>2. journal'[i].request # 0
    <3>1. journal' \in Seq([request : DOMAIN asked', attempts : Nat,
                            status : {"active", "succeeded", "attention"}])
          /\ asked' \in Seq([proposal : DOMAIN proposals', version : Nat])
      BY DEF CaseTypeOK
    <3>2. journal'[i] \in [request : DOMAIN asked', attempts : Nat,
                           status : {"active", "succeeded", "attention"}]
      BY <3>1, Elements
    <3>3. DOMAIN asked' = 1 .. Len(asked') /\ Len(asked') \in Nat
      BY <3>1, LenProperties
    <3> QED BY <3>2, <3>3
  <2>3. /\ proposals'[a.proposal].status = "applied"
        /\ asked'[a.by] = [proposal |-> a.proposal, version |-> a.version]
    BY <2>1, <2>2 DEF AppliedOnceAsAsked
  <2>4. /\ asked'[journal'[i].request].proposal = a.proposal
        /\ a.proposal \notin Unsettled(proposals')
    BY <2>1, <2>3 DEF Unsettled
  <2> QED BY <1>1, <2>4 DEF Moot
<1>2. \A i \in DOMAIN journal' : journal'[i].status = "succeeded" =>
        HasReceipt(journal[i].request)'
  BY DEF Truthful, Got, HasReceipt
<1>3. review'.approval = "attention" =>
        \A i \in DOMAIN journal' :
          review'.request = journal'[i].request =>
            journal'[i].status = "attention"
  BY DEF Shown
<1> QED BY <1>1, <1>2, <1>3 DEF JournalTellsTheTruth

LEMMA TruthfulStep ==
  ASSUME CaseTypeOK, DistinctRequests, [Next]_vars,
         \A i \in DOMAIN journal : Truthful(journal[i], applied)
  PROVE  \A i \in DOMAIN journal' : Truthful(journal'[i], applied')
<1>1. \A i \in DOMAIN journal : Truthful(journal[i], applied')
  BY ReceiptMoves DEF Truthful, Got
<1>2. CASE WorkerActs
  <2>1. PICK i \in DOMAIN journal : Works(i)
    BY <1>2 DEF WorkerActs
  <2>2. /\ DOMAIN journal' = DOMAIN journal
        /\ \A k \in DOMAIN journal : k # i => journal'[k] = journal[k]
        /\ journal'[i].request = journal[i].request
        /\ Stop(i) \/ StopCut(i) => journal'[i].status = "attention"
        /\ Transient(i) => Stop(i) \/ journal'[i].status = "active"
        /\ Interrupt(i) => journal'[i].status = "active"
    BY <2>1, WorkMoves
  <2>3. CASE Succeed(i) \/ SucceedCut(i)
    BY <1>1, <2>2, <2>3, ReceiptMoves DEF Truthful
  <2>4. CASE Unapplied(i)
    <3>1. journal'[i].status # "succeeded"
      BY <2>2, <2>4 DEF Unapplied, Refuse, Fail
    <3> QED BY <1>1, <2>2, <3>1 DEF Truthful
  <2> QED BY <2>1, <2>3, <2>4 DEF Works, Unapplied
<1>3. CASE journal' = journal
  BY <1>1, <1>3
<1>4. CASE RequestActs
  <2>1. ASSUME NEW n \in Nat, NEW r \in Nat,
               DOMAIN journal' = DOMAIN journal \cup {n},
               \A k \in DOMAIN journal : k # n => journal'[k] = journal[k],
               journal'[n] = Item(r, "active", 0)
        PROVE  \A i \in DOMAIN journal' : Truthful(journal'[i], applied')
    <3>1. Truthful(journal'[n], applied')
      BY <2>1 DEF Truthful, Item
    <3> QED BY <1>1, <2>1, <3>1
  <2> QED BY <1>3, <1>4, <2>1, RequestMoves
<1>5. CASE Compact
  <2>1. \A k \in DOMAIN journal' : \E i \in Kept : journal'[k] = journal[i]
    BY <1>5, Compacted
  <2> QED BY <1>1, <2>1 DEF Kept
<1> QED BY <1>2, <1>3, <1>4, <1>5, Groups, JournalKept

\* The operator's other acts free the row, or leave what it shows.
LEMMA RowActs ==
  ASSUME CaseTypeOK, ProposalActs \/ QueueActs \/ Retried
  PROVE  \/ review'.approval = "none"
         \/ /\ review'.approval = review.approval
            /\ review'.request = review.request
<1>1. review \in ReviewType
  BY TypeFacts DEF RowOK
<1>2. /\ Free(review) \in ReviewType /\ Free(review).approval = "none"
      /\ Unwarned(review) \in {review, Free(review)}
  BY <1>1, FreeRow
<1>3. CASE CreateProposal
  <2>1. review' = [Free(review) EXCEPT !.current = Len(proposals) + 1,
                                       !.state = "open"]
    BY <1>3 DEF CreateProposal
  <2> QED BY <1>2, <2>1 DEF ReviewType
<1>4. CASE CloseCase
  BY <1>1, <1>4, ClosedCase, Resolution
<1>5. ASSUME NEW p \in DOMAIN proposals,
             SaveProposal(p) \/ ApproveProposal(p) \/ RequestSecondOpinion(p)
      PROVE  review' \in {review, Unwarned(review)}
  BY <1>5 DEF SaveProposal, ApproveProposal, RequestSecondOpinion
<1>6. ASSUME NEW p \in DOMAIN proposals, ApplyProposal(p) \/ CloseProposal(p)
      PROVE  review'.approval = "none"
  <2>1. review' = ResolveTo(proposals', p)
    BY <1>6 DEF ApplyProposal, CloseProposal
  <2>2. proposals' = Marked(p, "applied") \/ proposals' = Marked(p, "closed")
    BY <1>6 DEF ApplyProposal, CloseProposal, Write, Marked
  <2>3. proposals' \in Seq(ProposalType) /\ Len(proposals') = Len(proposals)
    BY <2>2, ProposalStatus
  <2>4. p \in 0 .. Len(proposals')
    BY <2>3, TypeFacts
  <2> QED BY <1>1, <2>1, <2>3, <2>4, Resolution
<1>7. CASE RequestReassessment
  <2>1. \E p : review' = [Unwarned(review) EXCEPT !.current = p]
    BY <1>7 DEF RequestReassessment
  <2> QED BY <1>1, <1>2, <2>1 DEF ReviewType
<1>8. CASE RequestCaseOpinion \/ Retried
  BY <1>8 DEF RequestCaseOpinion, Retried, RetryJob
<1> QED BY <1>2, <1>3, <1>4, <1>5, <1>6, <1>7, <1>8 DEF ProposalActs, QueueActs

LEMMA ShownStep ==
  ASSUME CaseTypeOK, DistinctRequests, Shown(review, journal), [Next]_vars
  PROVE  Shown(review', journal')
<1>1. review \in ReviewType
  BY TypeFacts DEF RowOK
<1>2. CASE review'.approval # "attention"
  BY <1>2 DEF Shown
<1>3. CASE /\ review'.approval = review.approval
           /\ review'.request = review.request
           /\ journal' = journal
  BY <1>3 DEF Shown
<1>4. CASE ProposalActs \/ QueueActs \/ Retried
  BY <1>2, <1>3, <1>4, RowActs, JournalKept
<1>5. CASE FinishJob
  <2>1. review'.approval = review.approval /\ review'.request = review.request
    BY <1>5, Finished DEF FinishJob, FinishOpinion, FailJob
  <2> QED BY <1>3, <1>5, <2>1, JournalKept
<1>6. CASE EditContent \/ Crash \/ Idle
  <2>1. review' = review
    BY <1>6 DEF EditContent, Crash, Idle, vars
  <2> QED BY <1>3, <1>6, <2>1, JournalKept
<1>7. CASE RequestActs
  <2>1. \/ review'.approval = "pending"
        \/ review'.approval = "none"
    BY <1>7, RequestMoves
  <2> QED BY <1>2, <2>1
<1>8. CASE WorkerActs
  <2>1. PICK i \in DOMAIN journal : Works(i)
    BY <1>8 DEF WorkerActs
  <2> DEFINE r == journal[i].request
  <2>2. /\ DOMAIN journal' = DOMAIN journal
        /\ \A k \in DOMAIN journal : k # i => journal'[k] = journal[k]
        /\ journal'[i].request = r /\ journal[i].status = "active"
        /\ Stop(i) => journal'[i].status = "attention"
        /\ r \in DOMAIN asked /\ r \in Nat
    BY <2>1, WorkMoves, TypeFacts DEF Taken, ActiveItem
  <2>3. \A k \in DOMAIN journal : journal[k].request = r => k = i
    BY DEF DistinctRequests
  <2> HIDE DEF r
  \* The row did not show the request that was under way.
  <2>4. CASE review'.approval = review.approval /\ review'.request = review.request
    BY <2>2, <2>3, <2>4 DEF Shown, r
  <2>5. CASE Stop(i)
    <3>1. review' = Warn(review, r)
      BY <2>5 DEF Stop, r
    <3>2. CASE review.approval = "pending" /\ review.request # r
      BY <1>1, <2>2, <2>4, <3>1, <3>2, WarnRow
    <3>3. CASE ~(review.approval = "pending" /\ review.request # r)
      <4>1. review'.request = r
        BY <1>1, <2>2, <3>1, <3>3, WarnRow
      <4> QED BY <2>2, <2>3, <2>5, <4>1 DEF Shown
    <3> QED BY <3>2, <3>3
  <2>6. CASE Succeed(i) \/ SucceedCut(i)
    <3>1. /\ Complete(r)
          /\ review' = Completed(r) \/ (review' = review /\ Answered(r))
      BY <2>6 DEF Succeed, SucceedCut, r
    <3>2. CASE Answered(r)
      <4>1. Completed(r) \in {review, Free(review)}
        BY <3>2 DEF Completed, Release
      <4> QED BY <1>1, <1>2, <2>4, <3>1, <4>1, FreeRow
    <3>3. CASE ~Answered(r)
      <4>1. /\ Approvable(r) /\ proposals' \in Seq(ProposalType)
            /\ Len(proposals') = Len(proposals)
            /\ Completed(r) = ResolveTo(proposals', asked[r].proposal)
        BY <2>2, <3>1, <3>3, CompleteCases
      <4>2. asked[r].proposal \in 0 .. Len(proposals')
        BY <2>2, <4>1, TypeFacts
      <4>3. review'.approval = "none"
        BY <1>1, <3>1, <3>3, <4>1, <4>2, Resolution
      <4> QED BY <1>2, <4>3
    <3> QED BY <3>2, <3>3
  <2>7. CASE Unapplied(i) /\ ~Stop(i)
    <3>1. review' = review
      BY <2>7 DEF Unapplied, Refuse, Fail, StopCut, Transient, Interrupt
    <3> QED BY <2>4, <3>1
  <2> QED BY <2>1, <2>5, <2>6, <2>7 DEF Works, Unapplied
<1>9. CASE Compact
  <2>1. /\ review' = review
        /\ \A k \in DOMAIN journal' : \E i \in Kept : journal'[k] = journal[i]
    BY <1>9, Compacted DEF Compact
  <2> QED BY <2>1 DEF Shown, Kept
<1>10. CASE Start
  <2>1. journal' = journal
    BY <1>10, JournalKept
  <2>2. CASE Active = {}
    <3>1. Unclaimed = Free(review) /\ review' = Reminded(Unclaimed)
      BY <1>10, <2>2 DEF Unclaimed, Start
    <3>2. Free(review) \in ReviewType /\ Free(review).approval = "none"
      BY <1>1, FreeRow
    <3>3. CASE review' = Free(review)
      BY <1>2, <3>2, <3>3
    <3>4. CASE \E i \in DOMAIN journal : /\ journal[i].status = "attention"
                                         /\ review'.request = journal[i].request
      BY <2>1, <3>4 DEF Shown, DistinctRequests
    <3> QED BY <3>1, <3>2, <3>3, <3>4, RemindedRow
  <2>3. CASE Active # {}
    <3> DEFINE m == Min(Active)
               row == Reclaimed(Unclaimed, m)
    <3>1. m \in Active
      BY <2>3, StartRow
    <3>2. review' = Reminded(row)
      BY <1>10, <2>3 DEF Start
    <3> HIDE DEF m
    <3>3. row \in ReviewType /\ row.approval = "pending"
      BY <3>1, ReclaimedRow
    <3> HIDE DEF row
    <3>4. review' = row
      BY <3>2, <3>3, RemindedRow
    <3> QED BY <1>2, <3>3, <3>4
  <2> QED BY <2>2, <2>3
<1>11. CASE StartFails
  <2>1. /\ journal' = journal /\ Active # {}
        /\ review' = IF Holdable(Unclaimed, Min(Active))
                     THEN Reclaimed(Unclaimed, Min(Active)) ELSE Unclaimed
    BY <1>11, JournalKept DEF StartFails, Startable
  <2>2. CASE review' = Reclaimed(Unclaimed, Min(Active))
    <3>1. review'.approval = "pending"
      BY <2>1, <2>2, StartRow, ReclaimedRow
    <3> QED BY <1>2, <3>1
  <2>3. CASE review' = Unclaimed
    <3>1. Unclaimed \in {review, Free(review)}
      BY StartRow
    <3> QED BY <1>1, <1>2, <1>3, <2>1, <2>3, <3>1, FreeRow
  <2> QED BY <2>1, <2>2, <2>3
<1> QED BY <1>4, <1>5, <1>6, <1>7, <1>8, <1>9, <1>10, <1>11, Groups

\* What the journal says of a request is so in the database, although the two
\* are written apart: a success has its receipt, what was applied and asks for
\* attention all the same is moot, and the operator is shown for attention
\* only what the journal records so.
THEOREM JournalIsTrue == Spec => []JournalTellsTheTruth
<1> DEFINE Inv == /\ CaseTypeOK /\ DistinctRequests /\ AppliedOnceAsAsked
                  /\ JournalTellsTheTruth
<1>1. Init => Inv
  BY TypeInit DEF Init, DistinctRequests, AppliedOnceAsAsked,
     JournalTellsTheTruth
<1>2. Inv /\ [Next]_vars => Inv'
  <2> SUFFICES ASSUME Inv, [Next]_vars PROVE Inv'
    OBVIOUS
  <2>1. CaseTypeOK' /\ DistinctRequests' /\ AppliedOnceAsAsked'
    BY TypeStep, DistinctStep, AppliedStep
  <2>2. /\ \A i \in DOMAIN journal' : Truthful(journal'[i], applied')
        /\ Shown(review', journal')
    BY TruthParts, TruthfulStep, ShownStep
  <2>3. JournalTellsTheTruth'
    BY <2>1, <2>2, TruthWhole
  <2> QED BY <2>1, <2>3
<1>3. Inv => JournalTellsTheTruth
  OBVIOUS
<1> QED BY <1>1, <1>2, <1>3, PTL DEF Spec

-----------------------------------------------------------------------------
(* A case under reassessment, and a resolved one.                          *)

LEMMA FrozenKept ==
  ASSUME jobs' = jobs
  PROVE  (Frozen' <=> Frozen) /\ ActiveJobs' = ActiveJobs
BY DEF Frozen, ActiveJobs

\* Nothing is edited or applied while a case is being reassessed.
LEMMA EditsThaw ==
  ASSUME CaseTypeOK
  PROVE  /\ ProposalActs => ~Frozen /\ ~Pending
         /\ RequestActs => ~Frozen /\ ~Pending
         /\ QueueActs \/ Retried => ~Pending /\ review.state = "open"
                                    /\ review'.state = "open"
                                    /\ review'.approval # "pending"
         /\ QueueActs \/ Retried => UNCHANGED <<up, applied, proposals>>
         /\ \A i \in DOMAIN journal :
              Succeed(i) \/ SucceedCut(i) =>
                \/ UNCHANGED <<proposals, given>>
                   /\ HasReceipt(journal[i].request)
                \/ ~Frozen
                   /\ (Pending => review.request = journal[i].request)
<1>1. ProposalActs => ~Frozen /\ ~Pending
  BY DEF ProposalActs, CreateProposal, CloseCase, SaveProposal,
     ApproveProposal, ApplyProposal, CloseProposal, Editable
<1>2. RequestActs => ~Frozen /\ ~Pending
  BY DEF RequestActs, RequestApproval, RepeatRequest, RetryRequest, Admit,
     Admissible, Editable
<1>3. ASSUME QueueActs \/ Retried
      PROVE  /\ ~Pending /\ review.state = "open" /\ review'.state = "open"
             /\ review'.approval # "pending"
  <2>1. CanQueue
    BY <1>3 DEF QueueActs, RequestReassessment, RequestCaseOpinion,
       RequestSecondOpinion, Retried, RetryJob
  <2>2. review' = review \/ \E p : review' = [Unwarned(review) EXCEPT !.current = p]
    BY <1>3 DEF QueueActs, RequestReassessment, RequestCaseOpinion,
       RequestSecondOpinion, Retried, RetryJob
  <2>3. review \in ReviewType
    BY TypeFacts DEF RowOK
  <2>4. Unwarned(review) \in ReviewType /\ Unwarned(review).state = review.state
        /\ Unwarned(review).approval \in {review.approval, "none"}
    <3>1. Unwarned(review) \in {review, Free(review)}
          /\ Free(review) \in ReviewType /\ Free(review).approval = "none"
          /\ Free(review).state = review.state
      BY <2>3, FreeRow
    <3> QED BY <2>3, <3>1
  <2>5. ASSUME NEW p, review' = [Unwarned(review) EXCEPT !.current = p]
        PROVE  review'.state = review.state
               /\ review'.approval \in {review.approval, "none"}
    BY <2>4, <2>5 DEF ReviewType
  <2> QED BY <2>1, <2>2, <2>5 DEF CanQueue, Pending
<1>4. QueueActs \/ Retried => UNCHANGED <<up, applied, proposals>>
  BY DEF QueueActs, RequestReassessment, RequestCaseOpinion,
     RequestSecondOpinion, Retried, RetryJob, server, given
<1>5. ASSUME NEW i \in DOMAIN journal, Succeed(i) \/ SucceedCut(i)
      PROVE  \/ UNCHANGED <<proposals, given>>
                /\ HasReceipt(journal[i].request)
             \/ ~Frozen /\ (Pending => review.request = journal[i].request)
  <2>1. Complete(journal[i].request)
    BY <1>5 DEF Succeed, SucceedCut
  <2> QED BY <2>1 DEF Complete, Answered, Approvable, EditableFor
<1> QED BY <1>1, <1>2, <1>3, <1>4, <1>5

\* A reassessment that is under way is the case's only job, and only its own
\* result changes a proposal: the one it was asked about.
LEMMA FrozenStep ==
  ASSUME CaseTypeOK, OneActiveJob, [Next]_vars, Frozen
  PROVE  /\ UNCHANGED given
         /\ \A p \in DOMAIN proposals :
              proposals'[p] # proposals[p] =>
                p = review.current /\ ~Frozen'
<1>1. CASE WorkerActs
  <2>1. PICK i \in DOMAIN journal : Works(i)
    BY <1>1 DEF WorkerActs
  <2>2. Succeed(i) \/ SucceedCut(i) => UNCHANGED <<proposals, given>>
    BY EditsThaw
  <2>3. Unapplied(i) =>
          UNCHANGED <<proposals, given>>
    BY DEF Unapplied, Refuse, Fail, StopCut, Stop, Transient, Interrupt, case
  <2> QED BY <2>1, <2>2, <2>3 DEF Works, Unapplied
<1>2. CASE FinishJob
  <2>1. UNCHANGED given
    BY <1>2, GivenKept DEF given
  <2>2. ASSUME NEW j \in DOMAIN jobs,
               NEW outcome \in {"proposal", "nothing", "attention"},
               FinishAssessment(j, outcome),
               NEW p \in DOMAIN proposals, proposals'[p] # proposals[p]
        PROVE  p = review.current /\ ~Frozen'
    <3>1. /\ proposals' = Replaced(j, outcome)
          /\ jobs' = JobJudged(j, "succeeded", outcome)
      BY <2>2, Finished
    <3>2. p = review.current
      BY <2>2, <3>1, Judgment
    <3>3. /\ DOMAIN jobs' = DOMAIN jobs /\ jobs'[j].status = "succeeded"
          /\ \A i \in DOMAIN jobs : i # j => jobs'[i] = jobs[i]
      BY <3>1, JobEdits
    <3>4. j \in ActiveJobs
      BY <2>2 DEF FinishAssessment, ActiveJobs
    <3>5. ActiveJobs' = {}
      BY <3>3, <3>4 DEF ActiveJobs, OneActiveJob
    <3> QED BY <3>2, <3>5 DEF Frozen
  <2>3. ASSUME NEW j \in DOMAIN jobs, FinishOpinion(j) \/ FailJob(j)
        PROVE  proposals' = proposals
    BY <2>3 DEF FinishOpinion, FailJob
  <2> QED BY <1>2, <2>1, <2>2, <2>3 DEF FinishJob
<1>3. CASE EditContent \/ QueueActs \/ RequestActs \/ Retried \/ Compact
             \/ Crash \/ Start \/ StartFails \/ Idle
  BY <1>3, GivenKept, ProposalsKept DEF given
<1> QED BY <1>1, <1>2, <1>3, Groups, EditsThaw

\* While a reassessment is under way nothing of the case is approved or
\* applied, and no proposal changes but the one the reassessment replaces.
THEOREM FrozenIsUntouched == Spec => FrozenUntouched
<1> DEFINE Inv == CaseTypeOK /\ OneActiveJob
<1>1. Init => Inv
  <2>1. Init => OneActiveJob
    BY DEF Init, OneActiveJob, ActiveJobs
  <2> QED BY <2>1, TypeInit
<1>2. Inv /\ [Next]_vars => Inv'
  BY TypeStep, OneActiveJobStep
<1>3. Inv /\ [Next]_vars =>
        [Frozen => /\ UNCHANGED given
                   /\ \A p \in DOMAIN proposals :
                        proposals'[p] # proposals[p] =>
                          p = review.current /\ ~Frozen']_vars
  BY FrozenStep
<1> QED BY <1>1, <1>2, <1>3, PTL DEF Spec, FrozenUntouched

LEMMA ResolvedStep ==
  ASSUME CaseTypeOK, ResolvedIsSettled, DistinctRequests, [Next]_vars
  PROVE  ResolvedIsSettled'
<1>1. review \in ReviewType /\ review.current \in 0 .. Len(proposals)
  BY TypeFacts DEF RowOK
<1>2. SUFFICES ASSUME review'.state = "resolved"
               PROVE  Unsettled(proposals') = {} /\ ~Frozen'
  BY DEF ResolvedIsSettled, Unsettled
<1>3. ASSUME review'.state = review.state, proposals' = proposals,
             Frozen' => Frozen
      PROVE  Unsettled(proposals') = {} /\ ~Frozen'
  BY <1>2, <1>3 DEF ResolvedIsSettled
<1>4. ASSUME NEW ps \in Seq(ProposalType), NEW p \in 0 .. Len(ps),
             review' = ResolveTo(ps, p)
      PROVE  Unsettled(ps) = {}
  BY <1>1, <1>2, <1>4, Resolution
<1>5. CASE ProposalActs
  <2>1. ~Frozen'
    BY <1>5, JobsKept, FrozenKept, EditsThaw
  <2>2. CASE CreateProposal
    <3>1. Free(review) \in ReviewType
      BY <1>1, FreeRow
    <3>2. review' = [Free(review) EXCEPT !.current = Len(proposals) + 1,
                                         !.state = "open"]
      BY <2>2 DEF CreateProposal
    <3>3. review'.state = "open"
      BY <3>1, <3>2 DEF ReviewType
    <3> QED BY <1>2, <3>3
  <2>3. CASE CloseCase
    BY <1>4, <2>1, <2>3, ClosedCase
  <2>4. ASSUME NEW p \in DOMAIN proposals, SaveProposal(p) \/ ApproveProposal(p)
        PROVE  FALSE
    <3>1. p \in Unsettled(proposals)
          /\ review' \in {review, Unwarned(review)}
      BY <2>4 DEF SaveProposal, ApproveProposal
    <3>2. review'.state = review.state
      BY <1>1, <3>1, FreeRow
    <3> QED BY <1>2, <3>1, <3>2 DEF ResolvedIsSettled
  <2>5. ASSUME NEW p \in DOMAIN proposals, ApplyProposal(p) \/ CloseProposal(p)
        PROVE  Unsettled(proposals') = {}
    <3>1. review' = ResolveTo(proposals', p)
      BY <2>5 DEF ApplyProposal, CloseProposal
    <3>2. proposals' = Marked(p, "applied") \/ proposals' = Marked(p, "closed")
      BY <2>5 DEF ApplyProposal, CloseProposal, Write, Marked
    <3>3. proposals' \in Seq(ProposalType) /\ Len(proposals') = Len(proposals)
      BY <3>2, ProposalStatus
    <3>4. p \in 0 .. Len(proposals')
      BY <3>3, TypeFacts
    <3> QED BY <1>4, <3>1, <3>3, <3>4
  <2> QED BY <1>5, <2>1, <2>2, <2>3, <2>4, <2>5 DEF ProposalActs
<1>6. CASE QueueActs \/ Retried
  BY <1>2, <1>6, EditsThaw
<1>7. CASE RequestActs
  BY <1>3, <1>7, JobsKept, FrozenKept, ProposalsKept, RequestMoves
<1>8. CASE FinishJob
  <2>1. ASSUME NEW j \in DOMAIN jobs,
               NEW outcome \in {"proposal", "nothing", "attention"},
               FinishAssessment(j, outcome)
        PROVE  FALSE
    BY <1>2, <2>1, Finished
  <2>2. ASSUME NEW j \in DOMAIN jobs, FinishOpinion(j) \/ FailJob(j)
        PROVE  review' = review /\ proposals' = proposals
    BY <2>2 DEF FinishOpinion, FailJob
  <2>3. Frozen' => Frozen
    BY <1>2, <1>8, JobMoves, FrozenKept, EditsThaw
  <2> QED BY <1>3, <1>8, <2>1, <2>2, <2>3 DEF FinishJob
<1>9. CASE WorkerActs
  <2>1. PICK i \in DOMAIN journal : Works(i)
    BY <1>9 DEF WorkerActs
  <2> DEFINE r == journal[i].request
  <2>2. r \in DOMAIN asked /\ r \in Nat
    BY TypeFacts
  <2>3. Frozen' <=> Frozen
    BY <1>9, JobsKept, FrozenKept
  <2>4. CASE Succeed(i) \/ SucceedCut(i)
    <3>1. Complete(r) /\ (review' = Completed(r) \/ (review' = review /\ Answered(r)))
      BY <2>4 DEF Succeed, SucceedCut
    <3> HIDE DEF r
    <3>2. CASE Answered(r)
      <4>1. /\ proposals' = proposals /\ Completed(r) \in {review, Free(review)}
        BY <2>2, <3>1, <3>2, CompleteCases
      <4>2. review'.state = review.state
        BY <1>1, <3>1, <4>1, FreeRow
      <4> QED BY <1>3, <2>3, <4>1, <4>2
    <3>3. CASE ~Answered(r)
      <4>1. /\ Approvable(r) /\ proposals' \in Seq(ProposalType)
            /\ Len(proposals') = Len(proposals)
            /\ Completed(r) = ResolveTo(proposals', asked[r].proposal)
        BY <2>2, <3>1, <3>3, CompleteCases
      <4>2. asked[r].proposal \in 0 .. Len(proposals')
        BY <2>2, <4>1, TypeFacts
      <4> QED BY <1>4, <2>3, <3>1, <3>3, <4>1, <4>2 DEF Approvable, EditableFor
    <3> QED BY <3>2, <3>3
  <2>5. CASE Unapplied(i)
    <3>1. /\ proposals' = proposals /\ review' \in {review, Warn(review, r)}
      BY <2>5 DEF Unapplied, Refuse, Fail, StopCut, Stop, Transient, Interrupt, case
    <3> HIDE DEF r
    <3>2. review'.state = review.state
      <4>1. Warn(review, r).state = review.state
        BY <1>1, <2>2, WarnRow
      <4> QED BY <3>1, <4>1
    <3> QED BY <1>3, <2>3, <3>1, <3>2
  <2> QED BY <2>1, <2>4, <2>5 DEF Works, Unapplied
<1>10. CASE EditContent \/ Compact \/ Crash \/ Idle
  <2>1. review' = review
    BY <1>10 DEF EditContent, Compact, Crash, Idle, vars
  <2> QED BY <1>3, <1>10, <2>1, JobsKept, FrozenKept, ProposalsKept
<1>11. CASE Start
  <2> DEFINE row == IF Active = {} THEN Unclaimed
                    ELSE Reclaimed(Unclaimed, Min(Active))
  <2>1. review' = Reminded(row)
    BY <1>11 DEF Start
  <2>2. row \in ReviewType /\ row.state = review.state
    <3>1. Unclaimed \in ReviewType /\ Unclaimed.state = review.state
      BY <1>1, StartRow, FreeRow
    <3> QED BY <3>1, StartRow DEF RowOK
  <2> HIDE DEF row
  <2>3. review'.state = review.state
    BY <2>1, <2>2, RemindedRow
  <2> QED BY <1>3, <1>11, <2>3, JobsKept, FrozenKept, ProposalsKept
<1>12. CASE StartFails
  <2>1. Active # {}
    BY <1>12 DEF StartFails, Startable
  <2>2. Unclaimed.state = review.state
    BY <1>1, StartRow, FreeRow
  <2>3. review'.state = review.state
    BY <1>12, <2>1, <2>2, StartRow DEF StartFails
  <2> QED BY <1>3, <1>12, <2>3, JobsKept, FrozenKept, ProposalsKept
<1> QED BY <1>5, <1>6, <1>7, <1>8, <1>9, <1>10, <1>11, <1>12, Groups

\* A case is resolved when nothing is left to decide of it, and no
\* reassessment of it can then be under way.
THEOREM ResolvedCaseIsSettled == Spec => []ResolvedIsSettled
<1> DEFINE Inv == CaseTypeOK /\ DistinctRequests /\ ResolvedIsSettled
<1>1. Init => Inv
  BY TypeInit DEF Init, DistinctRequests, ResolvedIsSettled
<1>2. Inv /\ [Next]_vars => Inv'
  BY TypeStep, DistinctStep, ResolvedStep
<1>3. Inv => ResolvedIsSettled
  OBVIOUS
<1> QED BY <1>1, <1>2, <1>3, PTL DEF Spec

-----------------------------------------------------------------------------
(* A request holds its case.                                               *)

\* The requests that are recorded as active.
Waiting(items) ==
  {items[i].request : i \in {k \in DOMAIN items : items[k].status = "active"}}

\* The server runs, and wrote every row it had to write.
Clean == up /\ ~missed

\* How a row held by approval and request stands to the requests waiting, of
\* which those in as were applied, while the server is on and clean.
Held(row, frozen, on, clean, items, as) ==
  /\ ~(frozen /\ row.approval = "pending")
  /\ on => \A r \in Waiting(items) : ~Got(as, r) =>
             row.approval = "pending" /\ row.request = r
  /\ clean /\ row.approval = "pending" => row.request \in Waiting(items)

LEMMA HeldEquiv ==
  RequestHoldsItsCase <=> Held(review, Frozen, up, Clean, journal, applied)
BY DEF RequestHoldsItsCase, Held, Waiting, Pending, HasReceipt, Got, Active,
   ActiveItem, Clean

LEMMA HeldEquivNext ==
  RequestHoldsItsCase' <=>
    Held(review', Frozen', up', Clean', journal', applied')
BY DEF RequestHoldsItsCase, Held, Waiting, Pending, HasReceipt, Got, Active,
   ActiveItem, Clean

\* Only a start makes the server clean.
LEMMA CleanMoves ==
  ASSUME [Next]_vars, up' => up, ~Start
  PROVE  Clean' => Clean
BY MissedMoves DEF Clean

\* A step that leaves no hold, of a case that had none.
LEMMA HeldByNone ==
  ASSUME NEW row, NEW row2, NEW f, NEW f2, NEW on, NEW on2, NEW cl, NEW cl2,
         NEW items, NEW as, NEW as2, Held(row, f, on, cl, items, as),
         row.approval # "pending", row2.approval # "pending",
         on2 => on, as \subseteq as2
  PROVE  Held(row2, f2, on2, cl2, items, as2)
BY DEF Held, Got

\* A step that changes nothing of the hold.
LEMMA HeldAsBefore ==
  ASSUME NEW row, NEW row2, NEW f, NEW f2, NEW on, NEW on2, NEW cl, NEW cl2,
         NEW items, NEW items2, NEW as, Held(row, f, on, cl, items, as),
         row2.approval = row.approval, row2.request = row.request,
         on2 => on, cl2 => cl, f2 => f, Waiting(items2) = Waiting(items)
  PROVE  Held(row2, f2, on2, cl2, items2, as)
BY DEF Held

\* The server is down.
LEMMA HeldWhileDown ==
  ASSUME NEW row, NEW f, NEW on, NEW cl, NEW items, NEW as, ~on, ~cl,
         ~(f /\ row.approval = "pending")
  PROVE  Held(row, f, on, cl, items, as)
BY DEF Held

\* What the worker's item leaves waiting.
LEMMA WaitingWork ==
  ASSUME CaseTypeOK, DistinctRequests, NEW i \in DOMAIN journal, Works(i)
  PROVE  LET r == journal[i].request
         IN  /\ r \in Waiting(journal)
             /\ Waiting(journal') =
                  IF journal'[i].status = "active" THEN Waiting(journal)
                  ELSE Waiting(journal) \ {r}
<1> DEFINE r == journal[i].request
<1>1. /\ DOMAIN journal' = DOMAIN journal
      /\ \A k \in DOMAIN journal : k # i => journal'[k] = journal[k]
      /\ journal'[i].request = r
      /\ journal[i].status = "active"
  BY WorkMoves DEF Taken, ActiveItem
<1>2. \A k \in DOMAIN journal : k # i => journal[k].request # r
  BY DEF DistinctRequests
<1> QED BY <1>1, <1>2 DEF Waiting

\* What a request that is recorded adds to them.
LEMMA WaitingMore ==
  ASSUME NEW n, NEW r, DOMAIN journal' = DOMAIN journal \cup {n},
         \A k \in DOMAIN journal : k # n => /\ journal'[k] = journal[k]
                                            /\ journal[k].request # r,
         journal'[n].request = r, journal'[n].status = "active"
  PROVE  /\ r \in Waiting(journal')
         /\ Waiting(journal') \ {r} \subseteq Waiting(journal)
BY DEF Waiting

\* A compaction drops none.
LEMMA WaitingCompact ==
  ASSUME CaseTypeOK, Compact
  PROVE  Waiting(journal') = Waiting(journal)
<1>1. /\ \A k \in DOMAIN journal' : \E i \in Kept : journal'[k] = journal[i]
      /\ \A i \in Kept : \E k \in DOMAIN journal' : journal'[k] = journal[i]
  BY Compacted
<1>2. \A i \in DOMAIN journal : journal[i].status = "active" => i \in Kept
  BY DEF Kept, Moot
<1> QED BY <1>1, <1>2 DEF Waiting, Kept

LEMMA HoldByWorker ==
  ASSUME CaseTypeOK, DistinctRequests, RequestHoldsItsCase,
         NEW i \in DOMAIN journal, Works(i), [Next]_vars
  PROVE  Held(review', Frozen', up', Clean', journal', applied')
<1> DEFINE r == journal[i].request
<1>1. /\ review \in ReviewType /\ r \in Nat /\ r \in DOMAIN asked
  BY TypeFacts DEF RowOK
<1>2. Held(review, Frozen, up, Clean, journal, applied) /\ up
  BY HeldEquiv, WorkMoves
<1>3. /\ r \in Waiting(journal)
      /\ Waiting(journal') = IF journal'[i].status = "active"
                             THEN Waiting(journal)
                             ELSE Waiting(journal) \ {r}
  BY WaitingWork
<1>4. (Frozen' <=> Frozen) /\ applied \subseteq applied'
  BY JobsKept, FrozenKept, ReceiptMoves DEF WorkerActs
<1>5. /\ Succeed(i) => journal'[i].status = "succeeded"
      /\ Stop(i) \/ StopCut(i) => journal'[i].status = "attention"
      /\ SucceedCut(i) => \/ journal'[i].status = "active"
                          \/ journal'[i].status = "succeeded" /\ ~Clean'
      /\ Transient(i) => Stop(i) \/ journal'[i].status = "active"
      /\ Interrupt(i) => journal'[i].status = "active"
  BY WorkMoves DEF Clean
<1>6. Succeed(i) \/ SucceedCut(i) =>
        Got(applied', r) /\ Complete(r)
  BY ReceiptMoves DEF Succeed, SucceedCut
<1> HIDE DEF r
\* A hold of the taken request alone, or none, is let go.
<1>7. ASSUME review.approval = "pending" => review.request = r,
             review'.approval # "pending", up' => up,
             journal'[i].status # "active" \/ Got(applied', r)
      PROVE  Held(review', Frozen', up', Clean', journal', applied')
  <2>1. \A q \in Waiting(journal') : q # r => Got(applied', q)
    BY <1>2, <1>3, <1>4, <1>7 DEF Held, Got
  <2>2. \A q \in Waiting(journal') : Got(applied', q)
    BY <1>3, <1>7, <2>1
  <2> QED BY <1>7, <2>2 DEF Held
<1>8. ASSUME review'.approval = review.approval,
             review'.request = review.request,
             applied' = applied, up' => up, ~Start,
             \/ journal'[i].status = "active"
             \/ ~(review.approval = "pending" /\ review.request = r)
             \/ ~Clean'
      PROVE  Held(review', Frozen', up', Clean', journal', applied')
  <2>0. Clean' => Clean
    BY <1>8, CleanMoves
  <2>1. CASE ~Clean'
    BY <1>2, <1>3, <1>4, <1>8, <2>1 DEF Held
  <2>2. CASE journal'[i].status = "active"
    <3>1. Waiting(journal') = Waiting(journal)
      BY <1>3, <2>2
    <3> QED BY <1>2, <1>4, <1>8, <2>0, <3>1, HeldAsBefore
  <2>3. CASE /\ ~(review.approval = "pending" /\ review.request = r)
             /\ journal'[i].status # "active"
    <3>1. Waiting(journal') = Waiting(journal) \ {r}
      BY <1>3, <2>3
    <3> QED BY <1>2, <1>4, <1>8, <2>0, <2>3, <3>1 DEF Held
  <2> QED BY <1>8, <2>1, <2>2, <2>3
<1>14. ~Start
  BY <1>2 DEF Start
<1>9. CASE Succeed(i) \/ SucceedCut(i)
  <2>1. up' => up
    BY <1>2
  <2>2. /\ review' = Completed(r) \/ (review' = review /\ Answered(r) /\ SucceedCut(i))
    BY <1>9 DEF Succeed, SucceedCut, r
  <2>3. CASE Answered(r)
    <3>1. applied' = applied
      BY <1>1, <1>6, <1>9, <2>3, CompleteCases DEF given
    <3>2. CASE review' = review
      <4>1. CASE SucceedCut(i)
        BY <1>5, <1>8, <1>14, <2>1, <3>1, <3>2, <4>1
      <4>2. CASE ~SucceedCut(i)
        <5>1. review = Release(review, r)
          BY <2>2, <2>3, <3>2, <4>2 DEF Completed
        <5>2. ~(review.approval = "pending" /\ review.request = r)
          BY <1>1, <5>1, FreeRow DEF Release
        <5> QED BY <1>8, <1>14, <2>1, <3>1, <3>2, <5>2
      <4> QED BY <4>1, <4>2
    <3>3. CASE review' # review
      <4>1. review' = Free(review) /\ review.request = r
        BY <2>2, <2>3, <3>3 DEF Completed, Release
      <4>2. review'.approval # "pending"
        BY <1>1, <4>1, FreeRow
      <4> QED BY <1>6, <1>7, <1>9, <2>1, <4>1, <4>2
    <3> QED BY <3>2, <3>3
  <2>4. CASE ~Answered(r)
    <3>1. /\ Approvable(r) /\ proposals' \in Seq(ProposalType)
          /\ Len(proposals') = Len(proposals)
          /\ Completed(r) = ResolveTo(proposals', asked[r].proposal)
      BY <1>1, <1>6, <1>9, <2>4, CompleteCases
    <3>2. asked[r].proposal \in 0 .. Len(proposals')
      BY <1>1, <3>1, TypeFacts
    <3>3. review'.approval # "pending"
      BY <1>1, <2>2, <2>4, <3>1, <3>2, Resolution
    <3>4. review.approval = "pending" => review.request = r
      BY <3>1 DEF Approvable, EditableFor, Pending
    <3> QED BY <1>6, <1>7, <1>9, <2>1, <3>3, <3>4
  <2> QED BY <2>3, <2>4
<1>10. CASE Stop(i)
  <2>1. review' = Warn(review, r) /\ up' = up /\ applied' = applied
    BY <1>10 DEF Stop, given, r
  <2>2. journal'[i].status # "active" /\ (up' => up)
    BY <1>5, <1>10, <2>1
  <2>3. CASE review.approval = "pending" /\ review.request # r
    <3>1. review' = review
      BY <1>1, <2>1, <2>3, WarnRow
    <3> QED BY <1>8, <1>14, <2>1, <2>2, <2>3, <3>1
  <2>4. CASE ~(review.approval = "pending" /\ review.request # r)
    <3>1. review'.approval = "attention"
      BY <1>1, <2>1, <2>4, WarnRow
    <3> QED BY <1>7, <2>2, <2>4, <3>1
  <2> QED BY <2>3, <2>4
<1>11. CASE StopCut(i)
  <2>1. review' = review /\ ~Clean' /\ applied' = applied
    BY <1>11 DEF StopCut, given, Clean
  <2>2. up' => up
    BY <1>2
  <2> QED BY <1>8, <1>14, <2>1, <2>2
<1>12. CASE Transient(i) /\ ~Stop(i)
  <2>1. review' = review /\ applied' = applied /\ up' = up
    BY <1>12 DEF Transient, given
  <2> QED BY <1>5, <1>8, <1>12, <1>14, <2>1
<1>13. CASE Interrupt(i)
  <2>1. review' = review /\ applied' = applied
    BY <1>13 DEF Interrupt, given
  <2>2. up' => up
    BY <1>2
  <2> QED BY <1>5, <1>8, <1>13, <1>14, <2>1, <2>2
<1> QED BY <1>9, <1>10, <1>11, <1>12, <1>13 DEF Works, Refuse, Fail

LEMMA HoldByStart ==
  ASSUME CaseTypeOK, DistinctRequests, RequestHoldsItsCase,
         Start \/ StartFails
  PROVE  Held(review', Frozen', up', Clean', journal', applied')
<1>1. ~(Frozen /\ review.approval = "pending") /\ ~up /\ review \in ReviewType
  BY TypeFacts DEF RequestHoldsItsCase, Pending, Start, StartFails, RowOK
<1>2. /\ (Frozen' <=> Frozen) /\ applied' = applied /\ journal' = journal
  BY JobsKept, FrozenKept, GivenKept, JournalKept
<1>3. /\ Unclaimed \in ReviewType
      /\ Unclaimed.approval = "pending" =>
           ~Frozen /\ \E i \in Active : journal[i].request = Unclaimed.request
  <2>1. CASE \E i \in Active : journal[i].request = review.request
    BY <1>1, <2>1 DEF Unclaimed
  <2>2. CASE ~\E i \in Active : journal[i].request = review.request
    <3>1. Unclaimed = Free(review)
      BY <2>2 DEF Unclaimed
    <3> QED BY <1>1, <3>1, FreeRow
  <2> QED BY <2>1, <2>2
<1>4. ASSUME NEW i \in Active, Holdable(Unclaimed, i)
      PROVE  LET row == Reclaimed(Unclaimed, i)
             IN  /\ row \in ReviewType /\ ~Frozen
                 /\ row.approval = "pending"
                 /\ row.request = journal[i].request
  <2>1. PICK r \in Nat : r = journal[i].request
    BY TypeFacts DEF Active
  <2>2. PICK p \in Nat : p = asked[r].proposal
    BY <2>1, TypeFacts DEF Active
  <2>3. CASE Unclaimed.approval = "pending"
    BY <1>3, <1>4, <2>3 DEF Reclaimed, Holdable
  <2>4. CASE Unclaimed.approval # "pending"
    <3>1. Reclaimed(Unclaimed, i) = Hold(Unclaimed, r, p) /\ ~Frozen
      BY <1>4, <2>1, <2>2, <2>4 DEF Reclaimed, Holdable
    <3>2. /\ Hold(Unclaimed, r, p) \in ReviewType
          /\ Hold(Unclaimed, r, p).approval = "pending"
          /\ Hold(Unclaimed, r, p).request = r
      BY <1>3 DEF Hold, ReviewType
    <3> QED BY <2>1, <3>1, <3>2
  <2> QED BY <2>3, <2>4
<1>5. CASE Start
  <2>1. up' = TRUE
    BY <1>5 DEF Start
  <2>2. CASE Active = {}
    <3>1. review' = Reminded(Unclaimed) /\ Unclaimed.approval # "pending"
      BY <1>3, <1>5, <2>2 DEF Start
    <3>2. review'.approval # "pending"
      BY <1>3, <3>1, RemindedRow
    <3>3. Waiting(journal') = {}
      BY <1>2, <2>2 DEF Waiting, Active, ActiveItem
    <3> QED BY <3>2, <3>3 DEF Held
  <2>3. CASE Active # {}
    <3> DEFINE i == Min(Active)
               row == Reclaimed(Unclaimed, i)
    <3>1. i \in Active
      BY <2>3, StartRow
    <3>2. Active = {i} /\ Holdable(Unclaimed, i)
      BY <1>5, <3>1 DEF Start, Startable
    <3>3. review' = Reminded(row)
      BY <1>5, <2>3 DEF Start
    <3> HIDE DEF i
    <3>4. /\ row \in ReviewType /\ ~Frozen /\ row.approval = "pending"
          /\ row.request = journal[i].request
      BY <1>4, <3>1, <3>2
    <3> HIDE DEF row
    <3>5. review' = row
      BY <3>3, <3>4, RemindedRow
    <3>6. Waiting(journal') = {journal[i].request}
      BY <1>2, <3>2 DEF Waiting, Active, ActiveItem
    <3> QED BY <1>2, <3>4, <3>5, <3>6 DEF Held
  <2> QED BY <2>2, <2>3
<1>6. CASE StartFails
  <2>1. up' = up /\ Active # {}
    BY <1>6 DEF StartFails, server, Startable
  <2> DEFINE i == Min(Active)
  <2>2. i \in Active
    BY <2>1, StartRow
  <2>3. review' = IF Holdable(Unclaimed, i) THEN Reclaimed(Unclaimed, i)
                  ELSE Unclaimed
    BY <1>6 DEF StartFails
  <2> HIDE DEF i
  <2>4. ~(Frozen' /\ review'.approval = "pending")
    BY <1>2, <1>3, <1>4, <2>2, <2>3
  <2>5. ~up' /\ ~Clean'
    BY <1>1, <2>1 DEF Clean
  <2> QED BY <2>4, <2>5, HeldWhileDown
<1> QED BY <1>5, <1>6

LEMMA HoldStep ==
  ASSUME CaseTypeOK, DistinctRequests, RequestHoldsItsCase, [Next]_vars
  PROVE  RequestHoldsItsCase'
<1>1. SUFFICES Held(review', Frozen', up', Clean', journal', applied')
  BY HeldEquivNext
<1>15. CASE Start \/ StartFails
  BY <1>15, HoldByStart
<1>16. SUFFICES ASSUME ~Start
                PROVE  Held(review', Frozen', up', Clean', journal', applied')
  BY <1>15
<1>2. Held(review, Frozen, up, Clean, journal, applied)
  BY HeldEquiv
<1>3. review \in ReviewType
  BY TypeFacts DEF RowOK
<1>4. applied \subseteq applied'
  BY ReceiptMoves
<1>5. ASSUME ~Pending, review'.approval # "pending", up' => up,
             journal' = journal
      PROVE  Held(review', Frozen', up', Clean', journal', applied')
  <2>1. Held(review', Frozen', up', Clean', journal, applied')
    BY <1>2, <1>4, <1>5, HeldByNone DEF Pending
  <2> QED BY <1>5, <2>1
<1>6. ASSUME review'.approval = review.approval,
             review'.request = review.request, up' => up, ~Start,
             Frozen' => Frozen, Waiting(journal') = Waiting(journal),
             applied' = applied
      PROVE  Held(review', Frozen', up', Clean', journal', applied')
  <2>1. Held(review', Frozen', up', Clean', journal', applied)
    BY <1>2, <1>6, CleanMoves, HeldAsBefore
  <2> QED BY <1>6, <2>1
<1>7. CASE ProposalActs
  <2>1. ~Pending /\ journal' = journal
    BY <1>7, EditsThaw, JournalKept
  <2>2. up' = up
    BY <1>7 DEF ProposalActs, CreateProposal, CloseCase, SaveProposal,
       ApproveProposal, ApplyProposal, CloseProposal, server
  <2>3. review'.approval # "pending"
    BY <1>7, <2>1, RowActs DEF Pending
  <2> QED BY <1>5, <2>1, <2>2, <2>3
<1>8. CASE QueueActs \/ Retried
  BY <1>5, <1>8, EditsThaw, JournalKept
<1>9. CASE FinishJob
  <2>1. journal' = journal /\ applied' = applied
    BY <1>9, JournalKept, GivenKept
  <2>2. ASSUME NEW j \in DOMAIN jobs,
               NEW outcome \in {"proposal", "nothing", "attention"},
               FinishAssessment(j, outcome)
        PROVE  /\ review'.approval = review.approval
               /\ review'.request = review.request /\ up' = up
    BY <2>2, Finished DEF server
  <2>3. ASSUME NEW j \in DOMAIN jobs, FinishOpinion(j) \/ FailJob(j)
        PROVE  review' = review /\ up' = up
    BY <2>3 DEF FinishOpinion, FailJob, server
  <2>4. CASE Frozen' => Frozen
    BY <1>6, <1>9, <1>16, <2>1, <2>2, <2>3, <2>4 DEF FinishJob
  <2>5. CASE ~(Frozen' => Frozen)
    <3>1. QueueActs \/ Retried
      BY <2>5, JobMoves, FrozenKept
    <3> QED BY <1>8, <3>1
  <2> QED BY <2>4, <2>5
<1>10. CASE RequestActs
  <2>1. ~Frozen' /\ ~Pending /\ applied' = applied
    BY <1>10, JobsKept, FrozenKept, EditsThaw, GivenKept
  <2>2. (up' => up) /\ up
    BY <1>10, RequestMoves
  <2>3. \A q \in Waiting(journal) : Got(applied, q)
    BY <1>2, <2>1, <2>2 DEF Held, Pending
  <2>4. ASSUME NEW r \in Nat, NEW n \in Nat,
               review'.approval = "pending", review'.request = r,
               DOMAIN journal' = DOMAIN journal \cup {n},
               \A k \in DOMAIN journal : k # n => /\ journal'[k] = journal[k]
                                                  /\ journal[k].request # r,
               journal'[n] = Item(r, "active", 0)
        PROVE  Held(review', Frozen', up', Clean', journal', applied')
    <3>1. journal'[n].request = r /\ journal'[n].status = "active"
      BY <2>4 DEF Item
    <3>2. /\ r \in Waiting(journal')
          /\ Waiting(journal') \ {r} \subseteq Waiting(journal)
      BY <2>4, <3>1, WaitingMore
    <3> QED BY <2>1, <2>3, <2>4, <3>2 DEF Held
  <2>5. CASE journal' = journal /\ review'.approval = "none"
    BY <1>5, <2>1, <2>2, <2>5
  <2>6. CASE up' = FALSE
    <3>1. ~Clean'
      BY <2>6 DEF Clean
    <3> QED BY <2>1, <2>6, <3>1, HeldWhileDown
  <2> QED BY <1>10, <2>4, <2>5, <2>6, RequestMoves
<1>11. CASE WorkerActs
  BY <1>11, HoldByWorker DEF WorkerActs
<1>12. CASE EditContent \/ Idle
  <2>1. /\ review' = review /\ up' = up /\ journal' = journal
        /\ applied' = applied /\ (Frozen' <=> Frozen)
    <3>1. review' = review /\ up' = up
      BY <1>12 DEF EditContent, Idle, vars, server
    <3> QED BY <1>12, <3>1, JournalKept, GivenKept, JobsKept, FrozenKept
  <2> QED BY <1>6, <1>12, <1>16, <2>1
<1>13. CASE Compact
  <2>1. review' = review /\ up' = up
    BY <1>13 DEF Compact
  <2>2. applied' = applied /\ (Frozen' <=> Frozen)
        /\ Waiting(journal') = Waiting(journal)
    BY <1>13, GivenKept, JobsKept, FrozenKept, WaitingCompact
  <2> QED BY <1>6, <1>13, <1>16, <2>1, <2>2
<1>14. CASE Crash
  <2>1. review' = review /\ ~up' /\ ~Clean'
    BY <1>14 DEF Crash, Clean
  <2>2. Frozen' <=> Frozen
    BY <1>14, JobsKept, FrozenKept
  <2>3. ~(Frozen' /\ review'.approval = "pending")
    BY <1>2, <2>1, <2>2 DEF Held
  <2> QED BY <2>1, <2>3, HeldWhileDown
<1> QED BY <1>7, <1>8, <1>9, <1>10, <1>11, <1>12, <1>13, <1>14, <1>15,
    <1>16, Groups

\* While the server runs, a request that was not applied yet holds its case
\* against every other writer; what holds a case is a request the worker will
\* take, unless the write that had to let go of it failed alone; and a case
\* being reassessed is held by none.
THEOREM CaseIsHeld == Spec => []RequestHoldsItsCase
<1> DEFINE Inv == CaseTypeOK /\ DistinctRequests /\ RequestHoldsItsCase
<1>1. Init => Inv
  BY TypeInit DEF Init, DistinctRequests, RequestHoldsItsCase, Pending, Active
<1>2. Inv /\ [Next]_vars => Inv'
  BY TypeStep, DistinctStep, HoldStep
<1>3. Inv => RequestHoldsItsCase
  OBVIOUS
<1> QED BY <1>1, <1>2, <1>3, PTL DEF Spec

=============================================================================
