--------------------------- MODULE ReflectionJobs ---------------------------
(***************************************************************************)
(* The durable jobs behind a closed session: its evidence is dispatched    *)
(* and ingested, each case of it gets a job, and a job is run under a      *)
(* lease by calls to providers that may return late, never, or to another  *)
(* process (processing-worker.ts, the jobs of vocabulary-reflection.ts and *)
(* the readiness of senses, and of the useful ones among them, that an     *)
(* improvement depends on).                                                *)
(*                                                                         *)
(* A pass of the worker is one action up to its first await; a flight is   *)
(* what one kind of job awaits, one action for each of its awaits.  There  *)
(* is no clock: a lease runs out, and a delay ends, at any time after it   *)
(* began.                                                                  *)
(***************************************************************************)
EXTENDS HostedControls, FiniteSets

CONSTANTS
  Jobs,          \* the jobs a closed session may give rise to
  Improvements,  \* those that judge an exercise; the others are feedback
  Bootstraps,    \* of these, those of a dictionary fallback, which bootstrap
                 \* the exercises of its word
  Established,   \* of these, those of a word whose senses were known before
  MappingBudget, \* failed calls of sense mapping until a job fails: 6
  FallbackAt,    \* those after which another provider maps: 3
  MaxRetries,    \* bound: explicit acts of an operator, on all rows together
  MaxResumes     \* bound: after so many resumes no lease ends before its flight

ASSUME JobsAssumption ==
  /\ Improvements \subseteq Jobs
  /\ Bootstraps \subseteq Improvements /\ Established \subseteq Improvements
  /\ MappingBudget \in Nat \ {0} /\ FallbackAt \in Nat
  /\ MaxRetries \in Nat /\ MaxResumes \in Nat

VARIABLES
  dispatch, \* [status, late, cases]: the row that carries the session's
            \* evidence, and the jobs there are cases for in it
  job,      \* [status, due, late, failures, mapped]
  sense,    \* [status, due, late, tries]: the senses an improvement needs
  useful,   \* alike: which of them are useful by default, whoever chose them
  flight,   \* what each kind awaits: [job, at]; the lease of a running job is
            \* held by the flight of its kind, the worker having one of each
  calls,    \* since a job was queued by hand: calls to providers [mapping,
            \* content] and times it was resumed for its useful senses
            \* [resumed]; and the judgments recorded in all: judged
  retries

rows    == <<dispatch, job, sense, useful, calls>>
reflect == <<rows, flight, retries>>

Kinds == {"feedback", "improvement"}
KindOf(j) == IF j \in Improvements THEN "improvement" ELSE "feedback"
Idle == [at |-> "none"]
Flying(k) == flight[k].at # "none"

-----------------------------------------------------------------------------
(* Leases.                                                                 *)

\* leased: a lease that ended does not finish its job.
Leased(j) == Held(job[j])

\* Mutation of CanPublish: only the lease is looked at.
CanPublishOnLease(k) == Leased(flight[k].job)

\* canPublish, read again after every await.
CanPublish(k) == Allowed /\ Leased(flight[k].job)

\* Mutation of Interrupted: what a process left running is left so.
InterruptedNever(row) == row

\* recoverVocabularyReflectionJobs: what the provider did is unknown.
Interrupted(row) == IF Lost(row) THEN Failed(row) ELSE row

-----------------------------------------------------------------------------
(* The local pass, every half second.                                      *)

\* recoverVocabularySenseDependencies: an improvement interrupted while what it
\* depends on was prepared goes on by itself, first for its senses, then for the
\* useful ones; so does one whose useful senses wait or cannot be had, whatever
\* else it was interrupted in.
WaitsOn(j, row) ==
  /\ j \in Improvements /\ job[j].status = "running"
  /\ Lost(row) \/ (job[j].late /\ row.status \in {"queued", "failed"})

SenseTurn(j)  == WaitsOn(j, sense[j])
UsefulTurn(j) == ~SenseTurn(j) /\ WaitsOn(j, useful[j])

SenseAfter(j)  == IF SenseTurn(j) THEN Recovered(sense[j]) ELSE sense[j]
UsefulAfter(j) == IF UsefulTurn(j) THEN Recovered(useful[j]) ELSE useful[j]

JobAfter(j) ==
  CASE UsefulTurn(j) -> Delayed(job[j])
    [] SenseTurn(j) /\ SenseAfter(j).status = "queued" -> Delayed(job[j])
    [] SenseTurn(j) /\ SenseAfter(j).status # "queued" -> Failed(job[j])
    [] OTHER -> Interrupted(job[j])

CallsAfter(j) ==
  IF UsefulTurn(j) THEN [calls[j] EXCEPT !.resumed = @ + 1] ELSE calls[j]

Depends ==
  /\ sense' = [j \in Jobs |-> SenseAfter(j)]
  /\ useful' = [j \in Jobs |-> UsefulAfter(j)]
  /\ calls' = [j \in Jobs |-> CallsAfter(j)]

Created(j) ==
  IF j \in dispatch.cases /\ JobAfter(j).status = "absent"
  THEN Requeued(JobAfter(j)) ELSE JobAfter(j)

\* The evidence queued is ingested, once, and each case of it has its job.
LocalPass ==
  /\ Working /\ Depends
  /\ \/ /\ dispatch.status = "queued"
        /\ dispatch' = [dispatch EXCEPT !.status = "succeeded"]
        /\ job' = [j \in Jobs |-> Created(j)]
     \/ /\ dispatch' = CASE dispatch.status = "queued" ->
                              [dispatch EXCEPT !.status = "failed"]
                         [] Lost(dispatch) ->
                              [dispatch EXCEPT !.status = "failed", !.late = FALSE]
                         [] OTHER -> dispatch
        /\ job' = [j \in Jobs |-> JobAfter(j)]
  /\ UNCHANGED <<flight, retries>>

\* The process dies with the dispatch claimed, its evidence ingested or not.
DispatchCut ==
  /\ Working /\ dispatch.status = "queued" /\ Depends
  /\ dispatch' = [dispatch EXCEPT !.status = "running"]
  /\ \/ job' = [j \in Jobs |-> JobAfter(j)]
     \/ job' = [j \in Jobs |-> Created(j)]
  /\ flight' = [k \in Kinds |-> Idle]
  /\ UNCHANGED retries

\* claimVocabularyReflectionJob, in the pass, of a kind not in flight.
Claim(k, j) ==
  /\ Allowed /\ ~Flying(k) /\ KindOf(j) = k
  /\ Ripe(job[j])
  /\ job' = [i \in Jobs |->
       IF i = j THEN [job[j] EXCEPT !.status = "running"]
       ELSE Interrupted(job[i])]
  /\ flight' = [flight EXCEPT ![k] = [job |-> j, at |-> "claimed"]]
  /\ UNCHANGED <<dispatch, sense, useful, calls, retries>>

-----------------------------------------------------------------------------
(* A flight.                                                               *)

At(k, at) == flight[k].at = at
Goes(k, at) == flight' = [flight EXCEPT ![k].at = at]
Lands(k) == flight' = [flight EXCEPT ![k] = Idle]

\* The flight ends with its row so, unless the lease ended before it.
Ends(k, row) ==
  LET j == flight[k].job
  IN  /\ job' = IF Leased(j) THEN [job EXCEPT ![j] = row] ELSE job
      /\ Lands(k)

FailJob(k)  == Ends(k, Failed(job[flight[k].job]))
DeferJob(k) == Ends(k, Delayed(job[flight[k].job]))

\* ensureVocabularySenses: an attempt is claimed, or the job waits for one.
AskSenses(k) ==
  LET j == flight[k].job
      s == Recovered(sense[j])
      mayTry == s.status = "absent" \/ Ripe(s)
  IN  /\ At(k, "claimed") /\ j \in Improvements /\ CanPublish(k)
      /\ s.status # "ready"
      /\ \/ /\ mayTry
            /\ sense' = [sense EXCEPT ![j] = Attempted(s)]
            /\ Goes(k, "sense") /\ UNCHANGED job
         \/ /\ ~mayTry
            /\ sense' = [sense EXCEPT ![j] = s]
            /\ IF s.status = "failed" THEN FailJob(k) ELSE DeferJob(k)
      /\ UNCHANGED <<dispatch, useful, calls, retries>>

\* The inventory arrives while the job and its attempt are in time, and with it
\* which senses are useful; where it names none an operator has to choose.
SensesReady(k) ==
  LET j == flight[k].job
  IN  /\ At(k, "sense") /\ CanPublish(k)
      /\ Held(sense[j])
      /\ sense' = [sense EXCEPT ![j].status = "ready"]
      /\ \E status \in {"ready", "failed"} :
           useful' = [useful EXCEPT ![j].status = status]
      /\ Goes(k, "claimed")
      /\ UNCHANGED <<dispatch, job, calls, retries>>

\* It does not, or may not be published: the attempt fails, the job waits.
SensesFail(k) ==
  LET j == flight[k].job
      s == IF sense[j].status = "running" THEN PrepFailed(sense[j], TRUE)
           ELSE sense[j]
  IN  /\ At(k, "sense")
      /\ sense' = [sense EXCEPT ![j] = s]
      /\ \/ s.status = "failed" /\ FailJob(k)
         \/ (s.status # "failed" \/ ~CanPublish(k)) /\ DeferJob(k)
      /\ UNCHANGED <<dispatch, useful, calls, retries>>

\* The provider a mapping is asked of, part of what it is kept under.
Route(row) == IF row.failures < FallbackAt THEN "primary" ELSE "fallback"

Admitted(k, j) ==
  At(k, "claimed") /\ (j \in Improvements => sense[j].status = "ready")

\* ensureVocabularyDefaultUsefulSelection: a bootstrap asks for the useful
\* senses, or waits for them; it goes on without them where they cannot be had.
AskUseful(k) ==
  LET j == flight[k].job
      u == Recovered(useful[j])
      mayTry == u.status = "absent" \/ Ripe(u)
  IN  /\ Admitted(k, j) /\ CanPublish(k)
      /\ j \in Bootstraps /\ job[j].mapped = "none"
      /\ useful[j].status \notin {"ready", "failed"}
      /\ \/ /\ mayTry
            /\ useful' = [useful EXCEPT ![j] = Attempted(u)]
            /\ Goes(k, "useful") /\ UNCHANGED job
         \/ /\ ~mayTry
            /\ useful' = [useful EXCEPT ![j] = u]
            /\ IF u.status = "failed" THEN UNCHANGED <<job, flight>>
               ELSE DeferJob(k)
      /\ UNCHANGED <<dispatch, sense, calls, retries>>

\* They are chosen, or none is, while the job and the attempt are in time.
UsefulReturns(k) ==
  LET j == flight[k].job
  IN  /\ At(k, "useful") /\ CanPublish(k)
      /\ Held(useful[j])
      /\ \E status \in {"ready", "failed"} :
           useful' = [useful EXCEPT ![j].status = status]
      /\ Goes(k, "claimed")
      /\ UNCHANGED <<dispatch, job, sense, calls, retries>>

\* The attempt fails: the job waits for another, or goes on after the last.
UsefulFails(k) ==
  LET j == flight[k].job
      u == IF useful[j].status = "running" THEN PrepFailed(useful[j], TRUE)
           ELSE useful[j]
  IN  /\ At(k, "useful")
      /\ useful' = [useful EXCEPT ![j] = u]
      /\ IF u.status = "queued" THEN DeferJob(k)
         ELSE Goes(k, "claimed") /\ UNCHANGED job
      /\ UNCHANGED <<dispatch, sense, calls, retries>>

\* A bootstrap keeps the scope it is for, which may be none.
KeepScope(k) ==
  LET j == flight[k].job
      scope == IF useful[j].status = "ready" THEN "chosen" ELSE "unchosen"
  IN  /\ Admitted(k, j) /\ CanPublish(k)
      /\ j \in Bootstraps /\ job[j].mapped = "none"
      /\ useful[j].status \in {"ready", "failed"}
      /\ job' = [job EXCEPT ![j].mapped = scope]
      /\ UNCHANGED <<dispatch, sense, useful, calls, flight, retries>>

\* The senses of the exercise are mapped by a call of its own, kept once made.
AskMapping(k) ==
  LET j == flight[k].job
  IN  /\ Admitted(k, j) /\ j \in Improvements \ Bootstraps
      /\ job[j].mapped # Route(job[j]) /\ CanPublish(k)
      /\ calls' = [calls EXCEPT ![j].mapping = @ + 1]
      /\ Goes(k, "mapping")
      /\ UNCHANGED <<dispatch, job, sense, useful, retries>>

Mapped(k) ==
  /\ At(k, "mapping") /\ CanPublish(k)
  /\ job' = [job EXCEPT ![flight[k].job].mapped = Route(job[flight[k].job])]
  /\ Goes(k, "claimed")
  /\ UNCHANGED <<dispatch, sense, useful, calls, retries>>

\* failVocabularySenseMappingCall: the provider is not available.
MappingFails(k) ==
  LET row == [job[flight[k].job] EXCEPT !.failures = @ + 1]
  IN  /\ At(k, "mapping")
      /\ Ends(k, IF row.failures < MappingBudget THEN Delayed(row)
                 ELSE Failed(row))
      /\ UNCHANGED <<dispatch, sense, useful, calls, retries>>

\* The call that judges.
AskContent(k) ==
  LET j == flight[k].job
  IN  /\ Admitted(k, j) /\ CanPublish(k)
      /\ j \in Improvements =>
           job[j].mapped = IF j \in Bootstraps THEN "chosen" ELSE Route(job[j])
      /\ calls' = [calls EXCEPT ![j].content = @ + 1]
      /\ Goes(k, "content")
      /\ UNCHANGED <<dispatch, job, sense, useful, retries>>

\* finishVocabularyReflectionJob: the judgment, with what follows from it, and
\* the end of the job are one transaction.  An improvement may be judged without
\* that call: its senses are none, cannot be mapped, have practice already or
\* nobody chose among them.
Judge(k) ==
  LET j == flight[k].job
  IN  /\ At(k, "content") \/ (Admitted(k, j) /\ j \in Improvements)
      /\ CanPublish(k)
      /\ calls' = [calls EXCEPT ![j].judged = @ + 1]
      /\ job' = [job EXCEPT ![j].status = "succeeded"]
      /\ Lands(k)
      /\ UNCHANGED <<dispatch, sense, useful, retries>>

\* The provider refuses or returns what cannot be used; or the answer came
\* when it may no longer be published.
Fails(k) ==
  /\ flight[k].at \in {"claimed", "mapping", "content"}
  /\ FailJob(k)
  /\ UNCHANGED <<dispatch, sense, useful, calls, retries>>

-----------------------------------------------------------------------------
(* Time, and the operator.                                                 *)

\* Between its awaits a flight takes no time a lease could run out in.
JobTime(j) ==
  /\ \A k \in Kinds : Flying(k) /\ flight[k].job = j =>
       ~At(k, "claimed") /\ calls[j].resumed < MaxResumes
  /\ Timed(job[j]) /\ job' = [job EXCEPT ![j] = Later(@)]
  /\ UNCHANGED <<dispatch, sense, useful, calls, flight, retries>>

SenseTime(j) ==
  /\ Timed(sense[j]) /\ sense' = [sense EXCEPT ![j] = Later(@)]
  /\ UNCHANGED <<dispatch, job, useful, calls, flight, retries>>

UsefulTime(j) ==
  /\ Timed(useful[j]) /\ useful' = [useful EXCEPT ![j] = Later(@)]
  /\ UNCHANGED <<dispatch, job, sense, calls, flight, retries>>

DispatchTime ==
  /\ Held(dispatch) /\ dispatch' = [dispatch EXCEPT !.late = TRUE]
  /\ UNCHANGED <<job, sense, useful, calls, flight, retries>>

Explicit == retries < MaxRetries /\ retries' = retries + 1

\* Mutation of Restarted: every restart gets a fresh budget.
RestartedFresh(row) == [Requeued(row) EXCEPT !.failures = 0]

\* retryJob: a fresh cycle, unless a mapping is kept under the route it took.
Restarted(row) ==
  IF row.failures = MappingBudget \/ row.mapped = "none"
  THEN [Requeued(row) EXCEPT !.failures = 0] ELSE Requeued(row)

RetryJob(j) ==
  /\ Explicit /\ job[j].status = "failed"
  /\ job' = [job EXCEPT ![j] = Restarted(@)]
  /\ calls' = [calls EXCEPT ![j].mapping = 0, ![j].content = 0, ![j].resumed = 0]
  /\ UNCHANGED <<dispatch, sense, useful, flight>>

RetryDispatch ==
  /\ Explicit /\ dispatch.status = "failed"
  /\ dispatch' = [dispatch EXCEPT !.status = "queued"]
  /\ UNCHANGED <<job, sense, useful, flight, calls>>

RetrySenses(j) ==
  /\ Explicit /\ sense[j].status = "failed"
  /\ sense' = [sense EXCEPT ![j] = [Requeued(@) EXCEPT !.tries = 0]]
  /\ UNCHANGED <<dispatch, job, useful, flight, calls>>

\* retryDefaultUsefulSelection; or the operator chooses
\* (resolveDefaultUsefulSelectionAttention).
SettleUseful(j) ==
  /\ Explicit /\ useful[j].status = "failed"
  /\ \E row \in { [Requeued(useful[j]) EXCEPT !.tries = 0],
                  [useful[j] EXCEPT !.status = "ready"] } :
       useful' = [useful EXCEPT ![j] = row]
  /\ UNCHANGED <<dispatch, job, sense, flight, calls>>

\* A process that ends takes its flights with it; their rows stay.
FlightsLost == flight' = [k \in Kinds |-> Idle] /\ UNCHANGED <<rows, retries>>

-----------------------------------------------------------------------------

ReflectInit ==
  /\ job = [j \in Jobs |-> [ status |-> "absent", due |-> FALSE,
                             late |-> FALSE, failures |-> 0,
                             mapped |-> "none" ]]
  /\ sense = [j \in Jobs |->
       IF j \in Established THEN [NoRow EXCEPT !.status = "ready"] ELSE NoRow]
  /\ useful = [j \in Jobs |-> NoRow]
  /\ flight = [k \in Kinds |-> Idle]
  /\ calls = [j \in Jobs |->
       [mapping |-> 0, content |-> 0, judged |-> 0, resumed |-> 0]]
  /\ retries = 0

\* What the awaits of a flight come back with.
FlightStep(k) ==
  \/ AskSenses(k) \/ SensesReady(k) \/ SensesFail(k)
  \/ AskUseful(k) \/ UsefulReturns(k) \/ UsefulFails(k) \/ KeepScope(k)
  \/ AskMapping(k) \/ Mapped(k) \/ MappingFails(k)
  \/ AskContent(k) \/ Judge(k) \/ Fails(k)

ReflectStep ==
  \/ LocalPass
  \/ \E k \in Kinds : (\E j \in Jobs : Claim(k, j)) \/ FlightStep(k)
  \/ DispatchTime \/ RetryDispatch
  \/ \E j \in Jobs :
       \/ JobTime(j) \/ SenseTime(j) \/ UsefulTime(j)
       \/ RetryJob(j) \/ RetrySenses(j) \/ SettleUseful(j)

=============================================================================
