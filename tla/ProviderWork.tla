---------------------------- MODULE ProviderWork ----------------------------
(***************************************************************************)
(* The three workers that call providers, in the one process of the        *)
(* service and under the operator's switches: what they promise however    *)
(* that process is stopped, killed and started and the switches thrown.    *)
(***************************************************************************)
EXTENDS ReflectionJobs, PracticePreparation, WordPreparation

\* Bound: what there is to do at first, any of these.
CONSTANTS
  Scenarios,
  Sessions   \* and the cases of the session, any of these

ASSUME ScenariosAssumption ==
  /\ Scenarios \subseteq SUBSET {"session", "practice", "word"}
  /\ Sessions \subseteq SUBSET Jobs

vars == <<hosted, reflect, prep, wordprep>>

Dispatch(status, cases) == [status |-> status, late |-> FALSE, cases |-> cases]

Init ==
  /\ HostedInit /\ ReflectInit /\ PracticeInit
  /\ \E todo \in Scenarios :
       /\ IF "session" \in todo
          THEN \E cases \in Sessions : dispatch = Dispatch("queued", cases)
          ELSE dispatch = Dispatch("absent", {})
       /\ demand = ("practice" \in todo)
       /\ candidate = ("word" \in todo)
  /\ WordInit

\* stop has awaited what was under way.
Stopped ==
  /\ process = "stopping" /\ (\A k \in Kinds : ~Flying(k)) /\ step = "none"
  /\ drafting.at = "none"
  /\ Down /\ StepLost /\ DraftLost /\ UNCHANGED <<deaths, reflect, candidate>>

\* The process dies anywhere, with a local pass under way or not.
Dies ==
  /\ process # "down" /\ deaths < MaxDeaths /\ deaths' = deaths + 1
  /\ Down /\ StepLost /\ UNCHANGED candidate
  /\ \/ DraftLost /\ (FlightsLost \/ DispatchCut)
     \/ DraftCut /\ FlightsLost

\* One worker moves, the others and the process do not.
Aside  == UNCHANGED <<hosted, prep, wordprep>>
Apart  == UNCHANGED <<hosted, reflect, wordprep>>
Beside == UNCHANGED <<hosted, reflect, prep, candidate>>

Next ==
  \/ ReflectStep /\ Aside
  \/ PracticeStep /\ Apart
  \/ WordStep /\ Beside
  \/ (Switch \/ Stop \/ Start) /\ UNCHANGED <<reflect, prep, wordprep>>
  \/ Stopped \/ Dies

Spec == Init /\ [][Next]_vars

\* The workers' timers, the time limit of a provider's call, the clock, and
\* whoever starts the process again; neither the operator nor the learner.
Fairness ==
  /\ WF_vars(LocalPass /\ Aside) /\ WF_vars(DispatchTime /\ Aside)
  /\ \A k \in Kinds : /\ WF_vars((\E j \in Jobs : Claim(k, j)) /\ Aside)
                      /\ WF_vars(FlightStep(k) /\ Aside)
  /\ \A j \in Jobs : /\ WF_vars(JobTime(j) /\ Aside)
                     /\ WF_vars(SenseTime(j) /\ Aside)
                     /\ WF_vars(UsefulTime(j) /\ Aside)
  /\ WF_vars(Dispatches /\ Apart) /\ WF_vars(Returns /\ Apart)
  /\ WF_vars(PracticeTime /\ Apart) /\ WF_vars(SelectionTime /\ Apart)
  /\ WF_vars(ReserveWakes /\ Beside)
  /\ WF_vars(Recover /\ Beside) /\ WF_vars(Drafts /\ Beside)
  /\ WF_vars(DraftReturns /\ Beside)
  /\ \A s \in Stages : WF_vars(StageTime(s) /\ Beside)
  /\ WF_vars(ClaimTime /\ Beside) /\ WF_vars(InventoryTime /\ Beside)
  /\ WF_vars(Rest /\ Beside)
  /\ WF_vars(Stopped)
  /\ WF_vars(Start /\ UNCHANGED <<reflect, prep, wordprep>>)

FairSpec == Spec /\ Fairness

-----------------------------------------------------------------------------

\* What work costs is bounded, however it is interrupted.  Between two requests
\* of an operator or a learner a judgment is asked for at most once and a
\* mapping at most as often as its budget, and once more for each time the job
\* was interrupted while its useful senses were waited for or could not be had;
\* exercises are authored, senses prepared and chosen, and the content, lesson
\* and exercises of a word written, at most as often as a preparation may be
\* tried.  A job is judged, and exercises, content and teaching are published,
\* once in all; what is published is never given up for a failure, were it
\* published by the last attempt there was.
CallsAreBudgeted ==
  /\ \A j \in Jobs :
       /\ calls[j].content <= 1 + calls[j].resumed
       /\ calls[j].mapping <= MappingBudget + calls[j].resumed
       /\ calls[j].resumed > 0 => useful[j].status # "absent"
       /\ calls[j].judged <= 1
       /\ job[j].status = "succeeded" <=> calls[j].judged = 1
       /\ Open(job[j]) => job[j].failures < MappingBudget
       /\ sense[j].tries <= PrepAttempts /\ useful[j].tries <= PrepAttempts
  /\ authored.calls <= PrepAttempts /\ authored.published <= 1
  /\ authored.published = 1 => practice.status = "ready"
  /\ \A part \in {"content", "lesson", "exercises"} :
       made[part] <= PrepAttempts
  /\ made.contents <= 1 /\ made.packages <= 1
  /\ \A s \in Stages : Published(s) => work[s].status # "paused"

\* An answer that was kept is not asked for again: a mapping, not even of the
\* other provider after a restart by hand, and a lesson, whose exercises alone
\* are asked for when the attempt that wrote both was lost.
AnswersAreKept ==
  [][/\ \A j \in Jobs :
          job[j].mapped # "none" => calls'[j].mapping <= calls[j].mapping
     /\ \A part \in kept : made'[part] <= made[part]]_vars

\* While the service is in maintenance, or its process is not up, an answer
\* that still arrives publishes nothing (no judgment, no mapping, no senses nor
\* a choice among them, no exercises), no provider is asked anything and no work
\* is taken.  Of a word, a process that is stopping still keeps and publishes
\* what it had begun.
MaintenanceFreezes ==
  [][/\ ~Working =>
          /\ \A j \in Jobs :
               /\ calls'[j].judged = calls[j].judged
               /\ job'[j].mapped = job[j].mapped
               /\ sense'[j].status = "ready" => sense[j].status = "ready"
               /\ useful'[j].status = "ready" /\ retries' = retries =>
                    useful[j].status = "ready"
               /\ job'[j].status = "running" => job[j].status = "running"
          /\ authored'.published = authored.published
          /\ practice'.status = "running" => practice.status = "running"
          /\ Settled' => Settled
          /\ \A s \in Stages :
               work'[s].status = "running" => work[s].status = "running"
     /\ ~Permitted =>
          /\ kept' \subseteq kept
          /\ \A part \in DOMAIN made : made'[part] <= made[part]
          /\ inventory'.status = "ready" => inventory.status = "ready"]_vars

\* Nothing is left to be done: the evidence, every job of it and the practice
\* have reached an end, teaching that was asked for is published, and a word the
\* reserve waits for can be taught; or the word's preparation has stopped for an
\* operator, or has no senses to teach.
Quiet ==
  /\ ~Open(dispatch) /\ (\A j \in Jobs : ~Open(job[j])) /\ ~Open(practice)
  /\ \/ Blocked \/ inventory.status = "empty"
     \/ /\ Open(work["teaching"]) => Published("teaching")
        /\ request => TeachingReady

\* Once the service is up for good and provider work allowed, whatever was asked
\* for comes to its end, whatever interrupted it before, and stays there.
WorkSettles == <>[]Allowed => <>[]Quiet
=============================================================================
