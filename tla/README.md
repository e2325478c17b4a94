# Vocabulary study: a TLA+ model, its checks and its proofs

This directory specifies the study core of the Mandarin study application in `src/`: how
one study session interprets its action log and decides what to serve next; how the
browser and the server carry a learner's commands and save sessions into what is
scheduled; and what the background of the service does with them: the jobs that judge a
session's evidence, the cases and approvals that follow, and the preparation of words by
language-model providers under leases, crashes, maintenance and provider switches; and
how new words are admitted to sessions from the reserve that is prepared ahead. TLC
checks the modules on small instances; TLAPS proves, for every value of the constants,
most of the safety of the reducer and the study commands, of saving, of the client's
order of commands, of approvals and of the work of providers.

## The system

The application is a React client, an Express server in one process over one embedded
SQLite database (every handler is one synchronous transaction), and background workers
of that process that call language-model providers.

| Component | State it keeps | Operations | Hard parts |
| --- | --- | --- | --- |
| Session reducer, `src/domain/vocabulary-session.ts` | none: a log of actions is projected to a state | `projectVocabularySession`, `advanceVocabularySession` | replay under Undo, incremental projection, streaks, finishing |
| Study commands, `server/vocabulary/study.ts` | none: appends to the session's log | Start, answers, reactions, skips, wraps, more, requeue, mode, Undo, finish, resume, Next | companions of an action, the loop of Next, exhausted material |
| Sessions, `server/db/vocabulary-sessions.ts` | sessions, actions, encounters, completions, effects, dispatches; a cache of projections | create, append, stage, cancel, close | overlapping sessions, the summary's window, failed and repeated closes |
| Learner words, `server/db/vocabulary-learners.ts` | mode, stash, dismissal and version of each word | choose a mode, stash, dismiss | changes while a session that froze the word is open |
| Processing worker, `server/vocabulary/processing-worker.ts` | none | closes due completions, ingests evidence, runs reflection jobs | runs beside the client; results that return late |
| Study client, `useVocabularyStudy.ts` | command queue, current study, completion, deadline | enqueue, stage, close, cancel, undo, resume, retry | lost responses, a blocked queue, racing timers |
| Reflection jobs, `server/db/vocabulary-reflection.ts` | cases, jobs with leases, compensation effects | ingest, claim, finish, fail, recover, compensate | expired leases, retry budgets, one compensation |
| Improvement cases, `server/db/vocabulary-case-reviews.ts`, `vocabulary-reflection.ts` | cases, proposals, approvals, review jobs | approve, apply, close, reassess, ask for a second opinion, retry | everything is refused while a job or a request holds the case |
| Approvals, `server/vocabulary/approval-requests.ts` | an append-only journal beside the database | enqueue, step, retry, compact, load | a crash between the database and the journal |
| Practice preparation, `server/vocabulary/preparation*.ts` | rows of work and of selections, attempts, a back-off in memory | ensure, claim, select, author, publish, fail | late answers, attempts spent across crashes |
| Word preparation, `server/word-content/*.ts` | stages of a learner's reserve, shared content with a claim | bootstrap, teach, keep parts, publish, withdraw | content shared by learners, contracts that change under way |
| Hosted controls, `server/hosted-runtime-controls.ts` | maintenance, the provider in use | switch, stop, start | read before a call, again after it |
| Composition and reserve, `server/vocabulary/composition.ts`, `preparation-reserve.ts`, `server/db/unstudied-admission.ts` | the reserve of words taught next, a request to reconcile it | plan new words, divide places, reconcile, preview, start | shuffled draws that must agree, words not ready, settings that change between visits |
| Content, senses, pure cues, scheduling | versioned content, readiness, intervals | many | mostly data; study retains what it uses at Start |
| Earlier session and reflection pipelines, identity, diagnostics, migrations | own tables | many | predecessors and infrastructure |

They interact as follows. The client sends commands; `study.ts` builds actions, runs
them through the reducer and appends them with `vocabulary-sessions.ts`. When the
reducer's phase is `completed` the client stages a completion, which freezes the log. A
summary is shown for fifteen seconds, in which the learner may cancel and go on; after
it the client or the processing worker closes the completion. Closing applies the
session to the learner's words and schedules and leaves a dispatch from which reflection
cases are made. What the learner does to words elsewhere (mode, stash, dismissal) meets
the close through a version number. The worker turns a dispatch into reflection jobs,
whose judgments open improvement cases; an operator approves what a case proposes
through the journal of approval requests. Beside that worker run those that prepare
practice and words. All of them claim rows with a lease, await a provider, and publish
only if the lease, the process and the hosted controls still allow it.

What makes each component correct:

- *Reducer and commands*: recall is granted for the answers in force and nothing else;
  Undo withdraws a whole transition and loses no observation; the projection carried
  between commands is the projection of the log; a session can always end; Next ends,
  with something to do or the session's end.
- *Saving*: a session is applied whole, once, from the boundary it froze; a closed
  session is final; nothing decided elsewhere since is overridden; one of a learner's
  sessions is being saved at a time; a staged session is concluded.
- *Client*: commands arrive in order, once; a session is staged at its boundary only.
- *Jobs and preparation*: an answer a provider gave is kept or explicably lost, and
  never published twice; what work costs is bounded however it is interrupted; nothing
  is written under maintenance; work comes to an end.
- *Composition and reserve*: the reserve holds what the day's sessions wait for; visits
  do not make it grow or drift; neither stash nor decks take the other's places.
- *Cases and approvals*: a request is applied once, with what its operator approved,
  across crashes; journal and database agree; a frozen case is left alone.

`PROJECT.json` lists every component, and under `hazards` the places in the code where
these can go wrong and which property watches each.

## Modules

| Module | Models | State |
| --- | --- | --- |
| `SessionReducer` | `vocabulary-session.ts` as operators: `Allowed` (acceptance), `Effect` (what an action does), `Settle`, `Project` (log to projection), `Advance` (the incremental projection) | none |
| `VocabularyStudy` | `study.ts` over the reducer: one action per command, and Next as a loop whose turns are actions | `log`, `view` (the projection the server holds), `tx` (an open Next), `before` (history) |
| `LearningEffects` | `applyLearningEffects` as operators, and the learner's own changes of a word | none |
| `SessionCompletion` | `vocabulary-sessions.ts`: create, append, stage, cancel, close; the worker; changes of words elsewhere | `status`, `context`, `log`, `completions`, `words`, `schedules`, `cues`, `effects`, `dispatches`, `decided` (history) |
| `LearningLedger` | the abstract promise of saving: begin, study, settle | `phase`, `context`, `log`, `words`, `schedules`, `cues`, `applied` |
| `StudyClient` | `useVocabularyStudy.ts` against the rows of one session: the queue, the exclusive operations, staging and the summary, reloads, lost and late calls | `server` (the rows); `issued`, `queue`, `failure`, `ui`, `op`, `staging` (the page); `calls`, `late` (the network) |
| `CaseReviews` | one improvement case, its review jobs, and `approval-requests.ts`: the journal and the database, cut anywhere between them | `review`, `status`, `jobs`, `proposals`, `content` (the case); `approvals`, `applied`, `asked`; `journal`, `up`; `missed` (history) |
| `LeasedRows` | the row of work that every worker shares: queued, running under a lease, waiting out a back-off, ended | none |
| `HostedControls` | the process and the switches the workers read | `process`, `controls` |
| `ReflectionJobs` | the worker on a closed session: dispatch, ingestion, claims, sense mapping and its fallback, the useful senses of a bootstrap, judgment, recovery, retry | `dispatch`, `job`, `sense`, `useful`, `flight`, `calls` |
| `PracticePreparation` | one word's practice and its selection of senses | `practice`, `selection`, `step`, `backoff`, `authored` |
| `WordPreparation` | one word of a reserve: its content, its teaching, their shared claim | `candidate`, `work`, `shared`, `kept`, `inventory`, `drafting` |
| `ProviderWork` | the composition of the last four in the one process, with stops and deaths | |
| `NewWordAdmission` | `unstudied-admission.ts`, `session-limits.ts`, the weights of `diet-profile.ts` and the plan of `composition.ts`, as operators | none |
| `WordReserve` | the reserve and its reconciliation, Start and the preview, closes, and the learner's changes of words and settings | `unstudied`, `studied`, `stash`, `dismissed`, `tops`, `settings` (the learner); `prep`; `reserve`, `request`; `taught`, `sessions`; `composed`, `settled` (history) |
| `MCVocabularyStudy`, `MCSessionCompletion`, `MCWordReserve` | words, material, reports and decks for TLC | |
| `SessionReducerProofs`, `VocabularyStudyProofs`, `SessionCompletionProofs`, `SessionLedgerProofs`, `StudyClientProofs`, `CaseReviewProofs`, `ProviderWorkProofs`, `WordReserveProofs` | the theorems | |

**From code to model.** An action of the log is a record; its `seq` is its sequence
number, and `tid`, the first `seq` of its command, stands for the transition id. The
projection's `phase`, `words`, `encounters` and `excluded` keep their meaning;
`view.evidence` is the projection's encounters with every response and reaction,
withdrawn ones included, and `view.st` the effective state. Each action of
`VocabularyStudy` is one request: it pushes the actions the handler pushes, runs them
through `RunFrom`, and commits all or nothing, as `atomic` does. Next is one transaction
in the code too. It is split at the turns of its selection loop so that its termination
can be asked about; no other command runs while `tx` is open.

In `SessionCompletion` a boundary's projection is reduced to its *report*, the part
closing reads. `Consistent` says which reports the reducer can make of a word it froze
in a mode. `due` is `close_at <= now`, the only thing the code asks of the clock;
`WindowEnds` is the passage of the fifteen seconds. A close either applies everything or
fails, rolls back and records the failure (`Save`, `Fail`); the client may repeat it.
Sessions of a learner overlap because nothing closes a session that a reload or a second
tab left active. The two levels meet in the report; they are checked apart because their
product would show nothing more: closing reads the reducer's result and never its steps.

In `StudyClient` a promise of the browser is a program counter: an operation advances
when the call it awaits has been served or lost, and the queue's own loop runs beside
it. A command is its number, which is its id; the server applies it, recognises it or
refuses it, and what it answers may be lost. A command the browser gave up on may still
arrive (`late`).

In `CaseReviews` the journal is a variable beside those of the database, and `up` says
whether the process runs; what it holds in memory is the journal it read. Each place
where a step that writes both may be cut, by a failed append or a death, is a disjunct.
`missed` is set while the process runs on after a row it could not write. An error that
is not transient sends a request to attention at any attempt (`Fail`), applied or not:
the operator is checked before the receipt is looked for (`vocabulary-reflection.ts:778`
and `:781`), and a database may be full. `Refuse` needs no fault: of a request without a
receipt the revision may have moved on, or the preview or the validation of an operation
refuses it, though it is current.

In `ProviderWork` a lease runs out and a back-off ends when the bits `late` and `due` of
a row are set, at any time, as no code compares two clocks. The reflection worker has
one flight of each kind and preparation one at a time, so the token of a lease is the
status of its row: a recovery that gives a running row back takes the token with it, and
no other holder can exist while the flight lasts. The time of a job does not pass
between its claim and the first await, which follow one another without a pause.
`calls[j].resumed` counts the times a job was queued again for its useful senses
(`vocabulary-reflection.ts:280`). Each may cost a call more, so `CallsAreBudgeted`
counts calls against resumes, and says that a job without a row of useful senses is
never resumed. Such a row is made by an inventory that names no sense as useful, as
failed, or by the selection that the bootstrap of a dictionary fallback asks for. Other
improvements never read it: for them it is only a reason to be resumed. A word whose
useful senses are known without a row is as one whose row is `ready`.

In `WordReserve` the plan of composition is asked of a request, a record of what the
code reads from the tables, and gives the words admitted and those it wants prepared. A
seeded shuffle is an order of all words, chosen anew at each plan; TLC takes each plan
over two opposite orders. What prepares a word is `WordPreparation`'s subject: here a
queued word becomes ready, or fails. Other learners may ask for words of their own.
Shares are divided exactly, where the code uses floating point and then rounds down, so
a share that lies on a whole number may come out one place lower there.

**Abstractions.** The random draws of Next are nondeterministic choices among what is
eligible. Content is an identifier and a shape. A word's schedule is the rule that last
set its due time, its clean-session count, its refresh flag and its version; interval
arithmetic is left out. Start's composition is a constant: which words the session holds
and what material it kept for them (it keeps teaching material for every word it starts
unstudied). Words of a report that were not admitted stand for words the session did not
hold. A pure cue's schedule row exists, at version 1, before the cue is served. The
queues a close also fills in its transaction (word connections, the word reserve,
practice preparation for taught words) are one of the reasons for `Fail`.

Of the background work the following is left out, with what it would touch. The stages
of a job after sense mapping are one call, as they retry alike; the rows of useful
senses of practice and of the jobs are those of different words, so that no workflow
takes over the row of another; a repair target and a scope that an operator captured,
with which a bootstrap asks for no selection, are left out. Practice: the work queued
again for "No automatic practice demand" and the eligibility of a session. Word
preparation: one word of one learner without the review stage, the default selection of
senses (merged with the inventory), reconciliation of senses, changed prompts and a
concurrency above one. Cases: merging of lineages, repair targets, teaching cases, the
version counters that refuse stale pages, and maintenance; queued and running review
jobs are both "active". `backoff` is memory and is lost at a restart, as in the code. Of
saving: a refresh the learner asks for moves a schedule outside sessions
(`requestVocabularyRefresh`), and of the requests of a page only commands arrive after
the page gave up on them, not those that stage, cancel or close.

## Runs

| Run | Instance | Shows |
| --- | --- | --- |
| `study` | five compositions: a reviewed word beside a pure cue, a Solidify word with a priming card and alternatives, a word taught into Solidify, a paced introduction beside a cue and two words nothing serves, and a word taught by exercises whose introduction Undo withdraws; with fairness | the held projection equals the projection of the log; recall is earned; finishing lasts as long as work does; promotion only on clean evidence; exclusions hold on every path; coverage without recall is the learner's choice; teaching is recorded at once; Undo withdraws one transition and loses no observation; Next ends, with an exercise or with the session completed |
| `study_undo` | two words | **violated**: an offered Undo can be refused |
| `save_safety` | one learner, two sessions, a word and a cue; with fairness | agreement of rows, one saving at a time, whole boundaries, effects of the closed revision, schedules that count closes, later decisions, finality, refinement of the ledger; staged sessions are concluded |
| `save_stash` | one session | **violated**: a stash change loses the session's mode |
| `save_promotion` | two sessions | **violated**: a promotion on a stale count |
| `client` | two commands, one fault, two revisions; with fairness | commands arrive in order and once; the summary is of the session it closes; only a whole session is staged, and a resumed one stays open; the queue drains; a completed session is saved |
| `client_blocked` | the same | **violated**: a skip that completes the session blocks its saving |
| `client_orphan` | the same | **violated**: a completed session that nothing will save and that offers no Retry |
| `approvals` | one case, two requests, two other acts, two faults (deaths, failed writes, errors transient or not), two attempts; with fairness | applied once, as asked; journal and database agree; a held case is left alone; a frozen one untouched; requests conclude |
| `approvals_restart` | the same | **violated**: an applied request may keep the server from starting |
| `provider_work` | a session with a feedback and an improvement job, or with an improvement whose senses are not known yet, or with the bootstrap of a dictionary fallback; or one word's practice, or one word of a reserve; two switches, one death; with fairness | calls are budgeted; answers are kept; nothing moves under maintenance; work settles |
| `reserve` | five words in two decks and the tail, a stash of two, one session, one new day, one act of the learner or an operator, one failure or demand from outside | the reserve changes only when the learner, a taught word or a retry changes it; it holds what a session waits for; shares and places are kept |

**Bounds.** A composition of `VocabularyStudy` comes with its bounds: `maxLog`, the
actions of a log on which a command may still start; `detours`, for each command other
than an answer and the exercise that follows one (skips, a Next that leaves an exercise
unanswered, mode changes, Undo, finishing) the kinds it may be of, in order; and
`answers`, the grades. All but one composition allow any detour and any grade. The last
one, of fourteen actions, follows the shortest way to teaching that is complete before
its introduction, and so prescribes its four detours. `MaxRevisions` bounds the
completions of a session, `MaxVersion` the changes of a word from outside. Streaks are
constants of the reducer: three in the code; in the instances two after a miss, so that
a streak is still broken, restarted and met within the log, and one in teaching, whose
two skills must be met as well. A log of eight holds a presentation, a miss, the
recovery and two detours with their companions; nine holds a complete teaching with one
detour and further work. Two sessions are what an overlap needs; two revisions what a
cancellation and another staging need. One learner is enough where learners share
nothing: `SavingIsSafe` is proved for any number of them.

`MaxCommands` bounds the commands a browser sends, `MaxFaults` what is lost, reloaded,
failed or looked at again. Two commands are what an order needs, and the second may be
the resume of a session the first completed. With three commands (2.0 million states),
and with two faults and two revisions (1.4 million), the properties of `client` hold as
well; these instances take longer than a run should. `MaxRequests`, `MaxActs` and
`MaxFaults` of `CaseReviews` let a second request or a reassessment follow a first one
that was cut, and let the process die while it recovers from a death. `MaxAttempts` is
two where the code has three: a first attempt, and one that is the last. `PrepAttempts`
is the code's three; the budget of sense mapping is two, with the fallback after one,
where the code has six and three: the rule is the same. A job is interrupted under a
live flight until it was resumed `MaxResumes` (one) times, and by a death even then, so
that a call is repeated twice and what follows a resume happens too (352 thousand
states). Each of the three scenarios of `provider_work` runs by itself because the
workers meet only in the process and its switches; session and practice together (1.4
million states, safety only) were checked too. In `WordReserve` the daily limit is one
or two where the code allows twenty, a session has three places where it has a thousand,
and a diet has two quanta; the divisions round as they do in the code, and spill,
fallback and an empty stash all happen. `MaxStarts`, `MaxDays`, `MaxActs` and `MaxApart`
are one each in the run; two starts (330 thousand states) and two events from outside
(257 thousand) were checked as well. The sessions, cases and work of an instance are
finite, so these runs may stop once all is done and do not check deadlock; the study
runs do.

**Fairness.** `VocabularyStudy!FairSpec` says that an open Next goes on: it is
synchronous code that waits for nothing. `SessionCompletion!FairSpec` is weak fairness
of the clock's passing and of the worker, which polls on a timer; it assumes what the
worker's guards ask, that maintenance ends, the learner is not disabled and the clock
does not go back. No fairness is assumed of learners or clients there, so a *failed*
completion, which the worker does not pick up again (`vocabulary-sessions.ts:480`), is
promised no conclusion beyond its failure. `StudyClient!FairSpec` says that promises are
settled, effects run, the server answers and its worker polls, and that a learner who is
shown Retry presses it. `CaseReviews` is fair to the worker, whose timer is set again
after every step, and to the start of a process that died. `ProviderWork!FairSpec` is
fair to each worker's timer, to the time limit of a provider's call, to the clock and to
the start of the process; not to the operator who ends maintenance, and not to the
learner.

## What disagrees with the documentation

1. **Undo after a resume** (`OfferedUndoIsAccepted`). A session completes, is resumed,
   and Next serves a new word. Undo is offered for the resume, but replaying the log
   without it meets the presentation in a completed session and the reducer throws. The
   comment at `vocabulary-session.ts:244` says presentation does not erase the scope of
   Undo.
2. **Stash and mode** (`StashLeavesTheMode`). Stash membership is documented as
   independent of the mode, but it raises the version by which closing recognises a
   later choice of mode; the session's own outcome is then dropped.
3. **Promotion with overlapping sessions** (`PromotionFollowsThreeClean`). The
   recommendation uses the clean count frozen at Start. If another session resets the
   count meanwhile, the word is promoted with fewer than three behind it.
4. **A skip that ends the session** (`CompletionIsSavable`). Skipping, or stopping, the
   last open word of a finishing session completes it, and the client still asks for the
   next exercise behind it. The server refuses, the refused command stays at the head of
   the queue, and staging, closing and Retry all wait for the queue. `endWord` has a
   guard against exactly this; the skips do not.
5. **An applied request may stop the server** (`ReceiptIsReconciled`). An application
   commits, the append of its success fails, and before the worker's next step the case
   is held again for something else. If the process dies then, loading the journal
   reconciles the case before it looks for the receipt, throws, and the server does not
   start.
6. **A session nothing will save** (`UnsavedOffersRetry`). A session completes and is
   staged, and the learner presses Undo. The server cancels the completion, but the
   answer is lost, and so is the look that follows it. The page, which still holds the
   pending completion, closes it when the window ends and is told that it is cancelled.
   It then shows a completed session for which it stages nothing and offers no Retry,
   where `SPECS/vocabulary-learning.md:275` has the summary stay "with an explicit
   retry".
7. **A word nothing prepares** (met in a proof, and so without a run of its own: the
   exception `RoundedAway` of `ReserveServesTheDay`). A diet mixes two decks, and the
   harder one's share of today's small quota rounds to nothing. If the easier deck runs
   out, a session's places spill to the harder one without a bound, while the reserve,
   planned for twice the limit, spills only what that deck's target there leaves. With
   four diet quanta, a limit of two, an empty stash, two words in the harder deck, three
   in the tail and none in the easier deck, one nudge towards "harder" leaves a session
   that waits for a word the reserve never asks for. The comment at
   `preparation-reserve.ts:10` has the reserve "prepare tomorrow's candidates as well as
   today's".
8. **A judgment asked for twice** (stated in `CallsAreBudgeted` as a cost, and so
   without a run of its own). Recovery queues a job again whenever a row of useful
   senses that it made waits or has failed (`vocabulary-reflection.ts:280`), whatever
   the job awaited when its lease ended. An improvement whose inventory named no useful
   sense leaves such a row (`sense-readiness.ts:164`); if the process dies during the
   call that judges, that call is made again, without an explicit retry, and as often as
   this happens. The comment at `vocabulary-reflection.ts:265` has recovery go on
   "without retrying an unrelated reflection provider call". TLC reaches two such calls
   in the instance of `provider_work`.

## What is proved

`SessionReducerProofs` and `VocabularyStudyProofs` prove of the reducer and of the study
commands, from `ReducerAssumption` and `StudyAssumption` (the types of the constants:
contexts, material and compositions) and, for `ExclusionHolds` alone, `RoleAssumption`
(content that teaches or primes some word is no general exercise and no pure cue of any,
and what primes is an introduction: an item's kind and serving role never change, and
the triggers of `db/migrations/0039_vocabulary_content.sql` bind each role's material to
its use):

- `AdvanceIsProject`: for every log and every further actions that are accepted, what
  `Advance` computes from the projection it holds and the new actions alone is what
  `Project` computes from the whole log.
- `ProjectionIsFaithfulAlways`: `Spec => []ProjectionIsFaithful`; the server never holds
  another projection than that of its log, whatever was undone.
- `FinishingHasWorkAlways`, `CoverageIsExplainedAlways` and `PromotionIsCleanAlways`:
  the invariants of these names always hold.
- `ExclusionHoldsAlways`: `Spec => []ExclusionHolds`; what "Try another way" excludes is
  not served again, by any path through the loop of Next, until Undo withdraws it.
- `ObservationsSurviveAlways` and `UndoWithdrawsOneTransitionAlways`: the action
  properties of these names hold of every step.

`SessionCompletionProofs` and `SessionLedgerProofs` prove of `SessionCompletion`, from
`SessionsAssumption` and `SkillAssumption` (the types of the constants) alone:

- `TypeCorrect`: `Spec => []TypeOK`.
- `SavingIsSafe`: `RowsAgree`, `OneSavedAtATime`, `FrozenIsWhole` and
  `EffectsOfTheClosedRevision` always hold.
- `ClosedStaysFinal`: no step withdraws acknowledged work or changes what a closed
  session left.
- `LaterDecisionsSurvive`: closing never overrides a mode settled elsewhere since the
  session froze the word.
- `EffectsMoveOnce`: `SchedulesCountEffects` always holds.
- `Refinement`: the machinery implements `LearningLedger`, in which a session is settled
  by one step, once.

`CaseReviewProofs` proves of `CaseReviews`, from `CaseAssumption` (the bounds are
natural numbers, and at least one attempt is made), the types of its state and
everything the run `approvals` checks but its liveness:

- `CaseTypeCorrect`, `AppliedOnce`, `JournalIsTrue`, `FrozenIsUntouched`,
  `ResolvedCaseIsSettled` and `CaseIsHeld`: `Spec` implies that `CaseTypeOK`,
  `AppliedOnceAsAsked`, `JournalTellsTheTruth`, `ResolvedIsSettled` and
  `RequestHoldsItsCase` always hold, and `FrozenUntouched` of every step, across any
  number of deaths, failed appends, requests and acts.

`StudyClientProofs` proves of `StudyClient`, from `ClientAssumption` (the bounds are
natural numbers):

- `ClientTypeCorrect`, `TypeOKAlways`, and `AppliedInOrderAlways`: the commands of one
  load of the page reach the log once and in order, whatever calls are lost, repeated or
  late. The property is about one load because the queue is memory: a reload forgets
  what it held, and a request sent before may land between those sent after.
- `WholeSessionIsStagedAlways`: `Spec => WholeSessionIsStaged`; whatever is still queued
  when a session is staged is logged already or asks for the next exercise.
- `SummaryIsTheSessionAlways`: `Spec => []SummaryIsTheSession`; a completion on screen,
  with nothing under way and no error, is one the server holds, of all the page
  received.
- `ResumedStaysOpenAlways`: `Spec => ResumedStaysOpen`; until the operation that took a
  completion back has released staging, nothing completes the session again.

`ProviderWorkProofs` proves of `ProviderWork`, from `AttemptsAssumption` (at least two
attempts) and `JobsAssumption` (the types of jobs and bounds, and the kinds of jobs):

- `WorkIsAccounted`, `CostIsBounded`, `KeptAnswersStay` and `MaintenanceHolds`: `Spec`
  implies that `WorkInv` and `CallsAreBudgeted` always hold, and `AnswersAreKept` and
  `MaintenanceFreezes` of every step, for any set of jobs, any bounds, and any number of
  deaths, switches and lost leases.

`WordReserveProofs` proves of `NewWordAdmission` and `WordReserve`, from
`AdmissionAssumption` and `ReserveAssumption` (the types of the constants; the learner's
words and the corpus are finite, and a shuffle is an order of the words):

- `SpecKeepsShares`: `Spec => []SharesAreKept`; the division of a quota between stash
  and diet, the precedence of ready words at the top, and the use of a session's places
  are as promised for any learner, decks, diet, limit and order of the words.
- `ReserveStaysAsItIs`: `Spec => ReserveIsStable`; a reconciliation that follows another
  with no choice of the learner's between changes nothing, whatever order it draws.
- `ReserveServes`: `Spec => []ReserveServesTheDay`.

The argument for study. The functions that fold over a log (`Replays`, `Projections`,
`Given`, `Runs`, `Reruns`) are recursive functions on its prefixes. The library's
induction needs an operator, so the lemmas about them are proved by induction on a *set*
of prefixes (`InductionUpTo`). Four results carry the rest. `StepTyped` and its kin give
the types of what a step makes. `ProjectionsContinue` and `GivenContinues` say that a
longer log does not change what was computed for its beginning; with them
`AdvanceIsProject` reduces to the new actions, for which running and projecting are
compared step by step. `ProjectionReaches` says that if a relation between a state and
the actions in force in it is *closed*, that is, holds of the empty state and is kept by
every action that is accepted, in replay or at first, then it holds of every projection:
Undo replays the actions in force, so nothing has to be said of Undo itself. `Finished`,
`Explained` and `Clean` are three such relations, each stronger than the invariant it
gives: `Clean`, for one, also says that a word with no miss has no rejected answer in
force and that a recall in both directions left an answer in each. And `UndoReturns`
compares the projection after an Undo with the state before the transition it withdraws,
action by action: what follows the transition is only presentations and reactions. The
invariant of the commands is `StudyInv == LogInv /\ TxType`: the log is well formed, the
projection held is its projection, and an open Next holds a run of the actions it has
pushed. `UndoInv == Transitions(log) /\ BeforeInv` adds that every transition is whole
in the log and that `before` is the replay of what precedes the latest one; it gives
`UndoWithdrawsOneTransition`. `ExclusionHolds` looks at the order of the log, so it
needs an invariant of its own, `BarInv`: no action of the log presents what an exclusion
before it, not undone, withholds (`Barred`), every presentation suits its role, and an
open Next has pushed no presentation and holds a state that excludes all that its log
and its additions exclude (`Excludes`, a closed relation too). A presentation is then
safe because Next chose it from material that state does not exclude
(`ServingsServable`, `TargetsOpen`), or because it teaches or primes, which no exclusion
is about. TLC checked `BarInv` on the instance of `study` before it was proved.

The argument for the client. The invariant is `ClientInv == ClientTypes /\ QueueOrder`,
where `QueueOrder` adds to `AppliedInOrder` why it holds: the queue is in order and
belongs to the present load; only its head is under way, and an answer means that the
head is in the log; what is logged came before what waits; and of each load at most one
late command still counts, later than all the log has of its load. The lemmas are one
for each action, and one for each of the ways in which a call ends.

The argument for the work of providers. `WorkInv` is the conjunction of `ReflectInv`,
`UsefulInv`, `PracticeInv` and `WordInv`, and counts for each kind of work what was
asked of a provider against what its rows say was spent: the calls made are the attempts
spent, less those begun and not yet asked, and for a job those a resume paid for
(`Sound`): one that waits has asked for no more judgments than it was resumed, and for
no more mappings than its failures and resumes together. `UsefulInv` says that no job is
resumed without its row of useful senses. The components share only the process and its
switches, so a step of one leaves the invariants of the others alone by frame lemmas.
`CallsAreBudgeted` follows from the counts; `AnswersAreKept` and `MaintenanceFreezes`
follow step by step.

The argument for saving. The inductive invariant is `IInv == TypeOK /\ Safe`, where
`Safe` is the conjunction of the four safety invariants. They lean on one another: that
staging keeps `OneSavedAtATime` needs to know from `RowsAgree` that only a session's
newest completion can be unfinished, and that a close keeps `EffectsOfTheClosedRevision`
needs that no earlier revision was closed. There is one lemma per action (`CreateSafe`,
`AppendSafe`, `StageSafe`, `CancelSafe`, `SaveSafe`, `FailSafe`, `WindowSafe`,
`UnmovedSafe`). `LaterDecisionsSurvive` needs a second invariant, `VersionsTell`: while
a session is open, the version it froze is at most the word's, and smaller once anything
else settled the word's mode; it holds because every decision raises the version.
`EffectsMoveOnce` adds `CountInv`, the counts by kind and subject with the sets they
count known to be finite: a close records an effect of a schedule exactly when it moves
it, and the effect is new, as only a closed session has any. The refinement maps both
`active` and `finalizing` to the ledger's `open` and forgets revisions; `Save` is the
ledger's `Settle`, and every other step of the machinery is a ledger step of its own or
a stutter.

The argument for approvals. The inductive invariant on which everything rests is
`CaseTypeOK /\ DistinctRequests /\ OneActiveJob`: the journal has one item for each
request, and a case one job under way. From it each property is shown by itself, with
one lemma per action. `AppliedOnceAsAsked` rests on where receipts come from: only the
worker's taken item adds one, and only if there is none for it. `JournalTellsTheTruth`
follows from it: success is recorded only after the receipt, and what asks for attention
although it was applied finds its case decided. That an applied request reaches
attention only with its attempts spent is not claimed, as an error that is not transient
ends them at once. `RequestHoldsItsCase` is the hardest, as after a death the journal,
not memory, says who holds the case: its frame lemmas say which rows an action leaves
`Held`, and the lemma of `Start` that loading either restores the hold or finds the
receipt.

The argument for the reserve. `Types` is inductive; it is all `SharesAreKept` needs, as
a plan is judged by what it was asked. The plan is a composition of operators on
sequences, and each has its lemma: `SharesFill` says that the largest remainders fill
every place that is shared, `SlotsAllot` what is then true of the places of a session,
and others what the decks of a diet are given and what filtering and taking keep of an
order. Recursive functions are again followed by induction on a set. For the reserve,
`Fills` says what a plan for a request takes: of the stash its share or all of it, the
top words first, and of each deck its places at least; and a plan that prefers a set
which fills the request already takes that set. `Stays` says that the settled reserve
fills `Goal`, the request of a reconciliation; a step that changes the learner's words,
decks or settings unsettles the reserve, and a word that failed without leaving the
reserve stays in `Goal`. Hence `ReserveIsStable`, from `Types /\ Stays`.
`ReserveServesTheDay` compares the plan of today's remainder with a plan for twice the
limit over the same words (`Covers`): `DemandDoubles`, `LeftGrows` and `WantedGrows` say
that what each side, and each deck, is asked for grows with the quota although every
division rounds. The first attempt at this proof failed on item 7 above, and the
property was restated with its exception. TLC checked `Types` and `Stays` on the
instance of `reserve` before they were proved.

The argument for the page. `AppliedInOrder` follows from `ClientInv`: only the head of
the queue is ever under way, and it leaves the queue once it is in the log. For what is
staged and shown, `SummaryInv` adds four parts. `Shape` says what may be left of an
operation: the steps between suppressing staging and releasing it contain no staging,
and a call awaits its answer exactly where the step at the head of its operation, or the
staging run, waits for it. `Answers` relates what the page, every answer under way and a
request to stage know of the session to its rows: nothing is ahead of the log, and once
a completion stands the page has all of it. `QueueInv` says what may be queued while a
request to stage can still succeed, or a completion is closed or cancelled.
`TakenBackIsNoticed` says that a page showing a completion the server has taken back
also shows an error, is about to look, or was told of the cancellation. What the server
does at once (`ServerMoves`) is one of four moves: it logs, stages, takes back, or goes
on with what is staged. `TakenBackIsNoticed` first lacked its third case, and the proof
failed there: Undo cancels a completion, its answer and the look after it are lost,
closing is told of the cancellation, and Retry, with nothing left to do, clears the
error; an answer to an older look (`useVocabularyStudy.ts:394`), read before the
cancellation, then shows the completion as pending again. TLC finds the same with three
faults, where the run `client` has one. It is the page of item 6 above, and
`SummaryIsTheSession` now excepts it by the history field `sawCancelled`, which the page
does not keep. TLC checked the four parts with two commands and two faults before they
were proved.

## What is only model-checked, and what is not modelled

Model-checked only: of study, `RecallIsEarned` and `TeachingIsRecordedAtOnce`, which
depend on what each command appends together and on the exercise it answers, so that no
closed relation gives them, and `NextServesOrEnds`, for which the loop of Next must be
shown never to be refused; and all liveness (`NextEnds`, `PendingConcludes`,
`QueueDrains`, `CompletedIsSaved`, `RequestsConclude`, `WorkSettles`), which is out of
the prover's reach.

Some of what the workers do is by design rather than what one might expect, and the
properties say so: a deferred judgment and a failed completion wait for an explicit
retry; practice whose publication a provider switch blocked has failed for good
(`preparation.ts:213`, `:222`); teaching begun under an earlier contract stays unusable
until the word is visited again; a process that is stopping still keeps the parts of a
word it was sent.

Not modelled, and why:

- *Which due words a session reviews* (`review-selection.ts`): their number is an input
  of `WordReserve`, and the words themselves of `VocabularyStudy`. Of composition are
  also left out words moved below the normal tier or back from the top, eligibility, the
  new words counted before the migration to this pipeline, a reserve whose
  reconciliation is deferred by a contract under way, and a server without a deck
  manifest.
- *Compensation of unfair rejections*: arithmetic on one schedule row, which needs the
  learner's state of `LearningEffects` and the judgment of `ReflectionJobs` in one
  model.
- *Review scheduling*: interval arithmetic on instants.
- *Sense reconciliation, shared content and proposals, pure cues*: versioned data that a
  session reads once, at Start, and then retains.
- *Earlier session and reflection pipelines*: predecessors kept for their history.
- *Identity and request handling, diagnostics, migrations*: no study state depends on
  them while the service runs.
- The cache of session projections in memory: it is trusted by its sequence number
  alone, and `ProjectionIsFaithful` shows what it must hold to be right.

Some behaviours are in the models without a property, as no text of the repository says
what should happen. A mode change may leave an open word whose new mode's requirement is
already met (`vocabulary-session.ts:572`): no answer is due that would wrap it, and Next
skips it uncovered. The summary may show an earlier revision of the completion
(`useVocabularyStudy.ts:162`): cancelling it succeeds at once, and the command after it
is refused, which ends in the blocked queue of `CompletionIsSavable`. "Try another way"
is refused while a session is finishing and only a pure cue is left: the skip before the
exclusion completes the session. And Undo of a Next that skipped an exercise withdraws
the introduction the same Next served, but not a teaching exercise served since. Such an
exercise may be answered, and if the word's requirements are met by such answers alone,
its teaching is complete only when the introduction is served again: then the next Next
records it (`study.ts:373`). `RecallIsEarned` and `TeachingIsRecordedAtOnce` except
exactly the words that lost an introduction so, and the last composition of the run
`study` gets there.

## Plan

1. *Done.* `SessionReducer` and `VocabularyStudy`.
2. *Done.* `LearningEffects`, `LearningLedger`, `SessionCompletion`, its theorems and
   its refinement of the ledger.
3. *Done.* `StudyClient` with its theorems.
4. *Done.* `CaseReviews` with its theorems.
5. *Done.* `LeasedRows`, `HostedControls`, `ReflectionJobs`, `PracticePreparation`,
   `WordPreparation` and their composition `ProviderWork`.
6. *Done.* Proofs about `ProviderWork`; the reducer and the study commands.
7. *Done.* `NewWordAdmission` and `WordReserve`: the share of new words in a session,
   the reserve it draws on, and that a day's reserve serves the sessions of that day.
8. *Done.* Proofs about `WordReserve`, its three safety properties.
9. The remaining safety of study (`RecallIsEarned`, `TeachingIsRecordedAtOnce`).
10. Compensation of schedules, over `LearningEffects` and the judgments of
    `ReflectionJobs`; interval scheduling as operators checked over bounded inputs.
