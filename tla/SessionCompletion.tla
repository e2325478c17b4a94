--------------------------- MODULE SessionCompletion ---------------------------
(* The life of a study session in server/db/vocabulary-sessions.ts: created,    *)
(* appended to, staged for completion, cancelled during the summary's window,   *)
(* closed by the client or the processing worker, and failed closes retried.    *)
(* Sessions of one learner overlap: nothing closes a session that a reload or a *)
(* second tab left active.  Each action is one transaction of the database.     *)
EXTENDS LearningEffects, Sequences

CONSTANTS Learners, Sessions,
          Owner,         \* session -> learner
          Reports,       \* the reports a boundary may project to
          InitialWord, InitialClean,  \* word -> enrolled state, clean sessions
          MaxLog,        \* bound: acknowledged boundaries of a session
          MaxRevisions,  \* bound: completions of a session
          MaxVersion     \* bound: version of a word beyond which nothing outside a
                         \* session touches it

ASSUME SessionsAssumption ==
  /\ Owner \in [Sessions -> Learners]
  /\ Reports \subseteq Report
  /\ InitialWord \in [Words -> WordState]
  /\ InitialClean \in [Words -> Nat]
  /\ MaxLog \in Nat /\ MaxRevisions \in Nat /\ MaxVersion \in Nat

VARIABLES status,       \* session -> "none" before it is created, then its status
          context,      \* session -> word -> what it froze of the word
          log,          \* session -> acknowledged boundaries, each with its report
          completions,  \* session -> its completions in revision order
          words,        \* learner -> word -> state
          schedules,    \* learner -> word -> production schedule
          cues,         \* learner -> pure cue -> schedule
          effects,      \* learner_state_effects: [session, revision, kind, subject]
          dispatches,   \* post-session evidence: [session, revision, report]
          decided       \* history: <<s, w>> when something other than s settled the
                        \* mode of w after s froze it

learning == <<words, schedules, cues>>
vars == <<status, context, log, completions, learning, effects, dispatches, decided>>

Statuses == {"none", "active", "finalizing", "closed"}
CompletionStatuses == {"pending", "failed", "cancelled", "closed"}

\* `due` is close_at <= now: all the code asks of the clock.
Completion == [input : Seq(Reports), through : Nat,
               status : CompletionStatuses, due : BOOLEAN]

------------------------------------------------------------------------------

Revisions(s) == DOMAIN completions[s]
Latest(s) == completions[s][Len(completions[s])]
Pending(s, r) == r \in Revisions(s) /\ completions[s][r].status = "pending"

\* A mutation: a closed completion may be closed again.
NotCancelled(c) == c.status # "cancelled"

Unfinished(c) == c.status \in {"pending", "failed"}

\* A mutation: a failed close no longer holds the learner's next one back.
PendingOnly(l) == \E s \in Sessions : /\ Owner[s] = l
                                      /\ \E r \in Revisions(s) : Pending(s, r)

\* SELECT 1 FROM vocabulary_session_completions WHERE status IN ('pending','failed')
Saving(l) == \E s \in Sessions : /\ Owner[s] = l
                                 /\ \E r \in Revisions(s) : Unfinished(completions[s][r])

Open(l) == {s \in Sessions : Owner[s] = l /\ status[s] \in {"active", "finalizing"}}

ReportOf(c) == c.input[c.through]

Freeze(l) == [w \in Words |-> [mode |-> words[l][w].mode, paused |-> words[l][w].paused,
                               clean |-> schedules[l][w].clean,
                               version |-> words[l][w].version]]

Unfrozen == [w \in Words |-> [mode |-> "unstudied", paused |-> FALSE, clean |-> 0, version |-> 1]]

Init ==
  /\ status = [s \in Sessions |-> "none"]
  /\ context = [s \in Sessions |-> Unfrozen]
  /\ log = [s \in Sessions |-> <<>>]
  /\ completions = [s \in Sessions |-> <<>>]
  /\ words = [l \in Learners |-> [w \in Words |-> InitialWord[w]]]
  /\ schedules = [l \in Learners |-> [w \in Words |->
       [due |-> "unset", clean |-> InitialClean[w], refresh |-> FALSE, version |-> 1]]]
  /\ cues = [l \in Learners |-> [q \in Cues |-> [clean |-> 0, version |-> 1]]]
  /\ effects = {}
  /\ dispatches = {}
  /\ decided = {}

------------------------------------------------------------------------------
(* createVocabularySession, appendVocabularySessionActions                    *)

Create(s) ==
  /\ status[s] = "none"
  /\ ~Saving(Owner[s])
  /\ status' = [status EXCEPT ![s] = "active"]
  /\ context' = [context EXCEPT ![s] = Freeze(Owner[s])]
  /\ UNCHANGED <<log, completions, learning, effects, dispatches, decided>>

\* A mutation: the status check of the append misses a closed session.
AppendUnlessSaving(s, report) ==
  /\ status[s] \in {"active", "closed"}
  /\ Len(log[s]) < MaxLog
  /\ \A w \in Words : Consistent(context[s][w], report.words[w])
  /\ log' = [log EXCEPT ![s] = Append(@, report)]
  /\ UNCHANGED <<status, context, completions, learning, effects, dispatches, decided>>

AppendWork(s, report) ==
  /\ status[s] = "active"
  /\ Len(log[s]) < MaxLog
  /\ \A w \in Words : Consistent(context[s][w], report.words[w])
  /\ log' = [log EXCEPT ![s] = Append(@, report)]
  /\ UNCHANGED <<status, context, completions, learning, effects, dispatches, decided>>

------------------------------------------------------------------------------
(* stageVocabularySessionCompletion, cancelVocabularySessionCompletion         *)

\* A mutation: an earlier acknowledged boundary is frozen.
StagePrefix(s, through) ==
  /\ (completions[s] # <<>> => Latest(s).status = "cancelled")
  /\ status[s] = "active"
  /\ ~Saving(Owner[s])
  /\ through \in 1..Len(log[s]) /\ log[s][through].done
  /\ Len(completions[s]) < MaxRevisions
  /\ completions' = [completions EXCEPT ![s] = Append(@,
       [input |-> log[s], through |-> through, status |-> "pending", due |-> FALSE])]
  /\ status' = [status EXCEPT ![s] = "finalizing"]
  /\ UNCHANGED <<context, log, learning, effects, dispatches, decided>>

\* A request that repeats the boundary of an unfinished or closed revision is
\* answered with that revision, and one that names another boundary is refused:
\* neither changes anything.
Stage(s, through) ==
  /\ (completions[s] # <<>> => Latest(s).status = "cancelled")
  /\ status[s] = "active"
  /\ ~Saving(Owner[s])
  /\ through = Len(log[s])
  /\ through > 0 /\ log[s][through].done
  /\ Len(completions[s]) < MaxRevisions
  /\ completions' = [completions EXCEPT ![s] = Append(@,
       [input |-> log[s], through |-> through, status |-> "pending", due |-> FALSE])]
  /\ status' = [status EXCEPT ![s] = "finalizing"]
  /\ UNCHANGED <<context, log, learning, effects, dispatches, decided>>

Marked(s, r, mark) == completions' = [completions EXCEPT ![s][r].status = mark]

\* A mutation: the session is not reopened with its completion cancelled.
CancelRowOnly(s, r) ==
  /\ Unfinished(completions[s][r])
  /\ ~completions[s][r].due
  /\ Marked(s, r, "cancelled")
  /\ UNCHANGED <<status, context, log, learning, effects, dispatches, decided>>

Cancel(s, r) ==
  /\ Unfinished(completions[s][r])
  /\ ~completions[s][r].due
  /\ Marked(s, r, "cancelled")
  /\ status' = [status EXCEPT ![s] = "active"]
  /\ UNCHANGED <<context, log, learning, effects, dispatches, decided>>

------------------------------------------------------------------------------
(* closeVocabularySessionCompletion: one transaction, or a failure that leaves *)
(* only its mark.                                                              *)

Applied(s, report) ==
  LET l == Owner[s] IN
  /\ words' = [words EXCEPT ![l] = [w \in Words |->
       WordAfter(context[s][w], report.words[w], words[l][w])]]
  /\ schedules' = [schedules EXCEPT ![l] = [w \in Words |->
       ScheduleAfter(w, context[s][w], report.words[w], words[l][w], schedules[l][w])]]
  /\ cues' = [cues EXCEPT ![l] = [q \in Cues |-> CueAfter(report.cues[q], cues[l][q])]]

Recorded(s, r, report) ==
  {[session |-> s, revision |-> r, kind |-> e.kind, subject |-> e.subject] :
   e \in Effects(context[s], report, words[Owner[s]])}

\* The other sessions that had frozen a word whose mode s now settles.
Overtaken(s, report) ==
  (Open(Owner[s]) \ {s})
    \X {w \in Words : ModeApplied(context[s][w], report.words[w], words[Owner[s]][w])}

Save(s, r, report) ==
  /\ Applied(s, report)
  /\ effects' = effects \cup Recorded(s, r, report)
  /\ dispatches' = dispatches \cup {[session |-> s, revision |-> r, report |-> report]}
  /\ status' = [status EXCEPT ![s] = "closed"]
  /\ Marked(s, r, "closed")
  /\ decided' = decided \cup Overtaken(s, report)
  /\ UNCHANGED <<context, log>>

Fail(s, r) ==
  /\ Marked(s, r, "failed")
  /\ UNCHANGED <<status, context, log, learning, effects, dispatches, decided>>

Attempt(s, r) == Save(s, r, ReportOf(completions[s][r])) \/ Fail(s, r)

\* A mutation: a request may close a revision the learner cancelled.
CloseCancelled(s, r) == completions[s][r].status # "closed" /\ Attempt(s, r)

\* POST .../completion/close, before or after the window.
Close(s, r) == Unfinished(completions[s][r]) /\ Attempt(s, r)

\* A cancellation after the window closes the revision and answers a conflict.
CancelTooLate(s, r) ==
  /\ Unfinished(completions[s][r])
  /\ completions[s][r].due
  /\ Attempt(s, r)

\* A mutation: the worker looks for the failed closes only.
WorkerRetries(s, r) ==
  /\ r \in Revisions(s) /\ completions[s][r].status = "failed"
  /\ completions[s][r].due
  /\ Attempt(s, r)

\* The worker takes what is pending and due; a failed close waits for a request.
WorkerCloses(s, r) ==
  /\ Pending(s, r)
  /\ completions[s][r].due
  /\ Attempt(s, r)

WindowEnds(s, r) ==
  /\ Unfinished(completions[s][r])
  /\ ~completions[s][r].due
  /\ completions' = [completions EXCEPT ![s][r].due = TRUE]
  /\ UNCHANGED <<status, context, log, learning, effects, dispatches, decided>>

------------------------------------------------------------------------------
(* The learner's words outside the session: server/db/vocabulary-learners.ts   *)

Outside(l, w, after, deciding) ==
  /\ words[l][w].version < MaxVersion
  /\ words' = [words EXCEPT ![l][w] = after]
  /\ decided' = IF deciding THEN decided \cup (Open(l) \X {w}) ELSE decided
  /\ UNCHANGED <<status, context, log, completions, schedules, cues, effects, dispatches>>

ChangeMode(l, w, mode) == Outside(l, w, Chosen(words[l][w], mode), TRUE)

SetStash(l, w, in) ==
  /\ Stashed(words[l][w], in) # words[l][w]
  /\ Outside(l, w, Stashed(words[l][w], in), FALSE)

Dismiss(l, w) ==
  /\ Dismissed(words[l][w]) # words[l][w]
  /\ Outside(l, w, Dismissed(words[l][w]), TRUE)

------------------------------------------------------------------------------

Next ==
  \/ \E s \in Sessions :
       \/ Create(s)
       \/ \E report \in Reports : AppendWork(s, report)
       \/ \E through \in 0..MaxLog : Stage(s, through)
       \/ \E r \in Revisions(s) : \/ Cancel(s, r) \/ CancelTooLate(s, r)
                                  \/ Close(s, r) \/ WorkerCloses(s, r)
                                  \/ WindowEnds(s, r)
  \/ \E l \in Learners, w \in Words :
       \/ \E mode \in Modes : ChangeMode(l, w, mode)
       \/ \E in \in BOOLEAN : SetStash(l, w, in)
       \/ Dismiss(l, w)

Spec == Init /\ [][Next]_vars

\* The window's clock advances, and the worker's poll, rescheduled after each
\* pass, reaches what is due and either closes it or marks it failed.
FairSpec ==
  /\ Spec
  /\ \A s \in Sessions, r \in 1..MaxRevisions :
       /\ WF_vars(r \in Revisions(s) /\ WindowEnds(s, r))
       /\ WF_vars(WorkerCloses(s, r))

------------------------------------------------------------------------------
(* Properties                                                                 *)

\* Every variable has its type.
TypeOK ==
  /\ status \in [Sessions -> Statuses]
  /\ context \in [Sessions -> [Words -> Frozen]]
  /\ log \in [Sessions -> Seq(Reports)]
  /\ completions \in [Sessions -> Seq(Completion)]
  /\ \A s \in Sessions : \A r \in Revisions(s) :
       completions[s][r].through \in DOMAIN completions[s][r].input
  /\ words \in [Learners -> [Words -> WordState]]
  /\ schedules \in [Learners -> [Words -> Schedule]]
  /\ cues \in [Learners -> [Cues -> CueSchedule]]
  /\ effects \subseteq [session : Sessions, revision : Nat \ {0},
                         kind : Kinds, subject : Words \cup Cues]
  /\ dispatches \subseteq [session : Sessions, revision : Nat \ {0}, report : Reports]
  /\ decided \subseteq Sessions \X Words

\* The session row and its completions, two tables written by different calls,
\* tell one story: a session is finalizing exactly while its newest revision is
\* unfinished, closed exactly when that one closed, and every older revision is
\* cancelled, whatever order stage, cancel, close and retry came in.
RowsAgree ==
  \A s \in Sessions :
    /\ \A r \in Revisions(s) : r < Len(completions[s]) => completions[s][r].status = "cancelled"
    /\ status[s] = "none" => completions[s] = <<>> /\ log[s] = <<>>
    /\ status[s] = "active" /\ completions[s] # <<>> => Latest(s).status = "cancelled"
    /\ status[s] = "finalizing" => completions[s] # <<>> /\ Unfinished(Latest(s))
    /\ status[s] = "closed" => completions[s] # <<>> /\ Latest(s).status = "closed"

\* A learner never has two sessions being saved: a second session's stage waits
\* for the first to close or be cancelled, also after a failed close.
OneSavedAtATime ==
  \A s, t \in Sessions :
    /\ s # t /\ Owner[s] = Owner[t]
    => ~(status[s] = "finalizing" /\ status[t] = "finalizing")

\* The boundary an unfinished or closed revision froze is the session's whole
\* acknowledged work: nothing is appended behind it, and nothing is left out.
FrozenIsWhole ==
  \A s \in Sessions :
    status[s] \in {"finalizing", "closed"} =>
      /\ Latest(s).input = log[s]
      /\ Latest(s).through = Len(log[s])
      /\ Latest(s).through > 0
      /\ ReportOf(Latest(s)).done

\* Learning effects and post-session evidence exist for a closed session only,
\* all of its closed revision, and there is exactly one dispatch: a cancelled,
\* failed or retried revision leaves none behind.
EffectsOfTheClosedRevision ==
  /\ \A e \in effects \cup dispatches :
       status[e.session] = "closed" /\ e.revision = Len(completions[e.session])
  /\ \A s \in Sessions : status[s] = "closed" =>
       [session |-> s, revision |-> Len(completions[s]),
        report |-> ReportOf(Latest(s))] \in dispatches
  /\ \A d, e \in dispatches : d.session = e.session => d = e

\* Every schedule and cue moved exactly once for each effect recorded of it:
\* retries and repeated closes never move one again, nor one learner's another's.
SchedulesCountEffects ==
  \A l \in Learners :
    LET recorded(k, x) == {e \in effects : Owner[e.session] = l /\ e.kind = k /\ e.subject = x}
    IN /\ \A w \in Words :
            schedules[l][w].version = 1 + Cardinality(recorded("production", w))
       /\ \A q \in Cues : cues[l][q].version = 1 + Cardinality(recorded("cue", q))

Closes(s) == status[s] # "closed" /\ status'[s] = "closed"

KeepsLaterDecisions ==
  \A s \in Sessions, w \in Words :
    Closes(s) /\ <<s, w>> \in decided =>
      /\ words'[Owner[s]][w].mode = words[Owner[s]][w].mode
      /\ words'[Owner[s]][w].paused = words[Owner[s]][w].paused

\* A mode the learner chose outside a session after it froze the word (or that
\* another session applied) is newer authority: closing the session leaves it.
LaterDecisionSurvives == [][KeepsLaterDecisions]_vars

KeepsWhatClosed ==
  \A s \in Sessions :
    /\ Len(log'[s]) >= Len(log[s]) /\ \A n \in 1..Len(log[s]) : log'[s][n] = log[s][n]
    /\ status[s] = "closed" =>
         /\ UNCHANGED <<status[s], log[s], completions[s]>>
         /\ {e \in effects' : e.session = s} = {e \in effects : e.session = s}

\* Acknowledged work is never withdrawn, and a closed session is final: no
\* cancellation, late request or worker pass moves its log, completions, effects.
ClosedIsFinal == [][KeepsWhatClosed]_vars

\* A staged revision does not stay pending: the learner cancels it, or it closes
\* or is marked failed, also when the client never asks again.
PendingConcludes ==
  \A s \in Sessions :
    (\E r \in 1..MaxRevisions : Pending(s, r))
      ~> (\A r \in 1..MaxRevisions : ~Pending(s, r))

PhaseOf(x) == IF x = "none" THEN "none" ELSE IF x = "closed" THEN "settled" ELSE "open"

\* The saving machinery implements the ledger: seen without revisions, a session
\* is open until one step applies the whole of its work.
Ledger == INSTANCE LearningLedger WITH
  phase <- [s \in Sessions |-> PhaseOf(status[s])],
  applied <- {[session |-> e.session, kind |-> e.kind, subject |-> e.subject] : e \in effects}

\* Every step of the saving machinery is a step of the ledger, or none.
ImplementsLedger == Ledger!Spec

------------------------------------------------------------------------------
(* What the documentation says and the code does not do.                      *)

\* "Stash membership, dismissal, and study mode are distinct": when nothing else
\* decided a word's mode since the session froze it, closing applies the
\* session's mode, whatever happened to the word's stash membership.
StashLeavesTheMode ==
  [][\A s \in Sessions, w \in Words :
       Closes(s) /\ <<s, w>> \notin decided =>
         LET r == ReportOf(Latest(s)).words[w] IN
         r.admitted => words'[Owner[s]][w].mode = SessionMode(context[s][w], r)]_vars

\* "Solidify recommends Practice after three consecutive clean covered Solidify
\* sessions": a word promoted without a choice has that many behind it.
PromotionFollowsThreeClean ==
  [][\A s \in Sessions, w \in Words :
       LET l == Owner[s] IN
       /\ Closes(s) /\ words[l][w].mode = "solidify" /\ words'[l][w].mode = "practice"
       /\ ReportOf(Latest(s)).words[w].explicit = NoMode
       => schedules'[l][w].clean >= CleanToPractice]_vars
==============================================================================
