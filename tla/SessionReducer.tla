--------------------------- MODULE SessionReducer ---------------------------
(***************************************************************************)
(* The pure interpretation of a vocabulary session's action log            *)
(* (src/domain/vocabulary-session.ts): the rules under which one action is *)
(* accepted, what it does to the effective state, how Undo replays the     *)
(* log, and how the server advances a projection it already holds without  *)
(* reading the log again.                                                  *)
(*                                                                         *)
(* An action is a record with its sequence number `seq`, the transition    *)
(* `tid` it belongs to (the seq of the first action of its command) and    *)
(* its kind.  An encounter is identified by the seq of its presentation.   *)
(***************************************************************************)
EXTENDS Naturals, Sequences, FiniteSets, SequencesExt

CONSTANTS
  Words,            \* the words admitted to the session at Start
  Cues,             \* content ids of the independent (pure) cues
  NoWord,           \* the subject of a pure cue's encounter is no word
  WordContext,      \* what Start froze for each word
  TeachingStreak,   \* consecutive successes a taught skill needs (3)
  RecoveryStreak,   \* consecutive successes after a rejection (3)
  CleanToPromote    \* clean Solidify sessions that recommend Practice (3)

Modes  == {"unstudied", "solidify", "practice", "maintain"}
Skills == {"recognition", "production", "contextual_selection"}
Shapes == {"introduction", "recognition", "production", "contrast"}
Roles  == {"teaching", "priming", "general"}
NoMode == "none"
NoContent == "none"

ASSUME ReducerAssumption ==
  /\ Words \cap Cues = {} /\ NoWord \notin Words \cup Cues
  /\ TeachingStreak \in Nat \ {0} /\ RecoveryStreak \in Nat \ {0}
  /\ CleanToPromote \in Nat
  /\ \A w \in Words :
       /\ WordContext[w].mode \in Modes
       /\ WordContext[w].selectedSkill \in Skills
       /\ WordContext[w].solidifySkills \in
            (SUBSET {"recognition", "production"}) \ {{}}
       /\ WordContext[w].cleanCoveredSessions \in Nat
       /\ WordContext[w].promotionPaused \in BOOLEAN

UndoableKinds ==
  { "response", "teaching_complete", "word_wrap", "word_more", "word_skip",
    "exercise_skip", "exercise_exclude", "mode_change", "finish_for_now",
    "finish_immediately", "resume" }

-----------------------------------------------------------------------------
(* Word progress.                                                          *)

NoProgress == [s \in Skills |-> [accepted |-> 0, rejected |-> 0, run |-> 0]]

Pending(w, word) ==
  CASE word.mode = "unstudied" ->
         {s \in {"recognition", "production"} :
            word.progress[s].run < TeachingStreak}
    [] word.mode = "solidify" ->
         {s \in WordContext[w].solidifySkills : word.progress[s].accepted < 1}
    [] OTHER ->
         LET skill == WordContext[w].selectedSkill
             p     == word.progress[skill]
         IN  {s \in {skill} :
                p.run < IF p.rejected > 0 THEN RecoveryStreak ELSE 1}

TeachingComplete(w, word) ==
  /\ word.mode = "unstudied" /\ ~word.teachingDeferred
  /\ word.introduced /\ Pending(w, word) = {}

ReadyToCover(w, word) ==
  IF word.mode = "unstudied" THEN TeachingComplete(w, word)
                             ELSE Pending(w, word) = {}

\* Mutation of CleanSolidify: a miss does not spoil the session.
CleanDespiteMisses(w, word) ==
  /\ WordContext[w].mode = "solidify" /\ word.mode = "solidify"
  /\ ~word.teachingCompleted /\ word.covered /\ word.recalled
  /\ WordContext[w].solidifySkills = {"recognition", "production"}
  /\ word.solidifyRecallCompleted

CleanSolidify(w, word) ==
  /\ WordContext[w].mode = "solidify" /\ word.mode = "solidify"
  /\ ~word.teachingCompleted /\ word.covered /\ word.recalled
  /\ ~word.missed
  /\ WordContext[w].solidifySkills = {"recognition", "production"}
  /\ word.solidifyRecallCompleted

RecommendedMode(w, word) ==
  IF /\ word.admitted /\ word.choice = NoMode
     /\ ~WordContext[w].promotionPaused
     /\ CleanSolidify(w, word)
     /\ WordContext[w].cleanCoveredSessions + 1 >= CleanToPromote
  THEN "practice" ELSE NoMode

-----------------------------------------------------------------------------
(* The effective state.                                                    *)

EmptyState ==
  [ phase |-> "active", finishReason |-> "none", excluded |-> {},
    encounters |-> <<>>,
    words |-> [w \in Words |->
      [ mode |-> WordContext[w].mode, choice |-> NoMode, admitted |-> FALSE,
        work |-> 0, status |-> "not_started", progress |-> NoProgress,
        introduced |-> FALSE, solidifyRecallCompleted |-> FALSE,
        covered |-> FALSE, recalled |-> FALSE, teachingCompleted |-> FALSE,
        teachingDeferred |-> FALSE, missed |-> FALSE ]] ]

Known(st, e) == \E i \in DOMAIN st.encounters : st.encounters[i].id = e
IndexOf(st, e) == CHOOSE i \in DOMAIN st.encounters : st.encounters[i].id = e
Encounter(st, e) == st.encounters[IndexOf(st, e)]

\* The word work an encounter was served for is still the current work.
WorkOpen(st, enc) ==
  enc.word # NoWord =>
    /\ st.words[enc.word].status = "open"
    /\ st.words[enc.word].work = enc.work

CueEncounters(st, c) ==
  {i \in DOMAIN st.encounters :
     st.encounters[i].word = NoWord /\ st.encounters[i].content = c}

CueAnswers(encounters, c) ==
  {e \in Range(encounters) :
     e.word = NoWord /\ e.content = c /\ e.answer # "none"}

\* Answers in log order, folded into the consecutive successes.
Outcome(answers) ==
  LET ordered == SetToSortSeq(answers, LAMBDA a, b :
                                         a.answeredAt < b.answeredAt)
      Tally(o, e) ==
        LET run == IF e.answer = "accepted" THEN o.run + 1 ELSE 0
            rejected == IF e.answer = "rejected" THEN o.rejected + 1
                                                 ELSE o.rejected
        IN  [ run |-> run, rejected |-> rejected,
              covered |-> o.covered
                \/ run >= IF rejected > 0 THEN RecoveryStreak ELSE 1 ]
  IN  FoldLeft(Tally, [run |-> 0, rejected |-> 0, covered |-> FALSE], ordered)

CueOutcome(encounters, c) == Outcome(CueAnswers(encounters, c))

CuePending(st, c) ==
  /\ CueEncounters(st, c) # {}
  /\ ~CueOutcome(st.encounters, c).covered
  /\ c \notin st.excluded
  /\ \A i \in CueEncounters(st, c) : ~st.encounters[i].skipped

WorkRemains(st) ==
  \/ \E w \in Words : st.words[w].admitted /\ st.words[w].status = "open"
  \/ \E c \in Cues : CuePending(st, c)

\* Mutation of Settle: pure cues are forgotten.
SettleWords(st) ==
  IF /\ st.phase = "finishing"
     /\ \A w \in Words : st.words[w].admitted => st.words[w].status # "open"
  THEN [st EXCEPT !.phase = "completed", !.finishReason = "wrapped_up"]
  ELSE st

\* Finishing completes by itself once nothing started is left.
Settle(st) ==
  IF st.phase = "finishing" /\ ~WorkRemains(st)
  THEN [st EXCEPT !.phase = "completed", !.finishReason = "wrapped_up"]
  ELSE st

-----------------------------------------------------------------------------
(* When an action is accepted.  Replay relaxes only what a presentation    *)
(* asks of the word's mode and work: the state it was accepted in may have *)
(* been undone.                                                            *)

PresentationAllowed(st, a, replaying) ==
  IF a.word = NoWord
  THEN /\ a.role = "general" /\ a.shape = "production"
       /\ st.phase = "active" \/ CueEncounters(st, a.content) # {}
  ELSE LET word == st.words[a.word] IN
       /\ ~word.admitted => st.phase = "active"
       /\ ~replaying =>
            /\ word.admitted => word.status = "open"
            /\ a.role = "teaching" =>
                 word.mode = "unstudied" /\ ~word.teachingDeferred
            /\ a.role = "priming" => word.mode = "solidify"
            /\ a.role = "general" => word.mode # "unstudied"

Stopped(word) == word.status \in {"wrapped", "skipped"}
IsOpen(word)  == word.admitted /\ word.status = "open"

Allowed(st, a, replaying) ==
  /\ st.phase = "completed" => a.kind \in {"feedback", "resume"}
  /\ CASE a.kind = "presentation" -> PresentationAllowed(st, a, replaying)
       [] a.kind = "response" ->
            /\ Known(st, a.encounter)
            /\ LET e == Encounter(st, a.encounter) IN
                 /\ WorkOpen(st, e) /\ ~e.skipped
                 /\ e.shape # "introduction" /\ e.answer = "none"
       [] a.kind = "feedback" -> replaying \/ Known(st, a.encounter)
       [] a.kind = "exercise_exclude" ->
            /\ Known(st, a.encounter)
            /\ LET e == Encounter(st, a.encounter) IN
                 /\ e.role # "teaching"
                 /\ e.shape \notin {"introduction", "recognition"}
       [] a.kind = "exercise_skip" ->
            /\ Known(st, a.encounter)
            /\ LET e == Encounter(st, a.encounter) IN
                 WorkOpen(st, e) /\ ~e.skipped
       [] a.kind = "teaching_complete" ->
            /\ IsOpen(st.words[a.word])
            /\ WordContext[a.word].introduction # NoContent
            /\ TeachingComplete(a.word, st.words[a.word])
       [] a.kind = "word_wrap" ->
            /\ IsOpen(st.words[a.word])
            /\ st.words[a.word].mode # "unstudied"
            /\ a.reason = "policy" => ReadyToCover(a.word, st.words[a.word])
       [] a.kind = "word_skip" -> IsOpen(st.words[a.word])
       [] a.kind = "word_more" ->
            LET word == st.words[a.word] IN
              /\ word.admitted /\ Stopped(word)
              /\ word.mode = "unstudied" => ~word.teachingDeferred
       [] a.kind = "mode_change" -> st.words[a.word].admitted
       [] a.kind = "resume" -> st.phase = "completed"
       [] a.kind = "finish_for_now" -> st.phase = "active"
       [] a.kind = "finish_immediately" -> st.phase = "finishing"
       [] OTHER -> FALSE

-----------------------------------------------------------------------------
(* What an accepted action does.                                           *)

Presented(st, a) ==
  LET old   == st.words[a.word]
      first == ~old.admitted
      intro == /\ a.role = "teaching" /\ a.shape = "introduction"
               /\ a.content = WordContext[a.word].introduction
      word  == [old EXCEPT !.admitted = TRUE,
                           !.work = IF first THEN 1 ELSE @,
                           !.status = IF first THEN "open" ELSE @,
                           !.introduced = @ \/ intro]
      enc(work, mode) ==
        [ id |-> a.seq, word |-> a.word, work |-> work, mode |-> mode,
          content |-> a.content, shape |-> a.shape, role |-> a.role,
          answer |-> "none", answeredAt |-> 0, skipped |-> FALSE ]
  IN  IF a.word = NoWord
      THEN [st EXCEPT !.encounters = Append(@, enc(1, NoMode))]
      ELSE [st EXCEPT !.words[a.word] = word,
                      !.encounters = Append(@, enc(word.work, word.mode))]

SkillOf(shape) ==
  IF shape = "contrast" THEN "contextual_selection" ELSE shape

\* Only teaching work counts while a word is taught, only general work after.
Counts(word, e) ==
  IF word.mode = "unstudied" THEN e.role = "teaching" ELSE e.role = "general"

\* Mutation of Tallied: a miss does not end the streak.
TalliedThroughMisses(word, skill, accepted) ==
  [word EXCEPT !.missed = @ \/ ~accepted,
               !.progress[skill] =
                 IF accepted
                 THEN [@ EXCEPT !.accepted = @ + 1, !.run = @ + 1]
                 ELSE [@ EXCEPT !.rejected = @ + 1]]

\* A miss ends the streak.
Counted(p, accepted) ==
  IF accepted THEN [p EXCEPT !.accepted = @ + 1, !.run = @ + 1]
              ELSE [p EXCEPT !.rejected = @ + 1, !.run = 0]

Tallied(word, skill, accepted) ==
  [word EXCEPT !.missed = @ \/ ~accepted,
               !.progress[skill] = Counted(@, accepted)]

\* Mutation of Recalled: the cover is recorded without the recall.
CoveredOnly(w, word) ==
  IF word.mode = "unstudied" \/ ~ReadyToCover(w, word) THEN word
  ELSE [word EXCEPT !.covered = TRUE]

\* An answer that meets the covering requirement is a recall.
Recalled(w, word) ==
  IF word.mode = "unstudied" \/ ~ReadyToCover(w, word) THEN word
  ELSE [word EXCEPT
          !.covered = TRUE, !.recalled = TRUE,
          !.solidifyRecallCompleted =
             \/ @
             \/ /\ word.mode = "solidify"
                /\ \A s \in {"recognition", "production"} :
                     word.progress[s].accepted > 0]

Graded(w, word, e, accepted) ==
  IF Counts(word, e)
  THEN Recalled(w, Tallied(word, SkillOf(e.shape), accepted))
  ELSE [word EXCEPT !.missed = @ \/ ~accepted]

Marked(st, i, a) ==
  [st EXCEPT !.encounters[i].answer =
                IF a.accepted THEN "accepted" ELSE "rejected",
             !.encounters[i].answeredAt = a.seq]

Answered(st, i, a) ==
  LET e == st.encounters[i] IN
  IF e.word = NoWord THEN Marked(st, i, a)
  ELSE [Marked(st, i, a) EXCEPT
          !.words[e.word] = Graded(e.word, @, e, a.accepted)]

ModeChanged(word, mode) ==
  LET reset == mode = "unstudied" /\ word.mode # "unstudied"
  IN  [word EXCEPT
         !.teachingDeferred = IF reset THEN TRUE
                              ELSE IF mode # "unstudied" THEN FALSE ELSE @,
         !.status = IF reset /\ @ = "open" THEN "skipped" ELSE @,
         !.mode = mode, !.choice = mode]

\* Further work on a word starts afresh.
Further(word) ==
  [word EXCEPT !.work = @ + 1, !.status = "open",
               !.progress = NoProgress, !.introduced = FALSE]

Effect(st, a) ==
  CASE a.kind = "presentation" -> Presented(st, a)
    [] a.kind = "response" -> Answered(st, IndexOf(st, a.encounter), a)
    [] a.kind = "feedback" -> st
    [] a.kind = "exercise_exclude" ->
         [st EXCEPT !.excluded = @ \cup {Encounter(st, a.encounter).content}]
    [] a.kind = "exercise_skip" ->
         [st EXCEPT !.encounters[IndexOf(st, a.encounter)].skipped = TRUE]
    [] a.kind = "teaching_complete" ->
         [st EXCEPT !.words[a.word] =
            [@ EXCEPT !.teachingCompleted = TRUE, !.covered = TRUE,
                      !.recalled = TRUE, !.mode = "solidify",
                      !.status = "wrapped"]]
    [] a.kind = "word_wrap" ->
         [st EXCEPT !.words[a.word] =
            [@ EXCEPT !.covered = TRUE, !.status = "wrapped"]]
    [] a.kind = "word_skip" -> [st EXCEPT !.words[a.word].status = "skipped"]
    [] a.kind = "word_more" ->
         [st EXCEPT !.words[a.word] = Further(@)]
    [] a.kind = "mode_change" ->
         [st EXCEPT !.words[a.word] = ModeChanged(@, a.mode)]
    [] a.kind = "resume" ->
         [st EXCEPT !.phase = "active", !.finishReason = "none"]
    [] a.kind = "finish_for_now" -> [st EXCEPT !.phase = "finishing"]
    [] a.kind = "finish_immediately" ->
         [st EXCEPT !.phase = "completed",
                    !.finishReason = "finish_immediately"]

-----------------------------------------------------------------------------
(* Runs of actions.  A run remembers whether every action was accepted: the *)
(* code throws at the first one that is not, and nothing is written.        *)

Settled(st) == [ok |-> TRUE, st |-> Settle(st)]

Step(run, a, replaying) ==
  IF run.ok /\ Allowed(run.st, a, replaying) THEN Settled(Effect(run.st, a))
                                             ELSE [run EXCEPT !.ok = FALSE]

\* The run of each prefix of the actions.
Runs(st, actions, replaying) ==
  LET run[n \in 0..Len(actions)] ==
        IF n = 0 THEN [ok |-> TRUE, st |-> st]
                 ELSE Step(run[n - 1], actions[n], replaying)
  IN  run

RunFrom(st, actions, replaying) ==
  Runs(st, actions, replaying)[Len(actions)]

\* Mutation of UndoTargets: the companions of the target stay.
UndoTargetAlone(actions, target) == {target}

\* Undo reaches every action of the transition its target belongs to.
UndoTargets(actions, target) ==
  {a.seq : a \in {b \in Range(actions) :
     /\ b.kind \notin {"feedback", "undo"}
     /\ b.tid = actions[target].tid}}

\* A replay leaves out what was undone, and the Undos.
Rerun(run, a, undone) ==
  IF a.kind = "undo" \/ a.seq \in undone THEN run ELSE Step(run, a, TRUE)

Reruns(actions, undone) ==
  LET run[n \in 0..Len(actions)] ==
        IF n = 0 THEN [ok |-> TRUE, st |-> EmptyState]
                 ELSE Rerun(run[n - 1], actions[n], undone)
  IN  run

Replay(actions, undone) == Reruns(actions, undone)[Len(actions)]

\* The latest undoable action after one more action (0: none).
LatestAfter(latest, a) ==
  IF a.kind = "undo" THEN 0
  ELSE IF a.kind \in UndoableKinds THEN a.seq ELSE latest

Observed(st) == st.encounters[Len(st.encounters)]

Refused(p) == [p EXCEPT !.ok = FALSE]

\* The projection p after an action whose run is given.
Extended(p, a, run) ==
  IF ~run.ok THEN Refused(p)
  ELSE [p EXCEPT !.st = run.st, !.latest = LatestAfter(@, a),
                 !.observed = IF a.kind = "presentation"
                              THEN Append(@, Observed(run.st)) ELSE @]

\* An Undo restarts from the whole prefix without what it withdraws.
Withdrawn(prefix, p, a) ==
  IF p.latest = 0 \/ a.target # p.latest THEN Refused(p)
  ELSE LET undone == p.undone \cup UndoTargets(prefix, a.target)
       IN  Extended([p EXCEPT !.undone = undone], a, Replay(prefix, undone))

\* One action of the full projection.
ProjectStep(log, p, a) ==
  IF ~p.ok THEN p
  ELSE IF a.kind = "undo" THEN Withdrawn(SubSeq(log, 1, a.seq - 1), p, a)
  ELSE Extended(p, a, Step([ok |-> TRUE, st |-> p.st], a, FALSE))

\* The actions of a kind given for encounter e, in each prefix of the log.
Gathered(given, a, kind, e) ==
  IF a.kind = kind /\ a.encounter = e THEN Append(given, a) ELSE given

Given(log, kind, e) ==
  LET given[n \in 0..Len(log)] ==
        IF n = 0 THEN <<>> ELSE Gathered(given[n - 1], log[n], kind, e)
  IN  given

\* The learner-visible encounters: every observation survives Undo, and only
\* the effective part of it is withdrawn.
Evidence(log, st, observed) ==
  [ i \in DOMAIN observed |->
      LET o == observed[i]
          present == Known(st, o.id)
          Of(kind) == Given(log, kind, o.id)[Len(log)]
      IN  [ id |-> o.id, word |-> o.word, work |-> o.work, mode |-> o.mode,
            content |-> o.content, shape |-> o.shape, role |-> o.role,
            undone |-> ~present,
            skipped |-> present /\ Encounter(st, o.id).skipped,
            effective |-> IF present THEN Encounter(st, o.id).answer
                                     ELSE "none",
            responses |-> Of("response"), reactions |-> Of("feedback") ] ]

EmptyView ==
  [ok |-> TRUE, st |-> EmptyState, latest |-> 0, undone |-> {},
   evidence |-> <<>>]

\* Mutation of Presentable: withdrawn observations disappear.
PresentableInForce(log, p) ==
  [ok |-> p.ok, st |-> p.st, latest |-> p.latest, undone |-> p.undone,
   evidence |-> Evidence(log, p.st,
                  SelectSeq(p.observed, LAMBDA o : Known(p.st, o.id)))]

Presentable(log, p) ==
  [ok |-> p.ok, st |-> p.st, latest |-> p.latest, undone |-> p.undone,
   evidence |-> Evidence(log, p.st, p.observed)]

NothingProjected ==
  [ok |-> TRUE, st |-> EmptyState, latest |-> 0, undone |-> {},
   observed |-> <<>>]

\* The projection of each prefix of the log.
Projections(log) ==
  LET p[n \in 0..Len(log)] ==
        IF n = 0 THEN NothingProjected ELSE ProjectStep(log, p[n - 1], log[n])
  IN  p

\* projectVocabularySession: the projection of a whole log.
Project(log) == Presentable(log, Projections(log)[Len(log)])

\* One more action on the evidence the server already holds.
AdvanceEvidence(evidence, a, st) ==
  CASE a.kind = "presentation" ->
         LET o == Observed(st)
         IN  Append(evidence,
               [ id |-> o.id, word |-> o.word, work |-> o.work,
                 mode |-> o.mode, content |-> o.content, shape |-> o.shape,
                 role |-> o.role, undone |-> FALSE, skipped |-> FALSE,
                 effective |-> "none", responses |-> <<>>,
                 reactions |-> <<>> ])
    [] a.kind \in {"response", "feedback"} ->
         [i \in DOMAIN evidence |->
            IF evidence[i].id # a.encounter THEN evidence[i]
            ELSE IF a.kind = "response"
                 THEN [evidence[i] EXCEPT !.responses = Append(@, a)]
                 ELSE [evidence[i] EXCEPT !.reactions = Append(@, a)]]
    [] OTHER -> evidence

Advanced(v, a, run) ==
  IF ~run.ok THEN Refused(v)
  ELSE [v EXCEPT !.st = run.st, !.latest = LatestAfter(@, a),
                 !.evidence = AdvanceEvidence(@, a, run.st)]

\* Mutation of Refreshed: the evidence keeps what was effective before.
Unrefreshed(v) == v

\* What is effective of each encounter is read again from the new state.
Refreshed(v) ==
  [v EXCEPT !.evidence =
     [i \in DOMAIN v.evidence |->
        LET e == v.evidence[i]
            present == Known(v.st, e.id)
        IN  [e EXCEPT
               !.undone = ~present,
               !.skipped = present /\ Encounter(v.st, e.id).skipped,
               !.effective = IF present THEN Encounter(v.st, e.id).answer
                                        ELSE "none"]]]

\* One new action on the view.
AdvanceStep(v, a) == Advanced(v, a, Step([ok |-> v.ok, st |-> v.st], a, FALSE))

\* The view after each prefix of new actions.
Advances(view, incoming) ==
  LET v[n \in 0..Len(incoming)] ==
        IF n = 0 THEN view ELSE AdvanceStep(v[n - 1], incoming[n])
  IN  v

\* advanceVocabularySession: only the new actions run, unless one is an Undo.
Advance(view, log, incoming) ==
  IF \E i \in DOMAIN incoming : incoming[i].kind = "undo"
  THEN Project(log \o incoming)
  ELSE Refreshed(Advances(view, incoming)[Len(incoming)])
=============================================================================
