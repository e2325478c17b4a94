-------------------------- MODULE VocabularyStudy --------------------------
(***************************************************************************)
(* One learner's active study session (server/vocabulary/study.ts): the    *)
(* action log, the projection the server keeps of it, and the commands     *)
(* that append to it.  Every command is one database transaction.  Next is *)
(* the only command with a loop, so its steps are actions of their own on  *)
(* a transaction record `tx` that only they may touch: nothing interleaves *)
(* with it and nothing is visible before it commits.                       *)
(*                                                                         *)
(* Draws the code seeds from the session's hash (bucket, word, skill,      *)
(* content order) are nondeterministic choices here.                       *)
(***************************************************************************)
EXTENDS SessionReducer

CONSTANTS
  Teaching,       \* [Words -> [intro, exercises]], the retained teaching sets
  Priming,        \* [Words -> content served before Solidify work, if any]
  General,        \* [Words -> [Modes -> set of contents]]
  ReviewOrder,    \* the frozen order of review words and cues
  IntroductionSpacing, \* exercises between paced introductions
  WordReturn,     \* exercises before a word may return (2)
  Compositions    \* the sessions Start may compose, with their bounds:
                  \* [words, cues, introductions, maxLog, detours, answers]

\* The material retained for a word: what teaches or primes it, and what it is
\* practised with.
Instructs(w) ==
  {Teaching[w].intro} \cup Teaching[w].exercises
    \cup {p \in {Priming[w]} : p.id # NoContent}
Practises(w) == UNION {General[w][m] : m \in Modes}
Retained(w)  == Instructs(w) \cup Practises(w)

ASSUME StudyAssumption ==
  /\ \A w \in Words : \A c \in Retained(w) : c.shape \in Shapes
  /\ \A w \in Words : \A m \in Modes : IsFiniteSet(General[w][m])
  /\ IntroductionSpacing \in Nat /\ WordReturn \in Nat
  /\ Compositions \subseteq [ words : SUBSET Words, cues : SUBSET Cues,
                              introductions : {"random", "first", "paced"},
                              maxLog : Nat, detours : Seq(SUBSET STRING),
                              answers : SUBSET BOOLEAN ]

\* An item of content keeps its kind and the role it was written for (the
\* triggers of db/migrations/0039_vocabulary_content.sql), whatever word retains
\* it: what teaches or primes is no general exercise and no pure cue.
Instructive == UNION {{c.id : c \in Instructs(w)} : w \in Words}
Practised   == Cues \cup UNION {{c.id : c \in Practises(w)} : w \in Words}

ASSUME RoleAssumption ==
  /\ Instructive \cap Practised = {}
  /\ \A w \in Words : Priming[w].id # NoContent => Priming[w].shape = "introduction"

VARIABLES
  session, \* the words and cues Start composed the session of, and how it
           \* orders introductions
  log,     \* the acknowledged actions
  view,    \* the projection the server holds for it
  tx,      \* the Next transaction under way
  before   \* history: the state the latest undoable transition started from

vars == <<session, log, view, tx, before>>

Idle    == [open |-> FALSE]
Nothing == [held |-> FALSE]

-----------------------------------------------------------------------------
(* Reading the projection.                                                 *)

Encs(st) == st.encounters
HasCurrent(st) == Encs(st) # <<>>
CurrentEnc(st) == Encs(st)[Len(Encs(st))]
CurrentWord(st) == IF HasCurrent(st) THEN CurrentEnc(st).word ELSE NoWord
Unanswered(st) ==
  /\ HasCurrent(st)
  /\ CurrentEnc(st).answer = "none" /\ ~CurrentEnc(st).skipped

\* The controls getVocabularyStudy offers.
CanUndo == view.st.phase # "completed" /\ view.latest # 0
CanEnough(st) ==
  /\ st.phase # "completed" /\ CurrentWord(st) # NoWord
  /\ st.words[CurrentWord(st)].status = "open"
  /\ st.words[CurrentWord(st)].mode # "unstudied"

Tryable(st) ==
  /\ HasCurrent(st) /\ CurrentEnc(st).role # "teaching"
  /\ CurrentEnc(st).shape \notin {"introduction", "recognition"}

-----------------------------------------------------------------------------
(* Selecting what to study next: selectNextWord.                           *)

Available(st, blocked) ==
  {w \in session.words \ blocked :
     /\ ~st.words[w].teachingDeferred
     /\ \/ st.words[w].status = "open"
        \/ st.phase = "active" /\ ~st.words[w].admitted}

OpenCues(st) ==
  {c \in session.cues :
     /\ c \notin st.excluded /\ ~CueOutcome(Encs(st), c).covered
     /\ \A i \in CueEncounters(st, c) : ~Encs(st)[i].skipped
     /\ st.phase = "active" \/ CueEncounters(st, c) # {}}

Introducible(st, blocked) ==
  {w \in Available(st, blocked) :
     st.words[w].mode = "unstudied" /\ ~st.words[w].introduced}

IsTarget(e, t) == IF t \in Words THEN e.word = t
                                 ELSE e.word = NoWord /\ e.content = t

LastPosition(st, t) == SelectLastInSeq(Encs(st), LAMBDA e : IsTarget(e, t))

IntroductionDue(st, blocked) ==
  LET last == SelectLastInSeq(Encs(st),
                LAMBDA e : e.shape = "introduction" /\ e.role = "teaching")
      since == {i \in (last + 1)..Len(Encs(st)) :
                  Encs(st)[i].shape # "introduction"}
  IN  /\ session.introductions # "random" /\ Introducible(st, blocked) # {}
      /\ \/ session.introductions = "first"
         \/ last = 0
         \/ Cardinality(since) >= IntroductionSpacing
         \/ /\ OpenCues(st) = {}
            /\ \A w \in Available(st, blocked) :
                 st.words[w].mode = "unstudied"

Bucket(st, t) ==
  IF t \in Cues THEN "review"
  ELSE CASE st.words[t].mode = "unstudied" -> "unstudied"
         [] st.words[t].mode = "solidify"  -> "learning"
         [] OTHER -> "review"

OrderOf(t) == SelectInSeq(ReviewOrder, LAMBDA r : r = t)

Rested(st, S) ==
  {t \in S : \/ LastPosition(st, t) = 0
             \/ Len(Encs(st)) - LastPosition(st, t) >= WordReturn}

\* Only the review bucket has an order of its own.
LeastRecent(st, S) ==
  LET Before(t, u) ==
        \/ LastPosition(st, t) < LastPosition(st, u)
        \/ /\ LastPosition(st, t) = LastPosition(st, u)
           /\ OrderOf(t) <= OrderOf(u)
      reviews == {t \in S : Bucket(st, t) = "review"}
  IN  {t \in S : t \in reviews => \A u \in reviews : Before(t, u)}

OrElse(S, T) == IF S # {} THEN S ELSE T

\* Introductions that are paced wait outside the draw.
Unpaced(st, blocked, S) ==
  {t \in S : (session.introductions = "paced" /\ Introducible(st, blocked) # {})
               => Bucket(st, t) # "unstudied"}

Drawn(st, blocked, pool) ==
  OrElse(LeastRecent(st, Unpaced(st, blocked, pool)), pool)

\* Every target the sampled draw may choose.
Selected(st, blocked) ==
  IF IntroductionDue(st, blocked) THEN Introducible(st, blocked)
  ELSE LET all == Available(st, blocked) \cup OpenCues(st)
       IN  Drawn(st, blocked, OrElse(Rested(st, all), all))

-----------------------------------------------------------------------------
(* Selecting the material for a word.                                      *)

TimesSeen(st, w, c) ==
  Len(SelectSeq(Encs(st), LAMBDA e : /\ e.word = w /\ e.content = c.id
                                     /\ e.work = st.words[w].work))

LeastSeen(st, w, pool) ==
  {c \in pool : \A d \in pool : TimesSeen(st, w, c) <= TimesSeen(st, w, d)}

ProductionsOf(st, w) ==
  SelectSeq(Encs(st), LAMBDA e : /\ e.word = w /\ e.role = "general"
                                 /\ e.shape = "production" /\ ~e.skipped)

\* An exercise whose presentation was undone still counts as served last.
ServedSince(w, c, id) ==
  \E i \in DOMAIN view.evidence :
    LET o == view.evidence[i] IN
    /\ o.undone /\ o.word = w /\ o.content = c /\ o.role = "general"
    /\ o.id > id

LastIsMiss(w, c, served) ==
  LET last == served[SelectLastInSeq(served, LAMBDA e : e.content = c)]
  IN  last.answer = "rejected" /\ ~ServedSince(w, c, last.id)

\* The content missed first and not yet resolved, other than the last one.
Retry(w, served, last) ==
  LET misses == {c \in {e.content : e \in Range(served)} \ {last} :
                   LastIsMiss(w, c, served)}
      FirstMiss(c) == SelectInSeq(served, LAMBDA e : e.content = c
                                                    /\ e.answer = "rejected")
  IN  {c \in misses : \A d \in misses : FirstMiss(c) <= FirstMiss(d)}

\* The skills a further exercise may practise.
PracticeSkills(st, w) ==
  LET word == st.words[w] IN
  IF Pending(w, word) # {} \/ word.work <= 1 THEN Pending(w, word)
  ELSE IF word.mode = "solidify" THEN WordContext[w].solidifySkills
  ELSE {WordContext[w].selectedSkill}

\* Mutation of Eligible: the exclusions are not consulted.
EligibleUnfiltered(st, w, skill) ==
  {c \in General[w][st.words[w].mode] : SkillOf(c.shape) = skill}

Eligible(st, w, skill) ==
  {c \in General[w][st.words[w].mode] :
     c.id \notin st.excluded /\ SkillOf(c.shape) = skill}

LastSeen(st, w) ==
  LET i == SelectLastInSeq(Encs(st),
             LAMBDA e : e.word = w /\ e.work = st.words[w].work)
  IN  IF i = 0 THEN NoContent ELSE Encs(st)[i].content

\* Production starts with a miss still unresolved, but never right after it;
\* otherwise the material seen least comes up, repeated only if it is alone.
ProductionChoices(st, w, pool, last) ==
  LET retry == Retry(w, ProductionsOf(st, w), last) IN
  OrElse({c \in pool : c.id \in retry},
         LET fresh == {c \in pool : c.id # last} IN
         LeastSeen(st, w, OrElse(fresh, pool)))

GeneralChoices(st, w, skill) ==
  IF skill = "recognition" THEN Eligible(st, w, skill)
  ELSE ProductionChoices(st, w, Eligible(st, w, skill), LastSeen(st, w))

TeachingChoices(st, w) ==
  IF ~st.words[w].introduced THEN {Teaching[w].intro}
  ELSE UNION { LeastSeen(st, w, {c \in Teaching[w].exercises : c.shape = s}) :
                 s \in Pending(w, st.words[w]) }

PrimingDue(st, w) ==
  /\ st.words[w].mode = "solidify" /\ Priming[w].id # NoContent
  /\ \A i \in DOMAIN Encs(st) :
       Encs(st)[i].word = w => Encs(st)[i].shape # "introduction"

\* The presentations Next may serve for w; none when it is exhausted.
Servings(st, w) ==
  LET With(role, contents) ==
        {[role |-> role, content |-> c.id, shape |-> c.shape] : c \in contents}
  IN  IF st.words[w].mode = "unstudied"
      THEN With("teaching", TeachingChoices(st, w))
      ELSE IF PrimingDue(st, w) THEN With("priming", {Priming[w]})
      ELSE With("general",
             UNION {GeneralChoices(st, w, s) : s \in PracticeSkills(st, w)})

-----------------------------------------------------------------------------
(* Committing.  A command's actions share the transition of its first one. *)

Stamped(a, seq, tid) ==
  [f \in DOMAIN a \cup {"seq", "tid"} |->
     CASE f = "seq" -> seq [] f = "tid" -> tid [] OTHER -> a[f]]

Numbered(base, actions) ==
  [i \in DOMAIN actions |-> Stamped(actions[i], base + i, base + 1)]

Undoable(actions) ==
  \E i \in DOMAIN actions : actions[i].kind \in UndoableKinds

\* The reducer accepts every action, or the transaction throws.
Commit(actions) ==
  \E v \in {Advance(view, log, actions)} :
    /\ v.ok
    /\ view' = v
    /\ log' = log \o actions
    /\ before' = IF \E i \in DOMAIN actions : actions[i].kind = "undo"
                 THEN Nothing
                 ELSE IF Undoable(actions)
                 THEN [held |-> TRUE, st |-> view.st]
                 ELSE before

\* The bounds of the model: no command starts on a log of session.maxLog
\* actions; what is not an answer or the exercise that follows it is a detour,
\* and the n-th is of a kind in session.detours[n]; answers are graded as
\* session.answers allows.
StartsDetour(a) ==
  /\ a.seq = a.tid
  /\ a.kind \notin {"presentation", "response", "teaching_complete"}
Short == Len(log) < session.maxLog
Room(actions) ==
  /\ \E detours \in {SelectSeq(log \o actions, StartsDetour)} :
       /\ Len(detours) <= Len(session.detours)
       /\ \A n \in DOMAIN detours : detours[n].kind \in session.detours[n]
  /\ \A i \in DOMAIN actions :
       actions[i].kind = "response" => actions[i].accepted \in session.answers

Started == log # <<>> /\ ~tx.open /\ Short

\* A command whose actions the reducer rejects throws and writes nothing.
Command(actions) ==
  \E numbered \in {Numbered(Len(log), actions)} :
    /\ Room(numbered)
    /\ Commit(numbered)
    /\ UNCHANGED <<session, tx>>

-----------------------------------------------------------------------------
(* Commands: commandVocabularyStudy.                                       *)

\* Mutation of Companion: complete teaching is left to a later command.
CompanionWithoutTeaching(w, word) ==
  IF word.mode # "unstudied" /\ word.work = 1 /\ ReadyToCover(w, word)
  THEN <<[kind |-> "word_wrap", word |-> w, reason |-> "policy"]>>
  ELSE <<>>

Companion(w, word) ==
  IF TeachingComplete(w, word)
  THEN <<[kind |-> "teaching_complete", word |-> w]>>
  ELSE IF word.work = 1 /\ ReadyToCover(w, word)
  THEN <<[kind |-> "word_wrap", word |-> w, reason |-> "policy"]>>
  ELSE <<>>

\* An answer records the completion or the cover it earns in its transition.
Response(accepted) ==
  LET e == CurrentEnc(view.st)
      act == [kind |-> "response", encounter |-> e.id, accepted |-> accepted]
  IN  /\ Unanswered(view.st) /\ e.shape # "introduction"
      /\ \E run \in {RunFrom(view.st, Numbered(Len(log), <<act>>), FALSE)} :
           /\ run.ok
           /\ Command(<<act>> \o (IF e.word = NoWord THEN <<>>
                         ELSE Companion(e.word, run.st.words[e.word])))

Feedback(reaction) ==
  /\ HasCurrent(view.st)
  /\ Command(<<[kind |-> "feedback", encounter |-> CurrentEnc(view.st).id,
                reaction |-> reaction]>>)

SkipExercise ==
  /\ HasCurrent(view.st)
  /\ Command(<<[kind |-> "exercise_skip",
                encounter |-> CurrentEnc(view.st).id]>>)

SkipWord ==
  /\ CurrentWord(view.st) # NoWord
  /\ Command(<<[kind |-> "word_skip", word |-> CurrentWord(view.st)]>>)

Enough ==
  /\ CurrentWord(view.st) # NoWord
  /\ Command(<<[kind |-> "word_wrap", word |-> CurrentWord(view.st),
                reason |-> "enough"]>>)

More(w) ==
  /\ ~view.st.words[w].teachingDeferred
  /\ Command(<<[kind |-> "word_more", word |-> w]>>)

Requeue(w) ==
  /\ view.st.words[w].covered /\ ~view.st.words[w].teachingDeferred
  /\ view.st.words[w].status # "open"
  /\ Command(<<[kind |-> "word_more", word |-> w]>>)

ChangeMode(w, mode) ==
  Command(<<[kind |-> "mode_change", word |-> w, mode |-> mode]>>)

Resume            == Command(<<[kind |-> "resume"]>>)
FinishForNow      == Command(<<[kind |-> "finish_for_now"]>>)
FinishImmediately == Command(<<[kind |-> "finish_immediately"]>>)

Undo ==
  /\ view.latest # 0
  /\ Command(<<[kind |-> "undo", target |-> view.latest]>>)

-----------------------------------------------------------------------------
(* Next: nextVocabularyExercise.                                           *)

\* The actions a fresh Next opens with: an unanswered exercise is skipped,
\* and "Try another way" also excludes it.
Opening(st, another) ==
  LET e == CurrentEnc(st)
      open == e.word # NoWord => st.words[e.word].status = "open"
      leave == /\ HasCurrent(st) /\ open /\ ~e.skipped
               /\ e.answer = "none" \/ another
               /\ e.shape # "introduction"
  IN  (IF leave THEN <<[kind |-> "exercise_skip", encounter |-> e.id]>>
                ELSE <<>>)
      \o (IF another THEN <<[kind |-> "exercise_exclude", encounter |-> e.id]>>
                     ELSE <<>>)

Ran(t, action, run) ==
  [t EXCEPT !.additions = Append(@, action), !.st = run.st,
            !.ok = @ /\ run.ok]

Tried(t, action) == Ran(t, action, RunFrom(t.st, <<action>>, FALSE))

\* builder.push then builder.projection().
Push(t, action) ==
  Tried(t, Stamped(action, Len(log) + Len(t.additions) + 1, Len(log) + 1))

Begun(run, actions, wanted, another) ==
  [ open |-> TRUE, additions |-> actions, st |-> run.st, ok |-> run.ok,
    another |-> another, blocked |-> {},
    wanted |-> IF another THEN NoWord ELSE wanted ]

NextBegin(wanted, another) ==
  /\ ~tx.open /\ Short /\ view.st.phase # "completed"
  /\ log = <<>> => wanted = NoWord
  /\ another => Tryable(view.st)
  /\ \E actions \in {Numbered(Len(log), Opening(view.st, another))} :
       /\ Room(actions)
       /\ tx' = Begun(RunFrom(view.st, actions, FALSE), actions, wanted,
                      another)
  /\ UNCHANGED <<session, log, view, before>>

Targets(t) == IF t.wanted # NoWord THEN {t.wanted}
                                   ELSE Selected(t.st, t.blocked)

Rollback == tx' = Idle /\ UNCHANGED <<session, log, view, before>>

\* The transaction commits what it pushed, unless the reducer rejected some.
Conclude(t) ==
  IF t.ok THEN Commit(t.additions) /\ tx' = Idle /\ UNCHANGED session
          ELSE Rollback

\* A word stopped earlier is reopened before it is served again.
Reopened(t, w) ==
  IF Stopped(t.st.words[w])
  THEN Push(t, [kind |-> "word_more", word |-> w]) ELSE t

Serve(t, word, serving) ==
  Push(t, [ kind |-> "presentation", word |-> word, role |-> serving.role,
            content |-> serving.content, shape |-> serving.shape ])

\* Mutation of LeftUnfinished: an exhausted word stays open.
LeftOpen(t, w) == t

LeftUnfinished(t, w) ==
  IF t.st.words[w].admitted
  THEN Push(t, [kind |-> "word_skip", word |-> w]) ELSE t

\* The loop has selected w, which may be served.
Turn(w) ==
  /\ tx.open /\ tx.ok /\ w \in Targets(tx)
  /\ ~tx.st.words[w].teachingDeferred

\* Mutation of NextExhausts: the loop remembers only its last try.
NextExhaustsLast(w) ==
  /\ Turn(w)
  /\ \E t \in {Reopened(tx, w)} :
       /\ t.ok /\ ~TeachingComplete(w, t.st.words[w])
       /\ Servings(t.st, w) = {}
       /\ tx' = [LeftUnfinished(t, w) EXCEPT !.wanted = NoWord,
                                             !.blocked = {w}]
  /\ UNCHANGED <<session, log, view, before>>

\* Exhausted work is left unfinished, and the loop selects again.
NextExhausts(w) ==
  /\ Turn(w)
  /\ \E t \in {Reopened(tx, w)} :
       /\ t.ok /\ ~TeachingComplete(w, t.st.words[w])
       /\ Servings(t.st, w) = {}
       /\ tx' = [LeftUnfinished(t, w) EXCEPT !.wanted = NoWord,
                                             !.blocked = @ \cup {w}]
  /\ UNCHANGED <<session, log, view, before>>

\* Teaching already complete is recorded, and the loop selects again.
NextCompletes(w) ==
  /\ Turn(w)
  /\ \E t \in {Reopened(tx, w)} :
       /\ t.ok /\ TeachingComplete(w, t.st.words[w])
       /\ tx' = [Push(t, [kind |-> "teaching_complete", word |-> w])
                   EXCEPT !.wanted = NoWord]
  /\ UNCHANGED <<session, log, view, before>>

NextServes(w) ==
  /\ Turn(w)
  /\ \E t \in {Reopened(tx, w)} :
       t.ok /\ \E s \in Servings(t.st, w) : Conclude(Serve(t, w, s))

NextServesCue(c) ==
  /\ tx.open /\ tx.ok /\ c \in Targets(tx)
  /\ Conclude(Serve(tx, NoWord, [role |-> "general", content |-> c,
                                 shape |-> "production"]))

\* A deferred word asked for by name: what was pushed so far is kept.
NextUnavailable ==
  /\ tx.open /\ tx.ok /\ tx.wanted # NoWord
  /\ tx.st.words[tx.wanted].teachingDeferred
  /\ Conclude(tx)

\* Nothing is left to serve: study stops admitting.
NextFinishes ==
  /\ tx.open /\ tx.ok /\ Targets(tx) = {}
  /\ Conclude(IF tx.st.phase = "active"
              THEN Push(tx, [kind |-> "finish_for_now"]) ELSE tx)

\* The reducer rejects an addition: the transaction rolls back.
NextThrows ==
  /\ tx.open
  /\ ~tx.ok \/ \E w \in Words : Turn(w) /\ ~Reopened(tx, w).ok
  /\ Rollback

NextStep ==
  \/ \E w \in Words : NextExhausts(w) \/ NextCompletes(w) \/ NextServes(w)
  \/ \E c \in Cues : NextServesCue(c)
  \/ NextUnavailable
  \/ NextFinishes
  \/ NextThrows

-----------------------------------------------------------------------------
Init ==
  /\ session \in Compositions
  /\ log = <<>> /\ view = EmptyView
  /\ tx = Idle /\ before = Nothing

\* A learner may always leave the session as it is.
Rest == ~tx.open /\ UNCHANGED vars

\* commandVocabularyStudy, on a session that was started.
LearnerCommand ==
  /\ Started
  /\ \/ \E accepted \in BOOLEAN : Response(accepted)
     \/ \E r \in {"negative", "comment", "withdrawn"} : Feedback(r)
     \/ SkipExercise \/ SkipWord \/ Enough
     \/ \E w \in session.words : More(w) \/ Requeue(w)
     \/ \E w \in session.words, m \in Modes : ChangeMode(w, m)
     \/ Resume \/ FinishForNow \/ FinishImmediately \/ Undo

Next ==
  \/ LearnerCommand
  \/ \E w \in session.words \cup {NoWord}, another \in BOOLEAN :
       NextBegin(w, another)
  \/ NextStep
  \/ Rest

Spec == Init /\ [][Next]_vars

\* A transaction is synchronous code that waits for nothing: while it is open
\* its steps go on.  (Only NextStep can change anything then, and it is never
\* stuck: the runs check deadlock, and Rest is for idle sessions alone.)
FairSpec == Spec /\ (<>[](tx.open) => []<><<TRUE>>_vars)
-----------------------------------------------------------------------------
(* Properties.                                                             *)

\* The projection the server carries from command to command is the one it
\* would get by projecting the whole log afresh, observations included.
ProjectionIsFaithful == view = Project(log)

EffectiveActions == {a \in Range(log) : a.seq \notin view.undone}

\* The answered general (or teaching) encounters of one work cycle, by skill.
AnswersOf(w, n, skill, role) ==
  {i \in DOMAIN Encs(view.st) :
     LET e == Encs(view.st)[i] IN
     /\ e.word = w /\ e.work = n /\ e.role = role
     /\ SkillOf(e.shape) = skill /\ e.answer # "none"}

\* i ends a run of k consecutive accepted answers within the set S.
EndsRun(S, i, k) ==
  \E R \in SUBSET {j \in S : j <= i} :
    /\ Cardinality(R) = k /\ i \in R
    /\ \A j \in R : Encs(view.st)[j].answer = "accepted"
    /\ \A j \in S, r \in R : (r <= j /\ j <= i) => j \in R

Reviewed(w, n) ==
  LET S == AnswersOf(w, n, WordContext[w].selectedSkill, "general")
      Missed(i) == \E j \in S : j < i /\ Encs(view.st)[j].answer = "rejected"
  IN  \E i \in S : EndsRun(S, i, IF Missed(i) THEN RecoveryStreak ELSE 1)

RecalledBothWays(w, n) ==
  \A s \in WordContext[w].solidifySkills :
    \E i \in AnswersOf(w, n, s, "general") :
      Encs(view.st)[i].answer = "accepted"

TaughtIn(w, n) ==
  \A s \in {"recognition", "production"} :
    \E i \in AnswersOf(w, n, s, "teaching") :
      EndsRun(AnswersOf(w, n, s, "teaching"), i, TeachingStreak)

Earned(w) ==
  \E n \in 1..view.st.words[w].work :
    CASE WordContext[w].mode = "unstudied" ->
           \/ TaughtIn(w, n)
           \/ view.st.words[w].teachingCompleted /\ RecalledBothWays(w, n)
      [] WordContext[w].mode = "solidify"  -> RecalledBothWays(w, n)
      [] OTHER -> Reviewed(w, n)

\* Undo withdrew an introduction of w: a Next that skipped an exercise left
\* unanswered, and served the introduction, was undone after w's first teaching
\* exercise was served.  That exercise stays, and may still be answered.
Orphaned(w) ==
  \E i \in DOMAIN view.evidence :
    LET o == view.evidence[i] IN
    o.undone /\ o.word = w /\ o.shape = "introduction"

\* A word counts as recalled exactly when the answers still in force earn it
\* in one work cycle: a success, or the recovery streak after a miss, or both
\* Solidify directions, or complete teaching.  Undone answers earn nothing.
\* Only teaching whose introduction Undo withdrew may await its recall.
RecallIsEarned ==
  \A w \in Words :
    view.st.words[w].choice = NoMode =>
      /\ view.st.words[w].recalled => Earned(w)
      /\ Earned(w) => view.st.words[w].recalled \/ Orphaned(w)

\* Teaching is recorded in the transition that completes it, so Next meets
\* complete teaching still open only where Undo withdrew an introduction.
TeachingIsRecordedAtOnce ==
  \A w \in Words :
    /\ IsOpen(view.st.words[w])
    /\ TeachingComplete(w, view.st.words[w])
    => Orphaned(w)

\* Coverage without recall is the learner's own choice: an "Enough" still in
\* force, or a mode the learner chose over the frozen one.  The wrap that the
\* policy adds to an answer never covers a word that was not recalled.
CoverageIsExplained ==
  \A w \in Words :
    LET word == view.st.words[w] IN
    /\ word.recalled => word.covered
    /\ (word.covered /\ ~word.recalled /\ word.choice = NoMode) =>
         \E a \in EffectiveActions :
           a.kind = "word_wrap" /\ a.word = w /\ a.reason = "enough"

\* A promotion is recommended only on unassisted evidence: every answer in
\* force for the word is a success, both directions are among them, and the
\* learner chose no mode.
PromotionIsClean ==
  \A w \in Words :
    RecommendedMode(w, view.st.words[w]) # NoMode =>
      LET mine == {i \in DOMAIN Encs(view.st) :
                     Encs(view.st)[i].word = w
                     /\ Encs(view.st)[i].answer # "none"}
      IN  /\ \A i \in mine : Encs(view.st)[i].answer = "accepted"
          /\ \A s \in {"recognition", "production"} :
               \E i \in mine : SkillOf(Encs(view.st)[i].shape) = s
          /\ \A a \in EffectiveActions :
               a.kind = "mode_change" => a.word # w

\* "Try another way" excludes the exercise for the rest of the session, also
\* from explicit revisits, until Undo withdraws the exclusion.
ExclusionHolds ==
  \A a \in EffectiveActions :
    a.kind = "exercise_exclude" =>
      LET out == {e \in Range(Encs(view.st)) : e.id = a.encounter}
      IN  \A e \in Range(Encs(view.st)), x \in out :
            e.content = x.content => e.id < a.seq

\* Finishing lasts exactly as long as something started is unfinished.
FinishingHasWork ==
  /\ view.st.phase = "finishing" => WorkRemains(view.st)
  /\ (view.st.phase = "completed" /\ view.st.finishReason = "wrapped_up")
       => ~WorkRemains(view.st)

Withdrawable(word) ==
  <<word.mode, word.choice, word.progress, word.covered, word.recalled,
    word.solidifyRecallCompleted, word.teachingCompleted,
    word.teachingDeferred, word.missed>>

Undid == Len(log') > Len(log) /\ log'[Len(log')].kind = "undo"

\* Undo returns the learning state, the phase and every earlier exercise to
\* what they were before the latest transition, companions included, while
\* exercises served since remain.
UndoWithdrawsOneTransition ==
  [][ Undid =>
      LET old == before.st  new == view'.st IN
      /\ new.phase = old.phase /\ new.finishReason = old.finishReason
      /\ new.excluded = old.excluded
      /\ \A w \in Words :
           Withdrawable(new.words[w]) = Withdrawable(old.words[w])
      /\ \A w \in Words :
           old.words[w].admitted => /\ new.words[w].status = old.words[w].status
                                    /\ new.words[w].work = old.words[w].work
      /\ IsPrefix(old.encounters, new.encounters) ]_vars

\* No command ever deletes an observation: every answer and reaction stays
\* in the evidence, in the encounter it was given for.
ObservationsSurvive ==
  [][ \A i \in DOMAIN view.evidence :
        /\ i \in DOMAIN view'.evidence
        /\ view'.evidence[i].id = view.evidence[i].id
        /\ view'.evidence[i].work = view.evidence[i].work
        /\ view'.evidence[i].mode = view.evidence[i].mode
        /\ IsPrefix(view.evidence[i].responses, view'.evidence[i].responses)
        /\ IsPrefix(view.evidence[i].reactions, view'.evidence[i].reactions)
    ]_vars

\* A Next that is not asked for a particular word ends with an exercise the
\* learner can work on or with the session's work completed.
NextServesOrEnds ==
  [][ (tx.open /\ ~tx'.open /\ tx.wanted = NoWord /\ ~tx.another) =>
      /\ tx.ok /\ log' # log
      /\ \/ view'.st.phase = "completed"
         \/ Unanswered(view'.st) /\ WorkOpen(view'.st, CurrentEnc(view'.st))
    ]_vars

\* The selection loop of Next always ends: a transaction is never open for good.
NextEnds == []<>~tx.open

\* Undo, whenever it is offered, is accepted: replay meets no action that
\* the shortened log no longer admits.
OfferedUndoIsAccepted ==
  (CanUndo /\ ~tx.open) =>
    Project(log \o Numbered(Len(log),
              <<[kind |-> "undo", target |-> view.latest]>>)).ok
=============================================================================
