------------------------ MODULE SessionCompletionProofs ------------------------
(* What holds of SessionCompletion for every set of learners, sessions, words, *)
(* cues and reports: its type correctness and its safety invariants, from one  *)
(* inductive invariant, and from it that a schedule moves once for each effect *)
(* recorded of it.                                                             *)
EXTENDS SessionCompletion, SequenceTheorems, FiniteSetTheorems, TLAPS

\* Choosing a mode yields a word state.
LEMMA ChosenType ==
  ASSUME NEW word \in WordState, NEW mode \in Modes
  PROVE  Chosen(word, mode) \in WordState
<1>1. ASSUME NEW p \in BOOLEAN, NEW n \in Nat
      PROVE  [word EXCEPT !.mode = mode, !.paused = p, !.dismissed = FALSE, !.version = n]
             \in WordState
  BY DEF WordState, Modes
<1>2. (mode = "solidify") \in BOOLEAN
  OBVIOUS
<1>3. word.version + 1 \in Nat
  BY DEF WordState
<1> QED BY <1>1, <1>2, <1>3, Zenon DEF Chosen

\* Dismissing a word yields a word state.
LEMMA DismissedType ==
  ASSUME NEW word \in WordState
  PROVE  Dismissed(word) \in WordState
<1>1. ASSUME NEW n \in Nat
      PROVE  [word EXCEPT !.inStash = FALSE, !.mode = "unstudied", !.paused = FALSE,
                          !.dismissed = TRUE, !.version = n] \in WordState
  BY DEF WordState, Modes
<1>2. word.version + 1 \in Nat
  BY DEF WordState
<1> QED BY <1>1, <1>2, Zenon DEF Dismissed

\* Changing a word's stash membership yields a word state.
LEMMA StashedType ==
  ASSUME NEW word \in WordState, NEW in \in BOOLEAN
  PROVE  Stashed(word, in) \in WordState
<1>1. ASSUME NEW d \in BOOLEAN, NEW n \in Nat
      PROVE  [word EXCEPT !.inStash = in, !.dismissed = d, !.version = n] \in WordState
  BY DEF WordState
<1>2. (word.dismissed /\ ~in) \in BOOLEAN
  OBVIOUS
<1>3. word.version + 1 \in Nat
  BY DEF WordState
<1> QED BY <1>1, <1>2, <1>3, Zenon DEF Stashed

\* A session leaves each word in one of the modes.
LEMMA SessionModeType ==
  ASSUME NEW f \in Frozen, NEW r \in WordReport
  PROVE  SessionMode(f, r) \in Modes
<1>1. /\ f.mode \in Modes
      /\ r.explicit \in Modes \cup {NoMode}
      /\ "practice" \in Modes /\ "solidify" \in Modes
  BY DEF Frozen, WordReport, Modes
<1> QED BY <1>1, Zenon DEF SessionMode

\* Closing a session yields a word state.
LEMMA WordAfterType ==
  ASSUME NEW f \in Frozen, NEW r \in WordReport, NEW word \in WordState
  PROVE  WordAfter(f, r, word) \in WordState
<1>1. ASSUME NEW m \in Modes, NEW p \in BOOLEAN, NEW n \in Nat
      PROVE  [word EXCEPT !.mode = m, !.paused = p, !.version = n] \in WordState
  BY DEF WordState
<1>2. word.version + 1 \in Nat /\ word.mode \in Modes /\ word.paused \in BOOLEAN
  BY DEF WordState
<1>3. ModeAfter(f, r, word) \in Modes
  BY <1>2, SessionModeType, Zenon DEF ModeAfter
<1>4. PausedAfter(f, r, word) \in BOOLEAN
  <2>1. (r.explicit = "solidify") \in BOOLEAN /\ (~r.taught /\ word.paused) \in BOOLEAN
    OBVIOUS
  <2> QED BY <1>2, <2>1, Zenon DEF PausedAfter
<1> QED BY <1>1, <1>2, <1>3, <1>4, Zenon DEF WordAfter

\* Closing a session yields a production schedule.
LEMMA ScheduleAfterType ==
  ASSUME NEW w, NEW f \in Frozen, NEW r \in WordReport, NEW word \in WordState,
         NEW schedule \in Schedule
  PROVE  ScheduleAfter(w, f, r, word, schedule) \in Schedule
<1>1. ASSUME NEW d \in {"unset", "next_day", "now", "interval"}, NEW c \in Nat,
             NEW b \in BOOLEAN, NEW n \in Nat
      PROVE  [due |-> d, clean |-> c, refresh |-> b, version |-> n] \in Schedule
  BY DEF Schedule
<1>2. /\ schedule.due \in {"unset", "next_day", "now", "interval"}
      /\ schedule.clean + 1 \in Nat
      /\ schedule.version + 1 \in Nat
  BY DEF Schedule
<1>3. DueAfter(ModeAfter(f, r, word), r, schedule.due)
        \in {"unset", "next_day", "now", "interval"}
  BY <1>2 DEF DueAfter
<1>4. (IF r.clean THEN schedule.clean + 1 ELSE 0) \in Nat
  BY <1>2
<1>5. (\/ schedule.refresh
       \/ ModeAfter(f, r, word) = "maintain" /\ r.production = "rejected") \in BOOLEAN
  OBVIOUS
<1> QED BY <1>1, <1>2, <1>3, <1>4, <1>5, Zenon DEF ScheduleAfter

\* Closing a session yields a cue schedule.
LEMMA CueAfterType ==
  ASSUME NEW evidence \in Evidence, NEW cue \in CueSchedule
  PROVE  CueAfter(evidence, cue) \in CueSchedule
BY DEF CueAfter, CueSchedule

\* Every effect names a kind of effect and a word or a cue.
LEMMA EffectsType ==
  ASSUME NEW frozen, NEW report, NEW learner, NEW e \in Effects(frozen, report, learner)
  PROVE  e.kind \in Kinds /\ e.subject \in Words \cup Cues
BY DEF Effects

\* Rewriting one row of a completion table.
LEMMA RowUpdate ==
  ASSUME NEW q \in Seq(Completion), NEW r \in DOMAIN q, NEW c \in Completion
  PROVE  /\ [q EXCEPT ![r] = c] \in Seq(Completion)
         /\ Len([q EXCEPT ![r] = c]) = Len(q)
         /\ DOMAIN [q EXCEPT ![r] = c] = DOMAIN q
         /\ \A i \in DOMAIN q : [q EXCEPT ![r] = c][i] = IF i = r THEN c ELSE q[i]
<1>1. DOMAIN q = 1..Len(q)
  OBVIOUS
<1>2. /\ [q EXCEPT ![r] = c] \in Seq(Completion)
      /\ Len([q EXCEPT ![r] = c]) = Len(q)
      /\ \A i \in 1..Len(q) : [q EXCEPT ![r] = c][i] = IF i = r THEN c ELSE q[i]
  BY <1>1, ExceptSeq, Zenon
<1> QED BY <1>1, <1>2

\* What a transaction that rewrites one completion leaves of the table.
Rewritten(s, r, c) ==
  /\ completions' \in [Sessions -> Seq(Completion)]
  /\ \A t \in Sessions : /\ Revisions(t)' = Revisions(t)
                         /\ Len(completions'[t]) = Len(completions[t])
                         /\ t # s => completions'[t] = completions[t]
  /\ \A i \in Revisions(s) : completions'[s][i] = IF i = r THEN c ELSE completions[s][i]

\* Replacing a row by a completion is a rewrite of the table.
LEMMA RewriteRow ==
  ASSUME TypeOK, NEW s \in Sessions, NEW r \in Revisions(s), NEW c \in Completion,
         completions' = [completions EXCEPT ![s] = [completions[s] EXCEPT ![r] = c]]
  PROVE  Rewritten(s, r, c)
<1>1. completions[s] \in Seq(Completion) /\ completions \in [Sessions -> Seq(Completion)]
  BY DEF TypeOK
<1>2. r \in DOMAIN completions[s]
  BY DEF Revisions
<1>3. /\ completions'[s] = [completions[s] EXCEPT ![r] = c]
      /\ \A t \in Sessions \ {s} : completions'[t] = completions[t]
  BY <1>1
<1>4. /\ completions'[s] \in Seq(Completion)
      /\ Len(completions'[s]) = Len(completions[s])
      /\ DOMAIN completions'[s] = DOMAIN completions[s]
      /\ \A i \in DOMAIN completions[s] :
           completions'[s][i] = IF i = r THEN c ELSE completions[s][i]
  BY <1>1, <1>2, <1>3, RowUpdate
<1>5. completions' \in [Sessions -> Seq(Completion)]
  BY <1>1, <1>3, <1>4
<1> QED BY <1>3, <1>4, <1>5 DEF Revisions, Rewritten

\* Every row of a completion table is a completion, and freezes a report.
LEMMA RowType ==
  ASSUME TypeOK, NEW s \in Sessions, NEW r \in Revisions(s)
  PROVE  /\ completions[s][r] \in Completion
         /\ r \in Nat \ {0}
         /\ ReportOf(completions[s][r]) \in Reports
<1>1. completions[s] \in Seq(Completion)
  BY DEF TypeOK
<1>2. completions[s][r] \in Completion /\ r \in Nat \ {0}
  BY <1>1 DEF Revisions
<1>3. completions[s][r].input \in Seq(Reports)
  BY <1>2 DEF Completion
<1>4. completions[s][r].through \in DOMAIN completions[s][r].input
  BY DEF TypeOK
<1> QED BY <1>2, <1>3, <1>4 DEF ReportOf

\* Giving a row another status rewrites it.
LEMMA MarkedRow ==
  ASSUME TypeOK, NEW s \in Sessions, NEW r \in Revisions(s),
         NEW mark \in CompletionStatuses, Marked(s, r, mark)
  PROVE  Rewritten(s, r, [completions[s][r] EXCEPT !.status = mark])
<1>1. [completions[s][r] EXCEPT !.status = mark] \in Completion
  BY RowType DEF Completion
<1>2. completions' = [completions EXCEPT ![s] =
                       [completions[s] EXCEPT ![r] = [completions[s][r] EXCEPT !.status = mark]]]
  BY DEF Marked
<1> QED BY <1>1, <1>2, RewriteRow

\* The end of the summary's window rewrites its row.
LEMMA WindowRow ==
  ASSUME TypeOK, NEW s \in Sessions, NEW r \in Revisions(s), WindowEnds(s, r)
  PROVE  Rewritten(s, r, [completions[s][r] EXCEPT !.due = TRUE])
<1>1. [completions[s][r] EXCEPT !.due = TRUE] \in Completion
  BY RowType DEF Completion
<1>2. completions' = [completions EXCEPT ![s] =
                       [completions[s] EXCEPT ![r] = [completions[s][r] EXCEPT !.due = TRUE]]]
  BY DEF WindowEnds
<1> QED BY <1>1, <1>2, RewriteRow

\* A rewritten row keeps the table's type when it keeps its frozen input.
LEMMA RewrittenType ==
  ASSUME TypeOK, NEW s \in Sessions, NEW r \in Revisions(s), NEW c \in Completion,
         c.input = completions[s][r].input, c.through = completions[s][r].through,
         Rewritten(s, r, c)
  PROVE  /\ completions' \in [Sessions -> Seq(Completion)]
         /\ \A t \in Sessions : \A i \in Revisions(t)' :
              completions'[t][i].through \in DOMAIN completions'[t][i].input
<1>1. completions' \in [Sessions -> Seq(Completion)]
  BY DEF Rewritten
<1>2. ASSUME NEW t \in Sessions, NEW i \in Revisions(t)'
      PROVE  completions'[t][i].through \in DOMAIN completions'[t][i].input
  <2>1. i \in Revisions(t)
    BY DEF Rewritten
  <2>2. completions[t][i].through \in DOMAIN completions[t][i].input
    BY <2>1 DEF TypeOK
  <2>3. CASE t = s /\ i = r
    <3>1. completions'[t][i] = c
      BY <2>1, <2>3 DEF Rewritten
    <3> QED BY <2>2, <2>3, <3>1
  <2>4. CASE ~(t = s /\ i = r)
    <3>1. completions'[t][i] = completions[t][i]
      BY <2>1, <2>4 DEF Rewritten
    <3> QED BY <2>2, <3>1
  <2> QED BY <2>3, <2>4
<1> QED BY <1>1, <1>2

\* A report says something well typed of every word and cue.
LEMMA ReportType ==
  ASSUME NEW report \in Reports
  PROVE  /\ \A w \in Words : report.words[w] \in WordReport
         /\ \A x \in Cues : report.cues[x] \in Evidence
BY SessionsAssumption DEF Report

\* What a session freezes at its start is well typed.
LEMMA FreezeType ==
  ASSUME TypeOK, NEW l \in Learners
  PROVE  Freeze(l) \in [Words -> Frozen]
<1> SUFFICES ASSUME NEW w \in Words
             PROVE  [mode |-> words[l][w].mode, paused |-> words[l][w].paused,
                     clean |-> schedules[l][w].clean,
                     version |-> words[l][w].version] \in Frozen
  BY DEF Freeze
<1>1. words[l][w] \in WordState /\ schedules[l][w] \in Schedule
  BY DEF TypeOK
<1> QED BY <1>1 DEF WordState, Schedule, Frozen

\* The initial state is well typed.
LEMMA InitType == Init => TypeOK
<1> SUFFICES ASSUME Init PROVE TypeOK
  OBVIOUS
<1>1. context \in [Sessions -> [Words -> Frozen]]
  BY DEF Init, Unfrozen, Frozen, Modes
<1>2. words \in [Learners -> [Words -> WordState]]
  BY SessionsAssumption DEF Init
<1>3. schedules \in [Learners -> [Words -> Schedule]]
  BY SessionsAssumption DEF Init, Schedule
<1>4. cues \in [Learners -> [Cues -> CueSchedule]]
  BY DEF Init, CueSchedule
<1>5. /\ status \in [Sessions -> Statuses]
      /\ log \in [Sessions -> Seq(Reports)]
      /\ completions \in [Sessions -> Seq(Completion)]
  BY DEF Init, Statuses
<1>6. \A s \in Sessions : Revisions(s) = {}
  BY DEF Init, Revisions
<1>7. effects = {} /\ dispatches = {} /\ decided = {}
  BY DEF Init
<1> QED BY <1>1, <1>2, <1>3, <1>4, <1>5, <1>6, <1>7 DEF TypeOK

\* Applying a completion keeps the types.
LEMMA SaveType ==
  ASSUME TypeOK, NEW s \in Sessions, NEW r \in Revisions(s), NEW report \in Reports,
         Save(s, r, report)
  PROVE  TypeOK'
<1> DEFINE l == Owner[s]
<1>1. l \in Learners /\ context[s] \in [Words -> Frozen]
  BY SessionsAssumption DEF TypeOK
<1>2. words' \in [Learners -> [Words -> WordState]]
  <2>1. \A w \in Words : WordAfter(context[s][w], report.words[w], words[l][w]) \in WordState
    BY <1>1, ReportType, WordAfterType DEF TypeOK
  <2>2. words' = [words EXCEPT ![l] = [w \in Words |->
                   WordAfter(context[s][w], report.words[w], words[l][w])]]
    BY DEF Save, Applied
  <2> QED BY <1>1, <2>1, <2>2 DEF TypeOK
<1>3. schedules' \in [Learners -> [Words -> Schedule]]
  <2>1. \A w \in Words :
          ScheduleAfter(w, context[s][w], report.words[w], words[l][w], schedules[l][w])
            \in Schedule
    BY <1>1, ReportType, ScheduleAfterType DEF TypeOK
  <2>2. schedules' = [schedules EXCEPT ![l] = [w \in Words |->
          ScheduleAfter(w, context[s][w], report.words[w], words[l][w], schedules[l][w])]]
    BY DEF Save, Applied
  <2> QED BY <1>1, <2>1, <2>2 DEF TypeOK
<1>4. cues' \in [Learners -> [Cues -> CueSchedule]]
  <2>1. \A x \in Cues : CueAfter(report.cues[x], cues[l][x]) \in CueSchedule
    BY <1>1, ReportType, CueAfterType DEF TypeOK
  <2>2. cues' = [cues EXCEPT ![l] = [x \in Cues |-> CueAfter(report.cues[x], cues[l][x])]]
    BY DEF Save, Applied
  <2> QED BY <1>1, <2>1, <2>2 DEF TypeOK
<1>5. effects' \subseteq [session : Sessions, revision : Nat \ {0},
                          kind : Kinds, subject : Words \cup Cues]
  <2>1. Recorded(s, r, report) \subseteq [session : Sessions, revision : Nat \ {0},
                                           kind : Kinds, subject : Words \cup Cues]
    BY RowType, EffectsType DEF Recorded
  <2> QED BY <2>1 DEF TypeOK, Save
<1>6. dispatches' \subseteq [session : Sessions, revision : Nat \ {0}, report : Reports]
  BY RowType DEF TypeOK, Save
<1>7. decided' \subseteq Sessions \X Words
  BY DEF TypeOK, Save, Overtaken, Open
<1>8. status' \in [Sessions -> Statuses]
  BY DEF TypeOK, Save, Statuses
<1>9. /\ completions' \in [Sessions -> Seq(Completion)]
      /\ \A t \in Sessions : \A i \in Revisions(t)' :
           completions'[t][i].through \in DOMAIN completions'[t][i].input
  <2> DEFINE c == [completions[s][r] EXCEPT !.status = "closed"]
  <2>1. c \in Completion /\ c.input = completions[s][r].input
        /\ c.through = completions[s][r].through
    BY RowType DEF Completion, CompletionStatuses
  <2>2. Rewritten(s, r, c)
    BY MarkedRow DEF Save, CompletionStatuses
  <2> HIDE DEF c
  <2> QED BY <2>1, <2>2, RewrittenType
<1>10. UNCHANGED <<context, log>>
  BY DEF Save
<1> QED BY <1>2, <1>3, <1>4, <1>5, <1>6, <1>7, <1>8, <1>9, <1>10 DEF TypeOK, Revisions

\* Concluding a completion without applying it keeps the types.
LEMMA MarkType ==
  ASSUME TypeOK, NEW s \in Sessions, NEW r \in Revisions(s),
         NEW mark \in CompletionStatuses, Marked(s, r, mark),
         UNCHANGED <<context, log, learning, effects, dispatches, decided>>,
         status' \in [Sessions -> Statuses]
  PROVE  TypeOK'
<1> DEFINE c == [completions[s][r] EXCEPT !.status = mark]
<1>1. c \in Completion /\ c.input = completions[s][r].input
      /\ c.through = completions[s][r].through
  BY RowType DEF Completion
<1>2. Rewritten(s, r, c)
  BY MarkedRow
<1> HIDE DEF c
<1>3. /\ completions' \in [Sessions -> Seq(Completion)]
      /\ \A t \in Sessions : \A i \in Revisions(t)' :
           completions'[t][i].through \in DOMAIN completions'[t][i].input
  BY <1>1, <1>2, RewrittenType
<1> QED BY <1>3 DEF TypeOK, Revisions, learning

\* An attempt to close keeps the types, whether it applies or fails.
LEMMA AttemptType ==
  ASSUME TypeOK, NEW s \in Sessions, NEW r \in Revisions(s), Attempt(s, r)
  PROVE  TypeOK'
<1>1. CASE Save(s, r, ReportOf(completions[s][r]))
  BY <1>1, RowType, SaveType
<1>2. CASE Fail(s, r)
  <2>1. "failed" \in CompletionStatuses
    BY DEF CompletionStatuses
  <2>2. status' \in [Sessions -> Statuses]
    BY <1>2 DEF Fail, TypeOK
  <2> QED BY <1>2, <2>1, <2>2, MarkType DEF Fail
<1> QED BY <1>1, <1>2 DEF Attempt

\* What the learner does to a word outside sessions keeps the types.
LEMMA OutsideType ==
  ASSUME TypeOK, NEW l \in Learners, NEW w \in Words, NEW after \in WordState,
         NEW deciding \in BOOLEAN, Outside(l, w, after, deciding)
  PROVE  TypeOK'
<1>1. words' \in [Learners -> [Words -> WordState]]
  BY DEF TypeOK, Outside
<1>2. decided' \subseteq Sessions \X Words
  BY DEF TypeOK, Outside, Open
<1> QED BY <1>1, <1>2 DEF TypeOK, Outside, Revisions

\* Staging a completion keeps the types.
LEMMA StageType ==
  ASSUME TypeOK, NEW s \in Sessions, NEW through \in 0..MaxLog, Stage(s, through)
  PROVE  TypeOK'
<1> DEFINE c == [input |-> log[s], through |-> through, status |-> "pending", due |-> FALSE]
<1>1. through \in Nat /\ log[s] \in Seq(Reports) /\ completions[s] \in Seq(Completion)
  BY SessionsAssumption DEF TypeOK
<1>2. c \in Completion /\ c.through \in DOMAIN c.input
  BY <1>1 DEF Completion, CompletionStatuses, Stage
<1>3. completions' = [completions EXCEPT ![s] = Append(completions[s], c)]
  BY DEF Stage
<1> HIDE DEF c
<1>4. Append(completions[s], c) \in Seq(Completion)
  BY <1>1, <1>2
<1>5. completions' \in [Sessions -> Seq(Completion)]
  BY <1>3, <1>4 DEF TypeOK
<1>6. ASSUME NEW t \in Sessions, NEW i \in Revisions(t)'
      PROVE  completions'[t][i].through \in DOMAIN completions'[t][i].input
  <2>1. CASE t = s
    <3>1. completions'[t] = Append(completions[s], c)
      BY <1>3, <2>1 DEF TypeOK
    <3>2. i \in DOMAIN Append(completions[s], c)
      BY <3>1 DEF Revisions
    <3>3. i \in DOMAIN completions[s] \/ i = Len(completions[s]) + 1
      BY <1>1, <1>2, <3>2
    <3>4. completions'[t][i] = IF i \in DOMAIN completions[s] THEN completions[s][i] ELSE c
      BY <1>1, <1>2, <3>1, <3>3
    <3> QED BY <1>2, <3>4 DEF TypeOK, Revisions
  <2>2. CASE t # s
    <3>1. completions'[t] = completions[t]
      BY <1>3, <2>2 DEF TypeOK
    <3> QED BY <3>1 DEF TypeOK, Revisions
  <2> QED BY <2>1, <2>2
<1>7. status' \in [Sessions -> Statuses]
  BY DEF TypeOK, Stage, Statuses
<1> QED BY <1>5, <1>6, <1>7 DEF TypeOK, Stage, Revisions, learning

\* Every step keeps the types.
LEMMA NextType == TypeOK /\ [Next]_vars => TypeOK'
<1> SUFFICES ASSUME TypeOK, [Next]_vars PROVE TypeOK'
  OBVIOUS
<1>1. CASE UNCHANGED vars
  BY <1>1 DEF vars, learning, TypeOK, Revisions
<1>2. ASSUME NEW s \in Sessions, Create(s) PROVE TypeOK'
  <2>1. context' \in [Sessions -> [Words -> Frozen]]
    BY <1>2, FreezeType, SessionsAssumption DEF TypeOK, Create
  <2>2. status' \in [Sessions -> Statuses]
    BY <1>2 DEF TypeOK, Create, Statuses
  <2> QED BY <1>2, <2>1, <2>2 DEF TypeOK, Create, learning, Revisions
<1>3. ASSUME NEW s \in Sessions, NEW report \in Reports, AppendWork(s, report) PROVE TypeOK'
  <2>1. log' \in [Sessions -> Seq(Reports)]
    BY <1>3 DEF TypeOK, AppendWork
  <2> QED BY <1>3, <2>1 DEF TypeOK, AppendWork, learning, Revisions
<1>4. ASSUME NEW s \in Sessions, NEW r \in Revisions(s), Cancel(s, r) PROVE TypeOK'
  <2>1. status' \in [Sessions -> Statuses] /\ "cancelled" \in CompletionStatuses
    BY <1>4 DEF TypeOK, Cancel, Statuses, CompletionStatuses
  <2> QED BY <1>4, <2>1, MarkType DEF Cancel
<1>5. ASSUME NEW s \in Sessions, NEW r \in Revisions(s),
             CancelTooLate(s, r) \/ Close(s, r) \/ WorkerCloses(s, r)
      PROVE  TypeOK'
  BY <1>5, AttemptType DEF CancelTooLate, Close, WorkerCloses
<1>6. ASSUME NEW s \in Sessions, NEW r \in Revisions(s), WindowEnds(s, r) PROVE TypeOK'
  <2> DEFINE c == [completions[s][r] EXCEPT !.due = TRUE]
  <2>1. c \in Completion /\ c.input = completions[s][r].input
        /\ c.through = completions[s][r].through
    BY RowType DEF Completion
  <2>2. Rewritten(s, r, c)
    BY <1>6, WindowRow
  <2> HIDE DEF c
  <2>3. /\ completions' \in [Sessions -> Seq(Completion)]
        /\ \A t \in Sessions : \A i \in Revisions(t)' :
             completions'[t][i].through \in DOMAIN completions'[t][i].input
    BY <2>1, <2>2, RewrittenType
  <2> QED BY <1>6, <2>3 DEF TypeOK, WindowEnds, learning, Revisions
<1>7. ASSUME NEW l \in Learners, NEW w \in Words,
             \/ \E mode \in Modes : ChangeMode(l, w, mode)
             \/ \E in \in BOOLEAN : SetStash(l, w, in)
             \/ Dismiss(l, w)
      PROVE  TypeOK'
  <2>1. words[l][w] \in WordState
    BY DEF TypeOK
  <2>2. ASSUME NEW mode \in Modes, ChangeMode(l, w, mode) PROVE TypeOK'
    BY <2>1, <2>2, ChosenType, OutsideType DEF ChangeMode
  <2>3. ASSUME NEW in \in BOOLEAN, SetStash(l, w, in) PROVE TypeOK'
    BY <2>1, <2>3, StashedType, OutsideType DEF SetStash
  <2>4. CASE Dismiss(l, w)
    BY <2>1, <2>4, DismissedType, OutsideType DEF Dismiss
  <2> QED BY <1>7, <2>2, <2>3, <2>4
<1> QED BY <1>1, <1>2, <1>3, <1>4, <1>5, <1>6, <1>7, SessionsAssumption, StageType DEF Next

\* Every reachable state of the saving machinery is well typed: in particular each
\* completion's frozen boundary lies within the actions it retained.
THEOREM TypeCorrect == Spec => []TypeOK
<1>1. Init => TypeOK
  BY InitType
<1>2. TypeOK /\ [Next]_vars => TypeOK'
  BY NextType
<1> QED BY <1>1, <1>2, PTL DEF Spec

------------------------------------------------------------------------------
(* Safety.  None of the invariants is inductive alone: that a close finds the  *)
(* whole log frozen rests on the session row and the completion rows agreeing, *)
(* and so does that the effects belong to the newest revision.                 *)

Safe == RowsAgree /\ OneSavedAtATime /\ FrozenIsWhole /\ EffectsOfTheClosedRevision
IInv == TypeOK /\ Safe

\* Only the newest completion can be unfinished, and its session is finalizing.
LEMMA UnfinishedIsLatest ==
  ASSUME IInv, NEW s \in Sessions, NEW r \in Revisions(s), Unfinished(completions[s][r])
  PROVE  /\ r = Len(completions[s])
         /\ completions[s][r] = Latest(s)
         /\ status[s] = "finalizing"
<1>1. completions[s] \in Seq(Completion) /\ status[s] \in Statuses
  BY DEF IInv, TypeOK
<1>2. r \in 1..Len(completions[s]) /\ completions[s] # <<>>
  BY <1>1 DEF Revisions
<1>3. completions[s][r].status # "cancelled" /\ completions[s][r].status # "closed"
  BY DEF Unfinished
<1>4. r = Len(completions[s])
  BY <1>2, <1>3 DEF IInv, Safe, RowsAgree
<1>5. completions[s][r] = Latest(s)
  BY <1>4 DEF Latest
<1> QED BY <1>1, <1>2, <1>3, <1>4, <1>5 DEF IInv, Safe, RowsAgree, Statuses

\* A finalizing session holds its learner's saving.
LEMMA FinalizingIsSaving ==
  ASSUME IInv, NEW s \in Sessions, status[s] = "finalizing"
  PROVE  Saving(Owner[s])
<1>1. completions[s] \in Seq(Completion)
  BY DEF IInv, TypeOK
<1>2. completions[s] # <<>> /\ Unfinished(Latest(s))
  BY DEF IInv, Safe, RowsAgree
<1>3. Len(completions[s]) \in Revisions(s)
  BY <1>1, <1>2 DEF Revisions
<1> QED BY <1>2, <1>3 DEF Saving, Latest

\* The session status that goes with a newest completion's.
Goes(x, c) == \/ x = "active" /\ c.status = "cancelled"
              \/ x = "finalizing" /\ Unfinished(c)
              \/ x = "closed" /\ c.status = "closed"

\* Concluding, failing or ageing the newest completion keeps the two tables agreed.
LEMMA NewestRewritten ==
  ASSUME IInv, NEW s \in Sessions, NEW r \in Revisions(s), NEW c, NEW x \in Statuses,
         r = Len(completions[s]), status[s] = "finalizing",
         Rewritten(s, r, c), Goes(x, c),
         c.input = completions[s][r].input, c.through = completions[s][r].through,
         status' = [status EXCEPT ![s] = x], log' = log
  PROVE  /\ (RowsAgree /\ OneSavedAtATime /\ FrozenIsWhole)'
         /\ Len(completions'[s]) = r /\ Latest(s)' = c
<1>1. /\ completions[s] \in Seq(Completion) /\ completions'[s] \in Seq(Completion)
      /\ Len(completions'[s]) = r /\ Revisions(s)' = Revisions(s)
      /\ Revisions(s) = 1..r
  BY DEF IInv, TypeOK, Rewritten, Revisions
<1>2. completions'[s] # <<>> /\ Latest(s)' = c
  BY <1>1 DEF Rewritten, Latest
<1>3. status'[s] = x /\ \A t \in Sessions \ {s} : status'[t] = status[t]
  BY DEF IInv, TypeOK
<1>4. \A t \in Sessions \ {s} : completions'[t] = completions[t] /\ Revisions(t)' = Revisions(t)
                               /\ Latest(t)' = Latest(t)
  BY DEF Rewritten, Latest
<1>5. RowsAgree'
  <2> SUFFICES ASSUME NEW t \in Sessions
               PROVE  /\ \A i \in Revisions(t)' : i < Len(completions'[t]) =>
                           completions'[t][i].status = "cancelled"
                      /\ status'[t] = "none" => completions'[t] = <<>> /\ log'[t] = <<>>
                      /\ status'[t] = "active" /\ completions'[t] # <<>> =>
                           Latest(t)'.status = "cancelled"
                      /\ status'[t] = "finalizing" =>
                           completions'[t] # <<>> /\ Unfinished(Latest(t)')
                      /\ status'[t] = "closed" =>
                           completions'[t] # <<>> /\ Latest(t)'.status = "closed"
    BY DEF RowsAgree, Unfinished
  <2>1. CASE t = s
    <3>1. \A i \in Revisions(s) : i < r => completions'[s][i].status = "cancelled"
      BY SMTT(30) DEF IInv, Safe, RowsAgree, Rewritten
    <3> QED BY <1>1, <1>2, <1>3, <2>1, <3>1 DEF Goes, Unfinished
  <2>2. CASE t # s
    BY <1>3, <1>4, <2>2 DEF IInv, Safe, RowsAgree
  <2> QED BY <2>1, <2>2
<1>6. OneSavedAtATime'
  <2>1. \A t \in Sessions : status'[t] = "finalizing" => status[t] = "finalizing"
    BY <1>3
  <2> QED BY <2>1 DEF IInv, Safe, OneSavedAtATime
<1>7. FrozenIsWhole'
  <2> SUFFICES ASSUME NEW t \in Sessions, status'[t] \in {"finalizing", "closed"}
               PROVE  /\ Latest(t)'.input = log[t]
                      /\ Latest(t)'.through = Len(log[t])
                      /\ Latest(t)'.through > 0
                      /\ ReportOf(Latest(t)').done
    BY DEF FrozenIsWhole, ReportOf
  <2>1. CASE t = s
    BY <1>2, <2>1 DEF IInv, Safe, FrozenIsWhole, Latest, ReportOf
  <2>2. CASE t # s
    BY <1>3, <1>4, <2>2 DEF IInv, Safe, FrozenIsWhole
  <2> QED BY <2>1, <2>2
<1> QED BY <1>1, <1>2, <1>5, <1>6, <1>7

\* Evidence of closed sessions stays theirs while no session closes.
LEMMA EvidenceKept ==
  ASSUME IInv, UNCHANGED <<effects, dispatches>>,
         \A t \in Sessions :
           /\ status'[t] = "closed" <=> status[t] = "closed"
           /\ status[t] = "closed" => completions'[t] = completions[t]
  PROVE  EffectsOfTheClosedRevision'
<1>1. \A e \in effects \cup dispatches : e.session \in Sessions
  BY DEF IInv, TypeOK
<1>2. \A t \in Sessions : status[t] = "closed" =>
        Len(completions'[t]) = Len(completions[t]) /\ Latest(t)' = Latest(t)
  BY DEF Latest
<1> QED BY <1>1, <1>2 DEF IInv, Safe, EffectsOfTheClosedRevision, ReportOf

\* Applying an unfinished completion keeps the saving safe.
LEMMA SaveSafe ==
  ASSUME IInv, NEW s \in Sessions, NEW r \in Revisions(s), Unfinished(completions[s][r]),
         Save(s, r, ReportOf(completions[s][r]))
  PROVE  Safe'
<1> DEFINE c == [completions[s][r] EXCEPT !.status = "closed"]
           d == [session |-> s, revision |-> r, report |-> ReportOf(completions[s][r])]
<1>1. /\ r = Len(completions[s]) /\ status[s] = "finalizing"
      /\ r \in Nat \ {0} /\ completions[s][r] \in Completion
  BY UnfinishedIsLatest, RowType DEF IInv
<1>2. Rewritten(s, r, c)
  BY MarkedRow DEF IInv, Save, CompletionStatuses
<1>3. /\ c.status = "closed"
      /\ c.input = completions[s][r].input /\ c.through = completions[s][r].through
  BY <1>1 DEF Completion
<1>4. status' = [status EXCEPT ![s] = "closed"] /\ log' = log
      /\ dispatches' = dispatches \cup {d}
      /\ effects' = effects \cup Recorded(s, r, ReportOf(completions[s][r]))
  BY DEF Save
<1>5. ReportOf(c) = ReportOf(completions[s][r])
  BY <1>3 DEF ReportOf
<1> HIDE DEF c
<1>6. /\ (RowsAgree /\ OneSavedAtATime /\ FrozenIsWhole)'
      /\ Len(completions'[s]) = r /\ Latest(s)' = c
  BY <1>1, <1>2, <1>3, <1>4, NewestRewritten DEF Goes, Statuses
<1>7. /\ status'[s] = "closed"
      /\ \A t \in Sessions \ {s} : /\ status'[t] = status[t]
                                   /\ completions'[t] = completions[t]
  BY <1>2, <1>4 DEF IInv, TypeOK, Rewritten
<1>8. /\ \A e \in effects \cup dispatches : e.session \in Sessions \ {s}
      /\ \A e \in Recorded(s, r, ReportOf(completions[s][r])) :
           e.session = s /\ e.revision = r
  <2>1. \A e \in effects \cup dispatches : e.session \in Sessions
    BY DEF IInv, TypeOK
  <2>2. \A e \in effects \cup dispatches : status[e.session] = "closed"
    BY DEF IInv, Safe, EffectsOfTheClosedRevision
  <2> QED BY <1>1, <2>1, <2>2 DEF Recorded
<1>9. EffectsOfTheClosedRevision'
  <2>1. ASSUME NEW e \in effects' \cup dispatches'
        PROVE  status'[e.session] = "closed" /\ e.revision = Len(completions'[e.session])
    <3>1. CASE e \in effects \cup dispatches
      BY <1>7, <1>8, <3>1 DEF IInv, Safe, EffectsOfTheClosedRevision
    <3>2. CASE e \in Recorded(s, r, ReportOf(completions[s][r])) \cup {d}
      BY <1>6, <1>7, <1>8, <3>2
    <3> QED BY <1>4, <2>1, <3>1, <3>2
  <2>2. ASSUME NEW t \in Sessions, status'[t] = "closed"
        PROVE  [session |-> t, revision |-> Len(completions'[t]),
                report |-> ReportOf(Latest(t)')] \in dispatches'
    <3>1. CASE t = s
      BY <1>4, <1>5, <1>6, <3>1
    <3>2. CASE t # s
      <4>1. status[t] = "closed" /\ Latest(t)' = Latest(t) /\ completions'[t] = completions[t]
        BY <1>7, <2>2, <3>2 DEF Latest
      <4>2. [session |-> t, revision |-> Len(completions[t]), report |-> ReportOf(Latest(t))]
              \in dispatches
        BY <4>1 DEF IInv, Safe, EffectsOfTheClosedRevision
      <4> QED BY <1>4, <4>1, <4>2
    <3> QED BY <3>1, <3>2
  <2>3. ASSUME NEW a \in dispatches', NEW b \in dispatches', a.session = b.session
        PROVE  a = b
    <3>1. a.session = s => a = d
      BY <1>4, <1>8
    <3>2. b.session = s => b = d
      BY <1>4, <1>8
    <3>3. CASE a.session # s
      BY <1>4, <2>3, <3>3 DEF IInv, Safe, EffectsOfTheClosedRevision
    <3> QED BY <2>3, <3>1, <3>2, <3>3
  <2> QED BY <2>1, <2>2, <2>3 DEF EffectsOfTheClosedRevision, ReportOf
<1> QED BY <1>6, <1>9 DEF Safe

\* A failed close keeps the saving safe.
LEMMA FailSafe ==
  ASSUME IInv, NEW s \in Sessions, NEW r \in Revisions(s), Unfinished(completions[s][r]),
         Fail(s, r)
  PROVE  Safe'
<1> DEFINE c == [completions[s][r] EXCEPT !.status = "failed"]
<1>1. /\ r = Len(completions[s]) /\ status[s] = "finalizing"
      /\ completions[s][r] \in Completion
  BY UnfinishedIsLatest, RowType DEF IInv
<1>2. Rewritten(s, r, c)
  BY MarkedRow DEF IInv, Fail, CompletionStatuses
<1>3. /\ c.status = "failed"
      /\ c.input = completions[s][r].input /\ c.through = completions[s][r].through
  BY <1>1 DEF Completion
<1>4. status' = [status EXCEPT ![s] = "finalizing"] /\ log' = log
  BY <1>1 DEF Fail, IInv, TypeOK
<1> HIDE DEF c
<1>5. (RowsAgree /\ OneSavedAtATime /\ FrozenIsWhole)'
  BY <1>1, <1>2, <1>3, <1>4, NewestRewritten DEF Goes, Statuses, Unfinished
<1>6. EffectsOfTheClosedRevision'
  BY <1>1, <1>2, EvidenceKept DEF Fail, Rewritten
<1> QED BY <1>5, <1>6 DEF Safe

\* A cancellation keeps the saving safe.
LEMMA CancelSafe ==
  ASSUME IInv, NEW s \in Sessions, NEW r \in Revisions(s), Cancel(s, r)
  PROVE  Safe'
<1> DEFINE c == [completions[s][r] EXCEPT !.status = "cancelled"]
<1>1. /\ r = Len(completions[s]) /\ status[s] = "finalizing"
      /\ completions[s][r] \in Completion
  BY UnfinishedIsLatest, RowType DEF IInv, Cancel
<1>2. Rewritten(s, r, c)
  BY MarkedRow DEF IInv, Cancel, CompletionStatuses
<1>3. /\ c.status = "cancelled"
      /\ c.input = completions[s][r].input /\ c.through = completions[s][r].through
  BY <1>1 DEF Completion
<1>4. status' = [status EXCEPT ![s] = "active"] /\ log' = log
  BY DEF Cancel
<1> HIDE DEF c
<1>5. (RowsAgree /\ OneSavedAtATime /\ FrozenIsWhole)'
  BY <1>1, <1>2, <1>3, <1>4, NewestRewritten DEF Goes, Statuses
<1>6. \A t \in Sessions : status'[t] = IF t = s THEN "active" ELSE status[t]
  BY <1>4 DEF IInv, TypeOK
<1>7. EffectsOfTheClosedRevision'
  BY <1>1, <1>2, <1>6, EvidenceKept DEF Cancel, Rewritten
<1> QED BY <1>5, <1>7 DEF Safe

\* The end of the summary's window keeps the saving safe.
LEMMA WindowSafe ==
  ASSUME IInv, NEW s \in Sessions, NEW r \in Revisions(s), WindowEnds(s, r)
  PROVE  Safe'
<1> DEFINE c == [completions[s][r] EXCEPT !.due = TRUE]
<1>1. /\ r = Len(completions[s]) /\ status[s] = "finalizing"
      /\ completions[s][r] \in Completion
  BY UnfinishedIsLatest, RowType DEF IInv, WindowEnds
<1>2. Rewritten(s, r, c)
  BY WindowRow DEF IInv
<1>3. /\ c.status = completions[s][r].status
      /\ c.input = completions[s][r].input /\ c.through = completions[s][r].through
  BY <1>1 DEF Completion
<1>4. status' = [status EXCEPT ![s] = "finalizing"] /\ log' = log
  BY <1>1 DEF WindowEnds, IInv, TypeOK
<1>5. Unfinished(completions[s][r])
  BY DEF WindowEnds
<1> HIDE DEF c
<1>6. (RowsAgree /\ OneSavedAtATime /\ FrozenIsWhole)'
  BY <1>1, <1>2, <1>3, <1>4, <1>5, NewestRewritten DEF Goes, Statuses, Unfinished
<1>7. EffectsOfTheClosedRevision'
  BY <1>1, <1>2, EvidenceKept DEF WindowEnds, Rewritten
<1> QED BY <1>6, <1>7 DEF Safe

\* A new session keeps the saving safe.
LEMMA CreateSafe ==
  ASSUME IInv, NEW s \in Sessions, Create(s)
  PROVE  Safe'
<1>1. /\ status[s] = "none" /\ completions' = completions /\ log' = log
      /\ \A t \in Sessions : status'[t] = IF t = s THEN "active" ELSE status[t]
  BY DEF IInv, TypeOK, Create
<1>2. completions[s] = <<>>
  BY <1>1 DEF IInv, Safe, RowsAgree
<1>3. \A t \in Sessions : Revisions(t)' = Revisions(t) /\ Latest(t)' = Latest(t)
  BY <1>1 DEF Revisions, Latest
<1>4. RowsAgree'
  BY <1>1, <1>2, <1>3 DEF IInv, Safe, RowsAgree
<1>5. OneSavedAtATime'
  BY <1>1 DEF IInv, Safe, OneSavedAtATime
<1>6. FrozenIsWhole'
  BY <1>1, <1>3 DEF IInv, Safe, FrozenIsWhole, ReportOf
<1>7. EffectsOfTheClosedRevision'
  BY <1>1, EvidenceKept DEF Create
<1> QED BY <1>4, <1>5, <1>6, <1>7 DEF Safe

\* Acknowledging work keeps the saving safe: its session is not finalizing.
LEMMA AppendSafe ==
  ASSUME IInv, NEW s \in Sessions, NEW report \in Reports, AppendWork(s, report)
  PROVE  Safe'
<1>1. /\ status[s] = "active" /\ completions' = completions /\ status' = status
      /\ \A t \in Sessions \ {s} : log'[t] = log[t]
  BY DEF IInv, TypeOK, AppendWork
<1>2. \A t \in Sessions : Revisions(t)' = Revisions(t) /\ Latest(t)' = Latest(t)
  BY <1>1 DEF Revisions, Latest
<1>3. RowsAgree'
  BY <1>1, <1>2 DEF IInv, Safe, RowsAgree
<1>4. OneSavedAtATime'
  BY <1>1 DEF IInv, Safe, OneSavedAtATime
<1>5. FrozenIsWhole'
  BY <1>1, <1>2 DEF IInv, Safe, FrozenIsWhole, ReportOf
<1>6. EffectsOfTheClosedRevision'
  BY <1>1, EvidenceKept DEF AppendWork
<1> QED BY <1>3, <1>4, <1>5, <1>6 DEF Safe

\* A step that touches no session and no evidence keeps the saving safe.
LEMMA UnmovedSafe ==
  ASSUME IInv, UNCHANGED <<status, log, completions, effects, dispatches>>
  PROVE  Safe'
<1>1. \A t \in Sessions : Revisions(t)' = Revisions(t) /\ Latest(t)' = Latest(t)
  BY DEF Revisions, Latest
<1>2. RowsAgree' /\ OneSavedAtATime' /\ FrozenIsWhole'
  BY <1>1 DEF IInv, Safe, RowsAgree, OneSavedAtATime, FrozenIsWhole, ReportOf
<1>3. EffectsOfTheClosedRevision'
  BY EvidenceKept
<1> QED BY <1>2, <1>3 DEF Safe

\* Staging keeps the saving safe: no other completion of the learner is unfinished.
LEMMA StageSafe ==
  ASSUME IInv, NEW s \in Sessions, NEW through \in 0..MaxLog, Stage(s, through)
  PROVE  Safe'
<1> DEFINE c == [input |-> log[s], through |-> through, status |-> "pending", due |-> FALSE]
           q == completions[s]
<1>1. /\ log[s] \in Seq(Reports) /\ q \in Seq(Completion) /\ through \in Nat
      /\ q # <<>> => Latest(s).status = "cancelled"
      /\ status[s] = "active" /\ ~Saving(Owner[s])
      /\ through = Len(log[s]) /\ through > 0 /\ log[s][through].done
  BY SessionsAssumption DEF IInv, TypeOK, Stage
<1>2. c \in Completion
  BY <1>1 DEF Completion, CompletionStatuses
<1>3. /\ c.input = log[s] /\ c.through = Len(log[s]) /\ c.status = "pending"
      /\ ReportOf(c).done
  BY <1>1 DEF ReportOf
<1>4. completions' = [completions EXCEPT ![s] = Append(q, c)] /\ log' = log
  BY DEF Stage
<1> HIDE DEF c
<1>5. /\ completions'[s] = Append(q, c)
      /\ \A t \in Sessions \ {s} : completions'[t] = completions[t]
  BY <1>4 DEF IInv, TypeOK
<1>6. \A t \in Sessions : status'[t] = IF t = s THEN "finalizing" ELSE status[t]
  BY DEF IInv, TypeOK, Stage
<1>7. /\ completions'[s] # <<>> /\ Latest(s)' = c
      /\ Len(completions'[s]) = Len(q) + 1
      /\ \A i \in Revisions(s)' : i < Len(q) + 1 =>
           i \in Revisions(s) /\ completions'[s][i] = q[i]
  <2>1. /\ Append(q, c) \in Seq(Completion) /\ Len(Append(q, c)) = Len(q) + 1
        /\ Append(q, c)[Len(q) + 1] = c
        /\ \A i \in 1..Len(q) : Append(q, c)[i] = q[i]
    BY <1>1, <1>2, AppendProperties
  <2>2. Len(q) \in Nat /\ DOMAIN q = 1..Len(q) /\ DOMAIN Append(q, c) = 1..(Len(q) + 1)
    BY <1>1, <2>1
  <2>3. Append(q, c) # <<>>
    BY <1>1, <1>2, AppendProperties
  <2>4. \A i \in DOMAIN Append(q, c) : i < Len(q) + 1 => i \in DOMAIN q /\ Append(q, c)[i] = q[i]
    BY <2>1, <2>2
  <2> QED BY <1>5, <2>1, <2>3, <2>4 DEF Latest, Revisions
<1>8. \A i \in Revisions(s) : q[i].status = "cancelled"
  <2> SUFFICES ASSUME NEW i \in Revisions(s) PROVE q[i].status = "cancelled"
    OBVIOUS
  <2>1. i \in 1..Len(q) /\ q # <<>>
    BY <1>1 DEF Revisions
  <2>2. CASE i < Len(q)
    BY <2>2 DEF IInv, Safe, RowsAgree
  <2>3. CASE i = Len(q)
    BY <1>1, <2>1, <2>3 DEF Latest
  <2> QED BY <1>1, <2>1, <2>2, <2>3
<1>9. \A t \in Sessions \ {s} : Revisions(t)' = Revisions(t) /\ Latest(t)' = Latest(t)
  BY <1>5 DEF Revisions, Latest
<1>10. RowsAgree'
  <2> SUFFICES ASSUME NEW t \in Sessions
               PROVE  /\ \A i \in Revisions(t)' : i < Len(completions'[t]) =>
                           completions'[t][i].status = "cancelled"
                      /\ status'[t] = "none" => completions'[t] = <<>> /\ log'[t] = <<>>
                      /\ status'[t] = "active" /\ completions'[t] # <<>> =>
                           Latest(t)'.status = "cancelled"
                      /\ status'[t] = "finalizing" =>
                           completions'[t] # <<>> /\ Unfinished(Latest(t)')
                      /\ status'[t] = "closed" =>
                           completions'[t] # <<>> /\ Latest(t)'.status = "closed"
    BY DEF RowsAgree, Unfinished
  <2>1. CASE t = s
    BY <1>3, <1>6, <1>7, <1>8, <2>1 DEF Unfinished
  <2>2. CASE t # s
    BY <1>4, <1>5, <1>6, <1>9, <2>2 DEF IInv, Safe, RowsAgree
  <2> QED BY <2>1, <2>2
<1>11. OneSavedAtATime'
  <2>1. \A t \in Sessions : Owner[t] = Owner[s] => status[t] # "finalizing"
    <3> SUFFICES ASSUME NEW t \in Sessions, Owner[t] = Owner[s], status[t] = "finalizing"
                 PROVE  FALSE
      OBVIOUS
    <3>1. Saving(Owner[t])
      BY FinalizingIsSaving
    <3> QED BY <1>1, <3>1
  <2> QED BY <1>6, <2>1 DEF IInv, Safe, OneSavedAtATime
<1>12. FrozenIsWhole'
  <2> SUFFICES ASSUME NEW t \in Sessions, status'[t] \in {"finalizing", "closed"}
               PROVE  /\ Latest(t)'.input = log[t]
                      /\ Latest(t)'.through = Len(log[t])
                      /\ Latest(t)'.through > 0
                      /\ ReportOf(Latest(t)').done
    BY <1>4 DEF FrozenIsWhole, ReportOf
  <2>1. CASE t = s
    BY <1>1, <1>3, <1>7, <2>1
  <2>2. CASE t # s
    BY <1>6, <1>9, <2>2 DEF IInv, Safe, FrozenIsWhole
  <2> QED BY <2>1, <2>2
<1>13. EffectsOfTheClosedRevision'
  BY <1>1, <1>5, <1>6, EvidenceKept DEF Stage
<1> QED BY <1>10, <1>11, <1>12, <1>13 DEF Safe

\* The initial state is safe.
LEMMA InitSafe == Init => Safe
<1> SUFFICES ASSUME Init PROVE Safe
  OBVIOUS
<1>1. \A s \in Sessions : /\ status[s] = "none" /\ completions[s] = <<>> /\ log[s] = <<>>
                         /\ Revisions(s) = {}
  BY DEF Init, Revisions
<1>2. effects = {} /\ dispatches = {}
  BY DEF Init
<1> QED BY <1>1, <1>2
        DEF Safe, RowsAgree, OneSavedAtATime, FrozenIsWhole, EffectsOfTheClosedRevision

\* Every step keeps the saving safe.
LEMMA NextSafe == IInv /\ [Next]_vars => Safe'
<1> SUFFICES ASSUME IInv, [Next]_vars PROVE Safe'
  OBVIOUS
<1>1. CASE UNCHANGED vars
  BY <1>1, UnmovedSafe DEF vars
<1>2. ASSUME NEW s \in Sessions, NEW r \in Revisions(s),
             CancelTooLate(s, r) \/ Close(s, r) \/ WorkerCloses(s, r)
      PROVE  Safe'
  <2>1. Unfinished(completions[s][r]) /\ Attempt(s, r)
    BY <1>2 DEF CancelTooLate, Close, WorkerCloses, Pending, Unfinished
  <2> QED BY <2>1, SaveSafe, FailSafe DEF Attempt
<1>3. ASSUME NEW l \in Learners, NEW w \in Words,
             \/ \E mode \in Modes : ChangeMode(l, w, mode)
             \/ \E in \in BOOLEAN : SetStash(l, w, in)
             \/ Dismiss(l, w)
      PROVE  Safe'
  BY <1>3, UnmovedSafe DEF ChangeMode, SetStash, Dismiss, Outside
<1> QED BY <1>1, <1>2, <1>3, CreateSafe, AppendSafe, StageSafe, CancelSafe, WindowSafe DEF Next

\* The saving of sessions is safe: the session row and its completions agree, a
\* learner's sessions are saved one at a time, what is frozen is the whole of the
\* acknowledged work, and effects and evidence belong to the one closed revision.
THEOREM SavingIsSafe == Spec => [](RowsAgree /\ OneSavedAtATime /\ FrozenIsWhole
                                    /\ EffectsOfTheClosedRevision)
<1>1. Init => IInv
  BY InitType, InitSafe DEF IInv
<1>2. IInv /\ [Next]_vars => IInv'
  BY NextType, NextSafe DEF IInv
<1>3. IInv => RowsAgree /\ OneSavedAtATime /\ FrozenIsWhole /\ EffectsOfTheClosedRevision
  BY DEF IInv, Safe
<1> QED BY <1>1, <1>2, <1>3, PTL DEF Spec

\* The row of a session and its completions never tell different stories of it.
THEOREM RowsAlwaysAgree == Spec => []RowsAgree
<1>1. (RowsAgree /\ OneSavedAtATime /\ FrozenIsWhole /\ EffectsOfTheClosedRevision)
        => RowsAgree
  OBVIOUS
<1> QED BY <1>1, SavingIsSafe, PTL

\* Of the sessions a learner has open, however many overlap, one is being saved.
THEOREM OneSavedAlways == Spec => []OneSavedAtATime
<1>1. (RowsAgree /\ OneSavedAtATime /\ FrozenIsWhole /\ EffectsOfTheClosedRevision)
        => OneSavedAtATime
  OBVIOUS
<1> QED BY <1>1, SavingIsSafe, PTL

\* No acknowledged action is left out of a boundary, and none is added behind it.
THEOREM FrozenAlwaysWhole == Spec => []FrozenIsWhole
<1>1. (RowsAgree /\ OneSavedAtATime /\ FrozenIsWhole /\ EffectsOfTheClosedRevision)
        => FrozenIsWhole
  OBVIOUS
<1> QED BY <1>1, SavingIsSafe, PTL

------------------------------------------------------------------------------
(* What a step may never do to a session that closed.                         *)

\* No step changes what a closed session left or withdraws acknowledged work.
LEMMA StepKeepsWhatClosed == IInv /\ [Next]_vars => KeepsWhatClosed
<1> SUFFICES ASSUME IInv, [Next]_vars PROVE KeepsWhatClosed
  OBVIOUS
<1>0. \A s \in Sessions : log[s] \in Seq(Reports)
  BY DEF IInv, TypeOK
<1>1. ASSUME UNCHANGED <<log, effects>>,
             \A s \in Sessions : status[s] = "closed" =>
               status'[s] = "closed" /\ completions'[s] = completions[s]
      PROVE  KeepsWhatClosed
  BY <1>0, <1>1 DEF KeepsWhatClosed
<1>2. CASE UNCHANGED vars
  BY <1>1, <1>2 DEF vars
<1>3. ASSUME NEW s \in Sessions, Create(s) PROVE KeepsWhatClosed
  BY <1>1, <1>3 DEF Create, IInv, TypeOK
<1>4. ASSUME NEW s \in Sessions, NEW report \in Reports, AppendWork(s, report)
      PROVE  KeepsWhatClosed
  <2>1. /\ \A t \in Sessions \ {s} : log'[t] = log[t]
        /\ log'[s] = Append(log[s], report) /\ status[s] = "active"
        /\ UNCHANGED <<status, completions, effects>>
    BY <1>4 DEF AppendWork, IInv, TypeOK
  <2>2. /\ Len(Append(log[s], report)) = Len(log[s]) + 1
        /\ \A n \in 1..Len(log[s]) : Append(log[s], report)[n] = log[s][n]
    BY <1>0, AppendProperties
  <2> QED BY <1>0, <2>1, <2>2 DEF KeepsWhatClosed
<1>5. ASSUME NEW s \in Sessions, NEW through \in 0..MaxLog, Stage(s, through)
      PROVE  KeepsWhatClosed
  BY <1>1, <1>5 DEF Stage, IInv, TypeOK
<1>6. ASSUME NEW s \in Sessions, NEW r \in Revisions(s), Unfinished(completions[s][r]),
             NEW mark \in CompletionStatuses, Marked(s, r, mark) \/ WindowEnds(s, r)
      PROVE  /\ status[s] = "finalizing"
             /\ \A t \in Sessions \ {s} : completions'[t] = completions[t]
  BY <1>6, UnfinishedIsLatest, MarkedRow, WindowRow DEF IInv, Rewritten
<1>7. ASSUME NEW s \in Sessions, NEW r \in Revisions(s), Cancel(s, r) PROVE KeepsWhatClosed
  <2>1. Unfinished(completions[s][r]) /\ Marked(s, r, "cancelled")
    BY <1>7 DEF Cancel
  <2>2. status[s] = "finalizing" /\ \A t \in Sessions \ {s} : completions'[t] = completions[t]
    BY <1>6, <2>1 DEF CompletionStatuses
  <2> QED BY <1>1, <1>7, <2>2 DEF Cancel, IInv, TypeOK
<1>8. ASSUME NEW s \in Sessions, NEW r \in Revisions(s), WindowEnds(s, r)
      PROVE  KeepsWhatClosed
  <2>1. Unfinished(completions[s][r]) /\ "failed" \in CompletionStatuses
    BY <1>8 DEF WindowEnds, CompletionStatuses
  <2>2. status[s] = "finalizing" /\ \A t \in Sessions \ {s} : completions'[t] = completions[t]
    BY <1>6, <1>8, <2>1
  <2> QED BY <1>1, <1>8, <2>2 DEF WindowEnds
<1>9. ASSUME NEW s \in Sessions, NEW r \in Revisions(s),
             CancelTooLate(s, r) \/ Close(s, r) \/ WorkerCloses(s, r)
      PROVE  KeepsWhatClosed
  <2>1. Unfinished(completions[s][r]) /\ Attempt(s, r)
    BY <1>9 DEF CancelTooLate, Close, WorkerCloses, Pending, Unfinished
  <2>2. CASE Fail(s, r)
    <3>1. status[s] = "finalizing" /\ \A t \in Sessions \ {s} : completions'[t] = completions[t]
      BY <1>6, <2>1, <2>2 DEF Fail, CompletionStatuses
    <3> QED BY <1>1, <2>2, <3>1 DEF Fail
  <2>3. CASE Save(s, r, ReportOf(completions[s][r]))
    <3>1. status[s] = "finalizing" /\ \A t \in Sessions \ {s} : completions'[t] = completions[t]
      BY <1>6, <2>1, <2>3 DEF Save, CompletionStatuses
    <3>2. /\ log' = log
          /\ \A t \in Sessions \ {s} : status'[t] = status[t]
      BY <2>3 DEF Save, IInv, TypeOK
    <3>3. ASSUME NEW t \in Sessions \ {s}
          PROVE  {e \in effects' : e.session = t} = {e \in effects : e.session = t}
      <4>1. \A e \in Recorded(s, r, ReportOf(completions[s][r])) : e.session = s
        BY DEF Recorded
      <4>2. effects' = effects \cup Recorded(s, r, ReportOf(completions[s][r]))
        BY <2>3 DEF Save
      <4> QED BY <4>1, <4>2
    <3> QED BY <1>0, <3>1, <3>2, <3>3 DEF KeepsWhatClosed
  <2> QED BY <2>1, <2>2, <2>3 DEF Attempt
<1>10. ASSUME NEW l \in Learners, NEW w \in Words,
              \/ \E mode \in Modes : ChangeMode(l, w, mode)
              \/ \E in \in BOOLEAN : SetStash(l, w, in)
              \/ Dismiss(l, w)
       PROVE  KeepsWhatClosed
  BY <1>1, <1>10 DEF ChangeMode, SetStash, Dismiss, Outside
<1> QED BY <1>2, <1>3, <1>4, <1>5, <1>7, <1>8, <1>9, <1>10 DEF Next

\* No step withdraws acknowledged work or touches what a closed session left.
THEOREM ClosedStaysFinal == Spec => ClosedIsFinal
<1>1. Init => IInv
  BY InitType, InitSafe DEF IInv
<1>2. IInv /\ [Next]_vars => IInv'
  BY NextType, NextSafe DEF IInv
<1>3. IInv /\ [Next]_vars => [KeepsWhatClosed]_vars
  BY StepKeepsWhatClosed
<1> QED BY <1>1, <1>2, <1>3, PTL DEF Spec, ClosedIsFinal

------------------------------------------------------------------------------
(* Newer authority.  closing recognises a later decision by the word's version *)
(* alone, so the versions must only grow, and grow with every decision.        *)

OpenSession(s) == status[s] \in {"active", "finalizing"}

VersionsTell ==
  \A s \in Sessions, w \in Words :
    /\ OpenSession(s) => context[s][w].version <= words[Owner[s]][w].version
    /\ OpenSession(s) /\ <<s, w>> \in decided =>
         context[s][w].version < words[Owner[s]][w].version
    /\ status[s] = "none" => <<s, w>> \notin decided

\* The versions a session froze and a word has now are numbers.
LEMMA VersionTypes ==
  ASSUME TypeOK, NEW s \in Sessions, NEW w \in Words
  PROVE  /\ Owner[s] \in Learners /\ words[Owner[s]][w] \in WordState
         /\ words[Owner[s]][w].version \in Nat /\ context[s][w].version \in Nat
<1>1. Owner[s] \in Learners /\ context[s][w] \in Frozen
  BY SessionsAssumption DEF TypeOK
<1> QED BY <1>1 DEF TypeOK, WordState, Frozen

\* Closing never lowers a word's version, and raises it with a mode effect.
LEMMA WordAfterVersion ==
  ASSUME NEW f \in Frozen, NEW r \in WordReport, NEW word \in WordState
  PROVE  /\ WordAfter(f, r, word).version \in Nat
         /\ WordAfter(f, r, word).version >= word.version
         /\ ModeApplied(f, r, word) => WordAfter(f, r, word).version > word.version
<1>1. word.version \in Nat
  BY DEF WordState
<1>2. CASE ModeApplied(f, r, word)
  <2>1. ASSUME NEW m, NEW p
        PROVE  [word EXCEPT !.mode = m, !.paused = p, !.version = word.version + 1].version
                 = word.version + 1
    BY DEF WordState
  <2>2. WordAfter(f, r, word).version = word.version + 1
    BY <1>2, <2>1, Zenon DEF WordAfter
  <2> QED BY <1>1, <2>2
<1>3. CASE ~ModeApplied(f, r, word)
  BY <1>1, <1>3 DEF WordAfter
<1> QED BY <1>2, <1>3

\* Steps that leave the words alone and open no session.
LEMMA VersionsKept ==
  ASSUME VersionsTell, UNCHANGED <<context, words, decided>>,
         \A t \in Sessions : OpenSession(t)' => OpenSession(t),
         \A t \in Sessions : status'[t] = "none" => status[t] = "none"
  PROVE  VersionsTell'
BY DEF VersionsTell

\* Applying a completion keeps the versions telling, for the other sessions too.
LEMMA VersionsSaved ==
  ASSUME IInv, VersionsTell, NEW s \in Sessions, NEW r \in Revisions(s),
         Save(s, r, ReportOf(completions[s][r]))
  PROVE  VersionsTell'
<1> DEFINE l == Owner[s]
           report == ReportOf(completions[s][r])
           applied(w) == ModeApplied(context[s][w], report.words[w], words[l][w])
<1>1. l \in Learners /\ report \in Reports
  BY RowType, SessionsAssumption DEF IInv
<1>2. /\ context' = context /\ decided' = decided \cup Overtaken(s, report)
      /\ status' = [status EXCEPT ![s] = "closed"]
      /\ words' = [words EXCEPT ![l] = [w \in Words |->
           WordAfter(context[s][w], report.words[w], words[l][w])]]
  BY DEF Save, Applied
<1>3. ASSUME NEW w \in Words
      PROVE  /\ words'[l][w].version \in Nat
             /\ words'[l][w].version >= words[l][w].version
             /\ applied(w) => words'[l][w].version > words[l][w].version
  <2>1. words'[l][w] = WordAfter(context[s][w], report.words[w], words[l][w])
    BY <1>1, <1>2 DEF IInv, TypeOK
  <2>2. /\ context[s][w] \in Frozen /\ report.words[w] \in WordReport
        /\ words[l][w] \in WordState
    BY <1>1, ReportType DEF IInv, TypeOK
  <2> QED BY <2>1, <2>2, WordAfterVersion
<1>4. ASSUME NEW k \in Learners \ {l} PROVE words'[k] = words[k]
  BY <1>2 DEF IInv, TypeOK
<1>5. \A t \in Sessions : status'[t] = IF t = s THEN "closed" ELSE status[t]
  BY <1>2 DEF IInv, TypeOK
<1>6. \A t \in Sessions, w \in Words :
        <<t, w>> \in Overtaken(s, report) => OpenSession(t) /\ Owner[t] = l /\ applied(w)
  BY DEF Overtaken, Open, OpenSession
<1> HIDE DEF applied, report
<1> SUFFICES ASSUME NEW t \in Sessions, NEW w \in Words
             PROVE  /\ OpenSession(t)' => context[t][w].version <= words'[Owner[t]][w].version
                    /\ OpenSession(t)' /\ <<t, w>> \in decided' =>
                         context[t][w].version < words'[Owner[t]][w].version
                    /\ status'[t] = "none" => <<t, w>> \notin decided'
  BY <1>2 DEF VersionsTell
<1>7. /\ Owner[t] \in Learners
      /\ words[Owner[t]][w].version \in Nat /\ context[t][w].version \in Nat
  BY VersionTypes DEF IInv
<1>8. OpenSession(t)' => t # s /\ OpenSession(t)
  BY <1>5 DEF OpenSession
<1>9. status'[t] = "none" => <<t, w>> \notin decided'
  BY <1>2, <1>5, <1>6 DEF VersionsTell, OpenSession
<1>10. CASE Owner[t] = l
  BY <1>2, <1>3, <1>6, <1>7, <1>8, <1>9, <1>10 DEF VersionsTell
<1>11. CASE Owner[t] # l
  <2>1. words'[Owner[t]] = words[Owner[t]]
    BY <1>4, <1>7, <1>11
  <2> QED BY <1>2, <1>6, <1>8, <1>9, <1>11, <2>1 DEF VersionsTell
<1> QED BY <1>10, <1>11

\* A change outside the sessions raises the version unless it is a no-op.
LEMMA VersionsOutside ==
  ASSUME TypeOK, VersionsTell, NEW l \in Learners, NEW w \in Words, NEW after \in WordState,
         NEW deciding \in BOOLEAN, Outside(l, w, after, deciding),
         after.version > words[l][w].version
  PROVE  VersionsTell'
<1>1. \A k \in Learners, x \in Words :
        words'[k][x] = IF k = l /\ x = w THEN after ELSE words[k][x]
  BY DEF TypeOK, Outside
<1>2. /\ context' = context /\ status' = status
      /\ \A t \in Sessions, x \in Words : <<t, x>> \in decided' =>
           <<t, x>> \in decided \/ (x = w /\ Owner[t] = l /\ OpenSession(t))
  BY DEF Outside, Open, OpenSession
<1>3. after.version \in Nat
  BY DEF WordState
<1> SUFFICES ASSUME NEW t \in Sessions, NEW x \in Words
             PROVE  /\ OpenSession(t) => context[t][x].version <= words'[Owner[t]][x].version
                    /\ OpenSession(t) /\ <<t, x>> \in decided' =>
                         context[t][x].version < words'[Owner[t]][x].version
                    /\ status[t] = "none" => <<t, x>> \notin decided'
  BY <1>2 DEF VersionsTell, OpenSession
<1>4. /\ Owner[t] \in Learners
      /\ words[Owner[t]][x].version \in Nat /\ context[t][x].version \in Nat
  BY VersionTypes
<1>5. CASE Owner[t] = l /\ x = w
  BY <1>1, <1>2, <1>3, <1>4, <1>5 DEF VersionsTell, OpenSession
<1>6. CASE ~(Owner[t] = l /\ x = w)
  <2>1. words'[Owner[t]][x] = words[Owner[t]][x]
    BY <1>1, <1>4, <1>6
  <2> QED BY <1>2, <1>4, <1>6, <2>1 DEF VersionsTell, OpenSession
<1> QED BY <1>5, <1>6

\* Every step keeps the versions telling.
LEMMA NextVersions == IInv /\ VersionsTell /\ [Next]_vars => VersionsTell'
<1> SUFFICES ASSUME IInv, VersionsTell, [Next]_vars PROVE VersionsTell'
  OBVIOUS
<1>0. TypeOK
  BY DEF IInv
<1>1. CASE UNCHANGED vars
  BY <1>0, <1>1, VersionsKept DEF vars, learning, OpenSession
<1>2. ASSUME NEW s \in Sessions, Create(s) PROVE VersionsTell'
  <2>1. /\ status[s] = "none" /\ UNCHANGED <<words, decided>>
        /\ \A t \in Sessions \ {s} : status'[t] = status[t] /\ context'[t] = context[t]
        /\ status'[s] = "active" /\ context'[s] = Freeze(Owner[s])
    BY <1>0, <1>2 DEF Create, learning, TypeOK
  <2>2. \A w \in Words : context'[s][w].version = words[Owner[s]][w].version
    BY <2>1 DEF Freeze
  <2> SUFFICES ASSUME NEW t \in Sessions, NEW w \in Words
               PROVE  /\ OpenSession(t)' => context'[t][w].version <= words[Owner[t]][w].version
                      /\ OpenSession(t)' /\ <<t, w>> \in decided =>
                           context'[t][w].version < words[Owner[t]][w].version
                      /\ status'[t] = "none" => <<t, w>> \notin decided
    BY <2>1 DEF VersionsTell
  <2>3. words[Owner[t]][w].version \in Nat
    BY <1>0, VersionTypes
  <2>4. CASE t = s
    BY <2>1, <2>2, <2>3, <2>4 DEF VersionsTell
  <2>5. CASE t # s
    BY <2>1, <2>5 DEF VersionsTell, OpenSession
  <2> QED BY <2>4, <2>5
<1>3. ASSUME NEW s \in Sessions, NEW report \in Reports, AppendWork(s, report)
      PROVE  VersionsTell'
  BY <1>0, <1>3, VersionsKept DEF AppendWork, learning, OpenSession
<1>4. ASSUME NEW s \in Sessions, NEW through \in 0..MaxLog, Stage(s, through)
      PROVE  VersionsTell'
  <2>1. /\ status[s] = "active" /\ UNCHANGED <<context, words, decided>>
        /\ \A t \in Sessions : status'[t] = IF t = s THEN "finalizing" ELSE status[t]
    BY <1>0, <1>4 DEF Stage, learning, TypeOK
  <2> QED BY <1>0, <2>1, VersionsKept DEF OpenSession
<1>5. ASSUME NEW s \in Sessions, NEW r \in Revisions(s), Cancel(s, r) PROVE VersionsTell'
  <2>1. status[s] = "finalizing"
    BY <1>5, UnfinishedIsLatest DEF IInv, Cancel
  <2>2. /\ UNCHANGED <<context, words, decided>>
        /\ \A t \in Sessions : status'[t] = IF t = s THEN "active" ELSE status[t]
    BY <1>0, <1>5 DEF Cancel, learning, TypeOK
  <2> QED BY <1>0, <2>1, <2>2, VersionsKept DEF OpenSession
<1>6. ASSUME NEW s \in Sessions, NEW r \in Revisions(s), WindowEnds(s, r)
      PROVE  VersionsTell'
  BY <1>0, <1>6, VersionsKept DEF WindowEnds, learning, OpenSession
<1>7. ASSUME NEW s \in Sessions, NEW r \in Revisions(s),
             CancelTooLate(s, r) \/ Close(s, r) \/ WorkerCloses(s, r)
      PROVE  VersionsTell'
  <2>1. Attempt(s, r)
    BY <1>7 DEF CancelTooLate, Close, WorkerCloses
  <2>2. CASE Fail(s, r)
    BY <1>0, <2>2, VersionsKept DEF Fail, learning, OpenSession
  <2>3. CASE Save(s, r, ReportOf(completions[s][r]))
    BY <2>3, VersionsSaved
  <2> QED BY <2>1, <2>2, <2>3 DEF Attempt
<1>8. ASSUME NEW l \in Learners, NEW w \in Words
      PROVE  /\ words[l][w] \in WordState
             /\ words[l][w].version \in Nat
  BY <1>0 DEF TypeOK, WordState
<1>9. ASSUME NEW l \in Learners, NEW w \in Words, NEW mode \in Modes, ChangeMode(l, w, mode)
      PROVE  VersionsTell'
  <2>1. Chosen(words[l][w], mode).version > words[l][w].version
    BY <1>8 DEF Chosen, WordState
  <2> QED BY <1>0, <1>8, <1>9, <2>1, ChosenType, VersionsOutside DEF ChangeMode
<1>10. ASSUME NEW l \in Learners, NEW w \in Words, NEW in \in BOOLEAN, SetStash(l, w, in)
       PROVE  VersionsTell'
  <2>1. Stashed(words[l][w], in).version > words[l][w].version
    BY <1>8, <1>10 DEF SetStash, Stashed, WordState
  <2> QED BY <1>0, <1>8, <1>10, <2>1, StashedType, VersionsOutside DEF SetStash
<1>11. ASSUME NEW l \in Learners, NEW w \in Words, Dismiss(l, w) PROVE VersionsTell'
  <2>1. Dismissed(words[l][w]).version > words[l][w].version
    BY <1>8, <1>11 DEF Dismiss, Dismissed, WordState
  <2> QED BY <1>0, <1>8, <1>11, <2>1, DismissedType, VersionsOutside DEF Dismiss
<1> QED BY <1>1, <1>2, <1>3, <1>4, <1>5, <1>6, <1>7, <1>9, <1>10, <1>11 DEF Next

\* Closing a session leaves a word whose version is no longer the frozen one.
LEMMA ExternalWordKept ==
  ASSUME NEW f, NEW r, NEW word \in WordState, External(f, word)
  PROVE  /\ WordAfter(f, r, word).mode = word.mode
         /\ WordAfter(f, r, word).paused = word.paused
<1>1. ModeAfter(f, r, word) = word.mode /\ PausedAfter(f, r, word) = word.paused
  BY DEF ModeAfter, PausedAfter
<1>2. ASSUME NEW n
      PROVE  /\ [word EXCEPT !.mode = word.mode, !.paused = word.paused, !.version = n].mode
                  = word.mode
             /\ [word EXCEPT !.mode = word.mode, !.paused = word.paused, !.version = n].paused
                  = word.paused
  BY DEF WordState
<1> QED BY <1>1, <1>2, Zenon DEF WordAfter

\* No step overrides a mode settled since the closing session froze the word.
LEMMA StepKeepsLaterDecisions == IInv /\ VersionsTell /\ [Next]_vars => KeepsLaterDecisions
<1> SUFFICES ASSUME IInv, VersionsTell, [Next]_vars,
                    NEW s \in Sessions, NEW w \in Words, Closes(s), <<s, w>> \in decided
             PROVE  /\ words'[Owner[s]][w].mode = words[Owner[s]][w].mode
                    /\ words'[Owner[s]][w].paused = words[Owner[s]][w].paused
  BY DEF KeepsLaterDecisions
<1>0. TypeOK
  BY DEF IInv
<1>a. PICK t \in Sessions : \E r \in Revisions(t) :
        Unfinished(completions[t][r]) /\ Save(t, r, ReportOf(completions[t][r]))
  BY <1>0, ZenonT(40) DEF Next, vars, Closes, Create, AppendWork, Stage, Cancel, CancelTooLate, Close,
     WorkerCloses, WindowEnds, Attempt, Fail, ChangeMode, SetStash, Dismiss, Outside,
     TypeOK, Pending, Unfinished
<1>1. PICK r \in Revisions(t) :
        Unfinished(completions[t][r]) /\ Save(t, r, ReportOf(completions[t][r]))
  BY <1>a
<1>2. /\ t = s
      /\ status[s] = "finalizing"
  BY <1>0, <1>1, UnfinishedIsLatest DEF IInv, Save, Closes, TypeOK
<1> DEFINE l == Owner[s]
           f == context[s][w]
           report == ReportOf(completions[t][r]).words[w]
<1>3. External(f, words[l][w])
  <2>1. f.version < words[l][w].version
    BY <1>2 DEF VersionsTell, OpenSession
  <2> QED BY <1>0, <2>1, VersionTypes DEF External
<1>4. l \in Learners /\ words[l][w] \in WordState
  BY <1>0, VersionTypes
<1>5. words'[l][w] = WordAfter(f, report, words[l][w])
  BY <1>0, <1>1, <1>2, <1>4 DEF Save, Applied, TypeOK
<1> QED BY <1>3, <1>4, <1>5, ExternalWordKept

\* A mode settled outside the session since it froze the word survives its closing.
THEOREM LaterDecisionsSurvive == Spec => LaterDecisionSurvives
<1>1. Init => IInv
  BY InitType, InitSafe DEF IInv
<1>2. Init => VersionsTell
  BY DEF Init, VersionsTell, OpenSession
<1>3. IInv /\ [Next]_vars => IInv'
  BY NextType, NextSafe DEF IInv
<1>4. IInv /\ VersionsTell /\ [Next]_vars => [KeepsLaterDecisions]_vars
  BY StepKeepsLaterDecisions
<1> QED BY <1>1, <1>2, <1>3, <1>4, NextVersions, PTL DEF Spec, LaterDecisionSurvives
------------------------------------------------------------------------------
(* A schedule moves once for each effect recorded of it.                        *)

\* The effects of one kind on one subject of a learner.
Of(E, l, k, x) == {e \in E : Owner[e.session] = l /\ e.kind = k /\ e.subject = x}

\* A version that counts the effects of the kind on the subject, from 1.
Counts(E, l, k, x, version) ==
  IsFiniteSet(Of(E, l, k, x)) /\ version = 1 + Cardinality(Of(E, l, k, x))

\* Every schedule and cue has such a version.
CountInv ==
  \A l \in Learners :
    /\ \A w \in Words : Counts(effects, l, "production", w, schedules[l][w].version)
    /\ \A q \in Cues : Counts(effects, l, "cue", q, cues[l][q].version)

\* What a close records of a schedule: one effect exactly when it moves it.
LEMMA RecordedOnce ==
  ASSUME NEW s \in Sessions, NEW r, NEW report, NEW e
  PROVE  /\ \A w \in Words :
              (e \in Recorded(s, r, report) /\ e.kind = "production" /\ e.subject = w)
              <=> /\ e = [session |-> s, revision |-> r, kind |-> "production", subject |-> w]
                  /\ Rescheduled(w, context[s][w], report.words[w])
         /\ \A q \in Cues :
              (e \in Recorded(s, r, report) /\ e.kind = "cue" /\ e.subject = q)
              <=> /\ e = [session |-> s, revision |-> r, kind |-> "cue", subject |-> q]
                  /\ report.cues[q] # "none"
<1> DEFINE E == Effects(context[s], report, words[Owner[s]])
<1>1. ASSUME NEW w \in Words
      PROVE  [kind |-> "production", subject |-> w] \in E
               <=> Rescheduled(w, context[s][w], report.words[w])
  BY DEF Effects, WordEffects, SkillEffects, Kinds, Rescheduled
<1>2. ASSUME NEW q \in Cues
      PROVE  [kind |-> "cue", subject |-> q] \in E <=> report.cues[q] # "none"
  BY DEF Effects, WordEffects, SkillEffects, Kinds
<1>3. \A x \in E : x = [kind |-> x.kind, subject |-> x.subject]
  BY DEF Effects
<1> HIDE DEF E
<1>4. e \in Recorded(s, r, report)
        <=> \E x \in E : e = [session |-> s, revision |-> r, kind |-> x.kind,
                              subject |-> x.subject]
  BY DEF Recorded, E
<1>5. ASSUME NEW k, NEW x
      PROVE  (e \in Recorded(s, r, report) /\ e.kind = k /\ e.subject = x)
             <=> /\ e = [session |-> s, revision |-> r, kind |-> k, subject |-> x]
                 /\ [kind |-> k, subject |-> x] \in E
  <2>1. ASSUME e \in Recorded(s, r, report), e.kind = k, e.subject = x
        PROVE  /\ e = [session |-> s, revision |-> r, kind |-> k, subject |-> x]
               /\ [kind |-> k, subject |-> x] \in E
    BY <1>3, <1>4, <2>1
  <2>2. ASSUME e = [session |-> s, revision |-> r, kind |-> k, subject |-> x],
               [kind |-> k, subject |-> x] \in E
        PROVE  e \in Recorded(s, r, report) /\ e.kind = k /\ e.subject = x
    BY <1>4, <2>2
  <2> QED BY <2>1, <2>2
<1> QED BY <1>1, <1>2, <1>5

\* Of all that R holds for the subject there is e alone, or nothing.
AtMost(R, l, k, x, e, moved) ==
  \A d : (d \in R /\ Owner[d.session] = l /\ d.kind = k /\ d.subject = x)
           <=> (d = e /\ moved)

\* One more effect, or none.
LEMMA CountsOn ==
  ASSUME NEW E, NEW R, NEW l, NEW k, NEW x, NEW v \in Nat, Counts(E, l, k, x, v),
         NEW e, e \notin E, NEW moved \in BOOLEAN,
         AtMost(R, l, k, x, e, moved), NEW F, F = E \cup R, NEW n, n = IF moved THEN v + 1 ELSE v
  PROVE  Counts(F, l, k, x, n)
<1>1. PICK S, T : S = Of(E, l, k, x) /\ T = Of(F, l, k, x)
  OBVIOUS
<1>2. IsFiniteSet(S) /\ v = 1 + Cardinality(S) /\ e \notin S
  BY <1>1 DEF Counts, Of
<1>3. CASE moved
  <2>1. T = S \cup {e}
    BY <1>1, <1>3 DEF Of, AtMost
  <2>2. IsFiniteSet(T) /\ Cardinality(T) = Cardinality(S) + 1
    BY <1>2, <2>1, FS_AddElement
  <2>3. Cardinality(S) \in Nat
    BY <1>2, FS_CardinalityType
  <2> QED BY <1>1, <1>2, <1>3, <2>2, <2>3 DEF Counts
<1>4. CASE ~moved
  <2>1. T = S
    BY <1>1, <1>4 DEF Of, AtMost
  <2> QED BY <1>1, <1>2, <1>4, <2>1 DEF Counts
<1> QED BY <1>3, <1>4

\* A close moves the schedules it records an effect of, and those alone.
LEMMA SaveCounts ==
  ASSUME IInv, CountInv, NEW s \in Sessions, NEW r \in Revisions(s),
         Unfinished(completions[s][r]), Save(s, r, ReportOf(completions[s][r]))
  PROVE  CountInv'
<1>1. PICK report, R : /\ report = ReportOf(completions[s][r])
                       /\ R = Recorded(s, r, report)
  OBVIOUS
<1>2. PICK l \in Learners : l = Owner[s]
  BY SessionsAssumption
<1>3. effects' = effects \cup R /\ Applied(s, report)
  BY <1>1 DEF Save
<1>4. \A e \in effects : e.session \in Sessions \ {s}
  <2>1. status[s] = "finalizing"
    BY UnfinishedIsLatest
  <2> QED BY <2>1 DEF IInv, TypeOK, Safe, EffectsOfTheClosedRevision
<1>5. \A e \in R : e.session = s
  BY <1>1 DEF Recorded
<1>6. /\ schedules \in [Learners -> [Words -> Schedule]]
      /\ cues \in [Learners -> [Cues -> CueSchedule]]
  BY DEF IInv, TypeOK
<1>7. ASSUME NEW m \in Learners, NEW w \in Words
      PROVE  Counts(effects', m, "production", w, schedules'[m][w].version)
  <2>1. PICK v \in Nat : v = schedules[m][w].version
    BY <1>6 DEF Schedule
  <2>2. Counts(effects, m, "production", w, v)
    BY <2>1 DEF CountInv
  <2>3. PICK e : e = [session |-> s, revision |-> r, kind |-> "production",
                      subject |-> w]
    OBVIOUS
  <2>4. e \notin effects
    BY <1>4, <2>3
  <2>5. PICK moved \in BOOLEAN :
          moved <=> m = l /\ Rescheduled(w, context[s][w], report.words[w])
    OBVIOUS
  <2>6. AtMost(R, m, "production", w, e, moved)
    <3>1. \A d : (d \in R /\ d.kind = "production" /\ d.subject = w)
                   <=> (d = e /\ Rescheduled(w, context[s][w], report.words[w]))
      BY <1>1, <2>3, RecordedOnce
    <3> QED BY <1>2, <1>5, <2>3, <2>5, <3>1 DEF AtMost
  <2>7. PICK n, F : n = (IF moved THEN v + 1 ELSE v) /\ F = effects \cup R
    OBVIOUS
  <2>8. Counts(F, m, "production", w, n)
    BY <2>2, <2>4, <2>6, <2>7, CountsOn
  <2>9. schedules'[m][w].version = n
    <3>1. schedules'[m] =
            IF m = l THEN [x \in Words |-> ScheduleAfter(x, context[s][x], report.words[x],
                                             words[l][x], schedules[l][x])]
                     ELSE schedules[m]
      BY <1>2, <1>3, <1>6 DEF Applied
    <3> QED BY <2>1, <2>5, <2>7, <3>1 DEF ScheduleAfter
  <2> QED BY <1>3, <2>7, <2>8, <2>9
<1>8. ASSUME NEW m \in Learners, NEW q \in Cues
      PROVE  Counts(effects', m, "cue", q, cues'[m][q].version)
  <2>1. PICK v \in Nat : v = cues[m][q].version
    BY <1>6 DEF CueSchedule
  <2>2. Counts(effects, m, "cue", q, v)
    BY <2>1 DEF CountInv
  <2>3. PICK e : e = [session |-> s, revision |-> r, kind |-> "cue", subject |-> q]
    OBVIOUS
  <2>4. e \notin effects
    BY <1>4, <2>3
  <2>5. PICK moved \in BOOLEAN : moved <=> m = l /\ report.cues[q] # "none"
    OBVIOUS
  <2>6. AtMost(R, m, "cue", q, e, moved)
    <3>1. \A d : (d \in R /\ d.kind = "cue" /\ d.subject = q)
                   <=> (d = e /\ report.cues[q] # "none")
      BY <1>1, <2>3, RecordedOnce
    <3> QED BY <1>2, <1>5, <2>3, <2>5, <3>1 DEF AtMost
  <2>7. PICK n, F : n = (IF moved THEN v + 1 ELSE v) /\ F = effects \cup R
    OBVIOUS
  <2>8. Counts(F, m, "cue", q, n)
    BY <2>2, <2>4, <2>6, <2>7, CountsOn
  <2>9. cues'[m][q].version = n
    <3>1. cues'[m] = IF m = l THEN [x \in Cues |-> CueAfter(report.cues[x], cues[l][x])]
                              ELSE cues[m]
      BY <1>2, <1>3, <1>6 DEF Applied
    <3> QED BY <2>1, <2>5, <2>7, <3>1 DEF CueAfter
  <2> QED BY <1>3, <2>7, <2>8, <2>9
<1> QED BY <1>7, <1>8 DEF CountInv

\* No other operation touches a schedule, a cue or an effect.
LEMMA NextCounts ==
  ASSUME IInv, CountInv, [Next]_vars PROVE CountInv'
<1>1. CASE UNCHANGED <<schedules, cues, effects>>
  BY <1>1 DEF CountInv
<1>2. CASE \E s \in Sessions : \E r \in Revisions(s) :
             /\ Unfinished(completions[s][r])
             /\ Save(s, r, ReportOf(completions[s][r]))
  BY <1>2, SaveCounts
<1> QED BY <1>1, <1>2
     DEF Next, vars, learning, Create, AppendWork, Stage, Cancel, CancelTooLate, Close,
         WorkerCloses, WindowEnds, Attempt, Fail, ChangeMode, SetStash, Dismiss, Outside,
         Pending, Unfinished

\* Nothing has moved and nothing is recorded at first.
LEMMA InitCounts == ASSUME Init PROVE CountInv
<1>1. ASSUME NEW l, NEW k, NEW x PROVE Counts(effects, l, k, x, 1)
  <2>1. Of(effects, l, k, x) = {}
    BY DEF Init, Of
  <2> QED BY <2>1, FS_EmptySet DEF Counts
<1>2. /\ \A l \in Learners, w \in Words : schedules[l][w].version = 1
      /\ \A l \in Learners, q \in Cues : cues[l][q].version = 1
  BY DEF Init
<1> QED BY <1>1, <1>2 DEF CountInv

\* Every schedule and cue moved exactly once for each effect recorded of it, in
\* every session of every learner and however often a close is retried.
THEOREM EffectsMoveOnce == Spec => []SchedulesCountEffects
<1>1. Init => IInv /\ CountInv
  BY InitType, InitSafe, InitCounts DEF IInv
<1>2. IInv /\ CountInv /\ [Next]_vars => IInv' /\ CountInv'
  BY NextType, NextSafe, NextCounts DEF IInv
<1>3. CountInv => SchedulesCountEffects
  BY DEF CountInv, Counts, Of, SchedulesCountEffects
<1> QED BY <1>1, <1>2, <1>3, PTL DEF Spec
==============================================================================
