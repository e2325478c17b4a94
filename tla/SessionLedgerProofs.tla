-------------------------- MODULE SessionLedgerProofs --------------------------
(* SessionCompletion implements LearningLedger, for every set of learners,     *)
(* sessions, words, cues and reports: seen without revisions, a step of the    *)
(* saving machinery begins, extends or settles a session, changes a word, or   *)
(* does nothing.                                                               *)
EXTENDS SessionCompletionProofs

\* The ledger's phases and effects.
phases == [s \in Sessions |-> PhaseOf(status[s])]
appliedEffects ==
  {[session |-> e.session, kind |-> e.kind, subject |-> e.subject] : e \in effects}

\* The ledger's functions are those of the saving machinery.
LEMMA SameEffects ==
  /\ \A f, r, word : Ledger!WordAfter(f, r, word) = WordAfter(f, r, word)
  /\ \A w, f, r, word, schedule :
       Ledger!ScheduleAfter(w, f, r, word, schedule) = ScheduleAfter(w, f, r, word, schedule)
  /\ \A evidence, cue : Ledger!CueAfter(evidence, cue) = CueAfter(evidence, cue)
  /\ \A frozen, report, learner :
       Ledger!Effects(frozen, report, learner) = Effects(frozen, report, learner)
<1>1. \A f, word : Ledger!External(f, word) <=> External(f, word)
  BY DEF Ledger!External, External
<1>2. \A f, r : Ledger!SessionMode(f, r) = SessionMode(f, r)
  BY Zenon DEF Ledger!SessionMode, SessionMode, Ledger!Recommended, Recommended,
     Ledger!CleanToPractice, CleanToPractice
<1>3. \A f, r, word : Ledger!ModeAfter(f, r, word) = ModeAfter(f, r, word)
  BY <1>1, <1>2, Zenon DEF Ledger!ModeAfter, ModeAfter
<1>4. \A f, r, word : Ledger!PausedAfter(f, r, word) = PausedAfter(f, r, word)
  BY <1>1, Zenon DEF Ledger!PausedAfter, PausedAfter
<1>5. \A f, r, word : Ledger!ModeApplied(f, r, word) <=> ModeApplied(f, r, word)
  BY <1>1, <1>3, <1>4, Zenon DEF Ledger!ModeApplied, ModeApplied
<1>6. \A f, r, word : Ledger!WordAfter(f, r, word) = WordAfter(f, r, word)
  BY <1>3, <1>4, <1>5, Zenon DEF Ledger!WordAfter, WordAfter
<1>7. \A w : Ledger!ProductionSelected(w) <=> ProductionSelected(w)
  BY Zenon DEF Ledger!ProductionSelected, ProductionSelected
<1>8. \A w, f, r : Ledger!Rescheduled(w, f, r) <=> Rescheduled(w, f, r)
  BY <1>7, Zenon DEF Ledger!Rescheduled, Rescheduled
<1>9. \A mode, r, due : Ledger!DueAfter(mode, r, due) = DueAfter(mode, r, due)
  BY Zenon DEF Ledger!DueAfter, DueAfter
<1>10. \A w, f, r, word, schedule :
         Ledger!ScheduleAfter(w, f, r, word, schedule) = ScheduleAfter(w, f, r, word, schedule)
  <2> TAKE w, f, r, word, schedule
  <2>1. /\ Ledger!ModeAfter(f, r, word) = ModeAfter(f, r, word)
        /\ Ledger!Rescheduled(w, f, r) <=> Rescheduled(w, f, r)
        /\ Ledger!DueAfter(ModeAfter(f, r, word), r, schedule.due)
             = DueAfter(ModeAfter(f, r, word), r, schedule.due)
    BY <1>3, <1>8, <1>9, Zenon
  <2> QED BY <2>1, Zenon DEF Ledger!ScheduleAfter, ScheduleAfter
<1>11. \A evidence, cue : Ledger!CueAfter(evidence, cue) = CueAfter(evidence, cue)
  BY Zenon DEF Ledger!CueAfter, CueAfter
<1>12. \A w, f, r, word : Ledger!WordEffects(w, f, r, word) = WordEffects(w, f, r, word)
  <2>1. \A w, f, r : Ledger!SkillEffects(w, f, r) = SkillEffects(w, f, r)
    BY <1>8 DEF Ledger!SkillEffects, SkillEffects, Ledger!Kinds, Kinds
  <2> QED BY <1>5, <2>1, Zenon DEF Ledger!WordEffects, WordEffects
<1>13. \A frozen, report, learner :
         Ledger!Effects(frozen, report, learner) = Effects(frozen, report, learner)
  BY <1>12 DEF Ledger!Effects, Effects, Ledger!Kinds, Kinds
<1> QED BY <1>6, <1>10, <1>11, <1>13, Zenon

\* The machinery starts as the ledger does.
LEMMA LedgerInit == Init => Ledger!Init
<1> SUFFICES ASSUME Init PROVE Ledger!Init
  OBVIOUS
<1>1. phases = [s \in Sessions |-> "none"]
  BY DEF phases, Init, PhaseOf
<1>2. appliedEffects = {}
  BY DEF appliedEffects, Init
<1> QED BY <1>1, <1>2, Zenon DEF Init, Ledger!Init, phases, appliedEffects, Unfrozen,
           Ledger!Unfrozen

\* A step that neither creates nor closes a session, and leaves the learner alone.
LEMMA LedgerStutter ==
  ASSUME UNCHANGED <<context, log, learning, effects>>,
         \A s \in Sessions : PhaseOf(status'[s]) = PhaseOf(status[s])
  PROVE  UNCHANGED Ledger!vars
<1>1. phases' = phases
  BY DEF phases
<1>2. appliedEffects' = appliedEffects
  BY DEF appliedEffects
<1> QED BY <1>1, <1>2, Zenon DEF phases, appliedEffects, Ledger!vars, Ledger!learning, learning

\* Applying an unfinished completion is the ledger's settlement of its session.
LEMMA LedgerSettle ==
  ASSUME IInv, NEW s \in Sessions, NEW r \in Revisions(s), Unfinished(completions[s][r]),
         Save(s, r, ReportOf(completions[s][r]))
  PROVE  Ledger!Settle(s)
<1> DEFINE l == Owner[s]
           report == log[s][Len(log[s])]
<1>1. /\ status[s] = "finalizing"
      /\ ReportOf(completions[s][r]) = report
      /\ log[s] # <<>> /\ report.done
  <2>1. /\ status[s] = "finalizing" /\ completions[s][r] = Latest(s)
        /\ log[s] \in Seq(Reports)
    BY UnfinishedIsLatest DEF IInv, TypeOK
  <2>2. /\ Latest(s).input = log[s] /\ Latest(s).through = Len(log[s])
        /\ Latest(s).through > 0 /\ ReportOf(Latest(s)).done
    BY <2>1 DEF IInv, Safe, FrozenIsWhole
  <2> QED BY <2>1, <2>2 DEF ReportOf
<1>2. phases[s] = "open" /\ phases' = [phases EXCEPT ![s] = "settled"]
  BY <1>1 DEF phases, PhaseOf, Save, IInv, TypeOK
<1>3. words' = [words EXCEPT ![l] = [w \in Words |->
        Ledger!WordAfter(context[s][w], report.words[w], words[l][w])]]
  BY <1>1, SameEffects, Zenon DEF Save, Applied
<1>4. schedules' = [schedules EXCEPT ![l] = [w \in Words |->
        Ledger!ScheduleAfter(w, context[s][w], report.words[w], words[l][w], schedules[l][w])]]
  BY <1>1, SameEffects, Zenon DEF Save, Applied
<1>5. cues' = [cues EXCEPT ![l] = [q \in Cues |-> Ledger!CueAfter(report.cues[q], cues[l][q])]]
  BY <1>1, SameEffects, Zenon DEF Save, Applied
<1>6. appliedEffects' = appliedEffects \cup
        {[session |-> s, kind |-> e.kind, subject |-> e.subject] :
         e \in Ledger!Effects(context[s], report, words[l])}
  <2>1. effects' = effects \cup
          {[session |-> s, revision |-> r, kind |-> e.kind, subject |-> e.subject] :
           e \in Ledger!Effects(context[s], report, words[l])}
    BY <1>1, SameEffects, Zenon DEF Save, Recorded
  <2> DEFINE E == Ledger!Effects(context[s], report, words[l])
             Row(e) == [session |-> s, revision |-> r, kind |-> e.kind, subject |-> e.subject]
             Seen(x) == [session |-> x.session, kind |-> x.kind, subject |-> x.subject]
             Entry(e) == [session |-> s, kind |-> e.kind, subject |-> e.subject]
  <2>2. \A e : Seen(Row(e)) = Entry(e)
    OBVIOUS
  <2>3. effects' = effects \cup {Row(e) : e \in E}
    BY <2>1
  <2>4. appliedEffects' = {Seen(x) : x \in effects'}
    BY Zenon DEF appliedEffects
  <2>5. appliedEffects = {Seen(x) : x \in effects}
    BY Zenon DEF appliedEffects
  <2> SUFFICES appliedEffects' = appliedEffects \cup {Entry(e) : e \in E}
    BY Zenon
  <2> HIDE DEF Row, Seen, Entry, E
  <2> QED BY <2>2, <2>3, <2>4, <2>5
<1>7. context' = context /\ log' = log
  BY DEF Save
<1> QED BY <1>1, <1>2, <1>3, <1>4, <1>5, <1>6, <1>7, Zenon
        DEF Ledger!Settle, phases, appliedEffects

\* A change outside the sessions is one of the ledger's.
LEMMA LedgerOutside ==
  ASSUME NEW l \in Learners, NEW w \in Words, NEW after, NEW deciding \in BOOLEAN,
         Outside(l, w, after, deciding),
         \/ \E m \in Modes : after = Ledger!Chosen(words[l][w], m)
         \/ \E in \in BOOLEAN : after = Ledger!Stashed(words[l][w], in)
         \/ after = Ledger!Dismissed(words[l][w]),
         TypeOK
  PROVE  Ledger!Outside(l, w)
<1>1. words' = [words EXCEPT ![l][w] = after]
  BY DEF Outside
<1>2. /\ phases' = phases /\ appliedEffects' = appliedEffects
      /\ UNCHANGED <<context, log, schedules, cues>>
  BY DEF Outside, phases, appliedEffects
<1>3. /\ \A m : words' = [words EXCEPT ![l][w] = Ledger!Chosen(@, m)]
                <=> words' = [words EXCEPT ![l][w] = Ledger!Chosen(words[l][w], m)]
      /\ \A in : words' = [words EXCEPT ![l][w] = Ledger!Stashed(@, in)]
                <=> words' = [words EXCEPT ![l][w] = Ledger!Stashed(words[l][w], in)]
      /\ words' = [words EXCEPT ![l][w] = Ledger!Dismissed(@)]
           <=> words' = [words EXCEPT ![l][w] = Ledger!Dismissed(words[l][w])]
  OBVIOUS
<1>4. \/ \E m \in Modes : words' = [words EXCEPT ![l][w] = Ledger!Chosen(@, m)]
      \/ \E in \in BOOLEAN : words' = [words EXCEPT ![l][w] = Ledger!Stashed(@, in)]
      \/ words' = [words EXCEPT ![l][w] = Ledger!Dismissed(@)]
  BY <1>1, <1>3, Zenon
<1> QED BY <1>2, <1>4, Zenon DEF Ledger!Outside, phases, appliedEffects, Ledger!Modes, Modes

\* Every step of the machinery is a step of the ledger or leaves it alone.
LEMMA LedgerStep == IInv /\ [Next]_vars => [Ledger!Next]_(Ledger!vars)
<1> SUFFICES ASSUME IInv, [Next]_vars PROVE Ledger!Next \/ UNCHANGED Ledger!vars
  OBVIOUS
<1>0. TypeOK
  BY DEF IInv
<1>1. CASE UNCHANGED vars
  BY <1>1, LedgerStutter DEF vars, learning
<1>2. ASSUME NEW s \in Sessions, Create(s) PROVE Ledger!Begin(s)
  <2>1. phases[s] = "none" /\ phases' = [phases EXCEPT ![s] = "open"]
    BY <1>0, <1>2 DEF phases, PhaseOf, Create, TypeOK
  <2>2. appliedEffects' = appliedEffects
    BY <1>2 DEF Create, appliedEffects
  <2> QED BY <1>2, <2>1, <2>2, Zenon DEF Create, Ledger!Begin, phases, appliedEffects,
             Freeze, Ledger!Freeze, learning, Ledger!learning
<1>3. ASSUME NEW s \in Sessions, NEW report \in Reports, AppendWork(s, report)
      PROVE  Ledger!Study(s, report)
  <2>1. phases[s] = "open" /\ phases' = phases
    BY <1>3 DEF phases, PhaseOf, AppendWork
  <2>2. appliedEffects' = appliedEffects
    BY <1>3 DEF AppendWork, appliedEffects
  <2> QED BY <1>3, <2>1, <2>2, Zenon DEF AppendWork, Ledger!Study, phases, appliedEffects,
             learning, Ledger!learning
<1>4. ASSUME NEW s \in Sessions, NEW through \in 0..MaxLog, Stage(s, through)
      PROVE  UNCHANGED Ledger!vars
  <2>1. \A t \in Sessions : PhaseOf(status'[t]) = PhaseOf(status[t])
    BY <1>0, <1>4 DEF Stage, TypeOK, PhaseOf
  <2> QED BY <1>4, <2>1, LedgerStutter DEF Stage
<1>5. ASSUME NEW s \in Sessions, NEW r \in Revisions(s), Cancel(s, r)
      PROVE  UNCHANGED Ledger!vars
  <2>1. status[s] = "finalizing"
    BY <1>5, UnfinishedIsLatest DEF Cancel
  <2>2. \A t \in Sessions : PhaseOf(status'[t]) = PhaseOf(status[t])
    BY <1>0, <1>5, <2>1 DEF Cancel, TypeOK, PhaseOf
  <2> QED BY <1>5, <2>2, LedgerStutter DEF Cancel
<1>6. ASSUME NEW s \in Sessions, NEW r \in Revisions(s), WindowEnds(s, r)
      PROVE  UNCHANGED Ledger!vars
  BY <1>6, LedgerStutter DEF WindowEnds
<1>7. ASSUME NEW s \in Sessions, NEW r \in Revisions(s),
             CancelTooLate(s, r) \/ Close(s, r) \/ WorkerCloses(s, r)
      PROVE  Ledger!Settle(s) \/ UNCHANGED Ledger!vars
  <2>1. Unfinished(completions[s][r]) /\ Attempt(s, r)
    BY <1>7 DEF CancelTooLate, Close, WorkerCloses, Pending, Unfinished
  <2>2. CASE Fail(s, r)
    BY <2>2, LedgerStutter DEF Fail
  <2>3. CASE Save(s, r, ReportOf(completions[s][r]))
    BY <2>1, <2>3, LedgerSettle
  <2> QED BY <2>1, <2>2, <2>3 DEF Attempt
<1>8. ASSUME NEW l \in Learners, NEW w \in Words
      PROVE  /\ \A m \in Modes : ChangeMode(l, w, m) => Ledger!Outside(l, w)
             /\ \A in \in BOOLEAN : SetStash(l, w, in) => Ledger!Outside(l, w)
             /\ Dismiss(l, w) => Ledger!Outside(l, w)
  <2>1. /\ \A word, m : Ledger!Chosen(word, m) = Chosen(word, m)
        /\ \A word, in : Ledger!Stashed(word, in) = Stashed(word, in)
        /\ \A word : Ledger!Dismissed(word) = Dismissed(word)
    BY Zenon DEF Ledger!Chosen, Ledger!Stashed, Ledger!Dismissed, Chosen, Stashed, Dismissed
  <2> QED BY <1>0, <2>1, LedgerOutside DEF ChangeMode, SetStash, Dismiss
<1> QED BY <1>1, <1>2, <1>3, <1>4, <1>5, <1>6, <1>7, <1>8 DEF Next, Ledger!Next

\* The saving machinery refines the ledger: windows, cancelled revisions, failed
\* closes and retries are invisible, and a session settles in one step, once.
THEOREM Refinement == Spec => ImplementsLedger
<1>1. Init => IInv
  BY InitType, InitSafe DEF IInv
<1>2. IInv /\ [Next]_vars => IInv'
  BY NextType, NextSafe DEF IInv
<1> QED BY <1>1, <1>2, LedgerInit, LedgerStep, PTL DEF Spec, ImplementsLedger, Ledger!Spec
==============================================================================
