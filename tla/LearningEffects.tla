--------------------------- MODULE LearningEffects ---------------------------
(* What closing a session does to a learner's words, schedules and pure cues:  *)
(* applyLearningEffects of server/db/vocabulary-sessions.ts.  A session is seen *)
(* through its report, the part of the reducer's projection that closing reads. *)
(* Instants are reduced to the rule that produced them (`due`), and a scheduler *)
(* state to its count of consecutive clean Solidify sessions.                   *)
EXTENDS Naturals, FiniteSets

CONSTANTS Words, Cues,  \* what a session may hold
          Skill,        \* the review skill the composition selected for a word
          NoSkill,      \* none selected
          NoMode        \* no choice of mode

Modes == {"unstudied", "solidify", "practice", "maintain"}
Skills == {"recognition", "production", "contextual_selection"}

ASSUME SkillAssumption == /\ Skill \in [Words -> Skills \cup {NoSkill}]
                          /\ NoSkill \notin Skills
                          /\ NoMode \notin Modes

CleanToPractice == 3    \* solidifyCleanCoveredSessionsToRecommendPractice
Evidence == {"none", "clean", "rejected"}

\* What the projection says of one word at a boundary.  `clean` is
\* isCleanSolidifySession; `general` that a general encounter was answered.
WordReport == [admitted : BOOLEAN, explicit : Modes \cup {NoMode}, taught : BOOLEAN,
               covered : BOOLEAN, clean : BOOLEAN, general : BOOLEAN,
               production : Evidence, recognition : Evidence, contextual : Evidence]

\* The projection at a boundary; a cue's "none" is a cue that was not covered.
Report == [done : BOOLEAN, words : [Words -> WordReport], cues : [Cues -> Evidence]]

\* What a session keeps of a word when it starts.
Frozen == [mode : Modes, paused : BOOLEAN, clean : Nat, version : Nat]

WordState == [mode : Modes, paused : BOOLEAN, inStash : BOOLEAN,
              dismissed : BOOLEAN, version : Nat]
Schedule == [due : {"unset", "next_day", "now", "interval"}, clean : Nat,
             refresh : BOOLEAN, version : Nat]
CueSchedule == [clean : Nat, version : Nat]
Kinds == {"mode", "production", "recognition", "contextual", "recency", "teaching", "cue"}

------------------------------------------------------------------------------
(* The mode a session leaves a word in.                                       *)

Recommended(f, r) == /\ r.explicit = NoMode
                     /\ ~f.paused
                     /\ r.clean
                     /\ f.clean + 1 >= CleanToPractice

\* explicitModeChoice ?? recommendedMode ?? mode
SessionMode(f, r) ==
  IF r.explicit # NoMode THEN r.explicit
  ELSE IF Recommended(f, r) THEN "practice"
  ELSE IF r.taught THEN "solidify" ELSE f.mode

\* A mutation: a choice of the same mode goes unnoticed.
ExternalByMode(f, word) == word.mode # f.mode

External(f, word) == word.version # f.version

ModeAfter(f, r, word) ==
  IF External(f, word) THEN word.mode ELSE SessionMode(f, r)

PausedAfter(f, r, word) ==
  IF External(f, word) THEN word.paused
  ELSE IF r.explicit # NoMode THEN r.explicit = "solidify"
  ELSE ~r.taught /\ word.paused

ModeApplied(f, r, word) ==
  /\ r.admitted
  /\ \/ ModeAfter(f, r, word) # word.mode
     \/ PausedAfter(f, r, word) # word.paused
     \/ ~External(f, word) /\ r.explicit # NoMode

WordAfter(f, r, word) ==
  IF ModeApplied(f, r, word)
  THEN [word EXCEPT !.mode = ModeAfter(f, r, word), !.paused = PausedAfter(f, r, word),
                    !.version = @ + 1]
  ELSE word

------------------------------------------------------------------------------
(* The schedules it moves, and the effects it records.                        *)

ProductionSelected(w) == Skill[w] \in {NoSkill, "production"}

Rescheduled(w, f, r) ==
  /\ r.admitted
  /\ \/ r.covered /\ r.production # "none" /\ ProductionSelected(w)
     \/ r.covered /\ f.mode = "solidify" /\ ProductionSelected(w)
     \/ r.taught

DueAfter(mode, r, due) ==
  IF mode = "solidify" \/ r.taught THEN "next_day"
  ELSE IF mode = "maintain" /\ r.production = "rejected" THEN "now"
  ELSE IF r.production # "none" THEN "interval" ELSE due

ScheduleAfter(w, f, r, word, schedule) ==
  IF Rescheduled(w, f, r)
  THEN [due |-> DueAfter(ModeAfter(f, r, word), r, schedule.due),
        clean |-> IF r.clean THEN schedule.clean + 1 ELSE 0,
        refresh |-> \/ schedule.refresh
                    \/ ModeAfter(f, r, word) = "maintain" /\ r.production = "rejected",
        version |-> schedule.version + 1]
  ELSE schedule

CueAfter(evidence, cue) ==
  IF evidence = "none" THEN cue
  ELSE [clean |-> IF evidence = "clean" THEN cue.clean + 1 ELSE 0,
        version |-> cue.version + 1]

\* The effects of a word that do not depend on the learner's state at closing.
SkillEffects(w, f, r) ==
  {k \in Kinds :
     /\ r.admitted
     /\ \/ k = "production" /\ Rescheduled(w, f, r)
        \/ k = "recognition" /\ r.recognition # "none" /\ (r.covered \/ Skill[w] = NoSkill)
        \/ k = "contextual" /\ r.contextual # "none" /\ (r.covered \/ Skill[w] = NoSkill)
        \/ k = "recency" /\ r.covered /\ f.mode \in {"practice", "maintain"} /\ r.general
        \/ k = "teaching" /\ r.taught}

WordEffects(w, f, r, word) ==
  SkillEffects(w, f, r) \cup (IF ModeApplied(f, r, word) THEN {"mode"} ELSE {})

Effects(frozen, report, learner) ==
  {e \in [kind : Kinds, subject : Words \cup Cues] :
     \/ /\ e.subject \in Words
        /\ LET w == e.subject
           IN e.kind \in WordEffects(w, frozen[w], report.words[w], learner[w])
     \/ /\ e.subject \in Cues
        /\ e.kind = "cue" /\ report.cues[e.subject] # "none"}

------------------------------------------------------------------------------
(* The reports the reducer can make of a word it froze as f.                  *)

Consistent(f, r) ==
  /\ r.taught => r.covered /\ f.mode = "unstudied"
  /\ r.clean => /\ r.covered /\ f.mode = "solidify" /\ r.production = "clean"
                /\ r.recognition # "rejected" /\ r.explicit \in {NoMode, "solidify"}
  /\ r.covered => r.admitted
  /\ r.covered /\ ~r.taught /\ f.mode = "unstudied" => r.explicit # NoMode
  /\ ~r.admitted => r.explicit = NoMode /\ r.production = "none" /\ ~r.general

------------------------------------------------------------------------------
(* What the learner does to a word outside any session.                       *)

Chosen(word, mode) == [word EXCEPT !.mode = mode, !.paused = (mode = "solidify"),
                                   !.dismissed = FALSE, !.version = @ + 1]

Stashed(word, in) ==
  IF word.inStash = in /\ (in => ~word.dismissed) THEN word
  ELSE [word EXCEPT !.inStash = in, !.dismissed = @ /\ ~in, !.version = @ + 1]

Dismissed(word) ==
  IF ~word.inStash /\ word.mode = "unstudied" /\ word.dismissed THEN word
  ELSE [word EXCEPT !.inStash = FALSE, !.mode = "unstudied", !.paused = FALSE,
                    !.dismissed = TRUE, !.version = @ + 1]
==============================================================================
