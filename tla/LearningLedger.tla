---------------------------- MODULE LearningLedger ----------------------------
(* What the saving of study sessions promises: a session is open, its          *)
(* acknowledged work only grows, and one step settles it, moving the learner's  *)
(* words, schedules and cues by the whole of that work, once.  The summary      *)
(* window, its revisions, cancellation and failed closes are not visible here.  *)
EXTENDS LearningEffects, Sequences

CONSTANTS Learners, Sessions, Owner, Reports,
          InitialWord, InitialClean

VARIABLES phase,      \* session -> "none", "open" or "settled"
          context,    \* session -> word -> what it froze
          log,        \* session -> the reports of its acknowledged boundaries
          words,      \* learner -> word -> state
          schedules,  \* learner -> word -> production schedule
          cues,       \* learner -> cue -> schedule
          applied     \* the effects: [session, kind, subject]

learning == <<words, schedules, cues>>
vars == <<phase, context, log, learning, applied>>

Unfrozen == [w \in Words |-> [mode |-> "unstudied", paused |-> FALSE, clean |-> 0, version |-> 1]]

Freeze(l) == [w \in Words |-> [mode |-> words[l][w].mode, paused |-> words[l][w].paused,
                               clean |-> schedules[l][w].clean,
                               version |-> words[l][w].version]]

Init ==
  /\ phase = [s \in Sessions |-> "none"]
  /\ context = [s \in Sessions |-> Unfrozen]
  /\ log = [s \in Sessions |-> <<>>]
  /\ words = [l \in Learners |-> [w \in Words |-> InitialWord[w]]]
  /\ schedules = [l \in Learners |-> [w \in Words |->
       [due |-> "unset", clean |-> InitialClean[w], refresh |-> FALSE, version |-> 1]]]
  /\ cues = [l \in Learners |-> [q \in Cues |-> [clean |-> 0, version |-> 1]]]
  /\ applied = {}

Begin(s) ==
  /\ phase[s] = "none"
  /\ phase' = [phase EXCEPT ![s] = "open"]
  /\ context' = [context EXCEPT ![s] = Freeze(Owner[s])]
  /\ UNCHANGED <<log, learning, applied>>

Study(s, report) ==
  /\ phase[s] = "open"
  /\ log' = [log EXCEPT ![s] = Append(@, report)]
  /\ UNCHANGED <<phase, context, learning, applied>>

Settle(s) ==
  LET l == Owner[s]
      report == log[s][Len(log[s])]
  IN /\ phase[s] = "open"
     /\ log[s] # <<>>
     /\ report.done
     /\ phase' = [phase EXCEPT ![s] = "settled"]
     /\ words' = [words EXCEPT ![l] = [w \in Words |->
          WordAfter(context[s][w], report.words[w], words[l][w])]]
     /\ schedules' = [schedules EXCEPT ![l] = [w \in Words |->
          ScheduleAfter(w, context[s][w], report.words[w], words[l][w], schedules[l][w])]]
     /\ cues' = [cues EXCEPT ![l] = [q \in Cues |-> CueAfter(report.cues[q], cues[l][q])]]
     /\ applied' = applied \cup {[session |-> s, kind |-> e.kind, subject |-> e.subject] :
                                 e \in Effects(context[s], report, words[l])}
     /\ UNCHANGED <<context, log>>

Outside(l, w) ==
  /\ \/ \E m \in Modes : words' = [words EXCEPT ![l][w] = Chosen(@, m)]
     \/ \E in \in BOOLEAN : words' = [words EXCEPT ![l][w] = Stashed(@, in)]
     \/ words' = [words EXCEPT ![l][w] = Dismissed(@)]
  /\ UNCHANGED <<phase, context, log, schedules, cues, applied>>

Next ==
  \/ \E s \in Sessions : Begin(s) \/ Settle(s)
  \/ \E s \in Sessions, report \in Reports : Study(s, report)
  \/ \E l \in Learners, w \in Words : Outside(l, w)

Spec == Init /\ [][Next]_vars
==============================================================================
