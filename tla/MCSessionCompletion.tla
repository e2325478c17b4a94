------------------------- MODULE MCSessionCompletion -------------------------
(* Small learners, words and reports for TLC.                                  *)
EXTENDS SessionCompletion, TLC

CONSTANTS ann, s1, s2, u, q

\* What a session can say of a word.
Untouched == [admitted |-> FALSE, explicit |-> NoMode, taught |-> FALSE, covered |-> FALSE,
              clean |-> FALSE, general |-> FALSE, production |-> "none",
              recognition |-> "none", contextual |-> "none"]
Met == [Untouched EXCEPT !.admitted = TRUE, !.recognition = "clean"]
Taught == [Met EXCEPT !.taught = TRUE, !.covered = TRUE]
Cleanly == [Met EXCEPT !.covered = TRUE, !.clean = TRUE, !.production = "clean", !.general = TRUE]
Lapsed == [Cleanly EXCEPT !.clean = FALSE, !.production = "rejected"]
Choosing(r, mode) == [r EXCEPT !.explicit = mode]

About(done, r, evidence) == [done |-> done, words |-> [w \in Words |-> r],
                             cues |-> [c \in Cues |-> evidence]]

\* One new word: met, taught, or taught and then moved on by choice.
TeachingReports == {About(FALSE, Met, "none"), About(TRUE, Taught, "clean"),
                    About(TRUE, Choosing(Taught, "practice"), "rejected")}

\* One Solidify word: clean or lapsed.
SolidifyReports == {About(TRUE, Cleanly, "none"), About(TRUE, Lapsed, "clean")}

New == [mode |-> "unstudied", paused |-> FALSE, inStash |-> TRUE, dismissed |-> FALSE, version |-> 1]
NewWords == [w \in Words |-> New]
SolidifyingWords == [w \in Words |-> [New EXCEPT !.mode = "solidify"]]
NoneClean == [w \in Words |-> 0]
TwoClean == [w \in Words |-> 2]

ProductionSkill == [w \in Words |-> "production"]

OneOwner == [s \in Sessions |-> ann]
==============================================================================
