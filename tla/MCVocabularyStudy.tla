------------------------- MODULE MCVocabularyStudy -------------------------
(***************************************************************************)
(* Small study sessions for TLC: the words Start may admit, the material   *)
(* it retained for them, and the compositions that are checked.            *)
(***************************************************************************)
EXTENDS VocabularyStudy

Frozen(mode, skill, solidify) ==
  [ mode |-> mode, selectedSkill |-> skill, solidifySkills |-> solidify,
    cleanCoveredSessions |-> 2, promotionPaused |-> FALSE,
    introduction |-> IF mode = "unstudied" THEN "intro" ELSE NoContent ]

Both == {"recognition", "production"}
C(id, shape) == [id |-> id, shape |-> shape]

Taught == [intro |-> C("intro", "introduction"),
           exercises |-> {C("t-rec", "recognition"), C("t-pro", "production")}]
NoPriming == [w \in Words |-> [id |-> NoContent]]
Teachings == [w \in Words |-> Taught]

Material == {C("rec", "recognition"), C("pro-1", "production"),
             C("pro-2", "production")}
Pool(contents) == [m \in Modes |-> contents]
FullPool   == Pool(Material)
ScantPool  == Pool({C("pro-1", "production")})
\* Recognition material alone: production work is soon exhausted.
BarePool   == Pool({C("rec", "recognition")})

AnyDetour == UndoableKinds \cup {"feedback", "undo"}
Freely(n) == [i \in 1..n |-> AnyDetour]

Composition(words, cues, introductions, actions, detours) ==
  [ words |-> words, cues |-> cues, introductions |-> introductions,
    maxLog |-> actions, detours |-> detours, answers |-> BOOLEAN ]
Alone(word, cues, actions, detours) ==
  Composition({word}, cues, "random", actions, Freely(detours))
All(actions, detours) ==
  Composition(Words, Cues, "random", actions, Freely(detours))

\* "a" is reviewed by production beside a cue, "b" solidified after a priming
\* card, with both recall directions enabled, "c" taught, and "d" and "e" are due
\* in a skill no material serves.
KindWords ==
  [w \in Words |->
     Frozen(CASE w = "b" -> "solidify" [] w = "c" -> "unstudied"
              [] OTHER -> "practice",
            IF w \in {"d", "e"} THEN "contextual_selection" ELSE "production",
            Both)]
KindPrimed == [w \in Words |-> IF w = "b" THEN C("intro", "introduction")
                                ELSE [id |-> NoContent]]
KindPool == [w \in Words |-> CASE w = "a" -> ScantPool
                               [] w \in {"d", "e"} -> BarePool
                               [] OTHER -> FullPool]
Mixed == Composition({"c", "d", "e"}, Cues, "paced", 6, <<>>)
\* "c" is taught from exercises whose introduction Undo withdraws, twice.
Leave == {"exercise_skip"}
Back  == {"undo"}
Untaught == [Composition({"c"}, Cues, "random", 14, <<Leave, Back, Leave, Back>>)
               EXCEPT !.answers = {TRUE}]
EachKind == { Alone("a", Cues, 8, 2), Alone("b", {}, 8, 2),
              Alone("c", {}, 9, 1), Mixed, Untaught }

\* Words under review by production.
PracticeWords == [w \in Words |-> Frozen("practice", "production", Both)]
PracticePool  == [w \in Words |-> ScantPool]
Resumed       == {All(7, 3)}

OrderKinds   == <<"d", "e", "a", "cue">>
OrderWords   == <<"a", "b">>
=============================================================================
