------------------------ MODULE SessionReducerProofs ------------------------
(***************************************************************************)
(* What the interpretation of a log does with every log: how a projection  *)
(* grows with its log, and that the incremental projection is the full     *)
(* one.  The folds of the reducer are recursive functions of a prefix's    *)
(* length; each is unfolded once, by an induction over sets of numbers.    *)
(***************************************************************************)
EXTENDS SessionReducer, WellFoundedInduction, FiniteSetTheorems,
        SequenceTheorems, TLAPS

-----------------------------------------------------------------------------
(* Induction over the prefixes of a sequence.                              *)

\* A set with 0 and the successors of its members holds every number.
LEMMA Induction ==
  ASSUME NEW S, 0 \in S, \A n \in Nat : n \in S => n + 1 \in S
  PROVE  \A n \in Nat : n \in S
<1> SUFFICES ASSUME NEW z \in Nat, z \notin S PROVE FALSE
  OBVIOUS
<1> DEFINE M == Nat \ S
           T == {0 .. x : x \in M}
           R == StrictSubsetOrdering(Nat)
<1>1. IsWellFoundedOn(R, FiniteSubsetsOf(Nat))
  BY FS_StrictSubsetOrderingWellFounded
<1>2. T \subseteq FiniteSubsetsOf(Nat)
  <2> SUFFICES ASSUME NEW x \in M PROVE (0 .. x) \in FiniteSubsetsOf(Nat)
    OBVIOUS
  <2>1. (0 .. x) \in SUBSET Nat /\ 0 \in Int /\ x \in Int
    OBVIOUS
  <2>2. IsFiniteSet(0 .. x)
    BY <2>1, FS_Interval
  <2> QED BY <2>1, <2>2 DEF FiniteSubsetsOf
<1>3. T # {}
  OBVIOUS
<1> HIDE DEF R, T
<1>4. \E t \in T : \A u \in T : ~(<<u, t>> \in R)
  BY <1>1, <1>2, <1>3, WFMin
<1> USE DEF R, T
<1>5. PICK x \in M : \A y \in M : ~(<<0 .. y, 0 .. x>> \in R)
  BY <1>4
<1>6. x # 0 /\ x - 1 \in Nat /\ x - 1 \notin S
  <2>1. x \in Nat /\ x # 0 /\ x \notin S
    OBVIOUS
  <2>2. x - 1 \in Nat /\ (x - 1) + 1 = x
    BY <2>1
  <2> QED BY <2>1, <2>2
<1>7. (0 .. x - 1) \in SUBSET Nat /\ (0 .. x) \in SUBSET Nat
      /\ (0 .. x - 1) \subseteq (0 .. x) /\ x \in 0 .. x /\ x \notin 0 .. x - 1
  BY <1>6
<1> QED BY <1>5, <1>6, <1>7 DEF StrictSubsetOrdering

\* The same up to a bound.
LEMMA InductionUpTo ==
  ASSUME NEW N \in Nat, NEW S, 0 \in S,
         \A n \in 0 .. N - 1 : n \in S => n + 1 \in S
  PROVE  \A n \in 0 .. N : n \in S
<1> DEFINE T == {n \in Nat : n <= N => n \in S}
<1>1. 0 \in T
  OBVIOUS
<1>2. ASSUME NEW n \in Nat, n \in T PROVE n + 1 \in T
  <2>1. ASSUME n + 1 <= N PROVE n + 1 \in S
    BY <1>2, <2>1
  <2> QED BY <2>1
<1> HIDE DEF T
<1>3. \A n \in Nat : n \in T
  BY <1>1, <1>2, Induction
<1> QED BY <1>3 DEF T

-----------------------------------------------------------------------------
(* The folds, unfolded.                                                    *)

Finite(s) == Len(s) \in Nat

\* Every prefix of a run is the previous one and a step.
LEMMA RunsUnfold ==
  ASSUME NEW st, NEW actions, NEW replaying, Finite(actions)
  PROVE  /\ Runs(st, actions, replaying)[0] = [ok |-> TRUE, st |-> st]
         /\ \A n \in 1 .. Len(actions) :
              Runs(st, actions, replaying)[n] =
                Step(Runs(st, actions, replaying)[n - 1], actions[n],
                     replaying)
<1> DEFINE Is(f, N) ==
             f = [n \in 0 .. N |-> IF n = 0 THEN [ok |-> TRUE, st |-> st]
                                   ELSE Step(f[n - 1], actions[n], replaying)]
           S == {N \in Nat : \E f : Is(f, N)}
<1>1. 0 \in S
  <2> DEFINE g == [n \in 0 .. 0 |-> [ok |-> TRUE, st |-> st]]
  <2>1. Is(g, 0)
    OBVIOUS
  <2> QED BY <2>1
<1>2. ASSUME NEW N \in Nat, N \in S PROVE N + 1 \in S
  <2>1. PICK f : Is(f, N)
    BY <1>2
  <2> DEFINE g == [n \in 0 .. N + 1 |->
                     IF n = N + 1 THEN Step(f[N], actions[N + 1], replaying)
                                  ELSE f[n]]
  <2>2. ASSUME NEW n \in 0 .. N + 1
        PROVE  g[n] = IF n = 0 THEN [ok |-> TRUE, st |-> st]
                      ELSE Step(g[n - 1], actions[n], replaying)
    <3>1. CASE n = N + 1
      BY <3>1
    <3>2. CASE n \in 0 .. N
      <4>1. n # N + 1 /\ g[n] = f[n] /\ (n # 0 => g[n - 1] = f[n - 1])
        BY <3>2
      <4>2. f[n] = IF n = 0 THEN [ok |-> TRUE, st |-> st]
                   ELSE Step(f[n - 1], actions[n], replaying)
        BY <2>1, <3>2
      <4> QED BY <4>1, <4>2
    <3> QED BY <3>1, <3>2
  <2>3. Is(g, N + 1)
    BY <2>2
  <2> HIDE DEF g
  <2>4. \E f_1 : Is(f_1, N + 1)
    BY <2>3
  <2> QED BY <2>4
<1> HIDE DEF S
<1>3. Len(actions) \in S
  BY <1>1, <1>2, Induction DEF Finite
<1> USE DEF S
<1>4. Is(Runs(st, actions, replaying), Len(actions))
  BY <1>3, Zenon DEF Runs
<1>5. PICK r : r = Runs(st, actions, replaying)
  OBVIOUS
<1>6. Is(r, Len(actions)) /\ Len(actions) \in Nat
  BY <1>4, <1>5 DEF Finite
<1>7. 0 \in 0 .. Len(actions)
      /\ \A n \in 1 .. Len(actions) : n # 0 /\ n \in 0 .. Len(actions)
  BY <1>6
<1>8. \A n \in 0 .. Len(actions) :
        r[n] = IF n = 0 THEN [ok |-> TRUE, st |-> st]
               ELSE Step(r[n - 1], actions[n], replaying)
  BY <1>6, Zenon
<1>9. r[0] = [ok |-> TRUE, st |-> st]
  BY <1>7, <1>8
<1>10. \A n \in 1 .. Len(actions) :
         r[n] = Step(r[n - 1], actions[n], replaying)
  BY <1>7, <1>8
<1> QED BY <1>5, <1>9, <1>10

\* A replay takes a step for each action in force, and none for the others.
LEMMA RerunsUnfold ==
  ASSUME NEW actions, NEW undone, Finite(actions)
  PROVE  /\ Reruns(actions, undone)[0] = [ok |-> TRUE, st |-> EmptyState]
         /\ \A n \in 1 .. Len(actions) :
              Reruns(actions, undone)[n] =
                Rerun(Reruns(actions, undone)[n - 1], actions[n], undone)
<1> DEFINE Is(f, N) ==
             f = [n \in 0 .. N |-> IF n = 0 THEN [ok |-> TRUE, st |-> EmptyState]
                                   ELSE Rerun(f[n - 1], actions[n], undone)]
           S == {N \in Nat : \E f : Is(f, N)}
<1>1. 0 \in S
  <2> DEFINE g == [n \in 0 .. 0 |-> [ok |-> TRUE, st |-> EmptyState]]
  <2>1. Is(g, 0)
    OBVIOUS
  <2> QED BY <2>1
<1>2. ASSUME NEW N \in Nat, N \in S PROVE N + 1 \in S
  <2>1. PICK f : Is(f, N)
    BY <1>2
  <2> DEFINE g == [n \in 0 .. N + 1 |->
                     IF n = N + 1 THEN Rerun(f[N], actions[N + 1], undone)
                                  ELSE f[n]]
  <2>2. ASSUME NEW n \in 0 .. N + 1
        PROVE  g[n] = IF n = 0 THEN [ok |-> TRUE, st |-> EmptyState]
                      ELSE Rerun(g[n - 1], actions[n], undone)
    <3>1. CASE n = N + 1
      BY <3>1
    <3>2. CASE n \in 0 .. N
      <4>1. n # N + 1 /\ g[n] = f[n] /\ (n # 0 => g[n - 1] = f[n - 1])
        BY <3>2
      <4>2. f[n] = IF n = 0 THEN [ok |-> TRUE, st |-> EmptyState]
                   ELSE Rerun(f[n - 1], actions[n], undone)
        BY <2>1, <3>2
      <4> QED BY <4>1, <4>2
    <3> QED BY <3>1, <3>2
  <2>3. Is(g, N + 1)
    BY <2>2
  <2> HIDE DEF g
  <2>4. \E f_1 : Is(f_1, N + 1)
    BY <2>3
  <2> QED BY <2>4
<1> HIDE DEF S
<1>3. Len(actions) \in S
  BY <1>1, <1>2, Induction DEF Finite
<1> USE DEF S
<1>4. Is(Reruns(actions, undone), Len(actions))
  BY <1>3, Zenon DEF Reruns
<1>5. PICK r : r = Reruns(actions, undone)
  OBVIOUS
<1>6. Is(r, Len(actions)) /\ Len(actions) \in Nat
  BY <1>4, <1>5 DEF Finite
<1>7. 0 \in 0 .. Len(actions)
      /\ \A n \in 1 .. Len(actions) : n # 0 /\ n \in 0 .. Len(actions)
  BY <1>6
<1>8. \A n \in 0 .. Len(actions) :
        r[n] = IF n = 0 THEN [ok |-> TRUE, st |-> EmptyState]
               ELSE Rerun(r[n - 1], actions[n], undone)
  BY <1>6, Zenon
<1>9. r[0] = [ok |-> TRUE, st |-> EmptyState]
  BY <1>7, <1>8
<1>10. \A n \in 1 .. Len(actions) :
         r[n] = Rerun(r[n - 1], actions[n], undone)
  BY <1>7, <1>8
<1> QED BY <1>5, <1>9, <1>10

\* What was given for an encounter grows with each action that is for it.
LEMMA GivenUnfold ==
  ASSUME NEW log, NEW kind, NEW e, Finite(log)
  PROVE  /\ Given(log, kind, e)[0] = <<>>
         /\ \A n \in 1 .. Len(log) :
              Given(log, kind, e)[n] =
                Gathered(Given(log, kind, e)[n - 1], log[n], kind, e)
<1> DEFINE Is(f, N) ==
             f = [n \in 0 .. N |-> IF n = 0 THEN <<>>
                                   ELSE Gathered(f[n - 1], log[n], kind, e)]
           S == {N \in Nat : \E f : Is(f, N)}
<1>1. 0 \in S
  <2> DEFINE g == [n \in 0 .. 0 |-> <<>>]
  <2>1. Is(g, 0)
    OBVIOUS
  <2> QED BY <2>1
<1>2. ASSUME NEW N \in Nat, N \in S PROVE N + 1 \in S
  <2>1. PICK f : Is(f, N)
    BY <1>2
  <2> DEFINE g == [n \in 0 .. N + 1 |->
                     IF n = N + 1 THEN Gathered(f[N], log[N + 1], kind, e)
                                  ELSE f[n]]
  <2>2. ASSUME NEW n \in 0 .. N + 1
        PROVE  g[n] = IF n = 0 THEN <<>>
                      ELSE Gathered(g[n - 1], log[n], kind, e)
    <3>1. CASE n = N + 1
      BY <3>1
    <3>2. CASE n \in 0 .. N
      <4>1. n # N + 1 /\ g[n] = f[n] /\ (n # 0 => g[n - 1] = f[n - 1])
        BY <3>2
      <4>2. f[n] = IF n = 0 THEN <<>>
                   ELSE Gathered(f[n - 1], log[n], kind, e)
        BY <2>1, <3>2
      <4> QED BY <4>1, <4>2
    <3> QED BY <3>1, <3>2
  <2>3. Is(g, N + 1)
    BY <2>2
  <2> HIDE DEF g
  <2>4. \E f_1 : Is(f_1, N + 1)
    BY <2>3
  <2> QED BY <2>4
<1> HIDE DEF S
<1>3. Len(log) \in S
  BY <1>1, <1>2, Induction DEF Finite
<1> USE DEF S
<1>4. Is(Given(log, kind, e), Len(log))
  BY <1>3, Zenon DEF Given
<1>5. PICK r : r = Given(log, kind, e)
  OBVIOUS
<1>6. Is(r, Len(log)) /\ Len(log) \in Nat
  BY <1>4, <1>5 DEF Finite
<1>7. 0 \in 0 .. Len(log)
      /\ \A n \in 1 .. Len(log) : n # 0 /\ n \in 0 .. Len(log)
  BY <1>6
<1>8. \A n \in 0 .. Len(log) :
        r[n] = IF n = 0 THEN <<>>
               ELSE Gathered(r[n - 1], log[n], kind, e)
  BY <1>6, Zenon
<1>9. r[0] = <<>>
  BY <1>7, <1>8
<1>10. \A n \in 1 .. Len(log) :
         r[n] = Gathered(r[n - 1], log[n], kind, e)
  BY <1>7, <1>8
<1> QED BY <1>5, <1>9, <1>10

\* Every prefix of a log is projected from the previous one.
LEMMA ProjectionsUnfold ==
  ASSUME NEW log, Finite(log)
  PROVE  /\ Projections(log)[0] = NothingProjected
         /\ \A n \in 1 .. Len(log) :
              Projections(log)[n] =
                ProjectStep(log, Projections(log)[n - 1], log[n])
<1> DEFINE Is(f, N) ==
             f = [n \in 0 .. N |-> IF n = 0 THEN NothingProjected
                                   ELSE ProjectStep(log, f[n - 1], log[n])]
           S == {N \in Nat : \E f : Is(f, N)}
<1>1. 0 \in S
  <2> DEFINE g == [n \in 0 .. 0 |-> NothingProjected]
  <2>1. Is(g, 0)
    OBVIOUS
  <2> QED BY <2>1
<1>2. ASSUME NEW N \in Nat, N \in S PROVE N + 1 \in S
  <2>1. PICK f : Is(f, N)
    BY <1>2
  <2> DEFINE g == [n \in 0 .. N + 1 |->
                     IF n = N + 1 THEN ProjectStep(log, f[N], log[N + 1])
                                  ELSE f[n]]
  <2>2. ASSUME NEW n \in 0 .. N + 1
        PROVE  g[n] = IF n = 0 THEN NothingProjected
                      ELSE ProjectStep(log, g[n - 1], log[n])
    <3>1. CASE n = N + 1
      BY <3>1
    <3>2. CASE n \in 0 .. N
      <4>1. n # N + 1 /\ g[n] = f[n] /\ (n # 0 => g[n - 1] = f[n - 1])
        BY <3>2
      <4>2. f[n] = IF n = 0 THEN NothingProjected
                   ELSE ProjectStep(log, f[n - 1], log[n])
        BY <2>1, <3>2
      <4> QED BY <4>1, <4>2
    <3> QED BY <3>1, <3>2
  <2>3. Is(g, N + 1)
    BY <2>2
  <2> HIDE DEF g
  <2>4. \E f_1 : Is(f_1, N + 1)
    BY <2>3
  <2> QED BY <2>4
<1> HIDE DEF S
<1>3. Len(log) \in S
  BY <1>1, <1>2, Induction DEF Finite
<1> USE DEF S
<1>4. Is(Projections(log), Len(log))
  BY <1>3, Zenon DEF Projections
<1>5. PICK r : r = Projections(log)
  OBVIOUS
<1>6. Is(r, Len(log)) /\ Len(log) \in Nat
  BY <1>4, <1>5 DEF Finite
<1>7. 0 \in 0 .. Len(log)
      /\ \A n \in 1 .. Len(log) : n # 0 /\ n \in 0 .. Len(log)
  BY <1>6
<1>8. \A n \in 0 .. Len(log) :
        r[n] = IF n = 0 THEN NothingProjected
               ELSE ProjectStep(log, r[n - 1], log[n])
  BY <1>6, Zenon
<1>9. r[0] = NothingProjected
  BY <1>7, <1>8
<1>10. \A n \in 1 .. Len(log) :
         r[n] = ProjectStep(log, r[n - 1], log[n])
  BY <1>7, <1>8
<1> QED BY <1>5, <1>9, <1>10

\* A view advances by one action at a time.
LEMMA AdvancesUnfold ==
  ASSUME NEW view, NEW incoming, Finite(incoming)
  PROVE  /\ Advances(view, incoming)[0] = view
         /\ \A n \in 1 .. Len(incoming) :
              Advances(view, incoming)[n] =
                AdvanceStep(Advances(view, incoming)[n - 1], incoming[n])
<1> DEFINE Is(f, N) ==
             f = [n \in 0 .. N |-> IF n = 0 THEN view
                                   ELSE AdvanceStep(f[n - 1], incoming[n])]
           S == {N \in Nat : \E f : Is(f, N)}
<1>1. 0 \in S
  <2> DEFINE g == [n \in 0 .. 0 |-> view]
  <2>1. Is(g, 0)
    OBVIOUS
  <2> QED BY <2>1
<1>2. ASSUME NEW N \in Nat, N \in S PROVE N + 1 \in S
  <2>1. PICK f : Is(f, N)
    BY <1>2
  <2> DEFINE g == [n \in 0 .. N + 1 |->
                     IF n = N + 1 THEN AdvanceStep(f[N], incoming[N + 1])
                                  ELSE f[n]]
  <2>2. ASSUME NEW n \in 0 .. N + 1
        PROVE  g[n] = IF n = 0 THEN view
                      ELSE AdvanceStep(g[n - 1], incoming[n])
    <3>1. CASE n = N + 1
      BY <3>1
    <3>2. CASE n \in 0 .. N
      <4>1. n # N + 1 /\ g[n] = f[n] /\ (n # 0 => g[n - 1] = f[n - 1])
        BY <3>2
      <4>2. f[n] = IF n = 0 THEN view
                   ELSE AdvanceStep(f[n - 1], incoming[n])
        BY <2>1, <3>2
      <4> QED BY <4>1, <4>2
    <3> QED BY <3>1, <3>2
  <2>3. Is(g, N + 1)
    BY <2>2
  <2> HIDE DEF g
  <2>4. \E f_1 : Is(f_1, N + 1)
    BY <2>3
  <2> QED BY <2>4
<1> HIDE DEF S
<1>3. Len(incoming) \in S
  BY <1>1, <1>2, Induction DEF Finite
<1> USE DEF S
<1>4. Is(Advances(view, incoming), Len(incoming))
  BY <1>3, Zenon DEF Advances
<1>5. PICK r : r = Advances(view, incoming)
  OBVIOUS
<1>6. Is(r, Len(incoming)) /\ Len(incoming) \in Nat
  BY <1>4, <1>5 DEF Finite
<1>7. 0 \in 0 .. Len(incoming)
      /\ \A n \in 1 .. Len(incoming) : n # 0 /\ n \in 0 .. Len(incoming)
  BY <1>6
<1>8. \A n \in 0 .. Len(incoming) :
        r[n] = IF n = 0 THEN view
               ELSE AdvanceStep(r[n - 1], incoming[n])
  BY <1>6, Zenon
<1>9. r[0] = view
  BY <1>7, <1>8
<1>10. \A n \in 1 .. Len(incoming) :
         r[n] = AdvanceStep(r[n - 1], incoming[n])
  BY <1>7, <1>8
<1> QED BY <1>5, <1>9, <1>10

-----------------------------------------------------------------------------
(* The types of states and actions, over the contents C that are served.   *)

ProgressType == [Skills -> [accepted : Nat, rejected : Nat, run : Nat]]

WordType ==
  [ mode : Modes, choice : Modes \cup {NoMode}, admitted : BOOLEAN,
    work : Nat, status : {"not_started", "open", "wrapped", "skipped"},
    progress : ProgressType, introduced : BOOLEAN,
    solidifyRecallCompleted : BOOLEAN, covered : BOOLEAN, recalled : BOOLEAN,
    teachingCompleted : BOOLEAN, teachingDeferred : BOOLEAN,
    missed : BOOLEAN ]

EncounterType(C) ==
  [ id : Nat, word : Words \cup {NoWord}, work : Nat,
    mode : Modes \cup {NoMode}, content : C, shape : Shapes, role : Roles,
    answer : {"none", "accepted", "rejected"}, answeredAt : Nat,
    skipped : BOOLEAN ]

StateType(C) ==
  [ phase : {"active", "finishing", "completed"},
    finishReason : {"none", "wrapped_up", "finish_immediately"},
    excluded : SUBSET C, encounters : Seq(EncounterType(C)),
    words : [Words -> WordType] ]

\* What a command puts in an action.
WellFormed(a, C) ==
  /\ a.seq \in Nat
  /\ a.kind = "presentation" =>
       /\ a.word \in Words \cup {NoWord} /\ a.content \in C
       /\ a.shape \in Shapes /\ a.role \in Roles
  /\ a.kind = "response" => a.accepted \in BOOLEAN
  /\ a.kind \in {"teaching_complete", "word_wrap", "word_skip",
                 "word_more", "mode_change"} => a.word \in Words
  /\ a.kind = "mode_change" => a.mode \in Modes
  /\ a.kind = "word_wrap" => a.reason \in {"policy", "enough"}

LEMMA EmptyTyped ==
  ASSUME NEW C PROVE EmptyState \in StateType(C)
<1>1. NoProgress \in ProgressType
  BY DEF NoProgress, ProgressType
<1>2. \A w \in Words : WordContext[w].mode \in Modes
  BY ReducerAssumption
<1>3. <<>> \in Seq(EncounterType(C))
  OBVIOUS
<1>4. EmptyState.words \in [Words -> WordType]
  BY <1>1, <1>2 DEF EmptyState, WordType
<1> QED BY <1>3, <1>4 DEF EmptyState, StateType

\* An encounter that is known is found.
LEMMA KnownFound ==
  ASSUME NEW st, NEW e, Known(st, e)
  PROVE  /\ IndexOf(st, e) \in DOMAIN st.encounters
         /\ st.encounters[IndexOf(st, e)].id = e
BY DEF Known, IndexOf

\* A sequence with one of its elements replaced by one of its type.
LEMMA ReplacedTyped ==
  ASSUME NEW T, NEW s \in Seq(T), NEW i \in DOMAIN s, NEW x \in T
  PROVE  /\ [s EXCEPT ![i] = x] \in Seq(T)
         /\ Len([s EXCEPT ![i] = x]) = Len(s)
         /\ DOMAIN s = 1 .. Len(s) /\ Len(s) \in Nat
         /\ \A j \in DOMAIN s : s[j] \in T
  OBVIOUS

LEMMA TalliedTyped ==
  ASSUME NEW word \in WordType, NEW skill \in Skills, NEW ok \in BOOLEAN
  PROVE  Tallied(word, skill, ok) \in WordType
<1>1. PICK p : p = word.progress
  OBVIOUS
<1>2. p \in ProgressType /\ p[skill] \in [accepted : Nat, rejected : Nat, run : Nat]
  BY <1>1 DEF WordType, ProgressType
<1>3. PICK r \in [accepted : Nat, rejected : Nat, run : Nat] : r = p[skill]
  BY <1>2
<1>4. Counted(r, ok) \in [accepted : Nat, rejected : Nat, run : Nat]
  <2> PICK a \in Nat, b \in Nat, c \in Nat :
         a = r.accepted + 1 /\ b = r.rejected + 1 /\ c = r.run + 1
    OBVIOUS
  <2>1. [r EXCEPT !.accepted = a, !.run = c]
          \in [accepted : Nat, rejected : Nat, run : Nat]
    OBVIOUS
  <2>2. [r EXCEPT !.rejected = b, !.run = 0]
          \in [accepted : Nat, rejected : Nat, run : Nat]
    OBVIOUS
  <2> QED BY <2>1, <2>2 DEF Counted
<1>5. [p EXCEPT ![skill] = Counted(p[skill], ok)] \in ProgressType
  BY <1>2, <1>3, <1>4 DEF ProgressType
<1>6. PICK b \in BOOLEAN : b = (word.missed \/ ~ok)
  BY DEF WordType
<1>7. Tallied(word, skill, ok) =
        [word EXCEPT !.missed = b,
                     !.progress = [p EXCEPT ![skill] = Counted(p[skill], ok)]]
  BY <1>1, <1>6 DEF Tallied
<1> QED BY <1>5, <1>7 DEF WordType

LEMMA RecalledTyped ==
  ASSUME NEW w, NEW word \in WordType
  PROVE  Recalled(w, word) \in WordType
<1>1. CASE word.mode = "unstudied" \/ ~ReadyToCover(w, word)
  BY <1>1 DEF Recalled
<1>2. CASE ~(word.mode = "unstudied" \/ ~ReadyToCover(w, word))
  <2>1. PICK b \in BOOLEAN : b = (\/ word.solidifyRecallCompleted
             \/ /\ word.mode = "solidify"
                /\ \A s \in {"recognition", "production"} :
                     word.progress[s].accepted > 0)
    BY DEF WordType
  <2>2. Recalled(w, word) = [word EXCEPT !.covered = TRUE, !.recalled = TRUE,
                               !.solidifyRecallCompleted = b]
    BY <1>2, <2>1 DEF Recalled
  <2> QED BY <2>2 DEF WordType
<1> QED BY <1>1, <1>2

LEMMA GradedTyped ==
  ASSUME NEW w, NEW word \in WordType, NEW e, e.shape \in Shapes,
         e.shape # "introduction", NEW ok \in BOOLEAN
  PROVE  Graded(w, word, e, ok) \in WordType
<1>1. SkillOf(e.shape) \in Skills
  BY DEF SkillOf, Skills, Shapes
<1>2. Recalled(w, Tallied(word, SkillOf(e.shape), ok)) \in WordType
  BY <1>1, TalliedTyped, RecalledTyped
<1>3. [word EXCEPT !.missed = @ \/ ~ok] \in WordType
  BY DEF WordType
<1> QED BY <1>2, <1>3 DEF Graded

-----------------------------------------------------------------------------
(* What an action does to a typed state.                                   *)

WordKinds ==
  {"teaching_complete", "word_wrap", "word_skip", "word_more", "mode_change"}

\* What a word has learnt, whatever was served for it.
SameLearning(new, old) ==
  /\ new.mode = old.mode /\ new.choice = old.choice
  /\ new.progress = old.progress /\ new.missed = old.missed
  /\ new.covered = old.covered /\ new.recalled = old.recalled
  /\ new.solidifyRecallCompleted = old.solidifyRecallCompleted
  /\ new.teachingCompleted = old.teachingCompleted
  /\ new.teachingDeferred = old.teachingDeferred

\* A presentation adds its encounter and admits its word.
PresentedAs(st, a, e, ws) ==
  /\ Presented(st, a) = [st EXCEPT !.words = ws, !.encounters = Append(@, e)]
  /\ e.id = a.seq /\ e.word = a.word /\ e.answer = "none" /\ e.skipped = FALSE
  /\ e.content = a.content /\ e.shape = a.shape /\ e.role = a.role
  /\ a.word # NoWord => e.work = ws[a.word].work
  /\ \A w \in Words : SameLearning(ws[w], st.words[w])
  /\ \A w \in Words : w # a.word => ws[w] = st.words[w]
  /\ a.word # NoWord =>
       LET old == st.words[a.word]  new == ws[a.word] IN
       /\ new.admitted = TRUE
       /\ new.work = (IF old.admitted THEN old.work ELSE 1)
       /\ new.status = (IF old.admitted THEN old.status ELSE "open")
       /\ new.introduced = (\/ old.introduced
                            \/ /\ a.role = "teaching"
                               /\ a.shape = "introduction"
                               /\ a.content =
                                    WordContext[a.word].introduction)

LEMMA PresentedTyped ==
  ASSUME NEW C, NEW st \in StateType(C), NEW a, WellFormed(a, C),
         a.kind = "presentation"
  PROVE  \E e \in EncounterType(C), ws \in [Words -> WordType] :
           PresentedAs(st, a, e, ws)
<1>1. /\ a.seq \in Nat /\ a.word \in Words \cup {NoWord} /\ a.content \in C
      /\ a.shape \in Shapes /\ a.role \in Roles
  BY DEF WellFormed
<1>2. CASE a.word = NoWord
  <2> DEFINE e == [ id |-> a.seq, word |-> a.word, work |-> 1,
                    mode |-> NoMode, content |-> a.content,
                    shape |-> a.shape, role |-> a.role, answer |-> "none",
                    answeredAt |-> 0, skipped |-> FALSE ]
  <2>1. e \in EncounterType(C)
    BY <1>1 DEF EncounterType
  <2>2. Presented(st, a) = [st EXCEPT !.encounters = Append(@, e)]
    BY <1>2 DEF Presented
  <2>3. [st EXCEPT !.encounters = Append(@, e)]
          = [st EXCEPT !.words = st.words, !.encounters = Append(@, e)]
    BY DEF StateType
  <2>4. st.words \in [Words -> WordType]
    BY DEF StateType
  <2>6. /\ e.id = a.seq /\ e.word = a.word /\ e.answer = "none"
        /\ e.content = a.content /\ e.shape = a.shape /\ e.role = a.role
        /\ e.skipped = FALSE
    OBVIOUS
  <2> HIDE DEF e
  <2>5. PresentedAs(st, a, e, st.words)
    BY <1>2, <2>2, <2>3, <2>6 DEF PresentedAs, SameLearning
  <2> QED BY <2>1, <2>4, <2>5
<1>3. CASE a.word # NoWord
  <2>1. a.word \in Words
    BY <1>1, <1>3
  <2>2. PICK old \in WordType : old = st.words[a.word]
    BY <2>1 DEF StateType
  <2>3. PICK intro \in BOOLEAN : intro = (old.introduced \/
             /\ a.role = "teaching" /\ a.shape = "introduction"
             /\ a.content = WordContext[a.word].introduction)
    BY <2>2 DEF WordType
  <2>4. PICK n \in Nat, s \in {"not_started", "open", "wrapped", "skipped"} :
          /\ n = IF ~old.admitted THEN 1 ELSE old.work
          /\ s = IF ~old.admitted THEN "open" ELSE old.status
    BY <2>2 DEF WordType
  <2>5. PICK word : word = [old EXCEPT !.admitted = TRUE, !.work = n,
                                       !.status = s, !.introduced = intro]
    OBVIOUS
  <2>6. /\ word \in WordType /\ word.work \in Nat /\ word.mode \in Modes
        /\ SameLearning(word, old)
    BY <2>5 DEF WordType, SameLearning
  <2>15. /\ word.admitted = TRUE /\ word.work = n /\ word.status = s
         /\ word.introduced = intro
    BY <2>5 DEF WordType
  <2> DEFINE e == [ id |-> a.seq, word |-> a.word, work |-> word.work,
                    mode |-> word.mode, content |-> a.content,
                    shape |-> a.shape, role |-> a.role, answer |-> "none",
                    answeredAt |-> 0, skipped |-> FALSE ]
             ws == [st.words EXCEPT ![a.word] = word]
  <2>7. e \in EncounterType(C)
    BY <1>1, <2>6 DEF EncounterType
  <2>8. Presented(st, a) = [st EXCEPT !.words[a.word] = word,
                                      !.encounters = Append(@, e)]
    BY <1>3, <2>2, <2>3, <2>4, <2>5, Zenon DEF Presented
  <2>9. [st EXCEPT !.words[a.word] = word, !.encounters = Append(@, e)]
          = [st EXCEPT !.words = ws, !.encounters = Append(@, e)]
    BY DEF StateType
  <2>10. ws \in [Words -> WordType]
    BY <2>1, <2>6 DEF StateType
  <2>11. /\ \A w \in Words : SameLearning(ws[w], st.words[w])
         /\ \A w \in Words : w # a.word => ws[w] = st.words[w]
    BY <2>1, <2>2, <2>6 DEF StateType, SameLearning
  <2>16. ws[a.word] = word
    BY <2>1 DEF StateType
  <2>12. Presented(st, a) = [st EXCEPT !.words = ws,
                                       !.encounters = Append(@, e)]
    BY <2>8, <2>9
  <2>13. /\ e.id = a.seq /\ e.word = a.word /\ e.answer = "none"
         /\ e.content = a.content /\ e.shape = a.shape /\ e.role = a.role
         /\ e.work = word.work /\ e.skipped = FALSE
    OBVIOUS
  <2> HIDE DEF ws, e
  <2>14. PresentedAs(st, a, e, ws)
    <3>1. word.work = (IF old.admitted THEN old.work ELSE 1)
          /\ word.status = (IF old.admitted THEN old.status ELSE "open")
      BY <2>4, <2>15
    <3>2. word.introduced = (\/ old.introduced
                             \/ /\ a.role = "teaching"
                                /\ a.shape = "introduction"
                                /\ a.content =
                                     WordContext[a.word].introduction)
      BY <2>3, <2>15
    <3> QED BY <1>3, <2>2, <2>11, <2>12, <2>13, <2>15, <2>16, <3>1, <3>2
            DEF PresentedAs
  <2> QED BY <2>7, <2>10, <2>14
<1> QED BY <1>2, <1>3

\* A response marks its encounter, and its word is graded.
AnsweredAs(st, i, a, m, ws) ==
  LET e == st.encounters[i] IN
  /\ Answered(st, i, a) =
       [st EXCEPT !.words = ws, !.encounters = [@ EXCEPT ![i] = m]]
  /\ m = [e EXCEPT !.answer = IF a.accepted THEN "accepted" ELSE "rejected",
                   !.answeredAt = a.seq]
  /\ e.word = NoWord => ws = st.words
  /\ e.word # NoWord =>
       ws = [st.words EXCEPT ![e.word] = Graded(e.word, @, e, a.accepted)]

LEMMA AnsweredTyped ==
  ASSUME NEW C, NEW st \in StateType(C), NEW a, WellFormed(a, C),
         a.kind = "response", NEW replaying, Allowed(st, a, replaying),
         NEW i, i = IndexOf(st, a.encounter)
  PROVE  /\ i \in DOMAIN st.encounters /\ st.encounters[i].id = a.encounter
         /\ st.encounters[i] \in EncounterType(C)
         /\ st.encounters[i].shape # "introduction"
         /\ st.encounters[i].answer = "none"
         /\ \E m \in EncounterType(C), ws \in [Words -> WordType] :
              AnsweredAs(st, i, a, m, ws)
<1>1. /\ Known(st, a.encounter)
      /\ Encounter(st, a.encounter).shape # "introduction"
      /\ Encounter(st, a.encounter).answer = "none"
  BY DEF Allowed
<1>2. i \in DOMAIN st.encounters /\ st.encounters[i].id = a.encounter
  BY <1>1, KnownFound
<1>3. PICK e : e = st.encounters[i]
  OBVIOUS
<1>4. e.shape # "introduction" /\ e.answer = "none"
  BY <1>1, <1>3 DEF Encounter
<1>5. PICK encs \in Seq(EncounterType(C)) : encs = st.encounters
  BY DEF StateType
<1>6. e \in EncounterType(C)
  BY <1>2, <1>3, <1>5, ReplacedTyped
<1>7. a.accepted \in BOOLEAN /\ a.seq \in Nat
  BY DEF WellFormed
<1>8. PICK v \in {"accepted", "rejected"} :
        v = IF a.accepted THEN "accepted" ELSE "rejected"
  BY <1>7
<1> DEFINE m == [e EXCEPT !.answer = v, !.answeredAt = a.seq]
<1>9. m \in EncounterType(C)
  BY <1>6, <1>7, <1>8 DEF EncounterType
<1>10. Marked(st, i, a) = [st EXCEPT !.encounters[i].answer = v,
                                     !.encounters[i].answeredAt = a.seq]
  BY <1>8 DEF Marked
<1>11. PICK words \in [Words -> WordType] : words = st.words
  BY DEF StateType
<1>12. Marked(st, i, a) = [st EXCEPT !.words = words,
                             !.encounters = [encs EXCEPT ![i] = m]]
  <2>1. [st EXCEPT !.encounters[i].answer = v,
                   !.encounters[i].answeredAt = a.seq]
          = [st EXCEPT !.encounters =
               [[encs EXCEPT ![i].answer = v] EXCEPT ![i].answeredAt = a.seq]]
    BY <1>5 DEF StateType
  <2>2. [[encs EXCEPT ![i].answer = v] EXCEPT ![i].answeredAt = a.seq]
          = [encs EXCEPT ![i] = m]
    <3>1. [encs EXCEPT ![i].answer = v] = [encs EXCEPT ![i] = [e EXCEPT !.answer = v]]
      BY <1>3, <1>5
    <3>2. PICK d : d = [e EXCEPT !.answer = v]
      OBVIOUS
    <3>3. [[encs EXCEPT ![i] = d] EXCEPT ![i].answeredAt = a.seq]
            = [encs EXCEPT ![i] = [d EXCEPT !.answeredAt = a.seq]]
      BY <1>2, <1>5
    <3>4. [d EXCEPT !.answeredAt = a.seq] = m
      BY <3>2
    <3> QED BY <3>1, <3>2, <3>3, <3>4
  <2>3. [st EXCEPT !.encounters = [encs EXCEPT ![i] = m]]
          = [st EXCEPT !.words = words, !.encounters = [encs EXCEPT ![i] = m]]
    BY <1>11 DEF StateType
  <2> QED BY <1>10, <2>1, <2>2, <2>3
<1>13. e.word \in Words \cup {NoWord} /\ e.shape \in Shapes
  BY <1>6 DEF EncounterType
<1> HIDE DEF m
<1>14. PICK n : n = m
  OBVIOUS
<1>15. CASE e.word = NoWord
  <2>1. Answered(st, i, a) = Marked(st, i, a)
    BY <1>3, <1>15 DEF Answered
  <2>2. Answered(st, i, a) = [st EXCEPT !.words = words,
                             !.encounters = [@ EXCEPT ![i] = m]]
    BY <2>1, <1>5, <1>12
  <2>3. AnsweredAs(st, i, a, m, words)
    BY <1>3, <1>8, <1>11, <1>15, <2>2 DEF m, AnsweredAs
  <2> QED BY <1>2, <1>3, <1>4, <1>6, <1>9, <2>3
<1>16. CASE e.word # NoWord
  <2>1. e.word \in Words
    BY <1>13, <1>16
  <2>2. PICK g : g = Graded(e.word, words[e.word], e, a.accepted)
    OBVIOUS
  <2>3. g \in WordType
    BY <2>1, <2>2, <1>4, <1>7, <1>13, <1>11, GradedTyped
  <2>4. PICK ws \in [Words -> WordType] : ws = [words EXCEPT ![e.word] = g]
    BY <2>3
  <2>5. PICK k : k = Marked(st, i, a)
    OBVIOUS
  <2>6. Answered(st, i, a) =
          [k EXCEPT !.words[e.word] = Graded(e.word, @, e, a.accepted)]
    BY <1>3, <1>16, <2>5 DEF Answered
  <2>7. k.words = words /\ k = [st EXCEPT !.words = words,
                             !.encounters = [encs EXCEPT ![i] = m]]
    BY <1>12, <2>5 DEF StateType
  <2>8. [k EXCEPT !.words[e.word] = Graded(e.word, @, e, a.accepted)]
          = [k EXCEPT !.words = ws]
    BY <2>2, <2>4, <2>7
  <2>9. [k EXCEPT !.words = ws] = [st EXCEPT !.words = ws,
                                  !.encounters = [encs EXCEPT ![i] = m]]
    BY <2>7 DEF StateType
  <2>10. Answered(st, i, a) = [st EXCEPT !.words = ws,
                                  !.encounters = [@ EXCEPT ![i] = m]]
    BY <2>6, <2>8, <2>9, <1>5
  <2>11. ws = [st.words EXCEPT ![e.word] = Graded(e.word, @, e, a.accepted)]
    BY <2>2, <2>4, <1>11
  <2>12. AnsweredAs(st, i, a, m, ws)
    BY <1>3, <1>8, <1>16, <2>10, <2>11 DEF m, AnsweredAs
  <2> QED BY <1>2, <1>3, <1>4, <1>6, <1>9, <2>12
<1> QED BY <1>15, <1>16

\* A skipped exercise is marked.
SkippedAs(st, i, a, m) ==
  /\ i = IndexOf(st, a.encounter)
  /\ m = [st.encounters[i] EXCEPT !.skipped = TRUE]
  /\ Effect(st, a) = [st EXCEPT !.encounters = [@ EXCEPT ![i] = m]]

LEMMA SkippedTyped ==
  ASSUME NEW C, NEW st \in StateType(C), NEW a, a.kind = "exercise_skip",
         NEW replaying, Allowed(st, a, replaying)
  PROVE  \E i \in DOMAIN st.encounters, m \in EncounterType(C) :
           /\ st.encounters[i] \in EncounterType(C)
           /\ SkippedAs(st, i, a, m)
<1> DEFINE i == IndexOf(st, a.encounter)
           m == [st.encounters[i] EXCEPT !.skipped = TRUE]
<1>1. Known(st, a.encounter)
  BY DEF Allowed
<1>2. i \in DOMAIN st.encounters
  BY <1>1, KnownFound
<1> HIDE DEF i
<1>3. PICK encs \in Seq(EncounterType(C)) : encs = st.encounters
  BY DEF StateType
<1>4. encs[i] \in EncounterType(C)
  BY <1>2, <1>3, ReplacedTyped
<1>5. m \in EncounterType(C)
  BY <1>3, <1>4 DEF EncounterType
<1>6. Effect(st, a) = [st EXCEPT !.encounters[i].skipped = TRUE]
  BY DEF Effect, i
<1>7. [st EXCEPT !.encounters[i].skipped = TRUE]
        = [st EXCEPT !.encounters = [@ EXCEPT ![i] = m]]
  BY <1>2, <1>3 DEF StateType
<1>8. Effect(st, a) = [st EXCEPT !.encounters = [@ EXCEPT ![i] = m]]
  BY <1>6, <1>7
<1>9. SkippedAs(st, i, a, m)
  BY <1>8 DEF SkippedAs, i
<1> QED BY <1>2, <1>3, <1>4, <1>5, <1>9

LEMMA ModeChangedTyped ==
  ASSUME NEW word \in WordType, NEW mode \in Modes
  PROVE  ModeChanged(word, mode) \in WordType
<1>1. PICK d \in BOOLEAN,
           s \in {"not_started", "open", "wrapped", "skipped"} :
        /\ d = IF mode = "unstudied" /\ word.mode # "unstudied" THEN TRUE
               ELSE IF mode # "unstudied" THEN FALSE ELSE word.teachingDeferred
        /\ s = IF /\ mode = "unstudied" /\ word.mode # "unstudied"
                  /\ word.status = "open" THEN "skipped" ELSE word.status
  BY DEF WordType
<1>2. ModeChanged(word, mode) =
        [word EXCEPT !.teachingDeferred = d, !.status = s, !.mode = mode,
                     !.choice = mode]
  BY <1>1 DEF ModeChanged
<1> QED BY <1>2 DEF WordType

\* What the actions on a word leave of it.
WordEffect(a, word) ==
  CASE a.kind = "teaching_complete" ->
         [word EXCEPT !.teachingCompleted = TRUE, !.covered = TRUE,
                      !.recalled = TRUE, !.mode = "solidify",
                      !.status = "wrapped"]
    [] a.kind = "word_wrap" ->
         [word EXCEPT !.covered = TRUE, !.status = "wrapped"]
    [] a.kind = "word_skip" -> [word EXCEPT !.status = "skipped"]
    [] a.kind = "word_more" ->
         Further(word)
    [] a.kind = "mode_change" -> ModeChanged(word, a.mode)

LEMMA WordEffectTyped ==
  ASSUME NEW C, NEW st \in StateType(C), NEW a, WellFormed(a, C),
         a.kind \in WordKinds
  PROVE  /\ a.word \in Words
         /\ st.words[a.word] \in WordType
         /\ WordEffect(a, st.words[a.word]) \in WordType
         /\ Effect(st, a) =
              [st EXCEPT !.words[a.word] = WordEffect(a, st.words[a.word])]
<1>1. a.word \in Words /\ (a.kind = "mode_change" => a.mode \in Modes)
  BY DEF WellFormed, WordKinds
<1>2. PICK word \in WordType : word = st.words[a.word]
  BY <1>1 DEF StateType
<1>3. WordEffect(a, word) \in WordType
      /\ Effect(st, a) = [st EXCEPT !.words[a.word] = WordEffect(a, word)]
  <2>1. CASE a.kind = "teaching_complete"
    <3>1. "solidify" \in Modes
      BY DEF Modes
    <3>2. WordEffect(a, word) \in WordType
      BY <2>1, <3>1 DEF WordEffect, WordType
    <3>3. WordEffect(a, word) =
            [word EXCEPT !.teachingCompleted = TRUE, !.covered = TRUE,
                         !.recalled = TRUE, !.mode = "solidify",
                         !.status = "wrapped"]
      BY <2>1 DEF WordEffect
    <3>4. Effect(st, a) = [st EXCEPT !.words[a.word] =
            [@ EXCEPT !.teachingCompleted = TRUE, !.covered = TRUE,
                      !.recalled = TRUE, !.mode = "solidify",
                      !.status = "wrapped"]]
      BY <2>1 DEF Effect
    <3> QED BY <1>2, <3>2, <3>3, <3>4
  <2>2. CASE a.kind = "word_wrap"
    <3>1. WordEffect(a, word) \in WordType
      BY <2>2 DEF WordEffect, WordType
    <3>2. WordEffect(a, word) =
            [word EXCEPT !.covered = TRUE, !.status = "wrapped"]
      BY <2>2 DEF WordEffect
    <3>3. Effect(st, a) = [st EXCEPT !.words[a.word] =
            [@ EXCEPT !.covered = TRUE, !.status = "wrapped"]]
      BY <2>2 DEF Effect
    <3> QED BY <1>2, <3>1, <3>2, <3>3
  <2>3. CASE a.kind = "word_skip"
    <3>1. WordEffect(a, word) \in WordType
      BY <2>3 DEF WordEffect, WordType
    <3>2. WordEffect(a, word) = [word EXCEPT !.status = "skipped"]
      BY <2>3 DEF WordEffect
    <3>3. Effect(st, a) = [st EXCEPT !.words[a.word].status = "skipped"]
      BY <2>3 DEF Effect
    <3> QED BY <1>2, <3>1, <3>2, <3>3
  <2>4. CASE a.kind = "word_more"
    <3>1. NoProgress \in ProgressType
      BY DEF NoProgress, ProgressType
    <3>2. PICK n \in Nat : n = word.work + 1
      BY DEF WordType
    <3>3. Further(word) = [word EXCEPT !.work = n, !.status = "open",
                             !.progress = NoProgress, !.introduced = FALSE]
      BY <3>2 DEF Further
    <3>4. Further(word) \in WordType
      BY <3>1, <3>3 DEF WordType
    <3>5. WordEffect(a, word) = Further(word)
      BY <2>4 DEF WordEffect
    <3>6. Effect(st, a) = [st EXCEPT !.words[a.word] = Further(@)]
      BY <2>4 DEF Effect
    <3> QED BY <1>2, <3>4, <3>5, <3>6
  <2>5. CASE a.kind = "mode_change"
    <3>1. WordEffect(a, word) = ModeChanged(word, a.mode)
      BY <2>5 DEF WordEffect
    <3>2. WordEffect(a, word) \in WordType
      BY <2>5, <1>1, <3>1, ModeChangedTyped
    <3>3. Effect(st, a) = [st EXCEPT !.words[a.word] = ModeChanged(@, a.mode)]
      BY <2>5 DEF Effect
    <3> QED BY <1>2, <3>1, <3>2, <3>3
  <2> QED BY <2>1, <2>2, <2>3, <2>4, <2>5 DEF WordKinds
<1> QED BY <1>1, <1>2, <1>3

OtherKinds ==
  {"feedback", "exercise_exclude", "resume", "finish_for_now",
   "finish_immediately"}

\* Every accepted action is of a kind the reducer knows.
LEMMA AllowedKinds ==
  ASSUME NEW st, NEW a, NEW replaying, Allowed(st, a, replaying)
  PROVE  \/ a.kind \in {"presentation", "response", "exercise_skip"}
         \/ a.kind \in WordKinds
         \/ a.kind \in OtherKinds
BY DEF Allowed, WordKinds, OtherKinds

\* The other actions touch neither words nor encounters.
LEMMA OtherTyped ==
  ASSUME NEW C, NEW st \in StateType(C), NEW a, a.kind \in OtherKinds,
         NEW replaying, Allowed(st, a, replaying)
  PROVE  /\ Effect(st, a) \in StateType(C)
         /\ Effect(st, a).words = st.words
         /\ Effect(st, a).encounters = st.encounters
         /\ a.kind # "exercise_exclude" =>
              Effect(st, a).excluded = st.excluded
<1>1. CASE a.kind = "feedback"
  <2>1. Effect(st, a) = st
    BY <1>1 DEF Effect
  <2> QED BY <2>1
<1>2. CASE a.kind = "exercise_exclude"
  <2>1. Known(st, a.encounter)
    BY <1>2 DEF Allowed
  <2>2. st.encounters \in Seq(EncounterType(C))
    BY DEF StateType
  <2>3. Encounter(st, a.encounter) \in EncounterType(C)
    BY <2>1, <2>2, KnownFound, ReplacedTyped DEF Encounter
  <2>4. PICK x \in C : x = Encounter(st, a.encounter).content
    BY <2>3 DEF EncounterType
  <2>5. Effect(st, a) = [st EXCEPT !.excluded = @ \cup {x}]
    BY <1>2, <2>4 DEF Effect
  <2> QED BY <1>2, <2>5 DEF StateType
<1>3. CASE a.kind = "resume"
  <2>1. Effect(st, a) = [st EXCEPT !.phase = "active", !.finishReason = "none"]
    BY <1>3 DEF Effect
  <2> QED BY <2>1 DEF StateType
<1>4. CASE a.kind = "finish_for_now"
  <2>1. Effect(st, a) = [st EXCEPT !.phase = "finishing"]
    BY <1>4 DEF Effect
  <2> QED BY <2>1 DEF StateType
<1>5. CASE a.kind = "finish_immediately"
  <2>1. Effect(st, a) = [st EXCEPT !.phase = "completed",
                                   !.finishReason = "finish_immediately"]
    BY <1>5 DEF Effect
  <2> QED BY <2>1 DEF StateType
<1> QED BY <1>1, <1>2, <1>3, <1>4, <1>5 DEF OtherKinds

\* What stays of an encounter once it is presented.
Same(e, d) ==
  /\ e.id = d.id /\ e.word = d.word /\ e.work = d.work /\ e.mode = d.mode
  /\ e.content = d.content /\ e.shape = d.shape /\ e.role = d.role

\* Encounters are added by presentations, one each, and never removed.
LEMMA EffectTyped ==
  ASSUME NEW C, NEW st \in StateType(C), NEW a, WellFormed(a, C),
         NEW replaying, Allowed(st, a, replaying)
  PROVE  /\ Effect(st, a) \in StateType(C)
         /\ a.kind = "presentation" =>
              \E e \in EncounterType(C) :
                /\ Effect(st, a).encounters = Append(st.encounters, e)
                /\ e.id = a.seq
         /\ a.kind # "presentation" =>
              /\ Len(Effect(st, a).encounters) = Len(st.encounters)
              /\ \A i \in 1 .. Len(st.encounters) :
                   Same(Effect(st, a).encounters[i], st.encounters[i])
<1>1. PICK encs \in Seq(EncounterType(C)) : encs = st.encounters
  BY DEF StateType
<1>2. CASE a.kind = "presentation"
  <2>1. Effect(st, a) = Presented(st, a)
    BY <1>2 DEF Effect
  <2>2. PICK e \in EncounterType(C), ws \in [Words -> WordType] :
          PresentedAs(st, a, e, ws)
    BY <1>2, PresentedTyped
  <2>3. Append(encs, e) \in Seq(EncounterType(C))
    OBVIOUS
  <2>7. Effect(st, a) = [st EXCEPT !.words = ws, !.encounters = Append(@, e)]
    BY <2>1, <2>2 DEF PresentedAs
  <2>4. Effect(st, a).encounters = Append(st.encounters, e)
    BY <2>7 DEF StateType
  <2>5. Effect(st, a) \in StateType(C)
    BY <2>7, <2>3, <1>1 DEF StateType
  <2>6. e.id = a.seq
    BY <2>2 DEF PresentedAs
  <2> QED BY <1>2, <2>4, <2>5, <2>6
<1>3. CASE a.kind = "response"
  <2>1. PICK i : i = IndexOf(st, a.encounter)
    OBVIOUS
  <2>2. Effect(st, a) = Answered(st, i, a)
    BY <1>3, <2>1 DEF Effect
  <2>10. /\ i \in DOMAIN st.encounters
         /\ st.encounters[i] \in EncounterType(C)
         /\ \E m \in EncounterType(C), ws \in [Words -> WordType] :
              AnsweredAs(st, i, a, m, ws)
    BY <1>3, <2>1, AnsweredTyped
  <2>11. PICK m \in EncounterType(C), ws \in [Words -> WordType] :
           AnsweredAs(st, i, a, m, ws)
    BY <2>10
  <2>3. /\ i \in DOMAIN st.encounters
        /\ st.encounters[i] \in EncounterType(C)
        /\ Answered(st, i, a) =
             [st EXCEPT !.words = ws, !.encounters = [@ EXCEPT ![i] = m]]
        /\ m = [st.encounters[i] EXCEPT
                  !.answer = IF a.accepted THEN "accepted" ELSE "rejected",
                  !.answeredAt = a.seq]
    BY <2>10, <2>11 DEF AnsweredAs
  <2>4. Same(m, encs[i])
    BY <1>1, <2>3 DEF Same, EncounterType
  <2>5. Effect(st, a).encounters = [encs EXCEPT ![i] = m]
        /\ Effect(st, a).words = ws
    BY <1>1, <2>2, <2>3 DEF StateType
  <2>6. [encs EXCEPT ![i] = m] \in Seq(EncounterType(C))
        /\ Len([encs EXCEPT ![i] = m]) = Len(encs)
    BY <1>1, <2>3, ReplacedTyped
  <2>7. \A j \in 1 .. Len(encs) : Same([encs EXCEPT ![i] = m][j], encs[j])
    BY <2>4, <1>1, <2>3 DEF Same
  <2>8. Effect(st, a) \in StateType(C)
    BY <2>2, <2>3, <2>5, <2>6 DEF StateType
  <2> QED BY <1>1, <1>3, <2>5, <2>6, <2>7, <2>8
<1>4. CASE a.kind = "exercise_skip"
  <2>7. PICK i \in DOMAIN st.encounters, m \in EncounterType(C) :
          /\ st.encounters[i] \in EncounterType(C)
          /\ SkippedAs(st, i, a, m)
    BY <1>4, SkippedTyped
  <2>1. /\ m = [st.encounters[i] EXCEPT !.skipped = TRUE]
        /\ Effect(st, a) = [st EXCEPT !.encounters = [@ EXCEPT ![i] = m]]
    BY <2>7 DEF SkippedAs
  <2>2. Same(m, encs[i])
    BY <1>1, <2>1, <2>7 DEF Same, EncounterType
  <2>3. Effect(st, a).encounters = [encs EXCEPT ![i] = m]
    BY <1>1, <2>1, <2>7 DEF StateType
  <2>4. [encs EXCEPT ![i] = m] \in Seq(EncounterType(C))
        /\ Len([encs EXCEPT ![i] = m]) = Len(encs)
    BY <1>1, <2>1, <2>7, ReplacedTyped
  <2>5. \A j \in 1 .. Len(encs) : Same([encs EXCEPT ![i] = m][j], encs[j])
    BY <2>2, <1>1, <2>1, <2>7 DEF Same
  <2>6. Effect(st, a) \in StateType(C)
    BY <2>1, <2>3, <2>4 DEF StateType
  <2> QED BY <1>1, <1>4, <2>3, <2>4, <2>5, <2>6
<1>5. CASE a.kind \in WordKinds
  <2>1. PICK x \in WordType : /\ a.word \in Words
          /\ Effect(st, a) = [st EXCEPT !.words[a.word] = x]
    BY <1>5, WordEffectTyped
  <2>2. Effect(st, a) \in StateType(C) /\ Effect(st, a).encounters = encs
    BY <1>1, <2>1 DEF StateType
  <2>3. a.kind # "presentation"
    BY <1>5 DEF WordKinds
  <2> QED BY <1>1, <2>2, <2>3 DEF Same
<1>6. CASE a.kind \in OtherKinds
  <2>1. Effect(st, a) \in StateType(C) /\ Effect(st, a).encounters = encs
    BY <1>1, <1>6, OtherTyped
  <2>2. a.kind # "presentation"
    BY <1>6 DEF OtherKinds
  <2> QED BY <1>1, <2>1, <2>2 DEF Same
<1> QED BY <1>2, <1>3, <1>4, <1>5, <1>6, AllowedKinds

LEMMA SettleTyped ==
  ASSUME NEW C, NEW st \in StateType(C)
  PROVE  /\ Settle(st) \in StateType(C)
         /\ Settle(st).words = st.words
         /\ Settle(st).encounters = st.encounters
         /\ Settle(st).excluded = st.excluded
BY DEF Settle, StateType

\* A step that is accepted settles the effect of its action.
LEMMA StepAccepted ==
  ASSUME NEW run, run.ok \in BOOLEAN, run = [ok |-> run.ok, st |-> run.st],
         NEW a, NEW replaying
  PROVE  /\ Step(run, a, replaying).ok \in BOOLEAN
         /\ Step(run, a, replaying) = [ok |-> Step(run, a, replaying).ok,
                                       st |-> Step(run, a, replaying).st]
         /\ Step(run, a, replaying).ok =>
              /\ run.ok /\ Allowed(run.st, a, replaying)
              /\ Step(run, a, replaying).st = Settle(Effect(run.st, a))
<1>1. CASE run.ok /\ Allowed(run.st, a, replaying)
  <2>1. Step(run, a, replaying)
          = [ok |-> TRUE, st |-> Settle(Effect(run.st, a))]
    BY <1>1 DEF Step, Settled
  <2> QED BY <1>1, <2>1
<1>2. CASE ~(run.ok /\ Allowed(run.st, a, replaying))
  <2>1. Step(run, a, replaying) = [run EXCEPT !.ok = FALSE]
    BY <1>2 DEF Step
  <2>2. PICK b, s : b \in BOOLEAN /\ run = [ok |-> b, st |-> s]
    OBVIOUS
  <2>3. Step(run, a, replaying) = [ok |-> FALSE, st |-> s]
    BY <2>1, <2>2
  <2> QED BY <2>3
<1> QED BY <1>1, <1>2

-----------------------------------------------------------------------------
(* Logs, runs and projections.                                             *)

\* An acknowledged log: its actions are numbered and well formed.
LogOf(log, C) ==
  /\ \E S : log \in Seq(S)
  /\ \A i \in 1 .. Len(log) : log[i].seq = i /\ WellFormed(log[i], C)

LEMMA LogFinite ==
  ASSUME NEW C, NEW log, LogOf(log, C)
  PROVE  Finite(log) /\ Len(log) \in Nat /\ DOMAIN log = 1 .. Len(log)
BY DEF LogOf, Finite

\* A prefix of a log is a log.
LEMMA PrefixOfLog ==
  ASSUME NEW C, NEW log, LogOf(log, C), NEW n \in 0 .. Len(log)
  PROVE  /\ LogOf(SubSeq(log, 1, n), C)
         /\ Len(SubSeq(log, 1, n)) = n
         /\ \A i \in 1 .. n : SubSeq(log, 1, n)[i] = log[i]
<1>1. PICK S : log \in Seq(S)
  BY DEF LogOf
<1>2. Len(log) \in Nat /\ \A i \in 1 .. n : i \in 1 .. Len(log)
  BY <1>1
<1>3. SubSeq(log, 1, n) \in Seq(S)
  BY <1>1, <1>2, SubSeqProperties
<1>4. Len(SubSeq(log, 1, n)) = n /\ \A i \in 1 .. n : SubSeq(log, 1, n)[i] = log[i]
  BY <1>1, <1>2, SubSeqProperties
<1> QED BY <1>2, <1>3, <1>4 DEF LogOf

IdsUpTo(encs, n) == \A j \in 1 .. Len(encs) : encs[j].id \in 1 .. n

RunType(run, C, n) ==
  /\ run.ok \in BOOLEAN
  /\ run = [ok |-> run.ok, st |-> run.st]
  /\ run.ok => run.st \in StateType(C) /\ IdsUpTo(run.st.encounters, n)

\* A step keeps a run typed; a presentation is observed last.
LEMMA StepTyped ==
  ASSUME NEW C, NEW n \in Nat, NEW run, RunType(run, C, n),
         NEW a, WellFormed(a, C), a.seq = n + 1, NEW replaying
  PROVE  /\ RunType(Step(run, a, replaying), C, n + 1)
         /\ (Step(run, a, replaying).ok /\ a.kind = "presentation") =>
              /\ Observed(Step(run, a, replaying).st) \in EncounterType(C)
              /\ Observed(Step(run, a, replaying).st).id = n + 1
<1> DEFINE s == Step(run, a, replaying)
<1>1. /\ s.ok \in BOOLEAN /\ s = [ok |-> s.ok, st |-> s.st]
      /\ s.ok => /\ run.ok /\ Allowed(run.st, a, replaying)
                 /\ s.st = Settle(Effect(run.st, a))
  BY StepAccepted DEF RunType
<1> HIDE DEF s
<1>2. SUFFICES ASSUME s.ok
               PROVE  /\ s.st \in StateType(C)
                      /\ IdsUpTo(s.st.encounters, n + 1)
                      /\ a.kind = "presentation" =>
                           /\ Observed(s.st) \in EncounterType(C)
                           /\ Observed(s.st).id = n + 1
  BY <1>1 DEF RunType, s
<1>3. run.st \in StateType(C) /\ IdsUpTo(run.st.encounters, n)
  BY <1>1, <1>2 DEF RunType
<1>4. Allowed(run.st, a, replaying)
  BY <1>1, <1>2
<1>5. PICK e : e = Effect(run.st, a)
  OBVIOUS
<1>6. /\ e \in StateType(C)
      /\ a.kind = "presentation" =>
           \E x \in EncounterType(C) :
             e.encounters = Append(run.st.encounters, x) /\ x.id = a.seq
      /\ a.kind # "presentation" =>
           /\ Len(e.encounters) = Len(run.st.encounters)
           /\ \A i \in 1 .. Len(run.st.encounters) :
                Same(e.encounters[i], run.st.encounters[i])
  BY <1>3, <1>4, <1>5, EffectTyped
<1>7. s.st \in StateType(C) /\ s.st.encounters = e.encounters
  BY <1>1, <1>2, <1>5, <1>6, SettleTyped
<1>8. PICK encs \in Seq(EncounterType(C)) : encs = run.st.encounters
  BY <1>3 DEF StateType
<1>9. CASE a.kind = "presentation"
  <2>1. PICK x \in EncounterType(C) : e.encounters = Append(encs, x) /\ x.id = n + 1
    BY <1>6, <1>8, <1>9
  <2>2. /\ Len(Append(encs, x)) = Len(encs) + 1 /\ Len(encs) \in Nat
        /\ Append(encs, x)[Len(encs) + 1] = x
        /\ \A j \in 1 .. Len(encs) : Append(encs, x)[j] = encs[j]
    OBVIOUS
  <2>3. Observed(s.st) = x
    BY <1>7, <2>1, <2>2 DEF Observed
  <2>4. IdsUpTo(s.st.encounters, n + 1)
    <3>1. ASSUME NEW j \in 1 .. Len(encs) + 1
          PROVE  Append(encs, x)[j].id \in 1 .. n + 1
      <4>1. CASE j = Len(encs) + 1
        BY <2>1, <2>2, <4>1
      <4>2. CASE j \in 1 .. Len(encs)
        <5>1. encs[j].id \in 1 .. n
          BY <1>3, <1>8, <4>2 DEF IdsUpTo
        <5> QED BY <2>2, <4>2, <5>1
      <4> QED BY <2>2, <4>1, <4>2
    <3> QED BY <1>7, <2>1, <2>2, <3>1 DEF IdsUpTo
  <2> QED BY <1>7, <2>1, <2>3, <2>4
<1>10. CASE a.kind # "presentation"
  <2>1. ASSUME NEW j \in 1 .. Len(e.encounters)
        PROVE  e.encounters[j].id \in 1 .. n + 1
    <3>1. e.encounters[j].id = encs[j].id /\ j \in 1 .. Len(encs)
      BY <1>6, <1>8, <1>10, <2>1 DEF Same
    <3>2. encs[j].id \in 1 .. n
      BY <1>3, <1>8, <3>1 DEF IdsUpTo
    <3> QED BY <3>1, <3>2
  <2> QED BY <1>7, <1>10, <2>1 DEF IdsUpTo
<1> QED BY <1>9, <1>10

LEMMA EmptyRun ==
  ASSUME NEW C
  PROVE  RunType([ok |-> TRUE, st |-> EmptyState], C, 0)
<1>1. EmptyState.encounters = <<>>
  BY DEF EmptyState
<1> QED BY <1>1, EmptyTyped DEF RunType, IdsUpTo

\* A replay is typed at every prefix.
LEMMA ReplayTyped ==
  ASSUME NEW C, NEW log, LogOf(log, C), NEW undone
  PROVE  \A n \in 0 .. Len(log) : RunType(Reruns(log, undone)[n], C, n)
<1> DEFINE r == Reruns(log, undone)
           S == {n \in Nat : RunType(r[n], C, n)}
<1>1. /\ r[0] = [ok |-> TRUE, st |-> EmptyState]
      /\ \A n \in 1 .. Len(log) : r[n] = Rerun(r[n - 1], log[n], undone)
  BY LogFinite, RerunsUnfold
<1> HIDE DEF r
<1>2. 0 \in S
  BY <1>1, EmptyRun
<1>3. ASSUME NEW n \in 0 .. Len(log) - 1, n \in S PROVE n + 1 \in S
  <2>1. n \in Nat /\ n + 1 \in 1 .. Len(log) /\ (n + 1) - 1 = n
    BY LogFinite
  <2>2. r[n + 1] = Rerun(r[n], log[n + 1], undone)
    BY <1>1, <2>1
  <2>3. log[n + 1].seq = n + 1 /\ WellFormed(log[n + 1], C)
    BY <2>1 DEF LogOf
  <2>4. RunType(r[n], C, n)
    BY <1>3
  <2>5. RunType(Step(r[n], log[n + 1], TRUE), C, n + 1)
    BY <2>1, <2>3, <2>4, StepTyped
  <2>6. RunType(r[n], C, n + 1)
    BY <2>1, <2>4 DEF RunType, IdsUpTo
  <2>7. RunType(r[n + 1], C, n + 1)
    BY <2>2, <2>5, <2>6 DEF Rerun
  <2> QED BY <2>1, <2>7
<1> HIDE DEF S
<1>4. \A n \in 0 .. Len(log) : n \in S
  BY <1>2, <1>3, LogFinite, InductionUpTo
<1> QED BY <1>4 DEF S, r

ProjectionType(p, C, n) ==
  /\ p.ok \in BOOLEAN
  /\ p = [ok |-> p.ok, st |-> p.st, latest |-> p.latest,
          undone |-> p.undone, observed |-> p.observed]
  /\ p.ok =>
       /\ p.st \in StateType(C) /\ IdsUpTo(p.st.encounters, n)
       /\ p.observed \in Seq(EncounterType(C)) /\ IdsUpTo(p.observed, n)
       /\ p.undone \subseteq 1 .. n

\* How an accepted action extends a projection ...
Extends(p, a, q) ==
  LET run == Step([ok |-> TRUE, st |-> p.st], a, FALSE) IN
  /\ run.ok
  /\ q.st = run.st /\ q.undone = p.undone
  /\ q.latest = LatestAfter(p.latest, a)
  /\ q.observed = IF a.kind = "presentation"
                  THEN Append(p.observed, Observed(run.st)) ELSE p.observed

\* ... and how an Undo withdraws a transition from it.
Withdraws(log, n, p, q) ==
  LET prefix == SubSeq(log, 1, n)
      run    == Replay(prefix, q.undone)
  IN  /\ run.ok
      /\ q.undone = p.undone \cup UndoTargets(prefix, log[n + 1].target)
      /\ q.st = run.st /\ q.latest = 0 /\ q.observed = p.observed

\* A projection that is still accepted was, and took one of the two steps.
LEMMA ProjectStepCases ==
  ASSUME NEW C, NEW log, LogOf(log, C), NEW n \in 0 .. Len(log) - 1,
         NEW p, ProjectionType(p, C, n), NEW q,
         q = ProjectStep(log, p, log[n + 1])
  PROVE  /\ q.ok \in BOOLEAN
         /\ q = [ok |-> q.ok, st |-> q.st, latest |-> q.latest,
                 undone |-> q.undone, observed |-> q.observed]
         /\ q.ok => p.ok
         /\ (q.ok /\ log[n + 1].kind = "undo") => Withdraws(log, n, p, q)
         /\ (q.ok /\ log[n + 1].kind # "undo") => Extends(p, log[n + 1], q)
<1> DEFINE a == log[n + 1]
<1>1. n \in Nat /\ n + 1 \in 1 .. Len(log) /\ (n + 1) - 1 = n
  BY LogFinite
<1>2. a.seq = n + 1 /\ a.seq - 1 = n
  BY <1>1 DEF LogOf
<1> HIDE DEF a
<1>3. q = ProjectStep(log, p, a)
  BY DEF a
<1>4. PICK b, st, latest, undone, observed :
        /\ b \in BOOLEAN
        /\ p = [ok |-> b, st |-> st, latest |-> latest, undone |-> undone,
                observed |-> observed]
  BY DEF ProjectionType
<1>5. CASE ~p.ok
  BY <1>3, <1>4, <1>5 DEF ProjectStep, ProjectionType
<1>6. CASE p.ok /\ a.kind # "undo"
  <2>1. PICK run : run = Step([ok |-> TRUE, st |-> p.st], a, FALSE)
    OBVIOUS
  <2>2. q = Extended(p, a, run)
    BY <1>3, <1>6, <2>1 DEF ProjectStep
  <2>3. run.ok \in BOOLEAN
    <3>1. PICK e : e = Settled(Effect(p.st, a))
      OBVIOUS
    <3>2. e.ok \in BOOLEAN
      BY <3>1 DEF Settled
    <3>3. run = e \/ run = [ok |-> FALSE, st |-> p.st]
      BY <2>1, <3>1 DEF Step
    <3>4. [ok |-> FALSE, st |-> p.st].ok \in BOOLEAN
      OBVIOUS
    <3> QED BY <3>2, <3>3, <3>4, Zenon
  <2>4. CASE ~run.ok
    <3>1. q = [p EXCEPT !.ok = FALSE]
      BY <2>2, <2>4 DEF Extended, Refused
    <3>2. q = [ok |-> FALSE, st |-> st, latest |-> latest,
               undone |-> undone, observed |-> observed]
      BY <3>1, <1>4
    <3> QED BY <3>2
  <2>5. CASE run.ok
    <3>1. PICK obs : obs = IF a.kind = "presentation"
                           THEN Append(observed, Observed(run.st))
                           ELSE observed
      OBVIOUS
    <3>2. PICK l : l = LatestAfter(latest, a)
      OBVIOUS
    <3>3. q = [p EXCEPT !.st = run.st, !.latest = l, !.observed = obs]
      BY <1>4, <2>2, <2>5, <3>1, <3>2 DEF Extended
    <3>4. q = [ok |-> TRUE, st |-> run.st, latest |-> l, undone |-> undone,
               observed |-> obs]
      BY <3>3, <1>4, <1>6
    <3>5. /\ q.st = run.st /\ q.undone = p.undone /\ p.latest = latest
          /\ p.observed = observed /\ q.latest = l /\ q.observed = obs
      BY <1>4, <3>4
    <3>6. Extends(p, a, q)
      BY <3>1, <3>2, <3>5, <2>1, <2>5 DEF Extends
    <3> QED BY <3>4, <3>6, <1>6 DEF a
  <2> QED BY <2>3, <2>4, <2>5
<1>7. CASE p.ok /\ a.kind = "undo"
  <2>1. q = Withdrawn(SubSeq(log, 1, n), p, a)
    BY <1>2, <1>3, <1>7 DEF ProjectStep
  <2>2. PICK prefix, out : /\ prefix = SubSeq(log, 1, n)
                           /\ out = p.undone \cup UndoTargets(prefix, a.target)
    OBVIOUS
  <2>3. CASE p.latest = 0 \/ a.target # p.latest
    <3>1. q = [p EXCEPT !.ok = FALSE]
      BY <2>1, <2>3 DEF Withdrawn, Refused
    <3>2. q = [ok |-> FALSE, st |-> st, latest |-> latest,
               undone |-> undone, observed |-> observed]
      BY <3>1, <1>4
    <3> QED BY <3>2
  <2>4. CASE ~(p.latest = 0 \/ a.target # p.latest)
    <3>1. PICK run, o : run = Replay(prefix, out) /\ o = [p EXCEPT !.undone = out]
      OBVIOUS
    <3>2. q = Extended(o, a, run)
      BY <2>1, <2>2, <2>4, <3>1 DEF Withdrawn
    <3>3. o = [ok |-> TRUE, st |-> st, latest |-> latest, undone |-> out,
               observed |-> observed]
      BY <3>1, <1>4, <1>7
    <3>4. run.ok \in BOOLEAN
      <4>1. LogOf(prefix, C) /\ Len(prefix) = n
        BY <1>1, <2>2, PrefixOfLog
      <4>2. RunType(Reruns(prefix, out)[n], C, n)
        BY <1>1, <4>1, ReplayTyped
      <4> QED BY <3>1, <4>1, <4>2 DEF Replay, RunType
    <3>5. CASE ~run.ok
      <4>1. q = [o EXCEPT !.ok = FALSE]
        BY <3>2, <3>5 DEF Extended, Refused
      <4>2. q = [ok |-> FALSE, st |-> st, latest |-> latest,
                 undone |-> out, observed |-> observed]
        BY <3>3, <4>1
      <4> QED BY <4>2
    <3>6. CASE run.ok
      <4>1. q = [o EXCEPT !.st = run.st, !.latest = 0, !.observed = observed]
        BY <1>7, <3>2, <3>3, <3>6 DEF Extended, LatestAfter
      <4>2. q = [ok |-> TRUE, st |-> run.st, latest |-> 0, undone |-> out,
                 observed |-> observed]
        BY <3>3, <4>1
      <4>3. Withdraws(log, n, p, q)
        BY <4>2, <1>4, <2>2, <3>1, <3>6 DEF Withdraws, a
      <4> QED BY <4>2, <4>3, <1>7 DEF a
    <3> QED BY <3>4, <3>5, <3>6
  <2> QED BY <2>3, <2>4
<1>8. p.ok \in BOOLEAN
  BY DEF ProjectionType
<1> QED BY <1>5, <1>6, <1>7, <1>8

\* The targets of an Undo lie in the prefix before it.
LEMMA TargetsInPrefix ==
  ASSUME NEW C, NEW log, LogOf(log, C), NEW target
  PROVE  UndoTargets(log, target) \subseteq 1 .. Len(log)
<1> SUFFICES ASSUME NEW i \in DOMAIN log PROVE log[i].seq \in 1 .. Len(log)
  BY DEF UndoTargets, Range
<1> QED BY LogFinite DEF LogOf

\* Projections are typed at every prefix.
LEMMA ProjectStepTyped ==
  ASSUME NEW C, NEW log, LogOf(log, C), NEW n \in 0 .. Len(log) - 1,
         NEW p, ProjectionType(p, C, n), NEW q,
         q = ProjectStep(log, p, log[n + 1])
  PROVE  ProjectionType(q, C, n + 1)
<1> DEFINE a == log[n + 1]
<1>1. n \in Nat /\ n + 1 \in 1 .. Len(log) /\ n \in 0 .. Len(log)
  BY LogFinite
<1>2. a.seq = n + 1 /\ WellFormed(a, C)
  BY <1>1 DEF LogOf
<1> HIDE DEF a
<1>3. /\ q.ok \in BOOLEAN
      /\ q = [ok |-> q.ok, st |-> q.st, latest |-> q.latest,
              undone |-> q.undone, observed |-> q.observed]
      /\ q.ok => p.ok
      /\ (q.ok /\ a.kind = "undo") => Withdraws(log, n, p, q)
      /\ (q.ok /\ a.kind # "undo") => Extends(p, a, q)
  BY ProjectStepCases DEF a
<1>4. SUFFICES ASSUME q.ok
               PROVE  /\ q.st \in StateType(C) /\ IdsUpTo(q.st.encounters, n + 1)
                      /\ q.observed \in Seq(EncounterType(C))
                      /\ IdsUpTo(q.observed, n + 1)
                      /\ q.undone \subseteq 1 .. n + 1
  BY <1>3 DEF ProjectionType
<1>5. /\ p.st \in StateType(C) /\ IdsUpTo(p.st.encounters, n)
      /\ p.observed \in Seq(EncounterType(C)) /\ IdsUpTo(p.observed, n)
      /\ p.undone \subseteq 1 .. n
  BY <1>3, <1>4 DEF ProjectionType
<1>6. Len(p.observed) \in Nat /\ IdsUpTo(p.observed, n + 1)
  BY <1>1, <1>5 DEF IdsUpTo
<1>7. CASE a.kind # "undo"
  <2>1. PICK run : run = Step([ok |-> TRUE, st |-> p.st], a, FALSE)
    OBVIOUS
  <2>2. RunType([ok |-> TRUE, st |-> p.st], C, n)
    BY <1>5 DEF RunType
  <2>3. /\ RunType(run, C, n + 1)
        /\ (run.ok /\ a.kind = "presentation") =>
             /\ Observed(run.st) \in EncounterType(C)
             /\ Observed(run.st).id = n + 1
    BY <1>1, <1>2, <2>1, <2>2, StepTyped
  <2>4. /\ run.ok /\ q.st = run.st /\ q.undone = p.undone
        /\ q.observed = IF a.kind = "presentation"
                        THEN Append(p.observed, Observed(run.st))
                        ELSE p.observed
    BY <1>3, <1>4, <1>7, <2>1 DEF Extends
  <2>5. q.st \in StateType(C) /\ IdsUpTo(q.st.encounters, n + 1)
    BY <2>3, <2>4 DEF RunType
  <2>6. q.observed \in Seq(EncounterType(C)) /\ IdsUpTo(q.observed, n + 1)
    <3>1. CASE a.kind # "presentation"
      BY <3>1, <2>4, <1>5, <1>6
    <3>2. CASE a.kind = "presentation"
      <4>1. PICK x \in EncounterType(C) : x = Observed(run.st) /\ x.id = n + 1
        BY <2>3, <2>4, <3>2
      <4>2. /\ Append(p.observed, x) \in Seq(EncounterType(C))
            /\ Len(Append(p.observed, x)) = Len(p.observed) + 1
            /\ Append(p.observed, x)[Len(p.observed) + 1] = x
            /\ \A j \in 1 .. Len(p.observed) :
                 Append(p.observed, x)[j] = p.observed[j]
        BY <1>5
      <4>3. ASSUME NEW j \in 1 .. Len(p.observed) + 1
            PROVE  Append(p.observed, x)[j].id \in 1 .. n + 1
        <5>1. CASE j = Len(p.observed) + 1
          BY <1>1, <4>1, <4>2, <5>1
        <5>2. CASE j \in 1 .. Len(p.observed)
          <6>1. p.observed[j].id \in 1 .. n + 1
            BY <1>6, <5>2 DEF IdsUpTo
          <6> QED BY <4>2, <5>2, <6>1
        <5> QED BY <1>6, <5>1, <5>2
      <4> QED BY <2>4, <3>2, <4>1, <4>2, <4>3 DEF IdsUpTo
    <3> QED BY <3>1, <3>2
  <2>7. q.undone \subseteq 1 .. n + 1
    BY <1>1, <1>5, <2>4
  <2> QED BY <2>5, <2>6, <2>7
<1>8. CASE a.kind = "undo"
  <2>1. PICK prefix, out : /\ prefix = SubSeq(log, 1, n) /\ out = q.undone
    OBVIOUS
  <2>2. /\ Replay(prefix, out).ok /\ q.st = Replay(prefix, out).st
        /\ out = p.undone \cup UndoTargets(prefix, a.target)
        /\ q.observed = p.observed
    BY <1>3, <1>4, <1>8, <2>1 DEF Withdraws, a
  <2>3. LogOf(prefix, C) /\ Len(prefix) = n
    BY <1>1, <2>1, PrefixOfLog
  <2>4. RunType(Replay(prefix, out), C, n)
    BY <1>1, <2>3, ReplayTyped DEF Replay
  <2>5. q.st \in StateType(C) /\ IdsUpTo(q.st.encounters, n)
    BY <2>2, <2>4 DEF RunType
  <2>6. IdsUpTo(q.st.encounters, n + 1)
    BY <1>1, <2>5 DEF IdsUpTo
  <2>7. UndoTargets(prefix, a.target) \subseteq 1 .. n
    BY <2>3, TargetsInPrefix
  <2>8. q.undone \subseteq 1 .. n + 1
    BY <1>1, <1>5, <2>1, <2>2, <2>7
  <2> QED BY <1>5, <1>6, <2>2, <2>5, <2>6, <2>8
<1> QED BY <1>7, <1>8

LEMMA ProjectionsTyped ==
  ASSUME NEW C, NEW log, LogOf(log, C)
  PROVE  /\ Projections(log)[0] = NothingProjected
         /\ \A n \in 1 .. Len(log) :
              Projections(log)[n] =
                ProjectStep(log, Projections(log)[n - 1], log[n])
         /\ \A n \in 0 .. Len(log) : ProjectionType(Projections(log)[n], C, n)
<1> DEFINE p == Projections(log)
           S == {n \in Nat : ProjectionType(p[n], C, n)}
<1>1. /\ p[0] = NothingProjected
      /\ \A n \in 1 .. Len(log) : p[n] = ProjectStep(log, p[n - 1], log[n])
  BY LogFinite, ProjectionsUnfold
<1> HIDE DEF p
<1>2. 0 \in S
  <2>1. EmptyState.encounters = <<>>
    BY DEF EmptyState
  <2>2. ProjectionType(NothingProjected, C, 0)
    BY <2>1, EmptyTyped DEF NothingProjected, ProjectionType, IdsUpTo
  <2> QED BY <1>1, <2>2
<1>3. ASSUME NEW n \in 0 .. Len(log) - 1, n \in S PROVE n + 1 \in S
  <2>1. n \in Nat /\ n + 1 \in 1 .. Len(log) /\ (n + 1) - 1 = n
    BY LogFinite
  <2>2. p[n + 1] = ProjectStep(log, p[n], log[n + 1])
    BY <1>1, <2>1
  <2>3. ProjectionType(p[n + 1], C, n + 1)
    BY <1>3, <2>2, ProjectStepTyped
  <2> QED BY <2>1, <2>3
<1> HIDE DEF S
<1>4. \A n \in 0 .. Len(log) : n \in S
  BY <1>2, <1>3, LogFinite, InductionUpTo
<1> QED BY <1>1, <1>4 DEF S, p

-----------------------------------------------------------------------------
(* What was given for an encounter comes after its presentation.           *)

RefersBack(log, n) ==
  \A m \in 1 .. n :
    log[m].kind \in {"response", "feedback"} => log[m].encounter \in 1 .. m - 1

LEMMA ProjectedRefersBack ==
  ASSUME NEW C, NEW log, LogOf(log, C)
  PROVE  \A n \in 0 .. Len(log) :
           Projections(log)[n].ok => RefersBack(log, n)
<1> DEFINE p == Projections(log)
           S == {n \in Nat : p[n].ok => RefersBack(log, n)}
<1>1. /\ \A n \in 1 .. Len(log) : p[n] = ProjectStep(log, p[n - 1], log[n])
      /\ \A n \in 0 .. Len(log) : ProjectionType(p[n], C, n)
  BY ProjectionsTyped
<1> HIDE DEF p
<1>2. 0 \in S
  BY DEF RefersBack
<1>3. ASSUME NEW n \in 0 .. Len(log) - 1, n \in S PROVE n + 1 \in S
  <2>1. /\ n \in Nat /\ n + 1 \in 1 .. Len(log) /\ (n + 1) - 1 = n
        /\ n \in 0 .. Len(log)
    BY LogFinite
  <2>2. p[n + 1] = ProjectStep(log, p[n], log[n + 1])
    BY <1>1, <2>1
  <2>3. ProjectionType(p[n], C, n)
    BY <1>1, <2>1
  <2>4. PICK a, q : a = log[n + 1] /\ q = p[n + 1]
    OBVIOUS
  <2>5. /\ q.ok => p[n].ok
        /\ (q.ok /\ a.kind # "undo") => Extends(p[n], a, q)
    BY <2>2, <2>3, <2>4, ProjectStepCases
  <2>6. ASSUME q.ok, a.kind \in {"response", "feedback"}
        PROVE  a.encounter \in 1 .. n
    <3>1. PICK st : st = p[n].st
      OBVIOUS
    <3>2. Step([ok |-> TRUE, st |-> st], a, FALSE).ok
      BY <2>5, <2>6, <3>1 DEF Extends
    <3>3. Allowed(st, a, FALSE)
      BY <3>2 DEF Step
    <3>4. Known(st, a.encounter)
      BY <2>6, <3>3 DEF Allowed
    <3>5. st \in StateType(C) /\ IdsUpTo(st.encounters, n)
      BY <2>3, <2>5, <2>6, <3>1 DEF ProjectionType
    <3>6. DOMAIN st.encounters = 1 .. Len(st.encounters)
      BY <3>5 DEF StateType
    <3> QED BY <3>4, <3>5, <3>6 DEF Known, IdsUpTo
  <2>7. ASSUME q.ok PROVE RefersBack(log, n + 1)
    <3>1. RefersBack(log, n)
      BY <1>3, <2>5, <2>7
    <3>2. ASSUME NEW m \in 1 .. n + 1,
                 log[m].kind \in {"response", "feedback"}
          PROVE  log[m].encounter \in 1 .. m - 1
      <4>1. CASE m = n + 1
        BY <2>1, <2>4, <2>6, <2>7, <3>2, <4>1
      <4>2. CASE m \in 1 .. n
        BY <3>1, <3>2, <4>2 DEF RefersBack
      <4> QED BY <2>1, <4>1, <4>2
    <3> QED BY <3>2 DEF RefersBack
  <2> QED BY <2>1, <2>4, <2>7
<1> HIDE DEF S
<1>4. \A n \in 0 .. Len(log) : n \in S
  BY <1>2, <1>3, LogFinite, InductionUpTo
<1> QED BY <1>4 DEF S, p

\* Nothing was given for an encounter before it was presented.
LEMMA GivenNone ==
  ASSUME NEW log, Finite(log), NEW n \in 0 .. Len(log), RefersBack(log, n),
         NEW kind \in {"response", "feedback"}, NEW e \in Nat, n <= e
  PROVE  Given(log, kind, e)[n] = <<>>
<1> DEFINE g == Given(log, kind, e)
           S == {m \in Nat : g[m] = <<>>}
<1>1. /\ g[0] = <<>>
      /\ \A m \in 1 .. Len(log) : g[m] = Gathered(g[m - 1], log[m], kind, e)
  BY GivenUnfold
<1> HIDE DEF g
<1>2. 0 \in S
  BY <1>1
<1>3. ASSUME NEW m \in 0 .. n - 1, m \in S PROVE m + 1 \in S
  <2>1. /\ m \in Nat /\ m + 1 \in 1 .. Len(log) /\ m + 1 \in 1 .. n
        /\ (m + 1) - 1 = m
    BY DEF Finite
  <2>2. g[m + 1] = Gathered(g[m], log[m + 1], kind, e)
    BY <1>1, <2>1
  <2>3. ~(log[m + 1].kind = kind /\ log[m + 1].encounter = e)
    BY <2>1 DEF RefersBack
  <2> QED BY <1>3, <2>1, <2>2, <2>3 DEF Gathered
<1>4. n \in Nat
  BY DEF Finite
<1> HIDE DEF S
<1>5. \A m \in 0 .. n : m \in S
  BY <1>2, <1>3, <1>4, InductionUpTo
<1> QED BY <1>4, <1>5 DEF S, g

-----------------------------------------------------------------------------
(* A log and one that continues it.                                        *)

Continues(log, more, n) ==
  /\ n \in 0 .. Len(log) /\ n \in 0 .. Len(more)
  /\ \A i \in 1 .. n : more[i] = log[i]

LEMMA GivenContinues ==
  ASSUME NEW log, NEW more, Finite(log), Finite(more), NEW n,
         Continues(log, more, n), NEW kind, NEW e
  PROVE  Given(more, kind, e)[n] = Given(log, kind, e)[n]
<1> DEFINE g == Given(log, kind, e)
           h == Given(more, kind, e)
           S == {m \in Nat : h[m] = g[m]}
<1>1. /\ g[0] = <<>> /\ h[0] = <<>>
      /\ \A m \in 1 .. Len(log) : g[m] = Gathered(g[m - 1], log[m], kind, e)
      /\ \A m \in 1 .. Len(more) : h[m] = Gathered(h[m - 1], more[m], kind, e)
  BY GivenUnfold
<1> HIDE DEF g, h
<1>2. 0 \in S
  BY <1>1
<1>3. ASSUME NEW m \in 0 .. n - 1, m \in S PROVE m + 1 \in S
  <2>1. /\ m \in Nat /\ m + 1 \in 1 .. Len(log) /\ m + 1 \in 1 .. Len(more)
        /\ (m + 1) - 1 = m /\ log[m + 1] = more[m + 1]
    BY DEF Finite, Continues
  <2>2. g[m + 1] = Gathered(g[m], log[m + 1], kind, e)
    BY <1>1, <2>1
  <2>3. h[m + 1] = Gathered(h[m], more[m + 1], kind, e)
    BY <1>1, <2>1
  <2> QED BY <1>3, <2>1, <2>2, <2>3
<1>4. n \in Nat
  BY DEF Finite, Continues
<1> HIDE DEF S
<1>5. n \in S
  BY <1>2, <1>3, <1>4, InductionUpTo
<1> QED BY <1>5 DEF S, g, h

LEMMA SamePrefix ==
  ASSUME NEW C, NEW D, NEW log, NEW more, LogOf(log, C), LogOf(more, D),
         NEW n, Continues(log, more, n), NEW k \in 0 .. n
  PROVE  SubSeq(more, 1, k) = SubSeq(log, 1, k)
<1>1. k \in 0 .. Len(log) /\ k \in 0 .. Len(more) /\ \A i \in 1 .. k : i \in 1 .. n
  BY LogFinite DEF Continues
<1>2. PICK s, t : s = SubSeq(log, 1, k) /\ t = SubSeq(more, 1, k)
  OBVIOUS
<1>3. /\ LogOf(s, C) /\ Len(s) = k /\ \A i \in 1 .. k : s[i] = log[i]
  BY <1>1, <1>2, PrefixOfLog
<1>4. /\ LogOf(t, D) /\ Len(t) = k /\ \A i \in 1 .. k : t[i] = more[i]
  BY <1>1, <1>2, PrefixOfLog
<1>5. \A i \in 1 .. k : s[i] = t[i]
  BY <1>1, <1>3, <1>4 DEF Continues
<1>6. PICK S, T : s \in Seq(S) /\ t \in Seq(T)
  BY <1>3, <1>4 DEF LogOf
<1>7. s = t
  BY <1>3, <1>4, <1>5, <1>6
<1> QED BY <1>2, <1>7

LEMMA ProjectionsContinue ==
  ASSUME NEW C, NEW log, NEW more, LogOf(log, C), LogOf(more, C),
         NEW n, Continues(log, more, n)
  PROVE  Projections(more)[n] = Projections(log)[n]
<1> DEFINE p == Projections(log)
           q == Projections(more)
           S == {m \in Nat : q[m] = p[m]}
<1>1. /\ p[0] = NothingProjected /\ q[0] = NothingProjected
      /\ \A m \in 1 .. Len(log) : p[m] = ProjectStep(log, p[m - 1], log[m])
      /\ \A m \in 1 .. Len(more) : q[m] = ProjectStep(more, q[m - 1], more[m])
  BY ProjectionsTyped
<1> HIDE DEF p, q
<1>2. 0 \in S
  BY <1>1
<1>3. ASSUME NEW m \in 0 .. n - 1, m \in S PROVE m + 1 \in S
  <2>1. /\ m \in Nat /\ m + 1 \in 1 .. Len(log) /\ m + 1 \in 1 .. Len(more)
        /\ (m + 1) - 1 = m /\ log[m + 1] = more[m + 1] /\ m \in 0 .. n
    BY LogFinite DEF Continues
  <2>2. PICK a, z : a = log[m + 1] /\ z = p[m]
    OBVIOUS
  <2>3. p[m + 1] = ProjectStep(log, z, a) /\ q[m + 1] = ProjectStep(more, z, a)
    BY <1>1, <1>3, <2>1, <2>2
  <2>4. a.seq - 1 = m
    BY <2>1, <2>2 DEF LogOf
  <2>5. SubSeq(more, 1, m) = SubSeq(log, 1, m)
    BY <2>1, SamePrefix
  <2>6. ProjectStep(log, z, a) = ProjectStep(more, z, a)
    BY <2>4, <2>5 DEF ProjectStep
  <2> QED BY <2>1, <2>3, <2>6
<1>4. n \in Nat
  BY LogFinite DEF Continues
<1> HIDE DEF S
<1>5. n \in S
  BY <1>2, <1>3, <1>4, InductionUpTo
<1> QED BY <1>5 DEF S, p, q

-----------------------------------------------------------------------------
(* The incremental projection.                                             *)

\* The entry of the evidence for an observed encounter, whatever is in force.
Entry(o, log, n, undone, skipped, effective) ==
  [ id |-> o.id, word |-> o.word, work |-> o.work, mode |-> o.mode,
    content |-> o.content, shape |-> o.shape, role |-> o.role,
    undone |-> undone, skipped |-> skipped, effective |-> effective,
    responses |-> Given(log, "response", o.id)[n],
    reactions |-> Given(log, "feedback", o.id)[n] ]

\* What is recorded of an encounter, whatever is in force.
LEMMA EvidenceEntry ==
  ASSUME NEW log, NEW st, NEW observed, NEW i \in DOMAIN observed
  PROVE  \E u, s, x : Evidence(log, st, observed)[i]
                        = Entry(observed[i], log, Len(log), u, s, x)
<1>1. PICK o : o = observed[i]
  OBVIOUS
<1>2. PICK u, s, x : /\ u = ~Known(st, o.id)
                     /\ s = (Known(st, o.id) /\ Encounter(st, o.id).skipped)
                     /\ x = IF Known(st, o.id) THEN Encounter(st, o.id).answer
                                               ELSE "none"
  OBVIOUS
<1>3. PICK r, f : /\ r = Given(log, "response", o.id)[Len(log)]
                  /\ f = Given(log, "feedback", o.id)[Len(log)]
  OBVIOUS
<1>4. Evidence(log, st, observed)[i]
        = [ id |-> o.id, word |-> o.word, work |-> o.work, mode |-> o.mode,
            content |-> o.content, shape |-> o.shape, role |-> o.role,
            undone |-> u, skipped |-> s, effective |-> x,
            responses |-> r, reactions |-> f ]
  BY <1>1, <1>2, <1>3, Zenon DEF Evidence
<1>5. Entry(o, log, Len(log), u, s, x)
        = [ id |-> o.id, word |-> o.word, work |-> o.work, mode |-> o.mode,
            content |-> o.content, shape |-> o.shape, role |-> o.role,
            undone |-> u, skipped |-> s, effective |-> x,
            responses |-> r, reactions |-> f ]
  BY <1>3, Zenon DEF Entry
<1> QED BY <1>1, <1>4, <1>5

EntriesOf(evidence, observed, log, n) ==
  /\ \E T : evidence \in Seq(T)
  /\ Len(evidence) = Len(observed)
  /\ \A i \in 1 .. Len(observed) : \E u, s, f :
       evidence[i] = Entry(observed[i], log, n, u, s, f)

\* The view is the projection but for what is in force of each encounter,
\* which is refreshed once all actions are in.
Matches(v, p, log, n) ==
  /\ p.ok
  /\ v.st = p.st /\ v.latest = p.latest /\ v.undone = p.undone
  /\ EntriesOf(v.evidence, p.observed, log, n)

ViewType(v) ==
  /\ v.ok \in BOOLEAN
  /\ v = [ok |-> v.ok, st |-> v.st, latest |-> v.latest,
          undone |-> v.undone, evidence |-> v.evidence]

\* A new action leaves the entries of the others alone.
LEMMA EntryKept ==
  ASSUME NEW log, Finite(log), NEW n \in 0 .. Len(log) - 1, NEW o,
         NEW u, NEW s, NEW f,
         \A kind \in {"response", "feedback"} :
           ~(log[n + 1].kind = kind /\ log[n + 1].encounter = o.id)
  PROVE  Entry(o, log, n + 1, u, s, f) = Entry(o, log, n, u, s, f)
<1>1. n \in Nat /\ n + 1 \in 1 .. Len(log) /\ (n + 1) - 1 = n
  BY DEF Finite
<1>2. ASSUME NEW kind \in {"response", "feedback"}
      PROVE  Given(log, kind, o.id)[n + 1] = Given(log, kind, o.id)[n]
  <2>1. Given(log, kind, o.id)[n + 1] =
          Gathered(Given(log, kind, o.id)[n], log[n + 1], kind, o.id)
    BY <1>1, GivenUnfold
  <2> QED BY <2>1 DEF Gathered
<1> QED BY <1>2 DEF Entry

\* A response or a reaction is added to the entry it was given for.
Grown(e, a) ==
  IF a.kind = "response" THEN [e EXCEPT !.responses = Append(@, a)]
                         ELSE [e EXCEPT !.reactions = Append(@, a)]

LEMMA EntryGrown ==
  ASSUME NEW log, Finite(log), NEW n \in 0 .. Len(log) - 1, NEW o,
         NEW u, NEW s, NEW f, log[n + 1].encounter = o.id,
         log[n + 1].kind \in {"response", "feedback"}
  PROVE  Grown(Entry(o, log, n, u, s, f), log[n + 1])
           = Entry(o, log, n + 1, u, s, f)
<1>1. n \in Nat /\ n + 1 \in 1 .. Len(log) /\ (n + 1) - 1 = n
  BY DEF Finite
<1>2. PICK r, g, a : /\ r = Given(log, "response", o.id)
                     /\ g = Given(log, "feedback", o.id) /\ a = log[n + 1]
  OBVIOUS
<1>3. /\ r[n + 1] = Gathered(r[n], a, "response", o.id)
      /\ g[n + 1] = Gathered(g[n], a, "feedback", o.id)
  BY <1>1, <1>2, GivenUnfold
<1>4. PICK x, y, v, w : x = r[n] /\ y = g[n] /\ v = r[n + 1] /\ w = g[n + 1]
  OBVIOUS
<1>5. /\ v = IF a.kind = "response" THEN Append(x, a) ELSE x
      /\ w = IF a.kind = "feedback" THEN Append(y, a) ELSE y
  BY <1>2, <1>3, <1>4 DEF Gathered
<1>6. PICK e : e = [ id |-> o.id, word |-> o.word, work |-> o.work,
             mode |-> o.mode, content |-> o.content, shape |-> o.shape,
             role |-> o.role, undone |-> u, skipped |-> s, effective |-> f,
             responses |-> x, reactions |-> y ]
  OBVIOUS
<1>7. /\ Entry(o, log, n, u, s, f) = e
      /\ Entry(o, log, n + 1, u, s, f) =
           [ id |-> o.id, word |-> o.word, work |-> o.work, mode |-> o.mode,
             content |-> o.content, shape |-> o.shape, role |-> o.role,
             undone |-> u, skipped |-> s, effective |-> f,
             responses |-> v, reactions |-> w ]
  BY <1>2, <1>4, <1>6, Zenon DEF Entry
<1>8. CASE a.kind = "response"
  <2>1. Grown(e, a) = [e EXCEPT !.responses = v]
    BY <1>5, <1>6, <1>8 DEF Grown
  <2>2. w = y
    BY <1>5, <1>8
  <2>3. Grown(e, a) = Entry(o, log, n + 1, u, s, f)
    BY <2>1, <2>2, <1>6, <1>7
  <2> QED BY <2>3, <1>2, <1>7
<1>9. CASE a.kind = "feedback"
  <2>1. Grown(e, a) = [e EXCEPT !.reactions = w]
    BY <1>5, <1>6, <1>9 DEF Grown
  <2>2. v = x
    BY <1>5, <1>9
  <2>3. Grown(e, a) = Entry(o, log, n + 1, u, s, f)
    BY <2>1, <2>2, <1>6, <1>7
  <2> QED BY <2>3, <1>2, <1>7
<1> QED BY <1>2, <1>8, <1>9

\* The evidence advances as the projection's does.
LEMMA EvidenceAdvances ==
  ASSUME NEW C, NEW log, LogOf(log, C), NEW n \in 0 .. Len(log) - 1,
         RefersBack(log, n),
         NEW observed \in Seq(EncounterType(C)), IdsUpTo(observed, n),
         NEW evidence, EntriesOf(evidence, observed, log, n), NEW st,
         log[n + 1].kind = "presentation" =>
           Observed(st) \in EncounterType(C) /\ Observed(st).id = n + 1
  PROVE  EntriesOf(AdvanceEvidence(evidence, log[n + 1], st),
                   IF log[n + 1].kind = "presentation"
                   THEN Append(observed, Observed(st)) ELSE observed,
                   log, n + 1)
<1>1. PICK a : a = log[n + 1]
  OBVIOUS
<1>2. PICK T : evidence \in Seq(T)
  BY DEF EntriesOf
<1>3. /\ n \in Nat /\ n + 1 \in 1 .. Len(log) /\ n \in 0 .. Len(log)
      /\ Len(observed) \in Nat /\ Len(evidence) = Len(observed)
      /\ DOMAIN evidence = 1 .. Len(observed) /\ Finite(log)
  BY <1>2, LogFinite DEF EntriesOf
<1>4. CASE a.kind = "presentation"
  <2>1. PICK o \in EncounterType(C) : o = Observed(st) /\ o.id = n + 1
    BY <1>1, <1>4
  <2> DEFINE x == [ id |-> o.id, word |-> o.word, work |-> o.work,
                    mode |-> o.mode, content |-> o.content,
                    shape |-> o.shape, role |-> o.role, undone |-> FALSE,
                    skipped |-> FALSE, effective |-> "none",
                    responses |-> <<>>, reactions |-> <<>> ]
  <2>2. AdvanceEvidence(evidence, a, st) = Append(evidence, x)
    BY <1>4, <2>1 DEF AdvanceEvidence
  <2>3. x = Entry(o, log, n, FALSE, FALSE, "none")
    <3>1. Given(log, "response", o.id)[n] = <<>>
          /\ Given(log, "feedback", o.id)[n] = <<>>
      BY <1>3, <2>1, GivenNone
    <3> QED BY <3>1 DEF Entry
  <2>4. ASSUME NEW z, NEW u, NEW s, NEW f
        PROVE  Entry(z, log, n + 1, u, s, f) = Entry(z, log, n, u, s, f)
    BY <1>1, <1>3, <1>4, EntryKept
  <2>5. x = Entry(o, log, n + 1, FALSE, FALSE, "none")
    BY <2>3, <2>4
  <2> HIDE DEF x
  <2>6. /\ Append(evidence, x) \in Seq(T \cup {x})
        /\ Len(Append(evidence, x)) = Len(observed) + 1
        /\ Append(evidence, x)[Len(observed) + 1] = x
        /\ \A i \in 1 .. Len(observed) : Append(evidence, x)[i] = evidence[i]
    BY <1>2, <1>3
  <2>7. /\ Len(Append(observed, o)) = Len(observed) + 1
        /\ Append(observed, o)[Len(observed) + 1] = o
        /\ \A i \in 1 .. Len(observed) : Append(observed, o)[i] = observed[i]
    BY <1>3
  <2>8. ASSUME NEW i \in 1 .. Len(observed) + 1
        PROVE  \E u, s, f : Append(evidence, x)[i] =
                 Entry(Append(observed, o)[i], log, n + 1, u, s, f)
    <3>1. CASE i = Len(observed) + 1
      BY <2>5, <2>6, <2>7, <3>1
    <3>2. CASE i \in 1 .. Len(observed)
      <4>1. PICK u, s, f : evidence[i] = Entry(observed[i], log, n, u, s, f)
        BY <3>2 DEF EntriesOf
      <4>2. evidence[i] = Entry(observed[i], log, n + 1, u, s, f)
        BY <2>4, <4>1
      <4> QED BY <2>6, <2>7, <3>2, <4>2
    <3> QED BY <1>3, <3>1, <3>2
  <2>9. EntriesOf(Append(evidence, x), Append(observed, o), log, n + 1)
    BY <2>6, <2>7, <2>8 DEF EntriesOf
  <2> QED BY <1>1, <1>4, <2>1, <2>2, <2>9
<1>5. CASE a.kind \in {"response", "feedback"}
  <2> DEFINE new(i) == IF evidence[i].id # a.encounter THEN evidence[i]
                       ELSE Grown(evidence[i], a)
  <2>1. AdvanceEvidence(evidence, a, st) = [i \in DOMAIN evidence |-> new(i)]
    BY <1>5 DEF AdvanceEvidence, Grown
  <2>2. ASSUME NEW i \in 1 .. Len(observed)
        PROVE  \E u, s, f : new(i) = Entry(observed[i], log, n + 1, u, s, f)
    <3>1. PICK u, s, f : evidence[i] = Entry(observed[i], log, n, u, s, f)
      BY DEF EntriesOf
    <3>2. evidence[i].id = observed[i].id
      BY <3>1 DEF Entry
    <3>3. PICK e, o : e = evidence[i] /\ o = observed[i]
      OBVIOUS
    <3>4. CASE o.id # a.encounter
      <4>1. Entry(o, log, n + 1, u, s, f) = Entry(o, log, n, u, s, f)
        BY <1>1, <1>3, <3>4, EntryKept
      <4>2. new(i) = Entry(o, log, n + 1, u, s, f)
        BY <3>1, <3>2, <3>3, <3>4, <4>1
      <4> QED BY <3>3, <4>2
    <3>5. CASE o.id = a.encounter
      <4>1. Grown(Entry(o, log, n, u, s, f), a) = Entry(o, log, n + 1, u, s, f)
        BY <1>1, <1>3, <1>5, <3>5, EntryGrown
      <4>2. new(i) = Grown(e, a)
        BY <3>2, <3>3, <3>5
      <4>3. new(i) = Entry(o, log, n + 1, u, s, f)
        BY <3>1, <3>3, <4>1, <4>2
      <4> QED BY <3>3, <4>3
    <3> QED BY <3>4, <3>5
  <2> HIDE DEF new
  <2>3. PICK s : s = [i \in 1 .. Len(observed) |-> new(i)]
    OBVIOUS
  <2>4. s \in Seq({new(i) : i \in 1 .. Len(observed)})
        /\ Len(s) = Len(observed)
    BY <1>3, <2>3, SeqDef
  <2>5. EntriesOf(s, observed, log, n + 1)
    BY <2>2, <2>3, <2>4 DEF EntriesOf
  <2>6. a.kind # "presentation"
    BY <1>5
  <2> QED BY <1>1, <1>3, <2>1, <2>3, <2>5, <2>6
<1>6. CASE a.kind \notin {"presentation", "response", "feedback"}
  <2>1. AdvanceEvidence(evidence, a, st) = evidence
    BY <1>6 DEF AdvanceEvidence
  <2>2. ASSUME NEW i \in 1 .. Len(observed)
        PROVE  \E u, s, f :
                 evidence[i] = Entry(observed[i], log, n + 1, u, s, f)
    <3>1. PICK u, s, f : evidence[i] = Entry(observed[i], log, n, u, s, f)
      BY DEF EntriesOf
    <3>2. Entry(observed[i], log, n + 1, u, s, f)
            = Entry(observed[i], log, n, u, s, f)
      BY <1>1, <1>3, <1>6, EntryKept
    <3> QED BY <3>1, <3>2
  <2>3. EntriesOf(evidence, observed, log, n + 1)
    BY <1>2, <1>3, <2>2 DEF EntriesOf
  <2> QED BY <1>1, <1>6, <2>1, <2>3
<1> QED BY <1>4, <1>5, <1>6

\* One more action keeps the view and the projection together.
LEMMA AdvanceStepMatches ==
  ASSUME NEW C, NEW log, LogOf(log, C), NEW n \in 0 .. Len(log) - 1,
         log[n + 1].kind # "undo", NEW v, ViewType(v),
         v.ok => Matches(v, Projections(log)[n], log, n)
  PROVE  /\ ViewType(AdvanceStep(v, log[n + 1]))
         /\ AdvanceStep(v, log[n + 1]).ok =>
              Matches(AdvanceStep(v, log[n + 1]), Projections(log)[n + 1],
                      log, n + 1)
<1>1. /\ n \in Nat /\ n + 1 \in 1 .. Len(log) /\ (n + 1) - 1 = n
      /\ n \in 0 .. Len(log)
  BY LogFinite
<1>2. PICK p, q, a, w, run :
        /\ p = Projections(log)[n] /\ q = Projections(log)[n + 1]
        /\ a = log[n + 1] /\ w = AdvanceStep(v, log[n + 1])
        /\ run = Step([ok |-> v.ok, st |-> v.st], a, FALSE)
  OBVIOUS
<1>3. /\ q = ProjectStep(log, p, a) /\ ProjectionType(p, C, n)
  BY <1>1, <1>2, ProjectionsTyped
<1>4. w = Advanced(v, a, run)
  BY <1>2 DEF AdvanceStep
<1>5. run.ok \in BOOLEAN /\ (run.ok => v.ok)
  <2>1. PICK r : r = [ok |-> v.ok, st |-> v.st]
    OBVIOUS
  <2>2. r.ok \in BOOLEAN /\ r = [ok |-> r.ok, st |-> r.st] /\ r.ok = v.ok
    BY <2>1 DEF ViewType
  <2>3. PICK z : z = FALSE
    OBVIOUS
  <2>4. run = Step(r, a, z)
    BY <1>2, <2>1, <2>3, Zenon
  <2> QED BY <2>2, <2>4, StepAccepted
<1>6. PICK b, s, l, u, e :
        /\ b \in BOOLEAN
        /\ v = [ok |-> b, st |-> s, latest |-> l, undone |-> u, evidence |-> e]
  BY DEF ViewType
<1>7. CASE ~run.ok
  <2>1. w = [v EXCEPT !.ok = FALSE]
    BY <1>4, <1>7 DEF Advanced, Refused
  <2>2. w = [ok |-> FALSE, st |-> s, latest |-> l, undone |-> u,
             evidence |-> e]
    BY <1>6, <2>1
  <2>3. ViewType(w) /\ ~w.ok
    BY <2>2 DEF ViewType
  <2> QED BY <1>2, <2>3
<1>8. CASE run.ok
  <2>1. v.ok /\ Matches(v, p, log, n)
    BY <1>2, <1>5, <1>8
  <2>2. p.ok /\ s = p.st /\ l = p.latest /\ u = p.undone
        /\ EntriesOf(e, p.observed, log, n)
    BY <1>6, <2>1 DEF Matches
  <2>3. v.ok = TRUE
    BY <2>1 DEF ViewType
  <2>4. run = Step([ok |-> TRUE, st |-> p.st], a, FALSE)
    BY <1>2, <1>6, <2>2, <2>3
  <2>5. a.kind # "undo"
    BY <1>2
  <2>6. q = Extended(p, a, run)
    BY <1>3, <2>2, <2>4, <2>5 DEF ProjectStep
  <2>7. q.ok
    <3>1. PICK c, st, la, un, ob :
            p = [ok |-> c, st |-> st, latest |-> la, undone |-> un,
                 observed |-> ob]
      BY <1>3 DEF ProjectionType
    <3>2. PICK la2, ob2 : /\ la2 = LatestAfter(la, a)
            /\ ob2 = IF a.kind = "presentation"
                     THEN Append(ob, Observed(run.st)) ELSE ob
      OBVIOUS
    <3>3. q = [p EXCEPT !.st = run.st, !.latest = la2, !.observed = ob2]
      BY <2>6, <1>8, <3>1, <3>2 DEF Extended
    <3>4. q.ok = p.ok
      BY <3>1, <3>3
    <3> QED BY <2>2, <3>4
  <2>8. Extends(p, a, q)
    BY <1>2, <1>3, <2>5, <2>7, ProjectStepCases
  <2>9. /\ q.st = run.st /\ q.undone = p.undone
        /\ q.latest = LatestAfter(p.latest, a)
        /\ q.observed = IF a.kind = "presentation"
                        THEN Append(p.observed, Observed(run.st))
                        ELSE p.observed
    BY <2>4, <2>8 DEF Extends
  <2>10. PICK l2, e2 : /\ l2 = LatestAfter(l, a)
                       /\ e2 = AdvanceEvidence(e, a, run.st)
    OBVIOUS
  <2>11. w = [v EXCEPT !.st = run.st, !.latest = l2, !.evidence = e2]
    BY <1>4, <1>6, <1>8, <2>10 DEF Advanced
  <2>12. w = [ok |-> TRUE, st |-> run.st, latest |-> l2, undone |-> u,
              evidence |-> e2]
    BY <1>6, <2>3, <2>11
  <2>13. EntriesOf(e2, q.observed, log, n + 1)
    <3>1. RefersBack(log, n)
      BY <1>1, <1>2, <2>2, ProjectedRefersBack
    <3>2. p.observed \in Seq(EncounterType(C)) /\ IdsUpTo(p.observed, n)
          /\ p.st \in StateType(C) /\ IdsUpTo(p.st.encounters, n)
      BY <1>3, <2>2 DEF ProjectionType
    <3>3. RunType([ok |-> TRUE, st |-> p.st], C, n)
      BY <3>2 DEF RunType
    <3>4. WellFormed(a, C) /\ a.seq = n + 1
      BY <1>1, <1>2 DEF LogOf
    <3>5. a.kind = "presentation" =>
            Observed(run.st) \in EncounterType(C)
            /\ Observed(run.st).id = n + 1
      BY <1>1, <1>8, <2>4, <3>3, <3>4, StepTyped
    <3>6. EntriesOf(AdvanceEvidence(e, log[n + 1], run.st),
                    IF log[n + 1].kind = "presentation"
                    THEN Append(p.observed, Observed(run.st))
                    ELSE p.observed, log, n + 1)
      BY <1>2, <2>2, <3>1, <3>2, <3>5, EvidenceAdvances
    <3> QED BY <1>2, <2>9, <2>10, <3>6
  <2>14. ViewType(w)
    BY <2>12 DEF ViewType
  <2>15. Matches(w, q, log, n + 1)
    BY <2>2, <2>7, <2>9, <2>10, <2>12, <2>13 DEF Matches
  <2> QED BY <1>2, <2>14, <2>15
<1> QED BY <1>5, <1>7, <1>8

WithForce(e, undone, skipped, effective) ==
  [e EXCEPT !.undone = undone, !.skipped = skipped, !.effective = effective]

\* Refreshing an entry makes it the projection's.
LEMMA EntryRefreshed ==
  ASSUME NEW o, NEW log, NEW n, NEW u, NEW s, NEW f, NEW u2, NEW s2, NEW f2
  PROVE  WithForce(Entry(o, log, n, u, s, f), u2, s2, f2)
           = Entry(o, log, n, u2, s2, f2)
<1>1. PICK r, g : /\ r = Given(log, "response", o.id)[n]
                  /\ g = Given(log, "feedback", o.id)[n]
  OBVIOUS
<1> DEFINE E(x, y, z) ==
             [ id |-> o.id, word |-> o.word, work |-> o.work,
               mode |-> o.mode, content |-> o.content, shape |-> o.shape,
               role |-> o.role, undone |-> x, skipped |-> y,
               effective |-> z, responses |-> r, reactions |-> g ]
<1>2. Entry(o, log, n, u, s, f) = E(u, s, f)
      /\ Entry(o, log, n, u2, s2, f2) = E(u2, s2, f2)
  BY <1>1, Zenon DEF Entry
<1>3. [E(u, s, f) EXCEPT !.undone = u2] = E(u2, s, f)
  OBVIOUS
<1>4. [E(u2, s, f) EXCEPT !.skipped = s2] = E(u2, s2, f)
  OBVIOUS
<1>5. [E(u2, s2, f) EXCEPT !.effective = f2] = E(u2, s2, f2)
  OBVIOUS
<1> HIDE DEF E
<1>6. \A e : WithForce(e, u2, s2, f2) =
        [[[e EXCEPT !.undone = u2] EXCEPT !.skipped = s2]
                EXCEPT !.effective = f2]
  BY DEF WithForce
<1>7. [[[E(u, s, f) EXCEPT !.undone = u2] EXCEPT !.skipped = s2]
             EXCEPT !.effective = f2] = E(u2, s2, f2)
  BY <1>3, <1>4, <1>5, Zenon
<1>8. WithForce(E(u, s, f), u2, s2, f2) = E(u2, s2, f2)
  BY <1>6, <1>7, Zenon
<1> QED BY <1>2, <1>8, Zenon

LEMMA RefreshedMatches ==
  ASSUME NEW C, NEW log, LogOf(log, C), NEW v, ViewType(v), v.ok,
         NEW p, ProjectionType(p, C, Len(log)), Matches(v, p, log, Len(log))
  PROVE  Refreshed(v) = Presentable(log, p)
<1>1. /\ p.ok /\ v.st = p.st /\ v.latest = p.latest /\ v.undone = p.undone
      /\ EntriesOf(v.evidence, p.observed, log, Len(log))
  BY DEF Matches
<1>2. v.ok = TRUE /\ p.ok = TRUE
  BY <1>1 DEF ViewType, ProjectionType
<1>3. PICK T : v.evidence \in Seq(T)
  BY <1>1 DEF EntriesOf
<1>4. /\ DOMAIN v.evidence = 1 .. Len(p.observed)
      /\ DOMAIN p.observed = 1 .. Len(p.observed)
  BY <1>1, <1>3 DEF EntriesOf, ProjectionType
<1> DEFINE eff(o) == IF Known(v.st, o.id) THEN Encounter(v.st, o.id).answer
                                          ELSE "none"
           skip(o) == Known(v.st, o.id) /\ Encounter(v.st, o.id).skipped
           new(i) == [v.evidence[i] EXCEPT
                        !.undone = ~Known(v.st, v.evidence[i].id),
                        !.skipped = skip(v.evidence[i]),
                        !.effective = eff(v.evidence[i])]
           old(i) == Entry(p.observed[i], log, Len(log),
                           ~Known(v.st, p.observed[i].id),
                           skip(p.observed[i]), eff(p.observed[i]))
<1>5. ASSUME NEW i \in 1 .. Len(p.observed) PROVE new(i) = old(i)
  <2>1. PICK u, s, f :
          v.evidence[i] = Entry(p.observed[i], log, Len(log), u, s, f)
    BY <1>1 DEF EntriesOf
  <2>2. v.evidence[i].id = p.observed[i].id
    BY <2>1 DEF Entry
  <2>3. new(i) = [v.evidence[i] EXCEPT
                    !.undone = ~Known(v.st, p.observed[i].id),
                    !.skipped = skip(p.observed[i]),
                    !.effective = eff(p.observed[i])]
    BY <2>2, Zenon
  <2>4. PICK x, y, z : /\ x = ~Known(v.st, p.observed[i].id)
                       /\ y = skip(p.observed[i]) /\ z = eff(p.observed[i])
    OBVIOUS
  <2>5. new(i) = WithForce(v.evidence[i], x, y, z)
    BY <2>3, <2>4, Zenon DEF WithForce
  <2>6. old(i) = Entry(p.observed[i], log, Len(log), x, y, z)
    BY <2>4, Zenon
  <2> HIDE DEF eff, skip, new, old
  <2>7. WithForce(v.evidence[i], x, y, z)
          = Entry(p.observed[i], log, Len(log), x, y, z)
    BY <2>1, EntryRefreshed
  <2> QED BY <2>5, <2>6, <2>7
<1>6. Evidence(log, p.st, p.observed) = [i \in 1 .. Len(p.observed) |-> old(i)]
  BY <1>1, <1>4, Zenon DEF Evidence, Entry
<1>7. Refreshed(v) = [v EXCEPT !.evidence = [i \in DOMAIN v.evidence |-> new(i)]]
  BY Zenon DEF Refreshed
<1> HIDE DEF new, old
<1>8. Refreshed(v) = [v EXCEPT !.evidence = Evidence(log, p.st, p.observed)]
  BY <1>4, <1>5, <1>6, <1>7, Zenon
<1>9. PICK x : x = Evidence(log, p.st, p.observed)
  OBVIOUS
<1>10. PICK s, l, u, e :
        v = [ok |-> TRUE, st |-> s, latest |-> l, undone |-> u, evidence |-> e]
  BY <1>1 DEF ViewType
<1>11. Presentable(log, p) = [ok |-> TRUE, st |-> p.st, latest |-> p.latest,
                              undone |-> p.undone, evidence |-> x]
  BY <1>2, <1>9 DEF Presentable
<1>12. s = p.st /\ l = p.latest /\ u = p.undone
  BY <1>1, <1>2, <1>10
<1>13. Refreshed(v) = [v EXCEPT !.evidence = x]
  BY <1>8, <1>9
<1>14. Refreshed(v) = [ok |-> TRUE, st |-> s, latest |-> l, undone |-> u,
                       evidence |-> x]
  BY <1>10, <1>13
<1> QED BY <1>11, <1>12, <1>14

\* A log with more actions after it.
Followed(log, incoming, more) ==
  /\ Continues(log, more, Len(log))
  /\ Len(incoming) \in Nat /\ Len(more) = Len(log) + Len(incoming)
  /\ \A k \in 1 .. Len(incoming) : more[Len(log) + k] = incoming[k]

LEMMA AdvancesMatch ==
  ASSUME NEW C, NEW log, NEW more, LogOf(log, C), LogOf(more, C),
         NEW incoming, Followed(log, incoming, more),
         \A k \in 1 .. Len(incoming) : incoming[k].kind # "undo",
         Project(log).ok
  PROVE  \A k \in 0 .. Len(incoming) :
           /\ ViewType(Advances(Project(log), incoming)[k])
           /\ Advances(Project(log), incoming)[k].ok =>
                Matches(Advances(Project(log), incoming)[k],
                        Projections(more)[Len(log) + k], more, Len(log) + k)
<1> DEFINE v == Advances(Project(log), incoming)
           N == Len(log)
           S == {k \in Nat :
                   /\ ViewType(v[k])
                   /\ v[k].ok =>
                        Matches(v[k], Projections(more)[N + k], more, N + k)}
<1>1. /\ v[0] = Project(log)
      /\ \A k \in 1 .. Len(incoming) : v[k] = AdvanceStep(v[k - 1], incoming[k])
  BY AdvancesUnfold DEF Finite, Followed
<1>2. N \in Nat /\ N \in 0 .. N /\ Len(incoming) \in Nat
  BY LogFinite DEF Followed
<1> HIDE DEF v
<1>3. 0 \in S
  <2>1. PICK p : p = Projections(log)[N]
    OBVIOUS
  <2>2. ProjectionType(p, C, N)
    BY <1>2, <2>1, ProjectionsTyped
  <2>3. PICK w, e : /\ w = Project(log) /\ e = Evidence(log, p.st, p.observed)
    OBVIOUS
  <2>4. w = [ok |-> p.ok, st |-> p.st, latest |-> p.latest,
             undone |-> p.undone, evidence |-> e]
    BY <2>1, <2>3 DEF Project, Presentable
  <2>5. ViewType(w) /\ p.ok
    BY <2>2, <2>3, <2>4 DEF ViewType, ProjectionType
  <2>6. p.observed \in Seq(EncounterType(C))
        /\ DOMAIN p.observed = 1 .. Len(p.observed)
        /\ Len(p.observed) \in Nat
    BY <2>2, <2>5 DEF ProjectionType
  <2> DEFINE x(i) == Entry(p.observed[i], log, N,
               ~Known(p.st, p.observed[i].id),
               Known(p.st, p.observed[i].id)
                 /\ Encounter(p.st, p.observed[i].id).skipped,
               IF Known(p.st, p.observed[i].id)
               THEN Encounter(p.st, p.observed[i].id).answer ELSE "none")
  <2>7. e = [i \in 1 .. Len(p.observed) |-> x(i)]
    BY <2>3, <2>6, Zenon DEF Evidence, Entry
  <2>8. \A i \in 1 .. Len(p.observed) : \E u, s, f :
          x(i) = Entry(p.observed[i], log, N, u, s, f)
    BY Zenon
  <2>9. \A u, s, f : \A i \in 1 .. Len(p.observed) :
          Entry(p.observed[i], log, N, u, s, f)
            = Entry(p.observed[i], more, N, u, s, f)
    <3>1. \A kind, id : Given(more, kind, id)[N] = Given(log, kind, id)[N]
      BY LogFinite, GivenContinues DEF Followed
    <3> QED BY <3>1, Zenon DEF Entry
  <2> HIDE DEF x
  <2>10. e \in Seq({x(i) : i \in 1 .. Len(p.observed)})
         /\ Len(e) = Len(p.observed)
    BY <2>6, <2>7, SeqDef
  <2>11. \A i \in 1 .. Len(p.observed) : \E u, s, f :
           e[i] = Entry(p.observed[i], more, N, u, s, f)
    <3> SUFFICES ASSUME NEW i \in 1 .. Len(p.observed)
                 PROVE  \E u, s, f :
                          e[i] = Entry(p.observed[i], more, N, u, s, f)
      OBVIOUS
    <3>1. PICK u, s, f : x(i) = Entry(p.observed[i], log, N, u, s, f)
      BY <2>8
    <3>2. e[i] = Entry(p.observed[i], more, N, u, s, f)
      BY <2>7, <2>9, <3>1
    <3> QED BY <3>2
  <2>12. EntriesOf(e, p.observed, more, N)
    BY <2>10, <2>11 DEF EntriesOf
  <2>13. Projections(more)[N] = p
    BY <2>1, ProjectionsContinue DEF Followed
  <2>14. Matches(w, p, more, N)
    BY <2>4, <2>5, <2>12 DEF Matches
  <2>15. N + 0 = N
    BY <1>2
  <2> QED BY <1>1, <2>3, <2>5, <2>13, <2>14, <2>15
<1>4. ASSUME NEW k \in 0 .. Len(incoming) - 1, k \in S PROVE k + 1 \in S
  <2>1. /\ k \in Nat /\ k + 1 \in Nat /\ k + 1 \in 1 .. Len(incoming)
        /\ (k + 1) - 1 = k /\ N + (k + 1) = (N + k) + 1
        /\ N + k \in 0 .. Len(more) - 1
    BY <1>2 DEF Followed
  <2>2. more[(N + k) + 1] = incoming[k + 1]
    BY <2>1 DEF Followed
  <2>3. v[k + 1] = AdvanceStep(v[k], more[(N + k) + 1])
    BY <1>1, <2>1, <2>2
  <2>4. PICK n, w : n = N + k /\ w = v[k]
    OBVIOUS
  <2>5. ViewType(w) /\ (w.ok => Matches(w, Projections(more)[n], more, n))
    BY <1>4, <2>4
  <2>6. more[n + 1].kind # "undo"
    BY <2>1, <2>2, <2>4
  <2>7. n \in 0 .. Len(more) - 1
    BY <2>1, <2>4
  <2>8. /\ ViewType(AdvanceStep(w, more[n + 1]))
        /\ AdvanceStep(w, more[n + 1]).ok =>
             Matches(AdvanceStep(w, more[n + 1]), Projections(more)[n + 1],
                     more, n + 1)
    BY <2>5, <2>6, <2>7, AdvanceStepMatches
  <2> QED BY <2>1, <2>3, <2>4, <2>8
<1> HIDE DEF S
<1>5. \A k \in 0 .. Len(incoming) : k \in S
  BY <1>2, <1>3, <1>4, InductionUpTo
<1> QED BY <1>5 DEF S, v

\* advanceVocabularySession computes what projectVocabularySession would: on
\* every log and for every list of new actions that it accepts.
THEOREM AdvanceIsProject ==
  ASSUME NEW C, NEW log, LogOf(log, C), Project(log).ok,
         NEW S, NEW incoming \in Seq(S), LogOf(log \o incoming, C),
         Advance(Project(log), log, incoming).ok
  PROVE  Advance(Project(log), log, incoming) = Project(log \o incoming)
<1>1. DOMAIN incoming = 1 .. Len(incoming) /\ Len(incoming) \in Nat
  OBVIOUS
<1>2. CASE \E i \in DOMAIN incoming : incoming[i].kind = "undo"
  BY <1>2 DEF Advance
<1>3. CASE ~(\E i \in DOMAIN incoming : incoming[i].kind = "undo")
  <2>1. PICK more : more = log \o incoming
    OBVIOUS
  <2>2. LogOf(more, C)
    BY <2>1
  <2>3. Followed(log, incoming, more)
    <3>1. PICK T : log \in Seq(T)
      BY DEF LogOf
    <3>2. Len(log) \in Nat /\ Len(more) = Len(log) + Len(incoming)
      BY <2>1, <3>1
    <3>3. \A i \in 1 .. Len(log) : more[i] = log[i]
      BY <2>1, <3>1
    <3>4. \A k \in 1 .. Len(incoming) : more[Len(log) + k] = incoming[k]
      BY <2>1, <3>1
    <3> QED BY <1>1, <3>2, <3>3, <3>4 DEF Followed, Continues
  <2>4. Len(more) = Len(log) + Len(incoming) /\ Len(log) \in Nat
        /\ Len(more) \in 0 .. Len(more)
    BY <1>1, <2>3, LogFinite DEF Followed
  <2>5. PICK k : k = Len(incoming)
    OBVIOUS
  <2>6. PICK v : v = Advances(Project(log), incoming)[k]
    OBVIOUS
  <2>7. Advance(Project(log), log, incoming) = Refreshed(v)
    BY <1>3, <2>5, <2>6 DEF Advance
  <2>8. /\ ViewType(v)
        /\ v.ok => Matches(v, Projections(more)[Len(more)], more, Len(more))
    <3>1. k \in 0 .. Len(incoming) /\ Len(log) + k = Len(more)
      BY <1>1, <2>4, <2>5
    <3>2. \A j \in 1 .. Len(incoming) : incoming[j].kind # "undo"
      BY <1>1, <1>3
    <3> QED BY <2>2, <2>3, <2>6, <3>1, <3>2, AdvancesMatch
  <2>9. v.ok
    <3>1. Refreshed(v).ok = v.ok
      <4>1. PICK e : Refreshed(v) = [v EXCEPT !.evidence = e]
        BY DEF Refreshed
      <4>2. PICK b, s, l, u, x : v = [ok |-> b, st |-> s, latest |-> l,
                                      undone |-> u, evidence |-> x]
        BY <2>8 DEF ViewType
      <4> QED BY <4>1, <4>2
    <3> QED BY <2>7, <3>1
  <2>10. Refreshed(v) = Presentable(more, Projections(more)[Len(more)])
    BY <2>2, <2>4, <2>8, <2>9, ProjectionsTyped, RefreshedMatches
  <2> QED BY <2>1, <2>7, <2>10 DEF Project
<1> QED BY <1>2, <1>3

-----------------------------------------------------------------------------
(* Observations survive.                                                   *)

Prefixed(s, t) ==
  /\ \E S : s \in Seq(S) /\ t \in Seq(S)
  /\ Len(s) <= Len(t) /\ \A i \in 1 .. Len(s) : t[i] = s[i]

LEMMA PrefixedIsPrefix ==
  ASSUME NEW s, NEW t, Prefixed(s, t) PROVE IsPrefix(s, t)
<1>1. PICK S : s \in Seq(S) /\ t \in Seq(S)
  BY DEF Prefixed
<1>2. Len(s) \in Nat /\ Len(t) \in Nat /\ Len(s) \in 0 .. Len(t)
      /\ Len(s) \in 0 .. Len(s) /\ \A i \in 1 .. Len(s) : t[i] = s[i]
  BY <1>1 DEF Prefixed
<1>3. PICK x, y : x = SubSeq(s, 1, Len(s)) /\ y = SubSeq(t, 1, Len(s))
  OBVIOUS
<1>4. /\ x \in Seq(S) /\ Len(x) = Len(s)
      /\ \A i \in 1 .. Len(s) : x[i] = s[i]
  BY <1>1, <1>2, <1>3, SubSeqProperties
<1>5. /\ y \in Seq(S) /\ Len(y) = Len(s)
      /\ \A i \in 1 .. Len(s) : y[i] = t[i]
  BY <1>1, <1>2, <1>3, SubSeqProperties
<1>6. x = y
  BY <1>2, <1>4, <1>5
<1> QED BY <1>2, <1>3, <1>6 DEF IsPrefix

LEMMA PrefixedReflexive ==
  ASSUME NEW S, NEW s \in Seq(S) PROVE Prefixed(s, s)
<1>1. Len(s) <= Len(s)
  OBVIOUS
<1> QED BY <1>1 DEF Prefixed

LEMMA PrefixedAppend ==
  ASSUME NEW s, NEW t, Prefixed(s, t), NEW a PROVE Prefixed(s, Append(t, a))
<1>1. PICK S : s \in Seq(S) /\ t \in Seq(S)
  BY DEF Prefixed
<1>2. PICK u : u = Append(t, a)
  OBVIOUS
<1>3. /\ s \in Seq(S \cup {a}) /\ u \in Seq(S \cup {a})
      /\ Len(u) = Len(t) + 1 /\ Len(s) \in Nat /\ Len(t) \in Nat
      /\ \A i \in 1 .. Len(t) : u[i] = t[i]
  BY <1>1, <1>2
<1>4. Len(s) <= Len(u) /\ \A i \in 1 .. Len(s) : u[i] = s[i]
  BY <1>3 DEF Prefixed
<1>5. Prefixed(s, u)
  BY <1>3, <1>4 DEF Prefixed
<1> QED BY <1>2, <1>5

LEMMA GivenGrows ==
  ASSUME NEW log, Finite(log), NEW kind, NEW e, NEW n \in 0 .. Len(log)
  PROVE  \A m \in n .. Len(log) :
           Prefixed(Given(log, kind, e)[n], Given(log, kind, e)[m])
<1> DEFINE g == Given(log, kind, e)
           T == {m \in Nat : \E S : g[m] \in Seq(S)}
           R == {m \in Nat : m >= n => Prefixed(g[n], g[m])}
<1>1. /\ g[0] = <<>> /\ Len(log) \in Nat
      /\ \A m \in 1 .. Len(log) : g[m] = Gathered(g[m - 1], log[m], kind, e)
  BY GivenUnfold DEF Finite
<1> HIDE DEF g
<1>2. 0 \in T
  <2>1. <<>> \in Seq({})
    OBVIOUS
  <2> QED BY <1>1, <2>1
<1>3. ASSUME NEW m \in 0 .. Len(log) - 1, m \in T PROVE m + 1 \in T
  <2>1. m \in Nat /\ m + 1 \in Nat /\ m + 1 \in 1 .. Len(log) /\ (m + 1) - 1 = m
    BY <1>1
  <2>2. PICK S : g[m] \in Seq(S)
    BY <1>3
  <2>3. PICK x, y, a : x = g[m] /\ y = g[m + 1] /\ a = log[m + 1]
    OBVIOUS
  <2>4. y = x \/ y = Append(x, a)
    BY <1>1, <2>1, <2>3 DEF Gathered
  <2>5. x \in Seq(S \cup {a}) /\ Append(x, a) \in Seq(S \cup {a})
    BY <2>2, <2>3
  <2>6. \E S_1 : g[m + 1] \in Seq(S_1)
    BY <2>3, <2>4, <2>5
  <2> QED BY <2>1, <2>6
<1> HIDE DEF T
<1>4. \A m \in 0 .. Len(log) : m \in T
  BY <1>1, <1>2, <1>3, InductionUpTo
<1>5. Prefixed(g[n], g[n])
  BY <1>4, PrefixedReflexive DEF T
<1>6. 0 \in R
  BY <1>1, <1>5
<1>7. ASSUME NEW m \in 0 .. Len(log) - 1, m \in R PROVE m + 1 \in R
  <2>1. m \in Nat /\ m + 1 \in Nat /\ m + 1 \in 1 .. Len(log) /\ (m + 1) - 1 = m
    BY <1>1
  <2>2. CASE m + 1 <= n
    BY <1>1, <1>5, <2>1, <2>2
  <2>3. CASE m >= n
    <3>1. PICK s, x, y, a : s = g[n] /\ x = g[m] /\ y = g[m + 1] /\ a = log[m + 1]
      OBVIOUS
    <3>2. y = x \/ y = Append(x, a)
      BY <1>1, <2>1, <3>1 DEF Gathered
    <3>3. Prefixed(s, x)
      BY <1>7, <2>3, <3>1
    <3>4. Prefixed(s, y)
      BY <3>2, <3>3, PrefixedAppend
    <3> QED BY <2>1, <3>1, <3>4
  <2> QED BY <1>1, <2>1, <2>2, <2>3
<1> HIDE DEF R
<1>8. \A m \in 0 .. Len(log) : m \in R
  BY <1>1, <1>6, <1>7, InductionUpTo
<1>9. \A m \in n .. Len(log) : m \in 0 .. Len(log) /\ m >= n
  BY <1>1
<1> QED BY <1>8, <1>9 DEF R, g

LEMMA ObservedGrows ==
  ASSUME NEW C, NEW log, LogOf(log, C), NEW n \in 0 .. Len(log)
  PROVE  \A m \in n .. Len(log) : Projections(log)[m].ok =>
           /\ Projections(log)[n].ok
           /\ Prefixed(Projections(log)[n].observed,
                       Projections(log)[m].observed)
<1> DEFINE p == Projections(log)
           R == {m \in Nat : (m >= n /\ p[m].ok) =>
                   p[n].ok /\ Prefixed(p[n].observed, p[m].observed)}
<1>1. /\ \A m \in 1 .. Len(log) : p[m] = ProjectStep(log, p[m - 1], log[m])
      /\ \A m \in 0 .. Len(log) : ProjectionType(p[m], C, m)
      /\ Len(log) \in Nat
  BY LogFinite, ProjectionsTyped
<1> HIDE DEF p
<1>2. p[n].ok => Prefixed(p[n].observed, p[n].observed)
  BY <1>1, PrefixedReflexive DEF ProjectionType
<1>3. 0 \in R
  BY <1>1, <1>2
<1>4. ASSUME NEW m \in 0 .. Len(log) - 1, m \in R PROVE m + 1 \in R
  <2>1. /\ m \in Nat /\ m + 1 \in Nat /\ m + 1 \in 1 .. Len(log)
        /\ (m + 1) - 1 = m /\ m \in 0 .. Len(log)
    BY <1>1
  <2>2. CASE m + 1 <= n
    BY <1>1, <1>2, <2>1, <2>2
  <2>3. CASE m >= n
    <3>1. PICK o, x, y, a : o = p[n] /\ x = p[m] /\ y = p[m + 1] /\ a = log[m + 1]
      OBVIOUS
    <3>2. y = ProjectStep(log, x, a) /\ ProjectionType(x, C, m)
      BY <1>1, <2>1, <3>1
    <3>3. /\ y.ok => x.ok
          /\ (y.ok /\ a.kind = "undo") => Withdraws(log, m, x, y)
          /\ (y.ok /\ a.kind # "undo") => Extends(x, a, y)
      BY <3>1, <3>2, ProjectStepCases
    <3>4. y.ok => \/ y.observed = x.observed
                  \/ \E e : y.observed = Append(x.observed, e)
      BY <3>3 DEF Withdraws, Extends
    <3>5. ASSUME y.ok PROVE o.ok /\ Prefixed(o.observed, y.observed)
      <4>1. o.ok /\ Prefixed(o.observed, x.observed)
        BY <1>4, <2>3, <3>1, <3>3, <3>5
      <4> QED BY <3>4, <3>5, <4>1, PrefixedAppend
    <3> QED BY <2>1, <3>1, <3>5
  <2> QED BY <1>1, <2>1, <2>2, <2>3
<1> HIDE DEF R
<1>5. \A m \in 0 .. Len(log) : m \in R
  BY <1>1, <1>3, <1>4, InductionUpTo
<1>6. \A m \in n .. Len(log) : m \in 0 .. Len(log) /\ m >= n
  BY <1>1
<1> QED BY <1>5, <1>6 DEF R, p

\* Every entry of the evidence stays, with what was given for it.
LEMMA EvidenceSurvives ==
  ASSUME NEW C, NEW log, NEW more, LogOf(log, C), LogOf(more, C),
         Continues(log, more, Len(log)), Project(more).ok,
         NEW i \in DOMAIN Project(log).evidence
  PROVE  /\ i \in DOMAIN Project(more).evidence
         /\ Project(more).evidence[i].id = Project(log).evidence[i].id
         /\ Project(more).evidence[i].work = Project(log).evidence[i].work
         /\ Project(more).evidence[i].mode = Project(log).evidence[i].mode
         /\ IsPrefix(Project(log).evidence[i].responses,
                     Project(more).evidence[i].responses)
         /\ IsPrefix(Project(log).evidence[i].reactions,
                     Project(more).evidence[i].reactions)
<1>1. PICK n, m : n = Len(log) /\ m = Len(more)
  OBVIOUS
<1>2. n \in Nat /\ m \in Nat /\ n \in 0 .. m /\ m \in n .. m
  BY <1>1, LogFinite DEF Continues
<1>3. PICK p, q : p = Projections(log)[n] /\ q = Projections(more)[m]
  OBVIOUS
<1>4. q.ok
  BY <1>1, <1>3 DEF Project, Presentable
<1>5. Projections(more)[n] = p
  BY <1>1, <1>3, ProjectionsContinue
<1>6. p.ok /\ Prefixed(p.observed, q.observed)
  BY <1>1, <1>2, <1>3, <1>4, <1>5, ObservedGrows
<1>7. /\ p.observed \in Seq(EncounterType(C))
      /\ q.observed \in Seq(EncounterType(C))
  <2>1. n \in 0 .. Len(log) /\ m \in 0 .. Len(more)
    BY <1>1, <1>2
  <2>2. ProjectionType(p, C, n) /\ ProjectionType(q, C, m)
    BY <1>3, <2>1, ProjectionsTyped
  <2> QED BY <1>4, <1>6, <2>2 DEF ProjectionType
<1>8. PICK e, f : /\ e = Evidence(log, p.st, p.observed)
                  /\ f = Evidence(more, q.st, q.observed)
  OBVIOUS
<1>9. Project(log).evidence = e /\ Project(more).evidence = f
  BY <1>1, <1>3, <1>8 DEF Project, Presentable
<1>10. i \in DOMAIN p.observed /\ i \in DOMAIN q.observed
       /\ q.observed[i] = p.observed[i]
  <2>1. i \in DOMAIN e
    BY <1>9
  <2>2. i \in DOMAIN p.observed
    BY <1>8, <2>1 DEF Evidence
  <2> QED BY <1>6, <1>7, <2>2 DEF Prefixed
<1>11. PICK o : o = p.observed[i]
  OBVIOUS
<1>12. /\ \E u, s, x : Evidence(log, p.st, p.observed)[i]
                         = Entry(p.observed[i], log, Len(log), u, s, x)
       /\ \E u, s, x : Evidence(more, q.st, q.observed)[i]
                         = Entry(q.observed[i], more, Len(more), u, s, x)
  BY <1>10, EvidenceEntry, Zenon
<1>13. /\ \E u, s, x : e[i] = Entry(o, log, n, u, s, x)
       /\ \E u, s, x : f[i] = Entry(o, more, m, u, s, x)
  BY <1>1, <1>8, <1>10, <1>11, <1>12, Zenon
<1>14. i \in DOMAIN f
  BY <1>8, <1>10 DEF Evidence
<1>15. f[i].id = e[i].id /\ f[i].work = e[i].work /\ f[i].mode = e[i].mode
  BY <1>13 DEF Entry
<1>16. ASSUME NEW kind
       PROVE  IsPrefix(Given(log, kind, o.id)[n], Given(more, kind, o.id)[m])
  <2>1. Given(more, kind, o.id)[n] = Given(log, kind, o.id)[n]
    BY <1>1, LogFinite, GivenContinues
  <2>2. Prefixed(Given(more, kind, o.id)[n], Given(more, kind, o.id)[m])
    BY <1>1, <1>2, LogFinite, GivenGrows
  <2> QED BY <2>1, <2>2, PrefixedIsPrefix
<1>17. /\ IsPrefix(e[i].responses, f[i].responses)
       /\ IsPrefix(e[i].reactions, f[i].reactions)
  BY <1>13, <1>16 DEF Entry
<1> QED BY <1>9, <1>14, <1>15, <1>17

-----------------------------------------------------------------------------
(* Everything a projection can reach.                                      *)

\* The actions of a prefix that count.
InForce(log, n, undone) ==
  {log[i] : i \in {j \in 1 .. n : log[j].kind # "undo" /\ j \notin undone}}

\* A relation between states and the actions in force in them is closed if
\* an action that is accepted, in replay or at first, keeps it.
Closed(G, C, actions) ==
  /\ <<EmptyState, {}>> \in G
  /\ \A st, A, a :
       /\ st \in StateType(C) /\ <<st, A>> \in G
       /\ a \in actions /\ WellFormed(a, C) /\ a.kind # "undo"
       /\ IdsUpTo(st.encounters, a.seq - 1)
       /\ Allowed(st, a, TRUE)
       => <<Settle(Effect(st, a)), A \cup {a}>> \in G

\* Replay relaxes the rules, and only relaxes them.
LEMMA ReplayRelaxes ==
  ASSUME NEW st, NEW a, NEW replaying \in BOOLEAN, Allowed(st, a, replaying)
  PROVE  Allowed(st, a, TRUE)
<1>1. CASE a.kind = "presentation"
  BY <1>1 DEF Allowed, PresentationAllowed
<1>2. CASE a.kind # "presentation"
  BY <1>2 DEF Allowed
<1> QED BY <1>1, <1>2

LEMMA StepReaches ==
  ASSUME NEW C, NEW G, NEW actions, Closed(G, C, actions),
         NEW n \in Nat, NEW run, RunType(run, C, n), NEW A,
         run.ok => <<run.st, A>> \in G,
         NEW a \in actions, WellFormed(a, C), a.seq = n + 1,
         a.kind # "undo", NEW replaying \in BOOLEAN,
         Step(run, a, replaying).ok
  PROVE  <<Step(run, a, replaying).st, A \cup {a}>> \in G
<1>1. /\ run.ok /\ Allowed(run.st, a, replaying)
      /\ Step(run, a, replaying).st = Settle(Effect(run.st, a))
  BY StepAccepted DEF RunType
<1>2. Allowed(run.st, a, TRUE)
  BY <1>1, ReplayRelaxes
<1>3. a.seq - 1 = n
  OBVIOUS
<1>4. run.st \in StateType(C) /\ IdsUpTo(run.st.encounters, a.seq - 1)
  BY <1>1, <1>3 DEF RunType
<1> QED BY <1>1, <1>2, <1>4 DEF Closed

LEMMA ReplayReaches ==
  ASSUME NEW C, NEW G, NEW actions, Closed(G, C, actions), NEW log,
         LogOf(log, C), \A i \in 1 .. Len(log) : log[i] \in actions, NEW undone
  PROVE  \A n \in 0 .. Len(log) : Reruns(log, undone)[n].ok =>
           <<Reruns(log, undone)[n].st, InForce(log, n, undone)>> \in G
<1> DEFINE r == Reruns(log, undone)
           S == {n \in Nat : r[n].ok => <<r[n].st, InForce(log, n, undone)>> \in G}
<1>1. /\ r[0] = [ok |-> TRUE, st |-> EmptyState]
      /\ \A n \in 1 .. Len(log) : r[n] = Rerun(r[n - 1], log[n], undone)
      /\ \A n \in 0 .. Len(log) : RunType(r[n], C, n)
      /\ Len(log) \in Nat
  BY LogFinite, RerunsUnfold, ReplayTyped
<1> HIDE DEF r
<1>2. 0 \in S
  <2>1. InForce(log, 0, undone) = {}
    BY DEF InForce
  <2>2. r[0].st = EmptyState
    BY <1>1
  <2> QED BY <2>1, <2>2 DEF Closed
<1>3. ASSUME NEW n \in 0 .. Len(log) - 1, n \in S PROVE n + 1 \in S
  <2>1. /\ n \in Nat /\ n + 1 \in Nat /\ n + 1 \in 1 .. Len(log)
        /\ (n + 1) - 1 = n /\ n \in 0 .. Len(log)
    BY <1>1
  <2>2. PICK a, x, y, A : /\ a = log[n + 1] /\ x = r[n] /\ y = r[n + 1]
                          /\ A = InForce(log, n, undone)
    OBVIOUS
  <2>3. /\ y = Rerun(x, a, undone) /\ RunType(x, C, n)
        /\ (x.ok => <<x.st, A>> \in G)
        /\ a.seq = n + 1 /\ WellFormed(a, C) /\ a \in actions
    BY <1>1, <1>3, <2>1, <2>2 DEF LogOf
  <2>4. CASE a.kind = "undo" \/ a.seq \in undone
    <3>1. y = x
      BY <2>3, <2>4 DEF Rerun
    <3>2. InForce(log, n + 1, undone) = A
      BY <2>1, <2>2, <2>3, <2>4 DEF InForce
    <3> QED BY <2>1, <2>2, <2>3, <3>1, <3>2
  <2>5. CASE ~(a.kind = "undo" \/ a.seq \in undone)
    <3>1. PICK t \in BOOLEAN : t = TRUE
      OBVIOUS
    <3>2. y = Step(x, a, t)
      BY <2>3, <2>5, <3>1, Zenon DEF Rerun
    <3>3. InForce(log, n + 1, undone) = A \cup {a}
      BY <2>1, <2>2, <2>3, <2>5 DEF InForce
    <3>4. y.ok => <<y.st, A \cup {a}>> \in G
      BY <2>1, <2>3, <2>5, <3>2, StepReaches
    <3> QED BY <2>1, <2>2, <3>3, <3>4
  <2> QED BY <2>4, <2>5
<1> HIDE DEF S
<1>4. \A n \in 0 .. Len(log) : n \in S
  BY <1>1, <1>2, <1>3, InductionUpTo
<1> QED BY <1>4 DEF S, r

\* The state of a projection is related to the actions in force by every
\* closed relation.
LEMMA ProjectionReaches ==
  ASSUME NEW C, NEW G, NEW actions, Closed(G, C, actions), NEW log,
         LogOf(log, C), \A i \in 1 .. Len(log) : log[i] \in actions
  PROVE  \A n \in 0 .. Len(log) : Projections(log)[n].ok =>
           <<Projections(log)[n].st,
             InForce(log, n, Projections(log)[n].undone)>> \in G
<1> DEFINE p == Projections(log)
           S == {n \in Nat : p[n].ok =>
                   <<p[n].st, InForce(log, n, p[n].undone)>> \in G}
<1>1. /\ p[0] = NothingProjected
      /\ \A n \in 1 .. Len(log) : p[n] = ProjectStep(log, p[n - 1], log[n])
      /\ \A n \in 0 .. Len(log) : ProjectionType(p[n], C, n)
      /\ Len(log) \in Nat
  BY LogFinite, ProjectionsTyped
<1> HIDE DEF p
<1>2. 0 \in S
  <2>1. \A u : InForce(log, 0, u) = {}
    BY DEF InForce
  <2>2. p[0].st = EmptyState
    BY <1>1 DEF NothingProjected
  <2> QED BY <2>1, <2>2 DEF Closed
<1>3. ASSUME NEW n \in 0 .. Len(log) - 1, n \in S PROVE n + 1 \in S
  <2>1. /\ n \in Nat /\ n + 1 \in Nat /\ n + 1 \in 1 .. Len(log)
        /\ (n + 1) - 1 = n /\ n \in 0 .. Len(log)
    BY <1>1
  <2>2. PICK a, x, y : a = log[n + 1] /\ x = p[n] /\ y = p[n + 1]
    OBVIOUS
  <2>3. /\ y = ProjectStep(log, x, a) /\ ProjectionType(x, C, n)
        /\ (x.ok => <<x.st, InForce(log, n, x.undone)>> \in G)
        /\ a.seq = n + 1 /\ WellFormed(a, C) /\ a \in actions
    BY <1>1, <1>3, <2>1, <2>2 DEF LogOf
  <2>4. /\ y.ok => x.ok
        /\ (y.ok /\ a.kind = "undo") => Withdraws(log, n, x, y)
        /\ (y.ok /\ a.kind # "undo") => Extends(x, a, y)
    BY <2>2, <2>3, ProjectStepCases
  <2>5. ASSUME y.ok, a.kind # "undo"
        PROVE  <<y.st, InForce(log, n + 1, y.undone)>> \in G
    <3>0. PICK f \in BOOLEAN : f = FALSE
      OBVIOUS
    <3>1. PICK run : f = FALSE /\ run = [ok |-> TRUE, st |-> x.st]
      BY <3>0
    <3>2. /\ Step(run, a, f).ok /\ y.st = Step(run, a, f).st
          /\ y.undone = x.undone
      BY <2>4, <2>5, <3>1, Zenon DEF Extends
    <3>3. RunType(run, C, n)
      BY <2>3, <2>4, <2>5, <3>1 DEF ProjectionType, RunType
    <3>4. <<run.st, InForce(log, n, x.undone)>> \in G
      BY <2>3, <2>4, <2>5, <3>1
    <3>5. <<y.st, InForce(log, n, x.undone) \cup {a}>> \in G
      BY <2>1, <2>3, <2>5, <3>0, <3>2, <3>3, <3>4, StepReaches
    <3>6. x.undone \subseteq 1 .. n
      BY <2>3, <2>4, <2>5 DEF ProjectionType
    <3>7. InForce(log, n + 1, x.undone) = InForce(log, n, x.undone) \cup {a}
      <4>1. n + 1 \notin x.undone /\ 1 .. n + 1 = (1 .. n) \cup {n + 1}
        BY <2>1, <3>6
      <4>2. {j \in 1 .. n + 1 : log[j].kind # "undo" /\ j \notin x.undone}
              = {j \in 1 .. n : log[j].kind # "undo" /\ j \notin x.undone}
                  \cup {n + 1}
        BY <2>2, <2>5, <4>1
      <4> QED BY <2>2, <4>2 DEF InForce
    <3> QED BY <3>2, <3>5, <3>7
  <2>6. ASSUME y.ok, a.kind = "undo"
        PROVE  <<y.st, InForce(log, n + 1, y.undone)>> \in G
    <3>1. PICK prefix : prefix = SubSeq(log, 1, n)
      OBVIOUS
    <3>2. /\ Replay(prefix, y.undone).ok
          /\ y.st = Replay(prefix, y.undone).st
      BY <2>4, <2>6, <3>1 DEF Withdraws
    <3>3. /\ LogOf(prefix, C) /\ Len(prefix) = n
          /\ \A i \in 1 .. n : prefix[i] = log[i]
      BY <2>1, <3>1, PrefixOfLog
    <3>4. \A i \in 1 .. Len(prefix) : prefix[i] \in actions
      BY <1>1, <2>1, <3>3
    <3>5. <<y.st, InForce(prefix, n, y.undone)>> \in G
      BY <2>1, <3>2, <3>3, <3>4, ReplayReaches DEF Replay
    <3>6. InForce(prefix, n, y.undone) = InForce(log, n, y.undone)
      BY <3>3 DEF InForce
    <3>7. InForce(log, n + 1, y.undone) = InForce(log, n, y.undone)
      BY <2>1, <2>2, <2>6 DEF InForce
    <3> QED BY <3>5, <3>6, <3>7
  <2>7. y.ok => <<y.st, InForce(log, n + 1, y.undone)>> \in G
    BY <2>5, <2>6
  <2> QED BY <2>1, <2>2, <2>7
<1> HIDE DEF S
<1>4. \A n \in 0 .. Len(log) : n \in S
  BY <1>1, <1>2, <1>3, InductionUpTo
<1> QED BY <1>4 DEF S, p

-----------------------------------------------------------------------------
(* The phase.                                                              *)

\* Only three actions change the phase.
LEMMA EffectPhase ==
  ASSUME NEW C, NEW st \in StateType(C), NEW a, WellFormed(a, C),
         NEW replaying, Allowed(st, a, replaying),
         a.kind \notin {"resume", "finish_for_now", "finish_immediately"}
  PROVE  /\ Effect(st, a).phase = st.phase
         /\ Effect(st, a).finishReason = st.finishReason
<1>1. CASE a.kind = "presentation"
  <2>1. PICK e \in EncounterType(C), ws \in [Words -> WordType] :
          PresentedAs(st, a, e, ws)
    BY <1>1, PresentedTyped
  <2>2. Effect(st, a) = [st EXCEPT !.words = ws, !.encounters = Append(@, e)]
    BY <1>1, <2>1 DEF PresentedAs, Effect
  <2> QED BY <2>2 DEF StateType
<1>2. CASE a.kind = "response"
  <2>1. PICK i : i = IndexOf(st, a.encounter)
    OBVIOUS
  <2>2. PICK m \in EncounterType(C), ws \in [Words -> WordType] :
          AnsweredAs(st, i, a, m, ws)
    BY <1>2, <2>1, AnsweredTyped
  <2>3. Effect(st, a) =
          [st EXCEPT !.words = ws, !.encounters = [@ EXCEPT ![i] = m]]
    BY <1>2, <2>1, <2>2 DEF AnsweredAs, Effect
  <2> QED BY <2>3 DEF StateType
<1>3. CASE a.kind = "exercise_skip"
  <2>1. PICK i \in DOMAIN st.encounters, m \in EncounterType(C) :
          SkippedAs(st, i, a, m)
    BY <1>3, SkippedTyped
  <2>2. Effect(st, a) = [st EXCEPT !.encounters = [@ EXCEPT ![i] = m]]
    BY <2>1 DEF SkippedAs
  <2> QED BY <2>2 DEF StateType
<1>4. CASE a.kind \in WordKinds
  <2>1. PICK x : Effect(st, a) = [st EXCEPT !.words[a.word] = x]
    BY <1>4, WordEffectTyped
  <2> QED BY <2>1 DEF StateType
<1>5. CASE a.kind = "feedback"
  BY <1>5 DEF Effect
<1>6. CASE a.kind = "exercise_exclude"
  <2>1. PICK x : Effect(st, a) = [st EXCEPT !.excluded = x]
    BY <1>6 DEF Effect
  <2> QED BY <2>1 DEF StateType
<1> QED BY <1>1, <1>2, <1>3, <1>4, <1>5, <1>6, AllowedKinds DEF OtherKinds

\* To settle leaves the work as it is.
LEMMA SettledWork ==
  ASSUME NEW C, NEW st \in StateType(C)
  PROVE  WorkRemains(Settle(st)) <=> WorkRemains(st)
<1>1. PICK x : x = Settle(st)
  OBVIOUS
<1>2. /\ x.words = st.words /\ x.encounters = st.encounters
      /\ x.excluded = st.excluded
  BY <1>1, SettleTyped
<1>3. \A c : CuePending(x, c) <=> CuePending(st, c)
  BY <1>2, Zenon DEF CuePending, CueEncounters
<1> QED BY <1>1, <1>2, <1>3 DEF WorkRemains

\* Finishing lasts exactly as long as something started is unfinished.
Finished(st) ==
  /\ st.phase = "finishing" => WorkRemains(st)
  /\ (st.phase = "completed" /\ st.finishReason = "wrapped_up")
       => ~WorkRemains(st)

LEMMA SettledFinished ==
  ASSUME NEW C, NEW st \in StateType(C),
         st.phase # "completed" \/ st.finishReason # "wrapped_up"
  PROVE  Finished(Settle(st))
<1>1. CASE st.phase = "finishing" /\ ~WorkRemains(st)
  <2>1. ~WorkRemains(Settle(st))
    BY <1>1, SettledWork
  <2>2. Settle(st).phase = "completed"
    BY <1>1 DEF Settle, StateType
  <2> QED BY <2>1, <2>2 DEF Finished
<1>2. CASE ~(st.phase = "finishing" /\ ~WorkRemains(st))
  <2>1. Settle(st) = st
    BY <1>2 DEF Settle
  <2> QED BY <1>2, <2>1 DEF Finished
<1> QED BY <1>1, <1>2

LEMMA FinishedClosed ==
  ASSUME NEW C, NEW actions
  PROVE  Closed({x \in StateType(C) \X SUBSET actions : Finished(x[1])},
                C, actions)
<1> DEFINE G == {x \in StateType(C) \X SUBSET actions : Finished(x[1])}
<1>1. <<EmptyState, {}>> \in G
  <2>1. Finished(EmptyState)
    BY DEF Finished, EmptyState
  <2> QED BY <2>1, EmptyTyped
<1>2. ASSUME NEW st \in StateType(C), NEW A, <<st, A>> \in G,
             NEW a \in actions, WellFormed(a, C), Allowed(st, a, TRUE)
      PROVE  <<Settle(Effect(st, a)), A \cup {a}>> \in G
  <2>1. Finished(st) /\ A \cup {a} \in SUBSET actions
    BY <1>2
  <2>2. PICK new : new = Effect(st, a)
    OBVIOUS
  <2>3. new \in StateType(C) /\ Settle(new) \in StateType(C)
    BY <1>2, <2>2, EffectTyped, SettleTyped
  <2>4. CASE a.kind = "resume"
    <3>1. new.phase = "active"
      BY <2>2, <2>4 DEF Effect, StateType
    <3> QED BY <2>1, <2>2, <2>3, <3>1, SettledFinished
  <2>5. CASE a.kind = "finish_for_now"
    <3>1. new.phase = "finishing"
      BY <2>2, <2>5 DEF Effect, StateType
    <3> QED BY <2>1, <2>2, <2>3, <3>1, SettledFinished
  <2>6. CASE a.kind = "finish_immediately"
    <3>1. new.finishReason = "finish_immediately"
      BY <2>2, <2>6 DEF Effect, StateType
    <3> QED BY <2>1, <2>2, <2>3, <3>1, SettledFinished
  <2>7. CASE a.kind \notin {"resume", "finish_for_now", "finish_immediately"}
    <3>1. new.phase = st.phase /\ new.finishReason = st.finishReason
      BY <1>2, <2>2, <2>7, EffectPhase
    <3>2. CASE st.phase # "completed"
      BY <2>1, <2>2, <2>3, <3>1, <3>2, SettledFinished
    <3>3. CASE st.phase = "completed"
      <4>1. a.kind = "feedback"
        BY <1>2, <2>7, <3>3 DEF Allowed
      <4>2. Settle(new) = st
        BY <2>2, <3>3, <4>1 DEF Effect, Settle
      <4> QED BY <2>1, <2>2, <4>2
    <3> QED BY <3>2, <3>3
  <2> QED BY <2>4, <2>5, <2>6, <2>7
<1> HIDE DEF G
<1>3. Closed(G, C, actions)
  BY <1>1, <1>2 DEF Closed
<1> QED BY <1>3 DEF G

-----------------------------------------------------------------------------
(* What an accepted action leaves of the words and of the answers.         *)

\* The actions a word learns from.
Concerns(st, a, w) ==
  \/ /\ a.kind = "response"
     /\ st.encounters[IndexOf(st, a.encounter)].word = w
  \/ a.kind \in WordKinds /\ a.word = w

\* A word learns from its answers and from the actions on it; to be
\* presented teaches it nothing.
LearntBy(st, a, w, new) ==
  \/ SameLearning(new, st.words[w]) /\ ~Concerns(st, a, w)
  \/ /\ a.kind = "response"
     /\ \E i \in DOMAIN st.encounters :
          /\ i = IndexOf(st, a.encounter) /\ st.encounters[i].word = w
          /\ new = Graded(w, st.words[w], st.encounters[i], a.accepted)
  \/ /\ a.kind \in WordKinds /\ a.word = w
     /\ new = WordEffect(a, st.words[w])

LEMMA EffectOnWord ==
  ASSUME NEW C, NEW st \in StateType(C), NEW a, WellFormed(a, C),
         NEW replaying, Allowed(st, a, replaying), NEW w \in Words
  PROVE  LearntBy(st, a, w, Effect(st, a).words[w])
<1>1. CASE a.kind = "presentation"
  <2>1. PICK e \in EncounterType(C), ws \in [Words -> WordType] :
          PresentedAs(st, a, e, ws)
    BY <1>1, PresentedTyped
  <2>2. /\ Effect(st, a) = [st EXCEPT !.words = ws, !.encounters = Append(@, e)]
        /\ SameLearning(ws[w], st.words[w])
    BY <1>1, <2>1 DEF PresentedAs, Effect
  <2>3. Effect(st, a).words = ws
    BY <2>2 DEF StateType
  <2> QED BY <1>1, <2>2, <2>3 DEF LearntBy, Concerns, WordKinds
<1>2. CASE a.kind = "response"
  <2>1. PICK i : i = IndexOf(st, a.encounter)
    OBVIOUS
  <2>2. PICK m \in EncounterType(C), ws \in [Words -> WordType] :
          AnsweredAs(st, i, a, m, ws)
    BY <1>2, <2>1, AnsweredTyped
  <2>3. i \in DOMAIN st.encounters
    BY <1>2, <2>1, AnsweredTyped
  <2>4. Effect(st, a) =
          [st EXCEPT !.words = ws, !.encounters = [@ EXCEPT ![i] = m]]
    BY <1>2, <2>1, <2>2 DEF AnsweredAs, Effect
  <2>5. Effect(st, a).words = ws
    BY <2>4 DEF StateType
  <2>6. PICK e, words : e = st.encounters[i] /\ words = st.words
    OBVIOUS
  <2>7. /\ e.word = NoWord => ws = words
        /\ e.word # NoWord =>
             ws = [words EXCEPT ![e.word] = Graded(e.word, @, e, a.accepted)]
    BY <2>2, <2>6 DEF AnsweredAs
  <2>8. words \in [Words -> WordType]
    BY <2>6 DEF StateType
  <2>9. CASE e.word = w
    <3>1. e.word # NoWord
      BY <2>9, ReducerAssumption
    <3>2. ws[w] = Graded(w, words[w], e, a.accepted)
      BY <2>7, <2>8, <2>9, <3>1
    <3> QED BY <1>2, <2>1, <2>3, <2>5, <2>6, <2>9, <3>2 DEF LearntBy
  <2>10. CASE e.word # w
    <3>1. ws[w] = words[w]
      BY <2>7, <2>8, <2>10
    <3> QED BY <1>2, <2>1, <2>5, <2>6, <2>10, <3>1
             DEF LearntBy, SameLearning, Concerns, WordKinds
  <2> QED BY <2>9, <2>10
<1>3. CASE a.kind = "exercise_skip"
  <2>1. PICK i \in DOMAIN st.encounters, m \in EncounterType(C) :
          SkippedAs(st, i, a, m)
    BY <1>3, SkippedTyped
  <2>2. Effect(st, a) = [st EXCEPT !.encounters = [@ EXCEPT ![i] = m]]
    BY <2>1 DEF SkippedAs
  <2>3. Effect(st, a).words = st.words
    BY <2>2 DEF StateType
  <2> QED BY <1>3, <2>3 DEF LearntBy, SameLearning, Concerns, WordKinds
<1>4. CASE a.kind \in WordKinds
  <2>1. /\ a.word \in Words
        /\ Effect(st, a) =
             [st EXCEPT !.words[a.word] = WordEffect(a, st.words[a.word])]
    BY <1>4, WordEffectTyped
  <2>2. PICK x : x = WordEffect(a, st.words[a.word])
    OBVIOUS
  <2>3. /\ a.word = w => Effect(st, a).words[w] = x
        /\ a.word # w => Effect(st, a).words[w] = st.words[w]
    BY <2>1, <2>2 DEF StateType
  <2> QED BY <1>4, <2>2, <2>3
         DEF LearntBy, SameLearning, Concerns, WordKinds
<1>5. CASE a.kind \in OtherKinds
  <2>1. Effect(st, a).words = st.words
    BY <1>5, OtherTyped
  <2> QED BY <1>5, <2>1
         DEF LearntBy, SameLearning, Concerns, WordKinds, OtherKinds
<1> QED BY <1>1, <1>2, <1>3, <1>4, <1>5, AllowedKinds

\* An answer is given once, to an encounter that has none, and stays.
AnsweredBy(st, a, new) ==
  LET old == st.encounters
      i   == IndexOf(st, a.encounter)
  IN  /\ Len(old) <= Len(new)
      /\ \A j \in 1 .. Len(old) : Same(new[j], old[j])
      /\ \A j \in 1 .. Len(new) : j > Len(old) => new[j].answer = "none"
      /\ \A j \in 1 .. Len(old) :
           (a.kind = "response" /\ j = i) \/ new[j].answer = old[j].answer
      /\ a.kind = "response" =>
           /\ i \in 1 .. Len(old) /\ old[i].id = a.encounter
           /\ old[i].shape # "introduction" /\ old[i].answer = "none"
           /\ WorkOpen(st, old[i])
           /\ new[i].answer = (IF a.accepted THEN "accepted" ELSE "rejected")

LEMMA EffectOnAnswers ==
  ASSUME NEW C, NEW st \in StateType(C), NEW a, WellFormed(a, C),
         NEW replaying, Allowed(st, a, replaying)
  PROVE  AnsweredBy(st, a, Effect(st, a).encounters)
<1>1. PICK encs \in Seq(EncounterType(C)) : encs = st.encounters
  BY DEF StateType
<1>2. PICK new : new = Effect(st, a).encounters
  OBVIOUS
<1>3. Len(encs) \in Nat /\ \A j \in 1 .. Len(encs) : Same(encs[j], encs[j])
  BY DEF Same
<1>4. CASE a.kind = "presentation"
  <2>1. PICK e \in EncounterType(C), ws \in [Words -> WordType] :
          PresentedAs(st, a, e, ws)
    BY <1>4, PresentedTyped
  <2>2. /\ Effect(st, a) = [st EXCEPT !.words = ws, !.encounters = Append(@, e)]
        /\ e.answer = "none"
    BY <1>4, <2>1 DEF PresentedAs, Effect
  <2>3. new = Append(encs, e)
    BY <1>1, <1>2, <2>2 DEF StateType
  <2>4. /\ Len(new) = Len(encs) + 1 /\ new[Len(encs) + 1] = e
        /\ \A j \in 1 .. Len(encs) : new[j] = encs[j]
    BY <2>3
  <2>5. Len(encs) <= Len(new)
    BY <1>3, <2>4
  <2>6. \A j \in 1 .. Len(new) : j > Len(encs) => new[j].answer = "none"
    BY <1>3, <2>2, <2>4
  <2> QED BY <1>1, <1>2, <1>3, <1>4, <2>4, <2>5, <2>6 DEF AnsweredBy
<1>5. CASE a.kind = "response"
  <2>1. PICK i : i = IndexOf(st, a.encounter)
    OBVIOUS
  <2>2. PICK m \in EncounterType(C), ws \in [Words -> WordType] :
          AnsweredAs(st, i, a, m, ws)
    BY <1>5, <2>1, AnsweredTyped
  <2>3. /\ i \in DOMAIN encs /\ encs[i].id = a.encounter
        /\ encs[i] \in EncounterType(C)
        /\ encs[i].shape # "introduction" /\ encs[i].answer = "none"
    BY <1>1, <1>5, <2>1, AnsweredTyped
  <2>4. /\ Effect(st, a) =
             [st EXCEPT !.words = ws, !.encounters = [@ EXCEPT ![i] = m]]
        /\ m = [encs[i] EXCEPT
                  !.answer = IF a.accepted THEN "accepted" ELSE "rejected",
                  !.answeredAt = a.seq]
    BY <1>1, <1>5, <2>1, <2>2 DEF AnsweredAs, Effect
  <2>5. new = [encs EXCEPT ![i] = m]
    BY <1>1, <1>2, <2>4 DEF StateType
  <2>6. /\ Len(new) = Len(encs) /\ new[i] = m /\ i \in 1 .. Len(encs)
        /\ \A j \in 1 .. Len(encs) : j # i => new[j] = encs[j]
    BY <2>3, <2>5
  <2>7. /\ Same(m, encs[i])
        /\ m.answer = (IF a.accepted THEN "accepted" ELSE "rejected")
    BY <2>3, <2>4 DEF Same, EncounterType
  <2>8. WorkOpen(st, encs[i])
    BY <1>1, <1>5, <2>1 DEF Allowed, Encounter
  <2>9. \A j \in 1 .. Len(encs) : Same(new[j], encs[j])
    BY <1>3, <2>6, <2>7
  <2>10. Len(encs) <= Len(new) /\ \A j \in 1 .. Len(new) : ~(j > Len(encs))
    BY <1>3, <2>6
  <2>11. new[i].answer = (IF a.accepted THEN "accepted" ELSE "rejected")
    BY <2>6, <2>7
  <2>12. \A j \in 1 .. Len(encs) : j = i \/ new[j].answer = encs[j].answer
    BY <2>6
  <2>13. i \in 1 .. Len(encs)
    BY <2>6
  <2> QED BY <1>1, <1>2, <1>5, <2>1, <2>3, <2>8, <2>9, <2>10, <2>11, <2>12,
             <2>13, Zenon DEF AnsweredBy
<1>6. CASE a.kind = "exercise_skip"
  <2>1. PICK i \in DOMAIN encs, m \in EncounterType(C) :
          encs[i] \in EncounterType(C) /\ SkippedAs(st, i, a, m)
    BY <1>1, <1>6, SkippedTyped
  <2>2. /\ m = [encs[i] EXCEPT !.skipped = TRUE]
        /\ Effect(st, a) = [st EXCEPT !.encounters = [@ EXCEPT ![i] = m]]
    BY <1>1, <2>1 DEF SkippedAs
  <2>3. new = [encs EXCEPT ![i] = m]
    BY <1>1, <1>2, <2>2 DEF StateType
  <2>4. /\ Len(new) = Len(encs) /\ new[i] = m
        /\ \A j \in 1 .. Len(encs) : j # i => new[j] = encs[j]
    BY <2>1, <2>3
  <2>5. Same(m, encs[i]) /\ m.answer = encs[i].answer
    BY <2>1, <2>2 DEF Same, EncounterType
  <2>6. \A j \in 1 .. Len(encs) :
          Same(new[j], encs[j]) /\ new[j].answer = encs[j].answer
    BY <1>3, <2>4, <2>5
  <2>7. Len(encs) <= Len(new) /\ \A j \in 1 .. Len(new) : ~(j > Len(encs))
    BY <1>3, <2>4
  <2> QED BY <1>1, <1>2, <1>6, <2>6, <2>7 DEF AnsweredBy
<1>7. CASE a.kind \in WordKinds \cup OtherKinds
  <2>1. ASSUME a.kind \in WordKinds PROVE new = encs
    <3>1. PICK x : Effect(st, a) = [st EXCEPT !.words[a.word] = x]
      BY <2>1, WordEffectTyped
    <3> QED BY <1>1, <1>2, <3>1 DEF StateType
  <2>2. ASSUME a.kind \in OtherKinds PROVE new = encs
    BY <1>1, <1>2, <2>2, OtherTyped
  <2>3. new = encs /\ a.kind # "response"
    BY <1>7, <2>1, <2>2 DEF WordKinds, OtherKinds
  <2>4. Len(encs) <= Len(new) /\ \A j \in 1 .. Len(new) : ~(j > Len(encs))
    BY <1>3, <2>3
  <2> QED BY <1>1, <1>2, <1>3, <2>3, <2>4 DEF AnsweredBy
<1> QED BY <1>4, <1>5, <1>6, <1>7, AllowedKinds

-----------------------------------------------------------------------------
(* How an answer is graded.                                                *)

\* What is asked of a word depends on its mode and progress alone.
LEMMA PendingSame ==
  ASSUME NEW w, NEW new, NEW old, new.mode = old.mode,
         new.progress = old.progress
  PROVE  Pending(w, new) = Pending(w, old)
BY DEF Pending

\* Fresh work asks for something.
LEMMA FreshIsPending ==
  ASSUME NEW w \in Words, NEW word, word.progress = NoProgress,
         word.mode \in Modes, word.mode # "unstudied"
  PROVE  Pending(w, word) # {}
<1>1. \A s \in Skills : /\ word.progress[s].accepted = 0
                        /\ word.progress[s].rejected = 0
                        /\ word.progress[s].run = 0
  BY DEF NoProgress
<1>2. CASE word.mode = "solidify"
  <2>1. PICK s : s \in WordContext[w].solidifySkills
    BY ReducerAssumption
  <2>2. s \in Skills /\ word.progress[s].accepted < 1
    BY <1>1, <2>1, ReducerAssumption DEF Skills
  <2>3. s \in Pending(w, word)
    BY <1>2, <2>1, <2>2 DEF Pending
  <2> QED BY <2>3
<1>3. CASE word.mode # "solidify"
  <2>1. PICK s \in Skills : s = WordContext[w].selectedSkill
    BY ReducerAssumption
  <2>2. ~(word.progress[s].rejected > 0) /\ word.progress[s].run < 1
    BY <1>1
  <2>3. s \in Pending(w, word)
    BY <1>3, <2>1, <2>2 DEF Pending
  <2> QED BY <2>3
<1> QED BY <1>2, <1>3

\* Both Solidify directions have been answered right.
BothWays(word) ==
  /\ word.mode = "solidify"
  /\ \A s \in {"recognition", "production"} : word.progress[s].accepted > 0

Scored(progress, skill, accepted) ==
  [progress EXCEPT ![skill] = Counted(@, accepted)]

\* The word before it is checked for a recall.
Weighed(word, e, accepted) ==
  IF Counts(word, e) THEN Tallied(word, SkillOf(e.shape), accepted)
                     ELSE [word EXCEPT !.missed = @ \/ ~accepted]

\* An answer leaves everything but the outcome of the work, and a word that
\* is taught is never recalled by an answer.
GradedFrom(w, new, old, e, accepted) ==
  LET mid == Weighed(old, e, accepted) IN
  /\ new.mode = old.mode /\ new.choice = old.choice
  /\ new.admitted = old.admitted /\ new.work = old.work
  /\ new.status = old.status /\ new.introduced = old.introduced
  /\ new.teachingCompleted = old.teachingCompleted
  /\ new.teachingDeferred = old.teachingDeferred
  /\ new.missed = (old.missed \/ ~accepted)
  /\ new.progress = mid.progress
  /\ \/ /\ new.recalled = old.recalled /\ new.covered = old.covered
        /\ new.solidifyRecallCompleted = old.solidifyRecallCompleted
        /\ Counts(old, e) => \/ old.mode = "unstudied"
                             \/ Pending(w, new) # {}
     \/ /\ Counts(old, e) /\ new.recalled = TRUE /\ new.covered = TRUE
        /\ old.mode # "unstudied" /\ Pending(w, new) = {}
        /\ new.solidifyRecallCompleted =
             (old.solidifyRecallCompleted \/ BothWays(new))

LEMMA GradedCases ==
  ASSUME NEW w, NEW word \in WordType, NEW e, e.shape \in Shapes,
         e.shape # "introduction", NEW ok \in BOOLEAN
  PROVE  /\ GradedFrom(w, Graded(w, word, e, ok), word, e, ok)
         /\ ~Counts(word, e) => Weighed(word, e, ok).progress = word.progress
         /\ Counts(word, e) => Weighed(word, e, ok).progress =
              Scored(word.progress, SkillOf(e.shape), ok)
<1>1. SkillOf(e.shape) \in Skills
  BY DEF SkillOf, Skills, Shapes
<1>2. PICK new : new = Graded(w, word, e, ok)
  OBVIOUS
<1>3. CASE ~Counts(word, e)
  <2>1. PICK b \in BOOLEAN : b = (word.missed \/ ~ok)
    BY DEF WordType
  <2>2. new = [word EXCEPT !.missed = b] /\ Weighed(word, e, ok) = new
    BY <1>2, <1>3, <2>1 DEF Graded, Weighed
  <2>3. /\ new.mode = word.mode /\ new.choice = word.choice
        /\ new.admitted = word.admitted /\ new.work = word.work
        /\ new.status = word.status /\ new.introduced = word.introduced
        /\ new.teachingCompleted = word.teachingCompleted
        /\ new.teachingDeferred = word.teachingDeferred
        /\ new.missed = b /\ new.progress = word.progress
        /\ new.recalled = word.recalled /\ new.covered = word.covered
        /\ new.solidifyRecallCompleted = word.solidifyRecallCompleted
    BY <2>2 DEF WordType
  <2> QED BY <1>2, <1>3, <2>1, <2>2, <2>3 DEF GradedFrom
<1>4. CASE Counts(word, e)
  <2>1. PICK mid : mid = Tallied(word, SkillOf(e.shape), ok)
    OBVIOUS
  <2>2. mid \in WordType
    BY <1>1, <2>1, TalliedTyped
  <2>3. Weighed(word, e, ok) = mid /\ new = Recalled(w, mid)
    BY <1>2, <1>4, <2>1 DEF Graded, Weighed
  <2>4. PICK p, b : /\ p = Scored(word.progress, SkillOf(e.shape), ok)
                    /\ b = (word.missed \/ ~ok)
    OBVIOUS
  <2>5. mid = [word EXCEPT !.missed = b, !.progress = p]
    BY <2>1, <2>4 DEF Tallied, Scored
  <2>6. /\ mid.mode = word.mode /\ mid.choice = word.choice
        /\ mid.admitted = word.admitted /\ mid.work = word.work
        /\ mid.status = word.status /\ mid.introduced = word.introduced
        /\ mid.teachingCompleted = word.teachingCompleted
        /\ mid.teachingDeferred = word.teachingDeferred
        /\ mid.missed = b /\ mid.progress = p
        /\ mid.recalled = word.recalled /\ mid.covered = word.covered
        /\ mid.solidifyRecallCompleted = word.solidifyRecallCompleted
    BY <2>5 DEF WordType
  <2>7. CASE mid.mode = "unstudied" \/ ~ReadyToCover(w, mid)
    <3>1. new = mid
      BY <2>3, <2>7 DEF Recalled
    <3>2. word.mode = "unstudied" \/ Pending(w, new) # {}
      BY <2>6, <2>7, <3>1 DEF ReadyToCover
    <3> QED BY <1>2, <1>4, <2>3, <2>4, <2>6, <3>1, <3>2 DEF GradedFrom
  <2>8. CASE ~(mid.mode = "unstudied" \/ ~ReadyToCover(w, mid))
    <3>1. PICK r : r = (mid.solidifyRecallCompleted \/ BothWays(mid))
      OBVIOUS
    <3>2. new = [mid EXCEPT !.covered = TRUE, !.recalled = TRUE,
                            !.solidifyRecallCompleted = r]
      BY <2>3, <2>8, <3>1 DEF Recalled, BothWays
    <3>3. /\ new.mode = mid.mode /\ new.choice = mid.choice
          /\ new.admitted = mid.admitted /\ new.work = mid.work
          /\ new.status = mid.status /\ new.introduced = mid.introduced
          /\ new.teachingCompleted = mid.teachingCompleted
          /\ new.teachingDeferred = mid.teachingDeferred
          /\ new.missed = mid.missed /\ new.progress = mid.progress
          /\ new.recalled = TRUE /\ new.covered = TRUE
          /\ new.solidifyRecallCompleted = r
      BY <2>2, <3>2 DEF WordType
    <3>4. word.mode # "unstudied" /\ Pending(w, new) = {}
      <4>1. Pending(w, new) = Pending(w, mid)
        BY <3>3, PendingSame
      <4> QED BY <2>6, <2>8, <4>1 DEF ReadyToCover
    <3>5. new.solidifyRecallCompleted =
            (word.solidifyRecallCompleted \/ BothWays(new))
      <4>1. BothWays(new) <=> BothWays(mid)
        BY <3>3 DEF BothWays
      <4> QED BY <2>6, <3>1, <3>3, <4>1
    <3> QED BY <1>2, <1>4, <2>3, <2>4, <2>6, <3>3, <3>4, <3>5 DEF GradedFrom
  <2> QED BY <2>7, <2>8
<1> QED BY <1>3, <1>4

-----------------------------------------------------------------------------
(* Coverage without recall is the learner's own choice.                    *)

SaidEnough(A, w) ==
  \E a \in A : a.kind = "word_wrap" /\ a.word = w /\ a.reason = "enough"

\* A word whose work is done in the mode it was frozen in was recalled.
Explained(w, word, A) ==
  /\ word.recalled => word.covered
  /\ (word.covered /\ ~word.recalled /\ word.choice = NoMode) =>
       SaidEnough(A, w)
  /\ (word.choice = NoMode /\ word.mode # "unstudied"
        /\ Pending(w, word) = {}) => word.recalled

LEMMA EmptyExplained ==
  ASSUME NEW w \in Words PROVE Explained(w, EmptyState.words[w], {})
<1>1. PICK word : word = EmptyState.words[w]
  OBVIOUS
<1>2. /\ word.mode = WordContext[w].mode /\ word.progress = NoProgress
      /\ word.covered = FALSE /\ word.recalled = FALSE
  BY <1>1 DEF EmptyState
<1>3. word.mode # "unstudied" => Pending(w, word) # {}
  BY <1>2, FreshIsPending, ReducerAssumption
<1> QED BY <1>1, <1>2, <1>3 DEF Explained

LEMMA ExplainedStep ==
  ASSUME NEW C, NEW st \in StateType(C), NEW a, WellFormed(a, C),
         Allowed(st, a, TRUE), NEW w \in Words, NEW A,
         Explained(w, st.words[w], A)
  PROVE  Explained(w, Effect(st, a).words[w], A \cup {a})
<1>1. PICK old \in WordType : old = st.words[w]
  BY DEF StateType
<1>2. PICK new : new = Effect(st, a).words[w]
  OBVIOUS
<1> SUFFICES Explained(w, new, A \cup {a})
  BY <1>2
<1>3. SaidEnough(A, w) => SaidEnough(A \cup {a}, w)
  BY DEF SaidEnough
<1>4. LearntBy(st, a, w, new)
  BY <1>2, EffectOnWord
<1>5. CASE SameLearning(new, old)
  <2>1. Pending(w, new) = Pending(w, old)
    BY <1>5, PendingSame DEF SameLearning
  <2> QED BY <1>1, <1>2, <1>3, <1>5, <2>1 DEF Explained, SameLearning
<1>6. ASSUME a.kind = "response", NEW i \in DOMAIN st.encounters,
             i = IndexOf(st, a.encounter),
             new = Graded(w, old, st.encounters[i], a.accepted)
      PROVE  Explained(w, new, A \cup {a})
  <2>1. PICK e : e = st.encounters[i]
    OBVIOUS
  <2>2. e.shape \in Shapes /\ e.shape # "introduction" /\ a.accepted \in BOOLEAN
    <3>1. PICK z : z = TRUE
      OBVIOUS
    <3>2. Allowed(st, a, z)
      BY <3>1, Zenon
    <3>3. e \in EncounterType(C) /\ e.shape # "introduction"
      BY <1>6, <2>1, <3>2, AnsweredTyped
    <3> QED BY <1>6, <3>3 DEF EncounterType, WellFormed
  <2>6. PICK ok \in BOOLEAN : ok = a.accepted
    BY <2>2
  <2>3. GradedFrom(w, new, old, e, ok)
        /\ (~Counts(old, e) => Weighed(old, e, ok).progress = old.progress)
    <3>1. GradedFrom(w, Graded(w, old, e, ok), old, e, ok)
      BY <1>1, <2>2, <2>6, GradedCases
    <3>2. ~Counts(old, e) => Weighed(old, e, ok).progress = old.progress
      BY <1>1, <2>2, <2>6, GradedCases
    <3>3. new = Graded(w, old, e, ok)
      BY <1>6, <2>1, <2>6, Zenon
    <3> QED BY <3>1, <3>2, <3>3, Zenon
  <2>4. CASE /\ new.recalled = old.recalled /\ new.covered = old.covered
             /\ Counts(old, e) => \/ old.mode = "unstudied"
                                  \/ Pending(w, new) # {}
    <3>1. ~Counts(old, e) => Pending(w, new) = Pending(w, old)
      BY <2>3, PendingSame DEF GradedFrom
    <3>2. new.mode = old.mode /\ new.choice = old.choice
      BY <2>3 DEF GradedFrom
    <3> QED BY <1>1, <1>3, <2>4, <3>1, <3>2 DEF Explained
  <2>5. CASE new.recalled = TRUE /\ new.covered = TRUE
    BY <2>5 DEF Explained
  <2> QED BY <2>3, <2>4, <2>5 DEF GradedFrom
<1>7. CASE a.kind \in WordKinds /\ a.word = w /\ new = WordEffect(a, old)
  <2>1. CASE a.kind = "teaching_complete"
    <3>1. new = [old EXCEPT !.teachingCompleted = TRUE, !.covered = TRUE,
                   !.recalled = TRUE, !.mode = "solidify", !.status = "wrapped"]
      BY <1>7, <2>1 DEF WordEffect
    <3>2. new.recalled = TRUE /\ new.covered = TRUE
      BY <3>1 DEF WordType
    <3> QED BY <3>2 DEF Explained
  <2>2. CASE a.kind = "word_wrap"
    <3>1. new = [old EXCEPT !.covered = TRUE, !.status = "wrapped"]
      BY <1>7, <2>2 DEF WordEffect
    <3>2. /\ new.recalled = old.recalled /\ new.covered = TRUE
          /\ new.choice = old.choice /\ new.mode = old.mode
          /\ new.progress = old.progress
      BY <3>1 DEF WordType
    <3>3. Pending(w, new) = Pending(w, old)
      BY <3>2, PendingSame
    <3>4. old.mode # "unstudied"
          /\ (a.reason = "policy" => Pending(w, old) = {})
      BY <1>1, <1>7, <2>2 DEF Allowed, ReadyToCover
    <3>5. a.reason = "enough" => SaidEnough(A \cup {a}, w)
      BY <1>7, <2>2 DEF SaidEnough
    <3>6. a.reason \in {"policy", "enough"}
      BY <2>2 DEF WellFormed
    <3> QED BY <1>1, <3>2, <3>3, <3>4, <3>5, <3>6 DEF Explained
  <2>3. CASE a.kind = "word_skip"
    <3>1. new = [old EXCEPT !.status = "skipped"]
      BY <1>7, <2>3 DEF WordEffect
    <3>2. /\ new.recalled = old.recalled /\ new.covered = old.covered
          /\ new.choice = old.choice /\ new.mode = old.mode
          /\ new.progress = old.progress
      BY <3>1 DEF WordType
    <3>3. Pending(w, new) = Pending(w, old)
      BY <3>2, PendingSame
    <3> QED BY <1>1, <1>3, <3>2, <3>3 DEF Explained
  <2>4. CASE a.kind = "word_more"
    <3>1. new = Further(old)
      BY <1>7, <2>4 DEF WordEffect
    <3>2. PICK n : n = old.work + 1
      OBVIOUS
    <3>3. new = [old EXCEPT !.work = n, !.status = "open",
                            !.progress = NoProgress, !.introduced = FALSE]
      BY <3>1, <3>2 DEF Further
    <3>4. /\ new.recalled = old.recalled /\ new.covered = old.covered
          /\ new.choice = old.choice /\ new.mode = old.mode
          /\ new.progress = NoProgress
      BY <3>3 DEF WordType
    <3>5. new.mode # "unstudied" => Pending(w, new) # {}
      BY <3>4, FreshIsPending DEF WordType
    <3> QED BY <1>1, <1>3, <3>4, <3>5 DEF Explained
  <2>5. CASE a.kind = "mode_change"
    <3>1. new = ModeChanged(old, a.mode) /\ a.mode \in Modes
      BY <1>7, <2>5 DEF WordEffect, WellFormed
    <3>2. PICK d, s : new = [old EXCEPT !.teachingDeferred = d, !.status = s,
                               !.mode = a.mode, !.choice = a.mode]
      BY <3>1 DEF ModeChanged
    <3>3. /\ new.recalled = old.recalled /\ new.covered = old.covered
          /\ new.choice = a.mode
      BY <3>2 DEF WordType
    <3>4. a.mode # NoMode
      BY <3>1 DEF Modes, NoMode
    <3> QED BY <1>1, <3>3, <3>4 DEF Explained
  <2> QED BY <1>7, <2>1, <2>2, <2>3, <2>4, <2>5 DEF WordKinds
<1> QED BY <1>1, <1>2, <1>4, <1>5, <1>6, <1>7 DEF LearntBy

LEMMA ExplainedClosed ==
  ASSUME NEW C, NEW actions
  PROVE  Closed({x \in StateType(C) \X SUBSET actions :
                   \A w \in Words : Explained(w, x[1].words[w], x[2])},
                C, actions)
<1> DEFINE G == {x \in StateType(C) \X SUBSET actions :
                   \A w \in Words : Explained(w, x[1].words[w], x[2])}
<1>1. <<EmptyState, {}>> \in G
  BY EmptyTyped, EmptyExplained
<1>2. ASSUME NEW st \in StateType(C), NEW A, <<st, A>> \in G,
             NEW a \in actions, WellFormed(a, C), Allowed(st, a, TRUE)
      PROVE  <<Settle(Effect(st, a)), A \cup {a}>> \in G
  <2>1. A \cup {a} \in SUBSET actions
        /\ \A w \in Words : Explained(w, st.words[w], A)
    BY <1>2
  <2>2. \A w \in Words : Explained(w, Effect(st, a).words[w], A \cup {a})
    BY <1>2, <2>1, ExplainedStep
  <2>3. /\ Settle(Effect(st, a)) \in StateType(C)
        /\ Settle(Effect(st, a)).words = Effect(st, a).words
    BY <1>2, EffectTyped, SettleTyped
  <2> QED BY <2>1, <2>2, <2>3
<1> HIDE DEF G
<1>3. Closed(G, C, actions)
  BY <1>1, <1>2 DEF Closed
<1> QED BY <1>3 DEF G

-----------------------------------------------------------------------------
(* A clean session is made of successes.                                   *)

\* Skill s of w has been answered.
Shown(encs, w, s) ==
  \E i \in 1 .. Len(encs) :
    /\ encs[i].word = w /\ encs[i].answer # "none"
    /\ SkillOf(encs[i].shape) = s

Clean(w, word, encs, A) ==
  /\ ~word.missed =>
       \A i \in 1 .. Len(encs) :
         (encs[i].word = w /\ encs[i].answer # "none") =>
           encs[i].answer = "accepted"
  /\ \A s \in Skills : word.progress[s].accepted > 0 => Shown(encs, w, s)
  /\ word.solidifyRecallCompleted =>
       Shown(encs, w, "recognition") /\ Shown(encs, w, "production")
  /\ word.choice = NoMode =>
       \A a \in A : a.kind = "mode_change" => a.word # w

LEMMA EmptyClean ==
  ASSUME NEW w \in Words
  PROVE  Clean(w, EmptyState.words[w], EmptyState.encounters, {})
<1>1. PICK word : word = EmptyState.words[w]
  OBVIOUS
<1>2. word.progress = NoProgress /\ word.solidifyRecallCompleted = FALSE
  BY <1>1 DEF EmptyState
<1>3. \A s \in Skills : ~(word.progress[s].accepted > 0)
  BY <1>2 DEF NoProgress
<1>4. Len(EmptyState.encounters) = 0
  BY DEF EmptyState
<1> QED BY <1>1, <1>2, <1>3, <1>4 DEF Clean

\* No answer is withdrawn by a later action.
LEMMA ShownStays ==
  ASSUME NEW C, NEW st \in StateType(C), NEW a, NEW new,
         Len(new) \in Nat, AnsweredBy(st, a, new), NEW w, NEW s,
         Shown(st.encounters, w, s)
  PROVE  Shown(new, w, s)
<1>1. PICK encs \in Seq(EncounterType(C)) : encs = st.encounters
  BY DEF StateType
<1>2. PICK i \in 1 .. Len(encs) :
        /\ encs[i].word = w /\ encs[i].answer # "none"
        /\ SkillOf(encs[i].shape) = s
  BY <1>1 DEF Shown
<1>3. i \in 1 .. Len(new) /\ Same(new[i], encs[i])
  BY <1>1, <1>2 DEF AnsweredBy
<1>4. new[i].answer = encs[i].answer
  BY <1>1, <1>2 DEF AnsweredBy
<1>5. /\ new[i].word = w /\ new[i].answer # "none"
      /\ SkillOf(new[i].shape) = s
  BY <1>2, <1>3, <1>4 DEF Same
<1> QED BY <1>3, <1>5 DEF Shown

LEMMA CleanStep ==
  ASSUME NEW C, NEW st \in StateType(C), NEW a, WellFormed(a, C),
         NEW z, Allowed(st, a, z), NEW w \in Words, NEW A,
         Clean(w, st.words[w], st.encounters, A)
  PROVE  Clean(w, Effect(st, a).words[w], Effect(st, a).encounters,
               A \cup {a})
<1>1. PICK old \in WordType, encs \in Seq(EncounterType(C)) :
        old = st.words[w] /\ encs = st.encounters
  BY DEF StateType
<1>2. PICK eff : eff = Effect(st, a)
  OBVIOUS
<1>3. eff \in StateType(C)
  BY <1>2, EffectTyped
<1>4. PICK new \in WordType, now \in Seq(EncounterType(C)) :
        new = eff.words[w] /\ now = eff.encounters
  BY <1>3 DEF StateType
<1>5. LearntBy(st, a, w, new) /\ AnsweredBy(st, a, now)
  BY <1>2, <1>4, EffectOnWord, EffectOnAnswers
<1>6. Clean(w, old, encs, A)
  BY <1>1
<1>7. \A s : Shown(encs, w, s) => Shown(now, w, s)
  <2>1. Len(now) \in Nat
    OBVIOUS
  <2> QED BY <1>1, <1>5, <2>1, ShownStays
<1> SUFFICES Clean(w, new, now, A \cup {a})
  BY <1>2, <1>4
<1>8. ASSUME /\ ~new.missed => ~old.missed
             /\ a.kind = "response" =>
                  \A i \in 1 .. Len(encs) :
                    (i = IndexOf(st, a.encounter) /\ encs[i].word = w) =>
                      (~new.missed => a.accepted)
      PROVE  ~new.missed =>
               \A i \in 1 .. Len(now) :
                 (now[i].word = w /\ now[i].answer # "none") =>
                   now[i].answer = "accepted"
  <2>1. SUFFICES ASSUME ~new.missed, NEW i \in 1 .. Len(now),
                        now[i].word = w, now[i].answer # "none"
                 PROVE  now[i].answer = "accepted"
    OBVIOUS
  <2>2. i \in 1 .. Len(encs) /\ Same(now[i], encs[i])
    <3>1. ~(i > Len(encs))
      BY <1>1, <1>5, <2>1 DEF AnsweredBy
    <3>2. i \in 1 .. Len(encs)
      BY <3>1
    <3> QED BY <1>1, <1>5, <3>2 DEF AnsweredBy
  <2>3. encs[i].word = w
    BY <2>1, <2>2 DEF Same
  <2>4. CASE a.kind = "response" /\ i = IndexOf(st, a.encounter)
    <3>1. a.accepted
      BY <1>8, <2>1, <2>2, <2>3, <2>4
    <3>2. now[i].answer = (IF a.accepted THEN "accepted" ELSE "rejected")
      BY <1>5, <2>4 DEF AnsweredBy
    <3> QED BY <3>1, <3>2
  <2>5. CASE now[i].answer = encs[i].answer
    BY <1>6, <1>8, <2>1, <2>2, <2>3, <2>5 DEF Clean
  <2> QED BY <1>1, <1>5, <2>2, <2>4, <2>5 DEF AnsweredBy
<1>9. ASSUME a.kind # "mode_change" \/ a.word # w, new.choice = old.choice
      PROVE  new.choice = NoMode =>
               \A b \in A \cup {a} : b.kind = "mode_change" => b.word # w
  BY <1>6, <1>9 DEF Clean
<1>10. ASSUME a.kind # "response", new.missed = old.missed
       PROVE  ~new.missed =>
                \A i \in 1 .. Len(now) :
                  (now[i].word = w /\ now[i].answer # "none") =>
                    now[i].answer = "accepted"
  BY <1>8, <1>10
<1>11. CASE SameLearning(new, old) /\ ~Concerns(st, a, w)
  <2>1. /\ new.choice = old.choice /\ new.progress = old.progress
        /\ new.missed = old.missed
        /\ new.solidifyRecallCompleted = old.solidifyRecallCompleted
    BY <1>11 DEF SameLearning
  <2>2. a.kind # "mode_change" \/ a.word # w
    BY <1>11 DEF Concerns, WordKinds
  <2>3. ~new.missed =>
          \A i \in 1 .. Len(now) :
            (now[i].word = w /\ now[i].answer # "none") =>
              now[i].answer = "accepted"
    BY <1>1, <1>8, <1>11, <2>1 DEF Concerns
  <2> QED BY <1>6, <1>7, <1>9, <2>1, <2>2, <2>3 DEF Clean
<1>12. ASSUME a.kind = "response", NEW i \in DOMAIN st.encounters,
              i = IndexOf(st, a.encounter), st.encounters[i].word = w,
              new = Graded(w, old, st.encounters[i], a.accepted)
       PROVE  Clean(w, new, now, A \cup {a})
  <2>1. PICK e : e = encs[i]
    OBVIOUS
  <2>2. e \in EncounterType(C) /\ e.shape # "introduction" /\ e.word = w
    BY <1>1, <1>12, <2>1, AnsweredTyped
  <2>3. PICK ok \in BOOLEAN : ok = a.accepted
    BY <1>12 DEF WellFormed
  <2>4. e.shape \in Shapes /\ SkillOf(e.shape) \in Skills
    BY <2>2 DEF EncounterType, SkillOf, Shapes, Skills
  <2>5. new = Graded(w, old, e, ok)
    BY <1>1, <1>12, <2>1, <2>3, Zenon
  <2>6. /\ GradedFrom(w, new, old, e, ok)
        /\ ~Counts(old, e) => Weighed(old, e, ok).progress = old.progress
        /\ Counts(old, e) => Weighed(old, e, ok).progress =
             Scored(old.progress, SkillOf(e.shape), ok)
    BY <2>2, <2>4, <2>5, GradedCases
  <2>7. new.progress = Weighed(old, e, ok).progress
        /\ new.missed = (old.missed \/ ~ok) /\ new.choice = old.choice
    BY <2>6 DEF GradedFrom
  <2>8. Shown(now, w, SkillOf(e.shape))
    <3>1. /\ i \in 1 .. Len(now) /\ Same(now[i], e)
          /\ now[i].answer \in {"accepted", "rejected"}
      BY <1>1, <1>5, <1>12, <2>1 DEF AnsweredBy
    <3> QED BY <2>2, <3>1 DEF Shown, Same
  <2>9. \A s \in Skills : new.progress[s].accepted > 0 => Shown(now, w, s)
    <3>1. SUFFICES ASSUME NEW s \in Skills, new.progress[s].accepted > 0,
                          s # SkillOf(e.shape)
                   PROVE  Shown(now, w, s)
      BY <2>8
    <3>2. old.progress \in ProgressType
      BY DEF WordType
    <3>3. new.progress[s] = old.progress[s]
      <4>1. CASE ~Counts(old, e)
        BY <2>6, <2>7, <4>1
      <4>2. CASE Counts(old, e)
        BY <2>6, <2>7, <3>1, <3>2, <4>2 DEF Scored, ProgressType
      <4> QED BY <4>1, <4>2
    <3> QED BY <1>6, <1>7, <3>1, <3>3 DEF Clean
  <2>10. new.solidifyRecallCompleted =>
           Shown(now, w, "recognition") /\ Shown(now, w, "production")
    <3>1. CASE new.solidifyRecallCompleted = old.solidifyRecallCompleted
      BY <1>6, <1>7, <3>1 DEF Clean
    <3>2. CASE new.solidifyRecallCompleted =
                 (old.solidifyRecallCompleted \/ BothWays(new))
      <4>1. BothWays(new) =>
              Shown(now, w, "recognition") /\ Shown(now, w, "production")
        BY <2>9 DEF BothWays, Skills
      <4> QED BY <1>6, <1>7, <3>2, <4>1 DEF Clean
    <3> QED BY <2>6, <3>1, <3>2 DEF GradedFrom
  <2>11. ~new.missed =>
           \A j \in 1 .. Len(now) :
             (now[j].word = w /\ now[j].answer # "none") =>
               now[j].answer = "accepted"
    BY <1>8, <2>3, <2>7
  <2>12. new.choice = NoMode =>
           \A b \in A \cup {a} : b.kind = "mode_change" => b.word # w
    BY <1>9, <1>12, <2>7
  <2> QED BY <2>9, <2>10, <2>11, <2>12 DEF Clean
<1>13. CASE a.kind \in WordKinds /\ a.word = w /\ new = WordEffect(a, old)
  <2>1. a.kind # "response"
    BY <1>13 DEF WordKinds
  <2>2. CASE a.kind \notin {"word_more", "mode_change"}
    <3>1. /\ new.choice = old.choice /\ new.progress = old.progress
          /\ new.missed = old.missed
          /\ new.solidifyRecallCompleted = old.solidifyRecallCompleted
      BY <1>13, <2>2 DEF WordEffect, WordKinds, WordType
    <3> QED BY <1>6, <1>7, <1>9, <1>10, <2>1, <2>2, <3>1 DEF Clean
  <2>3. CASE a.kind = "word_more"
    <3>1. new = Further(old)
      BY <1>13, <2>3 DEF WordEffect
    <3>2. PICK n : n = old.work + 1
      OBVIOUS
    <3>3. new = [old EXCEPT !.work = n, !.status = "open",
                            !.progress = NoProgress, !.introduced = FALSE]
      BY <3>1, <3>2 DEF Further
    <3>4. /\ new.choice = old.choice /\ new.progress = NoProgress
          /\ new.missed = old.missed
          /\ new.solidifyRecallCompleted = old.solidifyRecallCompleted
      BY <3>3 DEF WordType
    <3>5. \A s \in Skills : ~(new.progress[s].accepted > 0)
      BY <3>4 DEF NoProgress
    <3> QED BY <1>6, <1>7, <1>9, <1>10, <2>1, <2>3, <3>4, <3>5 DEF Clean
  <2>4. CASE a.kind = "mode_change"
    <3>1. new = ModeChanged(old, a.mode) /\ a.mode \in Modes
      BY <1>13, <2>4 DEF WordEffect, WellFormed
    <3>2. PICK d, s : new = [old EXCEPT !.teachingDeferred = d, !.status = s,
                               !.mode = a.mode, !.choice = a.mode]
      BY <3>1 DEF ModeChanged
    <3>3. /\ new.choice = a.mode /\ new.progress = old.progress
          /\ new.missed = old.missed
          /\ new.solidifyRecallCompleted = old.solidifyRecallCompleted
      BY <3>2 DEF WordType
    <3>4. new.choice # NoMode
      BY <3>1, <3>3 DEF Modes, NoMode
    <3> QED BY <1>6, <1>7, <1>10, <2>1, <3>3, <3>4 DEF Clean
  <2> QED BY <2>2, <2>3, <2>4
<1> QED BY <1>1, <1>5, <1>11, <1>12, <1>13 DEF LearntBy

LEMMA CleanClosed ==
  ASSUME NEW C, NEW actions
  PROVE  Closed({x \in StateType(C) \X SUBSET actions :
                   \A w \in Words :
                     Clean(w, x[1].words[w], x[1].encounters, x[2])},
                C, actions)
<1> DEFINE G == {x \in StateType(C) \X SUBSET actions :
                   \A w \in Words :
                     Clean(w, x[1].words[w], x[1].encounters, x[2])}
<1>1. <<EmptyState, {}>> \in G
  BY EmptyTyped, EmptyClean
<1>2. ASSUME NEW st \in StateType(C), NEW A, <<st, A>> \in G,
             NEW a \in actions, WellFormed(a, C), Allowed(st, a, TRUE)
      PROVE  <<Settle(Effect(st, a)), A \cup {a}>> \in G
  <2>1. A \cup {a} \in SUBSET actions
        /\ \A w \in Words : Clean(w, st.words[w], st.encounters, A)
    BY <1>2
  <2>2. \A w \in Words : Clean(w, Effect(st, a).words[w],
                               Effect(st, a).encounters, A \cup {a})
    BY <1>2, <2>1, CleanStep
  <2>3. /\ Settle(Effect(st, a)) \in StateType(C)
        /\ Settle(Effect(st, a)).words = Effect(st, a).words
        /\ Settle(Effect(st, a)).encounters = Effect(st, a).encounters
    BY <1>2, EffectTyped, SettleTyped
  <2> QED BY <2>1, <2>2, <2>3
<1> HIDE DEF G
<1>3. Closed(G, C, actions)
  BY <1>1, <1>2 DEF Closed
<1> QED BY <1>3 DEF G

-----------------------------------------------------------------------------
(* The effective state is a replay of the log.                             *)

\* A replay looks at a prefix and at what is undone in it.
LEMMA RerunsAgree ==
  ASSUME NEW l, NEW m, Finite(l), Finite(m), NEW u, NEW v, NEW k \in Nat,
         k <= Len(l), k <= Len(m),
         \A i \in 1 .. k : m[i] = l[i] /\ l[i].seq = i,
         \A i \in 1 .. k : i \in u <=> i \in v
  PROVE  \A n \in 0 .. k : Reruns(l, u)[n] = Reruns(m, v)[n]
<1> DEFINE x == Reruns(l, u)
           y == Reruns(m, v)
           S == {n \in Nat : x[n] = y[n]}
<1>1. /\ x[0] = y[0]
      /\ \A n \in 1 .. Len(l) : x[n] = Rerun(x[n - 1], l[n], u)
      /\ \A n \in 1 .. Len(m) : y[n] = Rerun(y[n - 1], m[n], v)
      /\ Len(l) \in Nat /\ Len(m) \in Nat
  BY RerunsUnfold DEF Finite
<1> HIDE DEF x, y
<1>2. 0 \in S
  BY <1>1
<1>3. ASSUME NEW n \in 0 .. k - 1, n \in S PROVE n + 1 \in S
  <2>1. /\ n + 1 \in 1 .. k /\ n + 1 \in 1 .. Len(l) /\ n + 1 \in 1 .. Len(m)
        /\ (n + 1) - 1 = n /\ n + 1 \in Nat
    BY <1>1
  <2>2. PICK a, r : a = l[n + 1] /\ r = x[n]
    OBVIOUS
  <2>3. x[n + 1] = Rerun(r, a, u) /\ y[n + 1] = Rerun(r, a, v)
    BY <1>1, <1>3, <2>1, <2>2
  <2>4. a.seq \in u <=> a.seq \in v
    BY <2>1, <2>2
  <2>5. Rerun(r, a, u) = Rerun(r, a, v)
    BY <2>4 DEF Rerun
  <2> QED BY <2>1, <2>3, <2>5
<1> HIDE DEF S
<1>4. \A n \in 0 .. k : n \in S
  BY <1>2, <1>3, InductionUpTo
<1> QED BY <1>4 DEF S, x, y

\* What is projected is what a replay of the log without the withdrawn
\* actions gives, at every point of the log.
LEMMA ReplayAgrees ==
  ASSUME NEW C, NEW log, LogOf(log, C)
  PROVE  \A n \in 0 .. Len(log) : Projections(log)[n].ok =>
           /\ Reruns(log, Projections(log)[n].undone)[n].ok
           /\ Reruns(log, Projections(log)[n].undone)[n].st
                = Projections(log)[n].st
<1> DEFINE p == Projections(log)
           Agrees(n) == /\ Reruns(log, p[n].undone)[n].ok
                        /\ Reruns(log, p[n].undone)[n].st = p[n].st
           S == {n \in Nat : p[n].ok => Agrees(n)}
<1>1. /\ p[0] = NothingProjected
      /\ \A n \in 1 .. Len(log) : p[n] = ProjectStep(log, p[n - 1], log[n])
      /\ \A n \in 0 .. Len(log) : ProjectionType(p[n], C, n)
      /\ Len(log) \in Nat
  BY LogFinite, ProjectionsTyped
<1>2. \A u : /\ Reruns(log, u)[0] = [ok |-> TRUE, st |-> EmptyState]
             /\ \A n \in 1 .. Len(log) :
                  Reruns(log, u)[n] = Rerun(Reruns(log, u)[n - 1], log[n], u)
  BY LogFinite, RerunsUnfold
<1> HIDE DEF p
<1>3. 0 \in S
  BY <1>1, <1>2 DEF NothingProjected
<1>4. ASSUME NEW n \in 0 .. Len(log) - 1, n \in S PROVE n + 1 \in S
  <2>1. /\ n \in Nat /\ n + 1 \in Nat /\ n + 1 \in 1 .. Len(log)
        /\ (n + 1) - 1 = n /\ n \in 0 .. Len(log)
    BY <1>1
  <2>2. PICK a, x, y : a = log[n + 1] /\ x = p[n] /\ y = p[n + 1]
    OBVIOUS
  <2>3. /\ y = ProjectStep(log, x, a) /\ ProjectionType(x, C, n)
        /\ a.seq = n + 1
    BY <1>1, <2>1, <2>2 DEF LogOf
  <2>4. /\ y.ok => x.ok
        /\ (y.ok /\ a.kind = "undo") => Withdraws(log, n, x, y)
        /\ (y.ok /\ a.kind # "undo") => Extends(x, a, y)
    BY <2>2, <2>3, ProjectStepCases
  <2>5. PICK u : u = y.undone
    OBVIOUS
  <2>6. PICK r, s : r = Reruns(log, u)[n] /\ s = Reruns(log, u)[n + 1]
    OBVIOUS
  <2>7. s = Rerun(r, a, u)
    BY <1>2, <2>1, <2>2, <2>6
  <2>8. ASSUME y.ok, a.kind # "undo" PROVE s.ok /\ s.st = y.st
    <3>0. PICK f \in BOOLEAN : f = FALSE
      OBVIOUS
    <3>1. PICK run : f = FALSE /\ run = [ok |-> TRUE, st |-> x.st]
      BY <3>0
    <3>2. /\ Step(run, a, f).ok /\ y.st = Step(run, a, f).st
          /\ u = x.undone
      BY <2>4, <2>5, <2>8, <3>1, Zenon DEF Extends
    <3>3. r.ok /\ r.st = x.st
      BY <1>4, <2>2, <2>4, <2>6, <2>8, <3>2
    <3>4. /\ Allowed(x.st, a, f) /\ y.st = Settle(Effect(x.st, a))
      <4>1. /\ run.ok \in BOOLEAN /\ run.st = x.st
            /\ run = [ok |-> run.ok, st |-> run.st]
        BY <3>1
      <4> QED BY <3>2, <4>1, StepAccepted
    <3>5. PICK t \in BOOLEAN : t = TRUE
      OBVIOUS
    <3>6. Allowed(x.st, a, t)
      <4>1. Allowed(x.st, a, TRUE)
        BY <3>0, <3>4, ReplayRelaxes
      <4> QED BY <3>5, <4>1, Zenon
    <3>7. Step(r, a, t) = [ok |-> TRUE, st |-> y.st]
      BY <3>3, <3>4, <3>6 DEF Step, Settled
    <3>8. a.seq \notin u
      BY <2>3, <2>4, <2>8, <3>2 DEF ProjectionType
    <3>9. s = Step(r, a, t)
      BY <2>7, <2>8, <3>5, <3>8, Zenon DEF Rerun
    <3> QED BY <3>7, <3>9
  <2>9. ASSUME y.ok, a.kind = "undo" PROVE s.ok /\ s.st = y.st
    <3>1. PICK prefix : prefix = SubSeq(log, 1, n)
      OBVIOUS
    <3>2. Replay(prefix, u).ok /\ y.st = Replay(prefix, u).st
      BY <2>4, <2>5, <2>9, <3>1 DEF Withdraws
    <3>3. /\ LogOf(prefix, C) /\ Len(prefix) = n
          /\ \A i \in 1 .. n : prefix[i] = log[i]
      BY <2>1, <3>1, PrefixOfLog
    <3>4. Reruns(prefix, u)[n] = r
      <4>1. Finite(prefix) /\ Finite(log)
        BY <3>3, LogFinite
      <4>2. \A i \in 1 .. n : log[i] = prefix[i] /\ prefix[i].seq = i
        BY <3>3 DEF LogOf
      <4>3. n <= Len(prefix) /\ n <= Len(log) /\ n \in 0 .. n
        BY <1>1, <2>1, <3>3
      <4>4. \A k \in 0 .. n : Reruns(prefix, u)[k] = Reruns(log, u)[k]
        BY <2>1, <4>1, <4>2, <4>3, RerunsAgree
      <4> QED BY <2>6, <4>3, <4>4
    <3>5. s = r
      BY <2>7, <2>9 DEF Rerun
    <3> QED BY <3>2, <3>3, <3>4, <3>5 DEF Replay
  <2>10. y.ok => Agrees(n + 1)
    BY <2>2, <2>5, <2>6, <2>8, <2>9
  <2> QED BY <2>1, <2>2, <2>10
<1> HIDE DEF S
<1>5. \A n \in 0 .. Len(log) : n \in S
  BY <1>1, <1>3, <1>4, InductionUpTo
<1> QED BY <1>5 DEF S, p

-----------------------------------------------------------------------------
(* The latest undoable action.                                             *)

\* l is the last undoable action of the first n, none of them undone since.
IsLatest(log, n, l) ==
  /\ l \in 0 .. n
  /\ l # 0 =>
       /\ log[l].kind \in UndoableKinds
       /\ \A i \in l + 1 .. n : log[i].kind \notin UndoableKinds \cup {"undo"}
  /\ l = 0 =>
       \A i \in 1 .. n : log[i].kind \in UndoableKinds =>
         \E j \in i + 1 .. n : log[j].kind = "undo"

LEMMA LatestFound ==
  ASSUME NEW C, NEW log, LogOf(log, C)
  PROVE  \A n \in 0 .. Len(log) : Projections(log)[n].ok =>
           IsLatest(log, n, Projections(log)[n].latest)
<1> DEFINE p == Projections(log)
           S == {n \in Nat : p[n].ok => IsLatest(log, n, p[n].latest)}
<1>1. /\ p[0] = NothingProjected
      /\ \A n \in 1 .. Len(log) : p[n] = ProjectStep(log, p[n - 1], log[n])
      /\ \A n \in 0 .. Len(log) : ProjectionType(p[n], C, n)
      /\ Len(log) \in Nat
  BY LogFinite, ProjectionsTyped
<1> HIDE DEF p
<1>2. 0 \in S
  BY <1>1 DEF NothingProjected, IsLatest
<1>3. ASSUME NEW n \in 0 .. Len(log) - 1, n \in S PROVE n + 1 \in S
  <2>1. /\ n \in Nat /\ n + 1 \in Nat /\ n + 1 \in 1 .. Len(log)
        /\ (n + 1) - 1 = n /\ n \in 0 .. Len(log)
    BY <1>1
  <2>2. PICK a, x, y : a = log[n + 1] /\ x = p[n] /\ y = p[n + 1]
    OBVIOUS
  <2>3. /\ y = ProjectStep(log, x, a) /\ ProjectionType(x, C, n)
        /\ a.seq = n + 1 /\ (x.ok => IsLatest(log, n, x.latest))
    BY <1>1, <1>3, <2>1, <2>2 DEF LogOf
  <2>4. /\ y.ok => x.ok
        /\ (y.ok /\ a.kind = "undo") => Withdraws(log, n, x, y)
        /\ (y.ok /\ a.kind # "undo") => Extends(x, a, y)
    BY <2>2, <2>3, ProjectStepCases
  <2>5. ASSUME y.ok, a.kind = "undo" PROVE IsLatest(log, n + 1, y.latest)
    <3>1. y.latest = 0
      BY <2>4, <2>5 DEF Withdraws
    <3>2. \A i \in 1 .. n + 1 : log[i].kind \in UndoableKinds =>
            \E j \in i + 1 .. n + 1 : log[j].kind = "undo"
      <4>1. ASSUME NEW i \in 1 .. n + 1, log[i].kind \in UndoableKinds
            PROVE  n + 1 \in i + 1 .. n + 1
        BY <2>1, <2>2, <2>5, <4>1 DEF UndoableKinds
      <4> QED BY <2>2, <2>5, <4>1
    <3> QED BY <2>1, <3>1, <3>2 DEF IsLatest
  <2>6. ASSUME y.ok, a.kind \in UndoableKinds
        PROVE  IsLatest(log, n + 1, y.latest)
    <3>1. a.kind # "undo"
      BY <2>6 DEF UndoableKinds
    <3>2. y.latest = n + 1
      BY <2>3, <2>4, <2>6, <3>1 DEF Extends, LatestAfter
    <3> QED BY <2>1, <2>2, <2>6, <3>2 DEF IsLatest
  <2>7. ASSUME y.ok, a.kind \notin UndoableKinds \cup {"undo"}
        PROVE  IsLatest(log, n + 1, y.latest)
    <3>1. y.latest = x.latest
      BY <2>4, <2>7 DEF Extends, LatestAfter
    <3>2. PICK l \in 0 .. n : l = x.latest
      BY <2>3, <2>4, <2>7 DEF IsLatest
    <3>3. IsLatest(log, n, l)
      BY <2>3, <2>4, <2>7, <3>2
    <3>4. l # 0 => \A i \in l + 1 .. n + 1 :
                     log[i].kind \notin UndoableKinds \cup {"undo"}
      BY <2>1, <2>2, <2>7, <3>2, <3>3 DEF IsLatest
    <3>5. l = 0 => \A i \in 1 .. n + 1 : log[i].kind \in UndoableKinds =>
                     \E j \in i + 1 .. n + 1 : log[j].kind = "undo"
      <4>1. ASSUME l = 0, NEW i \in 1 .. n + 1, log[i].kind \in UndoableKinds
            PROVE  \E j \in i + 1 .. n + 1 : log[j].kind = "undo"
        <5>1. i \in 1 .. n
          BY <2>1, <2>2, <2>7, <4>1
        <5>2. PICK j \in i + 1 .. n : log[j].kind = "undo"
          BY <3>3, <4>1, <5>1 DEF IsLatest
        <5>3. j \in i + 1 .. n + 1
          BY <2>1, <5>1, <5>2
        <5> QED BY <5>2, <5>3
      <4> QED BY <4>1
    <3> QED BY <2>1, <3>1, <3>2, <3>3, <3>4, <3>5 DEF IsLatest
  <2>8. y.ok => IsLatest(log, n + 1, y.latest)
    BY <2>5, <2>6, <2>7
  <2> QED BY <2>1, <2>2, <2>8
<1> HIDE DEF S
<1>4. \A n \in 0 .. Len(log) : n \in S
  BY <1>1, <1>2, <1>3, InductionUpTo
<1> QED BY <1>4 DEF S, p

-----------------------------------------------------------------------------
(* What is replayed after the transition that is withdrawn.                *)

\* new is old and what has been presented since.
Returned(old, new) ==
  /\ new.phase = old.phase /\ new.finishReason = old.finishReason
  /\ new.excluded = old.excluded
  /\ \A w \in Words :
       /\ SameLearning(new.words[w], old.words[w])
       /\ old.words[w].admitted =>
            /\ new.words[w].admitted
            /\ new.words[w].status = old.words[w].status
            /\ new.words[w].work = old.words[w].work
  /\ Prefixed(old.encounters, new.encounters)

\* A presentation leaves what remains to be done.
LEMMA WorkStays ==
  ASSUME NEW C, NEW st \in StateType(C), NEW a, WellFormed(a, C),
         a.kind = "presentation", WorkRemains(st)
  PROVE  WorkRemains(Effect(st, a))
<1>1. PICK e \in EncounterType(C), ws \in [Words -> WordType] :
        PresentedAs(st, a, e, ws)
  BY PresentedTyped
<1>2. PICK encs, x :
        encs \in Seq(EncounterType(C)) /\ encs = st.encounters /\ x = Effect(st, a)
  BY DEF StateType
<1>3. x = [st EXCEPT !.words = ws, !.encounters = Append(@, e)]
  BY <1>1, <1>2 DEF PresentedAs, Effect
<1>4. PICK now : now = Append(encs, e)
  OBVIOUS
<1>5. x.words = ws /\ x.encounters = now /\ x.excluded = st.excluded
  BY <1>2, <1>3, <1>4 DEF StateType
<1>6. e.answer = "none" /\ e.skipped = FALSE
  BY <1>1 DEF PresentedAs
<1>7. /\ Len(now) = Len(encs) + 1 /\ now[Len(encs) + 1] = e
      /\ Len(encs) \in Nat /\ DOMAIN now = 1 .. Len(now)
      /\ DOMAIN encs = 1 .. Len(encs)
      /\ \A i \in DOMAIN encs : i \in DOMAIN now /\ now[i] = encs[i]
  BY <1>4
<1>8. ASSUME NEW w \in Words, st.words[w].admitted,
             st.words[w].status = "open"
      PROVE  ws[w].admitted /\ ws[w].status = "open"
  <2>1. CASE a.word = w
    <3>1. a.word # NoWord
      BY <2>1, ReducerAssumption
    <3> QED BY <1>1, <1>8, <2>1, <3>1 DEF PresentedAs
  <2>2. CASE a.word # w
    BY <1>1, <1>8, <2>2 DEF PresentedAs
  <2> QED BY <2>1, <2>2
<1>9. ASSUME NEW c \in Cues, CuePending(st, c) PROVE CuePending(x, c)
  <2>1. CueAnswers(now, c) = CueAnswers(encs, c)
    <3>1. Range(now) = Range(encs) \cup {e}
      BY <1>7 DEF Range
    <3> QED BY <1>6, <3>1 DEF CueAnswers
  <2>2. CueOutcome(now, c) = CueOutcome(encs, c)
    BY <2>1 DEF CueOutcome
  <2>3. /\ CueEncounters(st, c) # {}
        /\ \A i \in CueEncounters(st, c) : ~encs[i].skipped
        /\ ~CueOutcome(encs, c).covered /\ c \notin st.excluded
    BY <1>2, <1>9 DEF CuePending
  <2>4. CueEncounters(st, c) \subseteq CueEncounters(x, c)
    BY <1>2, <1>5, <1>7 DEF CueEncounters
  <2>5. ASSUME NEW i \in CueEncounters(x, c) PROVE ~now[i].skipped
    <3>1. i \in 1 .. Len(encs) + 1 /\ now[i].word = NoWord /\ now[i].content = c
      BY <1>5, <1>7 DEF CueEncounters
    <3>2. CASE i = Len(encs) + 1
      BY <1>6, <1>7, <3>2
    <3>3. CASE i \in DOMAIN encs
      <4>1. now[i] = encs[i] /\ i \in CueEncounters(st, c)
        BY <1>2, <1>7, <3>1, <3>3 DEF CueEncounters
      <4> QED BY <2>3, <4>1
    <3> QED BY <1>7, <3>1, <3>2, <3>3
  <2> QED BY <1>5, <2>2, <2>3, <2>4, <2>5 DEF CuePending
<1>10. WorkRemains(x)
  BY <1>5, <1>8, <1>9 DEF WorkRemains
<1> QED BY <1>2, <1>10

LEMMA PresentedReturns ==
  ASSUME NEW C, NEW old \in StateType(C), NEW st \in StateType(C),
         Returned(old, st), st.phase = "finishing" => WorkRemains(st),
         NEW a, WellFormed(a, C), a.kind = "presentation", NEW z,
         Allowed(st, a, z)
  PROVE  LET new == Settle(Effect(st, a)) IN
         /\ new \in StateType(C) /\ Returned(old, new)
         /\ new.phase = "finishing" => WorkRemains(new)
<1>1. PICK e \in EncounterType(C), ws \in [Words -> WordType] :
        PresentedAs(st, a, e, ws)
  BY PresentedTyped
<1>2. PICK x : x = Effect(st, a)
  OBVIOUS
<1>3. x = [st EXCEPT !.words = ws, !.encounters = Append(@, e)]
  BY <1>1, <1>2 DEF PresentedAs, Effect
<1>4. /\ x.words = ws /\ x.encounters = Append(st.encounters, e)
      /\ x.excluded = st.excluded /\ x.phase = st.phase
      /\ x.finishReason = st.finishReason
  BY <1>3 DEF StateType
<1>5. x \in StateType(C)
  BY <1>2, EffectTyped
<1>6. x.phase = "finishing" => WorkRemains(x)
  BY <1>2, <1>4, WorkStays
<1>7. Settle(x) = x
  BY <1>6 DEF Settle
<1>8. Prefixed(old.encounters, x.encounters)
  BY <1>4, PrefixedAppend DEF Returned
<1>9. ASSUME NEW w \in Words
      PROVE  /\ SameLearning(ws[w], old.words[w])
             /\ old.words[w].admitted =>
                  /\ ws[w].admitted
                  /\ ws[w].status = old.words[w].status
                  /\ ws[w].work = old.words[w].work
  <2>1. SameLearning(ws[w], st.words[w])
    BY <1>1 DEF PresentedAs
  <2>2. st.words[w].admitted =>
          /\ ws[w].admitted /\ ws[w].status = st.words[w].status
          /\ ws[w].work = st.words[w].work
    <3>1. CASE a.word = w
      <4>1. a.word # NoWord
        BY <3>1, ReducerAssumption
      <4> QED BY <1>1, <3>1, <4>1 DEF PresentedAs
    <3>2. CASE a.word # w
      BY <1>1, <3>2 DEF PresentedAs
    <3> QED BY <3>1, <3>2
  <2> QED BY <2>1, <2>2 DEF Returned, SameLearning
<1>10. Returned(old, x)
  BY <1>4, <1>8, <1>9 DEF Returned
<1> QED BY <1>2, <1>5, <1>6, <1>7, <1>10

\* A state a replay can go on from without settling anything new.
Resting(C, st) ==
  st \in StateType(C) /\ (st.phase = "finishing" => WorkRemains(st))

LEMMA ReplayReturns ==
  ASSUME NEW C, NEW log, LogOf(log, C), NEW u, NEW k \in 0 .. Len(log),
         NEW old, Resting(C, old),
         Reruns(log, u)[k].st = old,
         \A j \in k + 1 .. Len(log) :
           j \notin u => log[j].kind \notin UndoableKinds
  PROVE  \A m \in k .. Len(log) : Reruns(log, u)[m].ok =>
           Resting(C, Reruns(log, u)[m].st)
             /\ Returned(old, Reruns(log, u)[m].st)
<1> DEFINE r == Reruns(log, u)
           Good(m) == Resting(C, r[m].st) /\ Returned(old, r[m].st)
           S == {m \in Nat : (m >= k /\ r[m].ok) => Good(m)}
<1>1. /\ \A n \in 1 .. Len(log) : r[n] = Rerun(r[n - 1], log[n], u)
      /\ \A n \in 0 .. Len(log) : RunType(r[n], C, n)
      /\ Len(log) \in Nat /\ r[k].st = old
  BY LogFinite, RerunsUnfold, ReplayTyped
<1> HIDE DEF r
<1>2. Good(k)
  <2>1. old.encounters \in Seq(EncounterType(C))
    BY DEF Resting, StateType
  <2>2. Prefixed(old.encounters, old.encounters)
    BY <2>1, PrefixedReflexive
  <2> QED BY <1>1, <2>2 DEF Returned, SameLearning
<1>3. 0 \in S
  <2>1. 0 >= k => k = 0
    BY <1>1
  <2> QED BY <1>2, <2>1
<1>4. ASSUME NEW m \in 0 .. Len(log) - 1, m \in S PROVE m + 1 \in S
  <2>1. /\ m \in Nat /\ m + 1 \in Nat /\ m + 1 \in 1 .. Len(log)
        /\ (m + 1) - 1 = m /\ m \in 0 .. Len(log)
    BY <1>1
  <2>2. CASE m + 1 <= k
    <3>1. m + 1 >= k => m + 1 = k
      BY <1>1, <2>1, <2>2
    <3> QED BY <1>2, <2>1, <3>1
  <2>3. CASE m >= k
    <3>1. PICK a, x, y : a = log[m + 1] /\ x = r[m] /\ y = r[m + 1]
      OBVIOUS
    <3>2. /\ y = Rerun(x, a, u) /\ RunType(x, C, m)
          /\ a.seq = m + 1 /\ WellFormed(a, C)
          /\ x.ok => Resting(C, x.st) /\ Returned(old, x.st)
      BY <1>1, <1>4, <2>1, <2>3, <3>1 DEF LogOf
    <3>3. CASE a.kind = "undo" \/ a.seq \in u
      BY <2>1, <3>1, <3>2, <3>3 DEF Rerun
    <3>4. CASE ~(a.kind = "undo" \/ a.seq \in u)
      <4>1. PICK t : t = TRUE
        OBVIOUS
      <4>2. y = Step(x, a, t)
        BY <3>2, <3>4, <4>1, Zenon DEF Rerun
      <4>3. SUFFICES ASSUME y.ok
                     PROVE  Resting(C, y.st) /\ Returned(old, y.st)
        BY <2>1, <3>1
      <4>4. /\ x.ok /\ Allowed(x.st, a, t) /\ y.st = Settle(Effect(x.st, a))
        BY <3>2, <4>2, <4>3, StepAccepted DEF RunType
      <4>5. a.kind \notin UndoableKinds
        BY <1>1, <2>1, <2>3, <3>1, <3>2, <3>4
      <4>6. a.kind \in {"presentation", "feedback"}
        BY <4>4, <4>5, AllowedKinds
           DEF UndoableKinds, WordKinds, OtherKinds
      <4>7. CASE a.kind = "presentation"
        BY <3>2, <4>4, <4>7, PresentedReturns DEF Resting
      <4>8. CASE a.kind = "feedback"
        <5>1. Settle(Effect(x.st, a)) = x.st
          BY <3>2, <4>4, <4>8 DEF Effect, Settle, Resting
        <5> QED BY <3>2, <4>4, <5>1
      <4> QED BY <4>6, <4>7, <4>8
    <3> QED BY <3>3, <3>4
  <2> QED BY <1>1, <2>1, <2>2, <2>3
<1> HIDE DEF S
<1>5. \A m \in 0 .. Len(log) : m \in S
  BY <1>1, <1>3, <1>4, InductionUpTo
<1>6. \A m \in k .. Len(log) : m \in 0 .. Len(log) /\ m >= k
  BY <1>1
<1> QED BY <1>5, <1>6 DEF S, r

\* The actions of a command stand together, and an Undo stands alone.
Transitions(log) ==
  \A i \in 1 .. Len(log) :
    /\ log[i].tid \in 1 .. i
    /\ \A j \in log[i].tid .. i :
         log[j].tid = log[i].tid /\ (log[j].kind = "undo" => j = i)

LEMMA RerunsOfPrefix ==
  ASSUME NEW log, NEW prefix, Finite(prefix) /\ Finite(log),
         NEW u, NEW v, NEW k \in Nat,
         k <= Len(log) /\ k <= Len(prefix),
         \A i \in 1 .. k : prefix[i] = log[i] /\ log[i].seq = i,
         \A i \in 1 .. k : i \in v <=> i \in u
  PROVE  \A n \in 0 .. k : Reruns(log, v)[n] = Reruns(prefix, u)[n]
BY RerunsAgree

\* An Undo that is accepted returns to the state before the latest
\* transition, apart from what has been presented since.
LEMMA UndoReturns ==
  ASSUME NEW C, NEW log, LogOf(log, C), Transitions(log),
         NEW n \in 0 .. Len(log) - 1, log[n + 1].kind = "undo",
         Projections(log)[n + 1].ok,
         NEW l, l = Projections(log)[n].latest
  PROVE  /\ l \in 1 .. n /\ log[l].tid - 1 \in 0 .. n
         /\ Returned(Projections(log)[log[l].tid - 1].st,
                     Projections(log)[n + 1].st)
<1> DEFINE p == Projections(log)
<1>1. /\ \A m \in 1 .. Len(log) : p[m] = ProjectStep(log, p[m - 1], log[m])
      /\ \A m \in 0 .. Len(log) : ProjectionType(p[m], C, m)
      /\ Len(log) \in Nat
  BY LogFinite, ProjectionsTyped
<1>2. /\ n \in Nat /\ n + 1 \in 1 .. Len(log) /\ (n + 1) - 1 = n
      /\ n \in 0 .. Len(log)
  BY <1>1
<1>3. PICK a, x, y : a = log[n + 1] /\ x = p[n] /\ y = p[n + 1]
  OBVIOUS
<1>4. \A m \in 0 .. Len(log) : p[m].ok => IsLatest(log, m, p[m].latest)
  BY LatestFound
<1>5. \A m \in 0 .. Len(log) : p[m].ok =>
        /\ Reruns(log, p[m].undone)[m].ok
        /\ Reruns(log, p[m].undone)[m].st = p[m].st
  BY ReplayAgrees
<1>6. \A m \in 0 .. Len(log) : \A j \in m .. Len(log) : p[j].ok => p[m].ok
  BY ObservedGrows
<1> HIDE DEF p
<1>7. /\ y = ProjectStep(log, x, a) /\ ProjectionType(x, C, n)
      /\ a.seq = n + 1 /\ y.ok /\ a.kind = "undo"
  BY <1>1, <1>2, <1>3 DEF LogOf, p
<1>8. x.ok /\ Withdraws(log, n, x, y) /\ x.latest # 0 /\ a.target = x.latest
  <2>1. x.ok /\ Withdraws(log, n, x, y)
    BY <1>3, <1>7, ProjectStepCases
  <2>2. y = Withdrawn(SubSeq(log, 1, a.seq - 1), x, a)
    BY <1>7, <2>1 DEF ProjectStep
  <2>3. ASSUME x.latest = 0 \/ a.target # x.latest PROVE FALSE
    <3>1. y = Refused(x)
      BY <2>2, <2>3 DEF Withdrawn
    <3>2. Refused(x).ok = FALSE
      BY <1>7 DEF Refused, ProjectionType
    <3> QED BY <1>7, <3>1, <3>2
  <2> QED BY <2>1, <2>3
<1>9. /\ l = x.latest /\ l \in 1 .. n /\ log[l].kind \in UndoableKinds
      /\ \A i \in l + 1 .. n : log[i].kind \notin UndoableKinds \cup {"undo"}
  BY <1>2, <1>3, <1>4, <1>8 DEF IsLatest, p
<1>10. PICK t \in Nat : t = log[l].tid
  BY <1>2, <1>9 DEF Transitions
<1>11. PICK k \in Nat : k = t - 1
  BY <1>2, <1>9, <1>10 DEF Transitions
<1>12. /\ t \in 1 .. l /\ t = k + 1 /\ k \in 0 .. n /\ l \in 1 .. Len(log)
       /\ k \in 0 .. Len(log)
  <2>1. l \in 1 .. Len(log)
    BY <1>1, <1>2, <1>9
  <2>2. t \in 1 .. l
    BY <2>1, <1>10 DEF Transitions
  <2>3. l \in Nat /\ l <= n /\ n <= Len(log)
    BY <1>1, <1>2, <1>9
  <2>4. t = k + 1
    BY <1>10, <1>11
  <2>5. k \in 0 .. n /\ k \in 0 .. Len(log)
    BY <1>1, <1>2, <1>11, <2>2, <2>3, <2>4
  <2> QED BY <2>1, <2>2, <2>4, <2>5
\* Nothing from the transition on has been undone before.
<1>13. \A j \in t .. n : log[j].kind # "undo"
  <2>1. ASSUME NEW j \in t .. n PROVE log[j].kind # "undo"
    <3>1. CASE j \in l + 1 .. n
      BY <1>9, <3>1
    <3>2. CASE j \in t .. l
      <4>1. log[j].kind = "undo" => j = l
        BY <1>10, <1>12, <3>2 DEF Transitions
      <4> QED BY <1>9, <4>1 DEF UndoableKinds
    <3> QED BY <1>2, <1>9, <1>12, <3>1, <3>2
  <2> QED BY <2>1
<1>14. p[k].ok /\ x.undone = p[k].undone
  <2> DEFINE S == {m \in Nat : (m >= k /\ m <= n) =>
                     p[m].undone = p[k].undone}
  <2>1. \A m \in k .. n : p[m].ok
    <3>1. ASSUME NEW m \in k .. n PROVE m \in 0 .. Len(log) /\ n \in m .. Len(log)
      BY <1>1, <1>2, <1>12
    <3> QED BY <1>3, <1>6, <1>8, <3>1
  <2>2. 0 \in S
    BY <1>12
  <2>3. ASSUME NEW m \in 0 .. n - 1, m \in S PROVE m + 1 \in S
    <3>1. /\ m \in Nat /\ m + 1 \in Nat /\ m + 1 \in 1 .. Len(log)
          /\ (m + 1) - 1 = m /\ m \in 0 .. Len(log) - 1
          /\ m \in 0 .. Len(log)
      BY <1>1, <1>2
    <3>2. SUFFICES ASSUME m + 1 >= k, m + 1 <= n
                   PROVE  p[m + 1].undone = p[k].undone
      BY <3>1
    <3>3. CASE m + 1 = k
      BY <3>3
    <3>4. CASE m >= k
      <4>1. PICK b, v, q : b = log[m + 1] /\ v = p[m] /\ q = p[m + 1]
        OBVIOUS
      <4>2. q = ProjectStep(log, v, b) /\ ProjectionType(v, C, m) /\ q.ok
        <5>1. m + 1 \in k .. n
          BY <1>12, <3>1, <3>2
        <5> QED BY <1>1, <2>1, <3>1, <4>1, <5>1
      <4>3. b.kind # "undo"
        <5>1. m + 1 \in t .. n
          BY <1>12, <3>1, <3>2, <3>4
        <5> QED BY <1>13, <4>1, <5>1
      <4>4. Extends(v, b, q)
        BY <3>1, <4>1, <4>2, <4>3, ProjectStepCases
      <4>5. v.undone = p[k].undone
        BY <2>3, <3>1, <3>2, <3>4, <4>1
      <4> QED BY <4>1, <4>4, <4>5 DEF Extends
    <3> QED BY <1>12, <3>1, <3>2, <3>3, <3>4
  <2> HIDE DEF S
  <2>4. \A m \in 0 .. n : m \in S
    BY <1>2, <2>2, <2>3, InductionUpTo
  <2>5. p[n].undone = p[k].undone /\ k \in k .. n
    <3>1. n \in 0 .. n /\ n >= k /\ n <= n
      BY <1>2, <1>12
    <3> QED BY <1>12, <2>4, <3>1 DEF S
  <2> QED BY <1>3, <2>1, <2>5
<1>15. PICK prefix, u : prefix = SubSeq(log, 1, n) /\ u = y.undone
  OBVIOUS
<1>16. /\ LogOf(prefix, C) /\ Len(prefix) = n
       /\ \A i \in 1 .. n : prefix[i] = log[i]
  BY <1>2, <1>15, PrefixOfLog
<1>17. /\ u = x.undone \cup UndoTargets(prefix, l)
       /\ Reruns(prefix, u)[n].ok /\ y.st = Reruns(prefix, u)[n].st
  BY <1>3, <1>8, <1>9, <1>15, <1>16 DEF Withdraws, Replay
\* What the Undo withdraws lies in the transition, and is all of it that a
\* replay would repeat.
<1>18. \A i \in 1 .. k : i \in x.undone <=> i \in u
  <2>1. ASSUME NEW i \in 1 .. k, i \in UndoTargets(prefix, l) PROVE FALSE
    <3>1. PICK b \in Range(prefix) : b.tid = prefix[l].tid /\ b.seq = i
      BY <2>1 DEF UndoTargets
    <3>2. PICK j \in 1 .. n : b = log[j]
      BY <1>16, <3>1, LogFinite DEF Range
    <3>3. j = i /\ log[i].tid = t
      BY <1>2, <1>9, <1>10, <1>16, <3>1, <3>2 DEF LogOf
    <3>4. log[i].tid \in 1 .. i
      BY <1>2, <1>12, <3>3 DEF Transitions
    <3> QED BY <1>11, <1>12, <3>3, <3>4
  <2> QED BY <1>17, <2>1
<1>19. \A j \in k + 1 .. n : j \notin u => prefix[j].kind \notin UndoableKinds
  <2>1. SUFFICES ASSUME NEW j \in k + 1 .. n,
                        prefix[j].kind \in UndoableKinds
                 PROVE  j \in u
    OBVIOUS
  <2>2. j \in 1 .. n /\ j \in 1 .. Len(log)
        /\ log[j] = prefix[j] /\ prefix[j].seq = j
    BY <1>1, <1>2, <1>12, <1>16 DEF LogOf
  <2>3. j \in t .. l
    BY <1>2, <1>9, <1>12, <2>1, <2>2
  <2>4. log[j].tid = t
    BY <1>10, <1>12, <2>3 DEF Transitions
  <2>5. prefix[j].tid = prefix[l].tid
    BY <1>9, <1>10, <1>16, <2>2, <2>4
  <2>6. prefix[j].kind \notin {"feedback", "undo"}
    BY <2>1 DEF UndoableKinds
  <2>7. prefix[j] \in Range(prefix)
    BY <1>16, <2>2, LogFinite DEF Range
  <2>8. j \in UndoTargets(prefix, l)
    BY <2>2, <2>5, <2>6, <2>7 DEF UndoTargets
  <2> QED BY <1>17, <2>8
<1>20. PICK old : old = p[k].st
  OBVIOUS
<1>21. Resting(C, old)
  <2>1. PICK G : G = {z \in StateType(C) \X SUBSET Range(log) : Finished(z[1])}
    OBVIOUS
  <2>2. Closed(G, C, Range(log))
    BY <2>1, FinishedClosed
  <2>3. \A i \in 1 .. Len(log) : log[i] \in Range(log)
    BY LogFinite DEF Range
  <2>4. <<p[k].st, InForce(log, k, p[k].undone)>> \in G
    BY <1>12, <1>14, <2>2, <2>3, ProjectionReaches DEF p
  <2> QED BY <1>20, <2>1, <2>4 DEF Resting, Finished
<1>22. Reruns(prefix, u)[k].st = old
  <2>1. Finite(prefix) /\ Finite(log)
    BY <1>16, LogFinite
  <2>2. \A i \in 1 .. k : prefix[i] = log[i] /\ log[i].seq = i
    BY <1>2, <1>12, <1>16 DEF LogOf
  <2>3. k <= Len(prefix) /\ k <= Len(log) /\ k \in 0 .. k
    BY <1>1, <1>2, <1>12, <1>16
  <2>4. \A j \in 0 .. k : Reruns(log, x.undone)[j] = Reruns(prefix, u)[j]
    <3>1. PICK v : v = x.undone
      OBVIOUS
    <3>2. \A i \in 1 .. k : i \in v <=> i \in u
      BY <1>18, <3>1
    <3>3. k \in Nat
      BY <1>11
    <3>4. k <= Len(log) /\ k <= Len(prefix)
      BY <2>3
    <3>5. \A j \in 0 .. k : Reruns(log, v)[j] = Reruns(prefix, u)[j]
      BY <2>1, <2>2, <3>2, <3>3, <3>4, RerunsOfPrefix
    <3> QED BY <3>1, <3>5
  <2>5. Reruns(log, p[k].undone)[k].st = old
    BY <1>5, <1>12, <1>14, <1>20
  <2> QED BY <1>14, <2>3, <2>4, <2>5
<1>23. Returned(old, Reruns(prefix, u)[n].st)
  <2>1. k \in 0 .. Len(prefix) /\ n \in k .. Len(prefix)
    BY <1>2, <1>12, <1>16
  <2>2. \A m \in k .. Len(prefix) : Reruns(prefix, u)[m].ok =>
          Returned(old, Reruns(prefix, u)[m].st)
    BY <1>16, <1>19, <1>21, <1>22, <2>1, ReplayReturns
  <2> QED BY <1>17, <2>1, <2>2
<1>24. log[l].tid - 1 = k
  BY <1>10, <1>11
<1> QED BY <1>3, <1>9, <1>12, <1>17, <1>20, <1>23, <1>24 DEF p
=============================================================================
