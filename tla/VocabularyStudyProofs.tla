----------------------- MODULE VocabularyStudyProofs -----------------------
(***************************************************************************)
(* What the study commands do to every session: the log they write is one  *)
(* the reducer accepts, the projection the server carries from command to  *)
(* command is the one the whole log would give, and what that projection   *)
(* says of coverage, promotion and finishing follows from the actions in   *)
(* force, whatever was undone.                                             *)
(***************************************************************************)
EXTENDS VocabularyStudy, SessionReducerProofs

-----------------------------------------------------------------------------
(* Actions as the commands draft them, and as they enter the log.          *)

Contents == Cues \cup UNION {{c.id : c \in Retained(w)} : w \in Words}

Draft(a, C) ==
  /\ "kind" \in DOMAIN a /\ "seq" \notin DOMAIN a /\ "tid" \notin DOMAIN a
  /\ a.kind = "presentation" =>
       /\ {"word", "content", "shape", "role"} \subseteq DOMAIN a
       /\ a.word \in Words \cup {NoWord} /\ a.content \in C
       /\ a.shape \in Shapes /\ a.role \in Roles
  /\ a.kind = "response" => "accepted" \in DOMAIN a /\ a.accepted \in BOOLEAN
  /\ a.kind \in {"teaching_complete", "word_wrap", "word_skip",
                 "word_more", "mode_change"} =>
       "word" \in DOMAIN a /\ a.word \in Words
  /\ a.kind = "mode_change" => "mode" \in DOMAIN a /\ a.mode \in Modes
  /\ a.kind = "word_wrap" =>
       "reason" \in DOMAIN a /\ a.reason \in {"policy", "enough"}

LEMMA StampedDraft ==
  ASSUME NEW C, NEW a, Draft(a, C), NEW seq \in Nat, NEW tid
  PROVE  /\ WellFormed(Stamped(a, seq, tid), C)
         /\ Stamped(a, seq, tid).seq = seq
         /\ Stamped(a, seq, tid).tid = tid
         /\ Stamped(a, seq, tid).kind = a.kind
         /\ a.kind = "presentation" =>
              /\ Stamped(a, seq, tid).content = a.content
              /\ Stamped(a, seq, tid).shape = a.shape
              /\ Stamped(a, seq, tid).role = a.role
<1>1. ASSUME NEW f \in DOMAIN a, f # "seq", f # "tid"
      PROVE  Stamped(a, seq, tid)[f] = a[f]
  BY <1>1 DEF Stamped
<1>2. PICK s : s = Stamped(a, seq, tid)
  OBVIOUS
<1>3. s.seq = seq /\ s.tid = tid
  BY <1>2 DEF Stamped
<1>4. s.kind = a.kind
  BY <1>1, <1>2 DEF Draft
<1>5. a.kind = "presentation" =>
        /\ s.word = a.word /\ s.content = a.content /\ s.shape = a.shape
        /\ s.role = a.role
  BY <1>1, <1>2 DEF Draft
<1>6. a.kind = "response" => s.accepted = a.accepted
  BY <1>1, <1>2 DEF Draft
<1>7. a.kind \in {"teaching_complete", "word_wrap", "word_skip",
                  "word_more", "mode_change"} => s.word = a.word
  BY <1>1, <1>2 DEF Draft
<1>8. /\ a.kind = "mode_change" => s.mode = a.mode
      /\ a.kind = "word_wrap" => s.reason = a.reason
  BY <1>1, <1>2 DEF Draft
<1>9. WellFormed(s, C)
  BY <1>3, <1>4, <1>5, <1>6, <1>7, <1>8 DEF Draft, WellFormed
<1> QED BY <1>2, <1>3, <1>4, <1>5, <1>9

\* A draft of anything but an Undo or a presentation.
PlainDraft(a) == Draft(a, Contents) /\ a.kind \notin {"undo", "presentation"}

\* The new actions of one command: they stand in one transition, and an Undo
\* stands alone in it.
Together(add, n) ==
  /\ \A i \in 1 .. Len(add) : add[i].tid = n + 1
  /\ Len(add) = 1 \/ \A i \in 1 .. Len(add) : add[i].kind # "undo"

\* New actions for a log of n actions.
Additions(add, n, C) ==
  /\ \E S : add \in Seq(S)
  /\ \A i \in 1 .. Len(add) : add[i].seq = n + i /\ WellFormed(add[i], C)

LEMMA NumberedAdditions ==
  ASSUME NEW C, NEW n \in Nat, NEW S, NEW drafts \in Seq(S),
         \A i \in 1 .. Len(drafts) : Draft(drafts[i], C)
  PROVE  /\ Additions(Numbered(n, drafts), n, C)
         /\ Len(Numbered(n, drafts)) = Len(drafts)
         /\ \A i \in 1 .. Len(drafts) :
              Numbered(n, drafts)[i] = Stamped(drafts[i], n + i, n + 1)
<1> DEFINE new(i) == Stamped(drafts[i], n + i, n + 1)
<1>1. Numbered(n, drafts) = [i \in 1 .. Len(drafts) |-> new(i)]
  BY DEF Numbered
<1>2. \A i \in 1 .. Len(drafts) : new(i).seq = n + i /\ WellFormed(new(i), C)
  BY StampedDraft
<1> HIDE DEF new
<1>3. PICK s : s = Numbered(n, drafts)
  OBVIOUS
<1>4. s \in Seq({new(i) : i \in 1 .. Len(drafts)}) /\ Len(s) = Len(drafts)
  BY <1>1, <1>3, SeqDef
<1>5. Additions(s, n, C)
  BY <1>1, <1>2, <1>3, <1>4 DEF Additions
<1>6. \A i \in 1 .. Len(drafts) : s[i] = new(i)
  BY <1>1, <1>3
<1> QED BY <1>3, <1>4, <1>5, <1>6 DEF new

\* All of them in the transition of the first.
LEMMA NumberedTogether ==
  ASSUME NEW n \in Nat, NEW S, NEW drafts \in Seq(S),
         \A i \in 1 .. Len(drafts) : Draft(drafts[i], Contents)
  PROVE  \A i \in 1 .. Len(drafts) :
           /\ Numbered(n, drafts)[i].tid = n + 1
           /\ Numbered(n, drafts)[i].kind = drafts[i].kind
<1>1. ASSUME NEW i \in 1 .. Len(drafts)
      PROVE  /\ Numbered(n, drafts)[i].tid = n + 1
             /\ Numbered(n, drafts)[i].kind = drafts[i].kind
  <2>1. Numbered(n, drafts)[i] = Stamped(drafts[i], n + i, n + 1)
    BY NumberedAdditions
  <2>2. n + i \in Nat
    OBVIOUS
  <2> QED BY <2>1, <2>2, StampedDraft
<1> QED BY <1>1

LEMMA AdditionsJoin ==
  ASSUME NEW C, NEW old, LogOf(old, C), NEW add, Additions(add, Len(old), C)
  PROVE  LogOf(old \o add, C)
<1>1. PICK S : old \in Seq(S)
  BY DEF LogOf
<1>2. PICK T : add \in Seq(T)
  BY DEF Additions
<1>3. PICK all : all = old \o add
  OBVIOUS
<1>4. /\ all \in Seq(S \cup T) /\ Len(all) = Len(old) + Len(add)
      /\ Len(old) \in Nat /\ Len(add) \in Nat
      /\ \A i \in 1 .. Len(old) : all[i] = old[i]
      /\ \A i \in 1 .. Len(add) : all[Len(old) + i] = add[i]
  BY <1>1, <1>2, <1>3
<1>5. ASSUME NEW i \in 1 .. Len(all)
      PROVE  all[i].seq = i /\ WellFormed(all[i], C)
  <2>1. CASE i \in 1 .. Len(old)
    BY <1>4, <2>1 DEF LogOf
  <2>2. CASE i \notin 1 .. Len(old)
    <3>1. PICK j \in 1 .. Len(add) : i = Len(old) + j
      <4>1. i - Len(old) \in 1 .. Len(add) /\ i = Len(old) + (i - Len(old))
        BY <1>4, <2>2
      <4> QED BY <4>1
    <3>2. all[i] = add[j] /\ add[j].seq = i /\ WellFormed(add[j], C)
      BY <1>4, <3>1 DEF Additions
    <3> QED BY <3>2
  <2> QED BY <2>1, <2>2
<1> QED BY <1>3, <1>4, <1>5 DEF LogOf

\* One more addition.
LEMMA AdditionAppended ==
  ASSUME NEW C, NEW n \in Nat, NEW add, Additions(add, n, C),
         NEW a, a.seq = n + Len(add) + 1, WellFormed(a, C)
  PROVE  Additions(Append(add, a), n, C) /\ Len(add) \in Nat
         /\ Len(Append(add, a)) = Len(add) + 1
<1>1. PICK T : add \in Seq(T)
  BY DEF Additions
<1>2. PICK all : all = Append(add, a)
  OBVIOUS
<1>3. /\ all \in Seq(T \cup {a}) /\ Len(all) = Len(add) + 1 /\ Len(add) \in Nat
      /\ all[Len(add) + 1] = a
      /\ \A i \in 1 .. Len(add) : all[i] = add[i]
  BY <1>1, <1>2
<1>4. ASSUME NEW i \in 1 .. Len(all)
      PROVE  all[i].seq = n + i /\ WellFormed(all[i], C)
  <2>1. CASE i \in 1 .. Len(add)
    BY <1>3, <2>1 DEF Additions
  <2>2. CASE i = Len(add) + 1
    BY <1>3, <2>2
  <2> QED BY <1>3, <2>1, <2>2
<1> QED BY <1>2, <1>3, <1>4 DEF Additions

-----------------------------------------------------------------------------
(* Runs of new actions.                                                    *)

LEMMA RunsTyped ==
  ASSUME NEW C, NEW n \in Nat, NEW st, RunType([ok |-> TRUE, st |-> st], C, n),
         NEW add, Additions(add, n, C)
  PROVE  RunType(RunFrom(st, add, FALSE), C, n + Len(add))
<1>6. PICK z : z = FALSE
  OBVIOUS
<1> DEFINE r == Runs(st, add, z)
           S == {k \in Nat : RunType(r[k], C, n + k)}
<1>1. Len(add) \in Nat
  BY DEF Additions
<1>2. /\ r[0] = [ok |-> TRUE, st |-> st]
      /\ \A k \in 1 .. Len(add) : r[k] = Step(r[k - 1], add[k], z)
  BY <1>1, RunsUnfold DEF Finite
<1> HIDE DEF r
<1>3. 0 \in S
  <2>1. n + 0 = n
    OBVIOUS
  <2> QED BY <1>2, <2>1
<1>4. ASSUME NEW k \in 0 .. Len(add) - 1, k \in S PROVE k + 1 \in S
  <2>1. /\ k \in Nat /\ k + 1 \in 1 .. Len(add) /\ (k + 1) - 1 = k
        /\ n + k \in Nat /\ n + (k + 1) = (n + k) + 1
    BY <1>1
  <2>2. PICK a, m : a = add[k + 1] /\ m = n + k
    OBVIOUS
  <2>3. a.seq = m + 1 /\ WellFormed(a, C) /\ m \in Nat
    BY <2>1, <2>2 DEF Additions
  <2>4. RunType(r[k], C, m)
    BY <1>4, <2>2
  <2>5. RunType(Step(r[k], a, z), C, m + 1)
    BY <2>3, <2>4, StepTyped
  <2>6. r[k + 1] = Step(r[k], a, z)
    BY <1>2, <2>1, <2>2
  <2>7. RunType(r[k + 1], C, n + (k + 1))
    BY <2>1, <2>2, <2>5, <2>6
  <2> QED BY <2>1, <2>7
<1> HIDE DEF S
<1>5. \A k \in 0 .. Len(add) : k \in S
  BY <1>1, <1>3, <1>4, InductionUpTo
<1>7. RunType(r[Len(add)], C, n + Len(add))
  BY <1>1, <1>5 DEF S
<1> QED BY <1>6, <1>7, Zenon DEF r, RunFrom

LEMMA RunOfOne ==
  ASSUME NEW C, NEW n \in Nat, NEW st, RunType([ok |-> TRUE, st |-> st], C, n),
         NEW a, a.seq = n + 1, WellFormed(a, C)
  PROVE  RunType(RunFrom(st, <<a>>, FALSE), C, n + 1)
<1>1. Len(<<a>>) = 1 /\ <<a>>[1] = a /\ <<a>> \in Seq({a})
  OBVIOUS
<1>3. PICK add : add = <<a>>
  OBVIOUS
<1>4. \E S : add \in Seq(S)
  BY <1>1, <1>3
<1>5. \A i \in 1 .. Len(add) : add[i].seq = n + i /\ WellFormed(add[i], C)
  BY <1>1, <1>3
<1>2. Additions(<<a>>, n, C)
  BY <1>3, <1>4, <1>5 DEF Additions
<1> QED BY <1>1, <1>2, RunsTyped

-----------------------------------------------------------------------------
(* Lists of drafts.                                                        *)

Drafts(drafts) ==
  /\ \E S : drafts \in Seq(S)
  /\ \A i \in 1 .. Len(drafts) : PlainDraft(drafts[i])

LEMMA NoDrafts == Drafts(<<>>)
<1>1. <<>> \in Seq({}) /\ Len(<<>>) = 0
  OBVIOUS
<1> QED BY <1>1 DEF Drafts

LEMMA OneDraft ==
  ASSUME NEW a, PlainDraft(a) PROVE Drafts(<<a>>)
<1>1. PICK s : s = <<a>>
  OBVIOUS
<1>2. s \in Seq({a}) /\ Len(s) = 1 /\ s[1] = a
  BY <1>1
<1>3. \A i \in 1 .. Len(s) : PlainDraft(s[i])
  BY <1>2
<1>4. \E S : s \in Seq(S)
  BY <1>2
<1>5. Drafts(s)
  BY <1>3, <1>4 DEF Drafts
<1> QED BY <1>1, <1>5

LEMMA DraftsJoin ==
  ASSUME NEW a, NEW b, Drafts(a), Drafts(b) PROVE Drafts(a \o b)
<1>1. PICK S, T : a \in Seq(S) /\ b \in Seq(T)
  BY DEF Drafts
<1>2. PICK s : s = a \o b
  OBVIOUS
<1>3. /\ s \in Seq(S \cup T) /\ Len(s) = Len(a) + Len(b)
      /\ Len(a) \in Nat /\ Len(b) \in Nat
      /\ \A i \in 1 .. Len(a) : s[i] = a[i]
      /\ \A i \in 1 .. Len(b) : s[Len(a) + i] = b[i]
  BY <1>1, <1>2
<1>4. ASSUME NEW i \in 1 .. Len(s) PROVE PlainDraft(s[i])
  <2>1. CASE i \in 1 .. Len(a)
    BY <1>3, <2>1 DEF Drafts
  <2>2. CASE i \notin 1 .. Len(a)
    <3>1. i - Len(a) \in 1 .. Len(b) /\ i = Len(a) + (i - Len(a))
      BY <1>3, <2>2
    <3>2. PICK j \in 1 .. Len(b) : i = Len(a) + j
      BY <3>1
    <3> QED BY <1>3, <3>2 DEF Drafts
  <2> QED BY <2>1, <2>2
<1> QED BY <1>2, <1>3, <1>4 DEF Drafts

-----------------------------------------------------------------------------
(* The invariant: the log is one the reducer accepts, the view is its       *)
(* projection, and an open transaction has run what it will append.         *)

TxType(t) ==
  /\ t = [ open |-> t.open, additions |-> t.additions, st |-> t.st,
           ok |-> t.ok, another |-> t.another, blocked |-> t.blocked,
           wanted |-> t.wanted ]
  /\ Additions(t.additions, Len(log), Contents)
  /\ \A i \in 1 .. Len(t.additions) :
       t.additions[i].tid = Len(log) + 1 /\ t.additions[i].kind # "undo"
  /\ RunType([ok |-> t.ok, st |-> t.st], Contents,
             Len(log) + Len(t.additions))

LogInv ==
  /\ session \in Compositions
  /\ LogOf(log, Contents)
  /\ view = Project(log)
  /\ view.ok

StudyInv == LogInv /\ (tx.open => TxType(tx))

LEMMA ViewTyped ==
  ASSUME LogInv
  PROVE  /\ Len(log) \in Nat
         /\ view.st \in StateType(Contents)
         /\ RunType([ok |-> TRUE, st |-> view.st], Contents, Len(log))
<1>1. Len(log) \in Nat /\ Len(log) \in 0 .. Len(log)
  BY LogFinite DEF LogInv
<1>2. PICK p : p = Projections(log)[Len(log)]
  OBVIOUS
<1>3. ProjectionType(p, Contents, Len(log))
  BY <1>1, <1>2, ProjectionsTyped DEF LogInv
<1>4. view.st = p.st /\ p.ok
  BY <1>2 DEF LogInv, Project, Presentable
<1> QED BY <1>1, <1>3, <1>4 DEF ProjectionType, RunType

LEMMA Composed ==
  ASSUME LogInv PROVE session.words \subseteq Words /\ session.cues \subseteq Cues
BY StudyAssumption DEF LogInv

\* What is current in the view.
LEMMA CurrentTyped ==
  ASSUME LogInv, HasCurrent(view.st)
  PROVE  CurrentEnc(view.st) \in EncounterType(Contents)
<1>1. view.st.encounters \in Seq(EncounterType(Contents))
  BY ViewTyped DEF StateType
<1>2. view.st.encounters # <<>>
  BY DEF HasCurrent, Encs
<1>3. Len(view.st.encounters) \in 1 .. Len(view.st.encounters)
  BY <1>1, <1>2
<1> QED BY <1>1, <1>3 DEF CurrentEnc, Encs

LEMMA CurrentWordTyped ==
  ASSUME LogInv, CurrentWord(view.st) # NoWord
  PROVE  CurrentWord(view.st) \in Words
<1>1. HasCurrent(view.st) /\ CurrentWord(view.st) = CurrentEnc(view.st).word
  BY DEF CurrentWord
<1> QED BY <1>1, CurrentTyped DEF EncounterType

\* What commits is accepted.
LEMMA CommitTyped ==
  ASSUME LogInv, NEW add, Additions(add, Len(log), Contents), Commit(add),
         session' = session
  PROVE  LogInv' /\ log' = log \o add
<1>1. PICK v : v = Advance(view, log, add)
  OBVIOUS
<1>2. v.ok /\ view' = v /\ log' = log \o add
  BY <1>1 DEF Commit
<1>3. PICK all : all = log \o add
  OBVIOUS
<1>4. LogOf(all, Contents)
  BY <1>3, AdditionsJoin DEF LogInv
<1>5. v = Project(all)
  <2>1. PICK S : add \in Seq(S)
    BY DEF Additions
  <2>2. v = Advance(Project(log), log, add) /\ Project(log).ok
        /\ LogOf(log, Contents)
    BY <1>1 DEF LogInv
  <2>3. LogOf(log \o add, Contents)
    BY <1>3, <1>4
  <2>4. Advance(Project(log), log, add).ok
    BY <1>2, <2>2
  <2>5. Advance(Project(log), log, add) = Project(log \o add)
    BY <2>1, <2>2, <2>3, <2>4, AdvanceIsProject
  <2> QED BY <1>3, <2>2, <2>5
<1>6. log' = all /\ view' = Project(all) /\ view'.ok
  BY <1>2, <1>3, <1>5
<1> QED BY <1>2, <1>4, <1>6 DEF LogInv

\* What a command appends.
Appends ==
  \E add : /\ Additions(add, Len(log), Contents) /\ Together(add, Len(log))
           /\ Commit(add) /\ LogInv'

\* What a command appends when it serves nothing.
AppendsQuietly ==
  \E add : /\ Additions(add, Len(log), Contents) /\ Commit(add) /\ LogInv'
           /\ \A i \in 1 .. Len(add) : add[i].kind # "presentation"

\* Nothing committed.
Still == log' = log /\ view' = view /\ before' = before

\* A command drafts plain actions, or one Undo.
OneUndo(drafts) ==
  \E t : drafts = <<[kind |-> "undo", target |-> t]>>

LEMMA CommandTyped ==
  ASSUME StudyInv, ~tx.open, NEW drafts, Drafts(drafts) \/ OneUndo(drafts),
         Command(drafts)
  PROVE  StudyInv' /\ Appends /\ AppendsQuietly
<1>1. PICK add : add = Numbered(Len(log), drafts)
  OBVIOUS
<1>2. Commit(add) /\ session' = session /\ tx' = tx
  BY <1>1 DEF Command
<1>3. LogInv /\ Len(log) \in Nat
  BY ViewTyped DEF StudyInv
<1>4. /\ \E S : drafts \in Seq(S)
      /\ \A i \in 1 .. Len(drafts) : Draft(drafts[i], Contents)
      /\ Len(drafts) = 1 \/ \A i \in 1 .. Len(drafts) : drafts[i].kind # "undo"
      /\ \A i \in 1 .. Len(drafts) : drafts[i].kind # "presentation"
  <2>1. CASE Drafts(drafts)
    BY <2>1 DEF Drafts, PlainDraft
  <2>2. CASE OneUndo(drafts)
    <3>1. PICK t, a : /\ a = [kind |-> "undo", target |-> t]
                      /\ drafts = <<a>>
      BY <2>2 DEF OneUndo
    <3>2. Draft(a, Contents)
      BY <3>1 DEF Draft
    <3>3. drafts \in Seq({a}) /\ Len(drafts) = 1 /\ drafts[1] = a
      BY <3>1
    <3>4. \A i \in 1 .. Len(drafts) : drafts[i] = a
      BY <3>3
    <3>5. a.kind # "presentation"
      BY <3>1
    <3> QED BY <3>2, <3>3, <3>4, <3>5
  <2> QED BY <2>1, <2>2
<1>5. /\ Additions(add, Len(log), Contents) /\ Len(add) = Len(drafts)
      /\ \A i \in 1 .. Len(drafts) :
           add[i].tid = Len(log) + 1 /\ add[i].kind = drafts[i].kind
  <2>1. PICK S : drafts \in Seq(S)
    BY <1>4
  <2>2. \A i \in 1 .. Len(drafts) : Draft(drafts[i], Contents)
    BY <1>4
  <2>3. Additions(add, Len(log), Contents) /\ Len(add) = Len(drafts)
    BY <1>1, <1>3, <2>1, <2>2, NumberedAdditions
  <2> QED BY <1>1, <1>3, <2>1, <2>2, <2>3, NumberedTogether
<1>6. Together(add, Len(log))
  BY <1>4, <1>5 DEF Together
<1>7. LogInv' /\ log' = log \o add
  BY <1>2, <1>3, <1>5, CommitTyped
<1>8. ~(tx.open)'
  BY <1>2
<1>9. \A i \in 1 .. Len(add) : add[i].kind # "presentation"
  BY <1>4, <1>5
<1>10. AppendsQuietly
  BY <1>2, <1>5, <1>7, <1>9 DEF AppendsQuietly
<1> QED BY <1>2, <1>5, <1>6, <1>7, <1>8, <1>10 DEF StudyInv, Appends

-----------------------------------------------------------------------------
(* The commands.                                                           *)

LEMMA WordDraft ==
  ASSUME NEW w \in Words
  PROVE  /\ PlainDraft([kind |-> "teaching_complete", word |-> w])
         /\ PlainDraft([kind |-> "word_skip", word |-> w])
         /\ PlainDraft([kind |-> "word_more", word |-> w])
         /\ \A r \in {"policy", "enough"} :
              PlainDraft([kind |-> "word_wrap", word |-> w, reason |-> r])
         /\ \A m \in Modes :
              PlainDraft([kind |-> "mode_change", word |-> w, mode |-> m])
BY DEF Draft, PlainDraft

LEMMA EncounterDraft ==
  ASSUME NEW e
  PROVE  /\ \A b \in BOOLEAN :
              PlainDraft([kind |-> "response", encounter |-> e,
                          accepted |-> b])
         /\ \A r : PlainDraft([kind |-> "feedback", encounter |-> e,
                               reaction |-> r])
         /\ PlainDraft([kind |-> "exercise_skip", encounter |-> e])
         /\ PlainDraft([kind |-> "exercise_exclude", encounter |-> e])
BY DEF Draft, PlainDraft

LEMMA PhaseDraft ==
  /\ PlainDraft([kind |-> "resume"])
  /\ PlainDraft([kind |-> "finish_for_now"])
  /\ PlainDraft([kind |-> "finish_immediately"])
BY DEF Draft, PlainDraft

LEMMA CompanionDrafts ==
  ASSUME NEW w \in Words, NEW word PROVE Drafts(Companion(w, word))
BY WordDraft, NoDrafts, OneDraft DEF Companion

LEMMA LearnerCommandTyped ==
  ASSUME StudyInv, LearnerCommand PROVE StudyInv' /\ Appends /\ AppendsQuietly
<1>1. ~tx.open /\ LogInv
  BY DEF LearnerCommand, Started, StudyInv
<1>2. ASSUME NEW drafts, Drafts(drafts), Command(drafts)
      PROVE  StudyInv' /\ Appends /\ AppendsQuietly
  BY <1>1, <1>2, CommandTyped
<1>3. ASSUME NEW accepted \in BOOLEAN, Response(accepted)
      PROVE  StudyInv' /\ Appends /\ AppendsQuietly
  <2>1. PICK e, act, words : /\ e = CurrentEnc(view.st)
          /\ act = [kind |-> "response", encounter |-> e.id,
                    accepted |-> accepted]
          /\ Unanswered(view.st)
          /\ Command(<<act>> \o (IF e.word = NoWord THEN <<>>
                                 ELSE Companion(e.word, words[e.word])))
    BY <1>3 DEF Response
  <2>2. e \in EncounterType(Contents)
    BY <1>1, <2>1, CurrentTyped DEF Unanswered
  <2>3. e.word # NoWord => e.word \in Words
    BY <2>2 DEF EncounterType
  <2>4. Drafts(<<act>>)
    BY <2>1, EncounterDraft, OneDraft
  <2>5. Drafts(IF e.word = NoWord THEN <<>>
               ELSE Companion(e.word, words[e.word]))
    BY <2>3, NoDrafts, CompanionDrafts
  <2> QED BY <1>2, <2>1, <2>4, <2>5, DraftsJoin
<1>4. ASSUME NEW r, Feedback(r) PROVE StudyInv' /\ Appends /\ AppendsQuietly
  BY <1>2, <1>4, EncounterDraft, OneDraft DEF Feedback
<1>5. CASE SkipExercise
  BY <1>2, <1>5, EncounterDraft, OneDraft DEF SkipExercise
<1>6. CASE SkipWord
  BY <1>1, <1>2, <1>6, CurrentWordTyped, WordDraft, OneDraft DEF SkipWord
<1>7. CASE Enough
  <2>1. CurrentWord(view.st) \in Words
    BY <1>1, <1>7, CurrentWordTyped DEF Enough
  <2>2. PlainDraft([kind |-> "word_wrap", word |-> CurrentWord(view.st),
               reason |-> "enough"])
    BY <2>1, WordDraft
  <2> QED BY <1>2, <1>7, <2>2, OneDraft DEF Enough
<1>8. ASSUME NEW w \in session.words, More(w) \/ Requeue(w)
      PROVE  StudyInv' /\ Appends /\ AppendsQuietly
  <2>1. PlainDraft([kind |-> "word_more", word |-> w])
    BY <1>1, Composed, WordDraft
  <2> QED BY <1>2, <1>8, <2>1, OneDraft DEF More, Requeue
<1>9. ASSUME NEW w \in session.words, NEW m \in Modes, ChangeMode(w, m)
      PROVE  StudyInv' /\ Appends /\ AppendsQuietly
  <2>1. PlainDraft([kind |-> "mode_change", word |-> w, mode |-> m])
    BY <1>1, Composed, WordDraft
  <2> QED BY <1>2, <1>9, <2>1, OneDraft DEF ChangeMode
<1>10. CASE Resume
  BY <1>2, <1>10, PhaseDraft, OneDraft DEF Resume
<1>11. CASE FinishForNow
  BY <1>2, <1>11, PhaseDraft, OneDraft DEF FinishForNow
<1>12. CASE FinishImmediately
  BY <1>2, <1>12, PhaseDraft, OneDraft DEF FinishImmediately
<1>13. CASE Undo
  BY <1>1, <1>13, CommandTyped DEF Undo, OneUndo
<1> QED
  BY <1>3, <1>4, <1>5, <1>6, <1>7, <1>8, <1>9, <1>10, <1>11, <1>12, <1>13
  DEF LearnerCommand

-----------------------------------------------------------------------------
(* Next.                                                                   *)

\* What is pushed is run.
LEMMA PushTyped ==
  ASSUME LogInv, NEW t, TxType(t), t.ok, NEW a, Draft(a, Contents),
         a.kind # "undo"
  PROVE  TxType(Push(t, a)) /\ Push(t, a).open = t.open
<1>1. Len(log) \in Nat /\ Len(t.additions) \in Nat
  BY ViewTyped DEF TxType, Additions
<1>2. PICK n, x : /\ n = Len(log) + Len(t.additions)
                  /\ x = Stamped(a, Len(log) + Len(t.additions) + 1,
                                 Len(log) + 1)
  OBVIOUS
<1>3. /\ n \in Nat /\ x.seq = n + 1 /\ WellFormed(x, Contents)
      /\ x.tid = Len(log) + 1 /\ x.kind # "undo"
  <2>1. PICK m, k \in Nat : m = n + 1 /\ k = Len(log) + 1 /\ n \in Nat
    BY <1>1, <1>2
  <2>2. x = Stamped(a, m, k)
    BY <1>2, <2>1
  <2>3. /\ WellFormed(Stamped(a, m, k), Contents)
        /\ Stamped(a, m, k).seq = m /\ Stamped(a, m, k).tid = k
        /\ Stamped(a, m, k).kind = a.kind
    BY <2>1, StampedDraft
  <2> QED BY <2>1, <2>2, <2>3
<1>4. PICK run : run = RunFrom(t.st, <<x>>, FALSE)
  OBVIOUS
<1>5. RunType([ok |-> TRUE, st |-> t.st], Contents, n)
  BY <1>2 DEF TxType, RunType
<1>6. RunType(run, Contents, n + 1)
  BY <1>3, <1>4, <1>5, RunOfOne
<1>7. Push(t, a) = Ran(t, x, run)
  BY <1>2, <1>4 DEF Push, Tried
<1>8. PICK add : add = Append(t.additions, x)
  OBVIOUS
<1>9. Additions(add, Len(log), Contents) /\ Len(add) = Len(t.additions) + 1
  <2>1. Additions(t.additions, Len(log), Contents)
    BY DEF TxType
  <2>2. x.seq = Len(log) + Len(t.additions) + 1
    BY <1>2, <1>3
  <2> QED BY <1>1, <1>3, <1>8, <2>1, <2>2, AdditionAppended
<1>10. PICK o, ad, st, ok, an, bl, wa :
         t = [open |-> o, additions |-> ad, st |-> st, ok |-> ok,
              another |-> an, blocked |-> bl, wanted |-> wa]
  BY DEF TxType
<1>11. PICK b, s : b \in BOOLEAN /\ run = [ok |-> b, st |-> s]
  BY <1>6 DEF RunType
<1>12. ok /\ t.ok \in BOOLEAN
  BY <1>10 DEF TxType, RunType
<1>13. PICK c \in BOOLEAN : c = (ok /\ run.ok)
  BY <1>6 DEF RunType
<1>14. c = b
  BY <1>11, <1>12, <1>13
<1>15. PICK q : q = Push(t, a)
  OBVIOUS
<1>16. q = [t EXCEPT !.additions = add, !.st = s, !.ok = c]
  BY <1>7, <1>8, <1>10, <1>11, <1>13, <1>15 DEF Ran
<1>17. q = [open |-> o, additions |-> add, st |-> s, ok |-> b,
            another |-> an, blocked |-> bl, wanted |-> wa]
  BY <1>10, <1>14, <1>16
<1>18. RunType([ok |-> q.ok, st |-> q.st], Contents,
               Len(log) + Len(q.additions))
  <2>1. Len(log) + Len(add) = n + 1
    BY <1>1, <1>2, <1>9
  <2> QED BY <1>6, <1>11, <1>17, <2>1
<1>19. \A i \in 1 .. Len(add) :
         add[i].tid = Len(log) + 1 /\ add[i].kind # "undo"
  <2>1. PICK T : t.additions \in Seq(T)
    BY DEF TxType, Additions
  <2>2. \A i \in 1 .. Len(t.additions) : add[i] = t.additions[i]
    BY <1>8, <2>1
  <2>3. add[Len(t.additions) + 1] = x
    BY <1>8, <2>1
  <2>4. \A i \in 1 .. Len(add) :
          i \in 1 .. Len(t.additions) \/ i = Len(t.additions) + 1
    BY <1>1, <1>9
  <2> QED BY <1>3, <2>2, <2>3, <2>4 DEF TxType
<1>20. TxType(q)
  BY <1>9, <1>17, <1>18, <1>19 DEF TxType
<1> QED BY <1>10, <1>15, <1>17, <1>20

\* Changing what the loop remembers leaves the run alone.
LEMMA LoopTyped ==
  ASSUME NEW t, TxType(t), NEW wanted, NEW blocked
  PROVE  /\ TxType([t EXCEPT !.wanted = wanted, !.blocked = blocked])
         /\ [t EXCEPT !.wanted = wanted, !.blocked = blocked].open = t.open
<1>1. PICK o, ad, st, ok, an, bl, wa :
         t = [open |-> o, additions |-> ad, st |-> st, ok |-> ok,
              another |-> an, blocked |-> bl, wanted |-> wa]
  BY DEF TxType
<1>2. PICK q : q = [t EXCEPT !.wanted = wanted, !.blocked = blocked]
  OBVIOUS
<1>3. q = [open |-> o, additions |-> ad, st |-> st, ok |-> ok,
           another |-> an, blocked |-> blocked, wanted |-> wanted]
  BY <1>1, <1>2
<1>4. TxType(q)
  BY <1>1, <1>3 DEF TxType
<1> QED BY <1>1, <1>2, <1>3, <1>4

LEMMA ReopenedTyped ==
  ASSUME LogInv, NEW t, TxType(t), t.ok, NEW w \in Words
  PROVE  TxType(Reopened(t, w)) /\ Reopened(t, w).open = t.open
<1>1. PlainDraft([kind |-> "word_more", word |-> w])
  BY WordDraft
<1> QED BY <1>1, PushTyped DEF Reopened, PlainDraft

LEMMA LeftTyped ==
  ASSUME LogInv, NEW t, TxType(t), t.ok, NEW w \in Words
  PROVE  TxType(LeftUnfinished(t, w)) /\ LeftUnfinished(t, w).open = t.open
<1>1. PlainDraft([kind |-> "word_skip", word |-> w])
  BY WordDraft
<1> QED BY <1>1, PushTyped DEF LeftUnfinished, PlainDraft

\* What is excluded is never chosen to practise a word, and what teaches or
\* primes one is never excluded.
Unbarred(w, st) == {c \in Practises(w) : c.id \notin st.excluded}

LEMMA ChoicesRetained ==
  ASSUME NEW w \in Words, NEW st, st.words[w].mode \in Modes
  PROVE  /\ TeachingChoices(st, w) \subseteq Instructs(w)
         /\ PrimingDue(st, w) => Priming[w] \in Instructs(w)
         /\ \A s : GeneralChoices(st, w, s) \subseteq Unbarred(w, st)
<1>1. \A pool : LeastSeen(st, w, pool) \subseteq pool
  BY DEF LeastSeen
<1>2. Teaching[w].intro \in Instructs(w) /\ Teaching[w].exercises \subseteq Instructs(w)
  BY DEF Instructs
<1>3. TeachingChoices(st, w) \subseteq Instructs(w)
  BY <1>1, <1>2 DEF TeachingChoices
<1>4. PrimingDue(st, w) => Priming[w] \in Instructs(w)
  BY DEF PrimingDue, Instructs
<1>5. ASSUME NEW s PROVE Eligible(st, w, s) \subseteq Unbarred(w, st)
  <2>1. General[w][st.words[w].mode] \subseteq UNION {General[w][m] : m \in Modes}
    OBVIOUS
  <2> QED BY <2>1 DEF Eligible, Unbarred, Practises
<1>6. ASSUME NEW pool, NEW last
      PROVE  ProductionChoices(st, w, pool, last) \subseteq pool
  <2>1. \A a, b : OrElse(a, b) \in {a, b}
    BY DEF OrElse
  <2>2. PICK retry : retry = Retry(w, ProductionsOf(st, w), last)
    OBVIOUS
  <2>3. PICK fresh : fresh = {c \in pool : c.id # last}
    OBVIOUS
  <2>4. OrElse(fresh, pool) \subseteq pool
    BY <2>1, <2>3
  <2>5. LeastSeen(st, w, OrElse(fresh, pool)) \subseteq pool
    BY <1>1, <2>4
  <2>6. PICK a, b : /\ a = {c \in pool : c.id \in retry}
                    /\ b = LeastSeen(st, w, OrElse(fresh, pool))
    OBVIOUS
  <2>7. ProductionChoices(st, w, pool, last) = OrElse(a, b)
    BY <2>2, <2>3, <2>6 DEF ProductionChoices
  <2>8. a \subseteq pool /\ b \subseteq pool
    BY <2>5, <2>6
  <2> QED BY <2>1, <2>7, <2>8
<1>7. ASSUME NEW s PROVE GeneralChoices(st, w, s) \subseteq Unbarred(w, st)
  <2>1. CASE s = "recognition"
    BY <1>5, <2>1 DEF GeneralChoices
  <2>2. CASE s # "recognition"
    <3>1. GeneralChoices(st, w, s)
            = ProductionChoices(st, w, Eligible(st, w, s), LastSeen(st, w))
      BY <2>2 DEF GeneralChoices
    <3> QED BY <1>5, <1>6, <3>1
  <2> QED BY <2>1, <2>2
<1> QED BY <1>3, <1>4, <1>7

\* The content of a presentation suits its role ...
Suits(role, content, shape) ==
  CASE role = "general"  -> content \in Practised
    [] role = "teaching" -> content \in Instructive
    [] role = "priming"  -> content \in Instructive /\ shape = "introduction"

\* ... and is not excluded.
Servable(s, st) ==
  /\ s.role \in Roles /\ Suits(s.role, s.content, s.shape)
  /\ s.role = "general" => s.content \notin st.excluded

LEMMA ServingsServable ==
  ASSUME NEW w \in Words, NEW st, st.words[w].mode \in Modes,
         NEW s \in Servings(st, w)
  PROVE  \E c \in Retained(w) :
           /\ s.content = c.id /\ s.shape = c.shape
           /\ Servable(s, st)
<1>0. \A c \in Instructs(w) : c \in Retained(w) /\ c.id \in Instructive
  BY DEF Retained, Instructive
<1>1. CASE st.words[w].mode = "unstudied"
  <2>1. PICK c \in TeachingChoices(st, w) :
          s = [role |-> "teaching", content |-> c.id, shape |-> c.shape]
    BY <1>1 DEF Servings
  <2>2. c \in Instructs(w)
    BY <2>1, ChoicesRetained
  <2> QED BY <1>0, <2>1, <2>2 DEF Roles, Suits, Servable
<1>2. CASE st.words[w].mode # "unstudied" /\ PrimingDue(st, w)
  <2>1. s = [role |-> "priming", content |-> Priming[w].id,
             shape |-> Priming[w].shape]
    BY <1>2 DEF Servings
  <2>2. Priming[w] \in Instructs(w) /\ Priming[w].shape = "introduction"
    BY <1>2, ChoicesRetained, RoleAssumption DEF PrimingDue
  <2> QED BY <1>0, <2>1, <2>2 DEF Roles, Suits, Servable
<1>3. CASE st.words[w].mode # "unstudied" /\ ~PrimingDue(st, w)
  <2>1. PICK c \in UNION {GeneralChoices(st, w, k) :
                           k \in PracticeSkills(st, w)} :
          s = [role |-> "general", content |-> c.id, shape |-> c.shape]
    BY <1>3 DEF Servings
  <2>2. c \in Unbarred(w, st)
    BY <2>1, ChoicesRetained
  <2>3. c \in Retained(w) /\ c.id \in Practised /\ c.id \notin st.excluded
    BY <2>2 DEF Unbarred, Retained, Practised
  <2> QED BY <2>1, <2>3 DEF Roles, Suits, Servable
<1> QED BY <1>1, <1>2, <1>3

LEMMA ServingsTyped ==
  ASSUME NEW w \in Words, NEW st \in StateType(Contents),
         NEW s \in Servings(st, w)
  PROVE  /\ s.role \in Roles /\ s.content \in Contents /\ s.shape \in Shapes
         /\ Servable(s, st)
<1>1. st.words[w].mode \in Modes
  BY DEF StateType, WordType
<1>2. PICK c \in Retained(w) :
        s.content = c.id /\ s.shape = c.shape /\ Servable(s, st)
  BY <1>1, ServingsServable
<1>3. c.id \in Contents /\ c.shape \in Shapes
  BY StudyAssumption DEF Contents
<1> QED BY <1>2, <1>3 DEF Servable

LEMMA OpeningDrafts ==
  ASSUME NEW st, NEW another PROVE Drafts(Opening(st, another))
<1>1. PICK e : e = CurrentEnc(st)
  OBVIOUS
<1>2. /\ Drafts(<<[kind |-> "exercise_skip", encounter |-> e.id]>>)
      /\ Drafts(<<[kind |-> "exercise_exclude", encounter |-> e.id]>>)
  BY EncounterDraft, OneDraft
<1>3. PICK a, b : Opening(st, another) = a \o b
         /\ a \in {<<>>, <<[kind |-> "exercise_skip", encounter |-> e.id]>>}
         /\ b \in {<<>>, <<[kind |-> "exercise_exclude", encounter |-> e.id]>>}
  BY <1>1 DEF Opening
<1>4. Drafts(a) /\ Drafts(b)
  BY <1>2, <1>3, NoDrafts
<1> QED BY <1>3, <1>4, DraftsJoin

LEMMA NextBeginTyped ==
  ASSUME StudyInv, NEW wanted, NEW another, NextBegin(wanted, another)
  PROVE  StudyInv'
<1>1. PICK add, run : /\ add = Numbered(Len(log), Opening(view.st, another))
                      /\ run = RunFrom(view.st, add, FALSE)
  OBVIOUS
<1>2. /\ tx' = Begun(run, add, wanted, another)
      /\ session' = session /\ log' = log /\ view' = view
  BY <1>1 DEF NextBegin
<1>3. LogInv /\ LogInv' /\ log' = log
  BY <1>2 DEF StudyInv, LogInv
<1>4. Len(log) \in Nat /\ RunType([ok |-> TRUE, st |-> view.st], Contents, Len(log))
  BY <1>3, ViewTyped
<1>5. /\ Additions(add, Len(log), Contents)
      /\ \A i \in 1 .. Len(add) :
           add[i].tid = Len(log) + 1 /\ add[i].kind # "undo"
  <2>1. PICK drafts : drafts = Opening(view.st, another)
    OBVIOUS
  <2>2. Drafts(drafts)
    BY <2>1, OpeningDrafts
  <2>3. PICK S : drafts \in Seq(S)
    BY <2>2 DEF Drafts
  <2>4. \A i \in 1 .. Len(drafts) :
          Draft(drafts[i], Contents) /\ drafts[i].kind # "undo"
    BY <2>2 DEF Drafts, PlainDraft
  <2>5. \A i \in 1 .. Len(drafts) : Draft(drafts[i], Contents)
    BY <2>4
  <2>6. Additions(add, Len(log), Contents) /\ Len(add) = Len(drafts)
    BY <1>1, <1>4, <2>1, <2>3, <2>5, NumberedAdditions
  <2>7. \A i \in 1 .. Len(drafts) :
          add[i].tid = Len(log) + 1 /\ add[i].kind = drafts[i].kind
    BY <1>1, <1>4, <2>1, <2>3, <2>5, NumberedTogether
  <2> QED BY <2>4, <2>6, <2>7
<1>6. RunType(run, Contents, Len(log) + Len(add))
  BY <1>1, <1>4, <1>5, RunsTyped
<1>7. PICK t, w : /\ t = Begun(run, add, wanted, another)
                  /\ w = IF another THEN NoWord ELSE wanted
  OBVIOUS
<1>8. t = [open |-> TRUE, additions |-> add, st |-> run.st, ok |-> run.ok,
           another |-> another, blocked |-> {}, wanted |-> w]
  BY <1>7 DEF Begun
<1>9. PICK b, s : b \in BOOLEAN /\ run = [ok |-> b, st |-> s]
  BY <1>6 DEF RunType
<1>10. t = [open |-> TRUE, additions |-> add, st |-> s, ok |-> b,
            another |-> another, blocked |-> {}, wanted |-> w]
  BY <1>8, <1>9
<1>11. TxType(t)
  BY <1>5, <1>6, <1>9, <1>10 DEF TxType
<1>12. TxType(t)'
  <2>1. TxType(t) <=> TxType(t)'
    BY <1>2 DEF TxType
  <2> QED BY <1>11, <2>1
<1>13. TxType(tx)'
  BY <1>2, <1>7, <1>12 DEF TxType
<1> QED BY <1>3, <1>13 DEF StudyInv

LEMMA ConcludeTyped ==
  ASSUME LogInv, NEW t, TxType(t), Conclude(t)
  PROVE  StudyInv' /\ (Still \/ Appends)
<1>1. CASE t.ok
  <2>1. Commit(t.additions) /\ tx' = Idle /\ session' = session
    BY <1>1 DEF Conclude
  <2>2. Additions(t.additions, Len(log), Contents)
    BY DEF TxType
  <2>3. LogInv' /\ log' = log \o t.additions
    BY <2>1, <2>2, CommitTyped
  <2>4. ~(tx.open)'
    BY <2>1 DEF Idle
  <2>5. Together(t.additions, Len(log))
    BY DEF TxType, Together
  <2> QED BY <2>1, <2>2, <2>3, <2>4, <2>5 DEF StudyInv, Appends
<1>2. CASE ~t.ok
  <2>1. Rollback
    BY <1>2 DEF Conclude
  <2>2. tx' = Idle /\ session' = session /\ log' = log /\ view' = view
    BY <2>1 DEF Rollback
  <2>3. LogInv'
    BY <2>2 DEF LogInv
  <2> QED BY <2>1, <2>2, <2>3 DEF StudyInv, Idle, Still, Rollback
<1> QED BY <1>1, <1>2

LEMMA NextStepTyped ==
  ASSUME StudyInv, NextStep PROVE StudyInv' /\ (Still \/ Appends)
<1>1. LogInv /\ tx.open /\ TxType(tx)
  <2>1. tx.open
    BY DEF NextStep, NextExhausts, NextCompletes, NextServes,
           NextServesCue, NextUnavailable, NextFinishes, NextThrows, Turn
  <2> QED BY <2>1 DEF StudyInv
<1>2. ASSUME NEW w \in Words, NextExhausts(w)
      PROVE  StudyInv' /\ Still
  <2>1. PICK t, q : /\ t = Reopened(tx, w) /\ q = LeftUnfinished(t, w)
                    /\ tx.ok /\ t.ok
                    /\ tx' = [q EXCEPT !.wanted = NoWord,
                                       !.blocked = @ \cup {w}]
                    /\ session' = session /\ log' = log /\ view' = view
    BY <1>2 DEF NextExhausts, Turn
  <2>2. TxType(t) /\ t.open = tx.open
    BY <1>1, <2>1, ReopenedTyped
  <2>3. TxType(q) /\ q.open = t.open
    BY <1>1, <2>1, <2>2, LeftTyped
  <2>4. PICK blocked : blocked = q.blocked \cup {w}
    OBVIOUS
  <2>5. PICK x : x = [q EXCEPT !.wanted = NoWord, !.blocked = blocked]
    OBVIOUS
  <2>6. TxType(x) /\ x.open = q.open
    BY <2>3, <2>5, LoopTyped
  <2>7. tx' = x
    <3>1. PICK o, ad, st, ok, an, bl, wa :
            q = [open |-> o, additions |-> ad, st |-> st, ok |-> ok,
                 another |-> an, blocked |-> bl, wanted |-> wa]
      BY <2>3 DEF TxType
    <3> QED BY <2>1, <2>4, <2>5, <3>1
  <2>8. TxType(x)'
    <3>1. TxType(x) <=> TxType(x)'
      BY <2>1 DEF TxType
    <3> QED BY <2>6, <3>1
  <2>9. TxType(tx)'
    BY <2>7, <2>8 DEF TxType
  <2>10. LogInv'
    BY <1>1, <2>1 DEF LogInv
  <2>11. Still
    BY <1>2 DEF NextExhausts, Still
  <2> QED BY <2>1, <2>9, <2>10, <2>11 DEF StudyInv
<1>3. ASSUME NEW w \in Words, NextCompletes(w)
      PROVE  StudyInv' /\ Still
  <2>1. PICK t, d, q :
          /\ t = Reopened(tx, w)
          /\ d = [kind |-> "teaching_complete", word |-> w] /\ q = Push(t, d)
          /\ tx.ok /\ t.ok /\ tx' = [q EXCEPT !.wanted = NoWord]
          /\ session' = session /\ log' = log /\ view' = view
    BY <1>3 DEF NextCompletes, Turn
  <2>2. TxType(t) /\ t.open = tx.open
    BY <1>1, <2>1, ReopenedTyped
  <2>3. TxType(q) /\ q.open = t.open
    <3>1. PlainDraft(d)
      BY <2>1, WordDraft
    <3> QED BY <1>1, <2>1, <2>2, <3>1, PushTyped DEF PlainDraft
  <2>4. PICK blocked : blocked = q.blocked
    OBVIOUS
  <2>5. PICK x : x = [q EXCEPT !.wanted = NoWord, !.blocked = blocked]
    OBVIOUS
  <2>6. TxType(x) /\ x.open = q.open
    BY <2>3, <2>5, LoopTyped
  <2>7. tx' = x
    <3>1. PICK o, ad, st, ok, an, bl, wa :
            q = [open |-> o, additions |-> ad, st |-> st, ok |-> ok,
                 another |-> an, blocked |-> bl, wanted |-> wa]
      BY <2>3 DEF TxType
    <3> QED BY <2>1, <2>4, <2>5, <3>1
  <2>8. TxType(x)'
    <3>1. TxType(x) <=> TxType(x)'
      BY <2>1 DEF TxType
    <3> QED BY <2>6, <3>1
  <2>9. TxType(tx)'
    BY <2>7, <2>8 DEF TxType
  <2>10. LogInv'
    BY <1>1, <2>1 DEF LogInv
  <2>11. Still
    BY <1>3 DEF NextCompletes, Still
  <2> QED BY <2>1, <2>9, <2>10, <2>11 DEF StudyInv
<1>4. ASSUME NEW w \in Words, NextServes(w)
      PROVE  StudyInv' /\ (Still \/ Appends)
  <2>1. PICK t, s : /\ t = Reopened(tx, w) /\ tx.ok /\ t.ok
                    /\ s \in Servings(t.st, w) /\ Conclude(Serve(t, w, s))
    BY <1>4 DEF NextServes, Turn
  <2>2. TxType(t)
    BY <1>1, <2>1, ReopenedTyped
  <2>3. t.st \in StateType(Contents)
    BY <2>1, <2>2 DEF TxType, RunType
  <2>4. s.role \in Roles /\ s.content \in Contents /\ s.shape \in Shapes
    BY <2>1, <2>3, ServingsTyped
  <2>5. Draft([ kind |-> "presentation", word |-> w, role |-> s.role,
                content |-> s.content, shape |-> s.shape ], Contents)
    BY <2>4 DEF Draft
  <2>6. TxType(Serve(t, w, s))
    BY <1>1, <2>1, <2>2, <2>5, PushTyped DEF Serve
  <2> QED BY <1>1, <2>1, <2>6, ConcludeTyped
<1>5. ASSUME NEW c \in Cues, NextServesCue(c)
      PROVE  StudyInv' /\ (Still \/ Appends)
  <2>1. PICK s : /\ s = [role |-> "general", content |-> c,
                         shape |-> "production"]
                 /\ tx.ok /\ Conclude(Serve(tx, NoWord, s))
    BY <1>5 DEF NextServesCue
  <2>2. c \in Contents
    BY DEF Contents
  <2>3. Draft([ kind |-> "presentation", word |-> NoWord, role |-> s.role,
                content |-> s.content, shape |-> s.shape ], Contents)
    BY <2>1, <2>2 DEF Draft, Roles, Shapes
  <2>4. TxType(Serve(tx, NoWord, s))
    BY <1>1, <2>1, <2>3, PushTyped DEF Serve
  <2> QED BY <1>1, <2>1, <2>4, ConcludeTyped
<1>6. CASE NextUnavailable
  BY <1>1, <1>6, ConcludeTyped DEF NextUnavailable
<1>7. CASE NextFinishes
  <2>1. PlainDraft([kind |-> "finish_for_now"])
    BY PhaseDraft
  <2>2. tx.ok
    BY <1>7 DEF NextFinishes
  <2>3. TxType(Push(tx, [kind |-> "finish_for_now"]))
    BY <1>1, <2>1, <2>2, PushTyped DEF PlainDraft
  <2>4. Conclude(Push(tx, [kind |-> "finish_for_now"])) \/ Conclude(tx)
    BY <1>7 DEF NextFinishes
  <2> QED BY <1>1, <2>3, <2>4, ConcludeTyped
<1>8. CASE NextThrows
  <2>1. tx' = Idle /\ session' = session /\ log' = log /\ view' = view
    BY <1>8 DEF NextThrows, Rollback
  <2>2. LogInv'
    BY <1>1, <2>1 DEF LogInv
  <2> QED BY <1>8, <2>1, <2>2
       DEF StudyInv, Idle, Still, NextThrows, Rollback
<1> QED BY <1>2, <1>3, <1>4, <1>5, <1>6, <1>7, <1>8 DEF NextStep

LEMMA InitStudy ==
  ASSUME Init PROVE StudyInv
<1>1. /\ session \in Compositions /\ log = <<>> /\ view = EmptyView
      /\ tx = Idle
  BY DEF Init
<1>2. log \in Seq({}) /\ Len(log) = 0
  BY <1>1
<1>3. LogOf(log, Contents)
  BY <1>2 DEF LogOf
<1>4. Projections(log)[Len(log)] = NothingProjected
  BY <1>2, <1>3, ProjectionsTyped
<1>5. PICK e : e = Evidence(log, EmptyState, <<>>)
  OBVIOUS
<1>6. Project(log) = [ok |-> TRUE, st |-> EmptyState, latest |-> 0,
                      undone |-> {}, evidence |-> e]
  BY <1>4, <1>5 DEF Project, Presentable, NothingProjected
<1>7. e = <<>>
  BY <1>5 DEF Evidence
<1>8. view = Project(log) /\ view.ok
  BY <1>1, <1>6, <1>7 DEF EmptyView
<1> QED BY <1>1, <1>3, <1>8 DEF StudyInv, LogInv, Idle

LEMMA StudyStep ==
  ASSUME StudyInv, [Next]_vars PROVE StudyInv' /\ (Still \/ Appends)
<1>1. CASE LearnerCommand
  BY <1>1, LearnerCommandTyped
<1>2. ASSUME NEW w, NEW another, NextBegin(w, another)
      PROVE  StudyInv' /\ Still
  BY <1>2, NextBeginTyped DEF NextBegin, Still
<1>3. CASE NextStep
  BY <1>3, NextStepTyped
<1>4. CASE Rest \/ UNCHANGED vars
  BY <1>4 DEF Rest, vars, StudyInv, LogInv, TxType, Still
<1> QED BY <1>1, <1>2, <1>3, <1>4 DEF Next

LEMMA StudyInvariant == Spec => []StudyInv
<1>1. Init => StudyInv
  BY InitStudy
<1>2. StudyInv /\ [Next]_vars => StudyInv'
  BY StudyStep
<1> QED BY <1>1, <1>2, PTL DEF Spec

\* The projection the server carries from command to command is the one the
\* whole log gives, in every session, whatever is undone.
THEOREM ProjectionIsFaithfulAlways == Spec => []ProjectionIsFaithful
<1>1. StudyInv => ProjectionIsFaithful
  BY DEF StudyInv, LogInv, ProjectionIsFaithful
<1> QED BY <1>1, StudyInvariant, PTL

LEMMA LogContinues ==
  ASSUME LogInv, Still \/ Appends
  PROVE  Continues(log, log', Len(log))
<1>1. PICK S : log \in Seq(S)
  BY DEF LogInv, LogOf
<1>2. CASE Still
  BY <1>1, <1>2 DEF Continues, Still
<1>3. CASE Appends
  <2>1. PICK add : Additions(add, Len(log), Contents) /\ log' = log \o add
    BY <1>3 DEF Appends, Commit
  <2>2. PICK T : add \in Seq(T)
    BY <2>1 DEF Additions
  <2>3. PICK l, m : l = log /\ m = log'
    OBVIOUS
  <2>4. /\ Len(m) = Len(l) + Len(add) /\ Len(l) \in Nat /\ Len(add) \in Nat
        /\ \A i \in 1 .. Len(l) : m[i] = l[i]
    BY <1>1, <2>1, <2>2, <2>3
  <2> QED BY <2>3, <2>4 DEF Continues
<1> QED BY <1>2, <1>3

\* No command ever deletes an observation: every answer and reaction stays in
\* the evidence, in the encounter it was given for.
THEOREM ObservationsSurviveAlways == Spec => ObservationsSurvive
<1>1. ASSUME StudyInv, [Next]_vars, NEW i \in DOMAIN view.evidence
      PROVE  /\ i \in DOMAIN view'.evidence
             /\ view'.evidence[i].id = view.evidence[i].id
             /\ view'.evidence[i].work = view.evidence[i].work
             /\ view'.evidence[i].mode = view.evidence[i].mode
             /\ IsPrefix(view.evidence[i].responses,
                         view'.evidence[i].responses)
             /\ IsPrefix(view.evidence[i].reactions,
                         view'.evidence[i].reactions)
  <2>1. StudyInv' /\ (Still \/ Appends)
    BY <1>1, StudyStep
  <2>2. PICK l, m : l = log /\ m = log'
    OBVIOUS
  <2>3. /\ LogOf(l, Contents) /\ LogOf(m, Contents) /\ Project(m).ok
        /\ view = Project(l) /\ view' = Project(m)
    BY <1>1, <2>1, <2>2 DEF StudyInv, LogInv
  <2>4. Continues(l, m, Len(l))
    BY <1>1, <2>1, <2>2, LogContinues DEF StudyInv
  <2> QED BY <1>1, <2>3, <2>4, EvidenceSurvives
<1>2. StudyInv /\ [Next]_vars =>
        [\A i \in DOMAIN view.evidence :
           /\ i \in DOMAIN view'.evidence
           /\ view'.evidence[i].id = view.evidence[i].id
           /\ view'.evidence[i].work = view.evidence[i].work
           /\ view'.evidence[i].mode = view.evidence[i].mode
           /\ IsPrefix(view.evidence[i].responses,
                       view'.evidence[i].responses)
           /\ IsPrefix(view.evidence[i].reactions,
                       view'.evidence[i].reactions)]_vars
  BY <1>1
<1> QED BY <1>2, StudyInvariant, PTL DEF Spec, ObservationsSurvive

-----------------------------------------------------------------------------
(* What every reachable view satisfies.                                    *)

InEffect == InForce(log, Len(log), view.undone)

\* The view is in every relation that accepted actions keep.
LEMMA ViewReaches ==
  ASSUME LogInv, NEW G, Closed(G, Contents, Range(log))
  PROVE  <<view.st, InEffect>> \in G
<1>1. \A i \in 1 .. Len(log) : log[i] \in Range(log)
  BY LogFinite DEF LogInv, Range
<1>2. Len(log) \in 0 .. Len(log)
  BY LogFinite DEF LogInv
<1>3. PICK p : p = Projections(log)[Len(log)]
  OBVIOUS
<1>4. p.ok /\ view.st = p.st /\ view.undone = p.undone
  BY <1>3 DEF LogInv, Project, Presentable
<1>5. <<p.st, InForce(log, Len(log), p.undone)>> \in G
  BY <1>1, <1>2, <1>3, <1>4, ProjectionReaches DEF LogInv
<1> QED BY <1>4, <1>5 DEF InEffect

\* Apart from Undo itself, the effective actions are the ones in force.
LEMMA EffectiveInForce ==
  ASSUME LogInv, NEW a, a.kind # "undo"
  PROVE  a \in EffectiveActions <=> a \in InEffect
<1>1. DOMAIN log = 1 .. Len(log) /\ \A i \in 1 .. Len(log) : log[i].seq = i
  BY LogFinite DEF LogInv, LogOf
<1> QED BY <1>1 DEF EffectiveActions, InEffect, InForce, Range

\* Finishing lasts exactly as long as something started is unfinished, and a
\* session that wrapped up by itself has nothing left.
THEOREM FinishingHasWorkAlways == Spec => []FinishingHasWork
<1>1. ASSUME StudyInv PROVE FinishingHasWork
  <2>1. PICK G : G = {x \in StateType(Contents) \X SUBSET Range(log) :
                        Finished(x[1])}
    OBVIOUS
  <2>2. LogInv /\ Closed(G, Contents, Range(log))
    BY <1>1, <2>1, FinishedClosed DEF StudyInv
  <2>3. <<view.st, InEffect>> \in G
    BY <2>2, ViewReaches
  <2>4. Finished(view.st)
    BY <2>1, <2>3
  <2> QED BY <2>4 DEF Finished, FinishingHasWork
<1> QED BY <1>1, StudyInvariant, PTL

\* Coverage without recall is the learner's own choice, in every session:
\* the wrap that the policy adds never covers a word that was not recalled.
THEOREM CoverageIsExplainedAlways == Spec => []CoverageIsExplained
<1>1. ASSUME StudyInv PROVE CoverageIsExplained
  <2>1. PICK G : G = {x \in StateType(Contents) \X SUBSET Range(log) :
                        \A w \in Words : Explained(w, x[1].words[w], x[2])}
    OBVIOUS
  <2>2. LogInv /\ Closed(G, Contents, Range(log))
    BY <1>1, <2>1, ExplainedClosed DEF StudyInv
  <2>3. <<view.st, InEffect>> \in G
    BY <2>2, ViewReaches
  <2>4. \A w \in Words : Explained(w, view.st.words[w], InEffect)
    BY <2>1, <2>3
  <2>5. ASSUME NEW w \in Words, SaidEnough(InEffect, w)
        PROVE  \E a \in EffectiveActions :
                 a.kind = "word_wrap" /\ a.word = w /\ a.reason = "enough"
    <3>1. PICK a \in InEffect : /\ a.kind = "word_wrap" /\ a.word = w
                                /\ a.reason = "enough"
      BY <2>5 DEF SaidEnough
    <3> QED BY <2>2, <3>1, EffectiveInForce
  <2> QED BY <2>4, <2>5 DEF Explained, CoverageIsExplained
<1> QED BY <1>1, StudyInvariant, PTL

\* A promotion is recommended only on unassisted evidence: every answer in
\* force for the word is a success, both directions are among them, and the
\* learner chose no mode.
THEOREM PromotionIsCleanAlways == Spec => []PromotionIsClean
<1>1. ASSUME StudyInv PROVE PromotionIsClean
  <2>1. PICK G : G = {x \in StateType(Contents) \X SUBSET Range(log) :
                        \A w \in Words :
                          Clean(w, x[1].words[w], x[1].encounters, x[2])}
    OBVIOUS
  <2>2. LogInv /\ Closed(G, Contents, Range(log))
    BY <1>1, <2>1, CleanClosed DEF StudyInv
  <2>3. <<view.st, InEffect>> \in G
    BY <2>2, ViewReaches
  <2>4. PICK encs \in Seq(EncounterType(Contents)) : encs = view.st.encounters
    BY <2>2, ViewTyped DEF StateType
  <2>5. \A w \in Words : Clean(w, view.st.words[w], encs, InEffect)
    BY <2>1, <2>3, <2>4
  <2>6. ASSUME NEW w \in Words, RecommendedMode(w, view.st.words[w]) # NoMode
        PROVE  LET mine == {i \in DOMAIN encs :
                              encs[i].word = w /\ encs[i].answer # "none"}
               IN  /\ \A i \in mine : encs[i].answer = "accepted"
                   /\ \A s \in {"recognition", "production"} :
                        \E i \in mine : SkillOf(encs[i].shape) = s
                   /\ \A a \in EffectiveActions :
                        a.kind = "mode_change" => a.word # w
    <3>1. PICK word : word = view.st.words[w]
      OBVIOUS
    <3>2. /\ word.choice = NoMode /\ ~word.missed
          /\ word.solidifyRecallCompleted
      BY <2>6, <3>1 DEF RecommendedMode, CleanSolidify
    <3>3. Clean(w, word, encs, InEffect) /\ DOMAIN encs = 1 .. Len(encs)
      BY <2>5, <3>1
    <3>4. \A a \in EffectiveActions : a.kind = "mode_change" => a.word # w
      BY <2>2, <3>2, <3>3, EffectiveInForce DEF Clean
    <3> QED BY <3>2, <3>3, <3>4 DEF Clean, Shown
  <2> QED BY <2>4, <2>6 DEF PromotionIsClean, Encs
<1> QED BY <1>1, StudyInvariant, PTL

-----------------------------------------------------------------------------
(* What Undo withdraws.                                                    *)

\* A log that a command appended to.
LEMMA Joined ==
  ASSUME LogInv, NEW add, Additions(add, Len(log), Contents)
  PROVE  /\ Len(add) \in Nat /\ Len(log) \in Nat
         /\ Len(log \o add) = Len(log) + Len(add)
         /\ \A i \in 1 .. Len(log) : (log \o add)[i] = log[i]
         /\ \A i \in 1 .. Len(add) : (log \o add)[Len(log) + i] = add[i]
         /\ DOMAIN add = 1 .. Len(add)
<1>1. PICK S : log \in Seq(S)
  BY DEF LogInv, LogOf
<1>2. PICK T : add \in Seq(T)
  BY DEF Additions
<1> QED BY <1>1, <1>2

LEMMA TransitionsJoin ==
  ASSUME LogInv, Transitions(log),
         NEW add, Additions(add, Len(log), Contents), Together(add, Len(log))
  PROVE  Transitions(log \o add)
<1>1. PICK n, k, all : n = Len(log) /\ k = Len(add) /\ all = log \o add
  OBVIOUS
<1>2. /\ n \in Nat /\ k \in Nat /\ Len(all) = n + k
      /\ \A i \in 1 .. n : all[i] = log[i]
      /\ \A i \in 1 .. k : all[n + i] = add[i]
  BY <1>1, Joined
<1>3. /\ \A i \in 1 .. k : add[i].tid = n + 1
      /\ k = 1 \/ \A i \in 1 .. k : add[i].kind # "undo"
  BY <1>1 DEF Together
<1>4. \A i \in n + 1 .. n + k :
        /\ all[i].tid = n + 1
        /\ all[i].kind = "undo" => k = 1
  <2>1. ASSUME NEW i \in n + 1 .. n + k
        PROVE  all[i].tid = n + 1 /\ (all[i].kind = "undo" => k = 1)
    <3>1. i - n \in 1 .. k /\ i = n + (i - n)
      BY <1>2
    <3>2. PICK m \in 1 .. k : i = n + m
      BY <3>1
    <3> QED BY <1>2, <1>3, <3>2
  <2> QED BY <2>1
<1>5. ASSUME NEW i \in 1 .. n + k
      PROVE  /\ all[i].tid \in 1 .. i
             /\ \A j \in all[i].tid .. i :
                  /\ all[j].tid = all[i].tid
                  /\ all[j].kind = "undo" => j = i
  <2>1. CASE i \in 1 .. n
    <3>1. PICK t \in 1 .. i : t = log[i].tid
      BY <1>1, <2>1 DEF Transitions
    <3>2. \A j \in t .. i : j \in 1 .. n
      BY <1>2, <2>1, <3>1
    <3>3. \A j \in t .. i :
            log[j].tid = t /\ (log[j].kind = "undo" => j = i)
      BY <1>1, <2>1, <3>1 DEF Transitions
    <3> QED BY <1>2, <2>1, <3>1, <3>2, <3>3
  <2>2. CASE i \in n + 1 .. n + k
    <3>1. \A j \in n + 1 .. i : j \in n + 1 .. n + k
      BY <1>2, <2>2
    <3>2. k = 1 => \A j \in n + 1 .. i : j = i
      BY <1>2, <2>2
    <3>3. n + 1 \in 1 .. i
      BY <1>2, <2>2
    <3> QED BY <1>4, <2>2, <3>1, <3>2, <3>3
  <2> QED BY <1>2, <2>1, <2>2
<1> QED BY <1>1, <1>2, <1>5 DEF Transitions

\* What the server remembers as undoable started from the state before its
\* transition.
BeforeInv ==
  view.latest # 0 =>
    before.st = Projections(log)[log[view.latest].tid - 1].st

UndoInv == Transitions(log) /\ BeforeInv

LEMMA LastProjection ==
  ASSUME NEW l, LogOf(l, Contents), NEW v, v = Project(l), v.ok
  PROVE  /\ v.st = Projections(l)[Len(l)].st
         /\ v.latest = Projections(l)[Len(l)].latest
         /\ Projections(l)[Len(l)].ok
         /\ IsLatest(l, Len(l), v.latest)
<1>1. Len(l) \in Nat /\ Len(l) \in 0 .. Len(l)
  BY LogFinite
<1>2. PICK p : p = Projections(l)[Len(l)]
  OBVIOUS
<1>3. v.st = p.st /\ v.latest = p.latest /\ p.ok
  BY <1>2 DEF Project, Presentable
<1> QED BY <1>1, <1>2, <1>3, LatestFound

LEMMA BeforeStep ==
  ASSUME LogInv, UndoInv, NEW add, Additions(add, Len(log), Contents),
         Together(add, Len(log)), Commit(add), LogInv'
  PROVE  UndoInv'
<1>1. PICK n, k, old, all, l, m :
        /\ n = Len(log) /\ k = Len(add) /\ old = log /\ all = log \o add
        /\ l = view.latest /\ m = view'.latest
  OBVIOUS
<1>2. /\ n \in Nat /\ k \in Nat /\ Len(all) = n + k
      /\ \A i \in 1 .. n : all[i] = old[i]
      /\ \A i \in 1 .. k : all[n + i] = add[i]
      /\ DOMAIN add = 1 .. k
  BY <1>1, Joined
<1>3. log' = all
  BY <1>1 DEF Commit
<1>4. Transitions(all)
  BY <1>1, TransitionsJoin DEF UndoInv
<1>5. /\ view.st = Projections(old)[n].st /\ IsLatest(old, n, l)
      /\ l # 0 => before.st = Projections(old)[old[l].tid - 1].st
  BY <1>1, LastProjection DEF UndoInv, BeforeInv, LogInv
<1>6. IsLatest(all, n + k, m)
  BY <1>1, <1>2, <1>3, LastProjection DEF LogInv
<1>7. SUFFICES ASSUME m # 0
               PROVE  before'.st = Projections(all)[all[m].tid - 1].st
  BY <1>1, <1>3, <1>4 DEF UndoInv, BeforeInv
<1>8. /\ m \in 1 .. n + k /\ all[m].kind \in UndoableKinds
      /\ \A i \in m + 1 .. n + k :
           all[i].kind \notin UndoableKinds \cup {"undo"}
  BY <1>2, <1>6, <1>7 DEF IsLatest
<1>9. ASSUME NEW i \in 1 .. k, add[i].kind \in UndoableKinds \cup {"undo"}
      PROVE  m >= n + i
  <2>1. n + i \in 1 .. n + k /\ all[n + i] = add[i]
    BY <1>2
  <2>2. CASE m < n + i
    <3>1. n + i \in m + 1 .. n + k
      BY <1>2, <1>8, <2>1, <2>2
    <3> QED BY <1>8, <1>9, <2>1, <3>1
  <2> QED BY <1>2, <1>8, <2>2
<1>10. \A i \in 0 .. n : Projections(all)[i] = Projections(old)[i]
  <2>1. ASSUME NEW i \in 0 .. n
        PROVE  Projections(all)[i] = Projections(old)[i]
    <3>1. Continues(old, all, i)
      <4>1. i \in 0 .. Len(old) /\ i \in 0 .. Len(all)
        BY <1>1, <1>2
      <4>2. \A j \in 1 .. i : all[j] = old[j]
        BY <1>2
      <4> QED BY <4>1, <4>2 DEF Continues
    <3>2. LogOf(old, Contents) /\ LogOf(all, Contents)
      BY <1>1, <1>3 DEF LogInv
    <3> QED BY <3>1, <3>2, ProjectionsContinue
  <2> QED BY <2>1
<1>11. \A i \in DOMAIN add : add[i].kind # "undo"
  <2>1. ASSUME NEW i \in 1 .. k, add[i].kind = "undo" PROVE FALSE
    <3>1. k = 1
      BY <1>1, <2>1 DEF Together
    <3>2. m = n + 1 /\ i = 1
      BY <1>2, <1>8, <1>9, <2>1, <3>1
    <3>3. all[m].kind = "undo"
      BY <1>2, <2>1, <3>1, <3>2
    <3> QED BY <1>8, <3>3 DEF UndoableKinds
  <2> QED BY <1>2, <2>1
<1>12. CASE Undoable(add)
  <2>1. before' = [held |-> TRUE, st |-> view.st]
    BY <1>11, <1>12 DEF Commit
  <2>2. PICK i \in 1 .. k : add[i].kind \in UndoableKinds
    BY <1>2, <1>12 DEF Undoable
  <2>3. m \in n + 1 .. n + k
    BY <1>2, <1>8, <1>9, <2>2
  <2>4. PICK j \in 1 .. k : m = n + j
    <3>1. m - n \in 1 .. k /\ m = n + (m - n)
      BY <1>2, <2>3
    <3> QED BY <3>1
  <2>5. all[m].tid = n + 1
    BY <1>1, <1>2, <2>4 DEF Together
  <2>6. all[m].tid - 1 = n /\ n \in 0 .. n
    BY <1>2, <2>5
  <2> QED BY <1>5, <1>10, <2>1, <2>6
<1>13. CASE ~Undoable(add)
  <2>1. before' = before
    BY <1>11, <1>13 DEF Commit
  <2>2. m \in 1 .. n
    <3>1. ASSUME m \in n + 1 .. n + k PROVE FALSE
      <4>1. m - n \in 1 .. k /\ m = n + (m - n)
        BY <1>2, <3>1
      <4>2. PICK j \in 1 .. k : m = n + j
        BY <4>1
      <4> QED BY <1>2, <1>8, <1>13, <4>2 DEF Undoable
    <3> QED BY <1>2, <1>8, <3>1
  <2>3. /\ old[m].kind \in UndoableKinds
        /\ \A i \in m + 1 .. n : old[i].kind \notin UndoableKinds \cup {"undo"}
    <3>1. \A i \in m + 1 .. n : i \in m + 1 .. n + k /\ i \in 1 .. n
      BY <1>2, <2>2
    <3> QED BY <1>2, <1>8, <2>2, <3>1
  <2>4. l = m
    <3>1. l \in 0 .. n
      BY <1>5 DEF IsLatest
    <3>2. CASE l = 0
      BY <1>5, <2>2, <2>3, <3>2 DEF IsLatest
    <3>3. CASE l # 0 /\ l < m
      <4>1. m \in l + 1 .. n
        BY <1>2, <2>2, <3>1, <3>3
      <4> QED BY <1>5, <2>3, <3>3, <4>1 DEF IsLatest
    <3>4. CASE l > m
      <4>1. l \in m + 1 .. n /\ l # 0
        BY <1>2, <2>2, <3>1, <3>4
      <4> QED BY <1>5, <2>3, <4>1 DEF IsLatest
    <3> QED BY <2>2, <3>1, <3>2, <3>3, <3>4
  <2>5. PICK t \in 1 .. m : t = old[m].tid
    BY <1>1, <2>2 DEF UndoInv, Transitions
  <2>6. t - 1 \in 0 .. n
    BY <1>2, <2>2, <2>5
  <2> QED BY <1>2, <1>5, <1>7, <1>10, <2>1, <2>2, <2>4, <2>5, <2>6
<1> QED BY <1>12, <1>13

LEMMA UndoInvariant == Spec => [](StudyInv /\ UndoInv)
<1>1. Init => StudyInv /\ UndoInv
  <2>1. ASSUME Init PROVE UndoInv
    <3>1. log = <<>> /\ view = EmptyView
      BY <2>1 DEF Init
    <3>2. Len(log) = 0 /\ view.latest = 0
      BY <3>1 DEF EmptyView
    <3> QED BY <3>2 DEF UndoInv, BeforeInv, Transitions
  <2> QED BY <2>1, InitStudy
<1>2. StudyInv /\ UndoInv /\ [Next]_vars => (StudyInv /\ UndoInv)'
  <2>1. ASSUME StudyInv, UndoInv, [Next]_vars PROVE StudyInv' /\ UndoInv'
    <3>1. StudyInv' /\ (Still \/ Appends)
      BY <2>1, StudyStep
    <3>2. CASE Still
      BY <2>1, <3>1, <3>2 DEF Still, UndoInv, BeforeInv
    <3>3. CASE Appends
      BY <2>1, <3>1, <3>3, BeforeStep DEF Appends, StudyInv
    <3> QED BY <3>1, <3>2, <3>3
  <2> QED BY <2>1
<1> QED BY <1>1, <1>2, PTL DEF Spec

LEMMA UndoReturnsView ==
  ASSUME StudyInv, UndoInv, [Next]_vars, Undid
  PROVE  Returned(before.st, view'.st)
<1>1. StudyInv' /\ Appends /\ UndoInv'
  <2>1. StudyInv' /\ (Still \/ Appends)
    BY StudyStep
  <2>2. Len(log') > Len(log) /\ Len(log) \in Nat
    BY ViewTyped DEF Undid, StudyInv
  <2>3. ~Still
    BY <2>2 DEF Still
  <2>4. UndoInv'
    BY <2>1, <2>3, BeforeStep DEF Appends, StudyInv
  <2> QED BY <2>1, <2>3, <2>4
<1>2. PICK add : /\ Additions(add, Len(log), Contents)
                 /\ Together(add, Len(log)) /\ Commit(add)
  BY <1>1 DEF Appends
<1>3. PICK n, old, all, l :
        n = Len(log) /\ old = log /\ all = log' /\ l = view.latest
  OBVIOUS
<1>4. /\ n \in Nat /\ Len(add) \in Nat /\ Len(all) = n + Len(add)
      /\ \A i \in 1 .. n : all[i] = old[i]
      /\ \A i \in 1 .. Len(add) : all[n + i] = add[i]
  BY <1>2, <1>3, Joined DEF Commit, StudyInv
<1>5. Len(add) = 1 /\ all[n + 1].kind = "undo" /\ Len(all) = n + 1
  <2>1. Len(all) > n /\ all[Len(all)].kind = "undo"
    BY <1>3 DEF Undid
  <2>2. Len(add) \in 1 .. Len(add) /\ all[n + Len(add)].kind = "undo"
    BY <1>4, <2>1
  <2>3. add[Len(add)].kind = "undo"
    BY <1>4, <2>2
  <2>4. Len(add) = 1
    BY <1>2, <2>2, <2>3 DEF Together
  <2> QED BY <1>4, <2>2, <2>4
<1>6. /\ LogOf(all, Contents) /\ LogOf(old, Contents) /\ Transitions(all)
      /\ n \in 0 .. Len(all) - 1
  BY <1>1, <1>3, <1>4, <1>5 DEF StudyInv, LogInv, UndoInv
<1>7. \A i \in 0 .. n : Projections(all)[i] = Projections(old)[i]
  <2>1. ASSUME NEW i \in 0 .. n
        PROVE  Projections(all)[i] = Projections(old)[i]
    <3>1. Continues(old, all, i)
      <4>1. i \in 0 .. Len(old) /\ i \in 0 .. Len(all)
        BY <1>3, <1>4, <1>5
      <4>2. \A j \in 1 .. i : all[j] = old[j]
        BY <1>4
      <4> QED BY <4>1, <4>2 DEF Continues
    <3> QED BY <1>6, <3>1, ProjectionsContinue
  <2> QED BY <2>1
<1>8. /\ Projections(all)[n + 1].ok
      /\ view'.st = Projections(all)[n + 1].st
  BY <1>1, <1>3, <1>5, LastProjection DEF StudyInv, LogInv
<1>9. l = Projections(all)[n].latest
  <2>1. l = Projections(old)[n].latest
    BY <1>3, LastProjection DEF StudyInv, LogInv
  <2> QED BY <1>4, <1>7, <2>1
<1>10. /\ l \in 1 .. n /\ all[l].tid - 1 \in 0 .. n
       /\ Returned(Projections(all)[all[l].tid - 1].st, view'.st)
  BY <1>5, <1>6, <1>8, <1>9, UndoReturns
<1>11. before.st = Projections(old)[old[l].tid - 1].st
  BY <1>3, <1>4, <1>10 DEF UndoInv, BeforeInv
<1>12. all[l] = old[l]
  BY <1>4, <1>10
<1>13. before.st = Projections(all)[all[l].tid - 1].st
  BY <1>7, <1>10, <1>11, <1>12
<1> QED BY <1>10, <1>13

\* Undo returns the learning state, the phase and every earlier exercise to
\* what they were before the latest transition, companions included, while
\* exercises served since remain.
THEOREM UndoWithdrawsOneTransitionAlways ==
  Spec => UndoWithdrawsOneTransition
<1>1. ASSUME StudyInv, UndoInv, [Next]_vars, Undid
      PROVE  /\ view'.st.phase = before.st.phase
             /\ view'.st.finishReason = before.st.finishReason
             /\ view'.st.excluded = before.st.excluded
             /\ \A w \in Words : Withdrawable(view'.st.words[w])
                                   = Withdrawable(before.st.words[w])
             /\ \A w \in Words : before.st.words[w].admitted =>
                  /\ view'.st.words[w].status = before.st.words[w].status
                  /\ view'.st.words[w].work = before.st.words[w].work
             /\ IsPrefix(before.st.encounters, view'.st.encounters)
  <2>1. PICK old, new : old = before.st /\ new = view'.st
    OBVIOUS
  <2>2. Returned(old, new)
    BY <1>1, <2>1, UndoReturnsView
  <2>3. ASSUME NEW w \in Words
        PROVE  Withdrawable(new.words[w]) = Withdrawable(old.words[w])
    <3>1. SameLearning(new.words[w], old.words[w])
      BY <2>2 DEF Returned
    <3> QED BY <3>1 DEF SameLearning, Withdrawable
  <2>4. IsPrefix(old.encounters, new.encounters)
    BY <2>2, PrefixedIsPrefix DEF Returned
  <2> QED BY <2>1, <2>2, <2>3, <2>4 DEF Returned
<1>2. StudyInv /\ UndoInv /\ [Next]_vars =>
        [ Undid =>
            LET old == before.st  new == view'.st IN
            /\ new.phase = old.phase /\ new.finishReason = old.finishReason
            /\ new.excluded = old.excluded
            /\ \A w \in Words :
                 Withdrawable(new.words[w]) = Withdrawable(old.words[w])
            /\ \A w \in Words : old.words[w].admitted =>
                 /\ new.words[w].status = old.words[w].status
                 /\ new.words[w].work = old.words[w].work
            /\ IsPrefix(old.encounters, new.encounters) ]_vars
  BY <1>1
<1> QED BY <1>2, UndoInvariant, PTL DEF Spec, UndoWithdrawsOneTransition

-----------------------------------------------------------------------------
(* What is excluded stays excluded.                                        *)

\* The action that served an encounter.
Presents(a, e) ==
  /\ a.kind = "presentation" /\ a.seq = e.id
  /\ a.content = e.content /\ a.role = e.role /\ a.shape = e.shape

\* The encounter an exclusion withholds.
Withholds(a, e, excluded) ==
  /\ e.id = a.encounter /\ e.content \in excluded
  /\ e.role # "teaching" /\ e.shape # "introduction"

\* Every encounter was served by an action in force, and every exclusion in
\* force holds.
Excludes(st, A) ==
  /\ \A i \in 1 .. Len(st.encounters) :
       \E a \in A : Presents(a, st.encounters[i])
  /\ \A a \in A : a.kind = "exercise_exclude" =>
       \E i \in 1 .. Len(st.encounters) :
         Withholds(a, st.encounters[i], st.excluded)

\* Only an exclusion changes what is excluded.
LEMMA EffectExcluded ==
  ASSUME NEW C, NEW st \in StateType(C), NEW a, WellFormed(a, C),
         NEW replaying, Allowed(st, a, replaying)
  PROVE  /\ st.excluded \subseteq Effect(st, a).excluded
         /\ a.kind = "exercise_exclude" =>
              \E i \in 1 .. Len(st.encounters) :
                Withholds(a, st.encounters[i], Effect(st, a).excluded)
<1>1. CASE a.kind = "presentation"
  <2>1. PICK e \in EncounterType(C), ws \in [Words -> WordType] :
          PresentedAs(st, a, e, ws)
    BY <1>1, PresentedTyped
  <2>2. Effect(st, a) = [st EXCEPT !.words = ws, !.encounters = Append(@, e)]
    BY <1>1, <2>1 DEF PresentedAs, Effect
  <2> QED BY <1>1, <2>2 DEF StateType
<1>2. CASE a.kind = "response"
  <2>1. PICK i : i = IndexOf(st, a.encounter)
    OBVIOUS
  <2>2. PICK m \in EncounterType(C), ws \in [Words -> WordType] :
          AnsweredAs(st, i, a, m, ws)
    BY <1>2, <2>1, AnsweredTyped
  <2>3. Effect(st, a) =
          [st EXCEPT !.words = ws, !.encounters = [@ EXCEPT ![i] = m]]
    BY <1>2, <2>1, <2>2 DEF AnsweredAs, Effect
  <2> QED BY <1>2, <2>3 DEF StateType
<1>3. CASE a.kind = "exercise_skip"
  <2>1. PICK i \in DOMAIN st.encounters, m \in EncounterType(C) :
          SkippedAs(st, i, a, m)
    BY <1>3, SkippedTyped
  <2>2. Effect(st, a) = [st EXCEPT !.encounters = [@ EXCEPT ![i] = m]]
    BY <2>1 DEF SkippedAs
  <2> QED BY <1>3, <2>2 DEF StateType
<1>4. CASE a.kind \in WordKinds
  <2>1. PICK x : Effect(st, a) = [st EXCEPT !.words[a.word] = x]
    BY <1>4, WordEffectTyped
  <2> QED BY <1>4, <2>1 DEF StateType, WordKinds
<1>5. CASE a.kind \in OtherKinds /\ a.kind # "exercise_exclude"
  BY <1>5, OtherTyped
<1>6. CASE a.kind = "exercise_exclude"
  <2>1. PICK e : e = Encounter(st, a.encounter)
    OBVIOUS
  <2>2. Effect(st, a) = [st EXCEPT !.excluded = @ \cup {e.content}]
    BY <1>6, <2>1 DEF Effect
  <2>3. Effect(st, a).excluded = st.excluded \cup {e.content}
    BY <2>2 DEF StateType
  <2>4. /\ Known(st, a.encounter)
        /\ e.role # "teaching" /\ e.shape # "introduction"
    BY <1>6, <2>1 DEF Allowed
  <2>5. PICK i : i = IndexOf(st, a.encounter)
    OBVIOUS
  <2>6. /\ i \in DOMAIN st.encounters /\ st.encounters[i].id = a.encounter
        /\ st.encounters[i] = e
    BY <2>1, <2>4, <2>5, KnownFound DEF Encounter
  <2>7. i \in 1 .. Len(st.encounters)
    BY <2>6 DEF StateType
  <2> QED BY <2>3, <2>4, <2>6, <2>7 DEF Withholds
<1> QED BY <1>1, <1>2, <1>3, <1>4, <1>5, <1>6, AllowedKinds

LEMMA ExcludesStep ==
  ASSUME NEW C, NEW st \in StateType(C), NEW A, Excludes(st, A),
         NEW a, WellFormed(a, C), NEW replaying, Allowed(st, a, replaying)
  PROVE  Excludes(Effect(st, a), A \cup {a})
<1>1. PICK old \in Seq(EncounterType(C)) : old = st.encounters
  BY DEF StateType
<1>2. PICK new, out : /\ new = Effect(st, a).encounters
                      /\ out = Effect(st, a).excluded
  OBVIOUS
<1>3. /\ Effect(st, a) \in StateType(C) /\ Len(old) \in Nat
      /\ \A i \in 1 .. Len(old) : i \in 1 .. Len(new) /\ Same(new[i], old[i])
      /\ \A i \in 1 .. Len(new) :
           i \in 1 .. Len(old) \/ Presents(a, new[i])
  <2>1. CASE a.kind = "presentation"
    <3>1. PICK e \in EncounterType(C), ws \in [Words -> WordType] :
            PresentedAs(st, a, e, ws)
      BY <2>1, PresentedTyped
    <3>2. Effect(st, a) = [st EXCEPT !.words = ws, !.encounters = Append(@, e)]
      BY <2>1, <3>1 DEF PresentedAs, Effect
    <3>3. new = Append(old, e)
      BY <1>1, <1>2, <3>2 DEF StateType
    <3>4. Presents(a, e)
      BY <2>1, <3>1 DEF PresentedAs, Presents
    <3>5. /\ Len(new) = Len(old) + 1 /\ Len(old) \in Nat
          /\ new[Len(old) + 1] = e
          /\ \A i \in 1 .. Len(old) : new[i] = old[i]
      BY <3>3
    <3>6. Effect(st, a) \in StateType(C)
      BY EffectTyped
    <3> QED BY <3>4, <3>5, <3>6 DEF Same
  <2>2. CASE a.kind # "presentation"
    <3>1. Effect(st, a) \in StateType(C) /\ Len(new) = Len(old)
          /\ \A i \in 1 .. Len(old) : Same(new[i], old[i])
      BY <1>1, <1>2, <2>2, EffectTyped
    <3> QED BY <3>1
  <2> QED BY <2>1, <2>2
<1>4. /\ st.excluded \subseteq out
      /\ a.kind = "exercise_exclude" =>
           \E i \in 1 .. Len(old) : Withholds(a, old[i], out)
  BY <1>1, <1>2, EffectExcluded
<1>5. ASSUME NEW i \in 1 .. Len(new)
      PROVE  \E b \in A \cup {a} : Presents(b, new[i])
  <2>1. CASE i \in 1 .. Len(old)
    <3>1. PICK b \in A : Presents(b, old[i])
      BY <1>1, <2>1 DEF Excludes
    <3> QED BY <1>3, <2>1, <3>1 DEF Presents, Same
  <2>2. CASE i \notin 1 .. Len(old)
    BY <1>3, <2>2
  <2> QED BY <2>1, <2>2
<1>6. ASSUME NEW b \in A \cup {a}, b.kind = "exercise_exclude"
      PROVE  \E i \in 1 .. Len(new) : Withholds(b, new[i], out)
  <2>1. PICK i \in 1 .. Len(old) : Withholds(b, old[i], out)
    <3>1. CASE b \in A
      <4>1. PICK i \in 1 .. Len(old) : Withholds(b, old[i], st.excluded)
        BY <1>1, <1>6, <3>1 DEF Excludes
      <4> QED BY <1>4, <4>1 DEF Withholds
    <3>2. CASE b = a
      BY <1>4, <1>6, <3>2
    <3> QED BY <3>1, <3>2
  <2>2. i \in 1 .. Len(new) /\ Withholds(b, new[i], out)
    BY <1>3, <2>1 DEF Withholds, Same
  <2> QED BY <2>2
<1> QED BY <1>2, <1>5, <1>6 DEF Excludes

LEMMA ExcludesClosed ==
  ASSUME NEW C, NEW actions
  PROVE  Closed({x \in StateType(C) \X SUBSET actions :
                   Excludes(x[1], x[2])}, C, actions)
<1> DEFINE G == {x \in StateType(C) \X SUBSET actions : Excludes(x[1], x[2])}
<1>1. <<EmptyState, {}>> \in G
  <2>1. EmptyState.encounters = <<>>
    BY DEF EmptyState
  <2>2. Excludes(EmptyState, {})
    BY <2>1 DEF Excludes
  <2> QED BY <2>2, EmptyTyped
<1>2. ASSUME NEW st \in StateType(C), NEW A, <<st, A>> \in G,
             NEW a \in actions, WellFormed(a, C), Allowed(st, a, TRUE)
      PROVE  <<Settle(Effect(st, a)), A \cup {a}>> \in G
  <2>1. Excludes(st, A) /\ A \cup {a} \in SUBSET actions
    BY <1>2
  <2>2. PICK new : new = Effect(st, a)
    OBVIOUS
  <2>3. new \in StateType(C) /\ Excludes(new, A \cup {a})
    BY <1>2, <2>1, <2>2, EffectTyped, ExcludesStep
  <2>4. /\ Settle(new) \in StateType(C)
        /\ Settle(new).encounters = new.encounters
        /\ Settle(new).excluded = new.excluded
    BY <2>3, SettleTyped
  <2>5. Excludes(Settle(new), A \cup {a})
    BY <2>3, <2>4 DEF Excludes
  <2> QED BY <2>1, <2>2, <2>4, <2>5
<1> HIDE DEF G
<1>3. Closed(G, C, actions)
  BY <1>1, <1>2 DEF Closed
<1> QED BY <1>3 DEF G

Elems(add) == {add[i] : i \in 1 .. Len(add)}

\* A run of new actions from a state keeps to every closed relation.
LEMMA RunReaches ==
  ASSUME NEW C, NEW G, NEW actions, Closed(G, C, actions),
         NEW n \in Nat, NEW st, RunType([ok |-> TRUE, st |-> st], C, n),
         NEW A, <<st, A>> \in G, NEW add, Additions(add, n, C),
         \A i \in 1 .. Len(add) : add[i] \in actions /\ add[i].kind # "undo",
         NEW z \in BOOLEAN, NEW run, run = RunFrom(st, add, z), run.ok,
         NEW B, B = A \cup Elems(add)
  PROVE  <<run.st, B>> \in G
<1> DEFINE r == Runs(st, add, z)
           In(k) == A \cup {add[i] : i \in 1 .. k}
           S == {k \in Nat : /\ RunType(r[k], C, n + k)
                             /\ r[k].ok => <<r[k].st, In(k)>> \in G}
<1>1. PICK N \in Nat : N = Len(add)
  BY DEF Additions
<1>2. /\ r[0] = [ok |-> TRUE, st |-> st]
      /\ \A k \in 1 .. N : r[k] = Step(r[k - 1], add[k], z)
  BY <1>1, RunsUnfold DEF Finite
<1> HIDE DEF r
<1>3. 0 \in S
  <2>1. n + 0 = n /\ In(0) = A
    OBVIOUS
  <2>2. RunType(r[0], C, n + 0)
    BY <1>2, <2>1
  <2> HIDE DEF In
  <2>3. <<r[0].st, In(0)>> \in G
    BY <1>2, <2>1
  <2> QED BY <2>2, <2>3
<1>4. ASSUME NEW k \in 0 .. N - 1, k \in S PROVE k + 1 \in S
  <2>1. /\ k \in Nat /\ k + 1 \in 1 .. N /\ (k + 1) - 1 = k
        /\ n + k \in Nat /\ n + (k + 1) = (n + k) + 1
    OBVIOUS
  <2>2. PICK a, m, x, y, D :
          /\ a = add[k + 1] /\ m = n + k
          /\ x = r[k] /\ y = r[k + 1] /\ D = In(k)
    OBVIOUS
  <2>3. /\ a.seq = m + 1 /\ WellFormed(a, C) /\ m \in Nat
        /\ a \in actions /\ a.kind # "undo"
    BY <1>1, <2>1, <2>2 DEF Additions
  <2>4. RunType(x, C, m) /\ (x.ok => <<x.st, D>> \in G)
    BY <1>4, <2>2
  <2>5. y = Step(x, a, z)
    BY <1>2, <2>1, <2>2
  <2>6. RunType(y, C, m + 1)
    BY <2>3, <2>4, <2>5, StepTyped
  <2>7. y.ok => <<y.st, D \cup {a}>> \in G
    BY <2>3, <2>4, <2>5, StepReaches
  <2>8. In(k + 1) = D \cup {a}
    <3>1. 1 .. k + 1 = (1 .. k) \cup {k + 1}
      BY <2>1
    <3> QED BY <2>2, <3>1
  <2> HIDE DEF In
  <2>9. RunType(r[k + 1], C, n + (k + 1))
    BY <2>1, <2>2, <2>6
  <2>10. r[k + 1].ok => <<r[k + 1].st, In(k + 1)>> \in G
    BY <2>2, <2>7, <2>8
  <2> QED BY <2>1, <2>9, <2>10
<1> HIDE DEF S
<1>5. \A k \in 0 .. N : k \in S
  BY <1>1, <1>3, <1>4, InductionUpTo
<1>7. r[N].ok => <<r[N].st, In(N)>> \in G
  BY <1>1, <1>5 DEF S
<1>8. run = r[N]
  BY <1>1 DEF r, RunFrom
<1>9. In(N) = B
  BY <1>1 DEF Elems
<1> HIDE DEF r, In
<1> QED BY <1>7, <1>8, <1>9

\* What was undone stays undone.
LEMMA UndoneGrows ==
  ASSUME NEW C, NEW l, LogOf(l, C), NEW n \in 0 .. Len(l)
  PROVE  \A m \in 0 .. Len(l) : (m >= n /\ Projections(l)[m].ok) =>
           Projections(l)[n].undone \subseteq Projections(l)[m].undone
<1> DEFINE p == Projections(l)
           S == {m \in Nat : (m >= n /\ p[m].ok) =>
                               p[n].undone \subseteq p[m].undone}
<1>1. /\ \A m \in 1 .. Len(l) : p[m] = ProjectStep(l, p[m - 1], l[m])
      /\ \A m \in 0 .. Len(l) : ProjectionType(p[m], C, m)
      /\ Len(l) \in Nat /\ n \in Nat
  BY LogFinite, ProjectionsTyped
<1> HIDE DEF p
<1>2. 0 \in S
  BY <1>1
<1>3. ASSUME NEW m \in 0 .. Len(l) - 1, m \in S PROVE m + 1 \in S
  <2>1. /\ m \in Nat /\ m + 1 \in 1 .. Len(l) /\ (m + 1) - 1 = m
        /\ m \in 0 .. Len(l)
    BY <1>1
  <2>2. PICK x, y : x = p[m] /\ y = p[m + 1]
    OBVIOUS
  <2>3. y = ProjectStep(l, x, l[m + 1]) /\ ProjectionType(x, C, m)
    BY <1>1, <2>1, <2>2
  <2>4. y.ok => x.ok /\ x.undone \subseteq y.undone
    <3>1. /\ y.ok => x.ok
          /\ (y.ok /\ l[m + 1].kind = "undo") => Withdraws(l, m, x, y)
          /\ (y.ok /\ l[m + 1].kind # "undo") => Extends(x, l[m + 1], y)
      BY <2>3, ProjectStepCases
    <3> QED BY <3>1 DEF Withdraws, Extends
  <2>5. CASE m >= n
    BY <1>3, <2>1, <2>2, <2>4, <2>5
  <2>6. CASE ~(m >= n)
    <3>1. m + 1 >= n => m + 1 = n
      BY <1>1, <2>1, <2>6
    <3> QED BY <2>1, <3>1
  <2> QED BY <2>5, <2>6
<1> HIDE DEF S
<1>4. \A m \in 0 .. Len(l) : m \in S
  BY <1>1, <1>2, <1>3, InductionUpTo
<1> QED BY <1>4 DEF S, p

\* No action of l presents what an exclusion before it, not undone, withholds.
Barred(l, undone) ==
  \A i, j, k \in 1 .. Len(l) :
    /\ i < j /\ i \notin undone
    /\ l[i].kind = "exercise_exclude" /\ k = l[i].encounter
    /\ l[j].kind = "presentation" /\ l[k].kind = "presentation"
    => l[k].content # l[j].content

LEMMA BarredStays ==
  ASSUME NEW S, NEW l \in Seq(S), NEW T, NEW add \in Seq(T),
         \A i \in 1 .. Len(add) : add[i].kind # "presentation",
         NEW u, NEW v, u \subseteq v, Barred(l, u)
  PROVE  Barred(l \o add, v)
<1>1. PICK m : m = l \o add
  OBVIOUS
<1>2. /\ Len(m) = Len(l) + Len(add) /\ Len(l) \in Nat /\ Len(add) \in Nat
      /\ \A i \in 1 .. Len(l) : m[i] = l[i]
      /\ \A i \in 1 .. Len(add) : m[Len(l) + i] = add[i]
  BY <1>1
<1>3. ASSUME NEW j \in 1 .. Len(m), m[j].kind = "presentation"
      PROVE  j \in 1 .. Len(l)
  <2>1. ASSUME j \notin 1 .. Len(l) PROVE FALSE
    <3>1. j - Len(l) \in 1 .. Len(add) /\ j = Len(l) + (j - Len(l))
      BY <1>2, <2>1
    <3>2. PICK i \in 1 .. Len(add) : j = Len(l) + i
      BY <3>1
    <3> QED BY <1>2, <1>3, <3>2
  <2> QED BY <2>1
<1>4. ASSUME NEW i \in 1 .. Len(m), NEW j \in 1 .. Len(m),
             NEW k \in 1 .. Len(m), i < j, i \notin v, k = m[i].encounter,
             m[i].kind = "exercise_exclude",
             m[j].kind = "presentation", m[k].kind = "presentation"
      PROVE  m[k].content # m[j].content
  <2>1. j \in 1 .. Len(l) /\ k \in 1 .. Len(l)
    BY <1>3, <1>4
  <2>2. i \in 1 .. Len(l) /\ i \notin u
    BY <1>2, <1>4, <2>1
  <2>3. m[i] = l[i] /\ m[j] = l[j] /\ m[k] = l[k]
    BY <1>2, <2>1, <2>2
  <2> QED BY <1>4, <2>1, <2>2, <2>3 DEF Barred
<1>5. Barred(m, v)
  BY <1>4 DEF Barred
<1> QED BY <1>1, <1>5

\* No exclusion in l, not undone, withholds content.
Clears(l, undone, content) ==
  \A i \in 1 .. Len(l) :
    (l[i].kind = "exercise_exclude" /\ i \notin undone) =>
      \E k \in 1 .. Len(l) : k = l[i].encounter /\ l[k].content # content

\* One more presentation, of what no exclusion in force withholds.
LEMMA BarredServes ==
  ASSUME NEW S, NEW l \in Seq(S), NEW u, Barred(l, u), NEW x,
         Clears(l, u, x.content)
  PROVE  Barred(Append(l, x), u)
<1>1. PICK m : m = Append(l, x)
  OBVIOUS
<1>2. /\ Len(m) = Len(l) + 1 /\ Len(l) \in Nat /\ m[Len(l) + 1] = x
      /\ \A i \in 1 .. Len(l) : m[i] = l[i]
  BY <1>1
<1>3. ASSUME NEW i \in 1 .. Len(m), NEW j \in 1 .. Len(m),
             NEW k \in 1 .. Len(m), i < j, i \notin u, k = m[i].encounter,
             m[i].kind = "exercise_exclude",
             m[j].kind = "presentation", m[k].kind = "presentation"
      PROVE  m[k].content # m[j].content
  <2>1. i \in 1 .. Len(l) /\ m[i] = l[i]
    BY <1>2, <1>3
  <2>2. k \in 1 .. Len(l) /\ m[k] = l[k] /\ l[k].content # x.content
    BY <1>2, <1>3, <2>1 DEF Clears
  <2>3. CASE j = Len(l) + 1
    BY <1>2, <2>2, <2>3
  <2>4. CASE j \in 1 .. Len(l)
    <3>1. m[j] = l[j]
      BY <1>2, <2>4
    <3> QED BY <1>3, <2>1, <2>2, <2>4, <3>1 DEF Barred
  <2> QED BY <1>2, <2>3, <2>4
<1>4. Barred(m, u)
  BY <1>3 DEF Barred
<1> QED BY <1>1, <1>4

-----------------------------------------------------------------------------
(* What an open Next may serve.                                            *)

\* A presentation in the log suits its role.
Suitable(a) == a.kind = "presentation" => Suits(a.role, a.content, a.shape)

\* The actions in force once the transaction t commits.
Pushed(t) == Elems(t.additions)

TxBars(t) ==
  /\ t.wanted \in Words \cup {NoWord}
  /\ \A a \in Pushed(t) : a.kind # "presentation"
  /\ t.ok => Excludes(t.st, InEffect \cup Pushed(t))

BarInv ==
  /\ \A i \in 1 .. Len(log) : Suitable(log[i])
  /\ Barred(log, view.undone)
  /\ tx.open => TxBars(tx)

LEMMA ViewExcludes ==
  ASSUME LogInv PROVE Excludes(view.st, InEffect)
<1>1. PICK G : G = {x \in StateType(Contents) \X SUBSET Range(log) :
                      Excludes(x[1], x[2])}
  OBVIOUS
<1>2. Closed(G, Contents, Range(log))
  BY <1>1, ExcludesClosed
<1>3. <<view.st, InEffect>> \in G
  BY <1>2, ViewReaches
<1> QED BY <1>1, <1>3

\* A run of drafts keeps what is excluded.
LEMMA RunExcludes ==
  ASSUME NEW C, NEW n \in Nat, NEW st, RunType([ok |-> TRUE, st |-> st], C, n),
         NEW A, Excludes(st, A), NEW add, Additions(add, n, C),
         \A i \in 1 .. Len(add) : add[i].kind # "undo",
         NEW z \in BOOLEAN, NEW run, run = RunFrom(st, add, z), run.ok,
         NEW B, B = A \cup Elems(add)
  PROVE  Excludes(run.st, B)
<1>1. PICK G : G = {x \in StateType(C) \X SUBSET B : Excludes(x[1], x[2])}
  OBVIOUS
<1>2. Closed(G, C, B)
  BY <1>1, ExcludesClosed
<1>3. <<st, A>> \in G
  BY <1>1 DEF RunType
<1>4. \A i \in 1 .. Len(add) : add[i] \in B /\ add[i].kind # "undo"
  BY DEF Elems
<1>5. <<run.st, B>> \in G
  BY <1>2, <1>3, <1>4, RunReaches
<1> QED BY <1>1, <1>5

LEMMA PushBars ==
  ASSUME LogInv, NEW t, TxType(t), TxBars(t), t.ok, NEW a, PlainDraft(a),
         a.kind # "presentation"
  PROVE  TxBars(Push(t, a))
<1>1. Len(log) \in Nat /\ Len(t.additions) \in Nat
  BY ViewTyped DEF TxType, Additions
<1>2. PICK n, x : /\ n = Len(log) + Len(t.additions)
                  /\ x = Stamped(a, Len(log) + Len(t.additions) + 1,
                                 Len(log) + 1)
  OBVIOUS
<1>3. /\ n \in Nat /\ x.seq = n + 1 /\ WellFormed(x, Contents)
      /\ x.kind = a.kind /\ x.kind # "undo" /\ x.kind # "presentation"
  BY <1>1, <1>2, StampedDraft DEF PlainDraft
<1>0. PICK z \in BOOLEAN : z = FALSE
  OBVIOUS
<1>4. PICK one, run : one = <<x>> /\ run = RunFrom(t.st, one, z)
  OBVIOUS
<1>5. PICK q, add : q = Push(t, a) /\ add = Append(t.additions, x)
  OBVIOUS
<1>6. q = Ran(t, x, run)
  BY <1>0, <1>2, <1>4, <1>5, Zenon DEF Push, Tried
<1>7. PICK o, ad, st, ok, an, bl, wa :
        t = [open |-> o, additions |-> ad, st |-> st, ok |-> ok,
             another |-> an, blocked |-> bl, wanted |-> wa]
  BY DEF TxType
<1>8. PICK c : c = (ok /\ run.ok)
  OBVIOUS
<1>9. q = [t EXCEPT !.additions = add, !.st = run.st, !.ok = c]
  BY <1>5, <1>6, <1>7, <1>8 DEF Ran
<1>10. /\ q.wanted = t.wanted /\ q.additions = add /\ q.st = run.st
       /\ q.ok = c
  BY <1>7, <1>9
<1>11. Pushed(q) = Pushed(t) \cup {x}
  <2>1. PICK T : t.additions \in Seq(T)
    BY DEF TxType, Additions
  <2>2. PICK d, k : d = t.additions /\ k = Len(d)
    OBVIOUS
  <2>3. /\ k \in Nat /\ Len(add) = k + 1 /\ add[k + 1] = x
        /\ \A i \in 1 .. k : add[i] = d[i]
    BY <1>5, <2>1, <2>2
  <2>4. 1 .. k + 1 = (1 .. k) \cup {k + 1}
    BY <2>3
  <2>5. {add[i] : i \in 1 .. k + 1} = {d[i] : i \in 1 .. k} \cup {x}
    BY <2>3, <2>4
  <2> QED BY <1>10, <2>2, <2>3, <2>5 DEF Pushed, Elems
<1>12. ASSUME q.ok
       PROVE  Excludes(q.st, InEffect \cup Pushed(q))
  <2>1. /\ one \in Seq({x}) /\ Len(one) = 1 /\ one[1] = x
    BY <1>4
  <2>2. \A i \in 1 .. Len(one) : one[i] = x
    BY <2>1
  <2>3. Additions(one, n, Contents)
    BY <1>3, <2>1, <2>2 DEF Additions
  <2>4. RunType([ok |-> TRUE, st |-> t.st], Contents, n)
    BY <1>2 DEF TxType, RunType
  <2>5. Excludes(t.st, InEffect \cup Pushed(t))
    BY DEF TxBars
  <2>6. run.ok
    BY <1>8, <1>10, <1>12
  <2>7. PICK A, B : A = InEffect \cup Pushed(t) /\ B = InEffect \cup Pushed(q)
    OBVIOUS
  <2>8. Excludes(t.st, A) /\ \A i \in 1 .. Len(one) : one[i].kind # "undo"
    BY <1>3, <2>2, <2>5, <2>7
  <2>9. B = A \cup Elems(one)
    <3>1. Elems(one) = {x}
      BY <2>1, <2>2 DEF Elems
    <3> QED BY <1>11, <2>7, <3>1
  <2>10. Excludes(run.st, B)
    BY <1>0, <1>3, <1>4, <2>3, <2>4, <2>6, <2>8, <2>9, RunExcludes
  <2> QED BY <1>10, <2>7, <2>10
<1> QED BY <1>3, <1>5, <1>10, <1>11, <1>12 DEF TxBars

LEMMA UndoneStays ==
  ASSUME LogInv, LogInv', Still \/ Appends
  PROVE  view.undone \subseteq view'.undone
<1>1. PICK l, m : l = log /\ m = log'
  OBVIOUS
<1>2. LogOf(l, Contents) /\ LogOf(m, Contents)
  BY <1>1 DEF LogInv
<1>3. Continues(l, m, Len(l))
  BY <1>1, LogContinues
<1>4. PICK x, y : /\ x = Projections(l)[Len(l)] /\ y = Projections(m)[Len(m)]
  OBVIOUS
<1>5. view.undone = x.undone
  BY <1>1, <1>4 DEF LogInv, Project, Presentable
<1>6. view'.undone = y.undone /\ y.ok
  BY <1>1, <1>4 DEF LogInv, Project, Presentable
<1>7. Projections(m)[Len(l)] = x
  BY <1>2, <1>3, <1>4, ProjectionsContinue
<1>8. /\ Len(l) \in 0 .. Len(m) /\ Len(m) \in 0 .. Len(m)
      /\ Len(m) >= Len(l)
  BY <1>2, <1>3, LogFinite DEF Continues
<1>9. x.undone \subseteq y.undone
  BY <1>2, <1>4, <1>6, <1>7, <1>8, UndoneGrows
<1> QED BY <1>5, <1>6, <1>9

\* A command that serves nothing.
LEMMA QuietlyBarred ==
  ASSUME LogInv, BarInv, NEW add, Additions(add, Len(log), Contents),
         \A i \in 1 .. Len(add) : add[i].kind # "presentation",
         LogInv', Appends, log' = log \o add
  PROVE  /\ \A i \in 1 .. Len(log') : Suitable(log'[i])
         /\ Barred(log', view'.undone)
<1>1. PICK l, m, u, v : /\ l = log /\ m = log' /\ u = view.undone
                        /\ v = view'.undone
  OBVIOUS
<1>2. PICK S : l \in Seq(S)
  BY <1>1 DEF LogInv, LogOf
<1>3. PICK T : add \in Seq(T)
  BY DEF Additions
<1>4. u \subseteq v
  BY <1>1, UndoneStays
<1>5. Barred(l, u) /\ \A i \in 1 .. Len(l) : Suitable(l[i])
  BY <1>1 DEF BarInv
<1>6. m = l \o add
  BY <1>1
<1>7. Barred(m, v)
  BY <1>2, <1>3, <1>4, <1>5, <1>6, BarredStays
<1>8. /\ Len(m) = Len(l) + Len(add) /\ Len(l) \in Nat /\ Len(add) \in Nat
      /\ \A i \in 1 .. Len(l) : m[i] = l[i]
      /\ \A i \in 1 .. Len(add) : m[Len(l) + i] = add[i]
  BY <1>2, <1>3, <1>6
<1>9. ASSUME NEW i \in 1 .. Len(m) PROVE Suitable(m[i])
  <2>1. CASE i \in 1 .. Len(l)
    BY <1>5, <1>8, <2>1
  <2>2. CASE i \notin 1 .. Len(l)
    <3>1. i - Len(l) \in 1 .. Len(add) /\ i = Len(l) + (i - Len(l))
      BY <1>8, <2>2
    <3>2. PICK j \in 1 .. Len(add) : i = Len(l) + j
      BY <3>1
    <3> QED BY <1>8, <3>2 DEF Suitable
  <2> QED BY <2>1, <2>2
<1> QED BY <1>1, <1>7, <1>9

LEMMA LearnerBars ==
  ASSUME StudyInv, BarInv, LearnerCommand PROVE BarInv'
<1>1. StudyInv' /\ Appends /\ AppendsQuietly /\ ~tx.open /\ tx' = tx
  BY LearnerCommandTyped DEF LearnerCommand, Started, Response, Feedback,
     SkipExercise, SkipWord, Enough, More, Requeue, ChangeMode, Resume,
     FinishForNow, FinishImmediately, Undo, Command
<1>2. PICK add : /\ Additions(add, Len(log), Contents) /\ log' = log \o add
                 /\ \A i \in 1 .. Len(add) : add[i].kind # "presentation"
  BY <1>1 DEF AppendsQuietly, Commit
<1>3. /\ \A i \in 1 .. Len(log') : Suitable(log'[i])
      /\ Barred(log', view'.undone)
  BY <1>1, <1>2, QuietlyBarred DEF StudyInv
<1>4. ~(tx.open)'
  BY <1>1
<1> QED BY <1>3, <1>4 DEF BarInv

LEMMA BeginBars ==
  ASSUME StudyInv, BarInv, NEW wanted \in session.words \cup {NoWord},
         NEW another, NextBegin(wanted, another)
  PROVE  BarInv'
<1>0. PICK z \in BOOLEAN : z = FALSE
  OBVIOUS
<1>1. PICK add, run : /\ add = Numbered(Len(log), Opening(view.st, another))
                      /\ run = RunFrom(view.st, add, z)
  OBVIOUS
<1>2. /\ tx' = Begun(run, add, wanted, another)
      /\ session' = session /\ log' = log /\ view' = view
  BY <1>0, <1>1, Zenon DEF NextBegin
<1>3. LogInv
  BY DEF StudyInv
<1>4. Len(log) \in Nat /\ RunType([ok |-> TRUE, st |-> view.st], Contents, Len(log))
  BY <1>3, ViewTyped
<1>5. /\ Additions(add, Len(log), Contents)
      /\ \A i \in 1 .. Len(add) :
           add[i].kind # "undo" /\ add[i].kind # "presentation"
  <2>1. PICK drafts : drafts = Opening(view.st, another)
    OBVIOUS
  <2>2. Drafts(drafts)
    BY <2>1, OpeningDrafts
  <2>3. PICK S : drafts \in Seq(S)
    BY <2>2 DEF Drafts
  <2>4. \A i \in 1 .. Len(drafts) :
          /\ Draft(drafts[i], Contents)
          /\ drafts[i].kind # "undo" /\ drafts[i].kind # "presentation"
    BY <2>2 DEF Drafts, PlainDraft
  <2>5. \A i \in 1 .. Len(drafts) : Draft(drafts[i], Contents)
    BY <2>4
  <2>6. Additions(add, Len(log), Contents) /\ Len(add) = Len(drafts)
    BY <1>1, <1>4, <2>1, <2>3, <2>5, NumberedAdditions
  <2>7. \A i \in 1 .. Len(drafts) :
          add[i].tid = Len(log) + 1 /\ add[i].kind = drafts[i].kind
    BY <1>1, <1>4, <2>1, <2>3, <2>5, NumberedTogether
  <2> QED BY <2>4, <2>6, <2>7
<1>6. PICK t, w : /\ t = Begun(run, add, wanted, another)
                  /\ w = IF another THEN NoWord ELSE wanted
  OBVIOUS
<1>7. /\ t.additions = add /\ t.st = run.st /\ t.ok = run.ok /\ t.wanted = w
  BY <1>6 DEF Begun
<1>8. w \in Words \cup {NoWord}
  BY <1>3, <1>6, Composed
<1>9. \A a \in Pushed(t) : a.kind # "presentation"
  BY <1>5, <1>7 DEF Pushed, Elems
<1>10. ASSUME t.ok PROVE Excludes(t.st, InEffect \cup Pushed(t))
  <2>1. PICK A, B : A = InEffect /\ B = A \cup Elems(add)
    OBVIOUS
  <2>2. Excludes(view.st, A)
    BY <1>3, <2>1, ViewExcludes
  <2>3. run.ok
    BY <1>7, <1>10
  <2>4. Excludes(run.st, B)
    BY <1>0, <1>1, <1>4, <1>5, <2>1, <2>2, <2>3, RunExcludes
  <2> QED BY <1>7, <2>1, <2>4 DEF Pushed
<1>11. TxBars(t)
  BY <1>7, <1>8, <1>9, <1>10 DEF TxBars
<1>12. TxBars(t) <=> TxBars(t)'
  BY <1>2 DEF TxBars, InEffect
<1>13. TxBars(tx)'
  BY <1>2, <1>6, <1>11, <1>12 DEF TxBars
<1> QED BY <1>2, <1>13 DEF BarInv

\* A transaction that serves a presentation of what nothing withholds.
LEMMA ServedBarred ==
  ASSUME LogInv, BarInv, NEW t, TxType(t), TxBars(t), t.ok,
         NEW x, x.kind = "presentation", Servable(x, t.st),
         NEW l, l = log \o t.additions
  PROVE  Clears(l, view.undone, x.content)
<1>1. PICK g, add, A : /\ g = log /\ add = t.additions
                       /\ A = InEffect \cup Elems(add)
  OBVIOUS
<1>2. PICK S, T : g \in Seq(S) /\ add \in Seq(T)
  BY <1>1 DEF LogInv, LogOf, TxType, Additions
<1>3. LogOf(l, Contents)
  BY <1>1, AdditionsJoin DEF LogInv, TxType
<1>4. /\ Len(l) = Len(g) + Len(add) /\ Len(g) \in Nat /\ Len(add) \in Nat
      /\ \A i \in 1 .. Len(g) : l[i] = g[i]
      /\ \A i \in 1 .. Len(add) : l[Len(g) + i] = add[i]
  BY <1>1, <1>2
<1>5. Excludes(t.st, A) /\ t.st \in StateType(Contents)
  BY <1>1 DEF TxBars, Pushed, TxType, RunType
<1>6. ASSUME NEW b \in A, b.kind = "presentation"
      PROVE  /\ b.seq \in 1 .. Len(l) /\ b = l[b.seq]
             /\ Suitable(b)
  <2>1. b \in InEffect
    BY <1>1, <1>6 DEF TxBars, Pushed
  <2>2. PICK i \in 1 .. Len(g) : b = g[i]
    BY <1>1, <2>1 DEF InEffect, InForce
  <2>3. i \in 1 .. Len(l) /\ b = l[i]
    BY <1>4, <2>2
  <2>4. b.seq = i
    BY <1>3, <2>3 DEF LogOf
  <2>5. Suitable(b)
    BY <1>1, <2>2 DEF BarInv
  <2> QED BY <2>3, <2>4, <2>5
<1>7. ASSUME NEW i \in 1 .. Len(l), l[i].kind = "exercise_exclude",
             i \notin view.undone
      PROVE  \E k \in 1 .. Len(l) :
               k = l[i].encounter /\ l[k].content # x.content
  <2>1. l[i] \in A
    <3>1. CASE i \in 1 .. Len(g)
      BY <1>1, <1>4, <1>7, <3>1 DEF InEffect, InForce
    <3>2. CASE i \notin 1 .. Len(g)
      <4>1. i - Len(g) \in 1 .. Len(add) /\ i = Len(g) + (i - Len(g))
        BY <1>4, <3>2
      <4>2. PICK j \in 1 .. Len(add) : i = Len(g) + j
        BY <4>1
      <4> QED BY <1>1, <1>4, <4>2 DEF Elems
    <3> QED BY <3>1, <3>2
  <2>2. PICK j \in 1 .. Len(t.st.encounters) :
          Withholds(l[i], t.st.encounters[j], t.st.excluded)
    BY <1>5, <1>7, <2>1 DEF Excludes
  <2>3. PICK e : e = t.st.encounters[j]
    OBVIOUS
  <2>4. PICK b \in A : Presents(b, e)
    BY <1>5, <2>2, <2>3 DEF Excludes
  <2>5. /\ e.id = l[i].encounter /\ e.content \in t.st.excluded
        /\ e.role # "teaching" /\ e.shape # "introduction"
    BY <2>2, <2>3 DEF Withholds
  <2>6. /\ b.kind = "presentation" /\ b.seq = e.id /\ b.content = e.content
        /\ b.role = e.role /\ b.shape = e.shape
    BY <2>4 DEF Presents
  <2>7. b.seq \in 1 .. Len(l) /\ b = l[b.seq] /\ Suitable(b)
    BY <1>6, <2>4, <2>6
  <2>8. b.role \in Roles
    BY <1>3, <2>6, <2>7 DEF LogOf, WellFormed
  <2>9. b.content \in Practised
    BY <2>5, <2>6, <2>7, <2>8 DEF Suitable, Suits, Roles
  <2>10. x.content # b.content
    BY <2>5, <2>6, <2>9, RoleAssumption DEF Servable, Suits, Roles
  <2> QED BY <2>5, <2>6, <2>7, <2>10
<1> QED BY <1>7 DEF Clears

\* What a push makes of a transaction.
LEMMA PushShape ==
  ASSUME NEW t, TxType(t), NEW a
  PROVE  \E x : /\ x = Stamped(a, Len(log) + Len(t.additions) + 1,
                               Len(log) + 1)
                /\ Push(t, a).additions = Append(t.additions, x)
<1>1. PICK x : x = Stamped(a, Len(log) + Len(t.additions) + 1, Len(log) + 1)
  OBVIOUS
<1>2. PICK run : Push(t, a) = Ran(t, x, run)
  BY <1>1, Zenon DEF Push, Tried
<1>3. PICK o, ad, st, ok, an, bl, wa :
        t = [open |-> o, additions |-> ad, st |-> st, ok |-> ok,
             another |-> an, blocked |-> bl, wanted |-> wa]
  BY DEF TxType
<1>4. Ran(t, x, run).additions = Append(t.additions, x)
  BY <1>3 DEF Ran
<1> QED BY <1>1, <1>2, <1>4

LEMMA ServeBars ==
  ASSUME StudyInv, BarInv, NEW t, TxType(t), TxBars(t), t.ok,
         NEW d, Draft(d, Contents), d.kind = "presentation",
         Servable(d, t.st), Conclude(Push(t, d)), StudyInv'
  PROVE  BarInv'
<1>0. LogInv /\ LogInv' /\ Len(log) \in Nat /\ Len(t.additions) \in Nat
  BY ViewTyped DEF StudyInv, TxType, Additions
<1>1. PICK q : q = Push(t, d)
  OBVIOUS
<1>2. CASE ~q.ok
  <2>1. tx' = Idle /\ log' = log /\ view' = view
    BY <1>1, <1>2 DEF Conclude, Rollback
  <2> QED BY <2>1 DEF BarInv, Idle
<1>3. CASE q.ok
  <2>1. Commit(q.additions) /\ tx' = Idle
    BY <1>1, <1>3 DEF Conclude
  <2>2. PICK x : /\ x = Stamped(d, Len(log) + Len(t.additions) + 1,
                                Len(log) + 1)
                 /\ q.additions = Append(t.additions, x)
    BY <1>1, PushShape
  <2>3. /\ x.kind = "presentation" /\ x.content = d.content
        /\ x.shape = d.shape /\ x.role = d.role
    <3>1. PICK n \in Nat : n = Len(log) + Len(t.additions) + 1
      BY <1>0
    <3>2. PICK k : k = Len(log) + 1
      OBVIOUS
    <3>3. x = Stamped(d, n, k)
      BY <2>2, <3>1, <3>2
    <3> QED BY <3>3, StampedDraft
  <2>4. Servable(x, t.st)
    BY <2>3 DEF Servable
  <2>5. PICK g, add, l, m, u, v :
          /\ g = log /\ add = t.additions /\ l = g \o add /\ m = log'
          /\ u = view.undone /\ v = view'.undone
    OBVIOUS
  <2>6. PICK S, T : g \in Seq(S) /\ add \in Seq(T)
    BY <1>0, <2>5 DEF LogInv, LogOf, TxType, Additions
  <2>7. Clears(l, u, x.content)
    <3>1. l = log \o t.additions
      BY <2>5
    <3>2. Clears(l, view.undone, x.content)
      BY <1>0, <2>3, <2>4, <3>1, ServedBarred
    <3> QED BY <2>5, <3>2
  <2>8. m = Append(l, x) /\ l \in Seq(S \cup T)
    <3>1. log' = log \o q.additions
      BY <2>1 DEF Commit
    <3>2. m = g \o Append(add, x)
      BY <2>2, <2>5, <3>1
    <3>3. g \o Append(add, x) = Append(g \o add, x)
      BY <2>6
    <3> QED BY <2>5, <2>6, <3>2, <3>3
  <2>9. u \subseteq v
    <3>0. TxType(q)
      BY <1>0, <1>1, PushTyped
    <3>1. Appends
      BY <1>0, <2>1, <3>0 DEF Appends, TxType, Together
    <3> QED BY <1>0, <2>5, <3>1, UndoneStays
  <2>10. Barred(l, v)
    <3>1. \A i \in 1 .. Len(add) : add[i].kind # "presentation"
      BY <2>5 DEF TxBars, Pushed, Elems
    <3>2. Barred(g, u)
      BY <2>5 DEF BarInv
    <3> QED BY <2>5, <2>6, <2>9, <3>1, <3>2, BarredStays
  <2>11. Barred(m, v)
    <3>1. Clears(l, v, x.content)
      BY <2>7, <2>9 DEF Clears
    <3> QED BY <2>8, <2>10, <3>1, BarredServes
  <2>12. ASSUME NEW i \in 1 .. Len(m) PROVE Suitable(m[i])
    <3>1. /\ Len(m) = Len(l) + 1 /\ m[Len(l) + 1] = x /\ Len(l) \in Nat
          /\ \A j \in 1 .. Len(l) : m[j] = l[j]
      BY <2>8
    <3>2. /\ Len(l) = Len(g) + Len(add) /\ Len(g) \in Nat
          /\ Len(add) \in Nat
          /\ \A j \in 1 .. Len(g) : l[j] = g[j]
          /\ \A j \in 1 .. Len(add) : l[Len(g) + j] = add[j]
      BY <2>5, <2>6
    <3>3. CASE i = Len(l) + 1
      BY <2>4, <3>1, <3>3 DEF Servable, Suitable
    <3>4. CASE i \in 1 .. Len(g)
      BY <2>5, <3>1, <3>2, <3>4 DEF BarInv
    <3>5. CASE i \in 1 .. Len(l) /\ i \notin 1 .. Len(g)
      <4>1. i - Len(g) \in 1 .. Len(add) /\ i = Len(g) + (i - Len(g))
        BY <3>2, <3>5
      <4>2. PICK j \in 1 .. Len(add) : i = Len(g) + j
        BY <4>1
      <4>3. m[i] = add[j] /\ add[j].kind # "presentation"
        BY <2>5, <3>1, <3>2, <3>5, <4>2 DEF TxBars, Pushed, Elems
      <4> QED BY <4>3 DEF Suitable
    <3> QED BY <3>1, <3>3, <3>4, <3>5
  <2> QED BY <2>1, <2>5, <2>11, <2>12 DEF BarInv, Idle
<1> QED BY <1>2, <1>3

\* A transaction that serves nothing.
LEMMA ConcludeBars ==
  ASSUME StudyInv, BarInv, NEW t, TxType(t), TxBars(t), Conclude(t),
         StudyInv'
  PROVE  BarInv'
<1>1. LogInv /\ LogInv'
  BY DEF StudyInv
<1>2. CASE ~t.ok
  <2>1. tx' = Idle /\ log' = log /\ view' = view
    BY <1>2 DEF Conclude, Rollback
  <2> QED BY <2>1 DEF BarInv, Idle
<1>3. CASE t.ok
  <2>1. /\ Commit(t.additions) /\ tx' = Idle
        /\ log' = log \o t.additions
    BY <1>3 DEF Conclude, Commit
  <2>2. PICK add : add = t.additions
    OBVIOUS
  <2>3. /\ Additions(add, Len(log), Contents) /\ Together(add, Len(log))
        /\ \A i \in 1 .. Len(add) : add[i].kind # "presentation"
    BY <2>2 DEF TxType, TxBars, Pushed, Elems, Together
  <2>4. Appends
    BY <1>1, <2>1, <2>2, <2>3 DEF Appends
  <2>5. /\ \A i \in 1 .. Len(log') : Suitable(log'[i])
        /\ Barred(log', view'.undone)
    BY <1>1, <2>1, <2>2, <2>3, <2>4, QuietlyBarred
  <2> QED BY <2>1, <2>5 DEF BarInv, Idle
<1> QED BY <1>2, <1>3

LEMMA ReopenedBars ==
  ASSUME LogInv, NEW t, TxType(t), TxBars(t), t.ok, NEW w \in Words
  PROVE  TxBars(Reopened(t, w))
<1>1. PICK d : d = [kind |-> "word_more", word |-> w]
  OBVIOUS
<1>2. PlainDraft(d) /\ d.kind # "presentation"
  BY <1>1, WordDraft
<1>3. TxBars(Push(t, d))
  BY <1>2, PushBars
<1> QED BY <1>1, <1>3 DEF Reopened

LEMMA LeftBars ==
  ASSUME LogInv, NEW t, TxType(t), TxBars(t), t.ok, NEW w \in Words
  PROVE  TxBars(LeftUnfinished(t, w))
<1>1. PICK d : d = [kind |-> "word_skip", word |-> w]
  OBVIOUS
<1>2. PlainDraft(d) /\ d.kind # "presentation"
  BY <1>1, WordDraft
<1>3. TxBars(Push(t, d))
  BY <1>2, PushBars
<1> QED BY <1>1, <1>3 DEF LeftUnfinished

LEMMA LoopBars ==
  ASSUME NEW t, TxType(t), TxBars(t), NEW blocked
  PROVE  TxBars([t EXCEPT !.wanted = NoWord, !.blocked = blocked])
<1>1. PICK o, ad, st, ok, an, bl, wa :
         t = [open |-> o, additions |-> ad, st |-> st, ok |-> ok,
              another |-> an, blocked |-> bl, wanted |-> wa]
  BY DEF TxType
<1>2. PICK q : q = [t EXCEPT !.wanted = NoWord, !.blocked = blocked]
  OBVIOUS
<1>3. /\ q.wanted = NoWord /\ q.additions = t.additions /\ q.ok = t.ok
      /\ q.st = t.st
  BY <1>1, <1>2
<1>4. Pushed(q) = Pushed(t)
  BY <1>3 DEF Pushed
<1>5. TxBars(q)
  BY <1>3, <1>4 DEF TxBars
<1> QED BY <1>2, <1>5

\* A cue the loop may serve is not excluded.
LEMMA TargetsOpen ==
  ASSUME LogInv, NEW t, t.wanted \in Words \cup {NoWord},
         NEW c \in Cues, c \in Targets(t)
  PROVE  c \notin t.st.excluded
<1>1. c \notin Words /\ c # NoWord
  BY ReducerAssumption
<1>2. c \in Selected(t.st, t.blocked)
  BY <1>1 DEF Targets
<1>3. c \notin Available(t.st, t.blocked)
  BY <1>1, Composed DEF Available
<1>4. PICK all : all = Available(t.st, t.blocked) \cup OpenCues(t.st)
  OBVIOUS
<1>5. PICK pool : pool = OrElse(Rested(t.st, all), all)
  OBVIOUS
<1>6. c \in Drawn(t.st, t.blocked, pool)
  BY <1>2, <1>3, <1>4, <1>5 DEF Selected, Introducible
<1>7. c \in pool
  BY <1>6 DEF Drawn, OrElse, LeastRecent, Unpaced
<1>8. c \in all
  BY <1>5, <1>7 DEF OrElse, Rested
<1> QED BY <1>3, <1>4, <1>8 DEF OpenCues

LEMMA NextStepBars ==
  ASSUME StudyInv, BarInv, NextStep, StudyInv' PROVE BarInv'
<1>1. LogInv /\ tx.open /\ TxType(tx) /\ TxBars(tx)
  <2>1. tx.open
    BY DEF NextStep, NextExhausts, NextCompletes, NextServes,
           NextServesCue, NextUnavailable, NextFinishes, NextThrows, Turn
  <2> QED BY <2>1 DEF StudyInv, BarInv
\* The loop goes on with q, selecting again.
<1>2. ASSUME NEW q, TxType(q), TxBars(q), NEW blocked,
             tx' = [q EXCEPT !.wanted = NoWord, !.blocked = blocked],
             log' = log, view' = view
      PROVE  BarInv'
  <2>1. PICK x : x = [q EXCEPT !.wanted = NoWord, !.blocked = blocked]
    OBVIOUS
  <2>2. TxBars(x)
    BY <1>2, <2>1, LoopBars
  <2>3. TxBars(x)'
    <3>1. TxBars(x) <=> TxBars(x)'
      BY <1>2 DEF TxBars, InEffect
    <3> QED BY <2>2, <3>1
  <2>4. TxBars(tx)'
    BY <1>2, <2>1, <2>3 DEF TxBars
  <2> QED BY <1>2, <2>4 DEF BarInv
<1>3. ASSUME NEW w \in Words, NextExhausts(w) PROVE BarInv'
  <2>1. PICK t, q : /\ t = Reopened(tx, w) /\ q = LeftUnfinished(t, w)
                    /\ tx.ok /\ t.ok
                    /\ tx' = [q EXCEPT !.wanted = NoWord,
                                       !.blocked = @ \cup {w}]
                    /\ log' = log /\ view' = view
    BY <1>3 DEF NextExhausts, Turn
  <2>2. TxType(t) /\ TxBars(t)
    BY <1>1, <2>1, ReopenedTyped, ReopenedBars
  <2>3. TxType(q) /\ TxBars(q)
    BY <1>1, <2>1, <2>2, LeftTyped, LeftBars
  <2>4. PICK blocked : blocked = q.blocked \cup {w}
    OBVIOUS
  <2>5. PICK o, ad, st, ok, an, bl, wa :
          q = [open |-> o, additions |-> ad, st |-> st, ok |-> ok,
               another |-> an, blocked |-> bl, wanted |-> wa]
    BY <2>3 DEF TxType
  <2>6. tx' = [q EXCEPT !.wanted = NoWord, !.blocked = blocked]
    BY <2>1, <2>4, <2>5
  <2> QED BY <1>2, <2>1, <2>3, <2>6
<1>4. ASSUME NEW w \in Words, NextCompletes(w) PROVE BarInv'
  <2>1. PICK t, d, q :
          /\ t = Reopened(tx, w)
          /\ d = [kind |-> "teaching_complete", word |-> w] /\ q = Push(t, d)
          /\ tx.ok /\ t.ok /\ tx' = [q EXCEPT !.wanted = NoWord]
          /\ log' = log /\ view' = view
    BY <1>4 DEF NextCompletes, Turn
  <2>2. TxType(t) /\ TxBars(t)
    BY <1>1, <2>1, ReopenedTyped, ReopenedBars
  <2>3. TxType(q) /\ TxBars(q)
    <3>1. PlainDraft(d) /\ d.kind # "presentation"
      BY <2>1, WordDraft
    <3>2. TxBars(q)
      BY <1>1, <2>1, <2>2, <3>1, PushBars
    <3>3. TxType(q)
      BY <1>1, <2>1, <2>2, <3>1, PushTyped DEF PlainDraft
    <3> QED BY <3>2, <3>3
  <2>4. PICK blocked : blocked = q.blocked
    OBVIOUS
  <2>5. PICK o, ad, st, ok, an, bl, wa :
          q = [open |-> o, additions |-> ad, st |-> st, ok |-> ok,
               another |-> an, blocked |-> bl, wanted |-> wa]
    BY <2>3 DEF TxType
  <2>6. tx' = [q EXCEPT !.wanted = NoWord, !.blocked = blocked]
    BY <2>1, <2>4, <2>5
  <2> QED BY <1>2, <2>1, <2>3, <2>6
<1>5. ASSUME NEW w \in Words, NextServes(w) PROVE BarInv'
  <2>1. PICK t, s : /\ t = Reopened(tx, w) /\ tx.ok /\ t.ok
                    /\ s \in Servings(t.st, w) /\ Conclude(Serve(t, w, s))
    BY <1>5 DEF NextServes, Turn
  <2>2. TxType(t) /\ TxBars(t)
    BY <1>1, <2>1, ReopenedTyped, ReopenedBars
  <2>3. t.st \in StateType(Contents)
    BY <2>1, <2>2 DEF TxType, RunType
  <2>4. /\ s.role \in Roles /\ s.content \in Contents /\ s.shape \in Shapes
        /\ Servable(s, t.st)
    BY <2>1, <2>3, ServingsTyped
  <2>5. PICK d : d = [ kind |-> "presentation", word |-> w, role |-> s.role,
                       content |-> s.content, shape |-> s.shape ]
    OBVIOUS
  <2>6. /\ Draft(d, Contents) /\ d.kind = "presentation"
        /\ Servable(d, t.st)
    BY <2>4, <2>5 DEF Draft, Servable
  <2>7. Conclude(Push(t, d))
    BY <2>1, <2>5 DEF Serve
  <2> QED BY <2>1, <2>2, <2>6, <2>7, ServeBars
<1>6. ASSUME NEW c \in Cues, NextServesCue(c) PROVE BarInv'
  <2>1. PICK d : d = [ kind |-> "presentation", word |-> NoWord,
                       role |-> "general", content |-> c,
                       shape |-> "production" ]
    OBVIOUS
  <2>2. tx.ok /\ c \in Targets(tx) /\ Conclude(Push(tx, d))
    BY <1>6, <2>1 DEF NextServesCue, Serve
  <2>3. c \in Contents /\ c \in Practised
    BY DEF Contents, Practised
  <2>4. c \notin tx.st.excluded
    BY <1>1, <2>2, TargetsOpen DEF TxBars
  <2>5. /\ Draft(d, Contents) /\ d.kind = "presentation"
        /\ Servable(d, tx.st)
    BY <2>1, <2>3, <2>4 DEF Draft, Servable, Suits, Roles, Shapes
  <2> QED BY <1>1, <2>2, <2>5, ServeBars
<1>7. CASE NextUnavailable
  BY <1>1, <1>7, ConcludeBars DEF NextUnavailable
<1>8. CASE NextFinishes
  <2>1. PICK d, q : d = [kind |-> "finish_for_now"] /\ q = Push(tx, d)
    OBVIOUS
  <2>2. PlainDraft(d) /\ d.kind # "presentation"
    BY <2>1, PhaseDraft
  <2>3. tx.ok
    BY <1>8 DEF NextFinishes
  <2>4. TxType(q) /\ TxBars(q)
    <3>1. TxBars(q)
      BY <1>1, <2>1, <2>2, <2>3, PushBars
    <3>2. TxType(q)
      BY <1>1, <2>1, <2>2, <2>3, PushTyped DEF PlainDraft
    <3> QED BY <3>1, <3>2
  <2>5. Conclude(q) \/ Conclude(tx)
    BY <1>8, <2>1 DEF NextFinishes
  <2> QED BY <1>1, <2>4, <2>5, ConcludeBars
<1>9. CASE NextThrows
  <2>1. tx' = Idle /\ log' = log /\ view' = view
    BY <1>9 DEF NextThrows, Rollback
  <2> QED BY <2>1 DEF BarInv, Idle
<1> QED BY <1>3, <1>4, <1>5, <1>6, <1>7, <1>8, <1>9 DEF NextStep

LEMMA InitBars ==
  ASSUME Init PROVE BarInv
<1>1. log = <<>> /\ tx = Idle
  BY DEF Init
<1>2. Len(log) = 0
  BY <1>1
<1> QED BY <1>1, <1>2 DEF BarInv, Barred, Idle

LEMMA BarStep ==
  ASSUME StudyInv, BarInv, [Next]_vars PROVE StudyInv' /\ BarInv'
<1>0. StudyInv'
  BY StudyStep
<1>1. CASE LearnerCommand
  BY <1>0, <1>1, LearnerBars
<1>2. ASSUME NEW w \in session.words \cup {NoWord}, NEW another,
             NextBegin(w, another)
      PROVE  BarInv'
  BY <1>2, BeginBars
<1>3. CASE NextStep
  BY <1>0, <1>3, NextStepBars
<1>4. CASE Rest \/ UNCHANGED vars
  <2>1. tx' = tx /\ log' = log /\ view' = view
    BY <1>4 DEF Rest, vars
  <2>2. TxBars(tx) <=> TxBars(tx)'
    BY <2>1 DEF TxBars, Pushed, InEffect
  <2> QED BY <1>0, <2>1, <2>2 DEF BarInv
<1> QED BY <1>0, <1>1, <1>2, <1>3, <1>4 DEF Next

LEMMA BarInvariant == Spec => [](StudyInv /\ BarInv)
<1>1. Init => StudyInv /\ BarInv
  BY InitStudy, InitBars
<1>2. StudyInv /\ BarInv /\ [Next]_vars => StudyInv' /\ BarInv'
  BY BarStep
<1> QED BY <1>1, <1>2, PTL DEF Spec

\* "Try another way" excludes an exercise for the rest of the session, in
\* every session and along every interleaving of Next's steps: nothing served
\* after an exclusion still in force has its content.
THEOREM ExclusionHoldsAlways == Spec => []ExclusionHolds
<1>1. ASSUME StudyInv, BarInv PROVE ExclusionHolds
  <2>0. LogInv /\ Barred(log, view.undone)
    BY <1>1 DEF StudyInv, BarInv
  <2>1. ASSUME NEW a \in EffectiveActions, a.kind = "exercise_exclude",
               NEW e \in Range(Encs(view.st)), NEW x \in Range(Encs(view.st)),
               x.id = a.encounter, e.content = x.content
        PROVE  e.id < a.seq
    <3>1. Excludes(view.st, InEffect)
      BY <2>0, ViewExcludes
    <3>2. PICK p, q \in InEffect : Presents(p, e) /\ Presents(q, x)
      <4>1. view.st.encounters \in Seq(EncounterType(Contents))
        BY <2>0, ViewTyped DEF StateType
      <4>2. PICK i, j \in 1 .. Len(view.st.encounters) :
              e = view.st.encounters[i] /\ x = view.st.encounters[j]
        BY <2>1, <4>1 DEF Range, Encs
      <4> QED BY <3>1, <4>2 DEF Excludes
    <3>3. a \in InEffect
      BY <2>0, <2>1, EffectiveInForce
    <3>4. \A b \in InEffect : /\ b.seq \in 1 .. Len(log) /\ b = log[b.seq]
                              /\ b.seq \notin view.undone
      BY <2>0 DEF InEffect, InForce, LogInv, LogOf
    <3>5. PICK i, j, k \in 1 .. Len(log) :
            i = a.seq /\ j = p.seq /\ k = q.seq
      BY <3>2, <3>3, <3>4
    <3>6. /\ log[i] = a /\ log[j] = p /\ log[k] = q /\ i \notin view.undone
          /\ k = log[i].encounter /\ log[k].content = log[j].content
          /\ log[j].kind = "presentation" /\ log[k].kind = "presentation"
      BY <2>1, <3>2, <3>3, <3>4, <3>5 DEF Presents
    <3>7. ~(i < j)
      BY <2>0, <2>1, <3>6 DEF Barred
    <3>8. i # j
      BY <2>1, <3>6
    <3>9. Len(log) \in Nat /\ e.id = j
      BY <2>0, <3>2, <3>5, ViewTyped DEF Presents
    <3> QED BY <3>5, <3>7, <3>8, <3>9
  <2> QED BY <2>1 DEF ExclusionHolds
<1> QED BY <1>1, BarInvariant, PTL
=============================================================================
