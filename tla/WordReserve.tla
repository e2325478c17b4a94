----------------------------- MODULE WordReserve -----------------------------
(***************************************************************************)
(* The reserve of words a learner will be taught next, the composition of  *)
(* sessions from it, and what changes under both: preparation-reserve.ts,  *)
(* word-reserve.ts, composition.ts, the admission of study.ts, and the     *)
(* acts that ask for the reserve to be reconciled.  How a word of the      *)
(* reserve is prepared is WordPreparation's subject: here it succeeds,     *)
(* fails for good, or takes its time.                                      *)
(***************************************************************************)
EXTENDS NewWordAdmission

CONSTANTS
  InitialStash,  \* the words in the learner's stash at first
  Shuffles,      \* the orders a seeded shuffle may produce
  Limits,        \* the daily limits the learner may choose; the first is
  FirstLimit,    \* FirstLimit
  MaxStarts, MaxDays, MaxActs, MaxApart,  \* bounds of the instance
  Loads          \* what may be due at a visit: [due, cues]

ASSUME ReserveAssumption ==
  /\ InitialStash \subseteq Words
  /\ Loads \subseteq [due : Nat, cues : Nat]
  /\ FirstLimit \in Limits /\ Limits \subseteq 0..20
  /\ \A order \in Shuffles :
       /\ order \in Seq(Words)
       /\ Range(order) = Words /\ Len(order) = Cardinality(Words)

VARIABLES
  unstudied, \* words with a row of the learner in mode unstudied
  studied,   \* words that entered learning
  stash,     \* stash membership
  dismissed, \* words the learner dismissed
  tops,      \* words moved to the top, newest first
  settings,  \* [limit, source, weights]
  prep,      \* the shared preparation of each word
  reserve, request,  \* the reserve, and a request to reconcile it
  taught,    \* teaching completed on this study day
  sessions,  \* the sessions started, [status, new, mine]: the new words each
             \* admitted, and those its close still decides about
  composed,  \* history: what the last step composed, if it was a visit,
             \* [quota, asked, offered]
  settled,   \* history: nothing decided since the last reconciliation
  spent      \* [acts, apart, days], against their bounds

vars == <<unstudied, studied, stash, dismissed, tops, settings, prep, reserve,
          request, taught, sessions, composed, settled, spent>>
words == <<unstudied, studied, stash, dismissed>>

NoSession == [status |-> "none"]
Uncomposed == [asked |-> {}]
Ready == {w \in Words : prep[w] = "ready"}
Blocked == {w \in Words : prep[w] = "paused"}

StashWords == (unstudied \cap stash) \ dismissed
DietWords == {w \in Words : w \notin unstudied \cup studied}
               \cup (unstudied \ (stash \cup dismissed))

Request(quota, ready, excluded) ==
  [ stash |-> StashWords \ excluded, diet |-> DietWords \ excluded,
    tops |-> tops, source |-> settings.source, weights |-> settings.weights,
    quota |-> quota, preferred |-> reserve, ready |-> ready ]

-----------------------------------------------------------------------------
(* The reserve.                                                            *)

\* Mutation of Candidates: whatever failed is passed over, members too.
CandidatesWithoutFailed ==
  LET r == Request(2 * settings.limit, Words, Blocked)
  IN  {Range(Plan(r, order).new) : order \in Shuffles}

\* Twice the daily limit, readiness aside.  A member that failed keeps its
\* place; other words that failed are passed over.
Candidates ==
  LET r == Request(2 * settings.limit, Words, Blocked \ reserve)
  IN  {Range(Plan(r, order).new) : order \in Shuffles}

\* What the queue holds once the members that can be are queued.
Enqueued(members) ==
  [w \in Words |-> IF w \in members /\ prep[w] = "none" THEN "queued"
                   ELSE prep[w]]

\* reconcileVocabularyPreparationReserve, by the runtime's timer for a pending
\* request or by a visit.
Reconcile ==
  /\ \E members \in Candidates :
       reserve' = members /\ prep' = Enqueued(members)
  /\ request' = FALSE /\ settled' = TRUE
  /\ UNCHANGED <<words, tops, settings, taught, sessions, spent>>

-----------------------------------------------------------------------------
(* Sessions.                                                               *)

Open == {i \in DOMAIN sessions : sessions[i].status = "open"}

\* Mutation of Composed: the session draws regardless of the reserve.
ComposedAnew(members) ==
  [Request(IF settings.limit > taught THEN settings.limit - taught ELSE 0,
           Ready, {}) EXCEPT !.preferred = {}]

\* Today's remainder of the limit, of ready words, the reserve's first.
Composed(members) ==
  [Request(IF settings.limit > taught THEN settings.limit - taught ELSE 0,
           Ready, {}) EXCEPT !.preferred = members]

\* composeVocabularyStudy caps the new words beside the due ones, and
\* planVocabularyStudy caps again with the pure cues it adds.
Planned(offered, due, learning, cues) ==
  LET Place(counts) == [counts |-> counts, slots |-> Slots(counts)]
  IN  Place([Slots([ review |-> due, learning |-> learning,
                     unstudied |-> Cardinality(offered) ])
               EXCEPT !.review = @ + cues])

\* The plans for what may be due beside the words offered.
Plans(offered) ==
  {Planned(offered, load.due, learning, load.cues) :
     load \in Loads, learning \in 0..Cardinality(studied)}

\* startVocabularyStudy creates a session if there is anything in it, and
\* enrols the words of the decks it admits.
Starts(new) ==
  \E i \in DOMAIN sessions, p \in Plans(Range(new)) :
    LET admitted == Range(Take(new, p.slots.unstudied)) IN
    /\ sessions[i].status = "none"
    /\ \A j \in DOMAIN sessions : j < i => sessions[j].status # "none"
    /\ Sum(p.slots, Buckets) > 0
    /\ sessions' = [sessions EXCEPT ![i] =
                     [status |-> "open", new |-> admitted, mine |-> admitted]]
    /\ unstudied' = unstudied \cup admitted
    /\ request' = ~(admitted \subseteq unstudied)

\* previewVocabularyStudy, or a Start that finds nothing to study.
Previews == request' = FALSE /\ UNCHANGED <<sessions, unstudied>>

\* A visit reconciles the reserve and composes a session from it.
Visit ==
  /\ \E members \in Candidates :
       /\ reserve' = members /\ prep' = Enqueued(members)
       /\ \E r \in {Composed(members)} :
          \E plan \in {Plan(r, order) : order \in Shuffles} :
            /\ composed' = [ quota |-> r.quota, asked |-> plan.asked,
                             offered |-> Range(plan.new) ]
            /\ Previews \/ Starts(plan.new)
  /\ settled' = TRUE
  /\ UNCHANGED <<studied, stash, dismissed, tops, settings, taught, spent>>

\* A session closes having taught some of its new words.  A word changed since
\* Start keeps what it was changed to, but its teaching counts for the day.
Close(i, lessons) ==
  LET moved == lessons \cap sessions[i].mine IN
  /\ sessions[i].status = "open"
  /\ sessions' =
       [j \in DOMAIN sessions |->
          IF j = i THEN [status |-> "closed"]
          ELSE IF sessions[j].status = "open"
               THEN [sessions[j] EXCEPT !.mine = @ \ moved]
          ELSE sessions[j]]
  /\ studied' = studied \cup moved /\ unstudied' = unstudied \ moved
  /\ taught' = taught + Cardinality(lessons)
  /\ request' = TRUE /\ settled' = (settled /\ moved = {})
  /\ UNCHANGED <<stash, dismissed, tops, settings, prep, reserve, spent>>

NewDay ==
  /\ spent.days < MaxDays
  /\ taught' = 0 /\ spent' = [spent EXCEPT !.days = @ + 1]
  /\ UNCHANGED <<words, tops, settings, prep, reserve, request, sessions,
                 settled>>

-----------------------------------------------------------------------------
(* The learner.                                                            *)

Acts == /\ spent.acts < MaxActs /\ spent' = [spent EXCEPT !.acts = @ + 1]
        /\ request' = TRUE /\ settled' = FALSE
        /\ UNCHANGED <<prep, reserve, taught>>

\* A change of a word raises its version: an open session's outcome for it no
\* longer applies.
ChangeWord(w) ==
  /\ Acts
  /\ sessions' = [i \in DOMAIN sessions |->
                    IF sessions[i].status = "open"
                    THEN [sessions[i] EXCEPT !.mine = @ \ {w}]
                    ELSE sessions[i]]
  /\ UNCHANGED <<tops, settings>>

\* addVocabularyWord, setVocabularyStashMembership.
AddToStash(w) ==
  /\ w \notin stash
  /\ stash' = stash \cup {w} /\ dismissed' = dismissed \ {w}
  /\ unstudied' = IF w \in studied THEN unstudied ELSE unstudied \cup {w}
  /\ UNCHANGED studied /\ ChangeWord(w)

LeaveStash(w) ==
  /\ w \in stash /\ stash' = stash \ {w}
  /\ UNCHANGED <<unstudied, studied, dismissed>> /\ ChangeWord(w)

\* dismissVocabularyWord
Dismiss(w) ==
  /\ w \in unstudied \cup studied /\ w \notin dismissed
  /\ stash' = stash \ {w} /\ dismissed' = dismissed \cup {w}
  /\ unstudied' = unstudied \cup {w} /\ studied' = studied \ {w}
  /\ ChangeWord(w)

\* changeVocabularyMode, to a mode that is studied or back.
ChangeMode(w) ==
  /\ w \in unstudied \cup studied /\ dismissed' = dismissed \ {w}
  /\ \/ studied' = studied \cup {w} /\ unstudied' = unstudied \ {w}
     \/ studied' = studied \ {w} /\ unstudied' = unstudied \cup {w}
  /\ UNCHANGED stash /\ ChangeWord(w)

\* A priority row is written; its trigger asks for the reconciliation.
MoveToTop(w) ==
  /\ w \in unstudied /\ tops' = <<w>> \o Among(tops, Words \ {w}) /\ tops' # tops
  /\ Acts /\ UNCHANGED <<words, settings, sessions>>

\* Settings of the learner, whose triggers ask for it too.
Choose(chosen) ==
  /\ settings' = chosen /\ chosen # settings
  /\ Acts /\ UNCHANGED <<words, tops, sessions>>

ChangeSettings ==
  \/ \E limit \in Limits : Choose([settings EXCEPT !.limit = limit])
  \/ \E source \in {"mixed", "stash_only"} :
       Choose([settings EXCEPT !.source = source])
  \/ \E direction \in {"harder", "easier"} :
       Choose([settings EXCEPT !.weights = Nudged(@, direction)])
  \/ \E d \in 1..Decks : Choose([settings EXCEPT !.weights = OnlyDeck(d)])

Learner ==
  \/ \E w \in Words : \/ AddToStash(w) \/ LeaveStash(w) \/ Dismiss(w)
                      \/ ChangeMode(w) \/ MoveToTop(w)
  \/ ChangeSettings

-----------------------------------------------------------------------------
(* Shared preparation, which other learners ask for too.                   *)

Preparation(w, from, to) ==
  /\ prep[w] = from /\ prep' = [prep EXCEPT ![w] = to]
  /\ UNCHANGED <<words, tops, settings, reserve, request, taught, sessions>>

Apart == /\ spent.apart < MaxApart /\ spent' = [spent EXCEPT !.apart = @ + 1]
         /\ UNCHANGED settled

Prepared(w) ==
  Preparation(w, "queued", "ready") /\ UNCHANGED <<settled, spent>>
Fails(w) == Preparation(w, "queued", "paused") /\ Apart
\* retryWordPreparation, by an operator, lets a word that was passed over back.
RetryPreparation(w) ==
  /\ Preparation(w, "paused", "queued")
  /\ spent.acts < MaxActs /\ spent' = [spent EXCEPT !.acts = @ + 1]
  /\ settled' = FALSE
DemandElsewhere(w) == Preparation(w, "none", "queued") /\ Apart

-----------------------------------------------------------------------------
Init ==
  /\ unstudied = InitialStash /\ studied = {} /\ stash = InitialStash
  /\ dismissed = {} /\ tops = <<>>
  /\ settings = [limit |-> FirstLimit, source |-> "mixed",
                 weights |-> OnlyDeck(1)]
  /\ prep = [w \in Words |-> "none"] /\ reserve = {} /\ request = TRUE
  /\ taught = 0 /\ sessions = [i \in 1..MaxStarts |-> NoSession]
  /\ composed = Uncomposed
  /\ settled = FALSE /\ spent = [acts |-> 0, apart |-> 0, days |-> 0]

Next ==
  \/ Visit
  \/ /\ \/ Reconcile \/ NewDay \/ Learner
        \/ \E i \in Open : \E lessons \in SUBSET sessions[i].new :
             Close(i, lessons)
        \/ \E w \in Words : \/ Prepared(w) \/ Fails(w)
                            \/ RetryPreparation(w) \/ DemandElsewhere(w)
     /\ composed' = Uncomposed

Spec == Init /\ [][Next]_vars

-----------------------------------------------------------------------------
(* Properties.                                                             *)

\* Visits, sessions opened or abandoned, readiness and failures leave the
\* reserve as it is: only the learner's choices, words that entered learning
\* and an operator's retry change who is in it.  So repeated visits never grow
\* speculative work (preparation-reserve.ts:15).
ReserveIsStable == [][settled /\ settled' => reserve' = reserve]_vars

\* Words the decks and the stash could fill a quota with.
Fillable(quota) ==
  LET share == Least(Share(Request(quota, {}, {})), Cardinality(StashWords))
  IN  IF settings.source = "stash_only" THEN share
      ELSE share + Least(quota - share, Cardinality(DietWords))

\* Words of a deck of the diet that is harder than any today's quota is split
\* among: a small share of a small quota rounds to nothing.
RoundedAway(quota) ==
  LET target == Target(Request(quota, {}, {}))
  IN  {w \in DietWords : /\ settings.weights[DeckOf[w]] > 0
                         /\ \A d \in DeckOf[w]..Decks : target[d] = 0}

\* The reserve, planned for twice the limit by other draws, holds whatever a
\* session planned for today's remainder waits for, unless its preparation
\* failed: nothing else asks for these words to be prepared, and the learner is
\* told that they are.  There is one exception: where today's quota rounds to
\* the easier of the diet's two decks and that deck runs out, the session's
\* places spill to the harder deck without a bound, and the reserve's only up
\* to its target.  And a session that waits for nothing offers as many new
\* words as the quota and the learner's words allow.
ReserveServesTheDay ==
  composed # Uncomposed =>
    /\ composed.asked \ (Blocked \cup RoundedAway(composed.quota))
         \subseteq reserve
    /\ composed.asked = {} =>
         Cardinality(composed.offered) = Fillable(composed.quota)

\* Neither side of a quota takes the other's places: words of the stash that
\* are not ready leave theirs empty (unstudied-admission.ts:126).  A ready word
\* at the top is passed over only for others at the top.  And a session uses
\* every place it has, cutting no bucket below its weight.
SharesAreKept ==
  composed # Uncomposed =>
    LET o == composed
        r == Request(o.quota, {}, {})
        leading == Range(tops) \cap StashWords \cap Ready
    IN
    /\ o.offered \subseteq Ready
    /\ Cardinality(o.offered \cap StashWords) <= Share(r)
    /\ Cardinality(o.offered \cap DietWords)
         <= o.quota - Least(Share(r), Cardinality(StashWords))
    /\ \/ leading \subseteq o.offered
       \/ o.offered \cap StashWords \subseteq leading
    /\ \A p \in Plans(o.offered) :
         /\ Sum(p.slots, Buckets) = Least(MaxItems, Sum(p.counts, Buckets))
         /\ \A b \in Buckets :
              /\ p.slots[b] <= p.counts[b]
              /\ p.slots[b] < p.counts[b] =>
                   100 * (p.slots[b] + 1) > MaxItems * BucketWeight[b]
=============================================================================
