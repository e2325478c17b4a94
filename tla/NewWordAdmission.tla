-------------------------- MODULE NewWordAdmission --------------------------
(***************************************************************************)
(* Which new words a session may take, and how many of each kind of word   *)
(* it holds: the plan of composition.ts and unstudied-admission.ts, the    *)
(* places of session-limits.ts, and the weights of diet-profile.ts.        *)
(*                                                                         *)
(* A plan is asked of a request:                                           *)
(*   stash, diet   the unstudied words of the learner's stash, and those   *)
(*                 that may come from the decks                            *)
(*   tops          the words moved to the top, newest first                *)
(*   source        "mixed" or "stash_only"                                 *)
(*   weights       the deck weights of the learner's diet                  *)
(*   quota         how many words are wanted                               *)
(*   preferred     members of the reserve                                  *)
(*   ready         words with complete teaching material                   *)
(* A seeded shuffle is an order of all words; what a list is shuffled into *)
(* is the order's restriction to it.                                       *)
(***************************************************************************)
EXTENDS Integers, Sequences, FiniteSets, FiniteSetsExt, SequencesExt

CONSTANTS
  Words,
  Decks,        \* the decks are 1..Decks in manifest order, the last the tail
  DeckOf,       \* [Words -> 1..Decks]; a word without assignment is the tail's
  Corpus,       \* all words in the order of their corpus priority
  ShareParts, ShareOf,  \* the stash's share of a quota, as a fraction
  Quanta,       \* a whole diet in quanta of a nudge
  MaxItems      \* places of a session

ASSUME AdmissionAssumption ==
  /\ Decks \in Nat \ {0} /\ DeckOf \in [Words -> 1..Decks]
  /\ IsFiniteSet(Words) /\ Corpus \in Seq(Words)
  /\ Range(Corpus) = Words /\ Len(Corpus) = Cardinality(Words)
  /\ ShareOf \in Nat \ {0} /\ ShareParts \in 0..ShareOf
  /\ Quanta \in Nat \ {0} /\ MaxItems \in Nat \ {0}

Least(a, b) == IF a < b THEN a ELSE b
Sum(f, S) == MapThenSumSet(LAMBDA x : f[x], S)
Take(s, n) == SubSeq(s, 1, Least(n, Len(s)))
\* What is left of s when it is filtered to the members of S.
Among(s, S) ==
  LET upTo[i \in 0..Len(s)] ==
        IF i = 0 THEN <<>>
        ELSE IF s[i] \in S THEN Append(upTo[i - 1], s[i]) ELSE upTo[i - 1]
  IN  upTo[Len(s)]
\* The members of S as `order` has them, the preferred ones first.
PreferredFirst(order, S, preferred) ==
  Among(order, S \cap preferred) \o Among(order, S \ preferred)

\* n places shared among S by weight, of the given total: each gets the whole
\* part of its share, and the largest remainders what is left, ties by place.
Shares(n, weight, total, S, place) ==
  LET exact == [x \in S |-> n * weight[x]]
      Ahead(y, x) ==
        \/ exact[y] % total > exact[x] % total
        \/ exact[y] % total = exact[x] % total /\ place[y] < place[x]
      whole == [x \in S |-> exact[x] \div total]
      spare == n - Sum(whole, S)
  IN  [x \in S |-> whole[x]
                     + IF Cardinality({y \in S : Ahead(y, x)}) < spare
                       THEN 1 ELSE 0]

-----------------------------------------------------------------------------
(* The stash.                                                              *)

Share(r) == IF r.source = "stash_only" THEN r.quota
            ELSE (r.quota * ShareParts) \div ShareOf

\* Words moved to the top come first, the newest of them leading.
StashOrder(r, order) ==
  Among(r.tops, r.stash)
    \o PreferredFirst(order, r.stash \ Range(r.tops), r.preferred)

StashPlanned(r, order) == Take(StashOrder(r, order), Share(r))
StashDrawn(r, order) == Take(Among(StashOrder(r, order), r.ready), Share(r))

\* Mutation of DietDemand: what the stash cannot fill yet is the decks'.
DietDemandOfReady(r) ==
  IF r.source = "stash_only" THEN 0
  ELSE r.quota - Least(Share(r), Cardinality(r.stash \cap r.ready))

\* Places of the stash whose words are only waiting stay the stash's.
DietDemand(r) ==
  IF r.source = "stash_only" THEN 0
  ELSE r.quota - Least(Share(r), Cardinality(r.stash))

-----------------------------------------------------------------------------
(* The decks.                                                              *)

\* Ties go to the earlier deck.
Target(r) ==
  Shares(DietDemand(r), r.weights, Sum(r.weights, 1..Decks), 1..Decks,
         [d \in 1..Decks |-> d])

Pool(r, d) == IF d = Decks THEN {} ELSE {w \in r.diet : DeckOf[w] = d}

\* Places the decks up to d are given: a deck up to its target and its words;
\* the successors of the last targeted deck, in turn, whatever is left.
Given(r, target) ==
  LET last == Max({0} \cup {d \in 1..Decks : target[d] > 0})
      upTo[d \in 0..Decks] ==
        IF d = 0 THEN 0
        ELSE LET before == upTo[d - 1]
                 wanted == IF d <= last THEN target[d]
                           ELSE DietDemand(r) - before
             IN  before + Least(wanted, Cardinality(Pool(r, d)))
  IN  upTo

\* selectDeckDietWordIds: the ready words drawn, in order, and the set of words
\* the places were planned for.
FromDecks(r, order, given) ==
  LET deck(d) == PreferredFirst(order, Pool(r, d), r.preferred)
      places(d) == given[d] - given[d - 1]
      drawn(d) == Take(Among(deck(d), r.ready), places(d))
  IN  [ drawn |-> FlattenSeq([d \in 1..Decks |-> drawn(d)]),
        planned |-> UNION {Range(drawn(d)) \cup Range(Take(deck(d), places(d))) :
                             d \in 1..Decks} ]

\* The fallback behind it: places the decks could not fill.
FromCorpus(r, gap, decks) ==
  LET rest == PreferredFirst(Corpus, r.diet \ decks.planned, r.preferred)
  IN  [ drawn |-> decks.drawn \o Take(Among(rest, r.ready), gap),
        planned |-> decks.planned \cup Range(Take(rest, gap)) ]

DietPlan(r, order) ==
  LET Spread(given) == FromCorpus(r, DietDemand(r) - given[Decks],
                                  FromDecks(r, order, given))
  IN  Spread(Given(r, Target(r)))

-----------------------------------------------------------------------------
(* planVocabularyNewWords: the words admitted, and those it asks to have   *)
(* prepared.                                                               *)

Beside(r, order, diet) ==
  [ new |-> StashDrawn(r, order) \o diet.drawn,
    asked |-> (Range(StashPlanned(r, order)) \cup diet.planned) \ r.ready ]

Plan(r, order) ==
  Beside(r, order, IF DietDemand(r) > 0 THEN DietPlan(r, order)
                   ELSE [drawn |-> <<>>, planned |-> {}])

-----------------------------------------------------------------------------
(* allocateSessionBucketSlots.                                             *)

Buckets == {"review", "learning", "unstudied"}
BucketWeight == [review |-> 50, learning |-> 30, unstudied |-> 20]
BucketPlace  == [review |-> 1, learning |-> 2, unstudied |-> 3]

\* Buckets smaller than their share are taken whole, and leave the rest to the
\* others.
TakeWhole(counts, s) ==
  LET Without(small) == [ open |-> s.open \ small,
                          left |-> s.left - Sum(counts, small) ]
      total == Sum(BucketWeight, s.open)
  IN  Without({b \in s.open : counts[b] * total <= s.left * BucketWeight[b]})

Cut(counts, s) ==
  LET cut == Shares(s.left, BucketWeight, Sum(BucketWeight, s.open), s.open,
                    BucketPlace)
  IN  [b \in Buckets |-> IF b \in s.open THEN cut[b] ELSE counts[b]]

\* Of three buckets that do not fit, at most two are taken whole.
Slots(counts) ==
  IF Sum(counts, Buckets) <= MaxItems THEN counts
  ELSE Cut(counts,
           TakeWhole(counts,
             TakeWhole(counts, [ open |-> {b \in Buckets : counts[b] > 0},
                                 left |-> MaxItems ])))

-----------------------------------------------------------------------------
(* applyDietNudge: a quantum, or what is left of it, moves from the edge   *)
(* of the diet to the next deck; past the ends nothing moves.              *)

Nudged(weights, direction) ==
  LET weighted == {d \in 1..Decks : weights[d] > 0}
      from == IF direction = "harder" THEN Min(weighted) ELSE Max(weighted)
      to   == IF direction = "harder" THEN from + 1 ELSE from - 1
  IN  IF to \notin 1..Decks THEN weights
      ELSE [weights EXCEPT ![from] = @ - 1, ![to] = @ + 1]

OnlyDeck(d) == [e \in 1..Decks |-> IF e = d THEN Quanta ELSE 0]
=============================================================================
