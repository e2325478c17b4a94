------------------------- MODULE PracticePreparation -------------------------
(***************************************************************************)
(* The practice of one word: its exercises are authored by a provider and  *)
(* published under a lease, once the senses worth practising are selected, *)
(* perhaps by another provider (preparation.ts, preparation-worker.ts and  *)
(* default-useful-selection.ts).                                           *)
(*                                                                         *)
(* The worker makes one step at a time, of one piece of work.              *)
(***************************************************************************)
EXTENDS HostedControls

CONSTANT MaxAsks \* bound: explicit retries of the work

ASSUME PracticeAssumption == MaxAsks \in Nat

VARIABLES
  demand,    \* the word is asked for
  practice,  \* the row of work, [status, due, late, tries]
  selection, \* the row of the selection of senses, alike
  step,      \* what the worker awaits: "none", "selecting" or "authoring"
  backoff,   \* the provider is left alone for a while (kept in memory)
  authored,  \* [calls since an explicit retry, published in all]
  asks

prep == <<demand, practice, selection, step, backoff, authored, asks>>

Settled == selection.status = "ready"

\* recoverExpired and ensure, at the head of every step; the word's content may
\* have no use that exercises can be made of.
Prepared(row) ==
  IF Lost(row) THEN {PrepFailed(row, TRUE)}
  ELSE IF row.status = "absent" /\ demand
       THEN {Requeued(row), Failed(row)} ELSE {row}

\* listQueued, process: the work that is due is taken, if it may be.
CanDispatch == Allowed /\ ~backoff

PracticePass ==
  /\ Working /\ step = "none"
  /\ practice' \in Prepared(practice)
  /\ ~(CanDispatch /\ Ripe(practice'))
  /\ UNCHANGED <<demand, selection, step, backoff, authored, asks>>

\* preflight: the selection is asked for, or waited for, or cannot be had.
AskSelection ==
  /\ Working /\ step = "none" /\ CanDispatch /\ ~Settled
  /\ \E row \in Prepared(practice) :
       LET s == Recovered(selection)
       IN  /\ Ripe(row)
           /\ \/ /\ s.status = "absent" \/ Ripe(s)
                 /\ selection' = Attempted(s) /\ practice' = row
                 /\ step' = "selecting"
              \/ /\ s.status = "running" \/ (s.status = "queued" /\ ~s.due)
                 /\ selection' = s /\ practice' = Delayed(row)
                 /\ UNCHANGED step
              \/ /\ s.status = "failed"
                 /\ selection' = s /\ practice' = Failed(row)
                 /\ UNCHANGED step
  /\ UNCHANGED <<demand, backoff, authored, asks>>

\* Senses are selected, while the attempt is in time and may publish; those of
\* the word's content may not be among them: there is nothing to author.
Selected ==
  /\ step = "selecting" /\ Allowed /\ Held(selection)
  /\ selection' = [selection EXCEPT !.status = "ready"]
  /\ step' = "none"
  /\ practice' \in {practice, [practice EXCEPT !.status = "ready"]}
  /\ UNCHANGED <<demand, backoff, authored, asks>>

\* No sense is worth practising: an operator has to select, or ask again.
NothingSelected ==
  /\ step = "selecting" /\ Allowed /\ Held(selection)
  /\ selection' = Failed(selection)
  /\ practice' = Failed(practice)
  /\ step' = "none"
  /\ UNCHANGED <<demand, backoff, authored, asks>>

SelectionFails ==
  /\ step = "selecting"
  /\ selection' = PrepFailed(selection, TRUE)
  /\ step' = "none"
  /\ practice' = IF selection'.status = "failed" THEN Failed(practice)
                 ELSE Delayed(practice)
  /\ UNCHANGED <<demand, backoff, authored, asks>>

\* claim, and the provider is called.
Author ==
  /\ Working /\ step = "none" /\ CanDispatch /\ Settled
  /\ \E row \in Prepared(practice) :
       Ripe(row) /\ practice' = Attempted(row)
  /\ authored' = [authored EXCEPT !.calls = @ + 1]
  /\ step' = "authoring"
  /\ UNCHANGED <<demand, selection, backoff, asks>>

\* run: exercises and the end of the work are one transaction.
Publishable == Allowed /\ Held(practice)

Publish ==
  /\ step = "authoring" /\ Publishable
  /\ practice' = [practice EXCEPT !.status = "ready"]
  /\ authored' = [authored EXCEPT !.published = @ + 1]
  /\ step' = "none"
  /\ UNCHANGED <<demand, selection, backoff, asks>>

\* The provider fails, perhaps for every work it has; or there are no
\* exercises, or they may not be published, which is final.
AuthoringFails ==
  /\ step = "authoring"
  /\ \/ practice' = PrepFailed(practice, TRUE) /\ backoff' \in {backoff, TRUE}
     \/ practice' = PrepFailed(practice, FALSE) /\ UNCHANGED backoff
  /\ step' = "none"
  /\ UNCHANGED <<demand, selection, authored, asks>>

\* retry, and with it the selection it failed for.
RetryPractice ==
  /\ asks < MaxAsks /\ asks' = asks + 1
  /\ practice.status = "failed"
  /\ practice' = [Requeued(practice) EXCEPT !.tries = 0]
  /\ selection' = IF selection.status # "failed" THEN selection
                  ELSE [Requeued(selection) EXCEPT !.tries = 0]
  /\ authored' = [authored EXCEPT !.calls = 0]
  /\ UNCHANGED <<demand, step, backoff>>

PracticeTime ==
  /\ \/ /\ Timed(practice) /\ practice' = Later(practice)
        /\ UNCHANGED <<selection, backoff>>
     \/ /\ backoff /\ backoff' = FALSE /\ UNCHANGED <<practice, selection>>
  /\ UNCHANGED <<demand, step, authored, asks>>

SelectionTime ==
  /\ Timed(selection) /\ selection' = Later(selection)
  /\ UNCHANGED <<demand, practice, step, backoff, authored, asks>>

\* A process that ends.
StepLost ==
  /\ step' = "none" /\ backoff' = FALSE
  /\ UNCHANGED <<demand, practice, selection, authored, asks>>

PracticeInit ==
  /\ practice = NoRow /\ selection = NoRow
  /\ step = "none" /\ backoff = FALSE
  /\ authored = [calls |-> 0, published |-> 0]
  /\ asks = 0

\* What the worker does of its own, and what its awaits come back with.
Dispatches == PracticePass \/ AskSelection \/ Author
Returns ==
  \/ Selected \/ NothingSelected \/ SelectionFails
  \/ Publish \/ AuthoringFails

PracticeStep ==
  \/ Dispatches \/ Returns
  \/ PracticeTime \/ SelectionTime \/ RetryPractice
=============================================================================
