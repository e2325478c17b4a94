--------------------------- MODULE WordPreparation ---------------------------
(***************************************************************************)
(* A word of the learner's reserve is prepared for teaching: once its      *)
(* senses are known, its content is authored (the bootstrap) and then, in  *)
(* two parts that are kept, the lesson and the exercises of its teaching   *)
(* (word-content/preparation-worker.ts and shared-preparation.ts,          *)
(* db/preparation-work.ts and db/preparation-compatibility.ts).            *)
(*                                                                         *)
(* Every attempt is under two leases taken together, the row of work and   *)
(* the word's shared claim; the publication and the end of the work are    *)
(* two transactions, and the process may die between them.                 *)
(***************************************************************************)
EXTENDS HostedControls

CONSTANT MaxRevivals \* bound: explicit retries of paused work

ASSUME RevivalsAssumption == MaxRevivals \in Nat

VARIABLES
  candidate, \* the word is of a learner's reserve
  work,      \* a row of work for each stage, [status, due, late, tries]
  shared,    \* what is published of the word, [content, package, current],
             \* and the claim of a stage, [claim, late]
  kept,      \* the parts of the teaching saved for the published content
  inventory, \* the row of the word's senses; "empty" when it has none
  request,   \* a learner's reserve waits to be reconciled
  drafting,  \* what the worker awaits, and for which stage: [at, stage]
  rested,    \* the provider is left alone for a while (kept in memory)
  made,      \* calls since work was begun, revived or renewed, [content,
             \* lesson, exercises], and publications [contents, packages]
  revivals

wordprep ==
  <<candidate, work, shared, kept, inventory, request, drafting, rested, made,
    revivals>>

Stages == {"bootstrap", "teaching"}
Asleep == [at |-> "none", stage |-> "bootstrap"]
Unmade == [content |-> 0, lesson |-> 0, exercises |-> 0,
           contents |-> 0, packages |-> 0]

Paused(row) == [row EXCEPT !.status = "paused", !.late = FALSE]

\* getSharedWordIntroductionContent, isSharedWordPreparationReady.
Published(s) ==
  /\ shared.content = "shared"
  /\ s = "teaching" => shared.package = "shared"

Artifact(s) == IF s = "bootstrap" THEN shared.content ELSE shared.package

Claimed == shared.claim # "none" /\ ~shared.late

\* Publication of authored content asks for the switches, not for the worker:
\* one that was told to stop finishes what it awaits.
Permitted == process # "down" /\ ~controls.maintenance /\ controls.provider

-----------------------------------------------------------------------------
(* The reserve asks for the word.                                          *)

\* getBlockedPreparationWordIds: what failed or was withdrawn waits for an
\* operator.
Blocked ==
  \/ \E s \in Stages : work[s].status = "paused" \/ Artifact(s) = "withdrawn"

TeachingReady == shared.current /\ Published("teaching")

Demanded(rows) ==
  [s \in Stages |-> IF rows[s].status = "absent" THEN Requeued(rows[s])
                    ELSE rows[s]]

Unfinished == \E s \in Stages : work[s].status = "running"

\* Material of an earlier contract is prepared again, in a cycle of its own;
\* an attempt that was not finished keeps its budget.
Renewed(row) ==
  IF row.status = "ready" THEN [Requeued(row) EXCEPT !.tries = 0] ELSE row

\* What a call has cost, when the work it is for may begin again.
Carried(s, part) == IF work[s].status = "ready" THEN 0 ELSE made[part]

Renew ==
  /\ shared' = [ content |-> "none", package |-> "none", current |-> TRUE,
                 claim |-> "none", late |-> FALSE ]
  /\ work' = Demanded([s \in Stages |-> Renewed(work[s])])
  /\ kept' = {}
  /\ made' = [ content |-> Carried("bootstrap", "content"),
               lesson |-> Carried("teaching", "lesson"),
               exercises |-> Carried("teaching", "exercises"),
               contents |-> 0, packages |-> 0 ]

\* reconcileVocabularyPreparationReserve, of a word it has for a candidate.
Reconcile ==
  /\ process = "running" /\ candidate
  /\ \/ /\ inventory.status = "empty" \/ Blocked
        /\ request' = FALSE /\ UNCHANGED <<work, shared, kept, made>>
     \/ /\ inventory.status # "empty" /\ ~Blocked /\ ~shared.current
        /\ \/ /\ Claimed \/ Unfinished
              /\ request' = TRUE /\ UNCHANGED <<work, shared, kept, made>>
           \/ /\ ~Claimed /\ ~Unfinished
              /\ Renew /\ request' = FALSE
     \/ /\ inventory.status # "empty" /\ ~Blocked /\ shared.current
        /\ work' = IF TeachingReady THEN work ELSE Demanded(work)
        /\ request' = FALSE /\ UNCHANGED <<shared, kept, made>>
  /\ UNCHANGED <<inventory, drafting, rested, revivals>>

\* The runtime reconciles what is pending; a visit does so at any time.
ReserveWakes == Working /\ request /\ Reconcile

-----------------------------------------------------------------------------
(* The worker.                                                             *)

\* failed: the third attempt is the last.
DraftFailed(row) ==
  IF row.tries < PrepAttempts THEN Delayed(row) ELSE Paused(row)

\* Mutation of Interruption: what was published is forgotten.
InterruptionFailed(s) == DraftFailed(work[s])

\* A publication that the row of work did not hear of is recovered, on the
\* last attempt too.
Interruption(s) ==
  IF Published(s) THEN [work[s] EXCEPT !.status = "ready", !.late = FALSE]
  ELSE DraftFailed(work[s])

\* recoverExpiredWordPreparation.
Recover ==
  /\ Working /\ drafting.at = "none" /\ \E s \in Stages : Lost(work[s])
  /\ work' = [s \in Stages |-> IF Lost(work[s]) THEN Interruption(s)
                               ELSE work[s]]
  /\ UNCHANGED <<shared, kept, inventory, request, drafting, rested, made,
                 revivals>>

Enabled == Allowed /\ ~rested

\* listDueWordPreparation: a stage is taken that is due and whose source is
\* there.
Taken(s) ==
  /\ drafting.at = "none" /\ Enabled /\ Ripe(work[s])
  /\ s = "teaching" => shared.content # "none"

PausedAll ==
  [s \in Stages |-> IF work[s].status = "queued" THEN Paused(work[s])
                    ELSE work[s]]

\* Work ends that there is nothing to author for: the word has no senses, the
\* stage is published already, or what was published is withdrawn.
NothingToAuthor(s) ==
  /\ Taken(s)
  /\ \/ inventory.status = "empty" /\ work' = PausedAll
     \/ /\ inventory.status # "empty" /\ Published(s)
        /\ work' = [work EXCEPT ![s].status = "ready"]
     \/ /\ inventory.status # "empty" /\ ~Published(s)
        /\ shared.content = "withdrawn" \/ Artifact(s) = "withdrawn"
        /\ work' = [work EXCEPT ![s] = Paused(@)]
  /\ UNCHANGED <<shared, kept, inventory, request, drafting, rested, made,
                 revivals>>

\* ensureVocabularySenses: the senses are asked for, or waited for, or cannot
\* be had.  Waiting spends no attempt of the stage.
AskInventory ==
  /\ Taken("bootstrap") /\ shared.content = "none"
  /\ inventory.status \notin {"ready", "empty"}
  /\ LET row == Recovered(inventory)
     IN  \/ /\ row.status = "absent" \/ Ripe(row)
            /\ inventory' = Attempted(row)
            /\ drafting' = [at |-> "senses", stage |-> "bootstrap"]
            /\ UNCHANGED work
         \/ /\ row.status = "running" \/ (row.status = "queued" /\ ~row.due)
            /\ inventory' = row
            /\ work' = [work EXCEPT !["bootstrap"] = Delayed(@)]
            /\ UNCHANGED drafting
         \/ /\ row.status = "failed"
            /\ inventory' = row
            /\ work' = [work EXCEPT !["bootstrap"] = Paused(@)]
            /\ UNCHANGED drafting
  /\ UNCHANGED <<shared, kept, request, rested, made, revivals>>

\* What a claimed stage starts with: the first part it does not have.
FirstCall(s) ==
  IF s = "bootstrap" THEN "content"
  ELSE IF "lesson" \notin kept THEN "lesson"
  ELSE IF "exercises" \notin kept THEN "exercises" ELSE "finish"

Asking(part) == IF part = "finish" THEN made ELSE [made EXCEPT ![part] = @ + 1]

\* claimSharedWordIntroductionStage, beginWordPreparationAttempt, and the
\* provider is called.
Begin(s) ==
  /\ ~Claimed /\ Artifact(s) = "none"
  /\ shared' = [shared EXCEPT !.claim = s, !.late = FALSE]
  /\ work' = [work EXCEPT ![s] = Attempted(@)]
  /\ drafting' = [at |-> FirstCall(s), stage |-> s]
  /\ made' = Asking(FirstCall(s))

Authored(s) ==
  /\ Taken(s) /\ inventory.status # "empty"
  /\ s = "bootstrap" => inventory.status = "ready"
  /\ s = "teaching" => shared.content = "shared"

ClaimStage(s) ==
  /\ Authored(s) /\ Begin(s)
  /\ UNCHANGED <<kept, inventory, request, rested, revivals>>

\* The senses are established and, if the worker may still go on, the content
\* is asked for at once; none of them may be worth teaching.
InventoryEstablished ==
  /\ drafting.at = "senses" /\ Permitted /\ Held(inventory)
  /\ \/ /\ inventory' = [inventory EXCEPT !.status = "empty"]
        /\ work' = PausedAll
        /\ drafting' = Asleep /\ UNCHANGED <<shared, made>>
     \/ /\ inventory' = [inventory EXCEPT !.status = "ready"]
        /\ \/ /\ work' = [work EXCEPT !["bootstrap"] = Paused(@)]
              /\ drafting' = Asleep /\ UNCHANGED <<shared, made>>
           \/ Enabled /\ Begin("bootstrap")
           \/ /\ ~Enabled \/ Claimed
              /\ drafting' = Asleep /\ UNCHANGED <<work, shared, made>>
  /\ UNCHANGED <<kept, request, rested, revivals>>

\* They do not arrive, or may not be published, which the work waits out.
InventoryFails ==
  /\ drafting.at = "senses"
  /\ inventory' = PrepFailed(inventory, TRUE)
  /\ \/ /\ inventory'.status = "failed"
        /\ work' = [work EXCEPT !["bootstrap"] = Paused(@)]
     \/ /\ inventory'.status # "failed" \/ ~Permitted
        /\ work' = [work EXCEPT !["bootstrap"] = Delayed(@)]
  /\ drafting' = Asleep
  /\ UNCHANGED <<shared, kept, request, rested, made, revivals>>

\* requireLiveClaim, requireComponentClaim: the claim decides, not the row of
\* work; and the content that is taught is still shared.
ClaimHolds ==
  /\ Permitted /\ Claimed
  /\ drafting.stage = "teaching" => shared.content = "shared"

\* saveSharedWordIntroductionComponent: the lesson is kept before its
\* exercises are asked for, and both before they are published.
Keep ==
  /\ drafting.at \in {"lesson", "exercises"} /\ ClaimHolds
  /\ kept' = kept \cup {drafting.at}
  /\ LET next == IF drafting.at = "lesson" /\ "exercises" \notin kept
                 THEN "exercises" ELSE "finish"
     IN  drafting' = [drafting EXCEPT !.at = next] /\ made' = Asking(next)
  /\ UNCHANGED <<work, shared, inventory, request, rested, revivals>>

\* finishSharedWordIntroductionBootstrap, finishSharedWordIntroductionTeaching.
Publication ==
  /\ drafting.at \in {"content", "finish"} /\ ClaimHolds
  /\ shared' = IF drafting.stage = "bootstrap"
               THEN [shared EXCEPT !.content = "shared", !.current = TRUE,
                                   !.claim = "none"]
               ELSE [shared EXCEPT !.package = "shared", !.claim = "none"]
  /\ made' = IF drafting.stage = "bootstrap"
             THEN [made EXCEPT !.contents = @ + 1]
             ELSE [made EXCEPT !.packages = @ + 1]

\* ... and the end of the work.
PublishStage ==
  /\ Publication
  /\ work' = [work EXCEPT ![drafting.stage].status = "ready"]
  /\ drafting' = Asleep
  /\ UNCHANGED <<kept, inventory, request, rested, revivals>>

\* The provider fails, perhaps for every word; or what it answered may not be
\* kept or published.
DraftFails ==
  /\ drafting.at \in {"content", "lesson", "exercises", "finish"}
  /\ work' = [work EXCEPT ![drafting.stage] = DraftFailed(@)]
  /\ shared' = [shared EXCEPT !.claim = "none", !.late = FALSE]
  /\ rested' = rested \/ (rested' = TRUE /\ drafting.at # "finish")
  /\ drafting' = Asleep
  /\ UNCHANGED <<kept, inventory, request, made, revivals>>

-----------------------------------------------------------------------------
(* The operator, the clock and the process.                                *)

\* retryPreparationWithReadiness.
Revive(s) ==
  /\ revivals < MaxRevivals /\ revivals' = revivals + 1
  /\ work[s].status = "paused"
  /\ work' = [work EXCEPT ![s] = [Requeued(@) EXCEPT !.tries = 0]]
  /\ inventory' = IF s = "bootstrap" /\ inventory.status = "failed"
                  THEN [Requeued(inventory) EXCEPT !.tries = 0]
                  ELSE inventory
  /\ made' = IF s = "bootstrap" THEN [made EXCEPT !.content = 0]
             ELSE [made EXCEPT !.lesson = 0, !.exercises = 0]
  /\ UNCHANGED <<shared, kept, request, drafting, rested>>

\* What is published is withdrawn from sharing.
Withdraw ==
  /\ revivals < MaxRevivals /\ revivals' = revivals + 1
  /\ \/ shared.content = "shared" /\ shared' = [shared EXCEPT !.content = "withdrawn"]
     \/ shared.package = "shared" /\ shared' = [shared EXCEPT !.package = "withdrawn"]
  /\ UNCHANGED <<work, kept, inventory, request, drafting, rested, made>>

\* The row and the claim of an attempt run out together.
StageTime(s) ==
  /\ Timed(work[s]) /\ work' = [work EXCEPT ![s] = Later(@)]
  /\ shared' = [shared EXCEPT !.late = @ \/ (shared.claim = s /\ Held(work[s]))]
  /\ UNCHANGED <<kept, inventory, request, drafting, rested, made, revivals>>

ClaimTime ==
  /\ Claimed /\ ~Held(work[shared.claim])
  /\ shared' = [shared EXCEPT !.late = TRUE]
  /\ UNCHANGED <<work, kept, inventory, request, drafting, rested, made,
                 revivals>>

InventoryTime ==
  /\ Timed(inventory) /\ inventory' = Later(inventory)
  /\ UNCHANGED <<work, shared, kept, request, drafting, rested, made, revivals>>

Rest ==
  /\ rested /\ rested' = FALSE
  /\ UNCHANGED <<work, shared, kept, inventory, request, drafting, made,
                 revivals>>

\* A process that ends.
DraftLost ==
  /\ drafting' = Asleep /\ rested' = FALSE
  /\ UNCHANGED <<work, shared, kept, inventory, request, made, revivals>>

\* One that dies between the publication and the end of its work, or between
\* the claim and the attempt.
DraftCut ==
  /\ drafting' = Asleep /\ rested' = FALSE
  /\ \/ \E s \in Stages :
           /\ Authored(s) /\ ~Claimed /\ Artifact(s) = "none"
           /\ shared' = [shared EXCEPT !.claim = s, !.late = FALSE]
           /\ UNCHANGED made
     \/ Publication
  /\ UNCHANGED <<work, kept, inventory, request, revivals>>

-----------------------------------------------------------------------------

\* A row that was tried n times.
Tried(status, n) == [NoRow EXCEPT !.status = status, !.due = TRUE, !.tries = n]

Known == Tried("ready", 1)

\* A word nobody prepared; or one prepared, or being prepared, when the
\* contract changed (0057_preparation_compatibility).
WordInit ==
  /\ drafting = Asleep /\ rested = FALSE /\ revivals = 0
  /\ \/ /\ work = [s \in Stages |-> NoRow] /\ kept = {}
        /\ shared = [ content |-> "none", package |-> "none", current |-> FALSE,
                      claim |-> "none", late |-> FALSE ]
        /\ inventory = NoRow /\ made = Unmade
     \/ /\ candidate
        /\ \E status \in {"ready", "queued", "running", "paused"} :
             /\ work = [bootstrap |-> Known,
                        teaching |-> IF status = "paused"
                                     THEN Tried(status, PrepAttempts)
                                     ELSE Tried(status, 1)]
             /\ shared = [ content |-> "shared",
                           package |-> IF status = "ready" THEN "shared" ELSE "none",
                           current |-> FALSE, late |-> FALSE,
                           claim |-> IF status = "running" THEN "teaching"
                                     ELSE "none" ]
        /\ kept = {"lesson"}
        /\ inventory = Known
        /\ made = [Unmade EXCEPT !.lesson = 1,
                                 !.exercises = work["teaching"].tries]
  /\ request = candidate

\* What the worker does of its own, and what its awaits come back with.
Drafts ==
  \/ AskInventory \/ \E s \in Stages : NothingToAuthor(s) \/ ClaimStage(s)
DraftReturns ==
  \/ InventoryEstablished \/ InventoryFails
  \/ Keep \/ PublishStage \/ DraftFails

WordStep ==
  \/ Reconcile \/ Recover \/ Drafts \/ DraftReturns
  \/ (\E s \in Stages : Revive(s) \/ StageTime(s))
  \/ Withdraw \/ ClaimTime \/ InventoryTime \/ Rest
=============================================================================
