----------------------------- MODULE LeasedRows -----------------------------
(***************************************************************************)
(* Durable rows of work that are run under a lease.  A row is a record     *)
(* with at least [status, due, late]; there is no clock: a delay ends, and *)
(* a lease runs out, at any time after it began (due, late).  Rows that    *)
(* prepare words (preparation-retry.ts) also count their tries.            *)
(***************************************************************************)
EXTENDS Naturals

CONSTANT PrepAttempts \* attempts at a preparation until it fails: 3

\* A first failure is never the last: work may be found queued after an attempt.
ASSUME AttemptsAssumption == PrepAttempts \in Nat \ {0, 1}

Open(row) == row.status \in {"queued", "running"}
Ripe(row) == row.status = "queued" /\ row.due
Lost(row) == row.status = "running" /\ row.late
Held(row) == row.status = "running" /\ ~row.late

Delayed(row)  == [row EXCEPT !.status = "queued", !.due = FALSE, !.late = FALSE]
Requeued(row) == [row EXCEPT !.status = "queued", !.due = TRUE, !.late = FALSE]
Failed(row)   == [row EXCEPT !.status = "failed", !.late = FALSE]

\* The clock has something to say of the row, and what.
Timed(row) == Held(row) \/ (row.status = "queued" /\ ~row.due)
Later(row) == IF Held(row) THEN [row EXCEPT !.late = TRUE]
              ELSE [row EXCEPT !.due = TRUE]

\* An attempt is claimed.
Attempted(row) == [row EXCEPT !.status = "running", !.tries = @ + 1]

\* failPreparationAttempt: an attempt that was interrupted may be made again
\* even where its failure would be final.
PrepFailed(row, retryable) ==
  IF (row.late \/ retryable) /\ row.tries < PrepAttempts THEN Delayed(row)
  ELSE Failed(row)

\* A claim recovers the attempt another left behind.
Recovered(row) == IF Lost(row) THEN PrepFailed(row, TRUE) ELSE row

NoRow == [status |-> "absent", due |-> FALSE, late |-> FALSE, tries |-> 0]
=============================================================================
