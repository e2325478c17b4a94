------------------------- MODULE ProviderWorkProofs -------------------------
(***************************************************************************)
(* What holds of the work that calls providers for every number of jobs,   *)
(* every budget and however often the process dies and the switches are    *)
(* thrown: what it costs is bounded, an answer that was kept is not asked  *)
(* for again, and maintenance freezes it.                                  *)
(*                                                                         *)
(* The three workers share the process and nothing else, so the inductive  *)
(* invariant is the conjunction of one for each, preserved by the steps of *)
(* its own worker.  That of the reflection jobs speaks of one job at a     *)
(* time: its row, its senses, its calls and what its flight awaits; the    *)
(* useful senses matter to the rest only by how often a job was resumed    *)
(* for them, and have an invariant of their own.                           *)
(***************************************************************************)
EXTENDS ProviderWork, TLAPS

-----------------------------------------------------------------------------
(* Rows under a lease.                                                     *)

PrepStatus == {"absent", "queued", "running", "ready", "failed", "paused",
               "empty"}

PrepRow == [ status : PrepStatus, due : BOOLEAN, late : BOOLEAN,
             tries : 0 .. PrepAttempts ]

\* A row that may be tried has a try left.
PrepOK(row) ==
  /\ row \in PrepRow
  /\ row.status = "absent" => row.tries = 0
  /\ row.status = "queued" => row.tries < PrepAttempts

\* The clock changes no status and no count.
LEMMA LaterRow ==
  ASSUME NEW row \in PrepRow
  PROVE  /\ Later(row) \in PrepRow /\ Later(row).status = row.status
         /\ Later(row).tries = row.tries
BY DEF Later, PrepRow

\* An attempt that failed is made again while a try is left.
LEMMA PrepFailedRow ==
  ASSUME NEW row, PrepOK(row), NEW retryable \in BOOLEAN
  PROVE  /\ PrepOK(PrepFailed(row, retryable))
         /\ PrepFailed(row, retryable).status \in {"queued", "failed"}
         /\ PrepFailed(row, retryable).tries = row.tries
<1>1. CASE row.tries < PrepAttempts
  <2>1. PrepFailed(row, retryable) \in {Delayed(row), Failed(row)}
    BY DEF PrepFailed
  <2> QED BY <1>1, <2>1 DEF PrepOK, PrepRow, PrepStatus, Delayed, Failed
<1>2. CASE ~(row.tries < PrepAttempts)
  <2>1. PrepFailed(row, retryable) = Failed(row)
    BY <1>2 DEF PrepFailed
  <2> QED BY <2>1 DEF PrepOK, PrepRow, PrepStatus, Failed
<1> QED BY <1>1, <1>2

\* A row whose attempt was lost is recovered as one that failed.
LEMMA RecoveredRow ==
  ASSUME NEW row, PrepOK(row)
  PROVE  /\ PrepOK(Recovered(row)) /\ Recovered(row).tries = row.tries
         /\ Recovered(row) = row
            \/ (row.status = "running"
                /\ Recovered(row).status \in {"queued", "failed"})
BY PrepFailedRow DEF Recovered, Lost

\* An attempt takes a try that is left.
LEMMA AttemptedRow ==
  ASSUME NEW row, PrepOK(row), row.status \in {"absent", "queued"}
  PROVE  /\ PrepOK(Attempted(row)) /\ Attempted(row).status = "running"
         /\ Attempted(row).tries = row.tries + 1
<1>1. PrepAttempts \in Nat /\ PrepAttempts > 1
  BY AttemptsAssumption
<1>2. row.tries \in Nat /\ row.tries + 1 \in 0 .. PrepAttempts
  BY <1>1 DEF PrepOK, PrepRow
<1>3. Attempted(row).status = "running" /\ Attempted(row).tries = row.tries + 1
  BY DEF Attempted, PrepOK, PrepRow
<1>4. Attempted(row) \in PrepRow
  BY <1>2 DEF Attempted, PrepOK, PrepRow, PrepStatus
<1> QED BY <1>3, <1>4 DEF PrepOK

\* Work asked for by hand has all its tries again.
LEMMA RequeuedRow ==
  ASSUME NEW row, PrepOK(row)
  PROVE  /\ PrepOK([Requeued(row) EXCEPT !.tries = 0])
         /\ [Requeued(row) EXCEPT !.tries = 0].status = "queued"
         /\ [Requeued(row) EXCEPT !.tries = 0].tries = 0
<1>1. PrepAttempts \in Nat /\ PrepAttempts > 1
  BY AttemptsAssumption
<1>2. /\ Requeued(row) \in PrepRow /\ Requeued(row).status = "queued"
      /\ Requeued(row).tries = row.tries
  BY DEF Requeued, PrepOK, PrepRow, PrepStatus
<1>3. /\ [Requeued(row) EXCEPT !.tries = 0].status = "queued"
      /\ [Requeued(row) EXCEPT !.tries = 0].tries = 0
  BY <1>2 DEF PrepRow
<1>4. [Requeued(row) EXCEPT !.tries = 0] \in PrepRow
  BY <1>1, <1>2 DEF PrepRow
<1> QED BY <1>1, <1>3, <1>4 DEF PrepOK

-----------------------------------------------------------------------------
(* The reflection jobs.                                                    *)

JobStatus == {"absent", "queued", "running", "succeeded", "failed"}

JobRow == [ status : JobStatus, due : BOOLEAN, late : BOOLEAN,
            failures : 0 .. MappingBudget,
            mapped : {"none", "primary", "fallback", "chosen", "unchosen"} ]

CallRow == [mapping : Nat, content : Nat, judged : Nat, resumed : Nat]

\* What the flight of job j awaits, if there is one.
Await(j) ==
  IF Flying(KindOf(j)) /\ flight[KindOf(j)].job = j
  THEN flight[KindOf(j)].at ELSE "none"

\* A job with its senses s and calls c, whose flight awaits `at`.  A mapping
\* that is kept is of the route its job is on, and no failure changes that
\* route any more.  What an improvement asked of a provider was asked with its
\* senses ready, so only an operator, or a resume for its useful senses, lets it
\* ask again: of the judgments asked for all but the one awaited, or lost, and
\* of the mappings all but that one, were paid for by a resume or counted among
\* the failures.
Sound(j, row, s, c, at) ==
  /\ row \in JobRow /\ PrepOK(s) /\ c \in CallRow
  /\ Open(row) \/ row.status = "absent" => row.failures < MappingBudget
  /\ row.mapped # "none" => row.failures < MappingBudget
  /\ row.mapped # "none" /\ j \notin Bootstraps => row.mapped = Route(row)
  /\ c.judged = IF row.status = "succeeded" THEN 1 ELSE 0
  /\ c.content <= c.resumed + 1 /\ c.mapping <= MappingBudget + c.resumed
  /\ row.status = "absent" => c.mapping = 0 /\ c.content = 0
  /\ c.mapping > 0 => j \in Improvements /\ s.status = "ready"
  /\ c.content > 0 /\ j \in Improvements => s.status = "ready"
  /\ row.status = "queued" => c.content <= c.resumed
  /\ row.status = "running" /\ at \in {"claimed", "sense", "useful", "mapping"} =>
       c.content <= c.resumed
  /\ /\ \/ row.status = "queued"
        \/ row.status = "running" /\ at \in {"claimed", "sense", "useful"}
     /\ row.mapped = "none"
     => c.mapping <= row.failures + c.resumed
  /\ row.status = "running" /\ row.mapped = "none" =>
       c.mapping <= row.failures + c.resumed + 1
  /\ row.status = "running" /\ at = "mapping" => row.mapped = "none"

Places == {"claimed", "sense", "useful", "mapping", "content"}

FlightOK(k, f) ==
  f = Idle \/ /\ f \in [ job : Jobs, at : Places ]
              /\ KindOf(f.job) = k

ReflectInv ==
  /\ job \in [Jobs -> JobRow] /\ sense \in [Jobs -> PrepRow]
  /\ calls \in [Jobs -> CallRow]
  /\ DOMAIN flight = Kinds /\ \A k \in Kinds : FlightOK(k, flight[k])
  /\ \A j \in Jobs : Sound(j, job[j], sense[j], calls[j], Await(j))


\* What the flight of a kind awaits, and of which job.
LEMMA FlightFacts ==
  ASSUME ReflectInv, NEW k \in Kinds, Flying(k)
  PROVE  /\ flight[k].job \in Jobs /\ KindOf(flight[k].job) = k
         /\ flight[k].at \in Places
         /\ Await(flight[k].job) = flight[k].at
BY DEF ReflectInv, FlightOK, Flying, Idle, Await, Places

\* Every job is of one of the kinds.
LEMMA KindType ==
  ASSUME NEW j \in Jobs
  PROVE  KindOf(j) \in Kinds
BY DEF KindOf, Kinds

\* A flight that moves on, lands or begins is no other job's.
LEMMA AwaitOthers ==
  ASSUME ReflectInv, NEW j \in Jobs, NEW f,
         FlightOK(KindOf(j), f), f.at # "none" => f.job = j,
         Flying(KindOf(j)) => flight[KindOf(j)].job = j,
         flight' = [flight EXCEPT ![KindOf(j)] = f]
  PROVE  /\ DOMAIN flight' = Kinds /\ \A k \in Kinds : FlightOK(k, flight'[k])
         /\ \A i \in Jobs \ {j} : Await(i)' = Await(i)
         /\ Await(j)' = f.at
<1>1. KindOf(j) \in Kinds /\ \A i \in Jobs : KindOf(i) \in Kinds
  BY KindType
<1>2. /\ DOMAIN flight' = Kinds /\ flight'[KindOf(j)] = f
      /\ \A k \in Kinds \ {KindOf(j)} : flight'[k] = flight[k]
  BY <1>1 DEF ReflectInv
<1>3. \A k \in Kinds : FlightOK(k, flight'[k])
  BY <1>2 DEF ReflectInv
<1>4. ASSUME NEW i \in Jobs \ {j} PROVE Await(i)' = Await(i)
  <2>1. CASE KindOf(i) = KindOf(j)
    BY <1>1, <1>2, <2>1 DEF Await, Flying
  <2>2. CASE KindOf(i) # KindOf(j)
    BY <1>1, <1>2, <2>2 DEF Await, Flying
  <2> QED BY <2>1, <2>2
<1>5. Await(j)' = f.at
  BY <1>1, <1>2 DEF Await, Flying
<1> QED BY <1>2, <1>3, <1>4, <1>5

\* A step that concerns one job keeps the invariant if that job stays sound.
LEMMA OneJob ==
  ASSUME ReflectInv, NEW j \in Jobs, NEW row, NEW s, NEW c,
         job' = [job EXCEPT ![j] = row], sense' = [sense EXCEPT ![j] = s],
         calls' = [calls EXCEPT ![j] = c],
         DOMAIN flight' = Kinds, \A k \in Kinds : FlightOK(k, flight'[k]),
         \A i \in Jobs \ {j} : Await(i)' = Await(i),
         Sound(j, row, s, c, Await(j)')
  PROVE  ReflectInv'
<1>1. row \in JobRow /\ s \in PrepRow /\ c \in CallRow
  BY DEF Sound, PrepOK
<1>2. /\ job' \in [Jobs -> JobRow] /\ sense' \in [Jobs -> PrepRow]
      /\ calls' \in [Jobs -> CallRow]
  BY <1>1 DEF ReflectInv
<1>3. /\ job'[j] = row /\ sense'[j] = s /\ calls'[j] = c
      /\ \A i \in Jobs \ {j} : /\ job'[i] = job[i] /\ sense'[i] = sense[i]
                               /\ calls'[i] = calls[i]
  BY DEF ReflectInv
<1>4. ASSUME NEW i \in Jobs
      PROVE  Sound(i, job'[i], sense'[i], calls'[i], Await(i)')
  <2>1. CASE i = j
    BY <1>3, <2>1
  <2>2. CASE i # j
    <3>1. Sound(i, job[i], sense[i], calls[i], Await(i))
      BY DEF ReflectInv
    <3> QED BY <1>3, <2>2, <3>1
  <2> QED BY <2>1, <2>2
<1> QED BY <1>2, <1>4 DEF ReflectInv

\* A function that is given the value it has stays as it is.
LEMMA Same ==
  ASSUME NEW S, NEW T, NEW g \in [S -> T], NEW x \in S
  PROVE  g = [g EXCEPT ![x] = g[x]]
OBVIOUS

\* The clock asks nothing of a provider.
LEMMA SoundLater ==
  ASSUME NEW j \in Jobs, NEW row, NEW s, NEW c, NEW at, Sound(j, row, s, c, at)
  PROVE  Sound(j, Later(row), s, c, at)
<1>1. /\ Later(row) \in JobRow /\ Later(row).status = row.status
      /\ Later(row).failures = row.failures /\ Later(row).mapped = row.mapped
  BY DEF Sound, JobRow, Later
<1> QED BY <1>1 DEF Sound, Open, Route

\* Senses may change while they are not ready.
LEMMA SoundSense ==
  ASSUME NEW j \in Jobs, NEW row, NEW s, NEW t, NEW c, NEW at,
         Sound(j, row, s, c, at), PrepOK(t),
         s.status = "ready" => t.status = "ready"
  PROVE  Sound(j, row, t, c, at)
BY DEF Sound

\* A flight may be lost at any time.
LEMMA SoundLanded ==
  ASSUME NEW j \in Jobs, NEW row, NEW s, NEW c, NEW at, Sound(j, row, s, c, at)
  PROVE  Sound(j, row, s, c, "none")
BY DEF Sound

\* A job may fail at any time it runs.
LEMMA SoundFailed ==
  ASSUME NEW j \in Jobs, NEW row, NEW s, NEW c, NEW at, NEW next,
         Sound(j, row, s, c, at), row.status = "running"
  PROVE  Sound(j, Failed(row), s, c, next)
<1>1. /\ Failed(row) \in JobRow /\ Failed(row).status = "failed"
      /\ Failed(row).failures = row.failures /\ Failed(row).mapped = row.mapped
  BY DEF Sound, JobRow, JobStatus, Failed
<1> QED BY <1>1 DEF Sound, Open, Route

\* A job waits again only if it awaits no judgment and no mapping, or has asked
\* for none.
LEMMA SoundDelayed ==
  ASSUME NEW j \in Jobs, NEW row, NEW s, NEW c, NEW at, NEW next,
         Sound(j, row, s, c, at), row.status = "running",
         \/ at \in {"claimed", "sense", "useful"}
         \/ c.content = 0 /\ c.mapping = 0
  PROVE  Sound(j, Delayed(row), s, c, next)
<1>1. /\ Delayed(row) \in JobRow /\ Delayed(row).status = "queued"
      /\ Delayed(row).failures = row.failures
      /\ Delayed(row).mapped = row.mapped
  BY DEF Sound, JobRow, JobStatus, Delayed
<1>2. row.failures \in Nat /\ c.resumed \in Nat
  BY DEF Sound, JobRow, CallRow
<1> QED BY <1>1, <1>2 DEF Sound, Open, Route

\* A job that is resumed may ask again for what it awaited.
LEMMA SoundResumed ==
  ASSUME NEW j \in Jobs, NEW row, NEW s, NEW c, NEW at, NEW next,
         Sound(j, row, s, c, at), row.status = "running"
  PROVE  Sound(j, Delayed(row), s, [c EXCEPT !.resumed = @ + 1], next)
<1> DEFINE d == [c EXCEPT !.resumed = @ + 1]
<1>1. /\ Delayed(row) \in JobRow /\ Delayed(row).status = "queued"
      /\ Delayed(row).failures = row.failures
      /\ Delayed(row).mapped = row.mapped
  BY DEF Sound, JobRow, JobStatus, Delayed
<1>2. /\ row.failures \in Nat /\ MappingBudget \in Nat /\ c \in CallRow
  BY JobsAssumption DEF Sound, JobRow
<1>3. /\ c.resumed \in Nat /\ c.content \in Nat /\ c.mapping \in Nat
  BY <1>2 DEF CallRow
<1>4. /\ d \in CallRow /\ d.resumed = c.resumed + 1 /\ d.content = c.content
      /\ d.mapping = c.mapping /\ d.judged = c.judged
  BY <1>2, <1>3 DEF CallRow
<1> HIDE DEF d
<1>5. /\ d.judged = 0 /\ d.content <= d.resumed
      /\ d.mapping <= MappingBudget + d.resumed
      /\ row.mapped = "none" => d.mapping <= row.failures + d.resumed
      /\ row.failures < MappingBudget
  BY <1>2, <1>3, <1>4 DEF Sound, Open
<1>6. d.content <= d.resumed + 1
  BY <1>3, <1>4, <1>5
<1>7. Route(Delayed(row)) = Route(row)
  BY <1>1 DEF Route
<1>8. /\ PrepOK(s)
      /\ d.mapping > 0 => j \in Improvements /\ s.status = "ready"
      /\ d.content > 0 /\ j \in Improvements => s.status = "ready"
      /\ row.mapped # "none" /\ j \notin Bootstraps => row.mapped = Route(row)
  BY <1>4 DEF Sound
<1> DEFINE q == Delayed(row)
<1>9. /\ q \in JobRow /\ q.status = "queued" /\ q.failures < MappingBudget
      /\ q.mapped # "none" /\ j \notin Bootstraps => q.mapped = Route(q)
      /\ q.mapped = "none" => d.mapping <= q.failures + d.resumed
  BY <1>1, <1>5, <1>7, <1>8
<1> HIDE DEF q
<1>10. Sound(j, q, s, d, next)
  BY <1>4, <1>5, <1>6, <1>8, <1>9 DEF Sound
<1> QED BY <1>10 DEF q, d

\* A job is created with nothing asked.
LEMMA SoundCreated ==
  ASSUME NEW j \in Jobs, NEW s, NEW c, NEW at, Sound(j, JobAfter(j), s, c, at)
  PROVE  Sound(j, Created(j), s, c, at)
<1> DEFINE row == JobAfter(j)
<1>1. CASE row.status = "absent" /\ Created(j) = Requeued(row)
  <2>1. row.failures \in Nat /\ c.resumed \in Nat
    BY DEF Sound, JobRow, CallRow
  <2> HIDE DEF row
  <2>2. row \in JobRow
    BY DEF Sound, row
  <2>3. /\ Requeued(row) \in JobRow /\ Requeued(row).status = "queued"
        /\ Requeued(row).failures = row.failures
        /\ Requeued(row).mapped = row.mapped
    BY <2>2 DEF JobRow, JobStatus, Requeued
  <2>4. Sound(j, row, s, c, at)
    BY DEF row
  <2> QED BY <1>1, <2>1, <2>3, <2>4 DEF Sound, Open, Route
<1>2. CASE Created(j) = row
  BY <1>2
<1> QED BY <1>1, <1>2 DEF Created

\* What a pass recovers: an improvement goes on by itself if nothing was asked
\* of a provider but its senses, or is resumed for its useful ones.
LEMMA SoundRecovered ==
  ASSUME ReflectInv, NEW j \in Jobs, NEW at,
         Sound(j, job[j], sense[j], calls[j], at)
  PROVE  Sound(j, JobAfter(j), SenseAfter(j), CallsAfter(j), at)
<1> DEFINE row == job[j]
           s   == sense[j]
           c   == calls[j]
<1>1. PrepOK(s) /\ c.content \in Nat /\ c.mapping \in Nat
  BY DEF Sound, CallRow
<1>2. CASE SenseTurn(j)
  <2>1. row.status = "running" /\ j \in Improvements /\ s.status # "ready"
    BY <1>2 DEF SenseTurn, WaitsOn, Lost
  <2>2. c.content = 0 /\ c.mapping = 0
    BY <1>1, <2>1 DEF Sound
  <2>3. PrepOK(SenseAfter(j))
    BY <1>1, <1>2, RecoveredRow DEF SenseAfter
  <2>4. Sound(j, row, SenseAfter(j), c, at)
    BY <2>1, <2>3, SoundSense
  <2>5. JobAfter(j) \in {Delayed(row), Failed(row)} /\ CallsAfter(j) = c
    BY <1>2 DEF JobAfter, CallsAfter, UsefulTurn
  <2> QED BY <2>1, <2>2, <2>4, <2>5, SoundFailed, SoundDelayed
<1>3. CASE UsefulTurn(j)
  <2>1. row.status = "running" /\ SenseAfter(j) = s
    BY <1>3 DEF UsefulTurn, WaitsOn, SenseAfter
  <2>2. /\ JobAfter(j) = Delayed(row)
        /\ CallsAfter(j) = [c EXCEPT !.resumed = @ + 1]
    BY <1>3 DEF JobAfter, CallsAfter, UsefulTurn
  <2> QED BY <2>1, <2>2, SoundResumed
<1>4. CASE ~SenseTurn(j) /\ ~UsefulTurn(j)
  <2>1. /\ SenseAfter(j) = s /\ JobAfter(j) = Interrupted(row)
        /\ CallsAfter(j) = c
    BY <1>4 DEF SenseAfter, JobAfter, CallsAfter
  <2>2. CASE Lost(row)
    BY <2>1, <2>2, SoundFailed DEF Interrupted, Lost
  <2>3. CASE ~Lost(row)
    BY <2>1, <2>3 DEF Interrupted
  <2> QED BY <2>2, <2>3
<1> QED BY <1>2, <1>3, <1>4

-----------------------------------------------------------------------------
(* The steps of a flight.                                                  *)

\* The job of a flight.
LEMMA JobFacts ==
  ASSUME ReflectInv, NEW k \in Kinds, Flying(k)
  PROVE  \E j \in Jobs :
           /\ j = flight[k].job /\ KindOf(j) = k
           /\ Sound(j, job[j], sense[j], calls[j], flight[k].at)
BY FlightFacts DEF ReflectInv

\* What a flight of job j awaits next, and nothing changes for others.
Awaits(j, at) ==
  /\ DOMAIN flight' = Kinds /\ \A l \in Kinds : FlightOK(l, flight'[l])
  /\ \A i \in Jobs \ {j} : Await(i)' = Await(i)
  /\ Await(j)' = at

\* A flight that goes on awaits something else of the same job.
LEMMA GoesOn ==
  ASSUME ReflectInv, NEW k \in Kinds, Flying(k), NEW j, j = flight[k].job,
         NEW at \in Places, Goes(k, at)
  PROVE  Awaits(j, at)
<1> DEFINE f == [flight[k] EXCEPT !.at = at]
<1>1. j \in Jobs /\ KindOf(j) = k /\ flight[k] # Idle
  BY FlightFacts DEF Flying, Idle
<1>2. FlightOK(k, flight[k])
  BY DEF ReflectInv
<1>3. FlightOK(k, f) /\ f.at = at /\ f.job = j
  BY <1>1, <1>2 DEF FlightOK
<1>4. flight' = [flight EXCEPT ![KindOf(j)] = f]
  BY <1>1 DEF Goes
<1> HIDE DEF f
<1> QED BY <1>1, <1>3, <1>4, AwaitOthers DEF Awaits

\* A flight that lands awaits nothing.
LEMMA LandsOn ==
  ASSUME ReflectInv, NEW k \in Kinds, Flying(k), NEW j, j = flight[k].job,
         Lands(k)
  PROVE  Awaits(j, "none")
<1>1. j \in Jobs /\ KindOf(j) = k
  BY FlightFacts
<1>2. FlightOK(k, Idle) /\ Idle.at = "none"
  BY DEF FlightOK, Idle
<1>3. flight' = [flight EXCEPT ![KindOf(j)] = Idle]
  BY <1>1 DEF Lands
<1> QED BY <1>1, <1>2, <1>3, AwaitOthers DEF Awaits

\* A step of a flight keeps the invariant if its job stays sound.
LEMMA FlightSound ==
  ASSUME ReflectInv, NEW j \in Jobs, NEW row, NEW t, NEW c, NEW at,
         job' = [job EXCEPT ![j] = row], sense' = [sense EXCEPT ![j] = t],
         calls' = [calls EXCEPT ![j] = c], Awaits(j, at),
         Sound(j, row, t, c, at)
  PROVE  ReflectInv'
BY OneJob DEF Awaits

\* The end of a flight leaves its job sound: as it is, if its lease is over.
LEMMA EndsSound ==
  ASSUME ReflectInv, NEW k \in Kinds, Flying(k), NEW j, j = flight[k].job,
         NEW row, NEW t, Ends(k, row), calls' = calls, PrepOK(t),
         sense' = [sense EXCEPT ![j] = t],
         sense[j].status = "ready" => t.status = "ready",
         Leased(j) => Sound(j, row, t, calls[j], "none")
  PROVE  ReflectInv'
<1>1. j \in Jobs /\ Sound(j, job[j], sense[j], calls[j], flight[k].at)
  BY JobFacts
<1>2. Awaits(j, "none")
  BY LandsOn DEF Ends
<1>3. calls' = [calls EXCEPT ![j] = calls[j]]
  BY <1>1, Same DEF ReflectInv
<1>4. CASE Leased(j)
  <2>1. job' = [job EXCEPT ![j] = row]
    BY <1>4 DEF Ends
  <2> QED BY <1>1, <1>2, <1>3, <1>4, <2>1, FlightSound
<1>5. CASE ~Leased(j)
  <2>1. job' = [job EXCEPT ![j] = job[j]]
    BY <1>1, <1>5, Same DEF Ends, ReflectInv
  <2>2. Sound(j, job[j], t, calls[j], "none")
    BY <1>1, SoundLanded, SoundSense
  <2> QED BY <1>1, <1>2, <1>3, <2>1, <2>2, FlightSound
<1> QED BY <1>4, <1>5

\* A lease that holds is of a running job.
LEMMA LeasedRuns ==
  ASSUME NEW j, Leased(j)
  PROVE  job[j].status = "running"
BY DEF Leased, Held

\* Where no flight changes, a job is awaited for what it was.
LEMMA FlightsStay ==
  ASSUME ReflectInv, NEW j \in Jobs, flight' = flight
  PROVE  Awaits(j, Await(j))
BY DEF Awaits, Await, Flying, ReflectInv

\* The jobs, as they are or with their flights lost.
LEMMA JobsStay ==
  ASSUME ReflectInv, UNCHANGED <<job, sense, calls>>,
         flight' = flight \/ flight' = [k \in Kinds |-> Idle]
  PROVE  ReflectInv'
<1>1. ASSUME NEW j \in Jobs
      PROVE  Sound(j, job'[j], sense'[j], calls'[j], Await(j)')
  <2>1. Await(j)' \in {Await(j), "none"}
    BY KindType DEF Await, Flying, Idle
  <2> QED BY <2>1, SoundLanded DEF ReflectInv
<1>2. DOMAIN flight' = Kinds /\ \A k \in Kinds : FlightOK(k, flight'[k])
  BY DEF ReflectInv, FlightOK
<1> QED BY <1>1, <1>2 DEF ReflectInv

\* Asking for the senses, an attempt at them is claimed; else the job ends or
\* waits, having asked for nothing.
LEMMA AskSensesStep ==
  ASSUME ReflectInv, NEW k \in Kinds, AskSenses(k)
  PROVE  ReflectInv'
<1>1. /\ Flying(k) /\ flight[k].at = "claimed" /\ Leased(flight[k].job)
      /\ Recovered(sense[flight[k].job]).status # "ready"
  BY DEF AskSenses, At, Flying, CanPublish
<1>2. PICK j \in Jobs :
        j = flight[k].job /\ Sound(j, job[j], sense[j], calls[j], "claimed")
  BY <1>1, JobFacts
<1> DEFINE t == Recovered(sense[j])
<1>3. PrepOK(sense[j]) /\ PrepOK(t) /\ sense[j].status # "ready"
  BY <1>1, <1>2, RecoveredRow DEF Sound
<1>4. CASE /\ t.status = "absent" \/ Ripe(t)
           /\ sense' = [sense EXCEPT ![j] = Attempted(t)]
           /\ Goes(k, "sense") /\ UNCHANGED <<job, calls>>
  <2>1. PrepOK(Attempted(t))
    BY <1>3, <1>4, AttemptedRow DEF Ripe
  <2>2. Sound(j, job[j], Attempted(t), calls[j], "sense")
    BY <1>2, <1>3, <2>1 DEF Sound
  <2>3. /\ job' = [job EXCEPT ![j] = job[j]]
        /\ calls' = [calls EXCEPT ![j] = calls[j]]
    BY <1>2, <1>4, Same DEF ReflectInv
  <2>4. Awaits(j, "sense")
    BY <1>1, <1>2, <1>4, GoesOn DEF Places
  <2> QED BY <1>2, <1>4, <2>2, <2>3, <2>4, FlightSound
<1>5. CASE /\ sense' = [sense EXCEPT ![j] = t]
           /\ FailJob(k) \/ DeferJob(k)
           /\ calls' = calls
  <2>1. Sound(j, job[j], t, calls[j], "claimed")
    BY <1>2, <1>3, SoundSense
  <2>2. job[j].status = "running"
    BY <1>1, <1>2, LeasedRuns
  <2>3. /\ Sound(j, Failed(job[j]), t, calls[j], "none")
        /\ Sound(j, Delayed(job[j]), t, calls[j], "none")
    BY <2>1, <2>2, SoundFailed, SoundDelayed
  <2>4. Ends(k, Failed(job[j])) \/ Ends(k, Delayed(job[j]))
    BY <1>2, <1>5 DEF FailJob, DeferJob
  <2> QED BY <1>1, <1>2, <1>3, <1>5, <2>3, <2>4, EndsSound
<1> QED BY <1>2, <1>4, <1>5 DEF AskSenses

\* Senses that are ready stay so.
LEMMA SensesReadyStep ==
  ASSUME ReflectInv, NEW k \in Kinds, SensesReady(k)
  PROVE  ReflectInv'
<1>1. Flying(k) /\ flight[k].at = "sense"
  BY DEF SensesReady, At, Flying
<1>2. PICK j \in Jobs :
        j = flight[k].job /\ Sound(j, job[j], sense[j], calls[j], "sense")
  BY <1>1, JobFacts
<1> DEFINE t == [sense[j] EXCEPT !.status = "ready"]
<1>3. PrepOK(t)
  BY <1>2 DEF Sound, PrepOK, PrepRow, PrepStatus
<1>4. t.status = "ready"
  BY <1>2 DEF Sound, PrepOK, PrepRow
<1>5. Sound(j, job[j], t, calls[j], "claimed")
  BY <1>2, <1>3, <1>4 DEF Sound
<1>6. /\ job' = [job EXCEPT ![j] = job[j]]
      /\ calls' = [calls EXCEPT ![j] = calls[j]]
      /\ sense' = [sense EXCEPT ![j] = t]
  BY <1>2, Same DEF ReflectInv, SensesReady
<1>7. Awaits(j, "claimed")
  BY <1>1, <1>2, GoesOn DEF SensesReady, Places
<1> QED BY <1>2, <1>5, <1>6, <1>7, FlightSound

\* An attempt at the senses that fails leaves the job to fail or to wait.
LEMMA SensesFailStep ==
  ASSUME ReflectInv, NEW k \in Kinds, SensesFail(k)
  PROVE  ReflectInv'
<1>1. Flying(k) /\ flight[k].at = "sense"
  BY DEF SensesFail, At, Flying
<1>2. PICK j \in Jobs :
        j = flight[k].job /\ Sound(j, job[j], sense[j], calls[j], "sense")
  BY <1>1, JobFacts
<1> DEFINE t == IF sense[j].status = "running" THEN PrepFailed(sense[j], TRUE)
                ELSE sense[j]
<1>3. PrepOK(t) /\ (sense[j].status = "ready" => t.status = "ready")
  BY <1>2, PrepFailedRow DEF Sound
<1>4. calls' = calls /\ sense' = [sense EXCEPT ![j] = t]
  BY <1>2 DEF SensesFail
<1>5. Ends(k, Failed(job[j])) \/ Ends(k, Delayed(job[j]))
  BY <1>2 DEF SensesFail, FailJob, DeferJob
<1> HIDE DEF t
<1>6. Sound(j, job[j], t, calls[j], "sense")
  BY <1>2, <1>3, SoundSense
<1>7. Leased(j) => /\ Sound(j, Failed(job[j]), t, calls[j], "none")
                   /\ Sound(j, Delayed(job[j]), t, calls[j], "none")
  BY <1>6, LeasedRuns, SoundFailed, SoundDelayed
<1> QED BY <1>1, <1>2, <1>3, <1>4, <1>5, <1>7, EndsSound

\* A mapping is asked for only when all those asked for were counted.
LEMMA AskMappingStep ==
  ASSUME ReflectInv, NEW k \in Kinds, AskMapping(k)
  PROVE  ReflectInv'
<1>1. /\ Flying(k) /\ flight[k].at = "claimed" /\ Leased(flight[k].job)
      /\ flight[k].job \in Improvements \ Bootstraps
      /\ sense[flight[k].job].status = "ready"
      /\ job[flight[k].job].mapped # Route(job[flight[k].job])
  BY DEF AskMapping, Admitted, At, Flying, CanPublish
<1>2. PICK j \in Jobs :
        j = flight[k].job /\ Sound(j, job[j], sense[j], calls[j], "claimed")
  BY <1>1, JobFacts
<1> DEFINE c == [calls[j] EXCEPT !.mapping = @ + 1]
<1>3. job[j].status = "running" /\ job[j].mapped = "none"
  BY <1>1, <1>2, LeasedRuns DEF Sound
<1>4. /\ calls[j] \in CallRow /\ job[j].failures \in Nat
      /\ MappingBudget \in Nat
      /\ calls[j].mapping <= job[j].failures + calls[j].resumed
      /\ job[j].failures < MappingBudget
  BY <1>2, <1>3, JobsAssumption DEF Sound, JobRow, Open
<1>5. /\ c \in CallRow /\ c.content = calls[j].content
      /\ c.judged = calls[j].judged /\ c.mapping = calls[j].mapping + 1
      /\ c.resumed = calls[j].resumed
  BY <1>4 DEF CallRow
<1> HIDE DEF c
<1>6. calls[j].mapping \in Nat /\ calls[j].resumed \in Nat
  BY <1>4 DEF CallRow
<1>7. Sound(j, job[j], sense[j], c, "mapping")
  BY <1>1, <1>2, <1>3, <1>4, <1>5, <1>6 DEF Sound
<1>8. /\ job' = [job EXCEPT ![j] = job[j]]
      /\ sense' = [sense EXCEPT ![j] = sense[j]]
      /\ calls' = [calls EXCEPT ![j] = c]
  BY <1>2, Same DEF ReflectInv, AskMapping, c
<1>9. Awaits(j, "mapping")
  BY <1>1, <1>2, GoesOn DEF AskMapping, Places
<1> QED BY <1>7, <1>8, <1>9, FlightSound

\* A mapping is kept under the route the job is on.
LEMMA MappedStep ==
  ASSUME ReflectInv, NEW k \in Kinds, Mapped(k)
  PROVE  ReflectInv'
<1>1. Flying(k) /\ flight[k].at = "mapping" /\ Leased(flight[k].job)
  BY DEF Mapped, At, Flying, CanPublish
<1>2. PICK j \in Jobs :
        j = flight[k].job /\ Sound(j, job[j], sense[j], calls[j], "mapping")
  BY <1>1, JobFacts
<1> DEFINE row == [job[j] EXCEPT !.mapped = Route(job[j])]
<1>3. job[j].status = "running"
  BY <1>1, <1>2, LeasedRuns
<1>4. Route(job[j]) \in {"primary", "fallback"}
  BY DEF Route
<1>5. /\ row \in JobRow /\ row.status = "running"
      /\ row.failures = job[j].failures /\ row.mapped = Route(job[j])
  BY <1>2, <1>3, <1>4 DEF Sound, JobRow
<1> HIDE DEF row
<1>6. row.mapped = Route(row) /\ row.mapped # "none"
  BY <1>4, <1>5 DEF Route
<1>7. Sound(j, row, sense[j], calls[j], "claimed")
  BY <1>2, <1>3, <1>5, <1>6 DEF Sound, Open
<1>8. /\ job' = [job EXCEPT ![j] = row]
      /\ sense' = [sense EXCEPT ![j] = sense[j]]
      /\ calls' = [calls EXCEPT ![j] = calls[j]]
  BY <1>2, Same DEF ReflectInv, Mapped, row
<1>9. Awaits(j, "claimed")
  BY <1>1, <1>2, GoesOn DEF Mapped, Places
<1> QED BY <1>7, <1>8, <1>9, FlightSound

\* A mapping that fails is counted, and the job waits while its budget lasts.
LEMMA MappingFailsStep ==
  ASSUME ReflectInv, NEW k \in Kinds, MappingFails(k)
  PROVE  ReflectInv'
<1>1. /\ Flying(k) /\ flight[k].at = "mapping"
      /\ calls' = calls /\ sense' = sense
  BY DEF MappingFails, At, Flying
<1>2. PICK j \in Jobs :
        j = flight[k].job /\ Sound(j, job[j], sense[j], calls[j], "mapping")
  BY <1>1, JobFacts
<1> DEFINE row == [job[j] EXCEPT !.failures = @ + 1]
<1>3. Ends(k, IF row.failures < MappingBudget THEN Delayed(row)
              ELSE Failed(row))
  BY <1>2 DEF MappingFails
<1>4. sense' = [sense EXCEPT ![j] = sense[j]] /\ PrepOK(sense[j])
  BY <1>1, <1>2, Same DEF ReflectInv, Sound
<1>5. ASSUME Leased(j)
      PROVE  Sound(j, IF row.failures < MappingBudget THEN Delayed(row)
                      ELSE Failed(row), sense[j], calls[j], "none")
  <2>1. job[j].status = "running"
    BY <1>5, LeasedRuns
  <2>2. /\ job[j] \in JobRow /\ job[j].failures < MappingBudget
        /\ job[j].failures \in Nat /\ MappingBudget \in Nat
        /\ job[j].mapped = "none"
        /\ calls[j].mapping <= job[j].failures + calls[j].resumed + 1
        /\ calls[j].content <= calls[j].resumed /\ calls[j].judged = 0
        /\ calls[j].mapping \in Nat /\ calls[j].resumed \in Nat
    BY <1>2, <2>1, JobsAssumption DEF Sound, Open, JobRow, CallRow
  <2>3. /\ row \in JobRow /\ row.failures = job[j].failures + 1
        /\ row.mapped = "none" /\ row.status = "running"
    BY <2>1, <2>2 DEF JobRow
  <2> HIDE DEF row
  <2>4. CASE row.failures < MappingBudget
    <3>1. /\ Delayed(row) \in JobRow /\ Delayed(row).status = "queued"
          /\ Delayed(row).failures = row.failures
          /\ Delayed(row).mapped = "none"
      BY <2>3 DEF Delayed, JobRow, JobStatus
    <3>2. Sound(j, Delayed(row), sense[j], calls[j], "none")
      BY <1>2, <2>2, <2>3, <2>4, <3>1 DEF Sound, Open
    <3> QED BY <2>4, <3>2
  <2>5. CASE ~(row.failures < MappingBudget)
    <3>1. /\ Failed(row) \in JobRow /\ Failed(row).status = "failed"
          /\ Failed(row).failures = row.failures
          /\ Failed(row).mapped = "none"
      BY <2>3 DEF Failed, JobRow, JobStatus
    <3>2. Sound(j, Failed(row), sense[j], calls[j], "none")
      BY <1>2, <2>2, <2>3, <3>1 DEF Sound, Open
    <3> QED BY <2>5, <3>2
  <2> QED BY <2>4, <2>5
<1> QED BY <1>1, <1>2, <1>3, <1>4, <1>5, EndsSound

\* A judgment is asked for by a flight that asked for none.
LEMMA AskContentStep ==
  ASSUME ReflectInv, NEW k \in Kinds, AskContent(k)
  PROVE  ReflectInv'
<1>1. /\ Flying(k) /\ flight[k].at = "claimed" /\ Leased(flight[k].job)
      /\ flight[k].job \in Improvements =>
           sense[flight[k].job].status = "ready"
  BY DEF AskContent, Admitted, At, Flying, CanPublish
<1>2. PICK j \in Jobs :
        j = flight[k].job /\ Sound(j, job[j], sense[j], calls[j], "claimed")
  BY <1>1, JobFacts
<1> DEFINE c == [calls[j] EXCEPT !.content = @ + 1]
<1>3. job[j].status = "running"
  BY <1>1, <1>2, LeasedRuns
<1>4. calls[j] \in CallRow /\ calls[j].content <= calls[j].resumed
  BY <1>2, <1>3 DEF Sound
<1>5. /\ c \in CallRow /\ c.content = calls[j].content + 1
      /\ c.judged = calls[j].judged /\ c.mapping = calls[j].mapping
      /\ c.resumed = calls[j].resumed
      /\ calls[j].content \in Nat /\ calls[j].resumed \in Nat
  BY <1>4 DEF CallRow
<1> HIDE DEF c
<1>6. Sound(j, job[j], sense[j], c, "content")
  BY <1>1, <1>2, <1>3, <1>4, <1>5 DEF Sound
<1>7. /\ job' = [job EXCEPT ![j] = job[j]]
      /\ sense' = [sense EXCEPT ![j] = sense[j]]
      /\ calls' = [calls EXCEPT ![j] = c]
  BY <1>2, Same DEF ReflectInv, AskContent, c
<1>8. Awaits(j, "content")
  BY <1>1, <1>2, GoesOn DEF AskContent, Places
<1> QED BY <1>6, <1>7, <1>8, FlightSound

\* A judgment ends its job, in one transaction.
LEMMA JudgeStep ==
  ASSUME ReflectInv, NEW k \in Kinds, Judge(k)
  PROVE  ReflectInv'
<1>1. Flying(k) /\ Leased(flight[k].job)
  BY DEF Judge, Admitted, At, Flying, CanPublish
<1>2. PICK j \in Jobs :
        j = flight[k].job
        /\ Sound(j, job[j], sense[j], calls[j], flight[k].at)
  BY <1>1, JobFacts
<1> DEFINE c   == [calls[j] EXCEPT !.judged = @ + 1]
           row == [job[j] EXCEPT !.status = "succeeded"]
<1>3. job[j].status = "running"
  BY <1>1, <1>2, LeasedRuns
<1>4. calls[j] \in CallRow /\ calls[j].judged = 0 /\ job[j] \in JobRow
  BY <1>2, <1>3 DEF Sound
<1>5. /\ c \in CallRow /\ c.judged = 1 /\ c.content = calls[j].content
      /\ c.mapping = calls[j].mapping /\ c.resumed = calls[j].resumed
  BY <1>4 DEF CallRow
<1>6. /\ row \in JobRow /\ row.status = "succeeded"
      /\ row.failures = job[j].failures /\ row.mapped = job[j].mapped
  BY <1>4 DEF JobRow, JobStatus
<1> HIDE DEF c, row
<1>7. Sound(j, row, sense[j], c, "none")
  BY <1>2, <1>5, <1>6 DEF Sound, Open, Route
<1>8. /\ job' = [job EXCEPT ![j] = row]
      /\ sense' = [sense EXCEPT ![j] = sense[j]]
      /\ calls' = [calls EXCEPT ![j] = c]
  BY <1>2, Same DEF ReflectInv, Judge, c, row
<1>9. Awaits(j, "none")
  BY <1>1, <1>2, LandsOn DEF Judge
<1> QED BY <1>7, <1>8, <1>9, FlightSound

\* A bootstrap that asks for its useful senses, and what it comes back with: it
\* awaits them, goes on, or waits, having asked for nothing else.
LEMMA UsefulStep ==
  ASSUME ReflectInv, NEW k \in Kinds,
         AskUseful(k) \/ UsefulReturns(k) \/ UsefulFails(k)
  PROVE  ReflectInv'
<1>1. /\ Flying(k) /\ flight[k].at \in {"claimed", "useful"}
      /\ calls' = calls /\ sense' = sense
  BY DEF AskUseful, UsefulReturns, UsefulFails, Admitted, At, Flying
<1>2. PICK j \in Jobs :
        j = flight[k].job
        /\ Sound(j, job[j], sense[j], calls[j], flight[k].at)
  BY <1>1, JobFacts
<1>3. /\ sense' = [sense EXCEPT ![j] = sense[j]] /\ PrepOK(sense[j])
      /\ calls' = [calls EXCEPT ![j] = calls[j]]
  BY <1>1, <1>2, Same DEF ReflectInv, Sound
<1>4. ASSUME NEW at \in {"claimed", "useful"}, Goes(k, at), job' = job
      PROVE  ReflectInv'
  <2>1. Sound(j, job[j], sense[j], calls[j], at)
    BY <1>1, <1>2, <1>4 DEF Sound
  <2>2. job' = [job EXCEPT ![j] = job[j]]
    BY <1>4, Same DEF ReflectInv
  <2>3. Awaits(j, at)
    BY <1>1, <1>2, <1>4, GoesOn DEF Places
  <2> QED BY <1>3, <2>1, <2>2, <2>3, FlightSound
<1>5. CASE DeferJob(k)
  <2>1. Ends(k, Delayed(job[j]))
    BY <1>2, <1>5 DEF DeferJob
  <2>2. Leased(j) => Sound(j, Delayed(job[j]), sense[j], calls[j], "none")
    BY <1>1, <1>2, LeasedRuns, SoundDelayed
  <2> QED BY <1>1, <1>2, <1>3, <2>1, <2>2, EndsSound
<1>6. CASE UNCHANGED <<job, flight>>
  BY <1>1, <1>6, JobsStay
<1> QED BY <1>4, <1>5, <1>6 DEF AskUseful, UsefulReturns, UsefulFails

\* A bootstrap keeps its scope before it has asked for anything it awaits.
LEMMA KeepScopeStep ==
  ASSUME ReflectInv, NEW k \in Kinds, KeepScope(k)
  PROVE  ReflectInv'
<1>1. /\ Flying(k) /\ flight[k].at = "claimed" /\ Leased(flight[k].job)
      /\ flight[k].job \in Bootstraps
      /\ UNCHANGED <<sense, calls, flight>>
  BY DEF KeepScope, Admitted, At, Flying, CanPublish
<1>2. PICK j \in Jobs :
        j = flight[k].job /\ Sound(j, job[j], sense[j], calls[j], "claimed")
  BY <1>1, JobFacts
<1>3. job[j].status = "running"
  BY <1>1, <1>2, LeasedRuns
<1>4. PICK scope \in {"chosen", "unchosen"} :
        job' = [job EXCEPT ![j].mapped = scope]
  BY <1>2 DEF KeepScope
<1> DEFINE row == [job[j] EXCEPT !.mapped = scope]
<1>5. /\ row \in JobRow /\ row.status = "running"
      /\ row.failures = job[j].failures /\ row.mapped # "none"
  BY <1>2, <1>3 DEF Sound, JobRow
<1>6. job' = [job EXCEPT ![j] = row]
  BY <1>4 DEF ReflectInv
<1> HIDE DEF row
<1>7. Sound(j, row, sense[j], calls[j], "claimed")
  BY <1>1, <1>2, <1>3, <1>5 DEF Sound, Open
<1>8. /\ sense' = [sense EXCEPT ![j] = sense[j]]
      /\ calls' = [calls EXCEPT ![j] = calls[j]]
  BY <1>1, Same DEF ReflectInv
<1>9. Awaits(j, "claimed") 
  <2>1. Await(j) = "claimed"
    BY <1>1, <1>2, FlightFacts
  <2> QED BY <1>1, <2>1, FlightsStay
<1> QED BY <1>6, <1>7, <1>8, <1>9, FlightSound

\* A flight that comes back with nothing fails its job.
LEMMA FailsStep ==
  ASSUME ReflectInv, NEW k \in Kinds, Fails(k)
  PROVE  ReflectInv'
<1>1. Flying(k) /\ calls' = calls /\ sense' = sense
  BY DEF Fails, Flying
<1>2. PICK j \in Jobs :
        j = flight[k].job
        /\ Sound(j, job[j], sense[j], calls[j], flight[k].at)
  BY <1>1, JobFacts
<1>3. Ends(k, Failed(job[j]))
  BY <1>2 DEF Fails, FailJob
<1>4. sense' = [sense EXCEPT ![j] = sense[j]] /\ PrepOK(sense[j])
  BY <1>1, <1>2, Same DEF ReflectInv, Sound
<1>5. Leased(j) => Sound(j, Failed(job[j]), sense[j], calls[j], "none")
  BY <1>2, LeasedRuns, SoundFailed
<1> QED BY <1>1, <1>2, <1>3, <1>4, <1>5, EndsSound

\* Every step of a flight keeps the invariant.
LEMMA FlightStepSafe ==
  ASSUME ReflectInv, NEW k \in Kinds, FlightStep(k)
  PROVE  ReflectInv'
BY AskSensesStep, SensesReadyStep, SensesFailStep, UsefulStep, KeepScopeStep,
   AskMappingStep, MappedStep, MappingFailsStep, AskContentStep, JudgeStep,
   FailsStep DEF FlightStep

-----------------------------------------------------------------------------
(* The other steps of the reflection jobs.                                 *)

\* A step that concerns every job keeps the invariant if they all stay sound.
LEMMA EveryJob ==
  ASSUME DOMAIN job' = Jobs, job' = [j \in Jobs |-> job'[j]],
         sense' = [j \in Jobs |-> sense'[j]],
         calls' = [j \in Jobs |-> calls'[j]],
         DOMAIN flight' = Kinds, \A k \in Kinds : FlightOK(k, flight'[k]),
         \A j \in Jobs : Sound(j, job'[j], sense'[j], calls'[j], Await(j)')
  PROVE  ReflectInv'
<1>1. \A j \in Jobs : /\ job'[j] \in JobRow /\ sense'[j] \in PrepRow
                      /\ calls'[j] \in CallRow
  BY DEF Sound, PrepOK
<1> QED BY <1>1 DEF ReflectInv

\* What a pass does to every job, and may do beside: a job is created, flights
\* are lost.
LEMMA PassSound ==
  ASSUME ReflectInv, Depends,
         \/ job' = [j \in Jobs |-> JobAfter(j)]
         \/ job' = [j \in Jobs |-> Created(j)],
         flight' = flight \/ flight' = [k \in Kinds |-> Idle]
  PROVE  ReflectInv'
<1>1. ASSUME NEW j \in Jobs
      PROVE  Sound(j, job'[j], sense'[j], calls'[j], Await(j)')
  <2>1. Await(j)' \in {Await(j), "none"}
    BY KindType DEF Await, Flying, Idle
  <2>2. Sound(j, job[j], sense[j], calls[j], Await(j))
    BY DEF ReflectInv
  <2>3. Sound(j, job[j], sense[j], calls[j], Await(j)')
    BY <2>1, <2>2, SoundLanded
  <2>4. Sound(j, JobAfter(j), SenseAfter(j), CallsAfter(j), Await(j)')
    BY <2>3, SoundRecovered
  <2>5. Sound(j, Created(j), SenseAfter(j), CallsAfter(j), Await(j)')
    BY <2>4, SoundCreated
  <2> QED BY <2>4, <2>5 DEF Depends
<1>2. DOMAIN flight' = Kinds /\ \A k \in Kinds : FlightOK(k, flight'[k])
  BY DEF ReflectInv, FlightOK
<1>3. /\ DOMAIN job' = Jobs /\ job' = [j \in Jobs |-> job'[j]]
      /\ sense' = [j \in Jobs |-> sense'[j]]
      /\ calls' = [j \in Jobs |-> calls'[j]]
  BY DEF Depends
<1> QED BY <1>1, <1>2, <1>3, EveryJob

\* A pass, whole or cut by the death of the process.
LEMMA LocalPassStep ==
  ASSUME ReflectInv, LocalPass \/ DispatchCut
  PROVE  ReflectInv'
<1>1. CASE LocalPass
  BY <1>1, PassSound DEF LocalPass
<1>2. CASE DispatchCut
  BY <1>2, PassSound DEF DispatchCut
<1> QED BY <1>1, <1>2

\* A job is claimed that has asked for no judgment, and for no mapping it did
\* not count; others of its kind that were lost fail.
LEMMA ClaimStep ==
  ASSUME ReflectInv, NEW k \in Kinds, NEW j \in Jobs, Claim(k, j)
  PROVE  ReflectInv'
<1> DEFINE f   == [job |-> j, at |-> "claimed"]
           row == [job[j] EXCEPT !.status = "running"]
<1>1. KindOf(j) = k /\ ~Flying(k) /\ flight' = [flight EXCEPT ![KindOf(j)] = f]
  BY DEF Claim
<1>2. FlightOK(k, f)
  BY <1>1 DEF FlightOK, Places
<1>3. Awaits(j, "claimed")
  BY <1>1, <1>2, AwaitOthers DEF Awaits
<1>4. Sound(j, job[j], sense[j], calls[j], Await(j)) /\ job[j].status = "queued"
  BY DEF ReflectInv, Claim, Ripe
<1>5. /\ row \in JobRow /\ row.status = "running"
      /\ row.failures = job[j].failures /\ row.mapped = job[j].mapped
  BY <1>4 DEF Sound, JobRow, JobStatus
<1>6. Sound(j, row, sense[j], calls[j], "claimed")
  <2>1. /\ calls[j].resumed \in Nat /\ calls[j].content \in Nat
        /\ calls[j].mapping \in Nat /\ row.failures \in Nat
    BY <1>4, <1>5 DEF Sound, JobRow, CallRow
  <2> HIDE DEF row
  <2> QED BY <1>4, <1>5, <2>1 DEF Sound, Open, Route
<1>7. ASSUME NEW i \in Jobs
      PROVE  Sound(i, job'[i], sense'[i], calls'[i], Await(i)')
  <2>1. sense' = sense /\ calls' = calls
    BY DEF Claim
  <2>2. CASE i = j
    BY <1>3, <1>6, <2>1, <2>2 DEF Claim, Awaits
  <2>3. CASE i # j
    <3>1. job'[i] = Interrupted(job[i]) /\ Await(i)' = Await(i)
      BY <1>3, <2>3 DEF Claim, Awaits
    <3>2. Sound(i, job[i], sense[i], calls[i], Await(i))
      BY DEF ReflectInv
    <3>3. Lost(job[i]) =>
            Sound(i, Failed(job[i]), sense[i], calls[i], Await(i))
      BY <3>2, SoundFailed DEF Lost
    <3>4. Sound(i, Interrupted(job[i]), sense[i], calls[i], Await(i))
      BY <3>2, <3>3 DEF Interrupted
    <3> QED BY <2>1, <3>1, <3>4
  <2> QED BY <2>2, <2>3
<1>8. /\ DOMAIN job' = Jobs /\ job' = [i \in Jobs |-> job'[i]]
      /\ sense' = [i \in Jobs |-> sense'[i]]
      /\ calls' = [i \in Jobs |-> calls'[i]]
  BY DEF ReflectInv, Claim
<1> QED BY <1>3, <1>7, <1>8, EveryJob DEF Awaits

\* The clock runs, for one job or for its senses.
LEMMA JobTimeStep ==
  ASSUME ReflectInv, NEW j \in Jobs, JobTime(j) \/ SenseTime(j)
  PROVE  ReflectInv'
<1>1. flight' = flight /\ calls' = calls
  BY DEF JobTime, SenseTime
<1>2. Awaits(j, Await(j)) /\ Sound(j, job[j], sense[j], calls[j], Await(j))
  BY <1>1, FlightsStay DEF ReflectInv
<1>3. calls' = [calls EXCEPT ![j] = calls[j]]
  BY <1>1, Same DEF ReflectInv
<1>4. CASE JobTime(j)
  <2>1. job' = [job EXCEPT ![j] = Later(job[j])] /\ sense' = sense
    BY <1>4 DEF JobTime
  <2>2. sense' = [sense EXCEPT ![j] = sense[j]]
    BY <2>1, Same DEF ReflectInv
  <2> QED BY <1>2, <1>3, <2>1, <2>2, SoundLater, FlightSound
<1>5. CASE SenseTime(j)
  <2>1. sense' = [sense EXCEPT ![j] = Later(sense[j])] /\ job' = job
    BY <1>5 DEF SenseTime
  <2>2. job' = [job EXCEPT ![j] = job[j]]
    BY <2>1, Same DEF ReflectInv
  <2>3. /\ PrepOK(Later(sense[j]))
        /\ Later(sense[j]).status = sense[j].status
    BY <1>2, LaterRow DEF Sound, PrepOK
  <2>4. Sound(j, job[j], Later(sense[j]), calls[j], Await(j))
    BY <1>2, <2>3, SoundSense
  <2> QED BY <1>2, <1>3, <2>1, <2>2, <2>4, FlightSound
<1> QED BY <1>4, <1>5

\* A job that failed is asked for again: it has asked for nothing yet, and the
\* mapping it keeps is of the route it is on.
LEMMA RetryJobStep ==
  ASSUME ReflectInv, NEW j \in Jobs, RetryJob(j)
  PROVE  ReflectInv'
<1> DEFINE row == Restarted(job[j])
           c   == [calls[j] EXCEPT !.mapping = 0, !.content = 0, !.resumed = 0]
<1>1. /\ job' = [job EXCEPT ![j] = row] /\ sense' = sense /\ flight' = flight
      /\ job[j].status = "failed"
  BY DEF RetryJob
<1>2. Awaits(j, Await(j)) /\ Sound(j, job[j], sense[j], calls[j], Await(j))
  BY <1>1, FlightsStay DEF ReflectInv
<1>3. sense' = [sense EXCEPT ![j] = sense[j]]
  BY <1>1, Same DEF ReflectInv
<1>4. calls[j] \in CallRow /\ calls[j].judged = 0 /\ job[j] \in JobRow
  BY <1>1, <1>2 DEF Sound
<1>5. /\ c \in CallRow /\ c.mapping = 0 /\ c.content = 0 /\ c.judged = 0
      /\ c.resumed = 0
  BY <1>4 DEF CallRow
<1>6. calls' = [calls EXCEPT ![j] = c]
  BY <1>2, <1>4, <1>5 DEF RetryJob, ReflectInv, CallRow
<1>7. MappingBudget \in Nat /\ MappingBudget > 0
  BY JobsAssumption
<1>8. /\ Requeued(job[j]) \in JobRow /\ Requeued(job[j]).status = "queued"
      /\ Requeued(job[j]).failures = job[j].failures
      /\ Requeued(job[j]).mapped = job[j].mapped
  BY <1>4 DEF Requeued, JobRow, JobStatus
<1>9. /\ row \in JobRow /\ row.status = "queued" /\ row.mapped = job[j].mapped
      /\ row.failures = IF job[j].mapped = "none" THEN 0 ELSE job[j].failures
  <2>1. job[j].mapped # "none" => job[j].failures # MappingBudget
    BY <1>2, <1>7 DEF Sound, JobRow
  <2>2. row = IF job[j].mapped = "none"
              THEN [Requeued(job[j]) EXCEPT !.failures = 0]
              ELSE Requeued(job[j])
    BY <2>1 DEF Restarted
  <2> HIDE DEF row
  <2> QED BY <1>7, <1>8, <2>2 DEF JobRow
<1> HIDE DEF row, c
<1>10. Sound(j, row, sense[j], c, Await(j))
  BY <1>1, <1>2, <1>4, <1>5, <1>7, <1>9 DEF Sound, Open, Route
<1> QED BY <1>1, <1>2, <1>3, <1>6, <1>10, FlightSound

\* Senses that failed are asked for again.
LEMMA RetrySensesStep ==
  ASSUME ReflectInv, NEW j \in Jobs, RetrySenses(j)
  PROVE  ReflectInv'
<1> DEFINE t == [Requeued(sense[j]) EXCEPT !.tries = 0]
<1>1. /\ job' = job /\ calls' = calls /\ flight' = flight
      /\ sense[j].status = "failed" /\ sense' = [sense EXCEPT ![j] = t]
  BY DEF RetrySenses
<1>2. Awaits(j, Await(j)) /\ Sound(j, job[j], sense[j], calls[j], Await(j))
  BY <1>1, FlightsStay DEF ReflectInv
<1>3. /\ job' = [job EXCEPT ![j] = job[j]]
      /\ calls' = [calls EXCEPT ![j] = calls[j]]
  BY <1>1, Same DEF ReflectInv
<1>4. PrepOK(t)
  BY <1>2, RequeuedRow DEF Sound
<1> HIDE DEF t
<1>5. Sound(j, job[j], t, calls[j], Await(j))
  BY <1>1, <1>2, <1>4, SoundSense
<1> QED BY <1>1, <1>2, <1>3, <1>5, FlightSound

\* At first no job has asked for anything.
LEMMA ReflectStart ==
  ASSUME ReflectInit
  PROVE  ReflectInv
<1>1. MappingBudget \in Nat /\ MappingBudget > 0 /\ PrepAttempts \in Nat
      /\ PrepAttempts > 1
  BY JobsAssumption, AttemptsAssumption
<1>2. PrepOK(NoRow)
  BY <1>1 DEF PrepOK, PrepRow, PrepStatus, NoRow
<1>3. ASSUME NEW j \in Jobs
      PROVE  Sound(j, job[j], sense[j], calls[j], Await(j))
  <2>1. Await(j) = "none"
    BY KindType DEF ReflectInit, Await, Flying, Idle
  <2>2. /\ job[j] \in JobRow /\ job[j].status = "absent"
        /\ job[j].failures = 0 /\ job[j].mapped = "none"
    BY <1>1 DEF ReflectInit, JobRow, JobStatus
  <2>3. /\ calls[j] \in CallRow /\ calls[j].mapping = 0
        /\ calls[j].content = 0 /\ calls[j].judged = 0
        /\ calls[j].resumed = 0
    BY DEF ReflectInit, CallRow
  <2>4. sense[j] \in {NoRow, [NoRow EXCEPT !.status = "ready"]}
    BY DEF ReflectInit
  <2>5. PrepOK(sense[j])
    <3>1. /\ NoRow \in PrepRow /\ NoRow.tries = 0
      BY <1>1 DEF PrepRow, PrepStatus, NoRow
    <3>2. [NoRow EXCEPT !.status = "ready"] \in PrepRow
          /\ [NoRow EXCEPT !.status = "ready"].tries = 0
          /\ [NoRow EXCEPT !.status = "ready"].status = "ready"
      BY <3>1 DEF PrepRow, PrepStatus
    <3> QED BY <1>1, <1>2, <2>4, <3>2 DEF PrepOK
  <2> QED BY <1>1, <2>1, <2>2, <2>3, <2>5 DEF Sound
<1>4. \A j \in Jobs : /\ job[j] \in JobRow /\ sense[j] \in PrepRow
                      /\ calls[j] \in CallRow
  BY <1>3 DEF Sound, PrepOK
<1>5. DOMAIN flight = Kinds /\ \A k \in Kinds : FlightOK(k, flight[k])
  BY DEF ReflectInit, FlightOK
<1>6. /\ job = [j \in Jobs |-> job[j]] /\ sense = [j \in Jobs |-> sense[j]]
      /\ calls = [j \in Jobs |-> calls[j]]
  BY DEF ReflectInit
<1> QED BY <1>3, <1>4, <1>5, <1>6 DEF ReflectInv

\* Every step of the reflection jobs keeps their invariant.
LEMMA ReflectStepSafe ==
  ASSUME ReflectInv, ReflectStep
  PROVE  ReflectInv'
<1>1. CASE DispatchTime \/ RetryDispatch
  BY <1>1, JobsStay DEF DispatchTime, RetryDispatch
<1>2. ASSUME NEW j \in Jobs, UsefulTime(j) \/ SettleUseful(j) PROVE ReflectInv'
  BY <1>2, JobsStay DEF UsefulTime, SettleUseful
<1> QED
  BY <1>1, <1>2, LocalPassStep, ClaimStep, FlightStepSafe, JobTimeStep,
     RetryJobStep, RetrySensesStep DEF ReflectStep

-----------------------------------------------------------------------------
(* The useful senses.                                                      *)

\* A row that may be tried has a try left, and a job was resumed for a row
\* there is.
UsefulInv ==
  /\ useful \in [Jobs -> PrepRow]
  /\ \A j \in Jobs : /\ PrepOK(useful[j])
                     /\ calls[j].resumed > 0 => useful[j].status # "absent"

\* The rows keep their tries in order, and none is taken away.
LEMMA UsefulRows ==
  ASSUME UsefulInv, NEW j \in Jobs, NEW row, useful' = [useful EXCEPT ![j] = row],
         PrepOK(row), row.status # "absent",
         \A i \in Jobs : calls'[i].resumed = calls[i].resumed
  PROVE  UsefulInv'
BY DEF UsefulInv, PrepOK

\* A pass resumes a job only for a row there is.
LEMMA UsefulPass ==
  ASSUME UsefulInv, ReflectInv, Depends
  PROVE  UsefulInv'
<1>1. ASSUME NEW j \in Jobs
      PROVE  /\ PrepOK(UsefulAfter(j))
             /\ CallsAfter(j).resumed > 0 => UsefulAfter(j).status # "absent"
  <2>1. PrepOK(useful[j]) /\ (calls[j].resumed > 0 => useful[j].status # "absent")
    BY DEF UsefulInv
  <2>2. CASE UsefulTurn(j)
    <3>1. useful[j].status # "absent"
      BY <2>2 DEF UsefulTurn, WaitsOn, Lost
    <3>2. UsefulAfter(j) = Recovered(useful[j])
      BY <2>2 DEF UsefulAfter
    <3> QED BY <2>1, <3>1, <3>2, RecoveredRow
  <2>3. CASE ~UsefulTurn(j)
    BY <2>1, <2>3 DEF UsefulAfter, CallsAfter
  <2> QED BY <2>2, <2>3
<1>2. useful' = [j \in Jobs |-> UsefulAfter(j)]
      /\ calls' = [j \in Jobs |-> CallsAfter(j)]
  BY DEF Depends
<1> QED BY <1>1, <1>2 DEF UsefulInv, PrepOK

\* No call is a resume; a request by hand forgets those there were.
LEMMA ResumesStay ==
  ASSUME ReflectInv, ReflectStep, ~LocalPass, NEW j \in Jobs
  PROVE  calls'[j].resumed \in {calls[j].resumed, 0}
<1>1. calls \in [Jobs -> CallRow]
  BY DEF ReflectInv
<1>2. ASSUME NEW k \in Kinds, AskMapping(k) \/ AskContent(k) \/ Judge(k)
      PROVE  calls'[j].resumed = calls[j].resumed
  <2>1. PICK i : \/ calls' = [calls EXCEPT ![i].mapping = @ + 1]
                 \/ calls' = [calls EXCEPT ![i].content = @ + 1]
                 \/ calls' = [calls EXCEPT ![i].judged = @ + 1]
    BY <1>2 DEF AskMapping, AskContent, Judge
  <2> QED BY <1>1, <2>1 DEF CallRow
<1>3. ASSUME NEW i \in Jobs, RetryJob(i)
      PROVE  calls'[j].resumed \in {calls[j].resumed, 0}
  <2> DEFINE c == [calls[i] EXCEPT !.mapping = 0, !.content = 0, !.resumed = 0]
  <2>1. calls' = [calls EXCEPT ![i] = c]
    BY <1>1, <1>3 DEF RetryJob, CallRow
  <2>2. c.resumed = 0
    BY <1>1 DEF CallRow
  <2> HIDE DEF c
  <2> QED BY <1>1, <2>1, <2>2
<1>4. ReflectStep => \/ LocalPass \/ calls' = calls
                     \/ \E k \in Kinds : FlightStep(k)
                     \/ \E i \in Jobs : RetryJob(i)
  BY DEF ReflectStep, Claim, DispatchTime, RetryDispatch, JobTime, SenseTime,
         RetrySenses, UsefulTime, SettleUseful
<1>5. \A k \in Kinds : FlightStep(k) =>
        AskMapping(k) \/ AskContent(k) \/ Judge(k) \/ calls' = calls
  BY DEF FlightStep, AskSenses, SensesReady, SensesFail, AskUseful,
         UsefulReturns, UsefulFails, KeepScope, Mapped, MappingFails, Fails
<1> QED BY <1>2, <1>3, <1>4, <1>5

\* A flight that asks for the useful senses, gets them or does not.
LEMMA UsefulFlight ==
  ASSUME ReflectInv, UsefulInv, NEW k \in Kinds,
         \/ SensesReady(k) \/ AskUseful(k) \/ UsefulReturns(k) \/ UsefulFails(k)
  PROVE  UsefulInv'
<1>1. Flying(k) /\ calls' = calls
  BY DEF SensesReady, AskUseful, UsefulReturns, UsefulFails, Admitted, At, Flying
<1>2. PICK j \in Jobs : j = flight[k].job
  BY <1>1, FlightFacts
<1>3. useful[j] \in PrepRow /\ PrepOK(useful[j]) /\ PrepOK(Recovered(useful[j]))
  BY RecoveredRow DEF UsefulInv
<1>4. ASSUME NEW status \in {"ready", "failed"},
             useful' = [useful EXCEPT ![j].status = status]
      PROVE  UsefulInv'
  <2> DEFINE row == [useful[j] EXCEPT !.status = status]
  <2>1. PrepOK(row) /\ row.status = status
    BY <1>3 DEF PrepOK, PrepRow, PrepStatus
  <2>2. useful' = [useful EXCEPT ![j] = row]
    BY <1>4
  <2> HIDE DEF row
  <2> QED BY <1>1, <2>1, <2>2, UsefulRows
<1>5. CASE AskUseful(k)
  <2> DEFINE u == Recovered(useful[j])
  <2>1. CASE /\ u.status = "absent" \/ Ripe(u)
             /\ useful' = [useful EXCEPT ![j] = Attempted(u)]
    <3>1. PrepOK(Attempted(u)) /\ Attempted(u).status = "running"
      BY <1>3, <2>1, AttemptedRow DEF Ripe
    <3> QED BY <1>1, <2>1, <3>1, UsefulRows
  <2>2. CASE /\ u.status # "absent" /\ useful' = [useful EXCEPT ![j] = u]
    BY <1>1, <1>3, <2>2, UsefulRows
  <2> QED BY <1>2, <1>5, <2>1, <2>2 DEF AskUseful
<1>6. CASE UsefulFails(k)
  <2> DEFINE u == IF useful[j].status = "running"
                  THEN PrepFailed(useful[j], TRUE) ELSE useful[j]
  <2>1. useful' = [useful EXCEPT ![j] = u]
    BY <1>2, <1>6 DEF UsefulFails
  <2>2. PrepOK(u) /\ (useful[j].status # "absent" => u.status # "absent")
    BY <1>3, PrepFailedRow
  <2>3. CASE useful[j].status # "absent"
    <3> HIDE DEF u
    <3> QED BY <1>1, <2>1, <2>2, <2>3, UsefulRows
  <2>4. CASE useful[j].status = "absent"
    <3>1. useful' = useful
      BY <2>1, <2>4, Same DEF UsefulInv
    <3> QED BY <1>1, <3>1 DEF UsefulInv
  <2> QED BY <2>3, <2>4
<1> QED BY <1>2, <1>4, <1>5, <1>6 DEF SensesReady, UsefulReturns

\* The clock and the operator.
LEMMA UsefulAside ==
  ASSUME ReflectInv, UsefulInv, NEW j \in Jobs, UsefulTime(j) \/ SettleUseful(j)
  PROVE  UsefulInv'
<1>1. calls' = calls /\ useful[j] \in PrepRow /\ PrepOK(useful[j])
  BY DEF UsefulTime, SettleUseful, UsefulInv
<1>2. CASE UsefulTime(j)
  <2>1. useful' = [useful EXCEPT ![j] = Later(useful[j])]
        /\ useful[j].status # "absent"
    BY <1>2 DEF UsefulTime, Timed, Held
  <2>2. PrepOK(Later(useful[j])) /\ Later(useful[j]).status = useful[j].status
    BY <1>1, LaterRow DEF PrepOK
  <2> QED BY <1>1, <2>1, <2>2, UsefulRows
<1>3. CASE SettleUseful(j)
  <2> DEFINE r == [Requeued(useful[j]) EXCEPT !.tries = 0]
             d == [useful[j] EXCEPT !.status = "ready"]
  <2>1. useful' = [useful EXCEPT ![j] = r] \/ useful' = [useful EXCEPT ![j] = d]
    BY <1>3 DEF SettleUseful
  <2>2. PrepOK(r) /\ r.status = "queued"
    BY <1>1, RequeuedRow
  <2>3. PrepOK(d) /\ d.status = "ready"
    BY <1>1 DEF PrepOK, PrepRow, PrepStatus
  <2> HIDE DEF r, d
  <2> QED BY <1>1, <2>1, <2>2, <2>3, UsefulRows
<1> QED BY <1>2, <1>3

\* Every step keeps the invariant of the useful senses.
LEMMA UsefulSafe ==
  ASSUME ReflectInv, UsefulInv,
         \/ ReflectStep \/ DispatchCut \/ UNCHANGED <<useful, calls>>
  PROVE  UsefulInv'
<1>1. CASE LocalPass \/ DispatchCut
  BY <1>1, UsefulPass DEF LocalPass, DispatchCut
<1>2. CASE UNCHANGED <<useful, calls>>
  BY <1>2 DEF UsefulInv
<1>3. CASE ReflectStep /\ ~LocalPass /\ useful' = useful
  <2>1. ASSUME NEW j \in Jobs, calls'[j].resumed > 0
        PROVE  useful[j].status # "absent"
    <3>1. calls[j].resumed > 0
      BY <1>3, <2>1, ResumesStay
    <3> QED BY <3>1 DEF UsefulInv
  <2> QED BY <1>3, <2>1 DEF UsefulInv
<1>4. \A k \in Kinds : FlightStep(k) =>
        \/ SensesReady(k) \/ AskUseful(k) \/ UsefulReturns(k) \/ UsefulFails(k)
        \/ useful' = useful
  BY DEF FlightStep, AskSenses, SensesFail, KeepScope, AskMapping, Mapped,
         MappingFails, AskContent, Judge, Fails
<1>5. ReflectStep =>
        \/ LocalPass \/ useful' = useful \/ \E k \in Kinds : FlightStep(k)
        \/ \E j \in Jobs : UsefulTime(j) \/ SettleUseful(j)
  BY DEF ReflectStep, Claim, DispatchTime, RetryDispatch, JobTime, SenseTime,
         RetryJob, RetrySenses
<1> QED BY <1>1, <1>2, <1>3, <1>4, <1>5, UsefulFlight, UsefulAside

\* At first nobody asked which senses are useful.
LEMMA UsefulStart ==
  ASSUME ReflectInit
  PROVE  UsefulInv
<1>1. PrepOK(NoRow) /\ NoRow.status = "absent"
  BY AttemptsAssumption DEF PrepOK, PrepRow, PrepStatus, NoRow
<1>2. useful = [j \in Jobs |-> NoRow] /\ \A j \in Jobs : calls[j].resumed = 0
  BY DEF ReflectInit
<1> QED BY <1>1, <1>2 DEF UsefulInv, PrepOK

-----------------------------------------------------------------------------
(* The practice of a word.                                                 *)

\* What was authored since the work was asked for took a try each, and work
\* that waits, or is being authored, has published nothing.
PracticeInv ==
  /\ PrepOK(practice) /\ PrepOK(selection)
  /\ step \in {"none", "selecting", "authoring"}
  /\ authored \in [calls : Nat, published : Nat]
  /\ authored.calls <= practice.tries /\ authored.published <= 1
  /\ authored.published = 1 => practice.status = "ready"
  /\ step = "selecting" => practice.status = "queued"
  /\ step = "authoring" => practice.status = "running"

\* A row that is asked for, delayed or given up keeps its tries.
LEMMA PausedRow ==
  ASSUME NEW row, PrepOK(row)
  PROVE  /\ PrepOK(Failed(row)) /\ Failed(row).status = "failed"
         /\ Failed(row).tries = row.tries
         /\ row.tries < PrepAttempts =>
              /\ PrepOK(Delayed(row)) /\ Delayed(row).status = "queued"
              /\ Delayed(row).tries = row.tries
         /\ row.tries < PrepAttempts =>
              /\ PrepOK(Requeued(row)) /\ Requeued(row).status = "queued"
              /\ Requeued(row).tries = row.tries
BY DEF PrepOK, PrepRow, PrepStatus, Failed, Delayed, Requeued

\* A row that ends as it should.
LEMMA ReadyRow ==
  ASSUME NEW row, PrepOK(row), NEW status \in {"ready", "paused", "empty"}
  PROVE  /\ PrepOK([row EXCEPT !.status = status])
         /\ [row EXCEPT !.status = status].status = status
         /\ [row EXCEPT !.status = status].tries = row.tries
<1>1. /\ [row EXCEPT !.status = status] \in PrepRow
      /\ [row EXCEPT !.status = status].status = status
      /\ [row EXCEPT !.status = status].tries = row.tries
  BY DEF PrepOK, PrepRow, PrepStatus
<1> QED BY <1>1 DEF PrepOK

\* A row as a step of the worker finds it: recovered, asked for, or as it was.
LEMMA PreparedRow ==
  ASSUME NEW row, PrepOK(row), NEW next \in Prepared(row)
  PROVE  /\ PrepOK(next) /\ next.tries = row.tries
         /\ \/ next = row
            \/ /\ row.status \in {"absent", "running"}
               /\ next.status \in {"queued", "failed"}
<1>1. PrepAttempts \in Nat /\ PrepAttempts > 1
  BY AttemptsAssumption
<1>2. CASE Lost(row)
  <2>1. next = PrepFailed(row, TRUE) /\ row.status = "running"
    BY <1>2 DEF Prepared, Lost
  <2> QED BY <2>1, PrepFailedRow
<1>3. CASE ~Lost(row) /\ row.status = "absent" /\ demand
  <2>1. row.tries < PrepAttempts
    BY <1>1, <1>3 DEF PrepOK
  <2>2. next \in {Requeued(row), Failed(row)}
    BY <1>3 DEF Prepared
  <2> QED BY <1>3, <2>1, <2>2, PausedRow
<1>4. CASE ~Lost(row) /\ ~(row.status = "absent" /\ demand)
  BY <1>4 DEF Prepared
<1> QED BY <1>2, <1>3, <1>4

\* Work that is not published yet has its tries to account for its calls.
LEMMA PracticeMoves ==
  ASSUME PracticeInv, authored' = authored, PrepOK(practice'),
         PrepOK(selection'), practice'.tries = practice.tries,
         practice.status = "ready" => practice'.status = "ready",
         \/ step' = "none"
         \/ step' = "selecting" /\ practice'.status = "queued"
         \/ step' = step /\ practice'.status = practice.status
  PROVE  PracticeInv'
BY DEF PracticeInv

\* A pass takes a row that is ready for nothing else.
LEMMA DispatchesSafe ==
  ASSUME PracticeInv, Dispatches
  PROVE  PracticeInv'
<1>1. \A next \in Prepared(practice) :
        /\ PrepOK(next) /\ next.tries = practice.tries
        /\ practice.status = "ready" => next.status = "ready"
  BY PreparedRow DEF PracticeInv
<1>2. CASE PracticePass
  BY <1>1, <1>2, PracticeMoves DEF PracticePass, PracticeInv
<1>3. CASE AskSelection
  <2>1. PICK row \in Prepared(practice) :
          LET s == Recovered(selection)
          IN  /\ Ripe(row)
              /\ \/ /\ s.status = "absent" \/ Ripe(s)
                    /\ selection' = Attempted(s) /\ practice' = row
                    /\ step' = "selecting"
                 \/ /\ s.status = "running" \/ (s.status = "queued" /\ ~s.due)
                    /\ selection' = s /\ practice' = Delayed(row)
                    /\ UNCHANGED step
                 \/ /\ s.status = "failed"
                    /\ selection' = s /\ practice' = Failed(row)
                    /\ UNCHANGED step
    BY <1>3 DEF AskSelection
  <2> DEFINE s == Recovered(selection)
  <2>2. authored' = authored /\ step = "none"
    BY <1>3 DEF AskSelection
  <2>3. /\ PrepOK(row) /\ row.tries = practice.tries /\ row.status = "queued"
        /\ row.tries < PrepAttempts /\ practice.status # "ready"
    BY <1>1, <2>1 DEF Ripe, PrepOK
  <2>4. PrepOK(s)
    BY RecoveredRow DEF PracticeInv
  <2>5. s.status = "absent" \/ Ripe(s) => PrepOK(Attempted(s))
    BY <2>4, AttemptedRow DEF Ripe
  <2>6. PrepOK(selection')
    BY <2>1, <2>4, <2>5
  <2>7. /\ PrepOK(practice') /\ practice'.tries = practice.tries
        /\ step' = "selecting" => practice'.status = "queued"
    BY <2>1, <2>2, <2>3, PausedRow
  <2>8. step' \in {"none", "selecting"}
    BY <2>1, <2>2
  <2> QED BY <2>2, <2>3, <2>6, <2>7, <2>8, PracticeMoves
<1>4. CASE Author
  <2>1. PICK row \in Prepared(practice) :
          Ripe(row) /\ practice' = Attempted(row)
    BY <1>4 DEF Author
  <2>2. /\ PrepOK(row) /\ row.tries = practice.tries /\ row.status = "queued"
        /\ practice.status # "ready"
    BY <1>1, <2>1 DEF Ripe
  <2>3. /\ PrepOK(practice') /\ practice'.status = "running"
        /\ practice'.tries = practice.tries + 1
    BY <2>1, <2>2, AttemptedRow
  <2>4. /\ authored \in [calls : Nat, published : Nat]
        /\ authored.published \in Nat /\ authored.published <= 1
        /\ authored.published # 1 /\ authored.calls <= practice.tries
        /\ practice.tries \in Nat /\ authored.calls \in Nat
    BY <2>2 DEF PracticeInv, PrepOK, PrepRow
  <2>5. /\ authored' \in [calls : Nat, published : Nat]
        /\ authored'.calls = authored.calls + 1 /\ authored'.published = 0
    BY <1>4, <2>4 DEF Author
  <2>6. step' = "authoring" /\ selection' = selection
    BY <1>4 DEF Author
  <2> QED BY <2>3, <2>4, <2>5, <2>6 DEF PracticeInv
<1> QED BY <1>2, <1>3, <1>4 DEF Dispatches

\* What a provider answers publishes once, and ends or delays the work.
LEMMA ReturnsSafe ==
  ASSUME PracticeInv, Returns
  PROVE  PracticeInv'
<1>1. PrepOK(practice) /\ PrepOK(selection)
  BY DEF PracticeInv
<1>2. \A b \in BOOLEAN :
        /\ PrepOK(PrepFailed(selection, b)) /\ PrepOK(PrepFailed(practice, b))
        /\ PrepFailed(practice, b).tries = practice.tries
  BY <1>1, PrepFailedRow
<1>3. /\ PrepOK(Failed(practice)) /\ Failed(practice).tries = practice.tries
      /\ PrepOK(Failed(selection))
  BY <1>1, PausedRow
<1>4. /\ PrepOK([selection EXCEPT !.status = "ready"])
      /\ PrepOK([practice EXCEPT !.status = "ready"])
      /\ [practice EXCEPT !.status = "ready"].tries = practice.tries
      /\ [practice EXCEPT !.status = "ready"].status = "ready"
  BY <1>1, ReadyRow
<1>5. CASE Selected
  BY <1>1, <1>4, <1>5, PracticeMoves DEF Selected
<1>6. CASE NothingSelected
  <2>1. practice.status # "ready"
    BY <1>6 DEF NothingSelected, PracticeInv
  <2> QED BY <1>3, <1>6, <2>1, PracticeMoves DEF NothingSelected
<1>7. CASE SelectionFails
  <2>1. practice.status = "queued"
    BY <1>7 DEF SelectionFails, PracticeInv
  <2>2. PrepOK(Delayed(practice)) /\ Delayed(practice).tries = practice.tries
    BY <1>1, <2>1, PausedRow DEF PrepOK
  <2>3. practice' \in {Failed(practice), Delayed(practice)}
    BY <1>7 DEF SelectionFails
  <2> QED BY <1>2, <1>3, <1>7, <2>1, <2>2, <2>3, PracticeMoves
          DEF SelectionFails
<1>8. CASE Publish
  <2>1. practice.status = "running"
    BY <1>8 DEF Publish, PracticeInv
  <2>2. /\ authored \in [calls : Nat, published : Nat]
        /\ authored.published = 0 /\ authored.calls <= practice.tries
    BY <2>1 DEF PracticeInv
  <2>3. /\ authored' \in [calls : Nat, published : Nat]
        /\ authored'.calls = authored.calls /\ authored'.published = 1
    BY <1>8, <2>2 DEF Publish
  <2>4. practice' = [practice EXCEPT !.status = "ready"] /\ step' = "none"
        /\ selection' = selection
    BY <1>8 DEF Publish
  <2> QED BY <1>1, <1>4, <2>2, <2>3, <2>4 DEF PracticeInv
<1>9. CASE AuthoringFails
  <2>1. practice.status = "running"
    BY <1>9 DEF AuthoringFails, PracticeInv
  <2> QED BY <1>1, <1>2, <1>9, <2>1, PracticeMoves DEF AuthoringFails
<1> QED BY <1>5, <1>6, <1>7, <1>8, <1>9 DEF Returns

\* The clock, and an operator who asks again for what failed.
LEMMA PracticeAsideSafe ==
  ASSUME PracticeInv, PracticeTime \/ SelectionTime \/ RetryPractice
  PROVE  PracticeInv'
<1>1. /\ PrepOK(Later(practice)) /\ Later(practice).tries = practice.tries
      /\ Later(practice).status = practice.status
      /\ PrepOK(Later(selection))
  BY LaterRow DEF PracticeInv, PrepOK
<1>2. CASE PracticeTime
  BY <1>1, <1>2, PracticeMoves DEF PracticeTime, PracticeInv
<1>3. CASE SelectionTime
  BY <1>1, <1>3, PracticeMoves DEF SelectionTime, PracticeInv
<1>4. CASE RetryPractice
  <2>1. /\ PrepOK(practice') /\ practice'.status = "queued"
        /\ practice'.tries = 0
    BY <1>4, RequeuedRow DEF RetryPractice, PracticeInv
  <2>2. PrepOK(selection')
    BY <1>4, RequeuedRow DEF RetryPractice, PracticeInv
  <2>3. practice.status = "failed" /\ step' = step
    BY <1>4 DEF RetryPractice
  <2>4. /\ authored \in [calls : Nat, published : Nat]
        /\ authored.published = 0 /\ step = "none"
    BY <2>3 DEF PracticeInv
  <2>5. /\ authored' \in [calls : Nat, published : Nat]
        /\ authored'.calls = 0 /\ authored'.published = 0
    BY <1>4, <2>4 DEF RetryPractice
  <2> QED BY <2>1, <2>2, <2>3, <2>4, <2>5 DEF PracticeInv
<1> QED BY <1>2, <1>3, <1>4

\* Every step of the practice worker keeps its invariant, and so does its end.
LEMMA PracticeStepSafe ==
  ASSUME PracticeInv, PracticeStep \/ StepLost
  PROVE  PracticeInv'
<1>1. CASE StepLost
  BY <1>1, PracticeMoves DEF StepLost, PracticeInv
<1> QED BY <1>1, DispatchesSafe, ReturnsSafe, PracticeAsideSafe DEF PracticeStep

\* A row nobody asked for.
LEMMA FreshRow == PrepOK(NoRow) /\ NoRow.tries = 0 /\ NoRow.status = "absent"
<1>1. PrepAttempts \in Nat /\ PrepAttempts > 1
  BY AttemptsAssumption
<1> QED BY <1>1 DEF PrepOK, PrepRow, PrepStatus, NoRow

\* At first nothing was asked for.
LEMMA PracticeStart ==
  ASSUME PracticeInit
  PROVE  PracticeInv
BY FreshRow DEF PracticeInit, PracticeInv

-----------------------------------------------------------------------------
(* The preparation of a word.                                              *)

Publications == {"none", "shared", "withdrawn"}
TeachingCalls == {"lesson", "exercises", "finish"}
Drafting == TeachingCalls \cup {"content"}

SharedRow == [ content : Publications, package : Publications,
               current : BOOLEAN, claim : {"none"} \cup Stages,
               late : BOOLEAN ]
MadeRow == [ content : Nat, lesson : Nat, exercises : Nat,
             contents : Nat, packages : Nat ]
DraftRow == [at : {"none", "senses"} \cup Drafting, stage : Stages]

WordTypes ==
  /\ work \in [Stages -> PrepRow] /\ \A s \in Stages : PrepOK(work[s])
  /\ PrepOK(inventory) /\ shared \in SharedRow
  /\ kept \subseteq {"lesson", "exercises"}
  /\ made \in MadeRow /\ drafting \in DraftRow

\* Every call took a try of its stage.
CallsCounted ==
  /\ made.content <= work["bootstrap"].tries
  /\ made.lesson <= work["teaching"].tries
  /\ made.exercises <= work["teaching"].tries

\* Teaching is published for content, content for senses; each once, and what
\* is published is not given up.
PublishedOnce ==
  /\ made.contents <= 1 /\ made.packages <= 1
  /\ shared.content = "none" =>
       made.contents = 0 /\ shared.package = "none"
  /\ shared.package = "none" => made.packages = 0
  /\ \A s \in Stages : Published(s) => work[s].status # "paused"
  /\ inventory.status = "empty" => shared.content = "none"

\* An attempt holds its row while it lasts, and what it is to publish is not
\* published; it asks for the exercises once.
DraftHolds ==
  /\ drafting.at = "senses" =>
       /\ drafting.stage = "bootstrap" /\ shared.content = "none"
       /\ work["bootstrap"].status = "queued"
  /\ drafting.at \in Drafting => work[drafting.stage].status = "running"
  /\ drafting.at = "content" =>
       /\ drafting.stage = "bootstrap" /\ shared.content = "none"
       /\ inventory.status = "ready"
  /\ drafting.at \in TeachingCalls =>
       drafting.stage = "teaching" /\ shared.package = "none"
  /\ drafting.at = "lesson" => made.exercises < work["teaching"].tries

WordInv == WordTypes /\ CallsCounted /\ PublishedOnce /\ DraftHolds

\* Rows of work that are given up or delayed keep their tries.
LEMMA DraftFailedRow ==
  ASSUME NEW row, PrepOK(row)
  PROVE  /\ PrepOK(Paused(row)) /\ Paused(row).status = "paused"
         /\ Paused(row).tries = row.tries
         /\ PrepOK(DraftFailed(row)) /\ DraftFailed(row).tries = row.tries
         /\ DraftFailed(row).status \in {"queued", "paused"}
<1>1. /\ PrepOK(Paused(row)) /\ Paused(row).status = "paused"
      /\ Paused(row).tries = row.tries
  BY DEF PrepOK, PrepRow, PrepStatus, Paused
<1>2. DraftFailed(row) = IF row.tries < PrepAttempts THEN Delayed(row)
                         ELSE Paused(row)
  BY DEF DraftFailed
<1> QED BY <1>1, <1>2, PausedRow

\* A word whose material does not change keeps its invariant if its rows keep
\* their tries, what is published is not paused, and an attempt that goes on
\* finds its row as it was.
LEMMA WordMoves ==
  ASSUME WordInv, shared' = shared, made' = made, kept' = kept,
         work' \in [Stages -> PrepRow],
         \A s \in Stages : /\ PrepOK(work'[s])
                           /\ work'[s].tries = work[s].tries
                           /\ Published(s) => work'[s].status # "paused",
         PrepOK(inventory'),
         inventory'.status = "empty" => shared.content = "none",
         \/ drafting' = Asleep
         \/ /\ drafting' = drafting
            /\ drafting.at # "none" => inventory' = inventory
            /\ \A s \in Stages : work[s].status \in {"queued", "running"} =>
                                   work'[s].status = work[s].status
         \/ /\ drafting' = [at |-> "senses", stage |-> "bootstrap"]
            /\ shared.content = "none" /\ work'["bootstrap"].status = "queued"
  PROVE  WordInv'
<1>1. WordTypes'
  BY DEF WordInv, WordTypes, Asleep, DraftRow, Drafting, Stages
<1>2. CallsCounted'
  BY DEF WordInv, CallsCounted, Stages
<1>3. PublishedOnce'
  BY DEF WordInv, PublishedOnce, Published
<1>4. DraftHolds'
  <2>1. CASE drafting' = Asleep
    BY <2>1 DEF DraftHolds, Asleep, Drafting, TeachingCalls
  <2>2. CASE /\ drafting' = drafting
             /\ drafting.at # "none" => inventory' = inventory
             /\ \A s \in Stages : work[s].status \in {"queued", "running"} =>
                                    work'[s].status = work[s].status
    <3>1. drafting.stage \in Stages /\ "bootstrap" \in Stages
          /\ "teaching" \in Stages
      BY DEF WordInv, WordTypes, DraftRow, Stages
    <3> QED BY <2>2, <3>1 DEF WordInv, DraftHolds
  <2>3. CASE /\ drafting' = [at |-> "senses", stage |-> "bootstrap"]
             /\ shared.content = "none" /\ work'["bootstrap"].status = "queued"
    BY <2>3 DEF DraftHolds, Drafting, TeachingCalls
  <2> QED BY <2>1, <2>2, <2>3
<1> QED BY <1>1, <1>2, <1>3, <1>4 DEF WordInv

\* Where nothing but requests, rests and the operator's counts change.
LEMMA WordStays ==
  ASSUME WordInv, UNCHANGED <<work, shared, kept, inventory, made>>,
         drafting' = drafting \/ drafting' = Asleep
  PROVE  WordInv'
BY WordMoves DEF WordInv, WordTypes, PublishedOnce

\* Work a reserve asks for is queued, with the tries it has.
LEMMA DemandedRow ==
  ASSUME NEW all \in [Stages -> PrepRow], \A s \in Stages : PrepOK(all[s])
  PROVE  /\ Demanded(all) \in [Stages -> PrepRow]
         /\ \A s \in Stages :
              /\ PrepOK(Demanded(all)[s])
              /\ Demanded(all)[s].tries = all[s].tries
              /\ all[s].status # "absent" => Demanded(all)[s] = all[s]
              /\ all[s].status = "absent" => Demanded(all)[s].status = "queued"
<1>1. PrepAttempts \in Nat /\ PrepAttempts > 1
  BY AttemptsAssumption
<1>2. ASSUME NEW s \in Stages, all[s].status = "absent"
      PROVE  /\ PrepOK(Requeued(all[s])) /\ Requeued(all[s]).status = "queued"
             /\ Requeued(all[s]).tries = all[s].tries
  BY <1>1, <1>2, PausedRow DEF PrepOK
<1>3. \A s \in Stages :
        Demanded(all)[s] = IF all[s].status = "absent"
                            THEN Requeued(all[s]) ELSE all[s]
  BY DEF Demanded
<1>4. \A s \in Stages : PrepOK(Demanded(all)[s])
  BY <1>2, <1>3
<1>5. Demanded(all) \in [Stages -> PrepRow]
  BY <1>3, <1>4 DEF Demanded, PrepOK
<1> QED BY <1>2, <1>3, <1>4, <1>5

\* Material that is prepared again starts with nothing published, and with
\* what its unfinished work has cost.
LEMMA RenewStep ==
  ASSUME WordInv, ~Unfinished, Renew,
         UNCHANGED <<inventory, drafting>>
  PROVE  WordInv'
<1> DEFINE all == [s \in Stages |-> Renewed(work[s])]
<1>1. PrepAttempts \in Nat /\ PrepAttempts > 1
  BY AttemptsAssumption
<1>2. \A s \in Stages : PrepOK(work[s]) /\ work[s].status # "running"
  BY DEF WordInv, WordTypes, Unfinished
<1>3. ASSUME NEW s \in Stages
      PROVE  /\ PrepOK(all[s])
             /\ work[s].status # "ready" => all[s] = work[s]
             /\ all[s].tries = IF work[s].status = "ready" THEN 0
                                ELSE work[s].tries
  <2>1. all[s] = IF work[s].status = "ready"
                  THEN [Requeued(work[s]) EXCEPT !.tries = 0] ELSE work[s]
    BY DEF Renewed
  <2> HIDE DEF all
  <2> QED BY <1>2, <2>1, RequeuedRow
<1>4. all \in [Stages -> PrepRow]
  <2>1. \A s \in Stages : all[s] \in PrepRow
    BY <1>3 DEF PrepOK
  <2>2. all = [s \in Stages |-> all[s]]
    OBVIOUS
  <2> HIDE DEF all
  <2> QED BY <2>1, <2>2
<1>5. work' = Demanded(all)
  BY DEF Renew
<1> HIDE DEF all
<1>6. PrepOK(inventory) /\ drafting \in DraftRow /\ made \in MadeRow
  BY DEF WordInv, WordTypes
<1>7. /\ shared'.content = "none" /\ shared'.package = "none"
      /\ shared' \in SharedRow /\ kept' = {}
  BY DEF Renew, SharedRow, Publications
<1>8. /\ made'.content = Carried("bootstrap", "content")
      /\ made'.lesson = Carried("teaching", "lesson")
      /\ made'.exercises = Carried("teaching", "exercises")
      /\ made'.contents = 0 /\ made'.packages = 0
  BY DEF Renew
<1>9. made' \in MadeRow
  BY <1>6, <1>8 DEF Renew, MadeRow, Carried
<1>10. \A s \in Stages : PrepOK(all[s])
  BY <1>2, <1>3
<1>11. /\ work' \in [Stages -> PrepRow]
       /\ \A s \in Stages :
            /\ PrepOK(work'[s])
            /\ work'[s].tries = IF work[s].status = "ready" THEN 0
                                ELSE work[s].tries
            /\ work[s].status = "queued" => work'[s].status = "queued"
  BY <1>3, <1>4, <1>5, <1>10, DemandedRow
<1>12. WordTypes'
  BY <1>6, <1>7, <1>9, <1>11 DEF WordTypes
<1>13. CallsCounted'
  BY <1>8, <1>11 DEF WordInv, CallsCounted, Carried, Stages
<1>14. PublishedOnce'
  BY <1>7, <1>8 DEF PublishedOnce, Published
<1>15. DraftHolds'
  <2>1. drafting.at \notin Drafting
    BY <1>2, <1>6 DEF WordInv, DraftHolds, DraftRow
  <2> QED BY <1>7, <1>11, <2>1
          DEF WordInv, DraftHolds, Drafting, TeachingCalls, Stages
<1> QED BY <1>12, <1>13, <1>14, <1>15 DEF WordInv

\* A reserve that is reconciled asks for a word, anew perhaps.
LEMMA ReconcileStep ==
  ASSUME WordInv, Reconcile
  PROVE  WordInv'
<1>1. UNCHANGED <<inventory, drafting>>
  BY DEF Reconcile
<1>2. CASE UNCHANGED <<work, shared, kept, made>>
  BY <1>1, <1>2, WordStays
<1>3. CASE ~Unfinished /\ Renew
  BY <1>1, <1>3, RenewStep
<1>4. CASE work' = Demanded(work) /\ UNCHANGED <<shared, kept, made>>
  <2>1. work \in [Stages -> PrepRow] /\ \A s \in Stages : PrepOK(work[s])
    BY DEF WordInv, WordTypes
  <2>2. \A s \in Stages : Published(s) => work'[s].status # "paused"
    BY <1>4, <2>1, DemandedRow DEF WordInv, PublishedOnce
  <2>3. \A s \in Stages : work[s].status \in {"queued", "running"} =>
                            work'[s].status = work[s].status
    BY <1>4, <2>1, DemandedRow
  <2> QED BY <1>1, <1>4, <2>1, <2>2, <2>3, WordMoves, DemandedRow
          DEF WordInv, WordTypes, PublishedOnce
<1> QED BY <1>2, <1>3, <1>4 DEF Reconcile

\* What was published and not heard of is recovered, never given up.
LEMMA RecoverStep ==
  ASSUME WordInv, Recover
  PROVE  WordInv'
<1>1. \A s \in Stages : PrepOK(work[s])
  BY DEF WordInv, WordTypes
<1>2. ASSUME NEW s \in Stages
      PROVE  /\ PrepOK(Interruption(s))
             /\ Interruption(s).tries = work[s].tries
             /\ Published(s) => Interruption(s).status # "paused"
  <2>1. CASE Published(s)
    <3> DEFINE row == [work[s] EXCEPT !.status = "ready", !.late = FALSE]
    <3>1. /\ row \in PrepRow /\ row.status = "ready"
          /\ row.tries = work[s].tries
      BY <1>1 DEF PrepOK, PrepRow, PrepStatus
    <3>2. Interruption(s) = row
      BY <2>1 DEF Interruption
    <3> HIDE DEF row
    <3> QED BY <3>1, <3>2 DEF PrepOK
  <2>2. CASE ~Published(s)
    BY <1>1, <2>2, DraftFailedRow DEF Interruption
  <2> QED BY <2>1, <2>2
<1>3. \A s \in Stages : work'[s] \in {Interruption(s), work[s]}
  BY DEF Recover
<1>4. \A s \in Stages : Published(s) => work[s].status # "paused"
  BY DEF WordInv, PublishedOnce
<1>5. \A s \in Stages : /\ PrepOK(work'[s]) /\ work'[s].tries = work[s].tries
                        /\ Published(s) => work'[s].status # "paused"
  BY <1>1, <1>2, <1>3, <1>4
<1>6. work' \in [Stages -> PrepRow]
  BY <1>5 DEF Recover, PrepOK
<1>7. /\ UNCHANGED <<shared, made, kept, inventory, drafting>>
      /\ drafting.at = "none" /\ drafting' \in DraftRow
  BY DEF Recover, WordInv, WordTypes
<1>8. WordTypes'
  BY <1>5, <1>6, <1>7 DEF WordInv, WordTypes
<1>9. CallsCounted'
  BY <1>5, <1>7 DEF WordInv, CallsCounted, Stages
<1>10. PublishedOnce'
  BY <1>5, <1>7 DEF WordInv, PublishedOnce, Published
<1>11. DraftHolds'
  BY <1>7 DEF DraftHolds, Drafting, TeachingCalls
<1> QED BY <1>8, <1>9, <1>10, <1>11 DEF WordInv

\* What stages there are.
LEMMA StageFacts ==
  ASSUME WordInv
  PROVE  /\ work \in [Stages -> PrepRow] /\ \A s \in Stages : PrepOK(work[s])
         /\ PrepOK(inventory) /\ "bootstrap" \in Stages /\ "teaching" \in Stages
         /\ \A s \in Stages : s = "bootstrap" \/ s = "teaching"
         /\ drafting.stage \in Stages
         /\ \A s \in Stages : Published(s) => work[s].status # "paused"
BY DEF WordInv, WordTypes, PublishedOnce, Stages, DraftRow

\* One row of work moves, the tries it has left alone; it is not paused if its
\* stage is published.
LEMMA RowMoves ==
  ASSUME WordInv, NEW s \in Stages, NEW row, PrepOK(row),
         row.tries = work[s].tries, Published(s) => row.status # "paused",
         work' = [work EXCEPT ![s] = row]
  PROVE  /\ work' \in [Stages -> PrepRow] /\ work'[s] = row
         /\ \A t \in Stages : /\ PrepOK(work'[t])
                              /\ work'[t].tries = work[t].tries
                              /\ Published(t) => work'[t].status # "paused"
BY StageFacts DEF PrepOK

\* What waits of a word that cannot be taught is paused.
LEMMA PausedAllRows ==
  ASSUME WordInv, shared.content = "none", work' = PausedAll
  PROVE  /\ work' \in [Stages -> PrepRow]
         /\ \A t \in Stages : /\ PrepOK(work'[t])
                              /\ work'[t].tries = work[t].tries
                              /\ Published(t) => work'[t].status # "paused"
<1>1. \A t \in Stages : work'[t] \in {work[t], Paused(work[t])}
  BY DEF PausedAll
<1>2. \A t \in Stages : PrepOK(work'[t]) /\ work'[t].tries = work[t].tries
  BY <1>1, StageFacts, DraftFailedRow
<1>3. \A t \in Stages : ~Published(t)
  BY DEF Published
<1> QED BY <1>2, <1>3 DEF PausedAll, PrepOK

\* Work ends that there is nothing to author for.
LEMMA NothingStep ==
  ASSUME WordInv, NEW s \in Stages, NothingToAuthor(s)
  PROVE  WordInv'
<1>1. /\ UNCHANGED <<shared, kept, inventory, drafting, made>>
      /\ drafting.at = "none" /\ work[s].status = "queued"
  BY DEF NothingToAuthor, Taken, Ripe
<1>2. inventory.status = "empty" => shared.content = "none"
  BY DEF WordInv, PublishedOnce
<1>3. /\ work' \in [Stages -> PrepRow]
      /\ \A t \in Stages : /\ PrepOK(work'[t])
                           /\ work'[t].tries = work[t].tries
                           /\ Published(t) => work'[t].status # "paused"
  <2>1. CASE inventory.status = "empty" /\ work' = PausedAll
    BY <1>2, <2>1, PausedAllRows
  <2>2. CASE work' = [work EXCEPT ![s].status = "ready"]
    <3>1. /\ PrepOK([work[s] EXCEPT !.status = "ready"])
          /\ [work[s] EXCEPT !.status = "ready"].status = "ready"
          /\ [work[s] EXCEPT !.status = "ready"].tries = work[s].tries
      BY StageFacts, ReadyRow
    <3> QED BY <2>2, <3>1, RowMoves
  <2>3. CASE ~Published(s) /\ work' = [work EXCEPT ![s] = Paused(@)]
    <3>1. PrepOK(Paused(work[s])) /\ Paused(work[s]).tries = work[s].tries
      BY StageFacts, DraftFailedRow
    <3> QED BY <2>3, <3>1, RowMoves
  <2> QED BY <2>1, <2>2, <2>3 DEF NothingToAuthor
<1>4. WordTypes'
  BY <1>1, <1>3 DEF WordInv, WordTypes
<1>5. CallsCounted'
  BY <1>1, <1>3, StageFacts DEF WordInv, CallsCounted
<1>6. PublishedOnce'
  BY <1>1, <1>3 DEF WordInv, PublishedOnce, Published
<1>7. DraftHolds'
  BY <1>1 DEF DraftHolds, Drafting, TeachingCalls
<1> QED BY <1>4, <1>5, <1>6, <1>7 DEF WordInv

\* The senses are asked for before there is content.
LEMMA AskInventoryStep ==
  ASSUME WordInv, AskInventory
  PROVE  WordInv'
<1> DEFINE row == Recovered(inventory)
<1>1. /\ UNCHANGED <<shared, kept, made>> /\ shared.content = "none"
      /\ work["bootstrap"].status = "queued" /\ drafting.at = "none"
      /\ inventory.status \notin {"ready", "empty"}
  BY DEF AskInventory, Taken, Ripe
<1>2. \A t \in Stages : ~Published(t)
  BY <1>1 DEF Published
<1>3. /\ PrepOK(work["bootstrap"]) /\ work["bootstrap"].tries < PrepAttempts
      /\ PrepOK(row)
  BY <1>1, StageFacts, RecoveredRow DEF PrepOK
<1>4. CASE /\ row.status = "absent" \/ Ripe(row)
           /\ inventory' = Attempted(row) /\ work' = work
           /\ drafting' = [at |-> "senses", stage |-> "bootstrap"]
  <2>1. PrepOK(inventory')
    BY <1>3, <1>4, AttemptedRow DEF Ripe
  <2> QED BY <1>1, <1>4, <2>1, StageFacts, WordMoves
<1>5. CASE /\ inventory' = row /\ drafting' = drafting
           /\ work' \in { [work EXCEPT !["bootstrap"] = Delayed(@)],
                          [work EXCEPT !["bootstrap"] = Paused(@)] }
  <2>1. /\ PrepOK(Paused(work["bootstrap"]))
        /\ Paused(work["bootstrap"]).tries = work["bootstrap"].tries
        /\ PrepOK(Delayed(work["bootstrap"]))
        /\ Delayed(work["bootstrap"]).tries = work["bootstrap"].tries
    BY <1>3, DraftFailedRow, PausedRow
  <2>2. /\ work' \in [Stages -> PrepRow]
        /\ \A t \in Stages : /\ PrepOK(work'[t])
                             /\ work'[t].tries = work[t].tries
                             /\ Published(t) => work'[t].status # "paused"
    BY <1>2, <1>5, <2>1, RowMoves, StageFacts
  <2>3. WordTypes'
    BY <1>1, <1>3, <1>5, <2>2 DEF WordInv, WordTypes
  <2>4. CallsCounted'
    BY <1>1, <2>2, StageFacts DEF WordInv, CallsCounted
  <2>5. PublishedOnce'
    BY <1>1, <1>2, <2>2 DEF WordInv, PublishedOnce, Published
  <2>6. DraftHolds'
    BY <1>1, <1>5 DEF DraftHolds, Drafting, TeachingCalls
  <2> QED BY <2>3, <2>4, <2>5, <2>6 DEF WordInv
<1> QED BY <1>4, <1>5 DEF AskInventory

\* An attempt begins: the try it takes accounts for its first call.
LEMMA BeginStep ==
  ASSUME WordInv, NEW s \in Stages, Begin(s), work[s].status = "queued",
         drafting.at \in {"none", "senses"}, kept' = kept, PrepOK(inventory'),
         inventory'.status = "empty" => shared.content = "none",
         s = "bootstrap" => inventory'.status = "ready",
         s = "teaching" => shared.content = "shared"
  PROVE  WordInv'
<1>1. /\ PrepOK(Attempted(work[s])) /\ Attempted(work[s]).status = "running"
      /\ Attempted(work[s]).tries = work[s].tries + 1
  BY StageFacts, AttemptedRow
<1>2. work' = [work EXCEPT ![s] = Attempted(work[s])]
  BY DEF Begin
<1>3. /\ work' \in [Stages -> PrepRow] /\ work'[s] = Attempted(work[s])
      /\ \A t \in Stages : /\ PrepOK(work'[t])
                           /\ t # s => work'[t] = work[t]
  BY <1>1, <1>2, StageFacts DEF PrepOK
<1>4. /\ shared' \in SharedRow /\ shared'.content = shared.content
      /\ shared'.package = shared.package
  BY DEF Begin, WordInv, WordTypes, SharedRow
<1>5. drafting'.at = FirstCall(s) /\ drafting'.stage = s
  BY DEF Begin
<1>6. /\ s = "bootstrap" => FirstCall(s) = "content"
      /\ s = "teaching" => FirstCall(s) \in TeachingCalls
  BY DEF FirstCall, TeachingCalls
<1>7. drafting' \in DraftRow
  BY <1>6, StageFacts DEF Begin, DraftRow, Drafting, TeachingCalls
<1>8. /\ made \in MadeRow /\ made.content \in Nat /\ made.lesson \in Nat
      /\ made.exercises \in Nat
  BY DEF WordInv, WordTypes, MadeRow
<1>9. /\ work["bootstrap"].tries \in Nat /\ work["teaching"].tries \in Nat
  BY StageFacts DEF PrepOK, PrepRow
<1>10. made' = Asking(FirstCall(s))
  BY DEF Begin
<1>11. /\ made' \in MadeRow
       /\ made'.contents = made.contents /\ made'.packages = made.packages
       /\ made'.content =
            made.content + (IF FirstCall(s) = "content" THEN 1 ELSE 0)
       /\ made'.lesson =
            made.lesson + (IF FirstCall(s) = "lesson" THEN 1 ELSE 0)
       /\ made'.exercises =
            made.exercises + (IF FirstCall(s) = "exercises" THEN 1 ELSE 0)
  <2>1. CASE FirstCall(s) = "finish"
    BY <1>8, <1>10, <2>1 DEF Asking
  <2>2. CASE FirstCall(s) = "content"
    BY <1>8, <1>10, <2>2 DEF Asking, MadeRow
  <2>3. CASE FirstCall(s) = "lesson"
    BY <1>8, <1>10, <2>3 DEF Asking, MadeRow
  <2>4. CASE FirstCall(s) = "exercises"
    BY <1>8, <1>10, <2>4 DEF Asking, MadeRow
  <2> QED BY <1>6, <2>1, <2>2, <2>3, <2>4, StageFacts DEF TeachingCalls
<1>12. WordTypes'
  BY <1>3, <1>4, <1>7, <1>11 DEF WordInv, WordTypes
<1>13. CASE s = "bootstrap"
  <2>1. /\ made'.content = made.content + 1 /\ made'.lesson = made.lesson
        /\ made'.exercises = made.exercises /\ drafting'.at = "content"
    BY <1>5, <1>6, <1>8, <1>11, <1>13
  <2>2. /\ work'["bootstrap"].tries = work["bootstrap"].tries + 1
        /\ work'["bootstrap"].status = "running"
        /\ work'["teaching"] = work["teaching"]
    BY <1>1, <1>3, <1>13, StageFacts
  <2>3. CallsCounted'
    BY <1>8, <1>9, <2>1, <2>2 DEF WordInv, CallsCounted
  <2>4. shared.content = "none"
    BY <1>13 DEF Begin, Artifact
  <2>5. PublishedOnce'
    BY <1>4, <1>11, <2>4 DEF WordInv, PublishedOnce, Published
  <2>6. DraftHolds'
    BY <1>4, <1>5, <1>13, <2>1, <2>2, <2>4 DEF DraftHolds, TeachingCalls
  <2> QED BY <1>12, <2>3, <2>5, <2>6 DEF WordInv
<1>14. CASE s = "teaching"
  <2>1. /\ drafting'.at \in TeachingCalls /\ drafting'.stage = "teaching"
        /\ made'.content = made.content /\ made'.lesson <= made.lesson + 1
        /\ made'.exercises <= made.exercises + 1
        /\ drafting'.at = "lesson" => made'.exercises = made.exercises
    BY <1>5, <1>6, <1>8, <1>11, <1>14 DEF TeachingCalls
  <2>2. /\ work'["teaching"].tries = work["teaching"].tries + 1
        /\ work'["teaching"].status = "running"
        /\ work'["bootstrap"] = work["bootstrap"]
    BY <1>1, <1>3, <1>14, StageFacts
  <2>3. made' \in MadeRow /\ made'.lesson \in Nat /\ made'.exercises \in Nat
    BY <1>11 DEF MadeRow
  <2>4. /\ made.content <= work["bootstrap"].tries
        /\ made.lesson <= work["teaching"].tries
        /\ made.exercises <= work["teaching"].tries
    BY DEF WordInv, CallsCounted
  <2>5. CallsCounted'
    BY <1>8, <1>9, <2>1, <2>2, <2>3, <2>4 DEF CallsCounted
  <2>6. shared.package = "none"
    BY <1>14 DEF Begin, Artifact
  <2>7. PublishedOnce'
    <3>1. \A t \in Stages : Published(t)' => work'[t].status # "paused"
      <4>1. Published("bootstrap")' => work'["bootstrap"].status # "paused"
        BY <1>4, <2>2, StageFacts DEF Published
      <4>2. work'["teaching"].status # "paused"
        BY <2>2
      <4> QED BY <4>1, <4>2, StageFacts
    <3> QED BY <1>4, <1>11, <3>1 DEF WordInv, PublishedOnce
  <2>8. DraftHolds'
    BY <1>4, <1>8, <1>9, <2>1, <2>2, <2>4, <2>6
       DEF DraftHolds, TeachingCalls
  <2> QED BY <1>12, <2>5, <2>7, <2>8 DEF WordInv
<1> QED BY <1>13, <1>14, StageFacts

\* A stage is claimed that waits, with its source there.
LEMMA ClaimStageStep ==
  ASSUME WordInv, NEW s \in Stages, ClaimStage(s)
  PROVE  WordInv'
<1>1. /\ work[s].status = "queued" /\ drafting.at = "none" /\ Begin(s)
      /\ UNCHANGED <<kept, inventory>> /\ inventory.status # "empty"
      /\ s = "bootstrap" => inventory.status = "ready"
      /\ s = "teaching" => shared.content = "shared"
  BY DEF ClaimStage, Authored, Taken, Ripe
<1>2. PrepOK(inventory)
  BY StageFacts
<1> QED BY <1>1, <1>2, BeginStep

\* The senses arrive: the content is asked for, or the word cannot be taught.
LEMMA EstablishedStep ==
  ASSUME WordInv, InventoryEstablished
  PROVE  WordInv'
<1>1. /\ kept' = kept /\ drafting.at = "senses" /\ shared.content = "none"
      /\ work["bootstrap"].status = "queued"
  BY DEF InventoryEstablished, WordInv, DraftHolds
<1>2. \A t \in Stages : ~Published(t)
  BY <1>1 DEF Published
<1>3. /\ PrepOK([inventory EXCEPT !.status = "empty"])
      /\ PrepOK([inventory EXCEPT !.status = "ready"])
      /\ [inventory EXCEPT !.status = "ready"].status = "ready"
  BY StageFacts, ReadyRow
<1>4. PrepOK(inventory')
  BY <1>3 DEF InventoryEstablished
<1>5. CASE work' = PausedAll /\ drafting' = Asleep /\ UNCHANGED <<shared, made>>
  BY <1>1, <1>4, <1>5, PausedAllRows, WordMoves
<1>6. CASE /\ work' = [work EXCEPT !["bootstrap"] = Paused(@)]
           /\ drafting' = Asleep /\ UNCHANGED <<shared, made>>
  <2>1. /\ PrepOK(Paused(work["bootstrap"]))
        /\ Paused(work["bootstrap"]).tries = work["bootstrap"].tries
    BY StageFacts, DraftFailedRow
  <2> QED BY <1>1, <1>2, <1>4, <1>6, <2>1, StageFacts, RowMoves, WordMoves
<1>7. CASE /\ inventory' = [inventory EXCEPT !.status = "ready"]
           /\ Begin("bootstrap")
  BY <1>1, <1>3, <1>4, <1>7, StageFacts, BeginStep
<1>8. CASE drafting' = Asleep /\ UNCHANGED <<work, shared, made>>
  BY <1>1, <1>2, <1>4, <1>8, StageFacts, WordMoves
<1> QED BY <1>5, <1>6, <1>7, <1>8 DEF InventoryEstablished

\* They do not arrive.
LEMMA InventoryFailsStep ==
  ASSUME WordInv, InventoryFails
  PROVE  WordInv'
<1>1. /\ UNCHANGED <<kept, shared, made>> /\ drafting' = Asleep
      /\ shared.content = "none" /\ work["bootstrap"].status = "queued"
  BY DEF InventoryFails, WordInv, DraftHolds
<1>2. \A t \in Stages : ~Published(t)
  BY <1>1 DEF Published
<1>3. PrepOK(inventory')
  BY StageFacts, PrepFailedRow DEF InventoryFails
<1>4. /\ PrepOK(Paused(work["bootstrap"]))
      /\ Paused(work["bootstrap"]).tries = work["bootstrap"].tries
      /\ PrepOK(Delayed(work["bootstrap"]))
      /\ Delayed(work["bootstrap"]).tries = work["bootstrap"].tries
  BY <1>1, StageFacts, DraftFailedRow, PausedRow DEF PrepOK
<1>5. \/ work' = [work EXCEPT !["bootstrap"] = Paused(work["bootstrap"])]
      \/ work' = [work EXCEPT !["bootstrap"] = Delayed(work["bootstrap"])]
  BY DEF InventoryFails
<1>6. /\ work' \in [Stages -> PrepRow]
      /\ \A t \in Stages : /\ PrepOK(work'[t])
                           /\ work'[t].tries = work[t].tries
                           /\ Published(t) => work'[t].status # "paused"
  BY <1>2, <1>4, <1>5, RowMoves, StageFacts
<1> QED BY <1>1, <1>3, <1>6, WordMoves

\* A part is kept, and what follows is asked for: each once in an attempt.
LEMMA KeepStep ==
  ASSUME WordInv, Keep
  PROVE  WordInv'
<1>1. /\ UNCHANGED <<work, shared, inventory>>
      /\ drafting.at \in {"lesson", "exercises"}
      /\ kept' = kept \cup {drafting.at}
  BY DEF Keep
<1>2. PICK next \in {"exercises", "finish"} :
        /\ next = "exercises" => drafting.at = "lesson"
        /\ drafting' = [drafting EXCEPT !.at = next] /\ made' = Asking(next)
  BY DEF Keep
<1>3. /\ drafting \in DraftRow /\ made \in MadeRow /\ made.exercises \in Nat
      /\ kept' \subseteq {"lesson", "exercises"}
  BY <1>1 DEF WordInv, WordTypes, MadeRow
<1>4. /\ drafting' \in DraftRow /\ drafting'.at = next
      /\ drafting'.stage = drafting.stage
  BY <1>2, <1>3 DEF DraftRow, Drafting, TeachingCalls
<1>5. /\ made' \in MadeRow /\ made'.content = made.content
      /\ made'.lesson = made.lesson /\ made'.contents = made.contents
      /\ made'.packages = made.packages
      /\ next = "exercises" => made'.exercises = made.exercises + 1
      /\ next = "finish" => made'.exercises = made.exercises
  <2>1. CASE next = "finish"
    BY <1>2, <1>3, <2>1 DEF Asking
  <2>2. CASE next = "exercises"
    BY <1>2, <1>3, <2>2 DEF Asking, MadeRow
  <2> QED BY <2>1, <2>2
<1>6. /\ drafting.stage = "teaching" /\ shared.package = "none"
      /\ work["teaching"].status = "running"
      /\ drafting.at = "lesson" => made.exercises < work["teaching"].tries
  BY <1>1 DEF WordInv, DraftHolds, TeachingCalls, Drafting
<1>7. work["teaching"].tries \in Nat
  BY StageFacts DEF PrepOK, PrepRow
<1>8. WordTypes'
  BY <1>1, <1>3, <1>4, <1>5 DEF WordInv, WordTypes
<1>9. CallsCounted'
  BY <1>1, <1>2, <1>3, <1>5, <1>6, <1>7 DEF WordInv, CallsCounted
<1>10. PublishedOnce'
  BY <1>1, <1>5 DEF WordInv, PublishedOnce, Published
<1>11. DraftHolds'
  BY <1>1, <1>4, <1>6 DEF DraftHolds, TeachingCalls, Drafting
<1> QED BY <1>8, <1>9, <1>10, <1>11 DEF WordInv

\* What is published is published once, whether or not the end of its work is
\* written with it.
LEMMA PublicationStep ==
  ASSUME WordInv, Publication, UNCHANGED <<kept, inventory>>,
         drafting' = Asleep,
         work' \in {work, [work EXCEPT ![drafting.stage].status = "ready"]}
  PROVE  WordInv'
<1>1. /\ drafting.at \in {"content", "finish"} /\ ClaimHolds
      /\ work[drafting.stage].status = "running" /\ drafting.stage \in Stages
  BY StageFacts DEF Publication, WordInv, DraftHolds, Drafting, TeachingCalls
<1>2. /\ PrepOK([work[drafting.stage] EXCEPT !.status = "ready"])
      /\ [work[drafting.stage] EXCEPT !.status = "ready"].status = "ready"
      /\ [work[drafting.stage] EXCEPT !.status = "ready"].tries
           = work[drafting.stage].tries
  BY <1>1, StageFacts, ReadyRow
<1>3. /\ work' \in [Stages -> PrepRow]
      /\ \A t \in Stages : /\ PrepOK(work'[t])
                           /\ work'[t].tries = work[t].tries
                           /\ Published(t) => work'[t].status # "paused"
      /\ work'[drafting.stage].status # "paused"
  <2>1. CASE work' = work
    BY <1>1, <2>1, StageFacts
  <2>2. CASE work' = [work EXCEPT ![drafting.stage].status = "ready"]
    <3>1. work' = [work EXCEPT ![drafting.stage] =
                     [work[drafting.stage] EXCEPT !.status = "ready"]]
      BY <2>2
    <3> QED BY <1>1, <1>2, <3>1, RowMoves
  <2> QED BY <2>1, <2>2
<1>4. shared \in SharedRow /\ made \in MadeRow
  BY DEF WordInv, WordTypes
<1>5. DraftHolds'
  BY DEF DraftHolds, Asleep, Drafting, TeachingCalls
<1>6. drafting' \in DraftRow
  BY DEF Asleep, DraftRow, Stages
<1>7. CASE drafting.at = "content"
  <2>1. /\ drafting.stage = "bootstrap" /\ shared.content = "none"
        /\ inventory.status = "ready" /\ shared.package = "none"
        /\ made.contents = 0 /\ made.packages = 0
    BY <1>7 DEF WordInv, DraftHolds, PublishedOnce
  <2>2. /\ shared' \in SharedRow /\ shared'.content = "shared"
        /\ shared'.package = "none"
    BY <1>4, <2>1 DEF Publication, SharedRow, Publications
  <2>3. /\ made' \in MadeRow /\ made'.contents = 1 /\ made'.packages = 0
        /\ made'.content = made.content /\ made'.lesson = made.lesson
        /\ made'.exercises = made.exercises
    BY <1>4, <2>1 DEF Publication, MadeRow
  <2>4. WordTypes'
    BY <1>3, <1>6, <2>2, <2>3 DEF WordInv, WordTypes
  <2>5. CallsCounted'
    BY <1>3, <2>3, StageFacts DEF WordInv, CallsCounted
  <2>6. \A t \in Stages : Published(t)' => t = "bootstrap"
    BY <2>2, StageFacts DEF Published
  <2>7. PublishedOnce'
    BY <1>3, <2>1, <2>2, <2>3, <2>6 DEF PublishedOnce
  <2> QED BY <1>5, <2>4, <2>5, <2>7 DEF WordInv
<1>8. CASE drafting.at = "finish"
  <2>1. /\ drafting.stage = "teaching" /\ shared.content = "shared"
        /\ shared.package = "none" /\ made.packages = 0
    BY <1>1, <1>8 DEF WordInv, DraftHolds, PublishedOnce, TeachingCalls,
                      ClaimHolds
  <2>2. /\ shared' \in SharedRow /\ shared'.content = "shared"
        /\ shared'.package = "shared"
    BY <1>4, <2>1 DEF Publication, SharedRow, Publications
  <2>3. /\ made' \in MadeRow /\ made'.contents = made.contents
        /\ made'.packages = 1
        /\ made'.content = made.content /\ made'.lesson = made.lesson
        /\ made'.exercises = made.exercises
    BY <1>4, <2>1 DEF Publication, MadeRow
  <2>4. WordTypes'
    BY <1>3, <1>6, <2>2, <2>3 DEF WordInv, WordTypes
  <2>5. CallsCounted'
    BY <1>3, <2>3, StageFacts DEF WordInv, CallsCounted
  <2>6. Published("bootstrap") /\ \A t \in Stages : work'[t].status # "paused"
    BY <1>3, <2>1, StageFacts DEF Published
  <2>7. made.contents <= 1 /\ inventory'.status # "empty"
    BY <2>1 DEF WordInv, PublishedOnce
  <2>8. PublishedOnce'
    BY <2>2, <2>3, <2>6, <2>7 DEF PublishedOnce
  <2> QED BY <1>5, <2>4, <2>5, <2>8 DEF WordInv
<1> QED BY <1>1, <1>7, <1>8

\* An attempt that fails has published nothing.
LEMMA DraftFailsStep ==
  ASSUME WordInv, DraftFails
  PROVE  WordInv'
<1>1. /\ UNCHANGED <<kept, inventory, made>> /\ drafting' = Asleep
      /\ drafting.at \in Drafting /\ drafting.stage \in Stages
      /\ work' = [work EXCEPT ![drafting.stage] =
                    DraftFailed(work[drafting.stage])]
  BY StageFacts DEF DraftFails, Drafting, TeachingCalls
<1>2. ~Published(drafting.stage)
  BY <1>1 DEF WordInv, DraftHolds, Drafting, Published
<1>3. /\ PrepOK(DraftFailed(work[drafting.stage]))
      /\ DraftFailed(work[drafting.stage]).tries = work[drafting.stage].tries
  BY <1>1, StageFacts, DraftFailedRow
<1>4. /\ work' \in [Stages -> PrepRow]
      /\ \A t \in Stages : /\ PrepOK(work'[t])
                           /\ work'[t].tries = work[t].tries
                           /\ Published(t) => work'[t].status # "paused"
  BY <1>1, <1>2, <1>3, RowMoves
<1>5. /\ shared' \in SharedRow /\ shared'.content = shared.content
      /\ shared'.package = shared.package
  BY DEF DraftFails, WordInv, WordTypes, SharedRow
<1>6. WordTypes'
  BY <1>1, <1>4, <1>5 DEF WordInv, WordTypes, Asleep, DraftRow, Stages
<1>7. CallsCounted'
  BY <1>1, <1>4, StageFacts DEF WordInv, CallsCounted
<1>8. PublishedOnce'
  BY <1>1, <1>4, <1>5 DEF WordInv, PublishedOnce, Published
<1>9. DraftHolds'
  BY <1>1 DEF DraftHolds, Asleep, Drafting, TeachingCalls
<1> QED BY <1>6, <1>7, <1>8, <1>9 DEF WordInv

\* Work that paused is revived by an operator, its calls counted anew; it was
\* not published.
LEMMA ReviveStep ==
  ASSUME WordInv, NEW s \in Stages, Revive(s)
  PROVE  WordInv'
<1> DEFINE row == [Requeued(work[s]) EXCEPT !.tries = 0]
<1>1. /\ UNCHANGED <<shared, kept, drafting>> /\ work[s].status = "paused"
      /\ work' = [work EXCEPT ![s] = row]
  BY DEF Revive
<1>2. PrepOK(row) /\ row.status = "queued" /\ row.tries = 0
  BY StageFacts, RequeuedRow
<1> HIDE DEF row
<1>3. /\ work' \in [Stages -> PrepRow] /\ work'[s] = row
      /\ \A t \in Stages : PrepOK(work'[t]) /\ (t # s => work'[t] = work[t])
  BY <1>1, <1>2, StageFacts DEF PrepOK
<1>4. /\ PrepOK(inventory')
      /\ inventory'.status = "empty" => inventory.status = "empty"
      /\ inventory.status = "ready" => inventory'.status = "ready"
  BY StageFacts, RequeuedRow DEF Revive
<1>5. /\ made \in MadeRow /\ made.lesson \in Nat /\ made.exercises \in Nat
      /\ made.content \in Nat
  BY DEF WordInv, WordTypes, MadeRow
<1>6. /\ made' \in MadeRow
      /\ made'.contents = made.contents /\ made'.packages = made.packages
      /\ s = "bootstrap" => /\ made'.content = 0 /\ made'.lesson = made.lesson
                            /\ made'.exercises = made.exercises
      /\ s = "teaching" => /\ made'.content = made.content
                           /\ made'.lesson = 0 /\ made'.exercises = 0
  <2>1. CASE s = "bootstrap"
    BY <1>5, <2>1 DEF Revive, MadeRow
  <2>2. CASE s = "teaching"
    BY <1>5, <2>2 DEF Revive, MadeRow
  <2> QED BY <2>1, <2>2, StageFacts
<1>7. WordTypes'
  BY <1>1, <1>3, <1>4, <1>6 DEF WordInv, WordTypes
<1>8. CallsCounted'
  BY <1>2, <1>3, <1>6, StageFacts DEF WordInv, CallsCounted
<1>9. PublishedOnce'
  BY <1>1, <1>2, <1>3, <1>4, <1>6 DEF WordInv, PublishedOnce, Published
<1>10. DraftHolds'
  <2>1. drafting.at \in Drafting => drafting.stage # s
    BY <1>1 DEF WordInv, DraftHolds
  <2>2. drafting.at = "senses" => s # "bootstrap"
    BY <1>1 DEF WordInv, DraftHolds
  <2>3. drafting.at = "lesson" => s = "bootstrap"
    BY <2>1, StageFacts DEF WordInv, DraftHolds, Drafting, TeachingCalls
  <2> QED BY <1>1, <1>3, <1>4, <1>6, <2>1, <2>2, <2>3, StageFacts
          DEF WordInv, DraftHolds
<1> QED BY <1>7, <1>8, <1>9, <1>10 DEF WordInv

\* What changes of the shared row alone: what is published is withdrawn, or
\* claims move.
LEMMA SharedMoves ==
  ASSUME WordInv, UNCHANGED <<kept, inventory, made>>, shared' \in SharedRow,
         shared'.content = "none" <=> shared.content = "none",
         shared'.package = "none" <=> shared.package = "none",
         \A s \in Stages : Published(s)' => Published(s),
         work' \in [Stages -> PrepRow],
         \A s \in Stages : PrepOK(work'[s]) /\ work'[s].tries = work[s].tries
                           /\ work'[s].status = work[s].status,
         drafting' = drafting \/ drafting' = Asleep
  PROVE  WordInv'
<1>1. WordTypes'
  BY DEF WordInv, WordTypes, Asleep, DraftRow, Stages
<1>2. CallsCounted'
  BY StageFacts DEF WordInv, CallsCounted
<1>3. PublishedOnce'
  BY DEF WordInv, PublishedOnce
<1>4. DraftHolds'
  <2>1. CASE drafting' = drafting
    BY <2>1, StageFacts DEF WordInv, DraftHolds
  <2>2. CASE drafting' = Asleep
    BY <2>2 DEF DraftHolds, Asleep, Drafting, TeachingCalls
  <2> QED BY <2>1, <2>2
<1> QED BY <1>1, <1>2, <1>3, <1>4 DEF WordInv

\* What is published is withdrawn.
LEMMA WithdrawStep ==
  ASSUME WordInv, Withdraw
  PROVE  WordInv'
<1>1. shared \in SharedRow
  BY DEF WordInv, WordTypes
<1>2. UNCHANGED <<kept, inventory, made, work, drafting>>
  BY DEF Withdraw
<1>3. CASE shared.content = "shared"
           /\ shared' = [shared EXCEPT !.content = "withdrawn"]
  <2>1. /\ shared' \in SharedRow /\ shared'.content = "withdrawn"
        /\ shared'.package = shared.package
    BY <1>1, <1>3 DEF SharedRow, Publications
  <2>2. \A s \in Stages : ~Published(s)'
    BY <2>1 DEF Published
  <2> QED BY <1>2, <1>3, <2>1, <2>2, StageFacts, SharedMoves
<1>4. CASE shared.package = "shared"
           /\ shared' = [shared EXCEPT !.package = "withdrawn"]
  <2>1. /\ shared' \in SharedRow /\ shared'.content = shared.content
        /\ shared'.package = "withdrawn"
    BY <1>1, <1>4 DEF SharedRow, Publications
  <2>2. \A s \in Stages : Published(s)' => Published(s)
    BY <2>1 DEF Published
  <2> QED BY <1>2, <1>4, <2>1, <2>2, StageFacts, SharedMoves
<1> QED BY <1>3, <1>4 DEF Withdraw

\* A claim that is taken or runs out leaves what is published.
LEMMA ClaimMoves ==
  ASSUME WordInv, UNCHANGED <<kept, inventory, made>>,
         NEW claim \in {"none"} \cup Stages, NEW late \in BOOLEAN,
         shared' = [shared EXCEPT !.claim = claim, !.late = late],
         work' \in [Stages -> PrepRow],
         \A s \in Stages : PrepOK(work'[s]) /\ work'[s].tries = work[s].tries
                           /\ work'[s].status = work[s].status,
         drafting' = drafting \/ drafting' = Asleep
  PROVE  WordInv'
<1>1. /\ shared' \in SharedRow /\ shared'.content = shared.content
      /\ shared'.package = shared.package
  BY DEF WordInv, WordTypes, SharedRow
<1>2. \A s \in Stages : Published(s)' => Published(s)
  BY <1>1 DEF Published
<1> QED BY <1>1, <1>2, SharedMoves

\* The clock.
LEMMA WordTimeStep ==
  ASSUME WordInv,
         (\E s \in Stages : StageTime(s)) \/ ClaimTime \/ InventoryTime
  PROVE  WordInv'
<1>1. shared \in SharedRow
  BY DEF WordInv, WordTypes
<1>2. ASSUME NEW s \in Stages, StageTime(s) PROVE WordInv'
  <2>1. /\ PrepOK(Later(work[s])) /\ Later(work[s]).tries = work[s].tries
        /\ Later(work[s]).status = work[s].status
    BY StageFacts, LaterRow DEF PrepOK
  <2>2. /\ UNCHANGED <<kept, inventory, made, drafting>>
        /\ work' = [work EXCEPT ![s] = Later(work[s])]
    BY <1>2 DEF StageTime
  <2>3. /\ work' \in [Stages -> PrepRow]
        /\ \A t \in Stages : PrepOK(work'[t]) /\ work'[t].tries = work[t].tries
                             /\ work'[t].status = work[t].status
    BY <2>1, <2>2, StageFacts DEF PrepOK
  <2>4. /\ shared' \in SharedRow /\ shared'.content = shared.content
        /\ shared'.package = shared.package
    BY <1>1, <1>2 DEF StageTime, SharedRow
  <2>5. \A t \in Stages : Published(t)' => Published(t)
    BY <2>4 DEF Published
  <2> QED BY <2>2, <2>3, <2>4, <2>5, SharedMoves
<1>3. CASE ClaimTime
  <2>1. /\ shared' \in SharedRow /\ shared'.content = shared.content
        /\ shared'.package = shared.package
        /\ UNCHANGED <<kept, inventory, made, drafting, work>>
    BY <1>1, <1>3 DEF ClaimTime, SharedRow
  <2>2. \A t \in Stages : Published(t)' => Published(t)
    BY <2>1 DEF Published
  <2> QED BY <2>1, <2>2, StageFacts, SharedMoves
<1>4. CASE InventoryTime
  <2>1. /\ UNCHANGED <<work, shared, kept, drafting, made>>
        /\ inventory' = Later(inventory)
    BY <1>4 DEF InventoryTime
  <2>2. /\ PrepOK(inventory') /\ inventory'.status = inventory.status
    BY <2>1, StageFacts, LaterRow DEF PrepOK
  <2>3. WordTypes' /\ CallsCounted' /\ PublishedOnce' /\ DraftHolds'
    BY <2>1, <2>2 DEF WordInv, WordTypes, CallsCounted, PublishedOnce,
                      DraftHolds, Published
  <2> QED BY <2>3 DEF WordInv
<1> QED BY <1>2, <1>3, <1>4

\* A process that dies, between two transactions perhaps.
LEMMA DraftCutStep ==
  ASSUME WordInv, DraftCut
  PROVE  WordInv'
<1>1. UNCHANGED <<work, kept, inventory>> /\ drafting' = Asleep
  BY DEF DraftCut
<1>2. CASE Publication
  BY <1>1, <1>2, PublicationStep
<1>3. ASSUME NEW s \in Stages, UNCHANGED made,
             shared' = [shared EXCEPT !.claim = s, !.late = FALSE]
      PROVE  WordInv'
  BY <1>1, <1>3, StageFacts, ClaimMoves
<1> QED BY <1>2, <1>3 DEF DraftCut

\* At first the word was not prepared, or was under an earlier contract.
LEMMA WordStart ==
  ASSUME WordInit
  PROVE  WordInv
<1>1. PrepAttempts \in Nat /\ PrepAttempts > 1 /\ 1 <= PrepAttempts
  BY AttemptsAssumption
<1>2. drafting \in DraftRow /\ drafting.at = "none"
  BY DEF WordInit, Asleep, DraftRow, Stages
<1>3. DraftHolds
  BY <1>2 DEF DraftHolds, Drafting, TeachingCalls
<1>4. CASE /\ work = [s \in Stages |-> NoRow] /\ kept = {}
           /\ shared = [ content |-> "none", package |-> "none",
                         current |-> FALSE, claim |-> "none",
                         late |-> FALSE ]
           /\ inventory = NoRow /\ made = Unmade
  <2>1. WordTypes
    BY <1>2, <1>4, FreshRow
       DEF WordTypes, PrepOK, SharedRow, MadeRow, Publications, Unmade
  <2>2. CallsCounted /\ PublishedOnce
    BY <1>1, <1>4, FreshRow
       DEF CallsCounted, PublishedOnce, Published, Unmade, Stages
  <2> QED BY <1>3, <2>1, <2>2 DEF WordInv
<1>5. ASSUME NEW status \in {"ready", "queued", "running", "paused"},
             work = [ bootstrap |-> Known,
                      teaching |-> IF status = "paused"
                                   THEN Tried(status, PrepAttempts)
                                   ELSE Tried(status, 1) ],
             shared = [ content |-> "shared",
                        package |-> IF status = "ready" THEN "shared"
                                    ELSE "none",
                        current |-> FALSE, late |-> FALSE,
                        claim |-> IF status = "running" THEN "teaching"
                                  ELSE "none" ],
             kept = {"lesson"}, inventory = Known,
             made = [Unmade EXCEPT !.lesson = 1,
                                   !.exercises = work["teaching"].tries]
      PROVE  WordInv
  <2>1. \A st \in {"ready", "queued", "running", "paused"}, n \in Nat :
          /\ Tried(st, n).status = st /\ Tried(st, n).tries = n
          /\ n <= PrepAttempts => Tried(st, n) \in PrepRow
    <3> DEFINE AnyRow == [ status : PrepStatus, due : BOOLEAN, late : BOOLEAN,
                           tries : Nat ]
    <3>1. TAKE st \in {"ready", "queued", "running", "paused"}, n \in Nat
    <3>2. NoRow \in AnyRow
      BY DEF NoRow, PrepStatus
    <3>3. PICK row : row = Tried(st, n)
      OBVIOUS
    <3>4. /\ row.status = st /\ row.tries = n /\ row \in AnyRow
      BY <3>1, <3>2, <3>3 DEF Tried, PrepStatus
    <3>5. n <= PrepAttempts => row \in PrepRow
      BY <1>1, <3>1, <3>4 DEF PrepRow
    <3> QED BY <3>3, <3>4, <3>5
  <2>2. /\ PrepOK(Known) /\ Known.status = "ready" /\ Known.tries = 1
    BY <1>1, <2>1 DEF Known, PrepOK
  <2>3. /\ PrepOK(work["teaching"]) /\ work["teaching"].status = status
        /\ work["teaching"].tries \in Nat /\ 1 <= work["teaching"].tries
        /\ work["bootstrap"] = Known
    BY <1>1, <1>5, <2>1 DEF PrepOK
  <2>4. /\ work \in [Stages -> PrepRow] /\ \A s \in Stages : PrepOK(work[s])
    BY <1>5, <2>2, <2>3 DEF Stages, PrepOK
  <2>5. /\ shared \in SharedRow /\ shared.content = "shared"
        /\ shared.package = "shared" => status = "ready"
    BY <1>5 DEF SharedRow, Publications, Stages
  <2>6. /\ made \in MadeRow /\ made.content = 0 /\ made.lesson = 1
        /\ made.exercises = work["teaching"].tries
        /\ made.contents = 0 /\ made.packages = 0
    BY <1>5, <2>3 DEF Unmade, MadeRow
  <2>7. WordTypes
    BY <1>2, <1>5, <2>2, <2>4, <2>5, <2>6 DEF WordTypes
  <2>8. CallsCounted
    BY <2>2, <2>3, <2>6 DEF CallsCounted
  <2>9. PublishedOnce
    BY <1>5, <2>2, <2>3, <2>5, <2>6 DEF PublishedOnce, Published, Stages
  <2> QED BY <1>3, <2>7, <2>8, <2>9 DEF WordInv
<1> QED BY <1>4, <1>5 DEF WordInit

\* Every step of the word worker keeps its invariant, and so does its end.
LEMMA WordStepSafe ==
  ASSUME WordInv, WordStep \/ DraftLost \/ DraftCut
  PROVE  WordInv'
<1>1. CASE DraftLost \/ Rest
  BY <1>1, WordStays DEF DraftLost, Rest
<1>2. CASE Drafts
  BY <1>2, AskInventoryStep, NothingStep, ClaimStageStep DEF Drafts
<1>3. CASE PublishStage
  BY <1>3, PublicationStep DEF PublishStage
<1>4. CASE DraftReturns
  BY <1>3, <1>4, EstablishedStep, InventoryFailsStep, KeepStep, DraftFailsStep
     DEF DraftReturns
<1> QED
  BY <1>1, <1>2, <1>4, ReconcileStep, RecoverStep, ReviveStep, WithdrawStep,
     WordTimeStep, DraftCutStep DEF WordStep

-----------------------------------------------------------------------------
(* What the work costs.                                                    *)

WorkInv ==
  ReflectInv /\ UsefulInv /\ retries \in Nat /\ PracticeInv /\ WordInv

\* What is done by hand is counted.
LEMMA RetriesCounted ==
  ASSUME retries \in Nat, ReflectStep \/ DispatchCut \/ UNCHANGED retries
  PROVE  retries' \in Nat
<1>1. retries' = retries \/ retries' = retries + 1
  BY DEF ReflectStep, LocalPass, DispatchCut, Claim, FlightStep, AskSenses,
         SensesReady, SensesFail, AskUseful, UsefulReturns, UsefulFails,
         KeepScope, AskMapping, Mapped, MappingFails, AskContent, Judge, Fails,
         DispatchTime, RetryDispatch, JobTime, SenseTime, UsefulTime, RetryJob,
         RetrySenses, SettleUseful, Explicit
<1> QED BY <1>1

\* A worker that does not move keeps its invariant.
LEMMA PracticeStays ==
  ASSUME PracticeInv, UNCHANGED prep
  PROVE  PracticeInv'
BY DEF PracticeInv, prep

\* Every step of the service keeps the invariant of its workers.
LEMMA WorkStep ==
  ASSUME WorkInv, [Next]_vars
  PROVE  WorkInv'
<1>1. ReflectInv /\ UsefulInv /\ retries \in Nat /\ PracticeInv /\ WordInv
  BY DEF WorkInv
<1>2. UNCHANGED reflect => ReflectInv' /\ UsefulInv' /\ retries' \in Nat
  BY <1>1, JobsStay, UsefulSafe, RetriesCounted DEF reflect, rows
<1>3. UNCHANGED prep => PracticeInv'
  BY <1>1, PracticeStays
<1>4. UNCHANGED wordprep => WordInv'
  BY <1>1, WordStays DEF wordprep
<1>5. CASE ReflectStep /\ Aside
  BY <1>1, <1>3, <1>4, <1>5, ReflectStepSafe, UsefulSafe,
     RetriesCounted DEF Aside, WorkInv
<1>6. CASE PracticeStep /\ Apart
  BY <1>1, <1>2, <1>4, <1>6, PracticeStepSafe DEF Apart, WorkInv
<1>7. CASE WordStep /\ Beside
  BY <1>1, <1>2, <1>3, <1>7, WordStepSafe DEF Beside, WorkInv
<1>8. CASE UNCHANGED <<reflect, prep, wordprep>>
  BY <1>2, <1>3, <1>4, <1>8 DEF WorkInv
<1>9. CASE Stopped
  BY <1>1, <1>2, <1>9, PracticeStepSafe, WordStepSafe DEF Stopped, WorkInv
<1>10. CASE Dies
  <2>1. PracticeInv' /\ WordInv'
    BY <1>1, <1>10, PracticeStepSafe, WordStepSafe DEF Dies
  <2>2. FlightsLost => ReflectInv' /\ UsefulInv' /\ retries' \in Nat
    BY <1>1, JobsStay, UsefulSafe, RetriesCounted DEF FlightsLost, rows
  <2>3. DispatchCut => ReflectInv' /\ UsefulInv' /\ retries' \in Nat
    BY <1>1, LocalPassStep, UsefulSafe, RetriesCounted
  <2> QED BY <1>10, <2>1, <2>2, <2>3 DEF Dies, WorkInv
<1>11. CASE UNCHANGED vars
  BY <1>8, <1>11 DEF vars
<1> QED BY <1>5, <1>6, <1>7, <1>8, <1>9, <1>10, <1>11 DEF Next

\* At first the workers have asked for nothing.
LEMMA WorkStart ==
  ASSUME Init
  PROVE  WorkInv
BY ReflectStart, UsefulStart, PracticeStart, WordStart
   DEF Init, ReflectInit, WorkInv

\* Whatever the order of deaths, switches and late answers, what every worker
\* asked of its provider is accounted for by its rows.
THEOREM WorkIsAccounted == Spec => []WorkInv
<1>1. WorkInv /\ [Next]_vars => WorkInv'
  BY WorkStep
<1> QED BY <1>1, WorkStart, PTL DEF Spec

\* What work costs is bounded, however it is interrupted: calls by the tries,
\* the budget and the resumes there are, a resume by a row of useful senses it
\* was for, publications by one, and what is published is not given up for a
\* failure.
THEOREM CostIsBounded == Spec => []CallsAreBudgeted
<1>1. ASSUME WorkInv PROVE CallsAreBudgeted
  <2>1. ReflectInv /\ UsefulInv /\ PracticeInv /\ WordInv
    BY <1>1 DEF WorkInv
  <2>2. PrepAttempts \in Nat
    BY AttemptsAssumption
  <2>3. ASSUME NEW j \in Jobs
        PROVE  /\ calls[j].content <= 1 + calls[j].resumed
               /\ calls[j].mapping <= MappingBudget + calls[j].resumed
               /\ calls[j].resumed > 0 => useful[j].status # "absent"
               /\ calls[j].judged <= 1
               /\ job[j].status = "succeeded" <=> calls[j].judged = 1
               /\ Open(job[j]) => job[j].failures < MappingBudget
               /\ sense[j].tries <= PrepAttempts
               /\ useful[j].tries <= PrepAttempts
    <3>1. Sound(j, job[j], sense[j], calls[j], Await(j))
      BY <2>1 DEF ReflectInv
    <3>2. /\ PrepOK(useful[j])
          /\ calls[j].resumed > 0 => useful[j].status # "absent"
      BY <2>1 DEF UsefulInv
    <3>3. calls[j].content \in Nat /\ calls[j].resumed \in Nat
      BY <3>1 DEF Sound, CallRow
    <3>4. sense[j].tries <= PrepAttempts /\ useful[j].tries <= PrepAttempts
      BY <2>2, <3>1, <3>2 DEF Sound, PrepOK, PrepRow
    <3>5. calls[j].content <= 1 + calls[j].resumed
      BY <3>1, <3>3 DEF Sound
    <3> QED BY <3>1, <3>2, <3>4, <3>5 DEF Sound
  <2>4. /\ authored.calls <= PrepAttempts /\ authored.published <= 1
        /\ authored.published = 1 => practice.status = "ready"
    <3>1. /\ authored.calls \in Nat /\ authored.calls <= practice.tries
          /\ practice.tries \in Nat /\ practice.tries <= PrepAttempts
      BY <2>1, <2>2 DEF PracticeInv, PrepOK, PrepRow
    <3> QED BY <2>1, <2>2, <3>1 DEF PracticeInv
  <2>5. ASSUME NEW part \in {"content", "lesson", "exercises"}
        PROVE  made[part] <= PrepAttempts
    <3>1. \A s \in Stages :
            work[s].tries \in Nat /\ work[s].tries <= PrepAttempts
      BY <2>1, <2>2, StageFacts DEF PrepOK, PrepRow
    <3>2. /\ made.content \in Nat /\ made.lesson \in Nat
          /\ made.exercises \in Nat
      BY <2>1 DEF WordInv, WordTypes, MadeRow
    <3> QED BY <2>1, <2>2, <3>1, <3>2, StageFacts DEF WordInv, CallsCounted
  <2>6. /\ made.contents <= 1 /\ made.packages <= 1
        /\ \A s \in Stages : Published(s) => work[s].status # "paused"
    BY <2>1 DEF WordInv, PublishedOnce
  <2> QED BY <2>3, <2>4, <2>5, <2>6 DEF CallsAreBudgeted
<1> QED BY <1>1, WorkIsAccounted, PTL

-----------------------------------------------------------------------------
(* What is kept is not asked for again.                                    *)

\* A job that has its mapping asks for none.
LEMMA MappingKept ==
  ASSUME ReflectInv, ReflectStep \/ DispatchCut \/ UNCHANGED calls,
         NEW j \in Jobs, job[j].mapped # "none"
  PROVE  calls'[j].mapping <= calls[j].mapping
<1>1. calls[j] \in CallRow /\ calls[j].mapping \in Nat
      /\ Sound(j, job[j], sense[j], calls[j], Await(j))
  BY DEF ReflectInv, CallRow
<1>2. CASE calls' = calls
  BY <1>1, <1>2
<1>3. ASSUME NEW k \in Kinds, AskMapping(k)
      PROVE  calls'[j].mapping <= calls[j].mapping
  <2>1. /\ job[flight[k].job].mapped # Route(job[flight[k].job])
        /\ flight[k].job \notin Bootstraps
        /\ calls' = [calls EXCEPT ![flight[k].job].mapping = @ + 1]
    BY <1>3 DEF AskMapping
  <2>2. flight[k].job # j
    BY <1>1, <2>1 DEF Sound
  <2> QED BY <1>1, <2>1, <2>2 DEF ReflectInv
<1>4. ASSUME NEW k \in Kinds, AskContent(k)
      PROVE  calls'[j].mapping <= calls[j].mapping
  <2>1. calls' = [calls EXCEPT ![flight[k].job].content = @ + 1]
    BY <1>4 DEF AskContent
  <2>2. calls'[j].mapping = calls[j].mapping
    BY <1>1, <2>1 DEF ReflectInv, CallRow
  <2> QED BY <1>1, <2>2
<1>5. ASSUME NEW k \in Kinds, Judge(k)
      PROVE  calls'[j].mapping <= calls[j].mapping
  <2>1. calls' = [calls EXCEPT ![flight[k].job].judged = @ + 1]
    BY <1>5 DEF Judge
  <2>2. calls'[j].mapping = calls[j].mapping
    BY <1>1, <2>1 DEF ReflectInv, CallRow
  <2> QED BY <1>1, <2>2
<1>6. ASSUME NEW i \in Jobs, RetryJob(i)
      PROVE  calls'[j].mapping <= calls[j].mapping
  <2> DEFINE c == [calls[i] EXCEPT !.mapping = 0, !.content = 0, !.resumed = 0]
  <2>1. calls' = [calls EXCEPT ![i] = c]
    BY <1>6 DEF RetryJob, ReflectInv, CallRow
  <2>2. CASE i = j
    <3>1. c.mapping = 0
      BY <1>1, <2>2 DEF CallRow
    <3> HIDE DEF c
    <3>2. calls'[j].mapping = 0
      BY <2>1, <2>2, <3>1 DEF ReflectInv
    <3> QED BY <1>1, <3>2
  <2>3. CASE i # j
    BY <1>1, <2>1, <2>3 DEF ReflectInv
  <2> QED BY <2>2, <2>3
<1>7. \A k \in Kinds : FlightStep(k) =>
        AskMapping(k) \/ AskContent(k) \/ Judge(k) \/ calls' = calls
  BY DEF FlightStep, AskSenses, SensesReady, SensesFail, AskUseful,
         UsefulReturns, UsefulFails, KeepScope, Mapped, MappingFails, Fails
<1>8. ReflectStep => \/ LocalPass \/ calls' = calls
                     \/ \E k \in Kinds : FlightStep(k)
                     \/ \E i \in Jobs : RetryJob(i)
  BY DEF ReflectStep, Claim, DispatchTime, RetryDispatch, JobTime,
         SenseTime, UsefulTime, RetrySenses, SettleUseful
<1>9. CASE LocalPass \/ DispatchCut
  <2>1. calls' = [i \in Jobs |-> CallsAfter(i)]
    BY <1>9 DEF LocalPass, DispatchCut, Depends
  <2>2. CallsAfter(j).mapping = calls[j].mapping
    BY <1>1 DEF CallsAfter, CallRow
  <2> QED BY <1>1, <2>1, <2>2
<1> QED BY <1>2, <1>3, <1>4, <1>5, <1>6, <1>7, <1>8, <1>9

\* What a stage begins with is a part it does not have, and no call but the
\* first is made by beginning.
LEMMA BeginAsks ==
  ASSUME WordInv, NEW s \in Stages, Begin(s), NEW part \in kept
  PROVE  made'[part] <= made[part]
<1>1. part \in {"lesson", "exercises"} /\ made \in MadeRow
      /\ made[part] \in Nat
  BY DEF WordInv, WordTypes, MadeRow
<1>2. FirstCall(s) # part
  BY <1>1 DEF FirstCall
<1>3. made' = made \/ made' = [made EXCEPT ![FirstCall(s)] = @ + 1]
  BY DEF Begin, Asking
<1> QED BY <1>1, <1>2, <1>3 DEF MadeRow

\* A part of the teaching that is kept is not asked for.
LEMMA PartsKept ==
  ASSUME WordInv, WordStep \/ UNCHANGED made \/ Publication, NEW part \in kept
  PROVE  made'[part] <= made[part]
<1>1. part \in {"lesson", "exercises"} /\ made \in MadeRow
      /\ made[part] \in Nat /\ made.lesson \in Nat /\ made.exercises \in Nat
  BY DEF WordInv, WordTypes, MadeRow
<1>2. CASE made' = made
  BY <1>1, <1>2
<1>3. CASE Renew
  BY <1>1, <1>3 DEF Renew, Carried
<1>4. ASSUME NEW s \in Stages, Begin(s)
      PROVE  made'[part] <= made[part]
  BY <1>4, BeginAsks
<1>5. CASE Keep
  <2>1. \/ made' = made
        \/ /\ drafting.at = "lesson" /\ "exercises" \notin kept
           /\ made' = [made EXCEPT !["exercises"] = @ + 1]
    BY <1>5 DEF Keep, Asking
  <2> QED BY <1>1, <2>1 DEF MadeRow
<1>6. CASE Publication
  BY <1>1, <1>6 DEF Publication, MadeRow
<1>7. ASSUME NEW s \in Stages, Revive(s)
      PROVE  made'[part] <= made[part]
  <2>1. \/ made' = [made EXCEPT !.content = 0]
        \/ made' = [made EXCEPT !.lesson = 0, !.exercises = 0]
    BY <1>7 DEF Revive
  <2>2. CASE made' = [made EXCEPT !.content = 0]
    BY <1>1, <2>2 DEF MadeRow
  <2>3. CASE made' = [made EXCEPT !.lesson = 0, !.exercises = 0]
    <3>1. made'.lesson = 0 /\ made'.exercises = 0
      BY <1>1, <2>3 DEF MadeRow
    <3> QED BY <1>1, <3>1
  <2> QED BY <2>1, <2>2, <2>3
<1>8. WordStep =>
        \/ made' = made \/ Renew \/ Keep \/ Publication
        \/ \E s \in Stages : Begin(s) \/ Revive(s)
  <2>1. Reconcile => made' = made \/ Renew
    BY DEF Reconcile
  <2>2. Drafts => made' = made \/ \E s \in Stages : Begin(s)
    BY DEF Drafts, AskInventory, NothingToAuthor, ClaimStage
  <2>3. DraftReturns =>
          made' = made \/ Begin("bootstrap") \/ Keep \/ Publication
    BY DEF DraftReturns, InventoryEstablished, InventoryFails, PublishStage,
           DraftFails
  <2>4. Recover \/ Withdraw \/ ClaimTime \/ InventoryTime \/ Rest
        \/ (\E s \in Stages : StageTime(s)) => made' = made
    BY DEF Recover, Withdraw, ClaimTime, InventoryTime, Rest, StageTime
  <2> QED BY <2>1, <2>2, <2>3, <2>4, StageFacts DEF WordStep
<1> QED BY <1>2, <1>3, <1>4, <1>5, <1>6, <1>7, <1>8

\* What a step asks for.
Spares ==
  /\ \A j \in Jobs :
       job[j].mapped # "none" => calls'[j].mapping <= calls[j].mapping
  /\ \A part \in kept : made'[part] <= made[part]

\* Only some parts of a step may ask for anything.
LEMMA KeptStep ==
  ASSUME WorkInv, Next
  PROVE  Spares
<1>1. ReflectInv /\ WordInv
  BY DEF WorkInv
<1>2. ReflectStep \/ DispatchCut \/ UNCHANGED calls
  BY DEF Next, Apart, Beside, Stopped, Dies, FlightsLost, reflect, rows
<1>3. WordStep \/ UNCHANGED made \/ Publication
  BY DEF Next, Aside, Apart, Stopped, Dies, DraftLost, DraftCut, wordprep
<1> QED BY <1>1, <1>2, <1>3, MappingKept, PartsKept DEF Spares

\* An answer that was kept is not asked for again, a mapping by no restart by
\* hand and a lesson by no attempt that was lost after it.
THEOREM KeptAnswersStay == Spec => AnswersAreKept
<1>1. WorkInv /\ [Next]_vars => [Spares]_vars
  BY KeptStep
<1> QED BY <1>1, WorkIsAccounted, PTL DEF Spec, AnswersAreKept, Spares

-----------------------------------------------------------------------------
(* What maintenance freezes.                                               *)

\* A job that fails or waits does not run, and keeps the mapping it has.
LEMMA EndedRow ==
  ASSUME NEW row \in [ status : JobStatus, due : BOOLEAN, late : BOOLEAN,
                       failures : Nat,
                       mapped : {"none", "primary", "fallback", "chosen",
                                 "unchosen"} ]
  PROVE  /\ Failed(row).status = "failed" /\ Failed(row).mapped = row.mapped
         /\ Delayed(row).status = "queued" /\ Delayed(row).mapped = row.mapped
BY DEF Failed, Delayed, JobStatus

\* A flight that ends takes no work and keeps no mapping.
LEMMA EndsFrozen ==
  ASSUME ReflectInv, NEW k \in Kinds, Flying(k), NEW row, Ends(k, row),
         row.status # "running", row.mapped = job[flight[k].job].mapped,
         NEW j \in Jobs
  PROVE  /\ job'[j].mapped = job[j].mapped
         /\ job'[j].status = "running" => job[j].status = "running"
BY FlightFacts DEF Ends, ReflectInv

\* While no worker may work, a flight only fails.
LEMMA FlightFrozen ==
  ASSUME ReflectInv, UsefulInv, ~Working, NEW k \in Kinds, FlightStep(k),
         NEW j \in Jobs
  PROVE  /\ calls' = calls
         /\ job'[j].mapped = job[j].mapped
         /\ job'[j].status = "running" => job[j].status = "running"
         /\ sense'[j].status = "ready" => sense[j].status = "ready"
         /\ useful'[j].status = "ready" => useful[j].status = "ready"
<1>1. SensesFail(k) \/ UsefulFails(k) \/ MappingFails(k) \/ Fails(k)
  BY DEF FlightStep, AskSenses, SensesReady, AskUseful, UsefulReturns, KeepScope,
         AskMapping, Mapped, AskContent, Judge, CanPublish, Allowed
<1>2. Flying(k) /\ calls' = calls
  BY <1>1 DEF SensesFail, UsefulFails, MappingFails, Fails, At, Flying
<1>3. PICK i \in Jobs :
        i = flight[k].job /\ Sound(i, job[i], sense[i], calls[i], flight[k].at)
  BY <1>2, JobFacts
<1>4. MappingBudget \in Nat /\ job[i] \in JobRow
  BY <1>3, JobsAssumption DEF Sound
<1>5. /\ job[i] \in [ status : JobStatus, due : BOOLEAN, late : BOOLEAN,
                      failures : Nat,
                      mapped : {"none", "primary", "fallback", "chosen",
                                "unchosen"} ]
  BY <1>4 DEF JobRow
<1>6. CASE SensesFail(k)
  <2> DEFINE t == IF sense[i].status = "running" THEN PrepFailed(sense[i], TRUE)
                  ELSE sense[i]
  <2>1. sense' = [sense EXCEPT ![i] = t]
    BY <1>3, <1>6 DEF SensesFail
  <2>2. t.status = "ready" => sense[i].status = "ready"
    BY <1>3, PrepFailedRow DEF Sound
  <2> HIDE DEF t
  <2>3. sense'[j].status = "ready" => sense[j].status = "ready"
    BY <2>1, <2>2 DEF ReflectInv
  <2>4. Ends(k, Failed(job[i])) \/ Ends(k, Delayed(job[i]))
    BY <1>3, <1>6 DEF SensesFail, FailJob, DeferJob
  <2>5. /\ job'[j].mapped = job[j].mapped
        /\ job'[j].status = "running" => job[j].status = "running"
    BY <1>2, <1>3, <1>5, <2>4, EndedRow, EndsFrozen
  <2> QED BY <1>2, <1>6, <2>3, <2>5 DEF SensesFail
<1>7. CASE UsefulFails(k)
  <2> DEFINE u == IF useful[i].status = "running" THEN PrepFailed(useful[i], TRUE)
                  ELSE useful[i]
  <2>1. useful' = [useful EXCEPT ![i] = u] /\ sense' = sense
    BY <1>3, <1>7 DEF UsefulFails
  <2>2. u.status = "ready" => useful[i].status = "ready"
    BY <1>3, PrepFailedRow DEF UsefulInv
  <2> HIDE DEF u
  <2>3. useful'[j].status = "ready" => useful[j].status = "ready"
    BY <2>1, <2>2 DEF UsefulInv
  <2>4. Ends(k, Delayed(job[i])) \/ job' = job
    BY <1>3, <1>7 DEF UsefulFails, DeferJob
  <2>5. /\ job'[j].mapped = job[j].mapped
        /\ job'[j].status = "running" => job[j].status = "running"
    BY <1>2, <1>3, <1>5, <2>4, EndedRow, EndsFrozen
  <2> QED BY <1>2, <2>1, <2>3, <2>5
<1>8. CASE MappingFails(k)
  <2> DEFINE row == [job[i] EXCEPT !.failures = @ + 1]
  <2>1. /\ row \in [ status : JobStatus, due : BOOLEAN, late : BOOLEAN,
                     failures : Nat,
                     mapped : {"none", "primary", "fallback", "chosen",
                               "unchosen"} ]
        /\ row.mapped = job[i].mapped
    BY <1>5
  <2>2. Ends(k, Delayed(row)) \/ Ends(k, Failed(row))
    BY <1>3, <1>8 DEF MappingFails
  <2> HIDE DEF row
  <2>3. /\ job'[j].mapped = job[j].mapped
        /\ job'[j].status = "running" => job[j].status = "running"
    BY <1>2, <1>3, <2>1, <2>2, EndedRow, EndsFrozen
  <2> QED BY <1>2, <1>8, <2>3 DEF MappingFails
<1>9. CASE Fails(k)
  <2>1. Ends(k, Failed(job[i]))
    BY <1>3, <1>9 DEF Fails, FailJob
  <2>2. /\ job'[j].mapped = job[j].mapped
        /\ job'[j].status = "running" => job[j].status = "running"
    BY <1>2, <1>3, <1>5, <2>1, EndedRow, EndsFrozen
  <2> QED BY <1>2, <1>9, <2>2 DEF Fails
<1> QED BY <1>1, <1>6, <1>7, <1>8, <1>9

\* While no worker may work, no job is judged, mapped or claimed, and no senses
\* become ready, nor the useful ones but by the operator.
LEMMA ReflectFrozen ==
  ASSUME ReflectInv, UsefulInv, retries \in Nat, ~Working,
         ReflectStep \/ DispatchCut \/ UNCHANGED <<job, sense, useful, calls>>,
         NEW j \in Jobs
  PROVE  /\ calls'[j].judged = calls[j].judged
         /\ job'[j].mapped = job[j].mapped
         /\ sense'[j].status = "ready" => sense[j].status = "ready"
         /\ job'[j].status = "running" => job[j].status = "running"
         /\ useful'[j].status = "ready" /\ retries' = retries =>
              useful[j].status = "ready"
<1>1. \A i \in Jobs : /\ job[i] \in JobRow /\ PrepOK(sense[i])
                      /\ calls[i] \in CallRow /\ PrepOK(useful[i])
  BY DEF ReflectInv, UsefulInv, Sound
<1>2. ~LocalPass /\ ~DispatchCut /\ \A k \in Kinds, i \in Jobs : ~Claim(k, i)
  BY DEF LocalPass, DispatchCut, Claim, Allowed
<1>3. ASSUME NEW i \in Jobs, JobTime(i)
      PROVE  /\ job'[j].mapped = job[j].mapped
             /\ job'[j].status = "running" => job[j].status = "running"
             /\ UNCHANGED <<sense, useful, calls>>
  <2>1. Later(job[i]).mapped = job[i].mapped
        /\ Later(job[i]).status = job[i].status
    BY <1>1 DEF Later, JobRow
  <2>2. /\ job' = [job EXCEPT ![i] = Later(job[i])]
        /\ UNCHANGED <<sense, useful, calls>>
    BY <1>3 DEF JobTime
  <2> QED BY <2>1, <2>2 DEF ReflectInv
<1>4. ASSUME NEW i \in Jobs, SenseTime(i)
      PROVE  /\ sense'[j].status = "ready" => sense[j].status = "ready"
             /\ UNCHANGED <<job, useful, calls>>
  <2>1. Later(sense[i]).status = sense[i].status
    BY <1>1, LaterRow DEF PrepOK
  <2>2. /\ sense' = [sense EXCEPT ![i] = Later(sense[i])]
        /\ UNCHANGED <<job, useful, calls>>
    BY <1>4 DEF SenseTime
  <2> QED BY <2>1, <2>2 DEF ReflectInv
<1>5. ASSUME NEW i \in Jobs, RetrySenses(i)
      PROVE  /\ sense'[j].status = "ready" => sense[j].status = "ready"
             /\ UNCHANGED <<job, useful, calls>>
  <2> DEFINE t == [Requeued(sense[i]) EXCEPT !.tries = 0]
  <2>1. t.status = "queued"
    BY <1>1, RequeuedRow
  <2>2. sense' = [sense EXCEPT ![i] = t] /\ UNCHANGED <<job, useful, calls>>
    BY <1>5 DEF RetrySenses
  <2> HIDE DEF t
  <2> QED BY <2>1, <2>2 DEF ReflectInv
<1>6. ASSUME NEW i \in Jobs, RetryJob(i)
      PROVE  /\ calls'[j].judged = calls[j].judged
             /\ job'[j].mapped = job[j].mapped
             /\ job'[j].status = "running" => job[j].status = "running"
             /\ UNCHANGED <<sense, useful>>
  <2> DEFINE c == [calls[i] EXCEPT !.mapping = 0, !.content = 0, !.resumed = 0]
  <2>1. /\ job' = [job EXCEPT ![i] = Restarted(job[i])]
        /\ calls' = [calls EXCEPT ![i] = c] /\ UNCHANGED <<sense, useful>>
    BY <1>1, <1>6 DEF RetryJob, ReflectInv, CallRow
  <2>2. /\ Requeued(job[i]) \in JobRow /\ Requeued(job[i]).status = "queued"
        /\ Requeued(job[i]).mapped = job[i].mapped
    BY <1>1 DEF Requeued, JobRow, JobStatus
  <2>3. /\ Restarted(job[i]).mapped = job[i].mapped
        /\ Restarted(job[i]).status = "queued"
    BY <2>2 DEF Restarted, JobRow
  <2>4. CASE i = j
    <3>1. c.judged = calls[j].judged
      BY <1>1, <2>4 DEF CallRow
    <3> HIDE DEF c
    <3>2. calls'[j].judged = calls[j].judged
      BY <2>1, <2>4, <3>1 DEF ReflectInv
    <3> QED BY <2>1, <2>3, <2>4, <3>2 DEF ReflectInv
  <2>5. CASE i # j
    BY <2>1, <2>5 DEF ReflectInv
  <2> QED BY <2>4, <2>5
<1>7. ASSUME NEW i \in Jobs, UsefulTime(i)
      PROVE  /\ useful'[j].status = "ready" => useful[j].status = "ready"
             /\ UNCHANGED <<job, sense, calls>>
  <2>1. Later(useful[i]).status = useful[i].status
    BY <1>1, LaterRow DEF PrepOK
  <2>2. /\ useful' = [useful EXCEPT ![i] = Later(useful[i])]
        /\ UNCHANGED <<job, sense, calls>>
    BY <1>7 DEF UsefulTime
  <2> QED BY <2>1, <2>2 DEF UsefulInv
<1>8. ASSUME NEW i \in Jobs, SettleUseful(i)
      PROVE  retries' # retries /\ UNCHANGED <<job, sense, calls>>
  <2>1. retries < MaxRetries /\ retries' = retries + 1
    BY <1>8 DEF SettleUseful, Explicit
  <2> QED BY <1>8, <2>1 DEF SettleUseful
<1>9. CASE UNCHANGED <<job, sense, useful, calls>>
  BY <1>9
<1>10. DispatchTime \/ RetryDispatch => UNCHANGED <<job, sense, useful, calls>>
  BY DEF DispatchTime, RetryDispatch
<1> QED BY <1>2, <1>3, <1>4, <1>5, <1>6, <1>7, <1>8, <1>9, <1>10, FlightFrozen
        DEF ReflectStep

\* While no worker may work, no exercises are published or asked for.
LEMMA PracticeFrozen ==
  ASSUME PracticeInv, ~Working, PracticeStep \/ StepLost \/ UNCHANGED prep
  PROVE  /\ authored'.published = authored.published
         /\ practice'.status = "running" => practice.status = "running"
         /\ Settled' => Settled
<1>1. /\ PrepOK(practice) /\ PrepOK(selection)
      /\ authored \in [calls : Nat, published : Nat]
  BY DEF PracticeInv
<1>2. CASE UNCHANGED <<practice, selection, authored>>
  BY <1>2 DEF Settled
<1>3. ~Dispatches /\ ~Selected /\ ~NothingSelected /\ ~Publish
  BY DEF Dispatches, PracticePass, AskSelection, Author, Selected,
         NothingSelected, Publish, Publishable, Allowed
<1>4. CASE SelectionFails
  <2>1. /\ PrepFailed(selection, TRUE).status \in {"queued", "failed"}
        /\ practice' \in {Failed(practice), Delayed(practice)}
        /\ selection' = PrepFailed(selection, TRUE) /\ authored' = authored
    BY <1>1, <1>4, PrepFailedRow DEF SelectionFails
  <2>2. practice.status = "queued" /\ practice.tries < PrepAttempts
    BY <1>1, <1>4 DEF SelectionFails, PracticeInv, PrepOK
  <2>3. practice'.status # "running"
    BY <1>1, <2>1, <2>2, PausedRow
  <2> QED BY <2>1, <2>3 DEF Settled
<1>5. CASE AuthoringFails
  <2>1. practice.status = "running" /\ UNCHANGED <<selection, authored>>
    BY <1>5 DEF AuthoringFails, PracticeInv
  <2> QED BY <2>1 DEF Settled
<1>6. CASE PracticeTime
  <2>1. Later(practice).status = practice.status
    BY <1>1, LaterRow DEF PrepOK
  <2> QED BY <1>6, <2>1 DEF PracticeTime, Settled
<1>7. CASE SelectionTime
  <2>1. Later(selection).status = selection.status
    BY <1>1, LaterRow DEF PrepOK
  <2> QED BY <1>7, <2>1 DEF SelectionTime, Settled
<1>8. CASE RetryPractice
  <2>1. /\ [Requeued(practice) EXCEPT !.tries = 0].status = "queued"
        /\ [Requeued(selection) EXCEPT !.tries = 0].status = "queued"
    BY <1>1, RequeuedRow
  <2>2. /\ practice' = [Requeued(practice) EXCEPT !.tries = 0]
        /\ \/ selection' = selection
           \/ selection' = [Requeued(selection) EXCEPT !.tries = 0]
        /\ authored' = [authored EXCEPT !.calls = 0]
    BY <1>8 DEF RetryPractice
  <2>3. authored'.published = authored.published
    BY <1>1, <2>2
  <2> QED BY <2>1, <2>2, <2>3 DEF Settled
<1>9. StepLost \/ UNCHANGED prep => UNCHANGED <<practice, selection, authored>>
  BY DEF StepLost, prep
<1> QED BY <1>2, <1>3, <1>4, <1>5, <1>6, <1>7, <1>8, <1>9
        DEF PracticeStep, Returns

\* No attempt begins while no worker may work.
LEMMA NoneBegins ==
  ASSUME WordInv, ~Working,
         WordStep \/ DraftLost \/ DraftCut \/ UNCHANGED wordprep,
         NEW s \in Stages, work'[s].status = "running"
  PROVE  work[s].status = "running"
<1>1. /\ work \in [Stages -> PrepRow] /\ \A t \in Stages : PrepOK(work[t])
  BY StageFacts
<1>2. ~Recover /\ ~Drafts /\ ~Enabled
  BY DEF Recover, Drafts, AskInventory, NothingToAuthor, ClaimStage, Authored,
         Taken, Enabled, Allowed
<1>3. CASE work' = work
  BY <1>3
<1>4. CASE Reconcile
  <2>1. CASE Renew
    <3> DEFINE all == [t \in Stages |-> Renewed(work[t])]
    <3>1. \A t \in Stages :
            /\ PrepOK(all[t])
            /\ all[t].status = "running" => work[t].status = "running"
      BY <1>1, RequeuedRow DEF Renewed
    <3>2. all \in [Stages -> PrepRow]
      <4>1. \A t \in Stages : all[t] \in PrepRow
        BY <3>1 DEF PrepOK
      <4>2. all = [t \in Stages |-> all[t]]
        OBVIOUS
      <4> HIDE DEF all
      <4> QED BY <4>1, <4>2
    <3>3. work' = Demanded(all)
      BY <2>1 DEF Renew
    <3> HIDE DEF all
    <3> QED BY <3>1, <3>2, <3>3, DemandedRow
  <2>2. CASE work' = Demanded(work)
    BY <1>1, <2>2, DemandedRow
  <2> QED BY <1>3, <1>4, <2>1, <2>2 DEF Reconcile
<1>5. CASE InventoryEstablished
  <2>1. \/ work' = PausedAll \/ work' = work
        \/ work' = [work EXCEPT !["bootstrap"] = Paused(@)]
    BY <1>2, <1>5 DEF InventoryEstablished
  <2> QED BY <1>1, <2>1, DraftFailedRow DEF PausedAll
<1>6. CASE InventoryFails
  <2>1. work["bootstrap"].status = "queued"
    BY <1>6 DEF InventoryFails, WordInv, DraftHolds
  <2>2. /\ Paused(work["bootstrap"]).status = "paused"
        /\ Delayed(work["bootstrap"]).status = "queued"
    BY <1>1, <2>1, StageFacts, DraftFailedRow, PausedRow DEF PrepOK
  <2>3. \/ work' = [work EXCEPT !["bootstrap"] = Paused(@)]
        \/ work' = [work EXCEPT !["bootstrap"] = Delayed(@)]
    BY <1>6 DEF InventoryFails
  <2> QED BY <1>1, <2>2, <2>3
<1>7. CASE PublishStage
  <2>1. work[drafting.stage].status = "running" /\ drafting.stage \in Stages
    BY <1>7, StageFacts DEF PublishStage, Publication, WordInv, DraftHolds,
                            Drafting, TeachingCalls
  <2>2. work' = [work EXCEPT ![drafting.stage].status = "ready"]
    BY <1>7 DEF PublishStage
  <2> QED BY <1>1, <2>1, <2>2
<1>8. CASE DraftFails
  <2>1. work[drafting.stage].status = "running" /\ drafting.stage \in Stages
    BY <1>8, StageFacts DEF DraftFails, WordInv, DraftHolds, Drafting,
                            TeachingCalls
  <2>2. work' = [work EXCEPT ![drafting.stage] = DraftFailed(@)]
    BY <1>8 DEF DraftFails
  <2> QED BY <1>1, <2>1, <2>2
<1>9. ASSUME NEW t \in Stages, Revive(t) PROVE work[s].status = "running"
  <2>1. [Requeued(work[t]) EXCEPT !.tries = 0].status = "queued"
    BY <1>1, RequeuedRow
  <2>2. work' = [work EXCEPT ![t] = [Requeued(work[t]) EXCEPT !.tries = 0]]
    BY <1>9 DEF Revive
  <2> QED BY <1>1, <2>1, <2>2
<1>10. ASSUME NEW t \in Stages, StageTime(t) PROVE work[s].status = "running"
  <2>1. Later(work[t]).status = work[t].status
    BY <1>1, LaterRow DEF PrepOK
  <2>2. work' = [work EXCEPT ![t] = Later(work[t])]
    BY <1>10 DEF StageTime
  <2> QED BY <1>1, <2>1, <2>2
<1>11. Keep \/ Withdraw \/ ClaimTime \/ InventoryTime \/ Rest \/ DraftLost
       \/ DraftCut \/ UNCHANGED wordprep => work' = work
  BY DEF Keep, Withdraw, ClaimTime, InventoryTime, Rest, DraftLost, DraftCut,
         wordprep
<1> QED BY <1>2, <1>3, <1>4, <1>5, <1>6, <1>7, <1>8, <1>9, <1>10, <1>11
        DEF WordStep, DraftReturns

\* While authored content may not be published, none is, no provider is asked
\* for any, and no senses are established.
LEMMA WordFrozen ==
  ASSUME WordInv, ~Permitted,
         WordStep \/ DraftLost \/ DraftCut \/ UNCHANGED wordprep
  PROVE  /\ kept' \subseteq kept
         /\ \A part \in DOMAIN made : made'[part] <= made[part]
         /\ inventory'.status = "ready" => inventory.status = "ready"
<1>1. ~Drafts /\ ~InventoryEstablished /\ ~Keep /\ ~Publication
  BY DEF Permitted, Drafts, AskInventory, NothingToAuthor, ClaimStage, Authored,
         Taken, Enabled, Allowed, Working, InventoryEstablished, Keep,
         Publication, ClaimHolds
<1>2. /\ PrepOK(inventory) /\ made \in MadeRow
      /\ \A part \in DOMAIN made : made[part] \in Nat
  BY DEF WordInv, WordTypes, MadeRow
<1>3. DOMAIN made =
        {"content", "lesson", "exercises", "contents", "packages"}
  BY <1>2 DEF MadeRow
<1>4. CASE UNCHANGED <<kept, made, inventory>>
  BY <1>2, <1>4
<1>5. CASE Reconcile
  <2>1. CASE Renew
    <3>1. \A part \in DOMAIN made : made'[part] \in {0, made[part]}
      BY <1>3, <2>1 DEF Renew, Carried
    <3> QED BY <1>2, <1>5, <2>1, <3>1 DEF Reconcile, Renew
  <2>2. CASE UNCHANGED <<kept, made>>
    BY <1>4, <1>5, <2>2 DEF Reconcile
  <2> QED BY <1>5, <2>1, <2>2 DEF Reconcile
<1>6. CASE InventoryFails
  <2>1. PrepFailed(inventory, TRUE).status \in {"queued", "failed"}
    BY <1>2, PrepFailedRow
  <2>2. inventory' = PrepFailed(inventory, TRUE)
    BY <1>6 DEF InventoryFails
  <2>3. UNCHANGED <<kept, made>>
    BY <1>6 DEF InventoryFails
  <2>4. \A part \in DOMAIN made : made'[part] <= made[part]
    BY <1>2, <2>3
  <2> QED BY <2>1, <2>2, <2>3, <2>4
<1>7. CASE InventoryTime
  <2>1. Later(inventory).status = inventory.status
    BY <1>2, LaterRow DEF PrepOK
  <2> QED BY <1>2, <1>7, <2>1 DEF InventoryTime
<1>8. ASSUME NEW s \in Stages, Revive(s)
      PROVE  /\ kept' \subseteq kept
             /\ \A part \in DOMAIN made : made'[part] <= made[part]
             /\ inventory'.status = "ready" => inventory.status = "ready"
  <2>1. [Requeued(inventory) EXCEPT !.tries = 0].status = "queued"
    BY <1>2, RequeuedRow
  <2>2. \/ inventory' = inventory
        \/ inventory' = [Requeued(inventory) EXCEPT !.tries = 0]
    BY <1>8 DEF Revive
  <2>3. \A part \in DOMAIN made : made'[part] \in {0, made[part]}
    <3>1. CASE made' = [made EXCEPT !.content = 0]
      BY <1>2, <3>1 DEF MadeRow
    <3>2. CASE made' = [made EXCEPT !.lesson = 0, !.exercises = 0]
      <4>1. made' = [[made EXCEPT !.lesson = 0] EXCEPT !.exercises = 0]
        BY <3>2
      <4> QED BY <1>2, <4>1 DEF MadeRow
    <3> QED BY <1>8, <3>1, <3>2 DEF Revive
  <2> QED BY <1>2, <1>8, <2>1, <2>2, <2>3 DEF Revive
<1>9. Recover \/ PublishStage \/ DraftFails \/ Withdraw \/ ClaimTime \/ Rest
      \/ DraftLost \/ DraftCut \/ (\E s \in Stages : StageTime(s))
      \/ UNCHANGED wordprep
        => UNCHANGED <<kept, made, inventory>>
  BY <1>1 DEF Recover, PublishStage, DraftFails, Withdraw, ClaimTime, Rest,
              DraftLost, DraftCut, StageTime, wordprep
<1> QED BY <1>1, <1>4, <1>5, <1>6, <1>7, <1>8, <1>9 DEF WordStep, DraftReturns

\* Which step each worker makes, or none.
LEMMA WorkersMove ==
  ASSUME [Next]_vars
  PROVE  /\ \/ ReflectStep \/ DispatchCut
            \/ UNCHANGED <<job, sense, useful, calls>>
         /\ PracticeStep \/ StepLost \/ UNCHANGED prep
         /\ WordStep \/ DraftLost \/ DraftCut \/ UNCHANGED wordprep
BY DEF Next, Aside, Apart, Beside, Stopped, Dies, FlightsLost, vars, reflect,
       rows

\* What a step does in maintenance.
Freezes ==
  /\ ~Working =>
       /\ \A j \in Jobs :
            /\ calls'[j].judged = calls[j].judged
            /\ job'[j].mapped = job[j].mapped
            /\ sense'[j].status = "ready" => sense[j].status = "ready"
            /\ useful'[j].status = "ready" /\ retries' = retries =>
                 useful[j].status = "ready"
            /\ job'[j].status = "running" => job[j].status = "running"
       /\ authored'.published = authored.published
       /\ practice'.status = "running" => practice.status = "running"
       /\ Settled' => Settled
       /\ \A s \in Stages :
            work'[s].status = "running" => work[s].status = "running"
  /\ ~Permitted =>
       /\ kept' \subseteq kept
       /\ \A part \in DOMAIN made : made'[part] <= made[part]
       /\ inventory'.status = "ready" => inventory.status = "ready"

\* Every worker is frozen, and so is the service.
LEMMA FreezeStep ==
  ASSUME WorkInv, [Next]_vars
  PROVE  Freezes
<1>1. ReflectInv /\ UsefulInv /\ retries \in Nat /\ PracticeInv /\ WordInv
  BY DEF WorkInv
<1> QED BY <1>1, WorkersMove, ReflectFrozen, PracticeFrozen, NoneBegins,
           WordFrozen DEF Freezes

\* In maintenance, or while the process is not up, an answer that still arrives
\* publishes nothing, no provider is asked anything and no work is taken; of a
\* word, a process that is stopping still finishes what it had begun.
THEOREM MaintenanceHolds == Spec => MaintenanceFreezes
<1>1. WorkInv /\ [Next]_vars => [Freezes]_vars
  BY FreezeStep
<1> QED BY <1>1, WorkIsAccounted, PTL DEF Spec, MaintenanceFreezes, Freezes

=============================================================================
