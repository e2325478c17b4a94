---------------------------- MODULE StudyClient ----------------------------
(***************************************************************************)
(* The browser's side of one study session (useVocabularyStudy.ts): the    *)
(* ordered queue of commands, the exclusive operations of the page, the    *)
(* staging of a completed session and its deadline, against the server's   *)
(* answers.  A call is lost on its way, or its answer on the way back.     *)
(*                                                                         *)
(* An exclusive operation is an async function, here a script of the steps *)
(* between its awaits.  Commands are reduced to what the client and the    *)
(* server's guards tell apart: "work" is an answer, a skip or a cover,     *)
(* "revisit" a requeue, a word reopened or a changed mode.                 *)
(***************************************************************************)
EXTENDS Naturals, Sequences, FiniteSets, SequencesExt

CONSTANTS
  MaxCommands,  \* bound: no operation starts once this many were issued
  MaxFaults,    \* bound: calls lost, closes that fail, reloads and looks
  MaxRevisions  \* bound: a completion of this revision is not cancelled

ASSUME ClientAssumption ==
  MaxCommands \in Nat /\ MaxFaults \in Nat /\ MaxRevisions \in Nat

VARIABLES
  server,  \* [phase, status, log, comp, rev, due]: the session's rows
  issued,  \* commands enqueued so far; each one's id is its number
  queue,   \* entries not yet acknowledged, [id, kind, load]
  failure, \* why the queue stopped: "none", "lost" or "refused"
  calls,   \* the call under way on each channel
  late,    \* commands given up on that may still arrive
  ui,      \* what the page holds of the session
  op,      \* the exclusive operation: steps left, and the command it awaits
  staging, \* the staging run: "idle", "flush" or "sent"
  faults

page == <<issued, queue, failure, ui, op, staging>>
net  == <<calls, late, faults>>
vars == <<server, page, net>>

NoCall   == [at |-> "none"]
Channels == {"queue", "op", "stage", "look"}

-----------------------------------------------------------------------------
(* The server's answers, each one transaction.                             *)

\* What the reducer admits in a phase; a session being saved admits nothing.
Accepts(kind) ==
  /\ server.status = "active"
  /\ CASE kind = "resume" -> server.phase = "completed"
       [] kind = "finish" -> server.phase = "active"
       [] kind = "finishNow" -> server.phase = "finishing"
       [] kind \in {"undo", "feedback"} -> TRUE
       [] OTHER -> server.phase # "completed"

\* The phases a command may leave: finishing completes when work runs out.
PhasesAfter(kind) ==
  CASE kind = "resume" -> {"active"}
    [] kind = "finish" -> {"finishing", "completed"}
    [] kind = "finishNow" -> {"completed"}
    [] kind = "undo" -> {"active", "finishing", "completed"}
    [] kind = "next" -> {server.phase, "completed"}
    [] kind = "work" /\ server.phase = "finishing" ->
         {"finishing", "completed"}
    [] OTHER -> {server.phase}

\* What a response carries of the session.
Snapshot(s) ==
  [phase |-> s.phase, seq |-> Len(s.log), rev |-> s.rev, comp |-> s.comp]

\* Mutation of Recognised: a repeated command is taken for a new one.
NeverRecognised(entry) == FALSE

\* commandRetry: a command already logged is answered, not applied again.
Recognised(entry) == entry \in Range(server.log)

Apply(entry) ==
  \/ Recognised(entry) /\ UNCHANGED server
  \/ /\ ~Recognised(entry) /\ Accepts(entry.kind)
     /\ \/ \E p \in PhasesAfter(entry.kind) :
             server' = [server EXCEPT !.log = Append(@, entry), !.phase = p]
        \* A Next with nothing to log leaves no trace.
        \/ entry.kind = "next" /\ UNCHANGED server

Unstaged == server.comp \in {"none", "cancelled"}

\* stage: nothing was logged since the summary the client holds.
Stageable(seq) ==
  /\ seq = Len(server.log)
  /\ Unstaged => server.status = "active" /\ server.phase = "completed"

Stage(seq) ==
  /\ Stageable(seq)
  /\ server' = IF ~Unstaged THEN server
               ELSE [server EXCEPT !.status = "finalizing", !.due = FALSE,
                                   !.comp = "pending", !.rev = @ + 1]

Closed == [server EXCEPT !.status = "closed", !.comp = "closed"]
Unfinished == server.comp \in {"pending", "failed"}

\* An earlier revision was cancelled already, and stays so.
Cancel(rev) ==
  \/ (rev # server.rev \/ server.comp = "cancelled") /\ UNCHANGED server
  \/ /\ rev = server.rev /\ Unfinished /\ ~server.due
     /\ server' = [server EXCEPT !.status = "active", !.comp = "cancelled"]

\* After the window, cancelling closes the session and is refused.
CancelTooLate(rev) ==
  /\ rev = server.rev
  /\ \/ Unfinished /\ server.due /\ server' = Closed
     \/ server.comp = "closed" /\ UNCHANGED server

\* A cancelled revision is not closed.
Closable(rev) == ~Unstaged /\ rev = server.rev

Accepted(req) ==
  CASE req.call = "command" -> Apply(req.entry)
    [] req.call = "stage"   -> Stage(req.seq)
    [] req.call = "cancel"  -> Cancel(req.rev)
    [] req.call = "close"   -> Closable(req.rev) /\ server' = Closed
    [] OTHER                -> UNCHANGED server

Refused(req) ==
  CASE req.call = "command" -> /\ ~Recognised(req.entry)
                               /\ ~Accepts(req.entry.kind)
                               /\ UNCHANGED server
    [] req.call = "stage"   -> ~Stageable(req.seq) /\ UNCHANGED server
    [] req.call = "cancel"  -> CancelTooLate(req.rev)
    [] req.call = "close"   -> ~Closable(req.rev) /\ UNCHANGED server
    [] OTHER                -> FALSE

Settle(ch, at) ==
  calls' = [calls EXCEPT ![ch] = [at |-> at, got |-> Snapshot(server')]]

Serve(ch) ==
  /\ calls[ch].at = "sent"
  /\ \/ Accepted(calls[ch].req) /\ Settle(ch, "answered")
     \/ Refused(calls[ch].req) /\ Settle(ch, "refused")
  /\ UNCHANGED <<page, late, faults>>

Faulty == faults < MaxFaults /\ faults' = faults + 1

\* A close whose effects throw records the failure and is an error.
CloseFails ==
  /\ Faulty /\ calls["op"].at = "sent" /\ calls["op"].req.call = "close"
  /\ Unfinished /\ Closable(calls["op"].req.rev)
  /\ server' = [server EXCEPT !.comp = "failed"]
  /\ Settle("op", "refused")
  /\ UNCHANGED <<page, late>>

\* The connection breaks before the request is handled, or before its answer
\* is received.  A command not handled by then may still arrive.
Lose(ch) ==
  /\ Faulty /\ calls[ch].at \in {"sent", "answered"}
  /\ calls' = [calls EXCEPT ![ch] = [at |-> "lost"]]
  /\ late' = IF ch = "queue" /\ calls[ch].at = "sent"
             THEN late \cup {calls[ch].req.entry} ELSE late
  /\ UNCHANGED <<server, page>>

Arrive(entry) ==
  /\ entry \in late /\ late' = late \ {entry}
  /\ Apply(entry) \/ UNCHANGED server
  /\ UNCHANGED <<page, calls, faults>>

WindowEnds ==
  /\ server.comp = "pending" /\ ~server.due
  /\ server' = [server EXCEPT !.due = TRUE]
  /\ UNCHANGED <<page, net>>

WorkerCloses ==
  /\ server.comp = "pending" /\ server.due /\ server' = Closed
  /\ UNCHANGED <<page, net>>

-----------------------------------------------------------------------------
(* The queue.                                                              *)

Call(ch, req) ==
  calls' = [calls EXCEPT ![ch] = [at |-> "sent", req |-> req]]
Hang(ch) == calls' = [calls EXCEPT ![ch] = NoCall]
Answered(ch) == calls[ch].at = "answered"
Failed(ch)   == calls[ch].at \in {"lost", "refused"}

\* A study read whole drops a cancelled completion; one read alone stays.
\* The page keeps no sawCancelled: it is history, for SummaryIsTheSession.
Seen(got) == [ui EXCEPT !.phase = got.phase, !.seq = got.seq, !.fresh = TRUE,
                        !.comp = IF got.comp = "cancelled" THEN "none"
                                 ELSE got.comp,
                        !.rev = got.rev, !.sawCancelled = FALSE]
SeenCompletion(got) ==
  [ui EXCEPT !.comp = got.comp, !.rev = got.rev, !.fresh = TRUE,
             !.sawCancelled = @ \/ got.comp = "cancelled"]

Entry(id, kind) == [id |-> id, kind |-> kind, load |-> ui.load]

\* Mutation of Enqueue: the next number is taken for this one.
EnqueueAhead(kind) ==
  /\ issued' = issued + 1 /\ queue' = Append(queue, Entry(issued + 2, kind))

\* A command gets its id when it is enqueued, and keeps it through Retry.
Enqueue(kind) ==
  /\ issued' = issued + 1 /\ queue' = Append(queue, Entry(issued + 1, kind))

\* pump: the head is sent, and the entries behind it wait for its answer.
Pump ==
  /\ queue # <<>> /\ failure = "none" /\ calls["queue"] = NoCall
  /\ Call("queue", [call |-> "command", entry |-> Head(queue)])
  /\ UNCHANGED <<server, page, late, faults>>

Acknowledge ==
  /\ Answered("queue") /\ Hang("queue")
  /\ queue' = Tail(queue) /\ ui' = Seen(calls["queue"].got)
  /\ UNCHANGED <<server, issued, failure, op, staging, late, faults>>

\* Mutation of Stop: a queue that stopped shows no error.
StopSilently ==
  /\ Failed("queue") /\ Hang("queue") /\ failure' = calls["queue"].at
  /\ UNCHANGED <<server, issued, queue, ui, op, staging, late, faults>>

\* A failure keeps the head, with its id, and stops the queue.
Stop ==
  /\ Failed("queue") /\ Hang("queue") /\ failure' = calls["queue"].at
  /\ ui' = [ui EXCEPT !.error = TRUE]
  /\ UNCHANGED <<server, issued, queue, op, staging, late, faults>>

-----------------------------------------------------------------------------
(* Operations: the steps of the one under way.                             *)

Working == op.steps # <<>>
At(step) == Working /\ Head(op.steps) = step
Become(steps) == op' = [op EXCEPT !.steps = steps \o Tail(@)]
Continue == Become(<<>>)

\* An operation that throws shows its error and lifts its suppression.
Throw(view) ==
  /\ op' = [op EXCEPT !.steps = <<>>]
  /\ ui' = [view EXCEPT !.error = TRUE, !.suppress = FALSE]

\* The operation and the staging run are each at an await.  What follows a
\* settled promise runs before any other event of the browser.
InQueue(id) == \E i \in DOMAIN queue : queue[i].id = id
Flushing == queue # <<>> /\ failure = "none"
Waiting ==
  /\ staging = "flush" => Flushing
  /\ Working =>
       CASE Head(op.steps) = "flush"  -> Flushing
         [] Head(op.steps) = "await"  ->
              InQueue(op.own) /\ (failure = "none" \/ queue[1].id # op.own)
         [] Head(op.steps) = "staged" -> staging # "idle"
         [] Head(op.steps) = "retry"  -> calls["queue"] # NoCall
         [] OTHER -> calls["op"] # NoCall

Issue(kind) ==
  /\ Enqueue(kind)
  /\ op' = [steps |-> <<"await">> \o Tail(op.steps), own |-> issued + 1]

Flush ==
  /\ At("flush")
  /\ \/ failure # "none" /\ Throw(ui)
     \/ queue = <<>> /\ failure = "none" /\ Continue /\ UNCHANGED ui
  /\ UNCHANGED <<server, issued, queue, failure, staging, net>>

\* The command of the operation is answered, or fails at the head.
Await ==
  /\ At("await")
  /\ \/ ~InQueue(op.own) /\ Continue /\ UNCHANGED ui
     \/ failure # "none" /\ queue[1].id = op.own /\ Throw(ui)
  /\ UNCHANGED <<server, issued, queue, failure, staging, net>>

\* commitHeldProduction: a correct answer not yet sent goes first.
Held ==
  /\ At("held")
  /\ IF ui.held THEN Issue("work") ELSE Continue /\ UNCHANGED <<issued, queue>>
  /\ ui' = [ui EXCEPT !.held = FALSE]
  /\ UNCHANGED <<server, failure, staging, net>>

Completed == ui.phase = "completed"

\* Steps that send a command, some of them only in a phase.
SendNow(step) ==
  CASE step \in {"work", "revisit", "next", "finish", "undo"} -> step
    [] step = "finishNow" -> "finishNow"
    [] step = "resumeIfCompleted" /\ Completed -> "resume"
    [] step = "finishNowIfFinishing" /\ ui.phase = "finishing" -> "finishNow"
    [] step = "endIfOpen" /\ ~Completed -> "work"
    [] step = "nextIfStudying" /\ ~Completed -> "next"
    [] OTHER -> "nothing"

Commanding == {"work", "revisit", "next", "finish", "undo", "finishNow",
               "resumeIfCompleted", "finishNowIfFinishing", "endIfOpen",
               "nextIfStudying"}

SendStep ==
  /\ Working /\ Head(op.steps) \in Commanding
  /\ LET kind == SendNow(Head(op.steps)) IN
     \/ kind # "nothing" /\ Issue(kind)
     \* The word may have been covered by the answer that went first.
     \/ /\ kind = "nothing" \/ Head(op.steps) = "endIfOpen"
        /\ Continue /\ UNCHANGED <<issued, queue>>
  /\ UNCHANGED <<server, failure, ui, staging, net>>

\* Steps that depend on the phase, or change nothing the server sees.
Local ==
  /\ \/ /\ At("advanceIfStudying") /\ UNCHANGED <<ui, failure>>
        /\ Become(IF Completed THEN <<>> ELSE <<"flush", "held", "next">>)
     \/ /\ At("requeue") /\ UNCHANGED <<ui, failure>>
        /\ Become(IF Completed
                  THEN <<"resumeIfCompleted", "revisit", "flush", "held", "next">>
                  ELSE <<"revisit">>)
     \/ /\ At("suppress") /\ Continue /\ UNCHANGED failure
        /\ ui' = [ui EXCEPT !.suppress = TRUE]
     \/ /\ At("release") /\ Continue /\ UNCHANGED failure
        /\ ui' = [ui EXCEPT !.suppress = FALSE]
     \/ /\ At("retry") /\ Continue /\ UNCHANGED ui
        /\ calls["queue"] = NoCall /\ failure' = "none"
     \/ /\ At("stageIfCompleted") /\ UNCHANGED <<ui, failure>>
        /\ Become(IF Completed THEN <<"stage">> ELSE <<>>)
     \/ /\ At("closeIfStaged") /\ UNCHANGED <<ui, failure>>
        /\ Become(IF ui.comp \in {"pending", "failed"}
                  THEN <<"flush", "stage", "shut">> ELSE <<>>)
     \/ /\ At("reset") /\ UNCHANGED failure
        /\ IF queue # <<>> THEN Throw(ui)
           ELSE Continue /\ ui' = [ui EXCEPT !.open = FALSE]
  /\ UNCHANGED <<server, issued, queue, staging, net>>

Ask(step, request, waiting) ==
  /\ At(step) /\ Call("op", [call |-> request, rev |-> ui.rev])
  /\ Become(<<waiting>>)
  /\ UNCHANGED ui

Standing == ui.comp \notin {"none", "cancelled"}

\* cancel(): the completion is cancelled and the study read again; after an
\* error the completion is looked at before giving up.
CancelStep ==
  /\ \/ At("cancel") /\ ~Standing /\ Continue /\ UNCHANGED <<ui, calls>>
     \/ Standing /\ Ask("cancel", "cancel", "cancelling")
     \/ /\ Answered("op") /\ At("cancelling")
        /\ Call("op", [call |-> "fetch"]) /\ Become(<<"fetching">>)
        /\ ui' = [ui EXCEPT !.comp = "none", !.fresh = TRUE]
     \/ Failed("op") /\ Ask("cancelling", "fetch", "recancelling")
     \/ /\ Answered("op") /\ At("recancelling")
        /\ LET got == calls["op"].got IN
           IF got.comp = "cancelled"
           THEN /\ Call("op", [call |-> "fetch"]) /\ Become(<<"fetching">>)
                /\ ui' = [ui EXCEPT !.comp = "none", !.fresh = TRUE]
           ELSE Throw(SeenCompletion(got)) /\ Hang("op")
     \/ /\ Answered("op") /\ At("fetching") /\ Continue /\ Hang("op")
        /\ ui' = Seen(calls["op"].got)
     \/ /\ Failed("op") /\ (At("fetching") \/ At("recancelling"))
        /\ Throw(ui) /\ Hang("op")
  /\ UNCHANGED <<server, issued, queue, failure, staging, late, faults>>

\* close(), once its staging is done.
ShutStep ==
  /\ \/ At("shut") /\ ui.comp = "none" /\ Throw(ui) /\ UNCHANGED calls
     \/ At("shut") /\ ui.comp = "closed" /\ Continue /\ UNCHANGED <<ui, calls>>
     \/ ui.comp \notin {"none", "closed"} /\ Ask("shut", "close", "shutting")
     \/ Failed("op") /\ Ask("shutting", "fetch", "reshutting")
     \/ /\ Answered("op") /\ (At("shutting") \/ At("reshutting"))
        /\ Hang("op")
        /\ LET got == calls["op"].got IN
           IF got.comp = "closed" THEN Continue /\ ui' = SeenCompletion(got)
                                  ELSE Throw(SeenCompletion(got))
     \/ Failed("op") /\ At("reshutting") /\ Throw(ui) /\ Hang("op")
  /\ UNCHANGED <<server, issued, queue, failure, staging, late, faults>>

-----------------------------------------------------------------------------
(* Staging: at most one run, joined by whoever awaits it.                  *)

\* The effect that runs when the study or its completion changed.
AutoStage ==
  /\ ui.open /\ ui.fresh
  /\ ui' = [ui EXCEPT !.fresh = FALSE]
  /\ staging' = IF /\ Completed /\ ui.comp = "none" /\ failure = "none"
                   /\ ~ui.suppress /\ staging = "idle"
                THEN "flush" ELSE staging
  /\ UNCHANGED <<server, issued, queue, failure, op, net>>

StageStep ==
  /\ \/ /\ At("stage") /\ Become(<<"staged">>)
        /\ staging' = IF staging = "idle" THEN "flush" ELSE staging
     \/ At("staged") /\ staging = "idle" /\ Continue /\ UNCHANGED staging
  /\ UNCHANGED <<server, issued, queue, failure, ui, net>>

\* Mutation of StageSends: what still waits in the queue is not awaited.
StageSendsAtOnce ==
  /\ staging = "flush" /\ UNCHANGED <<server, issued, queue, failure, ui, op>>
  /\ IF ui.suppress \/ ~Completed \/ ui.comp # "none"
     THEN staging' = "idle" /\ UNCHANGED calls
     ELSE staging' = "sent" /\ Call("stage", [call |-> "stage", seq |-> ui.seq])
  /\ UNCHANGED <<late, faults>>

\* stage: once the queue is flushed, unless there is nothing to complete.
StageSends ==
  /\ staging = "flush" /\ queue = <<>> /\ failure = "none"
  /\ IF ui.suppress \/ ~Completed \/ ui.comp # "none"
     THEN staging' = "idle" /\ UNCHANGED calls
     ELSE staging' = "sent" /\ Call("stage", [call |-> "stage", seq |-> ui.seq])
  /\ UNCHANGED <<server, issued, queue, failure, ui, op, late, faults>>

\* Mutation of StageEnds: a failed staging run shows no error.
StageEndsSilently ==
  /\ \/ /\ staging = "flush" /\ failure # "none" /\ UNCHANGED calls
     \/ /\ staging = "sent" /\ Failed("stage") /\ Hang("stage")
  /\ staging' = "idle"
  /\ IF At("staged") THEN Throw(ui) ELSE UNCHANGED <<ui, op>>
  /\ UNCHANGED <<server, issued, queue, failure, late, faults>>

StageEnds ==
  /\ \/ /\ staging = "flush" /\ failure # "none" /\ UNCHANGED calls
     \/ /\ staging = "sent" /\ Failed("stage") /\ Hang("stage")
  /\ staging' = "idle"
  /\ IF At("staged") THEN Throw(ui)
     ELSE ui' = [ui EXCEPT !.error = TRUE] /\ UNCHANGED op
  /\ UNCHANGED <<server, issued, queue, failure, late, faults>>

StageSucceeds ==
  /\ staging = "sent" /\ Answered("stage") /\ Hang("stage")
  /\ staging' = "idle" /\ ui' = SeenCompletion(calls["stage"].got)
  /\ UNCHANGED <<server, issued, queue, failure, op, late, faults>>

-----------------------------------------------------------------------------
(* What the learner may start, and when the page lets them.                *)

Begin(steps) ==
  /\ ui.open /\ ~Working
  /\ op' = [op EXCEPT !.steps = steps]
  /\ ui' = [ui EXCEPT !.error = FALSE]
  /\ UNCHANGED <<server, issued, queue, failure, staging, net>>

CanAct  == queue = <<>> /\ ~ui.error /\ issued < MaxCommands
Studying == ~Completed /\ ui.comp = "none"
Summary == ui.comp = "pending" /\ ui.rev < MaxRevisions

\* Mutation of Boundary: staging is neither held nor awaited.
BoundaryAtOnce(steps) == <<"flush", "cancel">> \o steps \o <<"release">>

Boundary(steps) ==
  <<"suppress", "staged", "flush", "cancel">> \o steps \o <<"release">>

Hold ==
  /\ ui.open /\ ~Working /\ CanAct /\ Studying /\ ~ui.held
  /\ ui' = [ui EXCEPT !.held = TRUE]
  /\ UNCHANGED <<server, issued, queue, failure, op, staging, net>>

Discard ==
  /\ ui.open /\ ~Working /\ CanAct /\ ui.held
  /\ ui' = [ui EXCEPT !.held = FALSE]
  /\ UNCHANGED <<server, issued, queue, failure, op, staging, net>>

Study ==
  /\ CanAct /\ Studying
  /\ \/ ~ui.held /\ Begin(<<"flush", "held", "next">>)
     \* An answer, and the exercise after it when it is rated at once.
     \/ Begin(<<IF ui.held THEN "held" ELSE "work">>)
     \/ Begin(<<IF ui.held THEN "held" ELSE "work", "advanceIfStudying">>)
     \* Skipping, or stopping a word being taught, then the next exercise.
     \/ Begin(<<"flush", "held", "endIfOpen", "flush", "held", "next">>)
     \/ Begin(<<"flush", "held", "endIfOpen", "nextIfStudying">>)
     \/ ui.phase = "active" /\ Begin(<<"flush", "held", "finish">>)
     \/ ui.phase = "finishing" /\ Begin(<<"flush", "held", "finishNow">>)

Revise ==
  /\ CanAct /\ (Studying \/ Summary)
  /\ \/ ~ui.held /\ Begin(Boundary(<<"undo">>))
     \/ Begin(Boundary(<<"held", "resumeIfCompleted">>))
     \/ Begin(Boundary(<<"held", "resumeIfCompleted", "revisit", "next">>))
     \/ Begin(Boundary(<<"held", "requeue">>))
     \/ /\ Summary
        /\ Begin(Boundary(<<"held", "resumeIfCompleted", "revisit", "finish",
                            "finishNowIfFinishing">>) \o <<"stage">>)

\* Reactions wait for no operation.
React ==
  /\ ui.open /\ Studying /\ failure = "none" /\ issued < MaxCommands
  /\ Enqueue("feedback")
  /\ UNCHANGED <<server, failure, ui, op, staging, net>>

Home == queue = <<>> /\ ui.comp # "none" /\ Begin(<<"flush", "stage", "shut", "reset">>)

\* The timer tries to close a completion whose window ended, once.
Deadline ==
  /\ ui.open /\ ~Working /\ ui.comp = "pending" /\ server.due
  /\ ui.attempted # ui.rev
  /\ op' = [op EXCEPT !.steps = <<"flush", "stage", "shut">>]
  /\ ui' = [ui EXCEPT !.error = FALSE, !.attempted = ui.rev]
  /\ UNCHANGED <<server, issued, queue, failure, staging, net>>

Retry ==
  /\ ui.error \/ ui.comp = "failed"
  /\ \E advance \in {<<>>, <<"advanceIfStudying">>} :
       Begin(<<"retry", "flush">> \o advance
             \o <<"stageIfCompleted", "closeIfStaged">>)

\* The page leaves a closed summary by itself, unless the learner keeps it.
Leave ==
  /\ ui.open /\ ~Working /\ ui.comp = "closed" /\ ~ui.error /\ queue = <<>>
  /\ ui' = [ui EXCEPT !.open = FALSE]
  /\ UNCHANGED <<server, issued, queue, failure, op, staging, net>>

\* A page that becomes visible looks at its completion again; the answer may
\* arrive after an operation that has begun since.
Look ==
  /\ Faulty /\ ui.open /\ ~Working /\ ui.comp # "none"
  /\ calls["look"] = NoCall /\ Call("look", [call |-> "fetch"])
  /\ UNCHANGED <<server, page, late>>

\* Mutation of LookSeen: whatever the page holds by then.
LookSeenAnyway ==
  /\ Answered("look") \/ Failed("look")
  /\ Hang("look")
  /\ ui' = IF Answered("look") THEN SeenCompletion(calls["look"].got) ELSE ui
  /\ UNCHANGED <<server, issued, queue, failure, op, staging, late, faults>>

\* The completion looked at is shown if the page still holds one.
LookSeen ==
  /\ Answered("look") \/ Failed("look")
  /\ Hang("look")
  /\ ui' = IF Answered("look") /\ ui.comp # "none"
           THEN SeenCompletion(calls["look"].got) ELSE ui
  /\ UNCHANGED <<server, issued, queue, failure, op, staging, late, faults>>

\* The page is loaded again: it finds only a completion not yet closed, and
\* forgets the queue; a request already sent may still be handled.
Reload ==
  /\ Faulty
  /\ queue' = <<>> /\ failure' = "none" /\ staging' = "idle"
  /\ op' = [op EXCEPT !.steps = <<>>]
  /\ late' = IF calls["queue"].at = "sent"
             THEN late \cup {calls["queue"].req.entry} ELSE late
  /\ calls' = [ch \in DOMAIN calls |-> NoCall]
  /\ ui' = [Seen(Snapshot(server)) EXCEPT
              !.open = Unfinished, !.load = @ + 1, !.held = FALSE, !.error = FALSE,
              !.suppress = FALSE, !.attempted = 0]
  /\ UNCHANGED <<server, issued>>

-----------------------------------------------------------------------------
Init ==
  /\ server = [ phase |-> "active", status |-> "active", log |-> <<>>,
                comp |-> "none", rev |-> 0, due |-> FALSE ]
  /\ issued = 0 /\ queue = <<>> /\ failure = "none"
  /\ calls = [ch \in Channels |-> NoCall] /\ late = {}
  /\ ui = [ open |-> TRUE, phase |-> "active", seq |-> 0, comp |-> "none",
            rev |-> 0, held |-> FALSE, error |-> FALSE, suppress |-> FALSE,
            fresh |-> FALSE, attempted |-> 0, load |-> 0,
            sawCancelled |-> FALSE ]
  /\ op = [steps |-> <<>>, own |-> 0] /\ staging = "idle" /\ faults = 0

OpStep == Flush \/ Await \/ Held \/ SendStep \/ Local \/ CancelStep \/ ShutStep
QueueStep == Pump \/ Acknowledge \/ Stop
StagingStep == StageStep \/ StageSends \/ StageEnds \/ StageSucceeds
Learner == Hold \/ Discard \/ Study \/ Revise \/ React \/ Home \/ Retry \/ Reload

Next ==
  \/ OpStep \/ StagingStep
  \/ /\ Waiting
     /\ \/ \E ch \in Channels : Serve(ch) \/ Lose(ch)
        \/ \E entry \in late : Arrive(entry)
        \/ CloseFails \/ WindowEnds \/ WorkerCloses
        \/ QueueStep \/ AutoStage
        \/ Deadline \/ Leave \/ Look \/ LookSeen
        \/ Learner

Spec == Init /\ [][Next]_vars

\* Promises are settled, effects run, the server answers and its worker polls;
\* and a learner who is shown Retry presses it.
FairSpec ==
  /\ Spec
  /\ \A ch \in Channels : WF_vars(Serve(ch))
  /\ WF_vars(OpStep) /\ WF_vars(StagingStep)
  /\ WF_vars(Waiting /\ QueueStep) /\ WF_vars(Waiting /\ AutoStage)
  /\ WF_vars(WindowEnds) /\ WF_vars(WorkerCloses) /\ WF_vars(Retry)

-----------------------------------------------------------------------------
(* Properties.                                                             *)

\* Work other than asking for the next exercise.
Matters(entry) == entry.kind # "next"

TypeOK ==
  /\ issued \in Nat /\ faults \in 0..MaxFaults
  /\ \A i \in DOMAIN queue : queue[i].id \in 1..issued
  /\ \A i \in DOMAIN server.log : server.log[i].id \in 1..issued
  /\ failure \in {"none", "lost", "refused"}
  /\ staging \in {"idle", "flush", "sent"}
  /\ server.comp \in {"none", "pending", "cancelled", "failed", "closed"}

\* Commands of one load of the page reach the log in the order they were
\* given, each at most once, whatever calls are lost, repeated or late.  The
\* queue is volatile: a request sent before a reload may land after it.
AppliedInOrder ==
  \A i, j \in DOMAIN server.log :
    (/\ i < j /\ Matters(server.log[i]) /\ Matters(server.log[j])
     /\ server.log[i].load = server.log[j].load) =>
      server.log[i].id < server.log[j].id

\* When a completion is staged nothing the learner did is left out of it.
WholeSessionIsStaged ==
  [][ (server.comp # "pending" /\ server'.comp = "pending") =>
        \A i \in DOMAIN queue : Matters(queue[i]) => Recognised(queue[i]) ]_vars

\* A completion on screen, with no operation under way and no error shown, is
\* one the server holds, of the very work the page has received: an answer
\* that was read before a completion was taken back does not bring it back.
\* Excepted is a page that was told of the cancellation while it still showed
\* the study as completed (sawCancelled): a late look may show it the
\* completion again, until it reads the study.
SummaryIsTheSession ==
  (ui.open /\ ~Working /\ ~ui.error /\ Standing /\ ~ui.sawCancelled) =>
    ~Unstaged /\ Completed /\ ui.seq = Len(server.log)

\* While the operation that took a completion back is still reopening the
\* session, no staging run, late or newly started, completes it again.
ResumedStaysOpen ==
  [][ (server.comp = "cancelled" /\ server'.comp = "pending") =>
        "release" \notin Range(op.steps) ]_vars

Hung == At("await") /\ failure # "none" /\ queue[1].id # op.own
Stuck == failure = "refused" \/ Hung

\* Lost calls keep no command waiting for ever.
QueueDrains == queue # <<>> ~> (queue = <<>> \/ Stuck)

\* The page shows a completion it learned was cancelled: it neither stages
\* again nor closes.
Orphaned == ui.comp = "cancelled"

\* A session the learner finished is closed, or is open to study again.
CompletedIsSaved ==
  (ui.open /\ Completed) ~>
    (server.comp = "closed" \/ ~ui.open \/ ~Completed \/ Stuck \/ Orphaned)

\* The queue never stops for good on a request refused for a completed
\* session: its completion could not be saved.
CompletionIsSavable == Completed => failure # "refused"

\* A completed session that nothing is saving is offered for Retry.
UnsavedOffersRetry ==
  (/\ ui.open /\ Completed /\ ~ui.fresh /\ Unstaged
   /\ ~Working /\ staging = "idle" /\ queue = <<>>) => ui.error
=============================================================================
