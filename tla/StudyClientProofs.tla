------------------------- MODULE StudyClientProofs -------------------------
(***************************************************************************)
(* What is proved of the browser's side of one study session.              *)
(*                                                                         *)
(* All of it is for any number of commands, lost calls and reloads.        *)
(*                                                                         *)
(* The state is well typed (ClientTypes), and what one load of the page    *)
(* decided is applied in order, each command at most once                  *)
(* (AppliedInOrder).  The inductive invariant is ClientTypes /\ QueueOrder *)
(* (ClientInv): only the head of the queue is ever under way, a command    *)
(* leaves the queue only once it is in the log, and whatever may still     *)
(* arrive late was the head when its page gave it up.                      *)
(*                                                                         *)
(* What is staged, and what the page then shows, is the whole session and  *)
(* stays so until it is taken back (WholeSessionIsStaged,                  *)
(* SummaryIsTheSession, ResumedStaysOpen).  SummaryInv adds to ClientInv   *)
(*   Shape                what is left of an operation: its suppress comes *)
(*                        before its release, and one call at a time is    *)
(*                        awaited, by the step at its head;                *)
(*   Answers              what page, network and staging know is no newer  *)
(*                        than the log, and current while a completion     *)
(*                        stands;                                          *)
(*   QueueInv             while a request to stage may still succeed, what *)
(*                        is queued is logged or asks for the next         *)
(*                        exercise; nothing is queued where a completion   *)
(*                        is closed or cancelled;                          *)
(*   TakenBackIsNoticed   a completion taken back that is still on screen  *)
(*                        has an error beside it, or a look on its way,    *)
(*                        or was seen cancelled.                           *)
(***************************************************************************)
EXTENDS StudyClient, TLAPS

Phases == {"active", "finishing", "completed"}
Kinds  == {"work", "revisit", "next", "finish", "finishNow", "undo", "resume",
           "feedback"}
Comps  == {"none", "pending", "cancelled", "failed", "closed"}

Entries   == [id : Nat, kind : Kinds, load : Nat]
Snapshots == [phase : Phases, seq : Nat, rev : Nat, comp : Comps]
Commands  == [call : {"command"}, entry : Entries]
Stagings  == [call : {"stage"}, seq : Nat]
Fetches   == [call : {"fetch"}]
Others    == [call : {"cancel", "close", "fetch"}, rev : Nat] \cup Fetches
Requests  == Commands \cup Stagings \cup Others

Calls == [at : {"none", "lost"}] \cup [at : {"sent"}, req : Requests]
         \cup [at : {"answered", "refused"}, got : Snapshots]

Servers == [ phase : Phases, status : {"active", "finalizing", "closed"},
             log : Seq(Entries), comp : Comps, rev : Nat, due : BOOLEAN ]
Pages   == [ open : BOOLEAN, phase : Phases, seq : Nat, comp : Comps,
             rev : Nat, held : BOOLEAN, error : BOOLEAN, suppress : BOOLEAN,
             fresh : BOOLEAN, attempted : Nat, load : Nat,
             sawCancelled : BOOLEAN ]

Steps == Commanding \cup
  {"flush", "await", "held", "advanceIfStudying", "requeue", "suppress",
   "release", "retry", "stageIfCompleted", "closeIfStaged", "reset", "cancel",
   "cancelling", "recancelling", "fetching", "shut", "shutting", "reshutting",
   "stage", "staged"}
Ops   == [steps : Seq(Steps), own : Nat]

\* Each channel carries its own kind of request.
Fits(ch) ==
  IF ch = "queue" THEN Commands
  ELSE IF ch = "stage" THEN Stagings
  ELSE IF ch = "look" THEN Fetches ELSE Others
CallsTyped ==
  /\ calls \in [Channels -> Calls]
  /\ \A ch \in Channels : calls[ch].at = "sent" => calls[ch].req \in Fits(ch)

ClientTypes ==
  /\ server \in Servers
  /\ issued \in Nat
  /\ queue \in Seq(Entries)
  /\ failure \in {"none", "lost", "refused"}
  /\ CallsTyped
  /\ late \in SUBSET Entries
  /\ ui \in Pages
  /\ op \in Ops
  /\ staging \in {"idle", "flush", "sent"}
  /\ faults \in 0..MaxFaults

-----------------------------------------------------------------------------
(* The order of commands.                                                  *)

\* The queue holds what this load of the page gave, oldest first.
QueueIsOrdered ==
  /\ \A i \in DOMAIN queue : queue[i].id \in 1..issued /\ queue[i].load = ui.load
  /\ \A i, j \in DOMAIN queue : i < j => queue[i].id < queue[j].id

\* Only the head of the queue is under way, and an answer means it is logged.
HeadIsSent ==
  /\ calls["queue"].at # "none" => queue # <<>>
  /\ calls["queue"].at = "sent" => calls["queue"].req.entry = queue[1]
  /\ (calls["queue"].at = "answered" /\ Matters(queue[1])) => Recognised(queue[1])

\* What is logged was issued, and before what waits in the queue.
LoggedBefore ==
  \A i \in DOMAIN server.log :
    /\ server.log[i].id \in 1..issued /\ server.log[i].load <= ui.load
    /\ (/\ Matters(server.log[i]) /\ server.log[i].load = ui.load
        /\ queue # <<>>) =>
         server.log[i] = queue[1] \/ server.log[i].id < queue[1].id

\* A late command that still counts is the last one its load of the page sent.
Counts(e) == Matters(e) /\ ~Recognised(e)
LateIsLast ==
  /\ \A e \in late :
       /\ e.id \in 1..issued /\ e.load <= ui.load
       /\ Counts(e) =>
            IF e.load = ui.load THEN queue # <<>> /\ e = queue[1]
            ELSE \A i \in DOMAIN server.log :
                   (Matters(server.log[i]) /\ server.log[i].load = e.load) =>
                     server.log[i].id < e.id
  /\ \A e, f \in late :
       (Counts(e) /\ Counts(f) /\ e.load = f.load) => e = f

QueueOrder ==
  QueueIsOrdered /\ HeadIsSent /\ LoggedBefore /\ LateIsLast /\ AppliedInOrder

ClientInv == ClientTypes /\ QueueOrder

-----------------------------------------------------------------------------
(* Types.                                                                  *)

LEMMA InitIsTyped == ASSUME Init PROVE ClientTypes
<1>1. server \in Servers
  BY DEF Init, Servers, Phases, Comps, Entries
<1>2. queue \in Seq(Entries) /\ late \in SUBSET Entries
  BY DEF Init
<1>3. /\ calls \in [Channels -> Calls]
      /\ \A ch \in Channels : calls[ch].at = "none"
  BY DEF Init, NoCall, Calls
<1>4. ui \in Pages
  BY DEF Init, Pages, Phases, Comps
<1>5. op \in Ops
  BY DEF Init, Ops
<1>6. faults \in 0..MaxFaults
  BY ClientAssumption DEF Init
<1>7. QED
  BY <1>1, <1>2, <1>3, <1>4, <1>5, <1>6 DEF Init, ClientTypes, CallsTyped

LEMMA SnapshotIsTyped ==
  ASSUME NEW s \in Servers
  PROVE  Snapshot(s) \in Snapshots
BY DEF Servers, Snapshot, Snapshots

LEMMA CallKinds ==
  ASSUME NEW c \in Calls
  PROVE  /\ c.at \in {"none", "lost", "sent", "answered", "refused"}
         /\ c.at = "sent" => c.req \in Requests
         /\ c.at \in {"answered", "refused"} => c.got \in Snapshots
BY DEF Calls

LEMMA RequestKinds ==
  /\ \A r \in Commands : r.call = "command" /\ r.entry \in Entries
  /\ \A r \in Stagings : r.call = "stage" /\ r.seq \in Nat
  /\ \A r \in Others : /\ r.call \in {"cancel", "close", "fetch"}
                       /\ r.call # "fetch" => r.rev \in Nat
  /\ \A r \in Fetches : r.call = "fetch"
BY DEF Commands, Stagings, Others, Fetches

\* The server answers a command by logging it, at most.
LEMMA ApplyIsTyped ==
  ASSUME server \in Servers, NEW e \in Entries, Apply(e)
  PROVE  server' \in Servers
<1>1. CASE UNCHANGED server
  BY <1>1
<1>2. ASSUME NEW p \in PhasesAfter(e.kind),
             server' = [server EXCEPT !.log = Append(@, e), !.phase = p]
      PROVE  server' \in Servers
  <2>1. p \in Phases
    BY <1>2 DEF PhasesAfter, Phases, Servers
  <2>2. Append(server.log, e) \in Seq(Entries)
    BY DEF Servers
  <2>3. QED
    BY <1>2, <2>1, <2>2 DEF Servers
<1>3. QED
  BY <1>1, <1>2 DEF Apply

LEMMA ClosedIsTyped ==
  ASSUME server \in Servers
  PROVE  Closed \in Servers
BY DEF Closed, Servers, Comps

LEMMA ServerIsTyped ==
  ASSUME server \in Servers, NEW req \in Requests, Accepted(req) \/ Refused(req)
  PROVE  server' \in Servers
<1> USE RequestKinds DEF Requests
<1>1. CASE req \in Commands
  BY <1>1, ApplyIsTyped DEF Accepted, Refused
<1>2. CASE req \in Stagings
  <2>1. CASE UNCHANGED server
    BY <2>1
  <2>2. CASE Stage(req.seq)
    <3>1. \/ UNCHANGED server
          \/ server' = [server EXCEPT !.status = "finalizing", !.due = FALSE,
                                      !.comp = "pending", !.rev = @ + 1]
      BY <2>2 DEF Stage
    <3>2. server.rev + 1 \in Nat
      BY DEF Servers
    <3>3. QED
      BY <3>1, <3>2 DEF Servers, Comps
  <2>3. QED
    BY <1>2, <2>1, <2>2 DEF Accepted, Refused
<1>3. CASE req \in Others
  <2>1. CASE UNCHANGED server
    BY <2>1
  <2>2. CASE server' = Closed
    BY <2>2, ClosedIsTyped
  <2>3. CASE server' = [server EXCEPT !.status = "active", !.comp = "cancelled"]
    BY <2>3 DEF Servers, Comps
  <2>4. QED
    BY <1>3, <2>1, <2>2, <2>3 DEF Accepted, Refused, Cancel, CancelTooLate
<1>4. QED
  BY <1>1, <1>2, <1>3

\* A call is made, answered or dropped.
LEMMA CallIsTyped ==
  ASSUME CallsTyped, NEW ch \in Channels, NEW c \in Calls,
         c.at = "sent" => c.req \in Fits(ch), calls' = [calls EXCEPT ![ch] = c]
  PROVE  CallsTyped'
<1>1. calls' \in [Channels -> Calls]
  BY DEF CallsTyped
<1>2. ASSUME NEW d \in Channels, calls'[d].at = "sent"
      PROVE  calls'[d].req \in Fits(d)
  <2>1. CASE d = ch
    BY <1>2, <2>1 DEF CallsTyped
  <2>2. CASE d # ch
    BY <1>2, <2>2 DEF CallsTyped
  <2>3. QED
    BY <2>1, <2>2
<1>3. QED
  BY <1>1, <1>2 DEF CallsTyped, Fits

LEMMA HangIsTyped ==
  ASSUME CallsTyped, NEW ch \in Channels, Hang(ch)
  PROVE  CallsTyped'
BY CallIsTyped DEF Hang, NoCall, Calls

LEMMA NewCallIsTyped ==
  ASSUME CallsTyped, NEW ch \in Channels, NEW req \in Fits(ch), Call(ch, req)
  PROVE  CallsTyped'
<1> DEFINE c == [at |-> "sent", req |-> req]
<1>1. c \in Calls /\ c.at = "sent" /\ c.req = req
  BY DEF Calls, Requests, Fits, Others
<1>2. calls' = [calls EXCEPT ![ch] = c]
  BY DEF Call
<1> HIDE DEF c
<1>3. QED
  BY <1>1, <1>2, CallIsTyped

LEMMA SettleIsTyped ==
  ASSUME CallsTyped, server' \in Servers, NEW ch \in Channels,
         NEW at \in {"answered", "refused"}, Settle(ch, at)
  PROVE  CallsTyped'
<1> DEFINE c == [at |-> at, got |-> Snapshot(server')]
<1>1. c \in Calls /\ c.at # "sent"
  BY SnapshotIsTyped DEF Calls
<1>2. calls' = [calls EXCEPT ![ch] = c]
  BY DEF Settle
<1> HIDE DEF c
<1>3. QED
  BY <1>1, <1>2, CallIsTyped

\* The answer of a settled call.
LEMMA GotIsTyped ==
  ASSUME CallsTyped, NEW ch \in Channels,
         calls[ch].at \in {"answered", "refused"}
  PROVE  calls[ch].got \in Snapshots
BY CallKinds DEF CallsTyped

LEMMA SeenIsTyped ==
  ASSUME ui \in Pages, NEW got \in Snapshots
  PROVE  /\ Seen(got) \in Pages /\ Seen(got).load = ui.load
         /\ SeenCompletion(got) \in Pages /\ SeenCompletion(got).load = ui.load
<1>1. /\ got.phase \in Phases /\ got.seq \in Nat /\ got.rev \in Nat
      /\ got.comp \in Comps
      /\ (IF got.comp = "cancelled" THEN "none" ELSE got.comp) \in Comps
      /\ (ui.sawCancelled \/ got.comp = "cancelled") \in BOOLEAN
  BY DEF Snapshots, Comps
<1>2. QED
  BY <1>1 DEF Seen, SeenCompletion, Pages

LEMMA EnqueueIsTyped ==
  ASSUME ClientTypes, NEW kind \in Kinds, Enqueue(kind)
  PROVE  /\ issued' \in Nat /\ queue' \in Seq(Entries)
         /\ Entry(issued + 1, kind) \in Entries
<1>1. Entry(issued + 1, kind) \in Entries
  BY DEF Entry, Entries, ClientTypes, Pages
<1>2. QED
  BY <1>1 DEF Enqueue, ClientTypes

LEMMA BecomeIsTyped ==
  ASSUME op \in Ops, Working, NEW steps \in Seq(Steps), Become(steps)
  PROVE  op' \in Ops
<1>1. Tail(op.steps) \in Seq(Steps)
  BY DEF Ops, Working
<1>2. steps \o Tail(op.steps) \in Seq(Steps)
  BY <1>1
<1>3. QED
  BY <1>2 DEF Become, Ops

LEMMA ThrowIsTyped ==
  ASSUME op \in Ops, NEW view \in Pages, Throw(view)
  PROVE  op' \in Ops /\ ui' \in Pages /\ ui'.load = view.load
<1>1. op' \in Ops
  <2>1. <<>> \in Seq(Steps)
    OBVIOUS
  <2>2. QED
    BY <2>1 DEF Throw, Ops
<1>2. ui' \in Pages /\ ui'.load = view.load
  BY DEF Throw, Pages
<1>3. QED
  BY <1>1, <1>2

LEMMA IssueIsTyped ==
  ASSUME ClientTypes, Working, NEW kind \in Kinds, Issue(kind)
  PROVE  issued' \in Nat /\ queue' \in Seq(Entries) /\ op' \in Ops
<1>1. issued' \in Nat /\ queue' \in Seq(Entries)
  BY EnqueueIsTyped DEF Issue
<1>2. Tail(op.steps) \in Seq(Steps)
  BY DEF ClientTypes, Ops, Working
<1>3. <<"await">> \o Tail(op.steps) \in Seq(Steps)
  <2>1. <<"await">> \in Seq(Steps)
    BY DEF Steps
  <2>2. QED
    BY <1>2, <2>1
<1>4. issued + 1 \in Nat
  BY DEF ClientTypes
<1>5. QED
  BY <1>1, <1>3, <1>4 DEF Issue, Ops

\* Each step keeps the types.
LEMMA ServeIsTyped ==
  ASSUME ClientTypes, NEW ch \in Channels, Serve(ch)
  PROVE  ClientTypes'
<1>1. calls[ch].req \in Requests
  BY CallKinds DEF ClientTypes, CallsTyped, Serve
<1>2. server' \in Servers
  BY <1>1, ServerIsTyped DEF Serve, ClientTypes
<1>3. CallsTyped'
  BY <1>2, SettleIsTyped DEF Serve, ClientTypes
<1>4. QED
  BY <1>2, <1>3 DEF Serve, ClientTypes, page

LEMMA FaultyIsTyped ==
  ASSUME ClientTypes, Faulty
  PROVE  faults' \in 0..MaxFaults
BY ClientAssumption DEF ClientTypes, Faulty

LEMMA CloseFailsIsTyped ==
  ASSUME ClientTypes, CloseFails
  PROVE  ClientTypes'
<1>1. server' \in Servers
  BY DEF CloseFails, ClientTypes, Servers, Comps
<1>2. CallsTyped'
  BY <1>1, SettleIsTyped DEF CloseFails, ClientTypes, Channels
<1>3. QED
  BY <1>1, <1>2, FaultyIsTyped DEF CloseFails, ClientTypes, page

LEMMA LoseIsTyped ==
  ASSUME ClientTypes, NEW ch \in Channels, Lose(ch)
  PROVE  ClientTypes'
<1>1. [at |-> "lost"] \in Calls /\ [at |-> "lost"].at # "sent"
  BY DEF Calls
<1>2. CallsTyped'
  BY <1>1, CallIsTyped DEF Lose, ClientTypes
<1>3. late' \in SUBSET Entries
  <2>1. calls["queue"].at = "sent" => calls["queue"].req.entry \in Entries
    BY RequestKinds DEF ClientTypes, CallsTyped, Channels, Fits
  <2>2. QED
    BY <2>1 DEF Lose, ClientTypes
<1>4. QED
  BY <1>2, <1>3, FaultyIsTyped DEF Lose, ClientTypes, page

LEMMA ArriveIsTyped ==
  ASSUME ClientTypes, NEW e \in late, Arrive(e)
  PROVE  ClientTypes'
<1>1. server' \in Servers
  BY ApplyIsTyped DEF Arrive, ClientTypes
<1>2. QED
  BY <1>1 DEF Arrive, ClientTypes, page, CallsTyped

LEMMA WindowIsTyped ==
  ASSUME ClientTypes, WindowEnds \/ WorkerCloses
  PROVE  ClientTypes'
<1>1. server' \in Servers
  BY ClosedIsTyped DEF WindowEnds, WorkerCloses, ClientTypes, Servers
<1>2. QED
  BY <1>1 DEF WindowEnds, WorkerCloses, ClientTypes, page, net, CallsTyped

LEMMA QueueIsTyped ==
  ASSUME ClientTypes, QueueStep
  PROVE  ClientTypes'
<1> USE DEF ClientTypes
<1>0. "queue" \in Channels
  BY DEF Channels
<1>1. CASE Pump
  <2>1. [call |-> "command", entry |-> Head(queue)] \in Fits("queue")
    BY <1>1 DEF Pump, Fits, Commands
  <2>2. CallsTyped'
    BY <1>0, <1>1, <2>1, NewCallIsTyped DEF Pump
  <2>3. QED
    BY <1>1, <2>2 DEF Pump, page
<1>2. CASE Acknowledge
  <2>1. CallsTyped' /\ calls["queue"].got \in Snapshots
    BY <1>0, <1>2, HangIsTyped, GotIsTyped DEF Acknowledge, Answered
  <2>2. ui' \in Pages
    BY <1>2, <2>1, SeenIsTyped DEF Acknowledge
  <2>3. queue' \in Seq(Entries)
    <3>1. CASE queue = <<>>
      BY <1>2, <3>1 DEF Acknowledge
    <3>2. CASE queue # <<>>
      BY <1>2, <3>2 DEF Acknowledge
    <3>3. QED
      BY <3>1, <3>2
  <2>4. QED
    BY <1>2, <2>1, <2>2, <2>3 DEF Acknowledge
<1>3. CASE Stop
  <2>1. CallsTyped'
    BY <1>0, <1>3, HangIsTyped DEF Stop
  <2>2. ui' \in Pages
    BY <1>3 DEF Stop, Pages
  <2>3. QED
    BY <1>3, <2>1, <2>2 DEF Stop, Failed
<1>4. QED
  BY <1>1, <1>2, <1>3 DEF QueueStep

LEMMA StepLiterals ==
  /\ <<>> \in Seq(Steps)
  /\ <<"flush", "held", "next">> \in Seq(Steps)
  /\ <<"resumeIfCompleted", "revisit", "flush", "held", "next">> \in Seq(Steps)
  /\ <<"revisit">> \in Seq(Steps) /\ <<"stage">> \in Seq(Steps)
  /\ <<"flush", "stage", "shut">> \in Seq(Steps)
  /\ <<"staged">> \in Seq(Steps) /\ <<"fetching">> \in Seq(Steps)
  /\ <<"cancelling">> \in Seq(Steps) /\ <<"recancelling">> \in Seq(Steps)
  /\ <<"shutting">> \in Seq(Steps) /\ <<"reshutting">> \in Seq(Steps)
BY DEF Steps, Commanding

LEMMA SendsKinds ==
  ASSUME NEW step \in Commanding, SendNow(step) # "nothing"
  PROVE  SendNow(step) \in Kinds
BY DEF SendNow, Commanding, Kinds

LEMMA FlushIsTyped ==
  ASSUME ClientTypes, Flush \/ Await
  PROVE  ClientTypes'
<1>1. Working /\ op \in Ops /\ ui \in Pages
  BY DEF Flush, Await, At, ClientTypes
<1>2. op' \in Ops /\ ui' \in Pages
  <2>1. CASE Throw(ui)
    BY <1>1, <2>1, ThrowIsTyped
  <2>2. CASE Continue /\ UNCHANGED ui
    BY <1>1, <2>2, BecomeIsTyped, StepLiterals DEF Continue
  <2>3. QED
    BY <2>1, <2>2 DEF Flush, Await
<1>3. QED
  BY <1>2 DEF Flush, Await, ClientTypes, net, CallsTyped

LEMMA HeldIsTyped ==
  ASSUME ClientTypes, Held
  PROVE  ClientTypes'
<1>1. Working /\ op \in Ops
  BY DEF Held, At, ClientTypes
<1>2. issued' \in Nat /\ queue' \in Seq(Entries) /\ op' \in Ops
  <2>1. CASE ui.held
    BY <1>1, <2>1, IssueIsTyped DEF Held, Kinds
  <2>2. CASE ~ui.held
    BY <1>1, <2>2, BecomeIsTyped, StepLiterals DEF Held, Continue, ClientTypes
  <2>3. QED
    BY <2>1, <2>2
<1>3. ui' \in Pages
  BY DEF Held, ClientTypes, Pages
<1>4. QED
  BY <1>2, <1>3 DEF Held, ClientTypes, net, CallsTyped

LEMMA SendStepIsTyped ==
  ASSUME ClientTypes, SendStep
  PROVE  ClientTypes'
<1> DEFINE kind == SendNow(Head(op.steps))
<1>1. Working /\ op \in Ops /\ Head(op.steps) \in Commanding
  BY DEF SendStep, ClientTypes
<1>2. issued' \in Nat /\ queue' \in Seq(Entries) /\ op' \in Ops
  <2>1. CASE kind # "nothing" /\ Issue(kind)
    <3>1. kind \in Kinds
      BY <1>1, <2>1, SendsKinds
    <3> HIDE DEF kind
    <3>2. QED
      BY <1>1, <2>1, <3>1, IssueIsTyped
  <2>2. CASE Continue /\ UNCHANGED <<issued, queue>>
    BY <1>1, <2>2, BecomeIsTyped, StepLiterals DEF Continue, ClientTypes
  <2>3. QED
    BY <2>1, <2>2 DEF SendStep
<1>3. QED
  BY <1>2 DEF SendStep, ClientTypes, net, CallsTyped

LEMMA LocalIsTyped ==
  ASSUME ClientTypes, Local
  PROVE  ClientTypes'
<1>1. Working /\ op \in Ops /\ ui \in Pages
  BY DEF Local, At, ClientTypes
<1>2. op' \in Ops
  BY <1>1, BecomeIsTyped, ThrowIsTyped, StepLiterals DEF Local, Continue
<1>3. ui' \in Pages /\ failure' \in {"none", "lost", "refused"}
  <2>1. CASE UNCHANGED ui
    BY <1>1, <2>1 DEF Local, ClientTypes
  <2>2. CASE ui' = [ui EXCEPT !.suppress = TRUE] /\ UNCHANGED failure
    BY <1>1, <2>2 DEF Pages, ClientTypes
  <2>3. CASE ui' = [ui EXCEPT !.suppress = FALSE] /\ UNCHANGED failure
    BY <1>1, <2>3 DEF Pages, ClientTypes
  <2>4. CASE ui' = [ui EXCEPT !.open = FALSE] /\ UNCHANGED failure
    BY <1>1, <2>4 DEF Pages, ClientTypes
  <2>5. CASE Throw(ui) /\ UNCHANGED failure
    BY <1>1, <2>5, ThrowIsTyped DEF ClientTypes
  <2>6. QED
    BY <2>1, <2>2, <2>3, <2>4, <2>5 DEF Local
<1>4. QED
  BY <1>2, <1>3 DEF Local, ClientTypes, net, CallsTyped

\* A step that asks the server, of a completion or for the study.
LEMMA AskIsTyped ==
  ASSUME ClientTypes, NEW step, NEW request \in {"cancel", "close", "fetch"},
         NEW waiting, <<waiting>> \in Seq(Steps), Ask(step, request, waiting)
  PROVE  CallsTyped' /\ op' \in Ops /\ ui' = ui
<1>1. op' \in Ops
  BY BecomeIsTyped DEF Ask, At, ClientTypes
<1>2. [call |-> request, rev |-> ui.rev] \in Fits("op")
  BY DEF ClientTypes, Pages, Fits, Others
<1>3. CallsTyped'
  BY <1>2, NewCallIsTyped DEF Ask, ClientTypes, Channels
<1>4. QED
  BY <1>1, <1>3 DEF Ask

LEMMA CancelStepIsTyped ==
  ASSUME ClientTypes, CancelStep
  PROVE  ClientTypes'
<1> USE StepLiterals
<1>0. "op" \in Channels /\ op \in Ops /\ ui \in Pages /\ CallsTyped
  BY DEF Channels, ClientTypes
<1>1. [call |-> "fetch"] \in Fits("op")
  BY DEF Fits, Others, Fetches
<1>2. CallsTyped' /\ op' \in Ops /\ ui' \in Pages
  <2>1. CASE At("cancel") /\ ~Standing /\ Continue /\ UNCHANGED <<ui, calls>>
    BY <1>0, <2>1, BecomeIsTyped DEF At, Continue, CallsTyped
  <2>2. CASE Ask("cancel", "cancel", "cancelling")
    BY <1>0, <2>2, AskIsTyped
  <2>3. CASE /\ At("cancelling")
             /\ Call("op", [call |-> "fetch"]) /\ Become(<<"fetching">>)
             /\ ui' = [ui EXCEPT !.comp = "none", !.fresh = TRUE]
    <3>1. ui' \in Pages
      BY <1>0, <2>3 DEF Pages, Comps
    <3>2. QED
      BY <1>0, <1>1, <2>3, <3>1, NewCallIsTyped, BecomeIsTyped DEF At
  <2>4. CASE Ask("cancelling", "fetch", "recancelling")
    BY <1>0, <2>4, AskIsTyped
  <2>5. CASE /\ Answered("op") /\ At("recancelling")
             /\ LET got == calls["op"].got IN
                IF got.comp = "cancelled"
                THEN /\ Call("op", [call |-> "fetch"]) /\ Become(<<"fetching">>)
                     /\ ui' = [ui EXCEPT !.comp = "none", !.fresh = TRUE]
                ELSE Throw(SeenCompletion(got)) /\ Hang("op")
    <3>1. SeenCompletion(calls["op"].got) \in Pages
      BY <1>0, <2>5, GotIsTyped, SeenIsTyped DEF Answered
    <3>2. [ui EXCEPT !.comp = "none", !.fresh = TRUE] \in Pages
      BY <1>0 DEF Pages, Comps
    <3>3. CASE calls["op"].got.comp = "cancelled"
      BY <1>0, <1>1, <2>5, <3>2, <3>3, NewCallIsTyped, BecomeIsTyped DEF At
    <3>4. CASE calls["op"].got.comp # "cancelled"
      BY <1>0, <2>5, <3>1, <3>4, HangIsTyped, ThrowIsTyped
    <3>5. QED
      BY <3>3, <3>4
  <2>6. CASE /\ Answered("op") /\ At("fetching") /\ Continue /\ Hang("op")
             /\ ui' = Seen(calls["op"].got)
    <3>1. ui' \in Pages
      BY <1>0, <2>6, GotIsTyped, SeenIsTyped DEF Answered
    <3>2. QED
      BY <1>0, <2>6, <3>1, HangIsTyped, BecomeIsTyped DEF At, Continue
  <2>7. CASE Throw(ui) /\ Hang("op")
    BY <1>0, <2>7, HangIsTyped, ThrowIsTyped
  <2>8. QED
    BY <2>1, <2>2, <2>3, <2>4, <2>5, <2>6, <2>7 DEF CancelStep
<1>3. QED
  BY <1>2 DEF CancelStep, ClientTypes

LEMMA ShutStepIsTyped ==
  ASSUME ClientTypes, ShutStep
  PROVE  ClientTypes'
<1> USE StepLiterals
<1>0. "op" \in Channels /\ op \in Ops /\ ui \in Pages /\ CallsTyped
  BY DEF Channels, ClientTypes
<1>1. CallsTyped' /\ op' \in Ops /\ ui' \in Pages
  <2>1. CASE At("shut") /\ Throw(ui) /\ UNCHANGED calls
    BY <1>0, <2>1, ThrowIsTyped DEF CallsTyped
  <2>2. CASE At("shut") /\ Continue /\ UNCHANGED <<ui, calls>>
    BY <1>0, <2>2, BecomeIsTyped DEF At, Continue, CallsTyped
  <2>3. CASE Ask("shut", "close", "shutting")
    BY <1>0, <2>3, AskIsTyped
  <2>4. CASE Ask("shutting", "fetch", "reshutting")
    BY <1>0, <2>4, AskIsTyped
  <2>5. CASE /\ Answered("op") /\ (At("shutting") \/ At("reshutting"))
             /\ Hang("op")
             /\ LET got == calls["op"].got IN
                IF got.comp = "closed" THEN Continue /\ ui' = SeenCompletion(got)
                                       ELSE Throw(SeenCompletion(got))
    <3>1. SeenCompletion(calls["op"].got) \in Pages
      BY <1>0, <2>5, GotIsTyped, SeenIsTyped DEF Answered
    <3>2. CASE calls["op"].got.comp = "closed"
      BY <1>0, <2>5, <3>1, <3>2, HangIsTyped, BecomeIsTyped DEF At, Continue
    <3>3. CASE calls["op"].got.comp # "closed"
      BY <1>0, <2>5, <3>1, <3>3, HangIsTyped, ThrowIsTyped
    <3>4. QED
      BY <3>2, <3>3
  <2>6. CASE Throw(ui) /\ Hang("op")
    BY <1>0, <2>6, HangIsTyped, ThrowIsTyped
  <2>7. QED
    BY <2>1, <2>2, <2>3, <2>4, <2>5, <2>6 DEF ShutStep
<1>2. QED
  BY <1>1 DEF ShutStep, ClientTypes

LEMMA AutoStageIsTyped ==
  ASSUME ClientTypes, AutoStage
  PROVE  ClientTypes'
<1>1. ui' \in Pages
  BY DEF AutoStage, ClientTypes, Pages
<1>2. staging' \in {"idle", "flush", "sent"}
  BY DEF AutoStage, ClientTypes
<1>3. QED
  BY <1>1, <1>2 DEF AutoStage, ClientTypes, net, CallsTyped

LEMMA StagingIsTyped ==
  ASSUME ClientTypes, StagingStep
  PROVE  ClientTypes'
<1> USE StepLiterals
<1>0. "stage" \in Channels /\ op \in Ops /\ ui \in Pages /\ CallsTyped
  BY DEF Channels, ClientTypes
<1>1. CASE StageStep
  <2>1. op' \in Ops /\ staging' \in {"idle", "flush", "sent"}
    BY <1>0, <1>1, BecomeIsTyped DEF StageStep, At, Continue, ClientTypes
  <2>2. QED
    BY <1>1, <2>1 DEF StageStep, ClientTypes, net, CallsTyped
<1>2. CASE StageSends
  <2>1. [call |-> "stage", seq |-> ui.seq] \in Fits("stage")
    BY <1>0 DEF Pages, Fits, Stagings
  <2>2. CallsTyped' /\ staging' \in {"idle", "sent"}
    <3>1. CASE UNCHANGED calls /\ staging' = "idle"
      BY <1>0, <3>1 DEF CallsTyped
    <3>2. CASE /\ staging' = "sent"
               /\ Call("stage", [call |-> "stage", seq |-> ui.seq])
      BY <1>0, <2>1, <3>2, NewCallIsTyped
    <3>3. QED
      BY <1>2, <3>1, <3>2 DEF StageSends
  <2>3. QED
    BY <1>2, <2>2 DEF StageSends, ClientTypes
<1>3. CASE StageEnds
  <2>1. CallsTyped'
    BY <1>0, <1>3, HangIsTyped DEF StageEnds, CallsTyped
  <2>2. op' \in Ops /\ ui' \in Pages
    <3>1. [ui EXCEPT !.error = TRUE] \in Pages
      BY <1>0 DEF Pages
    <3>2. QED
      BY <1>0, <1>3, <3>1, ThrowIsTyped DEF StageEnds
  <2>3. QED
    BY <1>3, <2>1, <2>2 DEF StageEnds, ClientTypes
<1>4. CASE StageSucceeds
  <2>1. ui' \in Pages
    BY <1>0, <1>4, GotIsTyped, SeenIsTyped DEF StageSucceeds, Answered
  <2>2. CallsTyped'
    BY <1>0, <1>4, HangIsTyped DEF StageSucceeds
  <2>3. QED
    BY <1>4, <2>1, <2>2 DEF StageSucceeds, ClientTypes
<1>5. QED
  BY <1>1, <1>2, <1>3, <1>4 DEF StagingStep

LEMMA BeginIsTyped ==
  ASSUME ClientTypes, NEW steps \in Seq(Steps), Begin(steps)
  PROVE  ClientTypes'
<1>1. op' \in Ops /\ ui' \in Pages
  BY DEF Begin, ClientTypes, Ops, Pages
<1>2. QED
  BY <1>1 DEF Begin, ClientTypes, net, CallsTyped

LEMMA BoundaryIsTyped ==
  ASSUME NEW steps \in Seq(Steps)
  PROVE  Boundary(steps) \in Seq(Steps)
<1>1. <<"suppress", "staged", "flush", "cancel">> \in Seq(Steps)
  BY DEF Steps
<1>2. <<"release">> \in Seq(Steps)
  BY DEF Steps
<1>3. QED
  BY <1>1, <1>2 DEF Boundary

LEMMA StudyIsTyped ==
  ASSUME ClientTypes, Study
  PROVE  ClientTypes'
<1> DEFINE first == IF ui.held THEN "held" ELSE "work"
<1>1. first \in Steps
  BY DEF Steps, Commanding
<1> HIDE DEF first
<1>2. <<first>> \in Seq(Steps) /\ <<first, "advanceIfStudying">> \in Seq(Steps)
  BY <1>1 DEF Steps
<1>3. /\ <<"flush", "held", "endIfOpen", "flush", "held", "next">> \in Seq(Steps)
      /\ <<"flush", "held", "endIfOpen", "nextIfStudying">> \in Seq(Steps)
      /\ <<"flush", "held", "finish">> \in Seq(Steps)
      /\ <<"flush", "held", "finishNow">> \in Seq(Steps)
  BY DEF Steps, Commanding
<1>4. QED
  BY <1>2, <1>3, StepLiterals, BeginIsTyped DEF Study, first

LEMMA ReviseIsTyped ==
  ASSUME ClientTypes, Revise
  PROVE  ClientTypes'
<1>1. /\ <<"undo">> \in Seq(Steps) /\ <<"stage">> \in Seq(Steps)
      /\ <<"held", "resumeIfCompleted">> \in Seq(Steps)
      /\ <<"held", "resumeIfCompleted", "revisit", "next">> \in Seq(Steps)
      /\ <<"held", "requeue">> \in Seq(Steps)
      /\ <<"held", "resumeIfCompleted", "revisit", "finish",
           "finishNowIfFinishing">> \in Seq(Steps)
  BY DEF Steps, Commanding
<1>2. /\ Boundary(<<"undo">>) \in Seq(Steps)
      /\ Boundary(<<"held", "resumeIfCompleted">>) \in Seq(Steps)
      /\ Boundary(<<"held", "resumeIfCompleted", "revisit", "next">>)
           \in Seq(Steps)
      /\ Boundary(<<"held", "requeue">>) \in Seq(Steps)
  BY <1>1, BoundaryIsTyped
<1>3. Boundary(<<"held", "resumeIfCompleted", "revisit", "finish",
                 "finishNowIfFinishing">>) \o <<"stage">> \in Seq(Steps)
  <2>1. Boundary(<<"held", "resumeIfCompleted", "revisit", "finish",
                   "finishNowIfFinishing">>) \in Seq(Steps)
    BY <1>1, BoundaryIsTyped
  <2>2. QED
    BY <1>1, <2>1
<1>4. QED
  BY <1>2, <1>3, BeginIsTyped DEF Revise

LEMMA RetryIsTyped ==
  ASSUME ClientTypes, Retry
  PROVE  ClientTypes'
<1>1. PICK advance \in {<<>>, <<"advanceIfStudying">>} :
        Begin(<<"retry", "flush">> \o advance
              \o <<"stageIfCompleted", "closeIfStaged">>)
  BY DEF Retry
<1>2. /\ advance \in Seq(Steps) /\ <<"retry", "flush">> \in Seq(Steps)
      /\ <<"stageIfCompleted", "closeIfStaged">> \in Seq(Steps)
  <2>1. <<>> \in Seq(Steps) /\ <<"advanceIfStudying">> \in Seq(Steps)
    BY DEF Steps
  <2>2. /\ <<"retry", "flush">> \in Seq(Steps)
        /\ <<"stageIfCompleted", "closeIfStaged">> \in Seq(Steps)
    BY DEF Steps
  <2>3. QED
    BY <2>1, <2>2
<1>3. <<"retry", "flush">> \o advance
      \o <<"stageIfCompleted", "closeIfStaged">> \in Seq(Steps)
  BY <1>2
<1>4. QED
  BY <1>1, <1>3, BeginIsTyped

LEMMA ReloadIsTyped ==
  ASSUME ClientTypes, Reload
  PROVE  ClientTypes'
<1>1. late' \in SUBSET Entries
  <2>1. calls["queue"].at = "sent" => calls["queue"].req.entry \in Entries
    BY RequestKinds DEF ClientTypes, CallsTyped, Channels, Fits
  <2>2. QED
    BY <2>1 DEF Reload, ClientTypes
<1>2. CallsTyped'
  BY DEF Reload, ClientTypes, CallsTyped, NoCall, Calls
<1>3. ui' \in Pages
  <2>1. Seen(Snapshot(server)) \in Pages
    BY SnapshotIsTyped, SeenIsTyped DEF ClientTypes
  <2> DEFINE seen == Seen(Snapshot(server))
  <2>2. Unfinished \in BOOLEAN
    BY DEF Unfinished
  <2>3. ui' = [seen EXCEPT
                 !.open = Unfinished, !.load = @ + 1, !.held = FALSE,
                 !.error = FALSE, !.suppress = FALSE, !.attempted = 0]
    BY DEF Reload
  <2>4. seen \in Pages
    BY <2>1
  <2> HIDE DEF seen
  <2>5. seen.load + 1 \in Nat
    BY <2>4 DEF Pages
  <2>6. QED
    BY <2>2, <2>3, <2>4, <2>5 DEF Pages
<1>4. op' \in Ops
  BY StepLiterals DEF Reload, ClientTypes, Ops
<1>5. QED
  BY <1>1, <1>2, <1>3, <1>4, FaultyIsTyped DEF Reload, ClientTypes

LEMMA LearnerIsTyped ==
  ASSUME ClientTypes, Learner
  PROVE  ClientTypes'
<1>1. CASE Hold \/ Discard
  <2>1. ui' \in Pages
    BY <1>1 DEF Hold, Discard, ClientTypes, Pages
  <2>2. QED
    BY <1>1, <2>1 DEF Hold, Discard, ClientTypes, net, CallsTyped
<1>2. CASE React
  <2>1. issued' \in Nat /\ queue' \in Seq(Entries)
    BY <1>2, EnqueueIsTyped DEF React, Kinds
  <2>2. QED
    BY <1>2, <2>1 DEF React, ClientTypes, net, CallsTyped
<1>3. CASE Home
  <2>1. <<"flush", "stage", "shut", "reset">> \in Seq(Steps)
    BY DEF Steps
  <2>2. QED
    BY <1>3, <2>1, BeginIsTyped DEF Home
<1>4. QED
  BY <1>1, <1>2, <1>3, StudyIsTyped, ReviseIsTyped, RetryIsTyped, ReloadIsTyped
  DEF Learner

LEMMA PageEventIsTyped ==
  ASSUME ClientTypes, Deadline \/ Leave \/ Look \/ LookSeen
  PROVE  ClientTypes'
<1>0. "look" \in Channels /\ CallsTyped /\ ui \in Pages
  BY DEF Channels, ClientTypes
<1>1. CASE Deadline
  <2>1. op' \in Ops
    BY <1>1, StepLiterals DEF Deadline, ClientTypes, Ops
  <2>2. ui' \in Pages
    BY <1>0, <1>1 DEF Deadline, Pages
  <2>3. QED
    BY <1>1, <2>1, <2>2 DEF Deadline, ClientTypes, net, CallsTyped
<1>2. CASE Leave
  <2>1. ui' \in Pages
    BY <1>0, <1>2 DEF Leave, Pages
  <2>2. QED
    BY <1>2, <2>1 DEF Leave, ClientTypes, net, CallsTyped
<1>3. CASE Look
  <2>1. [call |-> "fetch"] \in Fits("look")
    BY DEF Fits, Fetches
  <2>2. CallsTyped'
    BY <1>0, <1>3, <2>1, NewCallIsTyped DEF Look
  <2>3. QED
    BY <1>3, <2>2, FaultyIsTyped DEF Look, ClientTypes, page
<1>4. CASE LookSeen
  <2>1. CallsTyped'
    BY <1>0, <1>4, HangIsTyped DEF LookSeen
  <2>2. ui' \in Pages
    BY <1>0, <1>4, GotIsTyped, SeenIsTyped DEF LookSeen, Answered
  <2>3. QED
    BY <1>4, <2>1, <2>2 DEF LookSeen, ClientTypes
<1>5. QED
  BY <1>1, <1>2, <1>3, <1>4

LEMMA NextIsTyped ==
  ASSUME ClientTypes, [Next]_vars
  PROVE  ClientTypes'
<1>1. CASE OpStep
  BY <1>1, FlushIsTyped, HeldIsTyped, SendStepIsTyped, LocalIsTyped,
     CancelStepIsTyped, ShutStepIsTyped DEF OpStep
<1>2. CASE UNCHANGED vars
  BY <1>2 DEF vars, page, net, ClientTypes, CallsTyped
<1>3. QED
  BY <1>1, <1>2, StagingIsTyped, ServeIsTyped, LoseIsTyped, ArriveIsTyped,
     CloseFailsIsTyped, WindowIsTyped, QueueIsTyped, AutoStageIsTyped,
     PageEventIsTyped, LearnerIsTyped DEF Next

\* Every reachable state of the page, the network and the session's rows is
\* well typed, each call carrying a request its channel sends.
THEOREM ClientTypeCorrect == Spec => []ClientTypes
<1>1. Init => ClientTypes
  BY InitIsTyped
<1>2. ClientTypes /\ [Next]_vars => ClientTypes'
  BY NextIsTyped
<1>3. QED
  BY <1>1, <1>2, PTL DEF Spec

-----------------------------------------------------------------------------
(* The order of commands.                                                  *)

LEMMA InitIsOrdered == ASSUME Init PROVE QueueOrder
BY DEF Init, QueueOrder, QueueIsOrdered, HeadIsSent, LoggedBefore, LateIsLast,
       AppliedInOrder, NoCall, Channels

\* A step that touches neither the log nor the queue nor its call.
LEMMA OrderFrame ==
  ASSUME QueueOrder, server'.log = server.log, UNCHANGED <<queue, issued, late>>,
         ui'.load = ui.load, calls'["queue"] = calls["queue"]
  PROVE  QueueOrder'
<1>1. QueueIsOrdered' /\ HeadIsSent'
  BY DEF QueueOrder, QueueIsOrdered, HeadIsSent, Recognised
<1>2. LoggedBefore' /\ LateIsLast' /\ AppliedInOrder'
  BY DEF QueueOrder, LoggedBefore, LateIsLast, AppliedInOrder, Counts, Recognised
<1>3. QED
  BY <1>1, <1>2 DEF QueueOrder

\* A command enqueued stands behind everything issued before it.
LEMMA OrderEnqueue ==
  ASSUME ClientInv, NEW kind \in Kinds, Enqueue(kind),
         server'.log = server.log, late' = late, ui'.load = ui.load,
         calls'["queue"] = calls["queue"]
  PROVE  QueueOrder'
<1> DEFINE e == Entry(issued + 1, kind)
<1>1. e \in Entries /\ e.id = issued + 1 /\ e.load = ui.load
  BY EnqueueIsTyped DEF ClientInv, Entry
<1>2. issued' = issued + 1 /\ queue' = Append(queue, e)
  BY DEF Enqueue
<1> HIDE DEF e
<1>3. /\ issued \in Nat /\ queue \in Seq(Entries)
      /\ server.log \in Seq(Entries)
  BY DEF ClientInv, ClientTypes, Servers
<1>4. /\ Len(queue') = Len(queue) + 1 /\ DOMAIN queue' = 1..(Len(queue) + 1)
      /\ \A i \in DOMAIN queue : queue'[i] = queue[i]
      /\ queue'[Len(queue) + 1] = e
      /\ queue' # <<>>
  BY <1>1, <1>2, <1>3
<1>5. QueueIsOrdered'
  <2>1. ASSUME NEW i \in DOMAIN queue'
        PROVE  queue'[i].id \in 1..issued' /\ queue'[i].load = ui'.load
    <3>1. CASE i \in DOMAIN queue
      BY <1>2, <1>3, <1>4, <3>1 DEF ClientInv, QueueOrder, QueueIsOrdered
    <3>2. CASE i = Len(queue) + 1
      BY <1>1, <1>2, <1>3, <1>4, <3>2
    <3>3. QED
      BY <1>3, <1>4, <3>1, <3>2
  <2>2. ASSUME NEW i \in DOMAIN queue', NEW j \in DOMAIN queue', i < j
        PROVE  queue'[i].id < queue'[j].id
    <3>1. i \in DOMAIN queue
      BY <1>3, <1>4, <2>2
    <3>2. CASE j \in DOMAIN queue
      BY <1>4, <2>2, <3>1, <3>2 DEF ClientInv, QueueOrder, QueueIsOrdered
    <3>3. CASE j = Len(queue) + 1
      <4>1. queue[i].id \in 1..issued
        BY <3>1 DEF ClientInv, QueueOrder, QueueIsOrdered
      <4>2. QED
        BY <1>1, <1>3, <1>4, <3>1, <3>3, <4>1
    <3>4. QED
      BY <1>3, <1>4, <3>2, <3>3
  <2>3. QED
    BY <2>1, <2>2 DEF QueueIsOrdered
\* The head is the same, or the new command when nothing waited.
<1>6. queue # <<>> => queue'[1] = queue[1]
  BY <1>3, <1>4
<1>7. queue = <<>> => queue'[1] = e
  BY <1>3, <1>4
<1>8. HeadIsSent'
  BY <1>4, <1>6 DEF ClientInv, QueueOrder, HeadIsSent, Recognised
<1>9. LoggedBefore'
  <2>1. ASSUME NEW i \in DOMAIN server.log
        PROVE  /\ server.log[i].id \in 1..(issued + 1)
               /\ server.log[i].id < issued + 1
    BY <1>3 DEF ClientInv, QueueOrder, LoggedBefore
  <2>2. QED
    BY <1>1, <1>2, <1>6, <1>7, <2>1 DEF ClientInv, QueueOrder, LoggedBefore
<1>10. LateIsLast'
  <2>1. ASSUME NEW f \in late
        PROVE  f.id \in 1..(issued + 1)
    BY <1>3 DEF ClientInv, QueueOrder, LateIsLast
  <2>2. QED
    BY <1>2, <1>4, <1>6, <2>1
    DEF ClientInv, QueueOrder, LateIsLast, Counts, Recognised
<1>11. AppliedInOrder'
  BY DEF ClientInv, QueueOrder, AppliedInOrder
<1>12. QED
  BY <1>5, <1>8, <1>9, <1>10, <1>11 DEF QueueOrder

\* The last command its load of the page sent, when it still counts.
IsLast(e) ==
  /\ e.id \in 1..issued /\ e.load <= ui.load
  /\ Counts(e) =>
       /\ IF e.load = ui.load THEN queue # <<>> /\ e = queue[1]
          ELSE \A i \in DOMAIN server.log :
                 (Matters(server.log[i]) /\ server.log[i].load = e.load) =>
                   server.log[i].id < e.id
       /\ \A f \in late : (Counts(f) /\ f.load = e.load) => f = e

\* Logging such a command keeps the order.
LEMMA OrderLogged ==
  ASSUME ClientInv, NEW e \in Entries, ~Recognised(e), IsLast(e),
         server'.log = Append(server.log, e), UNCHANGED <<queue, issued>>,
         ui'.load = ui.load, late' \subseteq late
  PROVE  LoggedBefore' /\ LateIsLast' /\ AppliedInOrder'
<1>1. /\ server.log \in Seq(Entries) /\ queue \in Seq(Entries)
      /\ issued \in Nat /\ ui.load \in Nat
      /\ \A f \in late : f \in Entries
  BY DEF ClientInv, ClientTypes, Servers, Pages
<1> DEFINE n == Len(server.log)
<1>2. /\ DOMAIN server'.log = 1..(n + 1) /\ DOMAIN server.log = 1..n
      /\ n \in Nat
      /\ \A i \in 1..n : server'.log[i] = server.log[i]
      /\ server'.log[n + 1] = e
  BY <1>1
<1> HIDE DEF n
<1>3. \A f : Recognised(f)' <=> Recognised(f) \/ f = e
  BY <1>2 DEF Recognised, Range
\* What is logged of the same load was given before it.
<1>4. ASSUME Matters(e), NEW i \in 1..n, Matters(server.log[i]),
             server.log[i].load = e.load
      PROVE  server.log[i].id < e.id
  <2>1. server.log[i] # e
    BY <1>2 DEF Recognised, Range
  <2>2. CASE e.load = ui.load
    BY <1>2, <1>4, <2>1, <2>2
    DEF IsLast, Counts, ClientInv, QueueOrder, LoggedBefore
  <2>3. CASE e.load # ui.load
    BY <1>2, <1>4, <2>3 DEF IsLast, Counts
  <2>4. QED
    BY <2>2, <2>3
<1>5. LoggedBefore'
  <2>1. ASSUME NEW i \in 1..(n + 1)
        PROVE  /\ server'.log[i].id \in 1..issued
               /\ server'.log[i].load <= ui.load
               /\ (/\ Matters(server'.log[i])
                   /\ server'.log[i].load = ui.load /\ queue # <<>>) =>
                    \/ server'.log[i] = queue[1]
                    \/ server'.log[i].id < queue[1].id
    <3>1. CASE i \in 1..n
      BY <1>2, <3>1 DEF ClientInv, QueueOrder, LoggedBefore
    <3>2. CASE i = n + 1
      BY <1>2, <3>2 DEF IsLast, Counts
    <3>3. QED
      BY <1>2, <3>1, <3>2
  <2>2. QED
    BY <1>2, <2>1 DEF LoggedBefore
<1>6. LateIsLast'
  <2>1. \A f \in late : Counts(f)' <=> Counts(f) /\ f # e
    BY <1>3 DEF Counts
  <2>2. ASSUME NEW f \in late, Counts(f)'
        PROVE  IF f.load = ui.load THEN queue # <<>> /\ f = queue[1]
               ELSE \A i \in 1..(n + 1) :
                      (Matters(server'.log[i]) /\ server'.log[i].load = f.load) =>
                        server'.log[i].id < f.id
    <3>1. Counts(f) /\ f # e
      BY <2>1, <2>2
    <3>2. CASE f.load = ui.load
      BY <3>1, <3>2 DEF ClientInv, QueueOrder, LateIsLast
    <3>3. ASSUME f.load # ui.load, NEW i \in 1..(n + 1),
                 Matters(server'.log[i]), server'.log[i].load = f.load
          PROVE  server'.log[i].id < f.id
      <4>1. CASE i \in 1..n
        BY <1>2, <3>1, <3>3, <4>1 DEF ClientInv, QueueOrder, LateIsLast
      <4>2. CASE i = n + 1
        BY <1>2, <3>1, <3>3, <4>2 DEF IsLast, Counts
      <4>3. QED
        BY <1>2, <4>1, <4>2
    <3>4. QED
      BY <3>2, <3>3
  <2>3. \A f, g \in late : (Counts(f)' /\ Counts(g)' /\ f.load = g.load) => f = g
    BY <2>1 DEF ClientInv, QueueOrder, LateIsLast
  <2>4. \A f \in late' : f \in late /\ f.id \in 1..issued /\ f.load <= ui.load
    BY DEF ClientInv, QueueOrder, LateIsLast
  <2>5. QED
    BY <1>2, <2>2, <2>3, <2>4 DEF LateIsLast
<1>7. AppliedInOrder'
  <2>1. ASSUME NEW i \in 1..(n + 1), NEW j \in 1..(n + 1), i < j,
               Matters(server'.log[i]), Matters(server'.log[j]),
               server'.log[i].load = server'.log[j].load
        PROVE  server'.log[i].id < server'.log[j].id
    <3>1. i \in 1..n
      BY <1>2, <2>1
    <3>2. CASE j \in 1..n
      BY <1>2, <2>1, <3>1, <3>2 DEF ClientInv, QueueOrder, AppliedInOrder
    <3>3. CASE j = n + 1
      BY <1>2, <1>4, <2>1, <3>1, <3>3
    <3>4. QED
      BY <1>2, <3>2, <3>3
  <2>2. QED
    BY <1>2, <2>1 DEF AppliedInOrder
<1>8. QED
  BY <1>5, <1>6, <1>7

\* The head of the queue is the last command this load has sent.
LEMMA HeadIsLast ==
  ASSUME ClientInv, queue # <<>>
  PROVE  queue[1] \in Entries /\ IsLast(queue[1])
<1>1. 1 \in DOMAIN queue /\ queue[1] \in Entries
  BY DEF ClientInv, ClientTypes
<1>2. queue[1].id \in 1..issued /\ queue[1].load = ui.load /\ ui.load \in Nat
  BY <1>1 DEF ClientInv, ClientTypes, QueueOrder, QueueIsOrdered, Pages
<1>3. QED
  BY <1>1, <1>2 DEF IsLast, ClientInv, QueueOrder, LateIsLast

LEMMA LateIsLastOf ==
  ASSUME ClientInv, NEW e \in late
  PROVE  e \in Entries /\ IsLast(e)
BY DEF ClientInv, ClientTypes, QueueOrder, LateIsLast, IsLast

LEMMA LoggedIsTyped ==
  ASSUME ClientTypes
  PROVE  /\ server.log \in Seq(Entries)
         /\ \A i \in DOMAIN server.log :
              /\ server.log[i] \in Entries /\ server.log[i].id \in Nat
              /\ server.log[i].load \in Nat
<1>1. server.log \in Seq(Entries)
  BY DEF ClientTypes, Servers
<1>2. \A i \in DOMAIN server.log : server.log[i] \in Entries
  BY <1>1
<1>3. QED
  BY <1>1, <1>2 DEF Entries

\* Nothing but a command changes the log.
LEMMA OnlyCommandsLog ==
  ASSUME ClientTypes, NEW req \in Requests, req \notin Commands,
         Accepted(req) \/ Refused(req)
  PROVE  server'.log = server.log
<1> USE RequestKinds DEF Requests
<1>1. CASE req \in Stagings
  BY <1>1 DEF Accepted, Refused, Stage, ClientTypes, Servers
<1>2. CASE req \in Others
  BY <1>2 DEF Accepted, Refused, Cancel, CancelTooLate, Closed, ClientTypes,
              Servers
<1>3. QED
  BY <1>1, <1>2

\* What applying a command may do: log it, answer it as known, or leave no
\* trace of a Next.
LEMMA ApplyOutcomes ==
  ASSUME ClientTypes, NEW e \in Entries, Apply(e)
  PROVE  \/ server' = server /\ (Recognised(e) \/ ~Matters(e))
         \/ ~Recognised(e) /\ server'.log = Append(server.log, e)
BY DEF Apply, Matters, ClientTypes, Servers

LEMMA RecognisedAppended ==
  ASSUME server.log \in Seq(Entries), NEW e \in Entries,
         server'.log = Append(server.log, e)
  PROVE  \A f : Recognised(f)' <=> Recognised(f) \/ f = e
<1>1. /\ DOMAIN server'.log = DOMAIN server.log \cup {Len(server.log) + 1}
      /\ \A i \in DOMAIN server.log : server'.log[i] = server.log[i]
      /\ server'.log[Len(server.log) + 1] = e
  OBVIOUS
<1>2. QED
  BY <1>1 DEF Recognised, Range

LEMMA ServeOrdered ==
  ASSUME ClientInv, NEW ch \in Channels, Serve(ch)
  PROVE  QueueOrder'
<1> DEFINE req == calls[ch].req
<1>1. req \in Requests /\ (Accepted(req) \/ Refused(req)) /\ req \in Fits(ch)
  BY CallKinds DEF ClientInv, ClientTypes, CallsTyped, Serve
<1>2. UNCHANGED <<queue, issued, ui, late>>
  BY DEF Serve, page
<1>3. CASE ch # "queue"
  <2>1. req \notin Commands
    BY <1>1, <1>3, RequestKinds DEF Fits
  <2>2. server'.log = server.log
    BY <1>1, <2>1, OnlyCommandsLog DEF ClientInv
  <2>3. calls'["queue"] = calls["queue"]
    BY <1>3 DEF Serve, Settle, ClientInv, ClientTypes, CallsTyped, Channels
  <2>4. QED
    BY <1>2, <2>2, <2>3, OrderFrame DEF ClientInv
<1>4. CASE ch = "queue"
  <2>0. PICK e : e = queue[1]
    OBVIOUS
  <2>1. /\ req \in Commands /\ req.call = "command" /\ req.entry = e
        /\ queue # <<>>
    BY <1>1, <1>4, <2>0, RequestKinds
    DEF Fits, Serve, ClientInv, QueueOrder, HeadIsSent
  <2>2. e \in Entries /\ IsLast(e)
    BY <2>0, <2>1, HeadIsLast
  <2>3. /\ calls'["queue"].at \in {"answered", "refused"}
        /\ calls'["queue"].at = "answered" => Accepted(req)
    BY <1>4 DEF Serve, Settle, ClientInv, ClientTypes, CallsTyped, Channels
  <2>4. QueueIsOrdered'
    BY <1>2 DEF ClientInv, QueueOrder, QueueIsOrdered
  <2>5. CASE server' = server /\ (calls'["queue"].at = "answered" =>
                                    Recognised(e) \/ ~Matters(e))
    <3>1. HeadIsSent'
      BY <1>2, <2>0, <2>1, <2>3, <2>5 DEF HeadIsSent, Recognised
    <3>2. LoggedBefore' /\ LateIsLast' /\ AppliedInOrder'
      BY <1>2, <2>5 DEF ClientInv, QueueOrder, LoggedBefore, LateIsLast,
                        AppliedInOrder, Counts, Recognised
    <3>3. QED
      BY <2>4, <3>1, <3>2 DEF QueueOrder
  <2>6. CASE ~Recognised(e) /\ server'.log = Append(server.log, e)
    <3>1. LoggedBefore' /\ LateIsLast' /\ AppliedInOrder'
      BY <1>2, <2>2, <2>6, OrderLogged
    <3>2. Recognised(e)'
      BY <2>2, <2>6, RecognisedAppended, LoggedIsTyped DEF ClientInv
    <3>3. HeadIsSent'
      BY <1>2, <2>0, <2>1, <2>3, <3>2 DEF HeadIsSent, Recognised
    <3>4. QED
      BY <2>4, <3>1, <3>3 DEF QueueOrder
  <2>7. Accepted(req) => Apply(e)
    BY <2>1 DEF Accepted
  <2>8. ~Accepted(req) => server' = server
    BY <1>1, <2>1 DEF Refused
  <2> HIDE DEF req
  <2>9. QED
    BY <2>2, <2>3, <2>5, <2>6, <2>7, <2>8, ApplyOutcomes DEF ClientInv
<1>5. QED
  BY <1>3, <1>4

\* A call given up on leaves the head of the queue to arrive late.
LEMMA LateGrows ==
  ASSUME ClientInv, NEW more, more = {} \/ (more = {queue[1]} /\ queue # <<>>)
  PROVE  /\ \A e \in late \cup more : e \in Entries /\ IsLast(e)
         /\ \A e, f \in late \cup more :
              (Counts(e) /\ Counts(f) /\ e.load = f.load) => e = f
<1>1. \A e \in late \cup more : e \in Entries /\ IsLast(e)
  BY HeadIsLast, LateIsLastOf
<1>2. QED
  BY <1>1 DEF IsLast

LEMMA LoseOrdered ==
  ASSUME ClientInv, NEW ch \in Channels, Lose(ch)
  PROVE  QueueOrder'
<1>1. UNCHANGED <<server, queue, issued, ui>>
  BY DEF Lose, page
<1>2. CASE ch # "queue"
  <2>1. calls'["queue"] = calls["queue"] /\ late' = late
    BY <1>2 DEF Lose, ClientInv, ClientTypes, CallsTyped, Channels
  <2>2. QED
    BY <1>1, <2>1, OrderFrame DEF ClientInv
<1>3. CASE ch = "queue"
  <2>1. queue # <<>> /\ (calls["queue"].at = "sent" =>
                           calls["queue"].req.entry = queue[1])
    BY <1>3 DEF Lose, ClientInv, QueueOrder, HeadIsSent
  <2>2. PICK more : /\ late' = late \cup more
                    /\ more = {} \/ (more = {queue[1]} /\ queue # <<>>)
    <3>1. CASE calls["queue"].at = "sent"
      BY <1>3, <2>1, <3>1 DEF Lose
    <3>2. CASE calls["queue"].at # "sent"
      <4>1. late' = late
        BY <1>3, <3>2 DEF Lose
      <4> WITNESS {}
      <4>2. QED
        BY <4>1
    <3>3. QED
      BY <3>1, <3>2
  <2>3. LateIsLast'
    <3>1. /\ \A e \in late' : IsLast(e)
          /\ \A e, f \in late' :
               (Counts(e) /\ Counts(f) /\ e.load = f.load) => e = f
      BY <2>2, LateGrows
    <3>2. QED
      BY <1>1, <3>1 DEF LateIsLast, IsLast, Counts, Recognised
  <2>4. HeadIsSent'
    BY <1>1, <1>3, <2>1
    DEF Lose, HeadIsSent, ClientInv, ClientTypes, CallsTyped, Channels
  <2>5. QED
    BY <1>1, <2>3, <2>4 DEF ClientInv, QueueOrder, QueueIsOrdered, LoggedBefore,
                            AppliedInOrder
<1>4. QED
  BY <1>2, <1>3

LEMMA ArriveOrdered ==
  ASSUME ClientInv, NEW e \in late, Arrive(e)
  PROVE  QueueOrder'
<1>1. e \in Entries /\ IsLast(e)
  BY LateIsLastOf
<1>2. UNCHANGED <<queue, issued, ui, calls>> /\ late' = late \ {e}
  BY DEF Arrive, page
<1>3. QueueIsOrdered'
  BY <1>2 DEF ClientInv, QueueOrder, QueueIsOrdered
<1>4. CASE server' = server
  BY <1>2, <1>3, <1>4
  DEF ClientInv, QueueOrder, HeadIsSent, LoggedBefore, LateIsLast,
      AppliedInOrder, Counts, Recognised
<1>5. CASE ~Recognised(e) /\ server'.log = Append(server.log, e)
  <2>1. LoggedBefore' /\ LateIsLast' /\ AppliedInOrder'
    BY <1>1, <1>2, <1>5, OrderLogged
  <2>2. \A f : Recognised(f) => Recognised(f)'
    BY <1>1, <1>5, RecognisedAppended, LoggedIsTyped DEF ClientInv
  <2>3. HeadIsSent'
    BY <1>2, <2>2 DEF ClientInv, QueueOrder, HeadIsSent
  <2>4. QED
    BY <1>3, <2>1, <2>3 DEF QueueOrder
<1>6. QED
  BY <1>1, <1>4, <1>5, ApplyOutcomes DEF Arrive, ClientInv

\* A page loaded again gives nothing its predecessor gave.
LEMMA ReloadOrdered ==
  ASSUME ClientInv, Reload
  PROVE  QueueOrder'
<1>1. /\ queue' = <<>> /\ UNCHANGED <<server, issued>>
      /\ calls'["queue"] = NoCall
  BY DEF Reload, ClientInv, ClientTypes, CallsTyped, Channels
<1>2. ui'.load = ui.load + 1 /\ ui.load \in Nat
  <2>1. /\ Seen(Snapshot(server)) \in Pages
        /\ Seen(Snapshot(server)).load = ui.load
    BY SnapshotIsTyped, SeenIsTyped DEF ClientInv, ClientTypes
  <2>2. QED
    BY <2>1 DEF Reload, Pages, ClientInv, ClientTypes
<1>3. PICK more : /\ late' = late \cup more
                  /\ more = {} \/ (more = {queue[1]} /\ queue # <<>>)
  <2>1. CASE calls["queue"].at = "sent"
    BY <2>1 DEF Reload, ClientInv, QueueOrder, HeadIsSent
  <2>2. CASE calls["queue"].at # "sent"
    <3>1. late' = late
      BY <2>2 DEF Reload
    <3> WITNESS {}
    <3>2. QED
      BY <3>1
  <2>3. QED
    BY <2>1, <2>2
<1>4. /\ \A e \in late' : e \in Entries /\ IsLast(e)
      /\ \A e, f \in late' :
           (Counts(e) /\ Counts(f) /\ e.load = f.load) => e = f
  BY <1>3, LateGrows
<1>5. LateIsLast'
  <2>1. ASSUME NEW e \in late', Counts(e), NEW i \in DOMAIN server.log,
               Matters(server.log[i]), server.log[i].load = e.load
        PROVE  server.log[i].id < e.id
    <3>1. CASE e.load = ui.load
      <4>1. queue # <<>> /\ e = queue[1] /\ server.log[i] # e
        BY <1>4, <2>1, <3>1 DEF IsLast, Counts, Recognised, Range
      <4>2. QED
        BY <2>1, <3>1, <4>1 DEF ClientInv, QueueOrder, LoggedBefore
    <3>2. CASE e.load # ui.load
      BY <1>4, <2>1, <3>2 DEF IsLast
    <3>3. QED
      BY <3>1, <3>2
  <2>2. \A e \in late' : /\ e.id \in 1..issued /\ e.load \in Nat
                         /\ e.load <= ui.load
    BY <1>4 DEF IsLast, Entries
  <2>3. \A e \in late' : e.load <= ui'.load /\ e.load # ui'.load
    BY <1>2, <2>2
  <2>4. QED
    BY <1>1, <1>4, <2>1, <2>2, <2>3 DEF LateIsLast, Counts, Recognised
<1>6. LoggedBefore'
  <2>1. \A i \in DOMAIN server.log : server.log[i].load \in Nat
    BY LoggedIsTyped DEF ClientInv
  <2>2. QED
    BY <1>1, <1>2, <2>1 DEF ClientInv, QueueOrder, LoggedBefore
<1>7. QED
  BY <1>1, <1>5, <1>6 DEF ClientInv, QueueOrder, QueueIsOrdered, HeadIsSent,
                          NoCall, AppliedInOrder

LEMMA QueueOrdered ==
  ASSUME ClientInv, QueueStep
  PROVE  QueueOrder'
<1>0. "queue" \in Channels /\ calls \in [Channels -> Calls]
  BY DEF Channels, ClientInv, ClientTypes, CallsTyped
<1>1. CASE Pump
  <2>1. /\ calls'["queue"] = [at |-> "sent", req |->
             [call |-> "command", entry |-> Head(queue)]]
        /\ queue # <<>> /\ UNCHANGED <<server, queue, issued, ui, late>>
    BY <1>0, <1>1 DEF Pump, Call, page
  <2>2. HeadIsSent'
    BY <2>1 DEF HeadIsSent
  <2>3. QED
    BY <2>1, <2>2 DEF ClientInv, QueueOrder, QueueIsOrdered, LoggedBefore,
                      LateIsLast, AppliedInOrder, Counts, Recognised
<1>2. CASE Acknowledge
  <2>1. /\ queue \in Seq(Entries) /\ queue # <<>>
        /\ Matters(queue[1]) => Recognised(queue[1])
    BY <1>2 DEF Acknowledge, Answered, ClientInv, ClientTypes, QueueOrder,
                HeadIsSent
  <2>2. /\ queue' = Tail(queue) /\ UNCHANGED <<server, issued, late>>
        /\ calls'["queue"] = NoCall
    BY <1>0, <1>2 DEF Acknowledge, Hang
  <2>3. ui'.load = ui.load
    BY <1>0, <1>2, GotIsTyped, SeenIsTyped
    DEF Acknowledge, Answered, ClientInv, ClientTypes
  <2>4. /\ DOMAIN queue' = 1..(Len(queue) - 1)
        /\ \A i \in DOMAIN queue' : i + 1 \in DOMAIN queue
                                    /\ queue'[i] = queue[i + 1]
        /\ 1 \in DOMAIN queue /\ Len(queue) \in Nat
    BY <2>1, <2>2
  <2>5. QueueIsOrdered'
    <3>1. \A i \in DOMAIN queue' : /\ queue'[i].id \in 1..issued
                                   /\ queue'[i].load = ui.load
      BY <2>4 DEF ClientInv, QueueOrder, QueueIsOrdered
    <3>2. ASSUME NEW i \in DOMAIN queue', NEW j \in DOMAIN queue', i < j
          PROVE  queue'[i].id < queue'[j].id
      <4>1. /\ i + 1 \in DOMAIN queue /\ queue'[i] = queue[i + 1]
            /\ j + 1 \in DOMAIN queue /\ queue'[j] = queue[j + 1]
            /\ i + 1 < j + 1
        BY <2>4, <3>2
      <4>2. QED
        BY <4>1 DEF ClientInv, QueueOrder, QueueIsOrdered
    <3>3. QED
      BY <2>2, <2>3, <3>1, <3>2 DEF QueueIsOrdered
  <2>6. LoggedBefore'
    <3>1. ASSUME queue' # <<>>
          PROVE  queue[1].id < queue'[1].id /\ queue[1].id \in Nat
                 /\ queue'[1].id \in Nat
      <4>1. 1 \in DOMAIN queue' /\ 2 \in DOMAIN queue /\ queue'[1] = queue[2]
        BY <2>1, <2>2, <2>4, <3>1
      <4>2. QED
        BY <2>1, <2>4, <4>1 DEF ClientInv, QueueOrder, QueueIsOrdered, Entries
    <3>2. \A i \in DOMAIN server.log : server.log[i].id \in Nat
      BY LoggedIsTyped DEF ClientInv
    <3>3. ASSUME NEW i \in DOMAIN server.log, Matters(server.log[i]),
                 server.log[i].load = ui.load, queue' # <<>>
          PROVE  server.log[i].id < queue'[1].id
      <4>1. server.log[i] = queue[1] \/ server.log[i].id < queue[1].id
        BY <2>1, <3>3 DEF ClientInv, QueueOrder, LoggedBefore
      <4>2. QED
        BY <3>1, <3>2, <3>3, <4>1
    <3>4. \A i \in DOMAIN server.log : /\ server.log[i].id \in 1..issued
                                       /\ server.log[i].load <= ui.load
      BY DEF ClientInv, QueueOrder, LoggedBefore
    <3>5. QED
      BY <2>2, <2>3, <3>3, <3>4 DEF LoggedBefore
  <2>7. LateIsLast'
    <3>1. \A e \in late : Counts(e) => e.load # ui.load
      BY <2>1 DEF ClientInv, QueueOrder, LateIsLast, Counts
    <3>2. QED
      BY <2>2, <2>3, <3>1
      DEF ClientInv, QueueOrder, LateIsLast, Counts, Recognised
  <2>8. QED
    BY <2>2, <2>5, <2>6, <2>7 DEF ClientInv, QueueOrder, HeadIsSent, NoCall,
                                  AppliedInOrder
<1>3. CASE Stop
  <2>1. /\ calls'["queue"] = NoCall /\ UNCHANGED <<server, queue, issued, late>>
        /\ ui'.load = ui.load
    BY <1>0, <1>3 DEF Stop, Hang, ClientInv, ClientTypes, Pages
  <2>2. HeadIsSent'
    BY <2>1 DEF HeadIsSent, NoCall
  <2>3. QED
    BY <2>1, <2>2 DEF ClientInv, QueueOrder, QueueIsOrdered, LoggedBefore,
                      LateIsLast, AppliedInOrder, Counts, Recognised
<1>4. QED
  BY <1>1, <1>2, <1>3 DEF QueueStep

\* Every other step issues a command at most.
LEMMA OpOrdered ==
  ASSUME ClientInv, OpStep \/ StagingStep \/ AutoStage
  PROVE  QueueOrder'
<1>0. /\ calls \in [Channels -> Calls] /\ ui \in Pages /\ CallsTyped
      /\ "op" \in Channels /\ "stage" \in Channels /\ "queue" \in Channels
      /\ Head(op.steps) \in Commanding /\ SendNow(Head(op.steps)) # "nothing"
           => SendNow(Head(op.steps)) \in Kinds
  BY SendsKinds DEF ClientInv, ClientTypes, CallsTyped, Channels
<1>1. UNCHANGED <<server, late>>
  BY DEF OpStep, StagingStep, Flush, Await, Held, SendStep, Local, CancelStep,
         ShutStep, StageStep, StageSends, StageEnds, StageSucceeds, AutoStage,
         net
<1>2. calls'["queue"] = calls["queue"]
  <2>1. \A ch \in {"op", "stage"} : \A req :
          Hang(ch) \/ Call(ch, req) => calls'["queue"] = calls["queue"]
    BY <1>0 DEF Hang, Call
  <2>2. QED
    BY <2>1
    DEF OpStep, StagingStep, Flush, Await, Held, SendStep, Local, CancelStep,
        ShutStep, Ask, StageStep, StageSends, StageEnds, StageSucceeds,
        AutoStage, net
<1>3. ui'.load = ui.load
  <2>1. \A view \in Pages : Throw(view) => ui'.load = view.load
    BY DEF Throw, Pages
  <2>2. \A ch \in Channels : calls[ch].at = "answered" =>
          /\ Seen(calls[ch].got).load = ui.load
          /\ SeenCompletion(calls[ch].got) \in Pages
          /\ SeenCompletion(calls[ch].got).load = ui.load
    BY <1>0, GotIsTyped, SeenIsTyped
  <2>3. CASE OpStep
    <3>1. CASE Flush \/ Await \/ Held \/ SendStep \/ Local
      BY <1>0, <2>1, <3>1 DEF Flush, Await, Held, SendStep, Local, Pages
    <3>2. CASE CancelStep
      BY <1>0, <2>1, <2>2, <3>2 DEF CancelStep, Ask, Answered, Pages
    <3>3. CASE ShutStep
      BY <1>0, <2>1, <2>2, <3>3 DEF ShutStep, Ask, Answered
    <3>4. QED
      BY <2>3, <3>1, <3>2, <3>3 DEF OpStep
  <2>4. CASE StagingStep \/ AutoStage
    BY <1>0, <2>1, <2>2, <2>4
    DEF StagingStep, StageStep, StageSends, StageEnds, StageSucceeds, Answered,
        AutoStage, Pages
  <2>5. QED
    BY <2>3, <2>4
<1>4. CASE UNCHANGED <<issued, queue>>
  BY <1>1, <1>2, <1>3, <1>4, OrderFrame DEF ClientInv
<1>5. CASE Held /\ Issue("work")
  BY <1>1, <1>2, <1>3, <1>5, OrderEnqueue DEF Issue, Kinds
<1>6. CASE /\ SendStep /\ SendNow(Head(op.steps)) # "nothing"
           /\ Issue(SendNow(Head(op.steps)))
  <2>1. PICK kind \in Kinds : Enqueue(kind)
    BY <1>0, <1>6 DEF Issue, SendStep
  <2>2. QED
    BY <1>1, <1>2, <1>3, <2>1, OrderEnqueue
<1>7. QED
  BY <1>4, <1>5, <1>6
  DEF OpStep, StagingStep, Flush, Await, Held, SendStep, Local, CancelStep,
      ShutStep, StageStep, StageSends, StageEnds, StageSucceeds, AutoStage

LEMMA EventOrdered ==
  ASSUME ClientInv,
         \/ CloseFails \/ WindowEnds \/ WorkerCloses
         \/ Deadline \/ Leave \/ Look \/ LookSeen \/ Learner
  PROVE  QueueOrder'
<1>0. /\ calls \in [Channels -> Calls] /\ ui \in Pages /\ CallsTyped
      /\ "op" \in Channels /\ "look" \in Channels /\ "queue" \in Channels
  BY DEF ClientInv, ClientTypes, CallsTyped, Channels
<1>1. CASE CloseFails \/ WindowEnds \/ WorkerCloses
  <2>1. server'.log = server.log
    BY <1>1 DEF CloseFails, WindowEnds, WorkerCloses, Closed, ClientInv,
                ClientTypes, Servers
  <2>2. calls'["queue"] = calls["queue"]
    BY <1>0, <1>1 DEF CloseFails, Settle, WindowEnds, WorkerCloses, net
  <2>3. QED
    BY <1>1, <2>1, <2>2, OrderFrame
    DEF CloseFails, WindowEnds, WorkerCloses, page, net, ClientInv
<1>2. CASE Deadline \/ Leave \/ Look \/ LookSeen
  <2>1. ui'.load = ui.load
    <3>1. CASE Deadline \/ Leave \/ Look
      BY <1>0, <1>2, <3>1 DEF Deadline, Leave, Look, page, Pages
    <3>2. CASE LookSeen
      BY <1>0, <3>2, GotIsTyped, SeenIsTyped DEF LookSeen, Answered
    <3>3. QED
      BY <1>2, <3>1, <3>2
  <2>2. calls'["queue"] = calls["queue"]
    BY <1>0, <1>2 DEF Deadline, Leave, Look, LookSeen, Hang, Call, net
  <2>3. QED
    BY <1>2, <2>1, <2>2, OrderFrame
    DEF Deadline, Leave, Look, LookSeen, page, net, ClientInv
<1>3. CASE Hold \/ Discard
  <2>1. ui'.load = ui.load
    BY <1>0, <1>3 DEF Hold, Discard, Pages
  <2>2. QED
    BY <1>3, <2>1, OrderFrame DEF Hold, Discard, net, ClientInv
<1>4. ASSUME NEW steps, Begin(steps)
      PROVE  QueueOrder'
  <2>1. ui'.load = ui.load
    BY <1>0, <1>4 DEF Begin, Pages
  <2>2. QED
    BY <1>4, <2>1, OrderFrame DEF Begin, net, ClientInv
<1>5. CASE Study \/ Revise \/ Home \/ Retry
  <2>1. \E steps : Begin(steps)
    BY <1>5 DEF Study, Revise, Home, Retry
  <2>2. QED
    BY <1>4, <2>1
<1>6. CASE React
  BY <1>6, OrderEnqueue DEF React, net, Kinds
<1>7. QED
  BY <1>1, <1>2, <1>3, <1>5, <1>6, ReloadOrdered DEF Learner

LEMMA ClientStep == ClientInv /\ [Next]_vars => ClientInv'
<1> SUFFICES ASSUME ClientInv, [Next]_vars
             PROVE  ClientInv'
  OBVIOUS
<1>1. ClientTypes'
  BY NextIsTyped DEF ClientInv
<1>2. QueueOrder'
  <2>1. CASE UNCHANGED vars
    BY <2>1, OrderFrame DEF vars, page, net, ClientInv
  <2>2. CASE Next
    BY <2>2, OpOrdered, EventOrdered, ServeOrdered, LoseOrdered, ArriveOrdered,
       QueueOrdered DEF Next
  <2>3. QED
    BY <2>1, <2>2
<1>3. QED
  BY <1>1, <1>2 DEF ClientInv

\* What one load of the page decided reaches the log in that order and at most
\* once, whatever is lost, repeated, given up on or late, for any number of
\* commands, faults and reloads.
THEOREM AppliedInOrderAlways == Spec => []AppliedInOrder
<1>1. Init => ClientInv
  BY InitIsTyped, InitIsOrdered DEF ClientInv
<1>2. ClientInv => AppliedInOrder
  BY DEF ClientInv, QueueOrder
<1>3. QED
  BY <1>1, <1>2, ClientStep, PTL DEF Spec

\* Ids are given once and never run ahead of what was issued.
THEOREM TypeOKAlways == Spec => []TypeOK
<1>1. Init => ClientInv
  BY InitIsTyped, InitIsOrdered DEF ClientInv
<1>2. ClientInv => TypeOK
  BY DEF ClientInv, ClientTypes, QueueOrder, QueueIsOrdered, LoggedBefore,
         TypeOK, Servers, Comps
<1>3. QED
  BY <1>1, <1>2, ClientStep, PTL DEF Spec

-----------------------------------------------------------------------------
(* What an operation has left to do.                                       *)

\* Steps of the page's operations that take nothing back.
Outer == {"flush", "await", "held", "work", "next", "endIfOpen",
          "nextIfStudying", "finish", "finishNow", "advanceIfStudying",
          "stage", "staged", "shut", "shutting", "reshutting", "reset",
          "retry", "stageIfCompleted", "closeIfStaged"}
\* Steps between the suppression of staging and its release.
Inner == {"flush", "await", "held", "revisit", "next", "finish", "undo",
          "resumeIfCompleted", "requeue", "finishNowIfFinishing", "cancel",
          "cancelling", "recancelling", "fetching"}
\* Steps that await the server's answer.
Asking == {"cancelling", "recancelling", "fetching", "shutting", "reshutting"}

Reopening(s) == "release" \in Range(s)
Reopens == Reopening(op.steps)

\* Behind its first k steps s takes a completion back, and stages at most.
InsideFrom(s, k) ==
  \A j \in DOMAIN s : s[j] = "release" =>
    /\ j > k
    /\ \A i \in DOMAIN s : /\ (k < i /\ i < j) => s[i] \in Inner
                           /\ i > j => s[i] = "stage"

\* An operation that takes a completion back first suppresses staging and
\* waits for the run under way: from then on none is.
HeldOff(s, suppress, run) ==
  IF Reopening(s)
  THEN \/ s[1] = "suppress" /\ s[2] = "staged" /\ InsideFrom(s, 2)
       \/ s[1] = "staged" /\ InsideFrom(s, 1) /\ suppress
       \/ InsideFrom(s, 0) /\ suppress /\ run = "idle"
  ELSE Range(s) \subseteq Outer
StagingIsHeldOff == HeldOff(op.steps, ui.suppress, staging)

\* What awaits an answer comes first; what closes or cancels comes after the
\* queue is flushed and staging is done.
InPlace(s) ==
  \A i \in DOMAIN s :
    /\ s[i] \in Asking \cup {"await"} => i = 1
    /\ s[i] = "shut" =>
         \/ i = 1
         \/ i = 2 /\ s[1] \in {"stage", "staged"}
         \/ i = 3 /\ s[1] = "flush" /\ s[2] = "stage"
    /\ s[i] = "cancel" =>
         \/ i = 1
         \/ i = 2 /\ s[1] = "flush"
         \/ i = 3 /\ s[1] = "staged" /\ s[2] = "flush"
         \/ i = 4 /\ s[1] = "suppress" /\ s[2] = "staged" /\ s[3] = "flush"
StepsInPlace == InPlace(op.steps)

\* A call is under way exactly where a step awaits its answer.
CallsAwaited ==
  /\ calls["op"].at # "none" <=> (Working /\ op.steps[1] \in Asking)
  /\ calls["stage"].at # "none" <=> staging = "sent"
  /\ calls["op"].at = "sent" =>
       calls["op"].req.call = CASE At("cancelling") -> "cancel"
                                [] At("shutting")   -> "close"
                                [] OTHER            -> "fetch"

\* A queue that stopped keeps its head, and sends nothing.
StopsAtHead ==
  failure # "none" => queue # <<>> /\ calls["queue"].at = "none"

Shape == StopsAtHead /\ StagingIsHeldOff /\ StepsInPlace /\ CallsAwaited

\* What a step may put in its place.
Rewrite(h, new) ==
  \/ new = <<>> /\ h # "stage"
  \/ h \in Commanding \cup {"held"} /\ new = <<"await">>
  \/ h = "advanceIfStudying" /\ new = <<"flush", "held", "next">>
  \/ h = "requeue" /\ new = <<"revisit">>
  \/ /\ h = "requeue"
     /\ new = <<"resumeIfCompleted", "revisit", "flush", "held", "next">>
  \/ h = "stageIfCompleted" /\ new = <<"stage">>
  \/ h = "closeIfStaged" /\ new = <<"flush", "stage", "shut">>
  \/ h = "cancel" /\ new = <<"cancelling">>
  \/ h = "cancelling" /\ new \in {<<"fetching">>, <<"recancelling">>}
  \/ h = "recancelling" /\ new = <<"fetching">>
  \/ h = "shut" /\ new = <<"shutting">>
  \/ h = "shutting" /\ new = <<"reshutting">>
  \/ h = "stage" /\ new = <<"staged">>

\* t is s with its first step replaced by those of new.
Replaces(s, new, t) ==
  /\ t \in Seq(Steps) /\ Len(t) = Len(new) + Len(s) - 1
  /\ Len(s) \in Nat \ {0} /\ Len(new) \in Nat
  /\ DOMAIN t = 1..(Len(new) + Len(s) - 1)
  /\ DOMAIN s = 1..Len(s) /\ DOMAIN new = 1..Len(new)
  /\ \A i \in 1..Len(new) : t[i] = new[i]
  /\ \A i \in 2..Len(s) : t[Len(new) + i - 1] = s[i]
  /\ \A i \in DOMAIN t : i > Len(new) =>
       i - Len(new) + 1 \in 2..Len(s) /\ t[i] = s[i - Len(new) + 1]
  /\ s[1] = Head(s)

LEMMA NewSteps ==
  ASSUME NEW s \in Seq(Steps), s # <<>>, NEW new \in Seq(Steps),
         NEW t, t = new \o Tail(s)
  PROVE  Replaces(s, new, t)
<1>1. /\ Tail(s) \in Seq(Steps) /\ Len(Tail(s)) = Len(s) - 1
      /\ \A i \in 1..(Len(s) - 1) : Tail(s)[i] = s[i + 1]
      /\ Len(s) \in Nat \ {0}
  OBVIOUS
<1>2. PICK r \in Seq(Steps) : r = Tail(s)
  BY <1>1
<1>3. /\ t \in Seq(Steps) /\ Len(t) = Len(new) + Len(r)
      /\ \A i \in 1..Len(new) : t[i] = new[i]
      /\ \A i \in 1..Len(r) : t[Len(new) + i] = r[i]
  BY <1>2
<1>4. Len(r) = Len(s) - 1 /\ \A i \in 1..(Len(s) - 1) : r[i] = s[i + 1]
  BY <1>1, <1>2
<1>5. \A i \in 2..Len(s) : t[Len(new) + i - 1] = s[i]
  <2>1. TAKE i \in 2..Len(s)
  <2>2. i - 1 \in 1..(Len(s) - 1)
    BY <1>1
  <2>3. t[Len(new) + (i - 1)] = r[i - 1] /\ r[i - 1] = s[(i - 1) + 1]
    BY <1>3, <1>4, <2>2
  <2>4. QED
    BY <1>1, <2>2, <2>3
<1>6. \A i \in DOMAIN t : i > Len(new) =>
         i - Len(new) + 1 \in 2..Len(s) /\ t[i] = s[i - Len(new) + 1]
  <2>1. SUFFICES ASSUME NEW i \in DOMAIN t, i > Len(new)
                 PROVE  i - Len(new) + 1 \in 2..Len(s)
                        /\ t[i] = s[i - Len(new) + 1]
    OBVIOUS
  <2>2. i \in 1..(Len(new) + Len(s) - 1) /\ Len(new) \in Nat
    BY <1>3, <1>4
  <2>3. i - Len(new) + 1 \in 2..Len(s)
    BY <1>1, <2>1, <2>2
  <2>4. t[Len(new) + (i - Len(new) + 1) - 1] = s[i - Len(new) + 1]
    BY <1>5, <2>3
  <2>5. QED
    BY <2>2, <2>3, <2>4
<1>7. /\ Len(t) = Len(new) + Len(s) - 1 /\ Len(new) \in Nat
      /\ DOMAIN t = 1..(Len(new) + Len(s) - 1)
  BY <1>1, <1>3, <1>4
<1>8. /\ DOMAIN s = 1..Len(s) /\ DOMAIN new = 1..Len(new)
      /\ s[1] = Head(s)
  OBVIOUS
<1>9. QED
  BY <1>1, <1>3, <1>5, <1>6, <1>7, <1>8, Zenon DEF Replaces

\* The rewritings by their length.
LEMMA RewriteLengths ==
  ASSUME NEW h, NEW new, Rewrite(h, new)
  PROVE  /\ new \in Seq(Steps)
         /\ \/ Len(new) = 0
            \/ /\ Len(new) = 1 /\ h \notin {"flush", "staged", "suppress"}
               /\ (h = "stage" /\ new[1] = "staged") \/ h # "stage"
               /\ new[1] \notin {"shut", "cancel", "release"}
            \/ /\ Len(new) \in 2..5
               /\ h \in {"advanceIfStudying", "requeue", "closeIfStaged"}
               /\ \A i \in 1..Len(new) :
                    /\ new[i] \notin Asking
                         \cup {"await", "cancel", "release", "staged"}
                    /\ new[i] = "shut" => /\ i = 3 /\ new[1] = "flush"
                                          /\ new[2] = "stage"
         /\ h \in Outer => \A i \in 1..Len(new) : new[i] \in Outer
         /\ h \in Inner => \A i \in 1..Len(new) : new[i] \in Inner
         /\ \A i \in 1..Len(new) : new[i] # "release"
<1>1. CASE new = <<>>
  BY <1>1, StepLiterals
<1>2. CASE /\ h \in Commanding \cup {"held"} /\ new = <<"await">>
  BY <1>2, StepLiterals DEF Commanding, Outer, Inner, Steps
<1>3. CASE h = "advanceIfStudying" /\ new = <<"flush", "held", "next">>
  BY <1>3, StepLiterals DEF Outer, Inner, Asking
<1>4. CASE h = "requeue" /\ new = <<"revisit">>
  BY <1>4, StepLiterals DEF Outer, Inner, Asking
<1>5. CASE /\ h = "requeue"
           /\ new = <<"resumeIfCompleted", "revisit", "flush", "held", "next">>
  BY <1>5, StepLiterals DEF Outer, Inner, Asking
<1>6. CASE h = "stageIfCompleted" /\ new = <<"stage">>
  BY <1>6, StepLiterals DEF Outer, Inner, Asking
<1>7. CASE h = "closeIfStaged" /\ new = <<"flush", "stage", "shut">>
  BY <1>7, StepLiterals DEF Outer, Inner, Asking
<1>8. CASE h = "cancel" /\ new = <<"cancelling">>
  BY <1>8, StepLiterals DEF Outer, Inner, Asking
<1>9. CASE h = "cancelling" /\ new \in {<<"fetching">>, <<"recancelling">>}
  <2>1. CASE new = <<"fetching">>
    BY <1>9, <2>1, StepLiterals DEF Outer, Inner
  <2>2. CASE new = <<"recancelling">>
    BY <1>9, <2>2, StepLiterals DEF Outer, Inner
  <2>3. QED
    BY <1>9, <2>1, <2>2
<1>10. CASE h = "recancelling" /\ new = <<"fetching">>
  BY <1>10, StepLiterals DEF Outer, Inner, Asking
<1>11. CASE h = "shut" /\ new = <<"shutting">>
  BY <1>11, StepLiterals DEF Outer, Inner, Asking
<1>12. CASE h = "shutting" /\ new = <<"reshutting">>
  BY <1>12, StepLiterals DEF Outer, Inner, Asking
<1>13. CASE h = "stage" /\ new = <<"staged">>
  BY <1>13, StepLiterals DEF Outer, Inner, Asking
<1>14. QED
  BY <1>1, <1>2, <1>3, <1>4, <1>5, <1>6, <1>7, <1>8, <1>9, <1>10, <1>11,
     <1>12, <1>13 DEF Rewrite

\* A rewriting keeps the steps in place.
LEMMA StaysInPlace ==
  ASSUME NEW s, NEW new, NEW t, Replaces(s, new, t), Rewrite(s[1], new),
         InPlace(s)
  PROVE  InPlace(t)
<1> DEFINE k == Len(new)
<1>1. /\ new \in Seq(Steps) /\ k \in Nat
      /\ \A i \in 1..k : t[i] = new[i]
      /\ \A i \in 2..Len(s) : t[k + i - 1] = s[i]
      /\ Len(s) \in Nat \ {0} /\ DOMAIN s = 1..Len(s)
      /\ DOMAIN t = 1..(k + Len(s) - 1)
      /\ \A i \in DOMAIN t : i > k =>
              i - k + 1 \in 2..Len(s) /\ t[i] = s[i - k + 1]
  BY RewriteLengths DEF Replaces
<1>2. SUFFICES ASSUME NEW i \in DOMAIN t
               PROVE  /\ t[i] \in Asking \cup {"await"} => i = 1
                      /\ t[i] = "shut" =>
                           \/ i = 1
                           \/ i = 2 /\ t[1] \in {"stage", "staged"}
                           \/ i = 3 /\ t[1] = "flush" /\ t[2] = "stage"
                      /\ t[i] = "cancel" =>
                           \/ i = 1
                           \/ i = 2 /\ t[1] = "flush"
                           \/ i = 3 /\ t[1] = "staged" /\ t[2] = "flush"
                           \/ /\ i = 4 /\ t[1] = "suppress"
                              /\ t[2] = "staged" /\ t[3] = "flush"
  BY DEF InPlace
<1>3. ASSUME NEW j \in DOMAIN s
      PROVE  /\ s[j] \in Asking \cup {"await"} => j = 1
             /\ s[j] = "shut" =>
                  \/ j = 1
                  \/ j = 2 /\ s[1] \in {"stage", "staged"}
                  \/ j = 3 /\ s[1] = "flush" /\ s[2] = "stage"
             /\ s[j] = "cancel" =>
                  \/ j = 1
                  \/ j = 2 /\ s[1] = "flush"
                  \/ j = 3 /\ s[1] = "staged" /\ s[2] = "flush"
                  \/ /\ j = 4 /\ s[1] = "suppress"
                     /\ s[2] = "staged" /\ s[3] = "flush"
  BY DEF InPlace
<1> HIDE DEF k
<1>4. CASE k = 0
  <2>1. ASSUME NEW j \in DOMAIN t
        PROVE  t[j] = s[j + 1] /\ j + 1 \in DOMAIN s
    <3>1. j \in Nat /\ j > k /\ j - k + 1 = j + 1
      BY <1>1, <1>4
    <3>2. j - k + 1 \in 2..Len(s) /\ t[j] = s[j - k + 1]
      BY <1>1, <3>1
    <3>3. QED
      BY <1>1, <3>1, <3>2
  <2>2. i \in Nat /\ i >= 1 /\ \A j \in 1..i : j \in DOMAIN t
    BY <1>1
  <2>3. t[i] = s[i + 1] /\ i + 1 \in DOMAIN s
    BY <2>1
  <2>4. i >= 2 => t[1] = s[2]
    BY <2>1, <2>2
  <2>5. i >= 3 => t[2] = s[3]
    BY <2>1, <2>2
  <2>6. QED
    BY <1>3, <2>2, <2>3, <2>4, <2>5
<1>5. CASE /\ k = 1 /\ s[1] \notin {"flush", "staged", "suppress"}
           /\ (s[1] = "stage" /\ new[1] = "staged") \/ s[1] # "stage"
           /\ new[1] \notin {"shut", "cancel", "release"}
  <2>1. i = 1 => t[i] = new[1]
    BY <1>1, <1>5
  <2>2. i > 1 => t[i] = s[i] /\ i \in DOMAIN s
    <3>1. i > 1 => i > k /\ i - k + 1 = i
      BY <1>1, <1>5
    <3>2. QED
      BY <1>1, <3>1
  <2>3. t[1] = new[1] /\ i \in Nat /\ i >= 1
    BY <1>1, <1>5
  <2>4. QED
    BY <1>3, <1>5, <2>1, <2>2, <2>3
<1>6. CASE /\ k \in 2..5
           /\ s[1] \in {"advanceIfStudying", "requeue", "closeIfStaged"}
           /\ \A j \in 1..k :
                /\ new[j] \notin Asking \cup {"await", "cancel", "release",
                                              "staged"}
                /\ new[j] = "shut" => j = 3 /\ new[1] = "flush" /\ new[2] = "stage"
  <2>1. t[1] = new[1] /\ t[2] = new[2]
    BY <1>1, <1>6
  <2>2. CASE i <= k
    <3>1. i \in 1..k /\ t[i] = new[i]
      BY <1>1, <2>2
    <3>2. QED
      BY <1>6, <2>1, <3>1
  <2>3. CASE i > k
    <3>1. t[i] = s[i - k + 1] /\ i - k + 1 \in DOMAIN s /\ i - k + 1 # 1
      BY <1>1, <2>3
    <3>2. QED
      BY <1>3, <1>6, <3>1
  <2>4. QED
    BY <1>1, <2>2, <2>3
<1>7. QED
  BY <1>4, <1>5, <1>6, RewriteLengths DEF k

LEMMA InsideIntro ==
  ASSUME NEW t, NEW n,
         \A j, i \in DOMAIN t : t[j] = "release" =>
           /\ j > n
           /\ (n < i /\ i < j) => t[i] \in Inner
           /\ i > j => t[i] = "stage"
  PROVE  InsideFrom(t, n)
BY DEF InsideFrom

\* What remains once a prefix is done takes a completion back as it did.
LEMMA InsideReplaced ==
  ASSUME NEW s, NEW new, NEW t, Replaces(s, new, t),
         \A i \in 1..Len(new) : new[i] \in Inner
  PROVE  /\ Reopening(t) => Reopening(s)
         /\ InsideFrom(s, 0) => InsideFrom(t, 0)
         /\ (Len(new) = 0 /\ InsideFrom(s, 2)) => InsideFrom(t, 1)
         /\ (Len(new) = 0 /\ InsideFrom(s, 1)) => InsideFrom(t, 0)
<1> DEFINE k == Len(new)
<1>0. "release" \notin Inner /\ "stage" \notin Inner
  BY DEF Inner
<1>1. /\ k \in Nat /\ Len(s) \in Nat \ {0} /\ DOMAIN s = 1..Len(s)
      /\ DOMAIN t = 1..(k + Len(s) - 1)
      /\ \A i \in 1..k : t[i] = new[i]
      /\ \A i \in DOMAIN t : i > k =>
              i - k + 1 \in 2..Len(s) /\ t[i] = s[i - k + 1]
  BY DEF Replaces
<1>2. \A i \in 1..k : new[i] \in Inner
  OBVIOUS
<1>3. k = Len(new)
  OBVIOUS
<1> HIDE DEF k
<1>4. ASSUME NEW j \in DOMAIN t, t[j] = "release"
      PROVE  /\ j > k /\ j - k + 1 \in DOMAIN s /\ s[j - k + 1] = "release"
             /\ j - k + 1 > 1
  <2>1. j > k
    <3>1. j <= k => j \in 1..k /\ t[j] = new[j]
      BY <1>1
    <3>2. QED
      BY <1>0, <1>1, <1>2, <1>4, <3>1
  <2>2. QED
    BY <1>1, <1>4, <2>1
<1>5. Reopening(t) => Reopening(s)
  BY <1>4 DEF Reopening, Range
<1>6. ASSUME InsideFrom(s, 0), NEW j \in DOMAIN t, t[j] = "release",
             NEW i \in DOMAIN t
      PROVE  /\ j > 0
             /\ (0 < i /\ i < j) => t[i] \in Inner
             /\ i > j => t[i] = "stage"
  <2>1. /\ j - k + 1 \in DOMAIN s /\ s[j - k + 1] = "release" /\ j > k
        /\ i \in Nat /\ j \in Nat
    BY <1>1, <1>4, <1>6
  <2>2. CASE i <= k
    BY <1>1, <1>2, <2>1, <2>2
  <2>3. CASE i > k
    <3>1. i - k + 1 \in DOMAIN s /\ t[i] = s[i - k + 1] /\ i - k + 1 > 0
      BY <1>1, <2>3
    <3>2. /\ i - k + 1 < j - k + 1 => s[i - k + 1] \in Inner
          /\ i - k + 1 > j - k + 1 => s[i - k + 1] = "stage"
      BY <1>6, <2>1, <3>1 DEF InsideFrom
    <3>3. QED
      BY <1>1, <2>1, <3>1, <3>2
  <2>4. QED
    BY <1>1, <2>1, <2>2, <2>3
<1>7. ASSUME k = 0, NEW n \in {0, 1}, InsideFrom(s, n + 1),
             NEW j \in DOMAIN t, t[j] = "release", NEW i \in DOMAIN t
      PROVE  /\ j > n
             /\ (n < i /\ i < j) => t[i] \in Inner
             /\ i > j => t[i] = "stage"
  <2>1. /\ j + 1 \in DOMAIN s /\ s[j + 1] = "release"
        /\ i + 1 \in DOMAIN s /\ t[i] = s[i + 1]
        /\ i \in Nat /\ j \in Nat
    <3>1. i \in Nat /\ j \in Nat /\ i > k /\ i - k + 1 = i + 1
          /\ j - k + 1 = j + 1
      BY <1>1, <1>7
    <3>2. i - k + 1 \in 2..Len(s) /\ t[i] = s[i - k + 1]
      BY <1>1, <3>1
    <3>3. QED
      BY <1>1, <1>4, <1>7, <3>1, <3>2
  <2>2. /\ j + 1 > n + 1
        /\ (n + 1 < i + 1 /\ i + 1 < j + 1) => s[i + 1] \in Inner
        /\ i + 1 > j + 1 => s[i + 1] = "stage"
    BY <1>7, <2>1 DEF InsideFrom
  <2>3. QED
    BY <1>7, <2>1, <2>2
<1>8. InsideFrom(s, 0) => InsideFrom(t, 0)
  BY <1>6 DEF InsideFrom
<1>9. (k = 0 /\ InsideFrom(s, 2)) => InsideFrom(t, 1)
  <2>1. SUFFICES ASSUME k = 0, InsideFrom(s, 1 + 1)
                 PROVE  InsideFrom(t, 1)
    OBVIOUS
  <2>2. ASSUME NEW j \in DOMAIN t, t[j] = "release", NEW i \in DOMAIN t
        PROVE  /\ j > 1
               /\ (1 < i /\ i < j) => t[i] \in Inner
               /\ i > j => t[i] = "stage"
    BY <1>7, <2>1, <2>2
  <2>3. QED
    BY <2>2, InsideIntro
<1>10. (k = 0 /\ InsideFrom(s, 1)) => InsideFrom(t, 0)
  <2>1. SUFFICES ASSUME k = 0, InsideFrom(s, 0 + 1)
                 PROVE  InsideFrom(t, 0)
    OBVIOUS
  <2>2. ASSUME NEW j \in DOMAIN t, t[j] = "release", NEW i \in DOMAIN t
        PROVE  /\ j > 0
               /\ (0 < i /\ i < j) => t[i] \in Inner
               /\ i > j => t[i] = "stage"
    BY <1>7, <2>1, <2>2
  <2>3. QED
    BY <2>2, InsideIntro
<1>11. QED
  BY <1>3, <1>5, <1>8, <1>9, <1>10

\* A rewriting keeps staging held off: the suppressing step suppresses, and
\* the step that waits for staging goes on once none is under way.
LEMMA StaysHeldOff ==
  ASSUME NEW s, NEW new, NEW t, Replaces(s, new, t), Rewrite(s[1], new),
         NEW suppress, NEW run, NEW suppress2, NEW run2,
         HeldOff(s, suppress, run), s[1] = "suppress" => suppress2,
         s[1] \notin {"suppress", "release"} => suppress2 = suppress,
         s[1] = "staged" => run = "idle", s[1] # "stage" => run2 = run
  PROVE  HeldOff(t, suppress2, run2)
<1>0. /\ DOMAIN t = 1..(Len(new) + Len(s) - 1) /\ Len(new) \in Nat
      /\ \A i \in 1..Len(new) : t[i] = new[i]
      /\ DOMAIN s = 1..Len(s) /\ Len(s) \in Nat \ {0}
      /\ \A i \in 2..Len(s) : t[Len(new) + i - 1] = s[i]
      /\ \A i \in DOMAIN t : i > Len(new) =>
              i - Len(new) + 1 \in 2..Len(s) /\ t[i] = s[i - Len(new) + 1]
  BY DEF Replaces
<1>1. CASE ~Reopening(s)
  <2>1. s[1] \in Outer /\ \A i \in 1..Len(new) : new[i] \in Outer
    BY <1>0, <1>1, RewriteLengths DEF HeldOff, Range
  <2>2. \A i \in DOMAIN t : t[i] \in Outer
    <3>1. TAKE i \in DOMAIN t
    <3>2. CASE i > Len(new)
      BY <1>0, <1>1, <3>2 DEF HeldOff, Range
    <3>3. CASE ~(i > Len(new))
      BY <1>0, <2>1, <3>3
    <3>4. QED
      BY <3>2, <3>3
  <2>3. QED
    BY <2>2 DEF HeldOff, Reopening, Range, Outer
<1>2. ASSUME Reopening(s), s[1] # "release" PROVE Reopening(t)
  <2>1. PICK j \in DOMAIN s : s[j] = "release"
    BY <1>2 DEF Reopening, Range
  <2>2. j \in 2..Len(s)
    BY <1>0, <1>2, <2>1
  <2>3. t[Len(new) + j - 1] = "release" /\ Len(new) + j - 1 \in DOMAIN t
    BY <1>0, <2>1, <2>2
  <2>4. QED
    BY <2>3 DEF Reopening, Range
<1>3. CASE Reopening(s) /\ s[1] = "suppress" /\ s[2] = "staged"
           /\ InsideFrom(s, 2)
  <2>1. Len(new) = 0
    BY <1>3, RewriteLengths
  <2>2. InsideFrom(t, 1) /\ Reopening(t)
    BY <1>0, <1>2, <1>3, <2>1, InsideReplaced
  <2>3. t[1] = "staged"
    <3>1. PICK j \in DOMAIN s : s[j] = "release"
      BY <1>3 DEF Reopening, Range
    <3>2. 2 \in 2..Len(s)
      BY <1>0, <1>3, <3>1
    <3>3. t[Len(new) + 2 - 1] = s[2]
      BY <1>0, <3>2
    <3>4. QED
      BY <1>0, <1>3, <2>1, <3>3
  <2>4. suppress2
    BY <1>3
  <2>5. QED
    BY <2>2, <2>3, <2>4 DEF HeldOff
<1>4. CASE Reopening(s) /\ s[1] = "staged" /\ InsideFrom(s, 1) /\ suppress
  <2>1. Len(new) = 0
    BY <1>4, RewriteLengths
  <2>2. InsideFrom(t, 0) /\ Reopening(t)
    BY <1>0, <1>2, <1>4, <2>1, InsideReplaced
  <2>3. suppress2 /\ run2 = "idle"
    BY <1>4
  <2>4. QED
    BY <2>2, <2>3 DEF HeldOff
<1>5. CASE Reopening(s) /\ InsideFrom(s, 0) /\ suppress /\ run = "idle"
  <2>1. CASE s[1] = "release"
    <3>1. Len(new) = 0
      BY <2>1 DEF Rewrite, Commanding
    <3>2. \A i \in DOMAIN t : t[i] = "stage"
      <4>1. TAKE i \in DOMAIN t
      <4>2. i > Len(new) /\ i - Len(new) + 1 = i + 1 /\ i + 1 > 1
        BY <1>0, <3>1
      <4>3. i - Len(new) + 1 \in 2..Len(s) /\ t[i] = s[i - Len(new) + 1]
        BY <1>0, <4>2
      <4>4. i + 1 \in DOMAIN s /\ t[i] = s[i + 1]
        BY <1>0, <4>2, <4>3
      <4>5. 1 \in DOMAIN s
        BY <1>0
      <4>6. QED
        BY <1>5, <2>1, <4>2, <4>4, <4>5 DEF InsideFrom
    <3>3. QED
      BY <3>2 DEF HeldOff, Reopening, Range, Outer
  <2>2. CASE s[1] # "release"
    <3>1. s[1] \in Inner
      <4>1. PICK j \in DOMAIN s : s[j] = "release"
        BY <1>5 DEF Reopening, Range
      <4>2. 1 \in DOMAIN s /\ 1 < j
        BY <1>0, <2>2, <4>1
      <4>3. QED
        BY <1>5, <4>1, <4>2 DEF InsideFrom
    <3>2. \A i \in 1..Len(new) : new[i] \in Inner
      BY <3>1, RewriteLengths
    <3>3. InsideFrom(t, 0) /\ Reopening(t)
      BY <1>2, <1>5, <2>2, <3>2, InsideReplaced
    <3>4. suppress2 /\ run2 = "idle"
      BY <1>5, <3>1 DEF Inner
    <3>5. QED
      BY <3>3, <3>4 DEF HeldOff
  <2>3. QED
    BY <2>1, <2>2
<1>6. QED
  BY <1>1, <1>3, <1>4, <1>5 DEF HeldOff

-----------------------------------------------------------------------------
(* The shape of what is under way is kept.                                 *)

\* A step of the operation, or its end by an error.
Moves(new) == /\ Working /\ Rewrite(op.steps[1], new)
              /\ Replaces(op.steps, new, op'.steps)
Ends == op'.steps = <<>>

LEMMA Becomes ==
  ASSUME ClientTypes, Working, NEW new, Rewrite(op.steps[1], new), Become(new)
  PROVE  Moves(new) /\ op'.own = op.own
<1>1. op.steps \in Seq(Steps) /\ op.steps # <<>> /\ new \in Seq(Steps)
  BY RewriteLengths DEF ClientTypes, Ops, Working
<1>2. op'.steps = new \o Tail(op.steps) /\ op'.own = op.own
  BY DEF Become, ClientTypes, Ops
<1>3. QED
  BY <1>1, <1>2, NewSteps DEF Moves

LEMMA Continues ==
  ASSUME ClientTypes, Working, op.steps[1] # "stage", Continue
  PROVE  Moves(<<>>) /\ op'.own = op.own
BY Becomes DEF Continue, Rewrite

LEMMA Issues ==
  ASSUME ClientTypes, Working, op.steps[1] \in Commanding \cup {"held"},
         NEW kind, Issue(kind)
  PROVE  Moves(<<"await">>) /\ op'.own = issued + 1
<1>1. op.steps \in Seq(Steps) /\ op.steps # <<>> /\ <<"await">> \in Seq(Steps)
  BY DEF ClientTypes, Ops, Working, Steps
<1>2. /\ op'.steps = <<"await">> \o Tail(op.steps) /\ op'.own = issued + 1
      /\ Rewrite(op.steps[1], <<"await">>)
  BY DEF Issue, Rewrite
<1>3. QED
  BY <1>1, <1>2, NewSteps DEF Moves

LEMMA HeadIsFirst ==
  ASSUME ClientTypes
  PROVE  /\ Working => Head(op.steps) = op.steps[1]
         /\ \A step : At(step) <=> Working /\ op.steps[1] = step
         /\ Working => 1 \in DOMAIN op.steps
BY DEF ClientTypes, Ops, Working, At

\* The step an operation comes to.
LEMMA ComesTo ==
  ASSUME NEW new, Moves(new), StepsInPlace
  PROVE  /\ Working' =>
              IF Len(new) = 0
              THEN /\ op'.steps[1] = op.steps[2] /\ 2 \in DOMAIN op.steps
                   /\ op'.steps[1] \notin Asking \cup {"await"}
              ELSE op'.steps[1] = new[1]
         /\ \A i \in DOMAIN op'.steps :
              IF i <= Len(new) THEN op'.steps[i] = new[i] /\ i \in DOMAIN new
              ELSE /\ i - Len(new) + 1 \in DOMAIN op.steps
                   /\ i - Len(new) + 1 # 1
                   /\ op'.steps[i] = op.steps[i - Len(new) + 1]
         /\ Len(new) \in Nat
         /\ \A i \in DOMAIN op.steps : i # 1 =>
              /\ Len(new) + i - 1 \in DOMAIN op'.steps
              /\ op'.steps[Len(new) + i - 1] = op.steps[i]
<1> DEFINE s == op.steps
           t == op'.steps
<1>1. /\ Len(new) \in Nat /\ Len(s) \in Nat \ {0} /\ DOMAIN s = 1..Len(s)
      /\ DOMAIN new = 1..Len(new)
      /\ t \in Seq(Steps) /\ DOMAIN t = 1..(Len(new) + Len(s) - 1)
      /\ \A i \in 1..Len(new) : t[i] = new[i]
      /\ \A i \in 2..Len(s) : t[Len(new) + i - 1] = s[i]
      /\ \A i \in DOMAIN t : i > Len(new) =>
           i - Len(new) + 1 \in 2..Len(s) /\ t[i] = s[i - Len(new) + 1]
  BY DEF Moves, Replaces
<1>2. \A i \in DOMAIN s : s[i] \in Asking \cup {"await"} => i = 1
  BY DEF StepsInPlace, InPlace
<1>3. t # <<>> => 1 \in DOMAIN t
  BY <1>1
<1>4. Working' <=> t # <<>>
  BY DEF Working
<1> HIDE DEF s, t
<1>5. \A i \in DOMAIN t : i <= Len(new) => i \in 1..Len(new)
  BY <1>1
<1>6. \A i \in DOMAIN t : ~(i <= Len(new)) => i > Len(new)
  BY <1>1
<1>7. \A i \in DOMAIN s : i # 1 =>
        i \in 2..Len(s) /\ Len(new) + i - 1 \in DOMAIN t
  BY <1>1
<1>8. ASSUME t # <<>>
      PROVE  IF Len(new) = 0
             THEN /\ t[1] = s[2] /\ 2 \in DOMAIN s
                  /\ t[1] \notin Asking \cup {"await"}
             ELSE t[1] = new[1]
  <2>1. CASE Len(new) = 0
    <3>1. 1 - Len(new) + 1 = 2 /\ 1 > Len(new)
      BY <2>1
    <3>2. 2 \in 2..Len(s) /\ t[1] = s[2]
      BY <1>1, <1>3, <1>8, <3>1
    <3>3. QED
      BY <1>1, <1>2, <2>1, <3>2
  <2>2. CASE Len(new) # 0
    BY <1>1, <2>2
  <2>3. QED
    BY <2>1, <2>2
<1>9. \A i \in DOMAIN t : ~(i <= Len(new)) =>
        /\ i - Len(new) + 1 \in DOMAIN s /\ i - Len(new) + 1 # 1
        /\ t[i] = s[i - Len(new) + 1]
  BY <1>1, <1>6
<1>10. \A i \in DOMAIN t : i <= Len(new) => t[i] = new[i] /\ i \in DOMAIN new
  BY <1>1, <1>5
<1>11. \A i \in DOMAIN s : i # 1 =>
         /\ Len(new) + i - 1 \in DOMAIN t
         /\ t[Len(new) + i - 1] = s[i]
  BY <1>1, <1>7
<1>12. QED
  BY <1>1, <1>4, <1>8, <1>9, <1>10, <1>11 DEF s, t

\* One call changes at a time.
LEMMA OneCall ==
  ASSUME CallsTyped, NEW ch \in Channels, NEW c, calls' = [calls EXCEPT ![ch] = c]
  PROVE  calls'[ch] = c /\ \A d \in Channels \ {ch} : calls'[d] = calls[d]
BY DEF CallsTyped

LEMMA NoneIsNoCall ==
  ASSUME CallsTyped, NEW ch \in Channels
  PROVE  calls[ch] = NoCall <=> calls[ch].at = "none"
BY DEF CallsTyped, Calls, NoCall

\* Where another event may find the page.
LEMMA WhereItWaits ==
  ASSUME ClientTypes, Shape, Waiting
  PROVE  /\ staging = "flush" => queue # <<>> /\ failure = "none"
         /\ Working =>
              /\ op.steps[1] \in {"flush", "await", "staged", "retry"} \cup Asking
              /\ At("flush") => queue # <<>> /\ failure = "none"
              /\ At("await") =>
                   InQueue(op.own) /\ (failure = "none" \/ queue[1].id # op.own)
              /\ At("staged") => staging # "idle"
              /\ At("retry") => calls["queue"].at # "none"
<1>1. \A ch \in Channels : calls[ch] = NoCall <=> calls[ch].at = "none"
  BY NoneIsNoCall DEF ClientTypes
<1>2. "op" \in Channels /\ "queue" \in Channels
  BY DEF Channels
<1>3. ASSUME Working, op.steps[1] \notin {"flush", "await", "staged", "retry"}
      PROVE  op.steps[1] \in Asking
  BY <1>1, <1>2, <1>3, HeadIsFirst DEF Waiting, Shape, CallsAwaited
<1>4. QED
  BY <1>1, <1>2, <1>3, HeadIsFirst DEF Waiting, Flushing

\* Nothing but the operation and its staging run changes the shape.
LEMMA ShapeFrame ==
  ASSUME Shape, UNCHANGED <<op, staging, failure>>, ui'.suppress = ui.suppress,
         StopsAtHead', calls'["op"].at # "none" <=> calls["op"].at # "none",
         calls'["stage"].at # "none" <=> calls["stage"].at # "none",
         calls'["op"].at = "sent" => calls'["op"] = calls["op"]
  PROVE  Shape'
<1>1. StagingIsHeldOff' /\ StepsInPlace'
  BY DEF Shape, StagingIsHeldOff, StepsInPlace
<1>2. CallsAwaited'
  BY DEF Shape, CallsAwaited, At, Working
<1>3. QED
  BY <1>1, <1>2 DEF Shape

\* The server, the network and the clock.
LEMMA ServeShape ==
  ASSUME ClientTypes, Shape, NEW ch \in Channels, Serve(ch)
  PROVE  Shape'
<1>1. PICK at \in {"answered", "refused"} : Settle(ch, at)
  BY DEF Serve
<1>2. /\ calls'[ch] = [at |-> at, got |-> Snapshot(server')]
      /\ \A d \in Channels \ {ch} : calls'[d] = calls[d]
  BY <1>1, OneCall DEF ClientTypes, Settle
<1>3. calls[ch].at = "sent" /\ UNCHANGED page
  BY DEF Serve
<1>4. {"op", "stage", "queue"} \subseteq Channels
  BY DEF Channels
<1>5. calls'[ch].at \in {"answered", "refused"}
  BY <1>2
<1>6. StopsAtHead'
  BY <1>2, <1>3, <1>4 DEF Shape, StopsAtHead, page
<1>7. QED
  BY <1>2, <1>3, <1>4, <1>5, <1>6, ShapeFrame DEF page

LEMMA LoseShape ==
  ASSUME ClientTypes, Shape, NEW ch \in Channels, Lose(ch)
  PROVE  Shape'
<1>1. /\ calls'[ch] = [at |-> "lost"]
      /\ \A d \in Channels \ {ch} : calls'[d] = calls[d]
  BY OneCall DEF ClientTypes, Lose
<1>2. calls[ch].at \in {"sent", "answered"} /\ UNCHANGED page
  BY DEF Lose
<1>3. {"op", "stage", "queue"} \subseteq Channels
  BY DEF Channels
<1>4. calls'[ch].at = "lost"
  BY <1>1
<1>5. StopsAtHead'
  BY <1>1, <1>2, <1>3 DEF Shape, StopsAtHead, page
<1>6. QED
  BY <1>1, <1>2, <1>3, <1>4, <1>5, ShapeFrame DEF page

LEMMA ServerShape ==
  ASSUME ClientTypes, Shape,
         CloseFails \/ WindowEnds \/ WorkerCloses \/ \E e \in late : Arrive(e)
  PROVE  Shape'
<1>1. CASE CloseFails
  <2>1. /\ calls'["op"].at = "refused"
        /\ \A d \in Channels \ {"op"} : calls'[d] = calls[d]
    <3>1. Settle("op", "refused") /\ "op" \in Channels
      BY <1>1 DEF CloseFails, Channels
    <3>2. /\ calls'["op"] = [at |-> "refused", got |-> Snapshot(server')]
          /\ \A d \in Channels \ {"op"} : calls'[d] = calls[d]
      BY <3>1, OneCall DEF ClientTypes, Settle
    <3>3. QED
      BY <3>2
  <2>2. calls[ "op"].at = "sent" /\ UNCHANGED page
    BY <1>1 DEF CloseFails
  <2>3. "queue" \in Channels \ {"op"} /\ "stage" \in Channels \ {"op"}
    BY DEF Channels
  <2>4. StopsAtHead'
    BY <2>1, <2>2, <2>3 DEF Shape, StopsAtHead, page
  <2>5. QED
    BY <2>1, <2>2, <2>3, <2>4, ShapeFrame DEF page
<1>2. CASE WindowEnds \/ WorkerCloses \/ \E e \in late : Arrive(e)
  <2>1. UNCHANGED <<page, calls>>
    BY <1>2 DEF WindowEnds, WorkerCloses, Arrive, net
  <2>2. StopsAtHead'
    BY <2>1 DEF Shape, StopsAtHead, page
  <2>3. QED
    BY <2>1, <2>2, ShapeFrame DEF page
<1>3. QED
  BY <1>1, <1>2

LEMMA HangsUp ==
  ASSUME CallsTyped, NEW ch \in Channels, Hang(ch)
  PROVE  calls'[ch].at = "none" /\ \A d \in Channels \ {ch} : calls'[d] = calls[d]
<1>1. calls'[ch] = NoCall /\ \A d \in Channels \ {ch} : calls'[d] = calls[d]
  BY OneCall DEF Hang
<1>2. QED
  BY <1>1 DEF NoCall

LEMMA Calls1 ==
  ASSUME CallsTyped, NEW ch \in Channels, NEW req, Call(ch, req)
  PROVE  /\ calls'[ch].at = "sent" /\ calls'[ch].req = req
         /\ \A d \in Channels \ {ch} : calls'[d] = calls[d]
<1>1. /\ calls'[ch] = [at |-> "sent", req |-> req]
      /\ \A d \in Channels \ {ch} : calls'[d] = calls[d]
  BY OneCall DEF Call
<1>2. QED
  BY <1>1

LEMMA QueueShape ==
  ASSUME ClientInv, Shape, QueueStep
  PROVE  Shape'
<1>0. /\ "queue" \in Channels /\ "op" \in Channels \ {"queue"}
      /\ "stage" \in Channels \ {"queue"} /\ CallsTyped /\ ui \in Pages
  BY DEF Channels, ClientInv, ClientTypes
<1>1. CASE Pump
  <2>1. \A d \in Channels \ {"queue"} : calls'[d] = calls[d]
    BY <1>0, <1>1, Calls1 DEF Pump
  <2>2. UNCHANGED <<op, staging, failure, queue, ui>> /\ failure = "none"
    BY <1>1 DEF Pump, page
  <2>3. QED
    BY <1>0, <2>1, <2>2, ShapeFrame DEF StopsAtHead
<1>2. CASE Acknowledge
  <2>1. \A d \in Channels \ {"queue"} : calls'[d] = calls[d]
    BY <1>0, <1>2, HangsUp DEF Acknowledge
  <2>2. UNCHANGED <<op, staging, failure>> /\ failure = "none"
    BY <1>2 DEF Acknowledge, Answered, Shape, StopsAtHead
  <2>3. ui'.suppress = ui.suppress
    BY <1>0, <1>2 DEF Acknowledge, Seen, Pages
  <2>4. QED
    BY <1>0, <2>1, <2>2, <2>3, ShapeFrame DEF StopsAtHead
<1>3. CASE Stop
  <2>1. /\ \A d \in Channels \ {"queue"} : calls'[d] = calls[d]
        /\ calls'["queue"].at = "none"
    BY <1>0, <1>3, HangsUp DEF Stop
  <2>2. UNCHANGED <<op, staging, queue>> /\ queue # <<>>
    BY <1>3 DEF Stop, Failed, ClientInv, QueueOrder, HeadIsSent
  <2>3. ui'.suppress = ui.suppress
    BY <1>0, <1>3 DEF Stop, Pages
  <2>4. StopsAtHead' /\ StagingIsHeldOff' /\ StepsInPlace'
    BY <2>1, <2>2, <2>3
    DEF Shape, StopsAtHead, StagingIsHeldOff, StepsInPlace
  <2>5. CallsAwaited'
    BY <1>0, <2>1, <2>2 DEF Shape, CallsAwaited, At, Working
  <2>6. QED
    BY <2>4, <2>5 DEF Shape
<1>4. QED
  BY <1>1, <1>2, <1>3 DEF QueueStep

\* Staging is not started while it is suppressed.
LEMMA AutoStageShape ==
  ASSUME ClientTypes, Shape, Waiting, AutoStage
  PROVE  Shape'
<1>1. /\ UNCHANGED <<op, failure, queue, calls>>
      /\ ui'.suppress = ui.suppress
  BY DEF AutoStage, net, ClientTypes, Pages
<1>2. StopsAtHead' /\ StepsInPlace'
  BY <1>1 DEF Shape, StopsAtHead, StepsInPlace
<1>3. staging' = staging \/ (staging = "idle" /\ staging' = "flush" /\ ~ui.suppress)
  BY DEF AutoStage
<1>4. StagingIsHeldOff'
  BY <1>1, <1>3 DEF Shape, StagingIsHeldOff, HeldOff
<1>5. CallsAwaited'
  BY <1>1, <1>3 DEF Shape, CallsAwaited, At, Working
<1>6. QED
  BY <1>2, <1>4, <1>5 DEF Shape

\* What the learner starts.
Between == Inner \ (Asking \cup {"await", "cancel"})

Joins(a, b, s) ==
  /\ s \in Seq(Steps) /\ Len(s) = Len(a) + Len(b)
  /\ Len(a) \in Nat /\ Len(b) \in Nat
  /\ \A i \in 1..Len(a) : s[i] = a[i]
  /\ \A i \in 1..Len(b) : s[Len(a) + i] = b[i]

LEMMA Joined ==
  ASSUME NEW a \in Seq(Steps), NEW b \in Seq(Steps)
  PROVE  Joins(a, b, a \o b)
BY DEF Joins

IsBoundary(s, k, m) ==
  /\ k \in Nat /\ m \in {0, 1} /\ DOMAIN s = 1..(5 + k + m)
  /\ s[1] = "suppress" /\ s[2] = "staged" /\ s[3] = "flush"
  /\ s[4] = "cancel" /\ s[5 + k] = "release"
  /\ m = 1 => s[6 + k] = "stage"
  /\ \A i \in 5..(4 + k) : s[i] \in Between

LEMMA BoundaryParts ==
  ASSUME NEW middle \in Seq(Between), NEW more \in {<<>>, <<"stage">>},
         NEW s, s = Boundary(middle) \o more
  PROVE  \E k, m : IsBoundary(s, k, m)
<1>0. PICK k : k = Len(middle)
  OBVIOUS
<1>1. PICK four : four = <<"suppress", "staged", "flush", "cancel">>
  OBVIOUS
<1>2. PICK last : last = <<"release">>
  OBVIOUS
<1>3. /\ four \in Seq(Steps) /\ Len(four) = 4
      /\ four[1] = "suppress" /\ four[2] = "staged" /\ four[3] = "flush"
      /\ four[4] = "cancel"
  <2>1. {"suppress", "staged", "flush", "cancel"} \subseteq Steps
    BY DEF Steps
  <2>2. QED
    BY <1>1, <2>1
<1>4. last \in Seq(Steps) /\ Len(last) = 1 /\ last[1] = "release"
  <2>1. "release" \in Steps
    BY DEF Steps
  <2>2. QED
    BY <1>2, <2>1
<1>5. middle \in Seq(Steps) /\ k \in Nat /\ \A i \in 1..k : middle[i] \in Between
  <2>1. Between \subseteq Steps
    BY DEF Between, Inner, Steps, Commanding
  <2>2. QED
    BY <1>0, <2>1
<1>6. PICK m \in {0, 1} : /\ more \in Seq(Steps) /\ Len(more) = m
                          /\ m = 1 => more[1] = "stage"
  <2>1. CASE more = <<>>
    BY <2>1
  <2>2. CASE more = <<"stage">>
    BY <2>2, StepLiterals
  <2>3. QED
    BY <2>1, <2>2
<1>7. PICK front : front = four \o middle
  OBVIOUS
<1>7a. /\ front \in Seq(Steps) /\ Len(front) = 4 + k
       /\ \A i \in 1..4 : front[i] = four[i]
       /\ \A i \in 1..k : front[4 + i] = middle[i]
  <2>1. Joins(four, middle, front)
    BY <1>3, <1>5, <1>7, Joined
  <2>2. QED
    BY <1>0, <1>3, <1>5, <2>1 DEF Joins
<1>7b. PICK b : b = front \o last
  OBVIOUS
<1>7c. /\ b \in Seq(Steps) /\ Len(b) = 5 + k
       /\ \A i \in 1..(4 + k) : b[i] = front[i]
       /\ b[5 + k] = "release"
  <2>1. /\ b \in Seq(Steps) /\ Len(b) = (4 + k) + 1
        /\ \A i \in 1..(4 + k) : b[i] = front[i]
        /\ \A i \in 1..1 : b[(4 + k) + i] = last[i]
    <3>1. Joins(front, last, b)
      BY <1>4, <1>7a, <1>7b, Joined
    <3>2. QED
      BY <1>4, <1>7a, <3>1 DEF Joins
  <2>2. b[(4 + k) + 1] = "release" /\ (4 + k) + 1 = 5 + k
    BY <1>4, <1>5, <2>1
  <2>3. QED
    BY <2>1, <2>2
<1>7d. s = b \o more
  BY <1>1, <1>2, <1>7, <1>7b DEF Boundary
<1>7e. /\ s \in Seq(Steps) /\ Len(s) = (5 + k) + m
       /\ \A i \in 1..(5 + k) : s[i] = b[i]
       /\ m = 1 => s[6 + k] = "stage"
  <2>1. /\ s \in Seq(Steps) /\ Len(s) = (5 + k) + m
        /\ \A i \in 1..(5 + k) : s[i] = b[i]
        /\ \A i \in 1..m : s[(5 + k) + i] = more[i]
    <3>1. Joins(b, more, s)
      BY <1>6, <1>7c, <1>7d, Joined
    <3>2. QED
      BY <1>6, <1>7c, <3>1 DEF Joins
  <2>2. m = 1 => s[(5 + k) + 1] = "stage" /\ (5 + k) + 1 = 6 + k
    BY <1>5, <1>6, <2>1
  <2>3. QED
    BY <2>1, <2>2
<1>8. ASSUME NEW i \in 5..(4 + k)
      PROVE  s[i] \in Between
  <2>1. i - 4 \in 1..k /\ i \in 1..(4 + k) /\ i \in 1..(5 + k)
    BY <1>5
  <2>2. front[4 + (i - 4)] = middle[i - 4] /\ middle[i - 4] \in Between
    BY <1>5, <1>7a, <2>1
  <2>3. s[i] = front[i] /\ 4 + (i - 4) = i
    BY <1>7c, <1>7e, <2>1
  <2>4. QED
    BY <2>2, <2>3
<1>9. DOMAIN s = 1..(5 + k + m)
  BY <1>5, <1>7e
<1>10. s[5 + k] = b[5 + k] /\ \A i \in 1..4 : s[i] = b[i] /\ b[i] = four[i]
  <2>1. 5 + k \in 1..(5 + k) /\ \A i \in 1..4 : i \in 1..(4 + k) /\ i \in 1..(5 + k)
    BY <1>5
  <2>2. QED
    BY <1>7a, <1>7c, <1>7e, <2>1
<1>11. s[1] = four[1] /\ s[2] = four[2] /\ s[3] = four[3] /\ s[4] = four[4]
  <2>1. 1 \in 1..4 /\ 2 \in 1..4 /\ 3 \in 1..4 /\ 4 \in 1..4
    OBVIOUS
  <2>2. QED
    BY <1>10, <2>1, Zenon
<1>12. /\ s[1] = "suppress" /\ s[2] = "staged" /\ s[3] = "flush"
       /\ s[4] = "cancel" /\ s[5 + k] = "release"
  BY <1>3, <1>7c, <1>10, <1>11, Zenon
<1>13. IsBoundary(s, k, m)
  BY <1>5, <1>6, <1>7e, <1>8, <1>9, <1>12, Zenon DEF IsBoundary
<1>14. QED
  BY <1>13, Zenon

LEMMA BoundaryScript ==
  ASSUME NEW s, NEW k, NEW m, IsBoundary(s, k, m)
  PROVE  /\ InPlace(s) /\ Reopening(s) /\ s[1] = "suppress"
         /\ \A suppress, run : HeldOff(s, suppress, run)
         /\ "cancel" \in Range(s)
<1>8. /\ DOMAIN s = 1..(5 + k + m) /\ k \in Nat /\ m \in {0, 1}
      /\ s[1] = "suppress" /\ s[2] = "staged" /\ s[3] = "flush"
      /\ s[4] = "cancel" /\ s[5 + k] = "release"
      /\ m = 1 => s[6 + k] = "stage"
  BY DEF IsBoundary
<1>9. ASSUME NEW i \in DOMAIN s
      PROVE  \/ i \in 1..4
             \/ i \in 5..(4 + k) /\ s[i] \in Between
             \/ i = 5 + k
             \/ i = 6 + k /\ m = 1
  <2>1. i \in 5..(4 + k) => s[i] \in Between
    BY DEF IsBoundary
  <2>2. QED
    BY <1>8, <2>1
<1>10. /\ Between \subseteq Inner
       /\ \A x \in Between : x \notin Asking \cup {"await", "cancel", "shut",
                                                   "release"}
  BY DEF Between, Inner, Asking
<1>11. InPlace(s)
  <2>1. SUFFICES ASSUME NEW i \in DOMAIN s
                 PROVE  /\ s[i] \notin Asking \cup {"await", "shut"}
                        /\ s[i] = "cancel" => i = 4
    BY <1>8 DEF InPlace
  <2>2. CASE i \in 1..4
    <3>1. i = 1 \/ i = 2 \/ i = 3 \/ i = 4
      BY <2>2
    <3>2. QED
      BY <1>8, <3>1 DEF Asking
  <2>3. CASE i = 5 + k \/ (i = 6 + k /\ m = 1)
    <3>1. s[i] \in {"release", "stage"}
      BY <1>8, <2>3
    <3>2. QED
      BY <3>1 DEF Asking
  <2>4. QED
    BY <1>9, <1>10, <2>2, <2>3
<1>12. Reopening(s) /\ "cancel" \in Range(s)
  <2>1. 5 + k \in DOMAIN s /\ 4 \in DOMAIN s
    BY <1>8
  <2>2. QED
    BY <1>8, <2>1 DEF Reopening, Range
<1>13. InsideFrom(s, 2)
  <2>1. SUFFICES ASSUME NEW j \in DOMAIN s, s[j] = "release",
                        NEW i \in DOMAIN s
                 PROVE  /\ j > 2
                        /\ (2 < i /\ i < j) => s[i] \in Inner
                        /\ i > j => s[i] = "stage"
    BY InsideIntro
  <2>2. j = 5 + k
    <3>1. CASE j \in 1..4
      <4>1. j = 1 \/ j = 2 \/ j = 3 \/ j = 4
        BY <3>1
      <4>2. QED
        BY <1>8, <2>1, <4>1
    <3>2. QED
      BY <1>8, <1>9, <1>10, <2>1, <3>1
  <2>3. k \in Nat
    BY <1>8
  <2>4. (2 < i /\ i < j) => s[i] \in Inner
    <3>1. CASE i \in 1..4
      <4>1. i = 1 \/ i = 2 \/ i = 3 \/ i = 4
        BY <3>1
      <4>2. "flush" \in Inner /\ "cancel" \in Inner
        BY DEF Inner
      <4>3. QED
        BY <1>8, <4>1, <4>2
    <3>2. CASE i \in 5..(4 + k) /\ s[i] \in Between
      BY <1>10, <3>2
    <3>3. QED
      BY <1>9, <2>2, <2>3, <3>1, <3>2
  <2>5. i > j => s[i] = "stage"
    BY <1>8, <1>9, <2>2, <2>3
  <2>6. QED
    BY <2>2, <2>3, <2>4, <2>5
<1>14. QED
  BY <1>8, <1>11, <1>12, <1>13 DEF HeldOff

\* Steps decided on before a completion is known: the answer that goes first,
\* and what finishes the session.
Deciding == {"work", "finish", "finishNow"}
DecidesFirst(s) ==
  \A i \in DOMAIN s : s[i] \in Deciding =>
    \/ i = 1
    \/ i = 2 /\ s[1] \in {"held", "await"}
    \/ i = 3 /\ s[1] = "flush" /\ s[2] = "held"
HeldFirst(s) ==
  "held" \in Range(s) => s[1] = "held" \/ (s[1] = "flush" /\ s[2] = "held")
AdvancesSoon(s) ==
  \A i \in DOMAIN s : s[i] = "advanceIfStudying" =>
    \/ i = 1
    \/ i = 2 /\ s[1] \in {"flush", "held"}
    \/ i = 3 /\ s[1] = "retry" /\ s[2] = "flush"

Plain == Outer \ (Asking \cup {"await", "shut"})
PlainScript(s) == \A i \in DOMAIN s : s[i] \in Plain
StudyScript(s, held) ==
  /\ PlainScript(s) /\ DecidesFirst(s)
  /\ held => HeldFirst(s) /\ AdvancesSoon(s) /\ s[1] # "advanceIfStudying"
  /\ s # <<>> /\ s[1] \in {"flush", "held", "work"}
ShutScripts == {<<"flush", "stage", "shut">>, <<"flush", "stage", "shut", "reset">>}
RetryScript(s) ==
  /\ \A i \in DOMAIN s : s[i] \in {"retry", "flush", "advanceIfStudying",
                                   "stageIfCompleted", "closeIfStaged"}
  /\ AdvancesSoon(s) /\ "closeIfStaged" \in Range(s) /\ s # <<>>
  /\ s[1] = "retry"

LEMMA PlainInPlace ==
  ASSUME NEW s, PlainScript(s)
  PROVE  /\ InPlace(s) /\ ~Reopening(s)
         /\ \A suppress, run : HeldOff(s, suppress, run)
<1>1. \A x \in Plain : /\ x \notin Asking \cup {"await", "shut", "cancel",
                                                "release"}
                       /\ x \in Outer
  BY DEF Plain, Outer, Asking
<1>2. ~Reopening(s) /\ Range(s) \subseteq Outer
  BY <1>1 DEF PlainScript, Reopening, Range
<1>3. QED
  BY <1>1, <1>2 DEF PlainScript, InPlace, HeldOff

LEMMA ShutInPlace ==
  ASSUME NEW s \in ShutScripts
  PROVE  /\ InPlace(s) /\ ~Reopening(s) /\ "shut" \in Range(s)
         /\ \A suppress, run : HeldOff(s, suppress, run)
         /\ s # <<>> /\ s[1] = "flush" /\ s[2] = "stage"
         /\ Range(s) \cap Deciding = {} /\ "held" \notin Range(s)
         /\ DecidesFirst(s) /\ AdvancesSoon(s)
<1>1. PICK n \in {3, 4} :
        /\ DOMAIN s = 1..n /\ s[1] = "flush" /\ s[2] = "stage" /\ s[3] = "shut"
        /\ n = 4 => s[4] = "reset"
        /\ s # <<>>
  <2>1. CASE s = <<"flush", "stage", "shut">>
    BY <2>1
  <2>2. CASE s = <<"flush", "stage", "shut", "reset">>
    BY <2>2
  <2>3. QED
    BY <2>1, <2>2 DEF ShutScripts
<1>2. \A i \in DOMAIN s : /\ i = 1 \/ i = 2 \/ i = 3 \/ (i = 4 /\ n = 4)
                          /\ s[i] \in {"flush", "stage", "shut", "reset"}
                          /\ s[i] = "shut" => i = 3
  BY <1>1
<1>3. {"flush", "stage", "shut", "reset"} \subseteq Outer
  BY DEF Outer
<1>4. ~Reopening(s) /\ Range(s) \subseteq Outer /\ "held" \notin Range(s)
      /\ Range(s) \cap Deciding = {}
  BY <1>2, <1>3 DEF Reopening, Range, Deciding
<1>5. InPlace(s)
  BY <1>1, <1>2 DEF InPlace, Asking
<1>6. "shut" \in Range(s)
  BY <1>1 DEF Range
<1>7. DecidesFirst(s) /\ AdvancesSoon(s)
  BY <1>2 DEF DecidesFirst, AdvancesSoon, Deciding
<1>8. QED
  BY <1>1, <1>4, <1>5, <1>6, <1>7 DEF HeldOff

LEMMA RetryIsPlain ==
  ASSUME NEW s, RetryScript(s)
  PROVE  /\ PlainScript(s) /\ Range(s) \cap Deciding = {}
         /\ "held" \notin Range(s) /\ DecidesFirst(s)
<1>1. {"retry", "flush", "advanceIfStudying", "stageIfCompleted",
       "closeIfStaged"} \subseteq Plain
  BY DEF Plain, Outer, Asking
<1>2. \A x \in {"retry", "flush", "advanceIfStudying", "stageIfCompleted",
                "closeIfStaged"} : x \notin Deciding /\ x # "held"
  BY DEF Deciding
<1>3. QED
  BY <1>1, <1>2 DEF RetryScript, PlainScript, Range, DecidesFirst

\* An operation starts.
Starts(s) ==
  /\ ui.open /\ ~Working /\ op'.steps = s
  /\ UNCHANGED <<server, queue, failure, staging, calls, late, faults>>
  /\ ui'.phase = ui.phase /\ ui'.seq = ui.seq /\ ui'.comp = ui.comp
  /\ ui'.held = ui.held /\ ui'.suppress = ui.suppress
  /\ ui'.sawCancelled = ui.sawCancelled /\ ~ui'.error

LEMMA BeginStarts ==
  ASSUME ClientTypes, NEW s, Begin(s)
  PROVE  Starts(s)
BY DEF Begin, Starts, ClientTypes, Ops, Pages, net

LEMMA StudyStarts ==
  ASSUME ClientTypes, Study
  PROVE  \E s : Starts(s) /\ StudyScript(s, ui.held) /\ CanAct /\ Studying
<1>0. CanAct /\ Studying
  BY DEF Study
<1>1. {"flush", "held", "next", "work", "advanceIfStudying", "endIfOpen",
       "nextIfStudying", "finish", "finishNow"} \subseteq Plain
  BY DEF Plain, Outer, Asking
<1>2. SUFFICES ASSUME NEW s, Begin(s),
                      \/ ~ui.held /\ s = <<"flush", "held", "next">>
                      \/ s = <<IF ui.held THEN "held" ELSE "work">>
                      \/ s = <<IF ui.held THEN "held" ELSE "work",
                               "advanceIfStudying">>
                      \/ s = <<"flush", "held", "endIfOpen", "flush", "held",
                               "next">>
                      \/ s = <<"flush", "held", "endIfOpen", "nextIfStudying">>
                      \/ s = <<"flush", "held", "finish">>
                      \/ s = <<"flush", "held", "finishNow">>
               PROVE  StudyScript(s, ui.held)
  BY <1>0, BeginStarts DEF Study
<1> DEFINE first == IF ui.held THEN "held" ELSE "work"
<1>3. first \in {"held", "work"} /\ (ui.held => first = "held")
  OBVIOUS
<1> HIDE DEF first
<1>4. CASE ~ui.held /\ s = <<"flush", "held", "next">>
  BY <1>1, <1>4 DEF StudyScript, PlainScript, DecidesFirst, Deciding
<1>5. CASE s = <<first>>
  BY <1>1, <1>3, <1>5 DEF StudyScript, PlainScript, DecidesFirst, HeldFirst,
                          AdvancesSoon, Range
<1>6. CASE s = <<first, "advanceIfStudying">>
  BY <1>1, <1>3, <1>6 DEF StudyScript, PlainScript, DecidesFirst, Deciding,
                          HeldFirst, AdvancesSoon, Range
<1>7. CASE s = <<"flush", "held", "endIfOpen", "flush", "held", "next">>
  BY <1>1, <1>7 DEF StudyScript, PlainScript, DecidesFirst, Deciding,
                    HeldFirst, AdvancesSoon
<1>8. CASE s = <<"flush", "held", "endIfOpen", "nextIfStudying">>
  BY <1>1, <1>8 DEF StudyScript, PlainScript, DecidesFirst, Deciding,
                    HeldFirst, AdvancesSoon
<1>9. CASE s = <<"flush", "held", "finish">>
  BY <1>1, <1>9 DEF StudyScript, PlainScript, DecidesFirst, Deciding,
                    HeldFirst, AdvancesSoon
<1>10. CASE s = <<"flush", "held", "finishNow">>
  BY <1>1, <1>10 DEF StudyScript, PlainScript, DecidesFirst, Deciding,
                     HeldFirst, AdvancesSoon
<1>11. QED
  BY <1>2, <1>4, <1>5, <1>6, <1>7, <1>8, <1>9, <1>10 DEF first

\* A boundary without more staged behind it.
LEMMA NothingMore ==
  ASSUME NEW middle \in Seq(Between)
  PROVE  Boundary(middle) \o <<>> = Boundary(middle)
<1>1. Between \subseteq Steps
  BY DEF Between, Inner, Steps, Commanding
<1>2. middle \in Seq(Steps)
  BY <1>1
<1>3. PICK b \in Seq(Steps) : b = Boundary(middle)
  BY <1>2, BoundaryIsTyped
<1>4. b \o <<>> = b
  BY <1>3
<1>5. QED
  BY <1>3, <1>4

LEMMA ReviseStarts ==
  ASSUME ClientTypes, Revise
  PROVE  \E s : /\ Starts(s) /\ \E k, m : IsBoundary(s, k, m)
                /\ CanAct /\ (Studying \/ Summary)
<1>1. {"undo", "held", "resumeIfCompleted", "revisit", "next", "requeue",
       "finish", "finishNowIfFinishing"} \subseteq Between
  BY DEF Between, Inner, Asking
<1>2. PICK middle \in Seq(Between), more \in {<<>>, <<"stage">>} :
        Begin(Boundary(middle) \o more)
  <2>1. ASSUME NEW middle \in Seq(Between), Begin(Boundary(middle))
        PROVE  \E mid \in Seq(Between), more \in {<<>>, <<"stage">>} :
                 Begin(Boundary(mid) \o more)
    <3>1. Begin(Boundary(middle) \o <<>>)
      BY <2>1, NothingMore
    <3>2. <<>> \in {<<>>, <<"stage">>}
      OBVIOUS
    <3>3. QED
      BY <3>1, <3>2
  <2>2. /\ <<"undo">> \in Seq(Between)
        /\ <<"held", "resumeIfCompleted">> \in Seq(Between)
        /\ <<"held", "resumeIfCompleted", "revisit", "next">> \in Seq(Between)
        /\ <<"held", "requeue">> \in Seq(Between)
        /\ <<"held", "resumeIfCompleted", "revisit", "finish",
             "finishNowIfFinishing">> \in Seq(Between)
    BY <1>1
  <2>3. CASE Begin(Boundary(<<"undo">>))
    BY <2>1, <2>2, <2>3
  <2>4. CASE Begin(Boundary(<<"held", "resumeIfCompleted">>))
    BY <2>1, <2>2, <2>4
  <2>5. CASE Begin(Boundary(<<"held", "resumeIfCompleted", "revisit", "next">>))
    BY <2>1, <2>2, <2>5
  <2>6. CASE Begin(Boundary(<<"held", "requeue">>))
    BY <2>1, <2>2, <2>6
  <2>7. CASE Begin(Boundary(<<"held", "resumeIfCompleted", "revisit", "finish",
                              "finishNowIfFinishing">>) \o <<"stage">>)
    <3>1. <<"stage">> \in {<<>>, <<"stage">>}
      OBVIOUS
    <3>2. QED
      BY <2>2, <2>7, <3>1
  <2>8. QED
    BY <2>3, <2>4, <2>5, <2>6, <2>7 DEF Revise
<1>3. \E k, m : IsBoundary(Boundary(middle) \o more, k, m)
  BY BoundaryParts
<1>4. QED
  BY <1>2, <1>3, BeginStarts DEF Revise

LEMMA RetryStarts ==
  ASSUME ClientTypes, Retry
  PROVE  \E s : Starts(s) /\ RetryScript(s)
<1>1. PICK advance \in {<<>>, <<"advanceIfStudying">>} :
        Begin(<<"retry", "flush">> \o advance
              \o <<"stageIfCompleted", "closeIfStaged">>)
  BY DEF Retry
<1>2. PICK first, last, front, s :
        /\ first = <<"retry", "flush">>
        /\ last = <<"stageIfCompleted", "closeIfStaged">>
        /\ front = first \o advance /\ s = front \o last
  OBVIOUS
<1>3. PICK m \in {0, 1} :
        /\ advance \in Seq(Steps) /\ Len(advance) = m
        /\ m = 1 => advance[1] = "advanceIfStudying"
  <2>1. CASE advance = <<>>
    BY <2>1
  <2>2. CASE advance = <<"advanceIfStudying">>
    BY <2>2 DEF Steps
  <2>3. QED
    BY <2>1, <2>2
<1>4. /\ first \in Seq(Steps) /\ Len(first) = 2
      /\ first[1] = "retry" /\ first[2] = "flush"
  BY <1>2 DEF Steps
<1>5. /\ last \in Seq(Steps) /\ Len(last) = 2
      /\ last[1] = "stageIfCompleted" /\ last[2] = "closeIfStaged"
  BY <1>2 DEF Steps
<1>6. Joins(first, advance, front)
  BY <1>2, <1>3, <1>4, Joined
<1>7. /\ front \in Seq(Steps) /\ Len(front) = 2 + m
      /\ front[1] = "retry" /\ front[2] = "flush"
      /\ m = 1 => front[3] = "advanceIfStudying"
  <2>1. m = 1 => front[2 + 1] = advance[1]
    BY <1>3, <1>4, <1>6 DEF Joins
  <2>2. QED
    BY <1>3, <1>4, <1>6, <2>1 DEF Joins
<1>8. Joins(front, last, s)
  BY <1>2, <1>5, <1>7, Joined
<1>9. /\ DOMAIN s = 1..(4 + m) /\ s # <<>>
      /\ s[1] = "retry" /\ s[2] = "flush"
      /\ m = 1 => s[3] = "advanceIfStudying"
      /\ s[3 + m] = "stageIfCompleted" /\ s[4 + m] = "closeIfStaged"
  <2>1. s[(2 + m) + 1] = last[1] /\ s[(2 + m) + 2] = last[2]
    BY <1>5, <1>7, <1>8 DEF Joins
  <2>2. DOMAIN s = 1..(4 + m) /\ s # <<>>
    BY <1>5, <1>7, <1>8 DEF Joins
  <2>3. \A i \in 1..(2 + m) : s[i] = front[i]
    BY <1>7, <1>8 DEF Joins
  <2>4. QED
    BY <1>5, <1>7, <2>1, <2>2, <2>3
<1>10. RetryScript(s)
  <2>1. \A i \in DOMAIN s : \/ i = 1 \/ i = 2 \/ (i = 3 /\ m = 1)
                          \/ i = 3 + m \/ i = 4 + m
    BY <1>9
  <2>2. \A i \in DOMAIN s :
          s[i] \in {"retry", "flush", "advanceIfStudying",
                   "stageIfCompleted", "closeIfStaged"}
    BY <1>9, <2>1
  <2>3. AdvancesSoon(s)
    BY <1>9, <2>1 DEF AdvancesSoon
  <2>4. "closeIfStaged" \in Range(s)
    BY <1>9 DEF Range
  <2>5. QED
    BY <1>9, <2>2, <2>3, <2>4 DEF RetryScript
<1>11. Begin(s)
  BY <1>1, <1>2
<1>12. QED
  BY <1>10, <1>11, BeginStarts

\* What an operation starts with, and when.
Opening(s) ==
  \/ StudyScript(s, ui.held) /\ CanAct /\ Studying
  \/ (\E k, m : IsBoundary(s, k, m)) /\ CanAct /\ (Studying \/ Summary)
  \/ s \in ShutScripts /\ ui.comp # "none"
  \/ RetryScript(s)

LEMMA OperationStarts ==
  ASSUME ClientTypes, Study \/ Revise \/ Home \/ Retry \/ Deadline
  PROVE  \E s : Starts(s) /\ Opening(s)
<1>1. CASE Study
  BY <1>1, StudyStarts DEF Opening
<1>2. CASE Revise
  BY <1>2, ReviseStarts DEF Opening
<1>3. CASE Home
  BY <1>3, BeginStarts DEF Home, Opening, ShutScripts
<1>4. CASE Retry
  BY <1>4, RetryStarts DEF Opening
<1>5. CASE Deadline
  <2>1. Starts(<<"flush", "stage", "shut">>)
    BY <1>5 DEF Deadline, Starts, ClientTypes, Ops, Pages, net
  <2>2. QED
    BY <1>5, <2>1 DEF Deadline, Opening, ShutScripts
<1>6. QED
  BY <1>1, <1>2, <1>3, <1>4, <1>5

LEMMA OpeningInPlace ==
  ASSUME NEW s, Opening(s)
  PROVE  /\ InPlace(s) /\ \A suppress, run : HeldOff(s, suppress, run)
         /\ s[1] \in {"flush", "held", "work", "suppress", "retry"}
<1>1. CASE StudyScript(s, ui.held)
  BY <1>1, PlainInPlace DEF StudyScript
<1>2. CASE \E k, m : IsBoundary(s, k, m)
  BY <1>2, BoundaryScript
<1>3. CASE s \in ShutScripts
  BY <1>3, ShutInPlace
<1>4. CASE RetryScript(s)
  BY <1>4, RetryIsPlain, PlainInPlace DEF RetryScript
<1>5. QED
  BY <1>1, <1>2, <1>3, <1>4 DEF Opening

LEMMA StartsShape ==
  ASSUME ClientTypes, Shape, NEW s, Starts(s), Opening(s)
  PROVE  Shape'
<1>1. op'.steps = s /\ UNCHANGED <<staging, calls, failure, queue>> /\ ~Working
  BY DEF Starts
<1>2. StagingIsHeldOff' /\ StepsInPlace'
  BY <1>1, OpeningInPlace DEF StagingIsHeldOff, StepsInPlace
<1>3. /\ calls["op"].at = "none"
      /\ calls["stage"].at # "none" <=> staging = "sent"
  BY <1>1 DEF Shape, CallsAwaited
<1>4. op'.steps[1] \notin Asking
  BY <1>1, OpeningInPlace DEF Asking
<1>5. CallsAwaited'
  BY <1>1, <1>3, <1>4 DEF CallsAwaited
<1>6. StopsAtHead'
  BY <1>1 DEF Shape, StopsAtHead
<1>7. QED
  BY <1>2, <1>5, <1>6 DEF Shape

\* A step of the operation keeps the shape, if its call is where it should be.
LEMMA MovesShape ==
  ASSUME ClientTypes, Shape, NEW new, Moves(new),
         op.steps[1] = "suppress" => ui'.suppress,
         op.steps[1] \notin {"suppress", "release"} => ui'.suppress = ui.suppress,
         op.steps[1] = "staged" => staging = "idle",
         op.steps[1] # "stage" => staging' = staging,
         StopsAtHead', CallsAwaited'
  PROVE  Shape'
<1>1. Replaces(op.steps, new, op'.steps) /\ Rewrite(op.steps[1], new)
  BY DEF Moves
<1>2. HeldOff(op'.steps, ui'.suppress, staging')
  BY <1>1, StaysHeldOff DEF Shape, StagingIsHeldOff
<1>3. InPlace(op'.steps)
  BY <1>1, StaysInPlace DEF Shape, StepsInPlace
<1>4. QED
  BY <1>2, <1>3 DEF Shape, StagingIsHeldOff, StepsInPlace

LEMMA EndsShape ==
  ASSUME Ends, StopsAtHead', CallsAwaited'
  PROVE  Shape'
<1>1. op'.steps = <<>>
  BY DEF Ends
<1>2. HeldOff(op'.steps, ui'.suppress, staging') /\ InPlace(op'.steps)
  BY <1>1 DEF HeldOff, InPlace, Reopening, Range
<1>3. QED
  BY <1>2 DEF Shape, StagingIsHeldOff, StepsInPlace

\* A step that makes no call.
LEMMA QuietStep ==
  ASSUME ClientTypes, Shape, Working, op.steps[1] \notin Asking,
         UNCHANGED calls, (staging' = "sent") <=> (staging = "sent"),
         \/ Ends
         \/ \E new : Moves(new) /\ (Len(new) # 0 => new[1] \notin Asking)
  PROVE  CallsAwaited'
<1>1. /\ calls["op"].at = "none"
      /\ calls["stage"].at # "none" <=> staging = "sent"
  BY DEF Shape, CallsAwaited
<1>2. Working' => op'.steps[1] \notin Asking
  <2>1. CASE Ends
    BY <2>1 DEF Ends, Working
  <2>2. ASSUME NEW new, Moves(new), Len(new) # 0 => new[1] \notin Asking
        PROVE  Working' => op'.steps[1] \notin Asking
    BY <2>2, ComesTo DEF Shape
  <2>3. QED
    BY <2>1, <2>2
<1>3. QED
  BY <1>1, <1>2 DEF CallsAwaited

\* A step that asks the server.
LEMMA AskingStep ==
  ASSUME ClientTypes, Shape, NEW new \in {"cancelling", "recancelling",
           "fetching", "shutting", "reshutting"}, Moves(<<new>>),
         NEW req, Call("op", req), staging' = staging,
         req.call = IF new = "cancelling" THEN "cancel"
                    ELSE IF new = "shutting" THEN "close" ELSE "fetch"
  PROVE  CallsAwaited'
<1>1. /\ calls'["op"].at = "sent" /\ calls'["op"].req = req
      /\ calls'["stage"] = calls["stage"]
  <2>1. "op" \in Channels /\ "stage" \in Channels \ {"op"}
    BY DEF Channels
  <2>2. QED
    BY <2>1, Calls1 DEF ClientTypes
<1>2. op'.steps[1] = new /\ op'.steps # <<>>
  <2>1. PICK t \in Seq(Steps) : t = <<new>> /\ Len(t) = 1 /\ t[1] = new
    BY StepLiterals DEF Steps
  <2>2. Moves(t)
    BY <2>1
  <2>3. \A i \in DOMAIN op'.steps : i <= Len(t) => op'.steps[i] = t[i]
    BY <2>2, ComesTo DEF Shape
  <2>4. 1 \in DOMAIN op'.steps /\ op'.steps \in Seq(Steps)
    BY <2>1, <2>2 DEF Moves, Replaces
  <2>5. QED
    BY <2>1, <2>3, <2>4
<1>3. Head(op'.steps) = op'.steps[1]
  BY <1>2 DEF Moves, Replaces
<1>4. new \in Asking
  BY DEF Asking
<1>5. QED
  BY <1>1, <1>2, <1>3, <1>4 DEF CallsAwaited, Shape, At, Working

\* A step that has its answer goes on, or gives up.
LEMMA AnsweredStep ==
  ASSUME ClientTypes, Shape, Hang("op"), staging' = staging,
         Ends \/ Moves(<<>>)
  PROVE  CallsAwaited'
<1>1. calls'["op"].at = "none" /\ calls'["stage"] = calls["stage"]
  <2>1. "op" \in Channels /\ "stage" \in Channels \ {"op"}
    BY DEF Channels
  <2>2. QED
    BY <2>1, HangsUp DEF ClientTypes
<1>2. Working' => op'.steps[1] \notin Asking
  <2>1. CASE Ends
    BY <2>1 DEF Ends, Working
  <2>2. CASE Moves(<<>>)
    BY <2>2, ComesTo DEF Shape
  <2>3. QED
    BY <2>1, <2>2
<1>3. QED
  BY <1>1, <1>2 DEF CallsAwaited, Shape

LEMMA Throws ==
  ASSUME ClientTypes, NEW view \in Pages, Throw(view)
  PROVE  /\ Ends /\ ui'.error /\ ~ui'.suppress /\ ui'.comp = view.comp
         /\ ui'.phase = view.phase /\ ui'.seq = view.seq /\ ui'.held = view.held
         /\ ui'.open = view.open /\ ui'.sawCancelled = view.sawCancelled
         /\ ui'.rev = view.rev /\ ui'.fresh = view.fresh
BY DEF Throw, Ends, Pages, ClientTypes, Ops

\* A queue that stopped and is added to keeps its head.
LEMMA StopsAnyway ==
  ASSUME StopsAtHead, UNCHANGED failure, calls'["queue"] = calls["queue"],
         queue # <<>> => queue' # <<>>
  PROVE  StopsAtHead'
BY DEF StopsAtHead

LEMMA EnqueueAdds ==
  ASSUME ClientTypes, NEW kind, Enqueue(kind)
  PROVE  /\ queue' # <<>> /\ Len(queue') = Len(queue) + 1
         /\ DOMAIN queue' = DOMAIN queue \cup {Len(queue) + 1}
         /\ \A i \in DOMAIN queue : queue'[i] = queue[i]
         /\ queue'[Len(queue) + 1] = Entry(issued + 1, kind)
BY DEF Enqueue, ClientTypes

LEMMA FlushShape ==
  ASSUME ClientTypes, Shape, Flush \/ Await \/ Held \/ SendStep
  PROVE  Shape'
<1>0. Working /\ op.steps[1] \in {"flush", "await", "held"} \cup Commanding
  BY HeadIsFirst DEF Flush, Await, Held, SendStep, At
<1>1. op.steps[1] \notin Asking \cup {"stage", "staged", "suppress", "release"}
  BY <1>0 DEF Asking, Commanding
<1>2. UNCHANGED <<staging, failure, calls>>
  BY DEF Flush, Await, Held, SendStep, net
<1>3. queue # <<>> => queue' # <<>>
  <2>1. ASSUME NEW kind, Issue(kind) PROVE queue' # <<>>
    BY <2>1, EnqueueAdds DEF Issue
  <2>2. QED
    BY <2>1 DEF Flush, Await, Held, SendStep
<1>4. StopsAtHead'
  BY <1>2, <1>3, StopsAnyway DEF Shape
<1>5. \/ Throw(ui)
      \/ Continue /\ ui'.suppress = ui.suppress
      \/ (\E kind : Issue(kind)) /\ ui'.suppress = ui.suppress
         /\ op.steps[1] \in Commanding \cup {"held"}
  <2>1. ui \in Pages
    BY DEF ClientTypes
  <2>2. QED
    BY <1>0, <2>1, HeadIsFirst DEF Flush, Await, Held, SendStep, Pages, At
<1>6. CASE Throw(ui)
  <2>1. Ends
    BY <1>6 DEF Throw, Ends, ClientTypes, Ops
  <2>2. CallsAwaited'
    BY <1>0, <1>1, <1>2, <2>1, QuietStep
  <2>3. QED
    BY <1>4, <2>1, <2>2, EndsShape
<1>7. CASE Continue /\ ui'.suppress = ui.suppress
  <2>1. Moves(<<>>)
    BY <1>0, <1>1, <1>7, Continues
  <2>2. CallsAwaited'
    BY <1>0, <1>1, <1>2, <2>1, QuietStep
  <2>3. QED
    BY <1>1, <1>2, <1>4, <1>7, <2>1, <2>2, MovesShape
<1>8. CASE (\E kind : Issue(kind)) /\ ui'.suppress = ui.suppress
           /\ op.steps[1] \in Commanding \cup {"held"}
  <2>1. Moves(<<"await">>)
    BY <1>0, <1>8, Issues
  <2>2. "await" \notin Asking
    BY DEF Asking
  <2>3. CallsAwaited'
    BY <1>0, <1>1, <1>2, <2>1, <2>2, QuietStep
  <2>4. QED
    BY <1>1, <1>2, <1>4, <1>8, <2>1, <2>3, MovesShape
<1>9. QED
  BY <1>5, <1>6, <1>7, <1>8

LEMMA LocalShape ==
  ASSUME ClientTypes, Shape, Local
  PROVE  Shape'
<1>0. /\ Working
      /\ op.steps[1] \in {"advanceIfStudying", "requeue", "suppress", "release",
                          "retry", "stageIfCompleted", "closeIfStaged", "reset"}
  BY HeadIsFirst DEF Local, At
<1>1. op.steps[1] \notin Asking \cup {"stage", "staged"}
  BY <1>0 DEF Asking
<1>2. UNCHANGED <<staging, queue, calls>> /\ failure' \in {failure, "none"}
  BY DEF Local, net
<1>3. StopsAtHead'
  BY <1>2 DEF Shape, StopsAtHead
<1>4. ASSUME NEW new, Rewrite(op.steps[1], new), Become(new),
             Len(new) # 0 => new[1] \notin Asking,
             op.steps[1] = "suppress" => ui'.suppress,
             op.steps[1] \notin {"suppress", "release"} =>
               ui'.suppress = ui.suppress
      PROVE  Shape'
  <2>1. Moves(new)
    BY <1>0, <1>4, Becomes
  <2>2. CallsAwaited'
    BY <1>0, <1>1, <1>2, <1>4, <2>1, QuietStep
  <2>3. QED
    BY <1>1, <1>2, <1>3, <1>4, <2>1, <2>2, MovesShape
<1>5. \A step : At(step) => op.steps[1] = step
  BY HeadIsFirst
<1>6. ui \in Pages
  BY DEF ClientTypes
<1>7. CASE /\ Continue
           /\ op.steps[1] = "suppress" => ui'.suppress
           /\ op.steps[1] \notin {"suppress", "release"} =>
                ui'.suppress = ui.suppress
  BY <1>1, <1>4, <1>7 DEF Continue, Rewrite
<1>8. CASE At("advanceIfStudying") /\ UNCHANGED ui
           /\ Become(<<"flush", "held", "next">>)
  <2>1. PICK new : new = <<"flush", "held", "next">>
    OBVIOUS
  <2>2. new[1] \notin Asking
    BY <2>1 DEF Asking
  <2>3. QED
    BY <1>4, <1>5, <1>8, <2>1, <2>2 DEF Rewrite
<1>9. CASE At("requeue") /\ UNCHANGED ui
           /\ \/ Become(<<"revisit">>)
              \/ Become(<<"resumeIfCompleted", "revisit", "flush", "held",
                          "next">>)
  <2>1. PICK new : /\ Become(new)
                   /\ \/ new = <<"revisit">>
                      \/ new = <<"resumeIfCompleted", "revisit", "flush",
                                 "held", "next">>
    BY <1>9
  <2>2. new[1] \notin Asking
    BY <2>1 DEF Asking
  <2>3. QED
    BY <1>4, <1>5, <1>9, <2>1, <2>2 DEF Rewrite
<1>10. CASE At("stageIfCompleted") /\ UNCHANGED ui /\ Become(<<"stage">>)
  <2>1. PICK new : new = <<"stage">>
    OBVIOUS
  <2>2. new[1] \notin Asking
    BY <2>1 DEF Asking
  <2>3. QED
    BY <1>4, <1>5, <1>10, <2>1, <2>2 DEF Rewrite
<1>11. CASE At("closeIfStaged") /\ UNCHANGED ui
            /\ Become(<<"flush", "stage", "shut">>)
  <2>1. PICK new : new = <<"flush", "stage", "shut">>
    OBVIOUS
  <2>2. new[1] \notin Asking
    BY <2>1 DEF Asking
  <2>3. QED
    BY <1>4, <1>5, <1>11, <2>1, <2>2 DEF Rewrite
<1>12. CASE Throw(ui)
  <2>1. Ends
    BY <1>12 DEF Throw, Ends, ClientTypes, Ops
  <2>2. CallsAwaited'
    BY <1>0, <1>1, <1>2, <2>1, QuietStep
  <2>3. QED
    BY <1>3, <2>1, <2>2, EndsShape
<1>13. CASE At("suppress") \/ At("release") \/ At("retry")
  <2>1. /\ Continue
        /\ At("suppress") => ui' = [ui EXCEPT !.suppress = TRUE]
        /\ At("retry") => UNCHANGED ui
    BY <1>5, <1>13 DEF Local
  <2>2. op.steps[1] = "suppress" => ui'.suppress
    BY <1>5, <1>6, <1>13, <2>1 DEF Pages
  <2>3. op.steps[1] \notin {"suppress", "release"} => ui'.suppress = ui.suppress
    BY <1>5, <1>13, <2>1
  <2>4. QED
    BY <1>7, <2>1, <2>2, <2>3
<1>14. CASE At("reset")
  <2>1. Throw(ui) \/ (Continue /\ ui' = [ui EXCEPT !.open = FALSE])
    BY <1>5, <1>14 DEF Local
  <2>2. CASE Continue /\ ui' = [ui EXCEPT !.open = FALSE]
    BY <1>5, <1>6, <1>7, <1>14, <2>2 DEF Pages
  <2>3. QED
    BY <1>12, <2>1, <2>2
<1>15. CASE At("advanceIfStudying") \/ At("requeue")
            \/ At("stageIfCompleted") \/ At("closeIfStaged")
  <2>1. UNCHANGED ui
    BY <1>5, <1>15 DEF Local
  <2>2. CASE Become(<<>>) /\ ~At("requeue")
    BY <1>5, <1>7, <1>15, <2>1, <2>2 DEF Continue
  <2>3. QED
    BY <1>5, <1>8, <1>9, <1>10, <1>11, <1>15, <2>1, <2>2 DEF Local
<1>16. QED
  BY <1>5, <1>13, <1>14, <1>15 DEF Local

LEMMA SeenKeeps ==
  ASSUME ClientTypes, NEW got \in Snapshots
  PROVE  /\ Seen(got) \in Pages /\ SeenCompletion(got) \in Pages
         /\ Seen(got).suppress = ui.suppress
         /\ Seen(got).phase = got.phase /\ Seen(got).seq = got.seq
         /\ Seen(got).comp = IF got.comp = "cancelled" THEN "none" ELSE got.comp
         /\ Seen(got).rev = got.rev /\ Seen(got).held = ui.held
         /\ Seen(got).error = ui.error /\ Seen(got).open = ui.open
         /\ Seen(got).sawCancelled = FALSE
         /\ SeenCompletion(got).suppress = ui.suppress
         /\ SeenCompletion(got).phase = ui.phase
         /\ SeenCompletion(got).seq = ui.seq
         /\ SeenCompletion(got).comp = got.comp
         /\ SeenCompletion(got).rev = got.rev
         /\ SeenCompletion(got).held = ui.held
         /\ SeenCompletion(got).error = ui.error
         /\ SeenCompletion(got).open = ui.open
         /\ SeenCompletion(got).sawCancelled =
              (ui.sawCancelled \/ got.comp = "cancelled")
<1>1. ui \in Pages
  BY DEF ClientTypes
<1>2. Seen(got) \in Pages /\ SeenCompletion(got) \in Pages
  BY <1>1, SeenIsTyped
<1>3. QED
  BY <1>1, <1>2 DEF Seen, SeenCompletion, Pages

LEMMA AskShape ==
  ASSUME ClientTypes, Shape, NEW step,
         NEW request \in {"cancel", "close", "fetch"},
         NEW new \in {"cancelling", "recancelling", "fetching", "shutting",
                      "reshutting"},
         Rewrite(step, <<new>>), Ask(step, request, new),
         request = IF new = "cancelling" THEN "cancel"
                   ELSE IF new = "shutting" THEN "close" ELSE "fetch",
         step \notin {"suppress", "staged", "stage"},
         UNCHANGED <<queue, failure, staging>>
  PROVE  Shape' /\ Moves(<<new>>) /\ op.steps[1] = step
<1>1. Working /\ op.steps[1] = step
  BY HeadIsFirst DEF Ask, At
<1>2. Moves(<<new>>)
  BY <1>1, Becomes DEF Ask
<1>3. Call("op", [call |-> request, rev |-> ui.rev])
  BY DEF Ask
<1>4. CallsAwaited'
  BY <1>2, <1>3, AskingStep
<1>5. calls'["queue"] = calls["queue"]
  <2>1. "op" \in Channels /\ "queue" \in Channels \ {"op"}
    BY DEF Channels
  <2>2. QED
    BY <1>3, <2>1, Calls1 DEF ClientTypes
<1>6. StopsAtHead'
  BY <1>5, StopsAnyway DEF Shape
<1>7. UNCHANGED ui
  BY DEF Ask
<1>8. QED
  BY <1>1, <1>2, <1>4, <1>6, <1>7, MovesShape

\* The study is read again once its completion is cancelled.
LEMMA RereadShape ==
  ASSUME ClientTypes, Shape, At("cancelling") \/ At("recancelling"),
         Call("op", [call |-> "fetch"]), Become(<<"fetching">>),
         ui'.suppress = ui.suppress, UNCHANGED <<queue, failure, staging>>
  PROVE  Shape' /\ Moves(<<"fetching">>)
<1>1. Working /\ op.steps[1] \in {"cancelling", "recancelling"}
  BY HeadIsFirst DEF At
<1>2. Moves(<<"fetching">>)
  BY <1>1, Becomes DEF Rewrite
<1>3. CallsAwaited'
  <2>1. [call |-> "fetch"].call = "fetch"
    OBVIOUS
  <2>2. QED
    BY <1>2, <2>1, AskingStep
<1>4. calls'["queue"] = calls["queue"]
  <2>1. "op" \in Channels /\ "queue" \in Channels \ {"op"}
    BY DEF Channels
  <2>2. QED
    BY <2>1, Calls1 DEF ClientTypes
<1>5. StopsAtHead'
  BY <1>4, StopsAnyway DEF Shape
<1>6. QED
  BY <1>1, <1>2, <1>3, <1>5, MovesShape

\* The operation goes on with its answer, or gives up.
LEMMA HangShape ==
  ASSUME ClientTypes, Shape, Working, op.steps[1] \in Asking, Hang("op"),
         UNCHANGED <<queue, failure, staging>>,
         \/ Ends
         \/ Continue /\ ui'.suppress = ui.suppress
  PROVE  Shape'
<1>1. op.steps[1] \notin {"suppress", "release", "stage", "staged"}
  BY DEF Asking
<1>2. Ends \/ (Moves(<<>>) /\ ui'.suppress = ui.suppress)
  BY <1>1, Continues
<1>3. CallsAwaited'
  BY <1>2, AnsweredStep
<1>4. calls'["queue"] = calls["queue"]
  <2>1. "op" \in Channels /\ "queue" \in Channels \ {"op"}
    BY DEF Channels
  <2>2. QED
    BY <2>1, HangsUp DEF ClientTypes
<1>5. StopsAtHead'
  BY <1>4, StopsAnyway DEF Shape
<1>6. QED
  BY <1>1, <1>2, <1>3, <1>5, EndsShape, MovesShape

LEMMA CancelShape ==
  ASSUME ClientTypes, Shape, CancelStep
  PROVE  Shape'
<1>0. /\ UNCHANGED <<queue, failure, staging>> /\ "op" \in Channels
      /\ ui \in Pages /\ CallsTyped
  BY DEF CancelStep, Channels, ClientTypes
<1>1. CASE At("cancel") /\ ~Standing /\ Continue /\ UNCHANGED <<ui, calls>>
  <2>1. Working /\ op.steps[1] = "cancel"
    BY <1>1, HeadIsFirst DEF At
  <2>2. Moves(<<>>)
    BY <1>1, <2>1, Continues
  <2>3. CallsAwaited'
    BY <1>0, <1>1, <2>1, <2>2, QuietStep DEF Asking
  <2>4. StopsAtHead'
    BY <1>0, <1>1 DEF Shape, StopsAtHead
  <2>5. QED
    BY <1>0, <1>1, <2>1, <2>2, <2>3, <2>4, MovesShape
<1>2. CASE Standing /\ Ask("cancel", "cancel", "cancelling")
  BY <1>0, <1>2, AskShape DEF Rewrite
<1>3. CASE /\ Answered("op") /\ At("cancelling")
           /\ Call("op", [call |-> "fetch"]) /\ Become(<<"fetching">>)
           /\ ui' = [ui EXCEPT !.comp = "none", !.fresh = TRUE]
  BY <1>0, <1>3, RereadShape DEF Pages
<1>4. CASE Failed("op") /\ Ask("cancelling", "fetch", "recancelling")
  BY <1>0, <1>4, AskShape DEF Rewrite
<1>5. CASE /\ At("recancelling") /\ Answered("op")
           /\ Call("op", [call |-> "fetch"]) /\ Become(<<"fetching">>)
           /\ ui' = [ui EXCEPT !.comp = "none", !.fresh = TRUE]
  BY <1>0, <1>5, RereadShape DEF Pages
<1>6. CASE /\ At("recancelling") /\ Answered("op")
           /\ Throw(SeenCompletion(calls["op"].got)) /\ Hang("op")
  <2>1. Ends /\ Working /\ op.steps[1] \in Asking
    BY <1>0, <1>6, HeadIsFirst DEF Throw, Ends, ClientTypes, Ops, Asking, At
  <2>2. QED
    BY <1>0, <1>6, <2>1, HangShape
<1>7. CASE /\ Answered("op") /\ At("fetching") /\ Continue /\ Hang("op")
           /\ ui' = Seen(calls["op"].got)
  <2>1. Working /\ op.steps[1] \in Asking
    BY <1>7, HeadIsFirst DEF Asking, At
  <2>2. ui'.suppress = ui.suppress
    BY <1>0, <1>7, GotIsTyped, SeenKeeps DEF Answered
  <2>3. QED
    BY <1>0, <1>7, <2>1, <2>2, HangShape
<1>8. CASE /\ Failed("op") /\ (At("fetching") \/ At("recancelling"))
           /\ Throw(ui) /\ Hang("op")
  <2>1. Ends /\ Working /\ op.steps[1] \in Asking
    BY <1>0, <1>8, HeadIsFirst DEF Throw, Ends, ClientTypes, Ops, Asking, At
  <2>2. QED
    BY <1>0, <1>8, <2>1, HangShape
<1>9. QED
  BY <1>1, <1>2, <1>3, <1>4, <1>5, <1>6, <1>7, <1>8 DEF CancelStep

LEMMA ShutShape ==
  ASSUME ClientTypes, Shape, ShutStep
  PROVE  Shape'
<1>0. /\ UNCHANGED <<queue, failure, staging>> /\ "op" \in Channels
      /\ ui \in Pages /\ CallsTyped
  BY DEF ShutStep, Channels, ClientTypes
<1>1. CASE /\ At("shut") /\ UNCHANGED calls
           /\ Throw(ui) \/ (Continue /\ UNCHANGED ui)
  <2>1. Working /\ op.steps[1] = "shut"
    BY <1>1, HeadIsFirst DEF At
  <2>2. Ends \/ (Moves(<<>>) /\ UNCHANGED ui)
    BY <1>1, <2>1, Continues DEF Throw, Ends, ClientTypes, Ops
  <2>3. CallsAwaited'
    BY <1>0, <1>1, <2>1, <2>2, QuietStep DEF Asking
  <2>4. StopsAtHead'
    BY <1>0, <1>1 DEF Shape, StopsAtHead
  <2>5. QED
    BY <1>0, <2>1, <2>2, <2>3, <2>4, MovesShape, EndsShape
<1>2. CASE Ask("shut", "close", "shutting")
  BY <1>0, <1>2, AskShape DEF Rewrite
<1>3. CASE Ask("shutting", "fetch", "reshutting")
  BY <1>0, <1>3, AskShape DEF Rewrite
<1>4. CASE /\ Answered("op") /\ (At("shutting") \/ At("reshutting"))
           /\ Hang("op")
           /\ \/ Continue /\ ui' = SeenCompletion(calls["op"].got)
              \/ Throw(SeenCompletion(calls["op"].got))
  <2>1. Working /\ op.steps[1] \in Asking
    BY <1>4, HeadIsFirst DEF Asking, At
  <2>2. Ends \/ (Continue /\ ui'.suppress = ui.suppress)
    <3>1. calls["op"].got \in Snapshots
      BY <1>0, <1>4, GotIsTyped DEF Answered
    <3>2. SeenCompletion(calls["op"].got).suppress = ui.suppress
      BY <3>1, SeenKeeps
    <3>3. op \in Ops
      BY DEF ClientTypes
    <3>4. QED
      BY <1>4, <3>2, <3>3 DEF Throw, Ends, Ops
  <2>3. QED
    BY <1>0, <1>4, <2>1, <2>2, HangShape
<1>5. CASE Failed("op") /\ At("reshutting") /\ Throw(ui) /\ Hang("op")
  <2>1. Ends /\ Working /\ op.steps[1] \in Asking
    BY <1>0, <1>5, HeadIsFirst DEF Throw, Ends, ClientTypes, Ops, Asking, At
  <2>2. QED
    BY <1>0, <1>5, <2>1, HangShape
<1>6. QED
  BY <1>1, <1>2, <1>3, <1>4, <1>5 DEF ShutStep

LEMMA StageStepShape ==
  ASSUME ClientTypes, Shape, StageStep
  PROVE  Shape'
<1>0. UNCHANGED <<queue, failure, calls, ui>>
  BY DEF StageStep, net
<1>1. StopsAtHead'
  BY <1>0 DEF Shape, StopsAtHead
<1>2. CASE /\ At("stage") /\ Become(<<"staged">>)
           /\ staging' = IF staging = "idle" THEN "flush" ELSE staging
  <2>1. Working /\ op.steps[1] = "stage"
    BY <1>2, HeadIsFirst DEF At
  <2>2. Moves(<<"staged">>)
    BY <1>2, <2>1, Becomes DEF Rewrite
  <2>3. "staged" \notin Asking /\ "stage" \notin Asking
    BY DEF Asking
  <2>4. CallsAwaited'
    BY <1>0, <1>2, <2>1, <2>2, <2>3, QuietStep
  <2>5. QED
    BY <1>0, <1>1, <2>1, <2>2, <2>4, MovesShape
<1>3. CASE At("staged") /\ staging = "idle" /\ Continue /\ UNCHANGED staging
  <2>1. Working /\ op.steps[1] = "staged"
    BY <1>3, HeadIsFirst DEF At
  <2>2. Moves(<<>>)
    BY <1>3, <2>1, Continues
  <2>3. CallsAwaited'
    BY <1>0, <1>3, <2>1, <2>2, QuietStep DEF Asking
  <2>4. QED
    BY <1>0, <1>1, <1>3, <2>1, <2>2, <2>3, MovesShape
<1>4. QED
  BY <1>2, <1>3 DEF StageStep

\* The staging run goes on where none was under way held nothing off.
LEMMA StagingShape ==
  ASSUME ClientTypes, Shape, StageSends \/ StageEnds \/ StageSucceeds
  PROVE  Shape'
<1>0. /\ UNCHANGED <<queue, failure>> /\ staging # "idle"
      /\ {"op", "queue"} \subseteq Channels \ {"stage"} /\ "stage" \in Channels
      /\ ui \in Pages /\ CallsTyped
  BY DEF StageSends, StageEnds, StageSucceeds, ClientTypes, Channels
<1>1. /\ calls'["op"] = calls["op"] /\ calls'["queue"] = calls["queue"]
      /\ calls'["stage"].at # "none" <=> staging' = "sent"
  <2>1. CASE UNCHANGED calls /\ staging = "flush" /\ staging' = "idle"
    BY <2>1 DEF Shape, CallsAwaited
  <2>2. CASE staging' = "idle" /\ Hang("stage")
    BY <1>0, <2>2, HangsUp
  <2>3. ASSUME NEW req, Call("stage", req), staging' = "sent"
        PROVE  /\ calls'["op"] = calls["op"] /\ calls'["queue"] = calls["queue"]
               /\ calls'["stage"].at # "none" <=> staging' = "sent"
    BY <1>0, <2>3, Calls1
  <2>4. QED
    BY <2>1, <2>2, <2>3 DEF StageSends, StageEnds, StageSucceeds
<1>2. StopsAtHead'
  BY <1>0, <1>1, StopsAnyway DEF Shape
<1>3. CASE Throw(ui) /\ At("staged")
  <2>1. Ends
    BY <1>3 DEF Throw, Ends, ClientTypes, Ops
  <2>2. Working /\ op.steps[1] = "staged"
    BY <1>3, HeadIsFirst DEF At
  <2>3. calls["op"].at = "none"
    BY <2>2 DEF Shape, CallsAwaited, Asking
  <2>4. CallsAwaited'
    BY <1>1, <2>1, <2>3 DEF Ends, CallsAwaited, Working
  <2>5. QED
    BY <1>2, <2>1, <2>4, EndsShape
<1>4. CASE UNCHANGED op /\ ui'.suppress = ui.suppress
  <2>1. StagingIsHeldOff' /\ StepsInPlace'
    BY <1>0, <1>4 DEF Shape, StagingIsHeldOff, HeldOff, StepsInPlace
  <2>2. CallsAwaited'
    BY <1>1, <1>4 DEF Shape, CallsAwaited, At, Working
  <2>3. QED
    BY <1>2, <2>1, <2>2 DEF Shape
<1>5. QED
  <2>1. StageSucceeds => ui'.suppress = ui.suppress
    <3>1. SUFFICES ASSUME StageSucceeds PROVE ui'.suppress = ui.suppress
      OBVIOUS
    <3>2. /\ calls["stage"].at = "answered"
          /\ ui' = SeenCompletion(calls["stage"].got)
      BY <3>1 DEF StageSucceeds, Answered
    <3>3. calls["stage"].got \in Snapshots
      BY <1>0, <3>2, GotIsTyped DEF Channels
    <3>4. SeenCompletion(calls["stage"].got).suppress = ui.suppress
      BY <3>3, SeenKeeps
    <3>5. QED
      BY <3>2, <3>4
  <2>2. StageEnds => \/ Throw(ui) /\ At("staged")
                     \/ UNCHANGED op /\ ui'.suppress = ui.suppress
    <3>1. CASE At("staged")
      BY <3>1 DEF StageEnds
    <3>2. CASE ~At("staged")
      <4>1. StageEnds => ui' = [ui EXCEPT !.error = TRUE] /\ UNCHANGED op
        BY <3>2 DEF StageEnds
      <4>2. ui' = [ui EXCEPT !.error = TRUE] => ui'.suppress = ui.suppress
        BY <1>0 DEF Pages
      <4>3. QED
        BY <4>1, <4>2
    <3>3. QED
      BY <3>1, <3>2
  <2>3. QED
    BY <1>3, <1>4, <2>1, <2>2 DEF StageSends, StageSucceeds

LEMMA PageShape ==
  ASSUME ClientTypes, Shape,
         Leave \/ Look \/ LookSeen \/ Hold \/ Discard \/ React
  PROVE  Shape'
<1>0. /\ UNCHANGED <<failure, op, staging>> /\ ui \in Pages /\ CallsTyped
      /\ {"op", "queue", "stage"} \subseteq Channels \ {"look"}
      /\ "look" \in Channels
  BY DEF Leave, Look, LookSeen, Hold, Discard, React, page, ClientTypes,
         Channels
<1>1. \A ch \in Channels \ {"look"} : calls'[ch] = calls[ch]
  <2>1. CASE UNCHANGED calls
    BY <2>1
  <2>2. CASE Hang("look")
    BY <1>0, <2>2, HangsUp
  <2>3. ASSUME NEW req, Call("look", req)
        PROVE  \A ch \in Channels \ {"look"} : calls'[ch] = calls[ch]
    BY <1>0, <2>3, Calls1
  <2>4. QED
    BY <2>1, <2>2, <2>3 DEF Leave, Look, LookSeen, Hold, Discard, React, net
<1>2. ui'.suppress = ui.suppress
  <2>1. LookSeen => ui'.suppress = ui.suppress
    <3>1. calls["look"].at = "answered" =>
            SeenCompletion(calls["look"].got).suppress = ui.suppress
      BY <1>0, GotIsTyped, SeenKeeps
    <3>2. QED
      BY <3>1 DEF LookSeen, Answered
  <2>2. QED
    BY <1>0, <2>1 DEF Leave, Look, Hold, Discard, React, page, Pages
<1>3. queue # <<>> => queue' # <<>>
  <2>1. React => queue' # <<>>
    BY EnqueueAdds DEF React
  <2>2. QED
    BY <2>1 DEF Leave, Look, LookSeen, Hold, Discard, page
<1>4. StopsAtHead'
  BY <1>0, <1>1, <1>3, StopsAnyway DEF Shape
<1>5. QED
  BY <1>0, <1>1, <1>2, <1>4, ShapeFrame

LEMMA ReloadShape ==
  ASSUME ClientTypes, Reload
  PROVE  Shape'
<1>1. Ends /\ failure' = "none" /\ staging' = "idle"
  BY DEF Reload, Ends, ClientTypes, Ops
<1>2. \A ch \in Channels : calls'[ch].at = "none"
  BY DEF Reload, ClientTypes, CallsTyped, NoCall
<1>3. CallsAwaited'
  BY <1>1, <1>2 DEF Ends, CallsAwaited, Channels, Working
<1>4. StopsAtHead'
  BY <1>1 DEF StopsAtHead
<1>5. QED
  BY <1>1, <1>3, <1>4, EndsShape

LEMMA ShapeStep ==
  ASSUME ClientInv, Shape, [Next]_vars
  PROVE  Shape'
<1>0. ClientTypes
  BY DEF ClientInv
<1>1. CASE UNCHANGED vars
  BY <1>1 DEF vars, page, net, Shape, StopsAtHead, StagingIsHeldOff,
              StepsInPlace, CallsAwaited, At, Working
<1>2. CASE OpStep \/ StagingStep
  BY <1>0, <1>2, FlushShape, LocalShape, CancelShape, ShutShape,
     StageStepShape, StagingShape DEF OpStep, StagingStep
<1>3. CASE Waiting /\ (Study \/ Revise \/ Home \/ Retry \/ Deadline)
  BY <1>0, <1>3, OperationStarts, StartsShape
<1>4. QED
  BY <1>0, <1>1, <1>2, <1>3, ServeShape, LoseShape, ServerShape, QueueShape,
     AutoStageShape, PageShape, ReloadShape DEF Next, Learner

-----------------------------------------------------------------------------
(* What the page may know of the server.                                   *)

\* An answer is of some beginning of the log, which gives the phase.
KnownTo(sv, got) ==
  /\ got.seq <= Len(sv.log)
  /\ got.seq = Len(sv.log) => got.phase = sv.phase
\* A completion, once there is one, stays; and a closed one stays closed.
OlderThan(sv, comp) ==
  /\ comp # "none" => sv.comp # "none"
  /\ comp = "closed" => sv.comp = "closed"
\* The answers that replace what the page has of the study.
Whole(ch) == /\ calls[ch].at = "answered"
             /\ ch = "queue" \/ (ch = "op" /\ At("fetching"))

\* What is staged is a completed session, which takes no commands.
Grounded ==
  /\ Unstaged <=> server.status = "active"
  /\ ~Unstaged => server.phase = "completed"

AnswersAreKnown ==
  /\ Grounded
  /\ KnownTo(server, ui) /\ OlderThan(server, ui.comp)
  /\ \A ch \in Channels : calls[ch].at = "answered" =>
       KnownTo(server, calls[ch].got) /\ OlderThan(server, calls[ch].got.comp)
  /\ calls["look"].at # "none" => server.comp # "none"
  /\ calls["look"].at = "answered" => calls["look"].got.comp # "none"

\* Once a completion is staged the log stands still, and the page has it all.
PageIsCurrent ==
  ~Unstaged => /\ ui.seq = Len(server.log)
               /\ \A ch \in Channels :
                    Whole(ch) => calls[ch].got.seq = Len(server.log)
\* An answer of the study read whole shows no completion taken back since.
AnswersAreCurrent ==
  Unstaged => \A ch \in Channels :
                Whole(ch) => calls[ch].got.comp \in {"none", "cancelled"}

\* A request to stage still under way, which nothing logged since made stale.
Sending == calls["stage"].at = "sent"
Live == Sending /\ calls["stage"].req.seq = Len(server.log)

StagingIsCurrent ==
  /\ calls["stage"].at = "answered" =>
       ~Unstaged /\ calls["stage"].got.comp \notin {"none", "cancelled"}
  /\ Sending =>
       /\ calls["stage"].req.seq <= Len(server.log)
       /\ ui.seq >= calls["stage"].req.seq
       /\ \A ch \in Channels :
            Whole(ch) => calls[ch].got.seq >= calls["stage"].req.seq
  /\ Live => server.phase = "completed"
  /\ (Live /\ Unstaged) => ui.comp = "none"

Answers ==
  AnswersAreKnown /\ PageIsCurrent /\ AnswersAreCurrent /\ StagingIsCurrent

\* What the server may do at once.
Logs ==
  /\ server.status = "active" /\ Len(server'.log) = Len(server.log) + 1
  /\ server'.status = server.status /\ server'.comp = server.comp
StandsStill == server'.log = server.log /\ server'.phase = server.phase
Stages ==
  /\ StandsStill /\ Unstaged /\ Live /\ server.phase = "completed"
  /\ server'.comp = "pending" /\ server'.status = "finalizing"
  /\ calls'["stage"].at = "answered"
TakesBack ==
  /\ StandsStill /\ ~Unstaged /\ server.comp # "closed" /\ At("cancelling")
  /\ server'.comp = "cancelled" /\ server'.status = "active"
  /\ calls["op"].at = "sent"
GoesOn ==
  /\ StandsStill /\ ~Unstaged /\ server'.status # "active"
  /\ server'.comp \in {"pending", "failed", "closed"}
  /\ server.comp = "closed" => server'.comp = "closed"
  /\ server'.comp = "pending" => server.comp = "pending"
ServerMoves == UNCHANGED server \/ Logs \/ Stages \/ TakesBack \/ GoesOn

\* What becomes of a call while the page does nothing.
Settles(ch) ==
  \/ calls'[ch] = calls[ch]
  \/ calls[ch].at # "none" /\ calls'[ch].at \in {"lost", "refused"}
  \/ /\ calls[ch].at = "sent" /\ calls'[ch].at = "answered"
     /\ calls'[ch].got = Snapshot(server')
ServerStep ==
  /\ UNCHANGED page /\ ServerMoves /\ \A ch \in Channels : Settles(ch)
  /\ calls'["stage"].at = "answered" =>
       \/ calls'["stage"] = calls["stage"]
       \/ server'.comp \notin {"none", "cancelled"} /\ Live

LEMMA ApplyMoves ==
  ASSUME ClientTypes, NEW e \in Entries, Apply(e)
  PROVE  UNCHANGED server \/ Logs
<1>1. CASE UNCHANGED server
  BY <1>1
<1>2. ASSUME NEW p \in PhasesAfter(e.kind), Accepts(e.kind),
             server' = [server EXCEPT !.log = Append(@, e), !.phase = p]
      PROVE  Logs
  <2>1. server \in Servers /\ server.log \in Seq(Entries)
    BY DEF ClientTypes, Servers
  <2>2. /\ server'.log = Append(server.log, e)
        /\ server'.status = server.status /\ server'.comp = server.comp
    BY <1>2, <2>1 DEF Servers
  <2>3. Len(server'.log) = Len(server.log) + 1
    BY <2>1, <2>2
  <2>4. QED
    BY <1>2, <2>2, <2>3 DEF Logs, Accepts
<1>3. QED
  BY <1>1, <1>2 DEF Apply

LEMMA ClosedGoesOn ==
  ASSUME ClientTypes, ~Unstaged, server' = Closed
  PROVE  GoesOn
BY DEF ClientTypes, Servers, Closed, GoesOn, StandsStill, Unstaged

LEMMA ServeMoves ==
  ASSUME ClientTypes, Shape, Grounded, NEW ch \in Channels, Serve(ch)
  PROVE  ServerStep
<1> DEFINE req == calls[ch].req
<1>0. /\ req \in Fits(ch) /\ calls[ch].at = "sent" /\ UNCHANGED page
      /\ ClientTypes' /\ server \in Servers
  BY ServeIsTyped DEF ClientTypes, CallsTyped, Serve
<1>1. PICK at \in {"answered", "refused"} :
        /\ Settle(ch, at)
        /\ (at = "answered" /\ Accepted(req)) \/ (at = "refused" /\ Refused(req))
  BY DEF Serve
<1>2. /\ calls'[ch].at = at /\ calls'[ch].got = Snapshot(server')
      /\ \A d \in Channels \ {ch} : calls'[d] = calls[d]
  <2>1. /\ calls'[ch] = [at |-> at, got |-> Snapshot(server')]
        /\ \A d \in Channels \ {ch} : calls'[d] = calls[d]
    BY <1>1, OneCall DEF Settle, ClientTypes
  <2>2. QED
    BY <2>1
<1>3. \A d \in Channels : Settles(d)
  BY <1>0, <1>1, <1>2 DEF Settles
<1>4. CASE ch = "queue"
  <2>1. req.call = "command" /\ req.entry \in Entries
    BY <1>0, <1>4, RequestKinds DEF Fits
  <2>2. Apply(req.entry) \/ UNCHANGED server
    BY <1>1, <2>1 DEF Accepted, Refused
  <2>3. ServerMoves
    BY <2>1, <2>2, ApplyMoves DEF ServerMoves
  <2>4. calls'["stage"] = calls["stage"]
    BY <1>2, <1>4 DEF Channels
  <2>5. QED
    BY <1>0, <1>3, <2>3, <2>4 DEF ServerStep
<1>5. CASE ch = "stage"
  <2>1. req.call = "stage" /\ req.seq \in Nat
    BY <1>0, <1>5, RequestKinds DEF Fits
  <2>2. CASE at = "refused"
    <3>1. UNCHANGED server
      BY <1>1, <2>1, <2>2 DEF Refused
    <3>2. QED
      BY <1>0, <1>2, <1>3, <1>5, <2>2, <3>1 DEF ServerStep, ServerMoves
  <2>3. CASE at = "answered"
    <3>1. Stage(req.seq)
      BY <1>1, <2>1, <2>3 DEF Accepted
    <3>2. Live
      BY <1>0, <1>5, <3>1 DEF Stage, Stageable, Live, Sending
    <3>3. CASE ~Unstaged
      <4>1. UNCHANGED server
        BY <3>1, <3>3 DEF Stage
      <4>2. server'.comp \notin {"none", "cancelled"}
        BY <3>3, <4>1 DEF Unstaged
      <4>3. QED
        BY <1>0, <1>3, <3>2, <4>1, <4>2 DEF ServerStep, ServerMoves
    <3>4. CASE Unstaged
      <4>1. Stages
        BY <1>0, <1>2, <1>5, <2>3, <3>1, <3>2, <3>4
        DEF Stage, Stageable, Stages, StandsStill, Servers
      <4>2. QED
        BY <1>0, <1>3, <3>2, <4>1 DEF ServerStep, ServerMoves, Stages
    <3>5. QED
      BY <3>3, <3>4
  <2>4. QED
    BY <2>2, <2>3
<1>6. CASE ch = "op"
  <2>1. req \in Others /\ req.call \in {"cancel", "close", "fetch"}
    BY <1>0, <1>6, RequestKinds DEF Fits
  <2>2. req.call = "cancel" => At("cancelling")
    <3>1. calls["op"].at = "sent" =>
            calls["op"].req.call = CASE At("cancelling") -> "cancel"
                                     [] At("shutting")   -> "close"
                                     [] OTHER            -> "fetch"
      BY DEF Shape, CallsAwaited
    <3>2. QED
      BY <1>0, <1>6, <3>1
  <2>3. ServerMoves
    <3>1. CASE UNCHANGED server
      BY <3>1 DEF ServerMoves
    <3>2. CASE server' = Closed /\ ~Unstaged
      BY <3>2, ClosedGoesOn DEF ServerMoves
    <3>3. CASE /\ req.call = "cancel" /\ Unfinished
               /\ server' = [server EXCEPT !.status = "active",
                                           !.comp = "cancelled"]
      <4>1. TakesBack
        BY <1>0, <1>6, <2>2, <3>3
        DEF TakesBack, StandsStill, Servers, Unfinished, Unstaged
      <4>2. QED
        BY <4>1 DEF ServerMoves
    <3>4. QED
      BY <1>1, <2>1, <3>1, <3>2, <3>3
      DEF Accepted, Refused, Cancel, CancelTooLate, Closable, Unfinished,
          Unstaged
  <2>4. calls'["stage"] = calls["stage"]
    BY <1>2, <1>6 DEF Channels
  <2>5. QED
    BY <1>0, <1>3, <2>3, <2>4 DEF ServerStep
<1>7. CASE ch = "look"
  <2>1. req.call = "fetch"
    BY <1>0, <1>7, RequestKinds DEF Fits
  <2>2. UNCHANGED server
    BY <1>1, <2>1 DEF Accepted, Refused
  <2>3. calls'["stage"] = calls["stage"]
    BY <1>2, <1>7 DEF Channels
  <2>4. QED
    BY <1>0, <1>3, <2>2, <2>3 DEF ServerStep, ServerMoves
<1>8. QED
  BY <1>4, <1>5, <1>6, <1>7 DEF Channels

LEMMA OtherMoves ==
  ASSUME ClientTypes, Shape, Grounded,
         \/ \E ch \in Channels : Lose(ch)
         \/ CloseFails \/ WindowEnds \/ WorkerCloses \/ \E e \in late : Arrive(e)
  PROVE  ServerStep
<1>1. ASSUME NEW ch \in Channels, Lose(ch)
      PROVE  ServerStep
  <2>1. /\ calls'[ch] = [at |-> "lost"] /\ calls[ch].at # "none"
        /\ \A d \in Channels \ {ch} : calls'[d] = calls[d]
    BY <1>1, OneCall DEF ClientTypes, Lose
  <2>2. calls'[ch].at = "lost"
    BY <2>1
  <2>3. \A d \in Channels : Settles(d)
    BY <2>1, <2>2 DEF Settles
  <2>4. calls'["stage"].at = "answered" => calls'["stage"] = calls["stage"]
    BY <2>1, <2>2 DEF Channels
  <2>5. QED
    BY <1>1, <2>3, <2>4 DEF Lose, ServerStep, ServerMoves
<1>2. CASE CloseFails
  <2>1. /\ calls'["op"].at = "refused" /\ calls["op"].at # "none"
        /\ \A d \in Channels \ {"op"} : calls'[d] = calls[d]
    <3>1. Settle("op", "refused") /\ "op" \in Channels
      BY <1>2 DEF CloseFails, Channels
    <3>2. /\ calls'["op"] = [at |-> "refused", got |-> Snapshot(server')]
          /\ \A d \in Channels \ {"op"} : calls'[d] = calls[d]
      BY <3>1, OneCall DEF ClientTypes, Settle
    <3>3. QED
      BY <1>2, <3>2 DEF CloseFails
  <2>2. \A d \in Channels : Settles(d)
    BY <2>1 DEF Settles
  <2>3. calls'["stage"] = calls["stage"]
    BY <2>1 DEF Channels
  <2>4. GoesOn
    <3>1. ~Unstaged /\ server.comp # "closed" /\ server \in Servers
      BY <1>2 DEF CloseFails, Unfinished, Unstaged, ClientTypes
    <3>2. server' = [server EXCEPT !.comp = "failed"]
      BY <1>2 DEF CloseFails
    <3>3. server.status # "active"
      BY <3>1 DEF Grounded
    <3>4. QED
      BY <3>1, <3>2, <3>3 DEF GoesOn, StandsStill, Servers
  <2>5. QED
    BY <1>2, <2>2, <2>3, <2>4 DEF CloseFails, ServerStep, ServerMoves
<1>3. CASE WindowEnds \/ WorkerCloses \/ \E e \in late : Arrive(e)
  <2>1. UNCHANGED <<page, calls>>
    BY <1>3 DEF WindowEnds, WorkerCloses, Arrive, net
  <2>2. ServerMoves
    <3>1. CASE WindowEnds
      <4>1. /\ server \in Servers /\ server' = [server EXCEPT !.due = TRUE]
            /\ server.comp = "pending"
        BY <3>1 DEF WindowEnds, ClientTypes
      <4>2. server.status # "active" /\ ~Unstaged
        BY <4>1 DEF Grounded, Unstaged
      <4>3. GoesOn
        BY <4>1, <4>2 DEF GoesOn, StandsStill, Servers
      <4>4. QED
        BY <4>3 DEF ServerMoves
    <3>2. CASE WorkerCloses
      BY <3>2, ClosedGoesOn DEF WorkerCloses, ServerMoves, Unstaged
    <3>3. ASSUME NEW e \in late, Arrive(e)
          PROVE  ServerMoves
      <4>1. e \in Entries
        BY <3>3 DEF ClientTypes
      <4>2. QED
        BY <3>3, <4>1, ApplyMoves DEF Arrive, ServerMoves
    <3>4. QED
      BY <1>3, <3>1, <3>2, <3>3
  <2>3. QED
    BY <2>1, <2>2 DEF ServerStep, Settles
<1>4. QED
  BY <1>1, <1>2, <1>3

\* Time only adds to what the server holds.
LEMMA Ages ==
  ASSUME ClientTypes, ClientTypes', Grounded, ServerMoves
  PROVE  /\ Grounded'
         /\ \A seq \in Nat, phase \in Phases, comp \in Comps :
              /\ seq <= Len(server.log) => seq <= Len(server'.log)
              /\ (/\ seq <= Len(server.log)
                  /\ seq = Len(server.log) => phase = server.phase) =>
                   (seq = Len(server'.log) => phase = server'.phase)
              /\ OlderThan(server, comp) => OlderThan(server', comp)
         /\ server.comp # "none" => server'.comp # "none"
         /\ Len(server.log) \in Nat /\ Len(server'.log) \in Nat
<1>1. /\ Len(server.log) \in Nat /\ Len(server'.log) \in Nat
      /\ server \in Servers /\ server' \in Servers
  BY DEF ClientTypes, Servers
<1>2. CASE UNCHANGED server
  BY <1>1, <1>2 DEF Grounded, Unstaged
<1>3. CASE Logs
  <2>1. Grounded'
    BY <1>3 DEF Logs, Grounded, Unstaged
  <2>2. QED
    BY <1>1, <1>3, <2>1 DEF Logs, OlderThan
<1>4. CASE Stages
  <2>1. Grounded'
    BY <1>4 DEF Stages, StandsStill, Grounded, Unstaged
  <2>2. server.comp # "closed"
    BY <1>4 DEF Stages, Unstaged
  <2>3. QED
    BY <1>1, <1>4, <2>1, <2>2 DEF Stages, StandsStill, OlderThan
<1>5. CASE TakesBack
  <2>1. Grounded'
    BY <1>5 DEF TakesBack, StandsStill, Grounded, Unstaged
  <2>2. QED
    BY <1>1, <1>5, <2>1 DEF TakesBack, StandsStill, OlderThan
<1>6. CASE GoesOn
  <2>1. Grounded'
    BY <1>6 DEF GoesOn, StandsStill, Grounded, Unstaged
  <2>2. QED
    BY <1>1, <1>6, <2>1 DEF GoesOn, StandsStill, OlderThan
<1>7. QED
  BY <1>2, <1>3, <1>4, <1>5, <1>6 DEF ServerMoves

\* Behind a boundary no staging run is under way.
LEMMA InsideIsIdle ==
  ASSUME ClientTypes, Shape, Working,
         \/ Reopens /\ op.steps[1] \notin {"suppress", "staged"}
         \/ op.steps[1] \in {"cancel", "cancelling", "recancelling", "fetching"}
  PROVE  /\ Reopens /\ staging = "idle" /\ ui.suppress /\ ~Sending
         /\ calls["stage"].at = "none" /\ InsideFrom(op.steps, 0)
<1>1. 1 \in DOMAIN op.steps
  BY HeadIsFirst
<1>2. Reopens
  BY <1>1 DEF Shape, StagingIsHeldOff, HeldOff, Reopens, Outer, Range
<1>3. op.steps[1] \notin {"suppress", "staged"}
  OBVIOUS
<1>4. staging = "idle" /\ ui.suppress /\ InsideFrom(op.steps, 0)
  BY <1>2, <1>3 DEF Shape, StagingIsHeldOff, HeldOff, Reopens
<1>5. calls["stage"].at = "none"
  BY <1>4 DEF Shape, CallsAwaited
<1>6. QED
  BY <1>2, <1>4, <1>5 DEF Sending

\* While the server is asked about a completion nothing waits in the queue.
AskingIsFlushed ==
  (Working /\ op.steps[1] \in Asking \ {"fetching"}) =>
    queue = <<>> /\ ui.comp # "none"

LEMMA ServerAnswers ==
  ASSUME ClientInv, ClientTypes', Shape, Answers, AskingIsFlushed, ServerStep
  PROVE  Answers'
<1>0. /\ UNCHANGED <<ui, op, queue, staging>> /\ ServerMoves
      /\ \A ch \in Channels : Settles(ch)
      /\ ClientTypes /\ ui \in Pages /\ CallsTyped /\ CallsTyped' /\ Grounded
      /\ {"queue", "op", "stage", "look"} = Channels
      /\ At("fetching")' <=> At("fetching")
  BY DEF ServerStep, page, ClientInv, ClientTypes, Answers, AnswersAreKnown,
         Channels, At, Working
<1> DEFINE sv == server'
<1>1. /\ Grounded' /\ Len(server.log) \in Nat /\ Len(sv.log) \in Nat
      /\ \A seq \in Nat, phase \in Phases, comp \in Comps :
            /\ seq <= Len(server.log) => seq <= Len(sv.log)
            /\ (/\ seq <= Len(server.log)
                /\ seq = Len(server.log) => phase = server.phase) =>
                 (seq = Len(sv.log) => phase = sv.phase)
            /\ OlderThan(server, comp) => OlderThan(sv, comp)
      /\ server.comp # "none" => sv.comp # "none"
  BY <1>0, Ages
<1>2. /\ ui.seq \in Nat /\ ui.phase \in Phases /\ ui.comp \in Comps
      /\ \A ch \in Channels : calls[ch].at = "answered" =>
           /\ calls[ch].got.seq \in Nat /\ calls[ch].got.phase \in Phases
           /\ calls[ch].got.comp \in Comps
      /\ calls["stage"].at = "sent" => calls["stage"].req.seq \in Nat
  <2>1. \A ch \in Channels : calls[ch].at = "answered" =>
          calls[ch].got \in Snapshots
    BY <1>0, GotIsTyped
  <2>2. calls["stage"].at = "sent" => calls["stage"].req \in Stagings
    BY <1>0 DEF CallsTyped, Fits
  <2>3. QED
    BY <1>0, <2>1, <2>2, RequestKinds DEF Snapshots, Pages
<1>3. ASSUME NEW ch \in Channels, calls'[ch].at = "answered"
      PROVE  \/ calls'[ch] = calls[ch] /\ calls[ch].at = "answered"
             \/ /\ calls[ch].at = "sent"
                /\ calls'[ch].got.seq = Len(sv.log)
                /\ calls'[ch].got.phase = sv.phase
                /\ calls'[ch].got.comp = sv.comp
  BY <1>0, <1>3 DEF Settles, Snapshot
<1>4. calls'["stage"].at = "sent" => calls'["stage"] = calls["stage"]
  BY <1>0 DEF Settles
<1>5. /\ Unstaged' <=> sv.comp \in {"none", "cancelled"}
      /\ Unstaged <=> server.comp \in {"none", "cancelled"}
  BY DEF Unstaged
<1>6. TakesBack => calls["queue"].at = "none" /\ calls["stage"].at = "none"
                   /\ ~At("fetching")
  <2>1. SUFFICES ASSUME At("cancelling")
                 PROVE  calls["queue"].at = "none" /\ calls["stage"].at = "none"
                        /\ ~At("fetching")
    BY DEF TakesBack
  <2>2. Working /\ op.steps[1] = "cancelling"
    BY <1>0, <2>1, HeadIsFirst
  <2>3. queue = <<>>
    BY <2>2 DEF AskingIsFlushed, Asking
  <2>4. QED
    BY <1>0, <2>2, <2>3, InsideIsIdle, HeadIsFirst
    DEF ClientInv, QueueOrder, HeadIsSent
<1>7. AnswersAreKnown'
  <2>1. KnownTo(sv, ui) /\ OlderThan(sv, ui.comp)
    BY <1>1, <1>2 DEF Answers, AnswersAreKnown, KnownTo
  <2>2. ASSUME NEW ch \in Channels, calls'[ch].at = "answered"
        PROVE  KnownTo(sv, calls'[ch].got) /\ OlderThan(sv, calls'[ch].got.comp)
    <3>1. CASE calls'[ch] = calls[ch] /\ calls[ch].at = "answered"
      BY <1>1, <1>2, <3>1 DEF Answers, AnswersAreKnown, KnownTo
    <3>2. CASE /\ calls'[ch].got.seq = Len(sv.log)
               /\ calls'[ch].got.phase = sv.phase
               /\ calls'[ch].got.comp = sv.comp
      BY <1>1, <3>2 DEF KnownTo, OlderThan
    <3>3. QED
      BY <1>3, <2>2, <3>1, <3>2
  <2>3. calls'["look"].at # "none" => sv.comp # "none"
    BY <1>0, <1>1 DEF Settles, Answers, AnswersAreKnown
  <2>4. calls'["look"].at = "answered" => calls'["look"].got.comp # "none"
    BY <1>0, <1>1, <1>3 DEF Answers, AnswersAreKnown
  <2>5. QED
    BY <1>0, <1>1, <2>1, <2>2, <2>3, <2>4 DEF AnswersAreKnown
<1>8. ASSUME NEW ch \in Channels, Whole(ch)'
      PROVE  \/ Whole(ch) /\ calls'[ch] = calls[ch]
             \/ /\ calls[ch].at = "sent"
                /\ calls'[ch].got.seq = Len(sv.log)
                /\ calls'[ch].got.phase = sv.phase
                /\ calls'[ch].got.comp = sv.comp
  <2>1. calls'[ch].at = "answered" /\ (ch = "queue" \/ (ch = "op" /\ At("fetching")))
    BY <1>0, <1>8 DEF Whole
  <2>2. QED
    BY <1>3, <2>1 DEF Whole
<1>9. PageIsCurrent'
  <2>1. SUFFICES ASSUME ~Unstaged'
                 PROVE  /\ ui.seq = Len(sv.log)
                        /\ \A ch \in Channels :
                             Whole(ch)' => calls'[ch].got.seq = Len(sv.log)
    BY <1>0 DEF PageIsCurrent
  <2>2. CASE UNCHANGED server \/ GoesOn
    <3>1. ~Unstaged /\ sv.log = server.log
      BY <1>5, <2>1, <2>2 DEF GoesOn, StandsStill
    <3>2. QED
      BY <1>8, <3>1 DEF Answers, PageIsCurrent
  <2>3. CASE Logs
    BY <1>0, <1>5, <2>1, <2>3 DEF Logs, Grounded
  <2>4. CASE Stages
    <3>1. Sending /\ calls["stage"].req.seq = Len(server.log)
          /\ sv.log = server.log
      BY <2>4 DEF Stages, StandsStill, Live
    <3>2. ui.seq >= Len(server.log) /\ ui.seq <= Len(server.log)
      BY <3>1 DEF Answers, StagingIsCurrent, AnswersAreKnown, KnownTo
    <3>3. \A ch \in Channels : Whole(ch) =>
            /\ calls[ch].got.seq >= Len(server.log)
            /\ calls[ch].got.seq <= Len(server.log)
            /\ calls[ch].got.seq \in Nat
      BY <1>2, <3>1
      DEF Answers, StagingIsCurrent, AnswersAreKnown, KnownTo, Whole
    <3>4. QED
      BY <1>1, <1>2, <1>8, <3>1, <3>2, <3>3
  <2>5. CASE TakesBack
    BY <1>5, <2>1, <2>5 DEF TakesBack
  <2>6. QED
    BY <1>0, <2>2, <2>3, <2>4, <2>5 DEF ServerMoves
<1>10. AnswersAreCurrent'
  <2>1. SUFFICES ASSUME Unstaged', NEW ch \in Channels, Whole(ch)'
                 PROVE  calls'[ch].got.comp \in {"none", "cancelled"}
    BY DEF AnswersAreCurrent
  <2>2. CASE UNCHANGED server \/ Logs
    <3>1. Unstaged
      BY <1>5, <2>1, <2>2 DEF Logs
    <3>2. QED
      BY <1>5, <1>8, <2>1, <3>1 DEF Answers, AnswersAreCurrent
  <2>3. CASE Stages \/ GoesOn
    BY <1>5, <2>1, <2>3 DEF Stages, GoesOn
  <2>4. CASE TakesBack
    <3>1. ~Whole(ch)
      BY <1>6, <2>4 DEF Whole
    <3>2. QED
      BY <1>5, <1>8, <2>1, <3>1
  <2>5. QED
    BY <1>0, <2>2, <2>3, <2>4 DEF ServerMoves
<1>11. Live' => /\ Live /\ sv.phase = server.phase /\ sv.log = server.log
                /\ ~Stages /\ ~TakesBack
  <2>1. SUFFICES ASSUME Live'
                 PROVE  /\ Live /\ sv.phase = server.phase
                        /\ sv.log = server.log /\ ~Stages /\ ~TakesBack
    OBVIOUS
  <2>2. /\ Sending /\ calls'["stage"] = calls["stage"]
        /\ calls["stage"].req.seq = Len(sv.log)
        /\ calls'["stage"].at = "sent"
    BY <1>4, <2>1 DEF Live, Sending
  <2>3. ~Logs
    BY <1>1, <1>2, <2>2 DEF Logs, Answers, StagingIsCurrent, Sending
  <2>4. ~Stages /\ ~TakesBack
    BY <1>6, <2>2 DEF Stages
  <2>5. sv.phase = server.phase /\ sv.log = server.log
    BY <1>0, <2>3, <2>4 DEF ServerMoves, GoesOn, StandsStill
  <2>6. QED
    BY <2>2, <2>4, <2>5 DEF Live
<1>12. StagingIsCurrent'
  <2>1. calls'["stage"].at = "answered" =>
          /\ ~Unstaged'
          /\ calls'["stage"].got.comp \notin {"none", "cancelled"}
    <3>1. CASE calls'["stage"] = calls["stage"] /\ calls["stage"].at = "answered"
      <4>1. ~Unstaged /\ calls["stage"].got.comp \notin {"none", "cancelled"}
        BY <3>1 DEF Answers, StagingIsCurrent
      <4>2. ~Logs /\ ~Stages /\ ~TakesBack
        BY <1>0, <1>6, <3>1, <4>1 DEF Logs, Stages, Grounded
      <4>3. ~Unstaged'
        BY <1>0, <1>5, <4>1, <4>2 DEF ServerMoves, GoesOn
      <4>4. QED
        BY <3>1, <4>1, <4>3
    <3>2. CASE calls'["stage"] # calls["stage"] /\ calls'["stage"].at = "answered"
      <4>1. sv.comp \notin {"none", "cancelled"}
        BY <3>2 DEF ServerStep
      <4>2. QED
        BY <1>0, <1>3, <1>5, <3>2, <4>1
    <3>3. QED
      BY <3>1, <3>2
  <2>2. Sending' =>
          /\ calls'["stage"].req.seq <= Len(sv.log)
          /\ ui.seq >= calls'["stage"].req.seq
          /\ \A ch \in Channels :
               Whole(ch)' => calls'[ch].got.seq >= calls'["stage"].req.seq
    <3>1. SUFFICES ASSUME Sending'
                   PROVE  /\ calls'["stage"].req.seq <= Len(sv.log)
                          /\ ui.seq >= calls'["stage"].req.seq
                          /\ \A ch \in Channels : Whole(ch)' =>
                               calls'[ch].got.seq >= calls'["stage"].req.seq
      OBVIOUS
    <3>2. /\ Sending /\ calls'["stage"] = calls["stage"]
          /\ calls["stage"].req.seq \in Nat
      BY <1>2, <1>4, <3>1 DEF Sending
    <3>3. calls["stage"].req.seq <= Len(server.log)
          /\ ui.seq >= calls["stage"].req.seq
          /\ \A ch \in Channels :
               Whole(ch) => calls[ch].got.seq >= calls["stage"].req.seq
      BY <3>2 DEF Answers, StagingIsCurrent
    <3>4. calls["stage"].req.seq <= Len(sv.log)
      BY <1>1, <1>2, <3>2, <3>3
    <3>5. Len(sv.log) >= calls["stage"].req.seq
      BY <1>1, <3>2, <3>4
    <3>6. ASSUME NEW ch \in Channels, Whole(ch)'
          PROVE  calls'[ch].got.seq >= calls'["stage"].req.seq
      BY <1>8, <3>2, <3>3, <3>5, <3>6
    <3>7. QED
      BY <3>2, <3>3, <3>4, <3>6
  <2>3. Live' => sv.phase = "completed"
    BY <1>11 DEF Answers, StagingIsCurrent
  <2>4. (Live' /\ Unstaged') => ui.comp = "none"
    <3>1. SUFFICES ASSUME Live', Unstaged'
                   PROVE  ui.comp = "none"
      OBVIOUS
    <3>2. Live /\ ~Stages /\ ~TakesBack /\ ~GoesOn
      BY <1>5, <1>11, <3>1 DEF GoesOn
    <3>3. Unstaged
      BY <1>0, <1>5, <3>1, <3>2 DEF ServerMoves, Logs
    <3>4. QED
      BY <3>2, <3>3 DEF Answers, StagingIsCurrent
  <2>5. QED
    BY <1>0, <2>1, <2>2, <2>3, <2>4 DEF StagingIsCurrent
<1>13. QED
  BY <1>7, <1>9, <1>10, <1>12 DEF Answers

\* What the page may learn in a step.
SameStudy == ui'.phase = ui.phase /\ ui'.seq = ui.seq
Keeps == SameStudy /\ ui'.comp = ui.comp
Forgets == SameStudy /\ ui'.comp = "none"
SeesStudy ==
  \E ch \in Channels :
    /\ Whole(ch)
    /\ ui'.phase = calls[ch].got.phase /\ ui'.seq = calls[ch].got.seq
    /\ ui'.comp = IF calls[ch].got.comp = "cancelled" THEN "none"
                  ELSE calls[ch].got.comp
SeesCompletion ==
  /\ SameStudy
  /\ \E ch \in Channels :
       calls[ch].at = "answered" /\ ui'.comp = calls[ch].got.comp
  /\ ui.comp # "none" \/ calls'["stage"].at # "sent"
PageStep ==
  /\ UNCHANGED server
  /\ Keeps \/ Forgets \/ SeesStudy \/ SeesCompletion
  /\ \A ch \in Channels :
       calls'[ch].at = "answered" => calls'[ch] = calls[ch]
  /\ calls'["op"].at = "answered" /\ At("fetching")' => At("fetching")
  /\ calls'["stage"].at = "sent" => calls'["stage"] = calls["stage"]
  /\ calls'["look"].at # "none" => calls["look"].at # "none" \/ ui.comp # "none"

LEMMA AnswerTypes ==
  ASSUME ClientTypes
  PROVE  /\ ui \in Pages /\ CallsTyped
         /\ ui.seq \in Nat /\ ui.phase \in Phases /\ ui.comp \in Comps
         /\ \A ch \in Channels : calls[ch].at = "answered" =>
              /\ calls[ch].got \in Snapshots
              /\ calls[ch].got.seq \in Nat /\ calls[ch].got.phase \in Phases
              /\ calls[ch].got.comp \in Comps
         /\ calls["stage"].at = "sent" => calls["stage"].req.seq \in Nat
         /\ Len(server.log) \in Nat
         /\ {"queue", "op", "stage", "look"} = Channels
<1>0. ui \in Pages /\ CallsTyped /\ {"queue", "op", "stage", "look"} = Channels
  BY DEF ClientTypes, Channels
<1>1. \A ch \in Channels : calls[ch].at = "answered" =>
        calls[ch].got \in Snapshots
  BY <1>0, GotIsTyped
<1>2. calls["stage"].at = "sent" => calls["stage"].req \in Stagings
  BY <1>0 DEF CallsTyped, Fits
<1>3. Len(server.log) \in Nat
  BY DEF ClientTypes, Servers
<1>4. QED
  BY <1>0, <1>1, <1>2, <1>3, RequestKinds DEF Snapshots, Pages

LEMMA PageAnswers ==
  ASSUME ClientTypes, Answers, PageStep
  PROVE  Answers'
<1>0. /\ UNCHANGED server
      /\ \A ch \in Channels :
           calls'[ch].at = "answered" => calls'[ch] = calls[ch]
      /\ calls'["stage"].at = "sent" => calls'["stage"] = calls["stage"]
      /\ Unstaged' <=> Unstaged
  BY DEF PageStep, Unstaged
<1>1. ASSUME NEW ch \in Channels, Whole(ch)'
      PROVE  Whole(ch) /\ calls'[ch] = calls[ch]
  BY <1>0, <1>1 DEF PageStep, Whole
<1>2. ASSUME NEW ch \in Channels, calls[ch].at = "answered"
      PROVE  /\ KnownTo(server, calls[ch].got)
             /\ OlderThan(server, calls[ch].got.comp)
  BY <1>2 DEF Answers, AnswersAreKnown
<1>3. AnswersAreKnown'
  <2>1. KnownTo(server, ui')
    <3>1. CASE SeesStudy
      BY <1>2, <3>1 DEF SeesStudy, Whole, KnownTo
    <3>2. CASE SameStudy
      BY <3>2 DEF SameStudy, Answers, AnswersAreKnown, KnownTo
    <3>3. QED
      BY <3>1, <3>2 DEF PageStep, Keeps, Forgets, SeesCompletion
  <2>2. OlderThan(server, ui'.comp)
    <3>1. CASE SeesStudy
      BY <1>2, <3>1 DEF SeesStudy, Whole, OlderThan
    <3>2. CASE SeesCompletion
      BY <1>2, <3>2 DEF SeesCompletion
    <3>3. CASE Keeps \/ Forgets
      BY <3>3 DEF Keeps, Forgets, OlderThan, Answers, AnswersAreKnown
    <3>4. QED
      BY <3>1, <3>2, <3>3 DEF PageStep
  <2>3. \A ch \in Channels : calls'[ch].at = "answered" =>
          /\ KnownTo(server, calls'[ch].got)
          /\ OlderThan(server, calls'[ch].got.comp)
    BY <1>0, <1>2
  <2>4. calls'["look"].at # "none" => server.comp # "none"
    BY DEF PageStep, Answers, AnswersAreKnown, OlderThan
  <2>5. calls'["look"].at = "answered" => calls'["look"].got.comp # "none"
    BY <1>0, AnswerTypes DEF Answers, AnswersAreKnown
  <2>6. Grounded'
    BY <1>0 DEF Answers, AnswersAreKnown, Grounded
  <2>7. QED
    BY <1>0, <2>1, <2>2, <2>3, <2>4, <2>5, <2>6 DEF AnswersAreKnown
<1>4. PageIsCurrent'
  <2>1. ~Unstaged => ui'.seq = Len(server.log)
    <3>1. CASE SeesStudy
      BY <3>1 DEF SeesStudy, Answers, PageIsCurrent
    <3>2. CASE SameStudy
      BY <3>2 DEF SameStudy, Answers, PageIsCurrent
    <3>3. QED
      BY <3>1, <3>2 DEF PageStep, Keeps, Forgets, SeesCompletion
  <2>2. QED
    BY <1>0, <1>1, <2>1 DEF Answers, PageIsCurrent
<1>5. AnswersAreCurrent'
  BY <1>0, <1>1 DEF Answers, AnswersAreCurrent
<1>6. StagingIsCurrent'
  <2>1. calls'["stage"].at = "answered" =>
          /\ ~Unstaged'
          /\ calls'["stage"].got.comp \notin {"none", "cancelled"}
    BY <1>0, AnswerTypes DEF Answers, StagingIsCurrent
  <2>2. Sending' =>
          /\ calls'["stage"].req.seq <= Len(server.log)
          /\ ui'.seq >= calls'["stage"].req.seq
          /\ \A ch \in Channels :
               Whole(ch)' => calls'[ch].got.seq >= calls'["stage"].req.seq
    <3>1. SUFFICES ASSUME Sending'
                   PROVE  /\ calls'["stage"].req.seq <= Len(server.log)
                          /\ ui'.seq >= calls'["stage"].req.seq
                          /\ \A ch \in Channels : Whole(ch)' =>
                               calls'[ch].got.seq >= calls'["stage"].req.seq
      OBVIOUS
    <3>2. Sending /\ calls'["stage"] = calls["stage"]
      BY <1>0, <3>1 DEF Sending
    <3>3. /\ calls["stage"].req.seq <= Len(server.log)
          /\ ui.seq >= calls["stage"].req.seq
          /\ \A ch \in Channels :
               Whole(ch) => calls[ch].got.seq >= calls["stage"].req.seq
      BY <3>2 DEF Answers, StagingIsCurrent
    <3>4. ui'.seq >= calls["stage"].req.seq
      <4>1. CASE SeesStudy
        BY <3>3, <4>1 DEF SeesStudy
      <4>2. CASE SameStudy
        BY <3>3, <4>2 DEF SameStudy
      <4>3. QED
        BY <4>1, <4>2 DEF PageStep, Keeps, Forgets, SeesCompletion
    <3>5. QED
      BY <1>1, <3>2, <3>3, <3>4
  <2>3. Live' => Live
    BY <1>0 DEF Live, Sending
  <2>4. (Live' /\ Unstaged') => ui'.comp = "none"
    <3>1. SUFFICES ASSUME Live, Sending', Unstaged
                   PROVE  ui'.comp = "none"
      BY <1>0, <2>3 DEF Live
    <3>2. ui.comp = "none"
      BY <3>1 DEF Answers, StagingIsCurrent
    <3>3. CASE SeesStudy
      BY <3>1, <3>3 DEF SeesStudy, Answers, AnswersAreCurrent
    <3>4. CASE SeesCompletion
      BY <3>1, <3>2, <3>4 DEF SeesCompletion, Sending
    <3>5. CASE Keeps \/ Forgets
      BY <3>2, <3>5 DEF Keeps, Forgets
    <3>6. QED
      BY <3>3, <3>4, <3>5 DEF PageStep
  <2>5. QED
    BY <1>0, <2>1, <2>2, <2>3, <2>4
    DEF StagingIsCurrent, Answers
<1>7. QED
  BY <1>3, <1>4, <1>5, <1>6 DEF Answers

\* The page asks to stage what it has, all of it if nothing is on its way.
LEMMA StageSendsStep ==
  ASSUME ClientInv, Shape, Answers, StageSends
  PROVE  /\ Answers' /\ UNCHANGED <<server, ui, op, queue>> /\ queue = <<>>
         /\ \/ staging' = "idle" /\ UNCHANGED calls /\ calls["stage"].at = "none"
            \/ /\ staging' = "sent" /\ ~ui.suppress /\ Completed
               /\ ui.comp = "none" /\ calls'["stage"].at = "sent"
<1>0. /\ UNCHANGED <<server, ui, op, queue>> /\ queue = <<>>
      /\ ClientTypes /\ staging = "flush"
  BY DEF StageSends, ClientInv
<1>1. calls["stage"].at = "none"
  BY <1>0 DEF Shape, CallsAwaited
<1>2. CASE staging' = "idle" /\ UNCHANGED calls
  <2>1. PageStep
    BY <1>0, <1>2 DEF PageStep, Keeps, SameStudy, At, Working
  <2>2. QED
    BY <1>0, <1>1, <1>2, <2>1, PageAnswers
<1>3. CASE /\ staging' = "sent" /\ ~ui.suppress /\ Completed /\ ui.comp = "none"
           /\ Call("stage", [call |-> "stage", seq |-> ui.seq])
  <2>1. /\ calls'["stage"].at = "sent" /\ calls'["stage"].req.seq = ui.seq
        /\ \A ch \in Channels \ {"stage"} : calls'[ch] = calls[ch]
    <3>1. CallsTyped /\ "stage" \in Channels
      BY <1>0 DEF ClientTypes, Channels
    <3>2. PICK req : req = [call |-> "stage", seq |-> ui.seq]
      OBVIOUS
    <3>3. req.seq = ui.seq /\ Call("stage", req)
      BY <1>3, <3>2
    <3>4. QED
      BY <3>1, <3>3, Calls1
  <2>2. ASSUME NEW ch \in Channels, Whole(ch)
        PROVE  FALSE
    <3>1. calls["queue"].at = "none"
      BY <1>0 DEF ClientInv, QueueOrder, HeadIsSent
    <3>2. ~At("fetching")
      BY <1>0, InsideIsIdle, HeadIsFirst
    <3>3. QED
      BY <2>2, <3>1, <3>2 DEF Whole
  <2>3. \A ch \in Channels : ~Whole(ch)'
    <3>1. TAKE ch \in Channels
    <3>2. ch \in {"queue", "op"} => (Whole(ch)' <=> Whole(ch))
      BY <1>0, <2>1 DEF Whole, Channels, At, Working
    <3>3. QED
      BY <2>2, <3>2 DEF Whole
  <2>4. /\ KnownTo(server, ui) /\ ui.phase = "completed" /\ ui.seq \in Nat
        /\ Unstaged' <=> Unstaged
    BY <1>0, <1>3, AnswerTypes DEF Answers, AnswersAreKnown, Completed, Unstaged
  <2>5. AnswersAreKnown'
    BY <1>0, <2>1, <2>4, AnswerTypes
    DEF Answers, AnswersAreKnown, Grounded
  <2>6. PageIsCurrent' /\ AnswersAreCurrent'
    BY <1>0, <2>3, <2>4 DEF Answers, PageIsCurrent, AnswersAreCurrent
  <2>7. StagingIsCurrent'
    BY <1>0, <1>3, <2>1, <2>3, <2>4
    DEF StagingIsCurrent, Live, Sending, KnownTo
  <2>8. QED
    BY <1>0, <1>3, <2>1, <2>5, <2>6, <2>7 DEF Answers
<1>4. QED
  BY <1>1, <1>2, <1>3 DEF StageSends

LEMMA ReloadAnswers ==
  ASSUME ClientTypes, Answers, Reload
  PROVE  Answers'
<1>1. UNCHANGED server /\ \A ch \in Channels : calls'[ch].at = "none"
  BY DEF Reload, ClientTypes, CallsTyped, NoCall
<1>2. Seen(Snapshot(server)) \in Pages
  BY SnapshotIsTyped, SeenIsTyped DEF ClientTypes
<1>3. /\ Seen(Snapshot(server)).phase = server.phase
      /\ Seen(Snapshot(server)).seq = Len(server.log)
      /\ Seen(Snapshot(server)).comp =
           IF server.comp = "cancelled" THEN "none" ELSE server.comp
  BY DEF Seen, Snapshot, ClientTypes, Pages
<1>4. PICK seen : seen = Seen(Snapshot(server)) /\ seen \in Pages
  BY <1>2
<1>5. ui' = [seen EXCEPT !.open = Unfinished, !.load = @ + 1, !.held = FALSE,
                         !.error = FALSE, !.suppress = FALSE, !.attempted = 0]
  BY <1>4 DEF Reload
<1>6. /\ ui'.phase = server.phase /\ ui'.seq = Len(server.log)
      /\ ui'.comp = IF server.comp = "cancelled" THEN "none" ELSE server.comp
  BY <1>3, <1>4, <1>5 DEF Pages
<1>7. /\ calls'["stage"].at = "none" /\ calls'["look"].at = "none"
      /\ Len(server.log) \in Nat
  BY <1>1, AnswerTypes
<1>8. AnswersAreKnown'
  BY <1>1, <1>6, <1>7 DEF Answers, AnswersAreKnown, Grounded, Unstaged, KnownTo,
                          OlderThan
<1>9. PageIsCurrent' /\ AnswersAreCurrent'
  BY <1>1, <1>6 DEF PageIsCurrent, AnswersAreCurrent, Whole
<1>10. StagingIsCurrent'
  BY <1>7 DEF StagingIsCurrent, Live, Sending
<1>11. QED
  BY <1>8, <1>9, <1>10 DEF Answers

\* Each step of the page learns what it was answered, and no more.
LEMMA QuietOp ==
  ASSUME ClientTypes, Shape, Flush \/ Await \/ Held \/ SendStep \/ Local
  PROVE  /\ Working /\ op.steps[1] \notin Asking \cup {"stage", "staged"}
         /\ UNCHANGED <<server, calls, staging, late, faults>>
         /\ Keeps /\ ui'.sawCancelled = ui.sawCancelled /\ PageStep
         /\ calls["op"].at = "none"
<1>1. /\ Working
      /\ op.steps[1] \in {"flush", "await", "held", "advanceIfStudying",
                          "requeue", "suppress", "release", "retry",
                          "stageIfCompleted", "closeIfStaged", "reset"}
                         \cup Commanding
  BY HeadIsFirst DEF Flush, Await, Held, SendStep, Local, At
<1>2. op.steps[1] \notin Asking \cup {"stage", "staged"}
  BY <1>1 DEF Asking, Commanding
<1>3. UNCHANGED <<server, calls, staging, late, faults>>
  BY DEF Flush, Await, Held, SendStep, Local, net
<1>4. ui \in Pages
  BY DEF ClientTypes
<1>5. Keeps /\ ui'.sawCancelled = ui.sawCancelled
  <2>1. CASE UNCHANGED ui
    BY <2>1 DEF Keeps, SameStudy
  <2>2. CASE Throw(ui)
    BY <1>4, <2>2, Throws DEF Keeps, SameStudy
  <2>3. CASE \/ ui' = [ui EXCEPT !.held = FALSE]
             \/ ui' = [ui EXCEPT !.suppress = TRUE]
             \/ ui' = [ui EXCEPT !.suppress = FALSE]
             \/ ui' = [ui EXCEPT !.open = FALSE]
    BY <1>4, <2>3 DEF Keeps, SameStudy, Pages
  <2>4. QED
    BY <2>1, <2>2, <2>3 DEF Flush, Await, Held, SendStep, Local
<1>6. calls["op"].at = "none"
  BY <1>1, <1>2 DEF Shape, CallsAwaited
<1>7. QED
  BY <1>1, <1>2, <1>3, <1>5, <1>6 DEF PageStep

\* A call on the operation's channel is made, or its answer is used up.
LEMMA OpCallStep ==
  ASSUME ClientTypes, Hang("op") \/ (\E req : Call("op", req))
  PROVE  /\ calls'["op"].at \in {"none", "sent"}
         /\ \A ch \in Channels \ {"op"} : calls'[ch] = calls[ch]
  BY AnswerTypes, HangsUp, Calls1 DEF Channels

LEMMA OpCallPage ==
  ASSUME ClientTypes, Hang("op") \/ (\E req : Call("op", req)),
         UNCHANGED server, Keeps \/ Forgets \/ SeesStudy \/ SeesCompletion
  PROVE  PageStep
BY OpCallStep DEF PageStep, Channels

LEMMA CancelPage ==
  ASSUME ClientTypes, Shape, AskingIsFlushed, CancelStep
  PROVE  PageStep /\ Working
<1>0. ui \in Pages /\ CallsTyped /\ "op" \in Channels /\ UNCHANGED server
  BY DEF CancelStep, ClientTypes, Channels
<1>1. CASE At("cancel") /\ Continue /\ UNCHANGED <<ui, calls>>
  <2>1. Working /\ op.steps[1] = "cancel"
    BY <1>1, HeadIsFirst DEF At
  <2>2. calls["op"].at = "none"
    BY <2>1 DEF Shape, CallsAwaited, Asking
  <2>3. QED
    BY <1>0, <1>1, <2>1, <2>2 DEF PageStep, Keeps, SameStudy
<1>2. CASE \/ Ask("cancel", "cancel", "cancelling")
           \/ Ask("cancelling", "fetch", "recancelling")
  <2>1. (\E req : Call("op", req)) /\ UNCHANGED ui /\ Working
    BY <1>2 DEF Ask, At
  <2>2. QED
    BY <1>0, <2>1, OpCallPage DEF Keeps, SameStudy
<1>3. CASE /\ At("cancelling") \/ At("recancelling")
           /\ Call("op", [call |-> "fetch"])
           /\ ui' = [ui EXCEPT !.comp = "none", !.fresh = TRUE]
  <2>1. Forgets
    BY <1>0, <1>3 DEF Forgets, SameStudy, Pages
  <2>2. QED
    BY <1>0, <1>3, <2>1, OpCallPage DEF At
<1>4. CASE /\ At("recancelling") /\ Answered("op") /\ Hang("op")
           /\ Throw(SeenCompletion(calls["op"].got))
  <2>1. Working /\ op.steps[1] = "recancelling"
    BY <1>4, HeadIsFirst DEF At
  <2>2. calls["op"].got \in Snapshots
    BY <1>0, <1>4, GotIsTyped DEF Answered
  <2>3. ui.comp # "none"
    BY <2>1 DEF AskingIsFlushed, Asking
  <2>4. SeesCompletion
    <3>1. /\ SeenCompletion(calls["op"].got) \in Pages
          /\ SeenCompletion(calls["op"].got).phase = ui.phase
          /\ SeenCompletion(calls["op"].got).seq = ui.seq
          /\ SeenCompletion(calls["op"].got).comp = calls["op"].got.comp
      BY <2>2, SeenKeeps
    <3>2. SameStudy /\ ui'.comp = calls["op"].got.comp
      BY <1>4, <3>1, Throws DEF SameStudy
    <3>3. QED
      BY <1>0, <1>4, <2>3, <3>2 DEF SeesCompletion, Answered
  <2>5. QED
    BY <1>0, <1>4, <2>1, <2>4, OpCallPage
<1>5. CASE /\ Answered("op") /\ At("fetching") /\ Hang("op")
           /\ ui' = Seen(calls["op"].got)
  <2>1. calls["op"].got \in Snapshots
    BY <1>0, <1>5, GotIsTyped DEF Answered
  <2>2. SeesStudy
    BY <1>0, <1>5, <2>1, SeenKeeps DEF SeesStudy, Whole, Answered
  <2>3. QED
    BY <1>0, <1>5, <2>2, OpCallPage DEF At
<1>6. CASE /\ At("fetching") \/ At("recancelling")
           /\ Throw(ui) /\ Hang("op")
  <2>1. Throw(ui) => Keeps
    BY <1>0, Throws DEF Keeps, SameStudy
  <2>2. QED
    BY <1>0, <1>6, <2>1, OpCallPage DEF At
<1>7. QED
  BY <1>1, <1>2, <1>3, <1>4, <1>5, <1>6 DEF CancelStep

LEMMA ShutPage ==
  ASSUME ClientTypes, Shape, AskingIsFlushed, ShutStep
  PROVE  PageStep /\ Working
<1>0. ui \in Pages /\ CallsTyped /\ "op" \in Channels /\ UNCHANGED server
  BY DEF ShutStep, ClientTypes, Channels
<1>1. Throw(ui) => Keeps
  BY <1>0, Throws DEF Keeps, SameStudy
<1>2. CASE /\ At("shut") /\ UNCHANGED calls
           /\ Throw(ui) \/ (Continue /\ UNCHANGED ui)
  <2>1. Working /\ op.steps[1] = "shut"
    BY <1>2, HeadIsFirst DEF At
  <2>2. calls["op"].at = "none"
    BY <2>1 DEF Shape, CallsAwaited, Asking
  <2>3. Keeps
    BY <1>1, <1>2 DEF Keeps, SameStudy
  <2>4. QED
    BY <1>0, <1>2, <2>1, <2>2, <2>3 DEF PageStep
<1>3. CASE \/ Ask("shut", "close", "shutting")
           \/ Ask("shutting", "fetch", "reshutting")
  <2>1. (\E req : Call("op", req)) /\ UNCHANGED ui /\ Working
    BY <1>3 DEF Ask, At
  <2>2. QED
    BY <1>0, <2>1, OpCallPage DEF Keeps, SameStudy
<1>4. CASE /\ Answered("op") /\ (At("shutting") \/ At("reshutting"))
           /\ Hang("op")
           /\ \/ ui' = SeenCompletion(calls["op"].got)
              \/ Throw(SeenCompletion(calls["op"].got))
  <2>1. Working /\ op.steps[1] \in {"shutting", "reshutting"}
    BY <1>4, HeadIsFirst DEF At
  <2>2. calls["op"].got \in Snapshots
    BY <1>0, <1>4, GotIsTyped DEF Answered
  <2>3. ui.comp # "none"
    BY <2>1 DEF AskingIsFlushed, Asking
  <2>4. SameStudy /\ ui'.comp = calls["op"].got.comp
    <3>1. /\ SeenCompletion(calls["op"].got) \in Pages
          /\ SeenCompletion(calls["op"].got).phase = ui.phase
          /\ SeenCompletion(calls["op"].got).seq = ui.seq
          /\ SeenCompletion(calls["op"].got).comp = calls["op"].got.comp
      BY <2>2, SeenKeeps
    <3>2. QED
      BY <1>4, <3>1, Throws DEF SameStudy
  <2>5. SeesCompletion
    BY <1>0, <1>4, <2>3, <2>4 DEF SeesCompletion, Answered
  <2>6. QED
    BY <1>0, <1>4, <2>1, <2>5, OpCallPage
<1>5. CASE At("reshutting") /\ Throw(ui) /\ Hang("op")
  BY <1>0, <1>1, <1>5, OpCallPage DEF At
<1>6. QED
  BY <1>2, <1>3, <1>4, <1>5 DEF ShutStep

LEMMA StagePage ==
  ASSUME ClientTypes, Shape, StageStep \/ StageEnds \/ StageSucceeds
  PROVE  PageStep
<1>0. ui \in Pages /\ CallsTyped /\ UNCHANGED server
      /\ {"queue", "op", "stage", "look"} = Channels
  BY AnswerTypes DEF StageStep, StageEnds, StageSucceeds
<1>1. CASE StageStep
  <2>1. Working /\ op.steps[1] \in {"stage", "staged"}
    BY <1>1, HeadIsFirst DEF StageStep, At
  <2>2. calls["op"].at = "none"
    BY <2>1 DEF Shape, CallsAwaited, Asking
  <2>3. UNCHANGED <<ui, calls>>
    BY <1>1 DEF StageStep, net
  <2>4. QED
    BY <1>0, <2>2, <2>3 DEF PageStep, Keeps, SameStudy
<1>2. ASSUME StageEnds \/ StageSucceeds
      PROVE  /\ calls'["stage"].at = "none"
             /\ \A ch \in Channels \ {"stage"} : calls'[ch] = calls[ch]
  <2>1. CASE UNCHANGED calls /\ staging = "flush"
    BY <2>1 DEF Shape, CallsAwaited
  <2>2. CASE Hang("stage")
    BY <1>0, <2>2, HangsUp
  <2>3. QED
    BY <1>2, <2>1, <2>2 DEF StageEnds, StageSucceeds
<1>3. CASE StageEnds
  <2>1. Keeps /\ (UNCHANGED op \/ Ends)
    <3>1. CASE At("staged")
      BY <1>0, <1>3, <3>1, Throws DEF StageEnds, Keeps, SameStudy
    <3>2. CASE ~At("staged")
      BY <1>0, <1>3, <3>2 DEF StageEnds, Keeps, SameStudy, Pages
    <3>3. QED
      BY <3>1, <3>2
  <2>2. At("fetching")' => At("fetching")
    BY <2>1 DEF At, Working, Ends
  <2>3. QED
    BY <1>0, <1>2, <1>3, <2>1, <2>2 DEF PageStep
<1>4. CASE StageSucceeds
  <2>1. calls["stage"].got \in Snapshots /\ calls["stage"].at = "answered"
    BY <1>0, <1>4, GotIsTyped DEF StageSucceeds, Answered
  <2>2. SeesCompletion
    BY <1>0, <1>2, <1>4, <2>1, SeenKeeps
    DEF StageSucceeds, SeesCompletion, SameStudy
  <2>3. At("fetching")' => At("fetching")
    BY <1>4 DEF At, Working, StageSucceeds
  <2>4. QED
    BY <1>0, <1>2, <1>4, <2>2, <2>3 DEF PageStep
<1>5. QED
  BY <1>1, <1>3, <1>4

LEMMA QueuePage ==
  ASSUME ClientTypes, QueueStep \/ AutoStage
  PROVE  PageStep /\ UNCHANGED op
<1>0. /\ ui \in Pages /\ CallsTyped /\ UNCHANGED <<server, op>>
      /\ {"queue", "op", "stage", "look"} = Channels
  BY AnswerTypes DEF QueueStep, Pump, Acknowledge, Stop, AutoStage, page
<1>1. At("fetching")' <=> At("fetching")
  BY <1>0 DEF At, Working
<1>2. /\ calls'["queue"].at = "answered" => calls'["queue"] = calls["queue"]
      /\ \A ch \in Channels \ {"queue"} : calls'[ch] = calls[ch]
  <2>1. CASE UNCHANGED calls
    BY <2>1
  <2>2. CASE Hang("queue")
    BY <1>0, <2>2, HangsUp
  <2>3. ASSUME NEW req, Call("queue", req)
        PROVE  /\ calls'["queue"].at # "answered"
               /\ \A ch \in Channels \ {"queue"} : calls'[ch] = calls[ch]
    BY <1>0, <2>3, Calls1
  <2>4. QED
    BY <2>1, <2>2, <2>3 DEF QueueStep, Pump, Acknowledge, Stop, AutoStage, net
<1>3. Keeps \/ SeesStudy
  <2>1. CASE Acknowledge
    <3>1. calls["queue"].got \in Snapshots /\ calls["queue"].at = "answered"
      BY <1>0, <2>1, GotIsTyped DEF Acknowledge, Answered
    <3>2. QED
      BY <1>0, <2>1, <3>1, SeenKeeps DEF Acknowledge, SeesStudy, Whole
  <2>2. CASE Pump \/ Stop \/ AutoStage
    BY <1>0, <2>2 DEF Pump, Stop, AutoStage, page, Keeps, SameStudy, Pages
  <2>3. QED
    BY <2>1, <2>2 DEF QueueStep
<1>4. QED
  BY <1>0, <1>1, <1>2, <1>3 DEF PageStep

LEMMA EventPage ==
  ASSUME ClientTypes, Leave \/ Look \/ LookSeen \/ Hold \/ Discard \/ React
  PROVE  /\ PageStep /\ UNCHANGED <<op, staging>>
         /\ \A ch \in Channels \ {"look"} : calls'[ch] = calls[ch]
<1>0. /\ ui \in Pages /\ CallsTyped /\ UNCHANGED <<server, op, staging>>
      /\ {"queue", "op", "stage", "look"} = Channels
  BY AnswerTypes DEF Leave, Look, LookSeen, Hold, Discard, React, page
<1>1. At("fetching")' <=> At("fetching")
  BY <1>0 DEF At, Working
<1>2. /\ calls'["look"].at = "answered" => calls'["look"] = calls["look"]
      /\ calls'["look"].at # "none" => calls["look"].at # "none" \/ ui.comp # "none"
      /\ \A ch \in Channels \ {"look"} : calls'[ch] = calls[ch]
  <2>1. CASE UNCHANGED calls
    BY <2>1
  <2>2. CASE Hang("look")
    BY <1>0, <2>2, HangsUp
  <2>3. CASE Look
    <3>1. Call("look", [call |-> "fetch"]) /\ ui.comp # "none"
      BY <2>3 DEF Look
    <3>2. QED
      BY <1>0, <3>1, Calls1
  <2>4. QED
    BY <2>1, <2>2, <2>3 DEF Leave, LookSeen, Hold, Discard, React, net
<1>3. Keeps \/ SeesCompletion
  <2>1. CASE LookSeen
    <3>1. CASE Answered("look") /\ ui.comp # "none"
      <4>1. calls["look"].got \in Snapshots /\ calls["look"].at = "answered"
        BY <1>0, <3>1, GotIsTyped DEF Answered
      <4>2. QED
        BY <1>0, <2>1, <3>1, <4>1, SeenKeeps
        DEF LookSeen, SeesCompletion, SameStudy
    <3>2. CASE ~(Answered("look") /\ ui.comp # "none")
      BY <2>1, <3>2 DEF LookSeen, Keeps, SameStudy
    <3>3. QED
      BY <3>1, <3>2
  <2>2. CASE Leave \/ Look \/ Hold \/ Discard \/ React
    BY <1>0, <2>2 DEF Leave, Look, Hold, Discard, React, page, Keeps,
                      SameStudy, Pages
  <2>3. QED
    BY <2>1, <2>2
<1>4. QED
  BY <1>0, <1>1, <1>2, <1>3 DEF PageStep

LEMMA StartsPage ==
  ASSUME ClientTypes, Shape, NEW s, Starts(s)
  PROVE  PageStep
<1>1. ~Working /\ UNCHANGED <<server, calls>> /\ Keeps
  BY DEF Starts, Keeps, SameStudy
<1>2. calls["op"].at = "none"
  BY <1>1 DEF Shape, CallsAwaited
<1>3. QED
  BY <1>1, <1>2 DEF PageStep

LEMMA AnswersStep ==
  ASSUME ClientInv, Shape, Answers, AskingIsFlushed, [Next]_vars
  PROVE  Answers'
<1>0. ClientTypes /\ ClientTypes' /\ Grounded
  BY NextIsTyped DEF ClientInv, Answers, AnswersAreKnown
<1>1. CASE UNCHANGED vars
  <2>1. PageStep
    BY <1>1 DEF vars, page, net, PageStep, Keeps, SameStudy, At, Working
  <2>2. QED
    BY <1>0, <2>1, PageAnswers
<1>2. CASE OpStep \/ StageStep \/ StageEnds \/ StageSucceeds
  <2>1. PageStep
    BY <1>0, <1>2, QuietOp, CancelPage, ShutPage, StagePage DEF OpStep
  <2>2. QED
    BY <1>0, <2>1, PageAnswers
<1>3. CASE QueueStep \/ AutoStage \/ Leave \/ Look \/ LookSeen \/ Hold
           \/ Discard \/ React
  <2>1. PageStep
    BY <1>0, <1>3, QueuePage, EventPage
  <2>2. QED
    BY <1>0, <2>1, PageAnswers
<1>4. CASE Study \/ Revise \/ Home \/ Retry \/ Deadline
  <2>1. PageStep
    BY <1>0, <1>4, OperationStarts, StartsPage
  <2>2. QED
    BY <1>0, <2>1, PageAnswers
<1>5. CASE \/ \E ch \in Channels : Serve(ch) \/ Lose(ch)
           \/ CloseFails \/ WindowEnds \/ WorkerCloses
           \/ \E e \in late : Arrive(e)
  <2>1. ServerStep
    BY <1>0, <1>5, ServeMoves, OtherMoves
  <2>2. QED
    BY <1>0, <2>1, ServerAnswers
<1>6. QED
  BY <1>0, <1>1, <1>2, <1>3, <1>4, <1>5, StageSendsStep, ReloadAnswers
  DEF Next, StagingStep, Learner

-----------------------------------------------------------------------------
(* What waits in the queue while the page stages, closes and cancels.      *)

\* What the learner did is in the log before a request to stage arrives.
NothingIsLeftOut ==
  Live => \A i \in DOMAIN queue : Matters(queue[i]) => Recognised(queue[i])

\* A boundary that finds a staging run under way finds it out of date.
BoundaryIsLate ==
  (Reopens /\ op.steps[1] \in {"suppress", "staged"}) =>
    /\ op.steps[1] = "suppress" => staging # "flush"
    /\ ~(Live /\ Unstaged)

\* What is decided before a completion is known meets none under way.
Decides == Range(op.steps) \cap Deciding # {}
WorkIsEarly ==
  Decides =>
    /\ DecidesFirst(op.steps) /\ staging # "flush" /\ ~Live
    /\ op.steps[1] \in {"flush", "held"} => queue = <<>> /\ ~Completed
    /\ (op.steps[1] = "await" /\ InQueue(op.own)) =>
         ~Completed /\ queue[1].id = op.own
HeldIsEarly ==
  (ui.held /\ "held" \in Range(op.steps)) =>
    HeldFirst(op.steps) /\ queue = <<>> /\ ~Completed
AdvanceIsEarly ==
  ui.held => /\ AdvancesSoon(op.steps)
             /\ (Working /\ op.steps[1] = "advanceIfStudying") => queue = <<>>
DecidedBefore == ~Reopens => WorkIsEarly /\ HeldIsEarly /\ AdvanceIsEarly

\* Nothing waits in the queue where a completion is closed or cancelled.
NextIsShut == 2 \in DOMAIN op.steps /\ op.steps[2] = "shut"
QueueIsFlushed ==
  /\ (Working /\ op.steps[1] = "stage" /\ NextIsShut) => queue = <<>>
  /\ (Working /\ op.steps[1] = "staged" /\ NextIsShut) =>
       /\ staging = "idle" => queue = <<>> \/ ui.comp = "none"
       /\ (Live \/ calls["stage"].at = "answered") => queue = <<>>
  /\ (Working /\ op.steps[1] = "shut") =>
       queue = <<>> \/ (ui.comp = "none" /\ staging = "idle")
  /\ (Working /\ op.steps[1] = "cancel") => queue = <<>>
  /\ AskingIsFlushed

QueueInv == NothingIsLeftOut /\ BoundaryIsLate /\ DecidedBefore /\ QueueIsFlushed

LEMMA LiveIsSeen ==
  ASSUME ClientTypes, Answers, Live
  PROVE  Completed /\ ui.seq = Len(server.log)
<1>1. /\ ui.seq >= Len(server.log) /\ ui.seq <= Len(server.log)
      /\ server.phase = "completed"
  BY DEF Answers, AnswersAreKnown, StagingIsCurrent, KnownTo, Live
<1>2. ui.seq = Len(server.log)
  BY <1>1, AnswerTypes
<1>3. QED
  BY <1>1, <1>2 DEF Answers, AnswersAreKnown, KnownTo, Completed

\* Only what the server logs makes a request to stage stale.
LEMMA LiveWas ==
  ASSUME ClientTypes, ClientTypes', Shape, Answers, ServerStep
  PROVE  /\ Live' => Live /\ server'.log = server.log
         /\ (Live' /\ Unstaged') => Unstaged
<1>1. SUFFICES ASSUME Live'
               PROVE  /\ Live /\ server'.log = server.log
                      /\ Unstaged' => Unstaged
  OBVIOUS
<1>2. /\ calls'["stage"] = calls["stage"] /\ Sending
      /\ calls["stage"].req.seq = Len(server'.log)
  BY <1>1, AnswerTypes DEF ServerStep, Settles, Live, Sending
<1>3. ~Logs
  BY <1>2, AnswerTypes DEF Logs, Answers, StagingIsCurrent, Sending
<1>4. ~Stages
  BY <1>2 DEF Stages, Sending
<1>5. ~TakesBack
  BY <1>2, InsideIsIdle, HeadIsFirst DEF TakesBack
<1>6. server'.log = server.log
  BY <1>3, <1>4, <1>5 DEF ServerStep, ServerMoves, GoesOn, StandsStill
<1>7. Unstaged' => Unstaged
  BY <1>3, <1>4, <1>5 DEF ServerStep, ServerMoves, GoesOn, Unstaged
<1>8. QED
  BY <1>2, <1>6, <1>7 DEF Live

LEMMA ServerQueueInv ==
  ASSUME ClientTypes, ClientTypes', Shape, Answers, QueueInv, ServerStep
  PROVE  QueueInv'
<1>1. /\ UNCHANGED <<queue, ui, op, staging>>
      /\ Live' => Live /\ server'.log = server.log
      /\ (Live' /\ Unstaged') => Unstaged
      /\ calls'["stage"].at = "answered" => calls["stage"].at = "answered" \/ Live
  BY LiveWas DEF ServerStep, page
<1>2. NothingIsLeftOut'
  BY <1>1 DEF QueueInv, NothingIsLeftOut, Recognised
<1>3. BoundaryIsLate'
  BY <1>1 DEF QueueInv, BoundaryIsLate, Reopens
<1>4. DecidedBefore'
  BY <1>1 DEF QueueInv, DecidedBefore, WorkIsEarly, HeldIsEarly, AdvanceIsEarly,
              Reopens, Decides, Working, Completed, InQueue
<1>5. QueueIsFlushed'
  BY <1>1 DEF QueueInv, QueueIsFlushed, AskingIsFlushed, NextIsShut, Working
<1>6. QED
  BY <1>2, <1>3, <1>4, <1>5 DEF QueueInv

\* What a step of the operation does to an invariant of the queue.
LEMMA ReopensBefore ==
  ASSUME ClientTypes, Shape, NEW new, Moves(new)
  PROVE  /\ Reopens' => Reopens
         /\ (Reopens /\ ~Reopens') =>
              \A i \in DOMAIN op'.steps : op'.steps[i] = "stage"
         /\ (Reopens /\ op.steps[1] # "suppress" /\ Reopens') =>
              op'.steps[1] \notin {"suppress", "staged"}
<1>0. /\ Rewrite(op.steps[1], new) /\ Working
      /\ \A i \in 1..Len(new) : new[i] # "release"
      /\ \A i \in DOMAIN op'.steps :
           IF i <= Len(new) THEN op'.steps[i] = new[i] /\ i \in DOMAIN new
           ELSE /\ i - Len(new) + 1 \in DOMAIN op.steps
                /\ i - Len(new) + 1 # 1
                /\ op'.steps[i] = op.steps[i - Len(new) + 1]
      /\ DOMAIN new = 1..Len(new)
      /\ \A i \in DOMAIN op.steps : i # 1 =>
           /\ Len(new) + i - 1 \in DOMAIN op'.steps
           /\ op'.steps[Len(new) + i - 1] = op.steps[i]
  <2>1. Rewrite(op.steps[1], new) /\ Working
    BY DEF Moves
  <2>2. \A i \in 1..Len(new) : new[i] # "release"
    BY <2>1, RewriteLengths
  <2>3. DOMAIN new = 1..Len(new)
    BY DEF Moves, Replaces
  <2>4. /\ \A i \in DOMAIN op'.steps :
             IF i <= Len(new) THEN op'.steps[i] = new[i] /\ i \in DOMAIN new
             ELSE /\ i - Len(new) + 1 \in DOMAIN op.steps
                  /\ i - Len(new) + 1 # 1
                  /\ op'.steps[i] = op.steps[i - Len(new) + 1]
        /\ \A i \in DOMAIN op.steps : i # 1 =>
             /\ Len(new) + i - 1 \in DOMAIN op'.steps
             /\ op'.steps[Len(new) + i - 1] = op.steps[i]
    BY ComesTo DEF Shape
  <2>5. QED
    BY <2>1, <2>2, <2>3, <2>4
<1>1. Reopens' => Reopens
  BY <1>0 DEF Reopens, Reopening, Range
<1>2. ASSUME Reopens, ~Reopens'
      PROVE  \A i \in DOMAIN op'.steps : op'.steps[i] = "stage"
  <2>1. PICK j \in DOMAIN op.steps : op.steps[j] = "release"
    BY <1>2 DEF Reopens, Reopening, Range
  <2>2. j = 1
    BY <1>0, <1>2, <2>1 DEF Reopens, Reopening, Range
  <2>3. op.steps[1] = "release"
    BY <2>1, <2>2
  <2>4. InsideFrom(op.steps, 0)
    BY <1>0, <2>3, InsideIsIdle, <1>2
  <2>5. new = <<>>
    BY <1>0, <2>3 DEF Rewrite, Commanding
  <2>6. ASSUME NEW i \in DOMAIN op'.steps
        PROVE  op'.steps[i] = "stage"
    <3>1. /\ DOMAIN op'.steps = 1..(Len(op.steps) - 1)
          /\ DOMAIN op.steps = 1..Len(op.steps) /\ Len(op.steps) \in Nat
      BY <2>5 DEF Moves, Replaces
    <3>2. i - 0 + 1 \in DOMAIN op.steps /\ op'.steps[i] = op.steps[i - 0 + 1]
      BY <1>0, <2>5, <3>1
    <3>3. i + 1 \in DOMAIN op.steps /\ op'.steps[i] = op.steps[i + 1]
          /\ i + 1 > 1
      BY <3>1, <3>2
    <3>4. QED
      BY <2>1, <2>2, <2>4, <3>3 DEF InsideFrom
  <2>7. QED
    BY <2>6
<1>3. ASSUME Reopens, op.steps[1] # "suppress", Reopens'
      PROVE  op'.steps[1] \notin {"suppress", "staged"}
  <2>1. PICK j \in DOMAIN op'.steps : op'.steps[j] = "release"
    BY <1>3 DEF Reopens, Reopening, Range
  <2>2. DOMAIN op'.steps = 1..Len(op'.steps) /\ Len(op'.steps) \in Nat
    BY DEF Moves, Replaces
  <2>3. 1 \in DOMAIN op'.steps
    BY <2>1, <2>2
  <2>4. InsideFrom(op'.steps, 0)
    <3>1. CASE op.steps[1] = "staged"
      <4>1. InsideFrom(op.steps, 1)
        <5>1. \/ InsideFrom(op.steps, 1)
              \/ InsideFrom(op.steps, 0)
          BY <1>3, <3>1 DEF Shape, StagingIsHeldOff, HeldOff, Reopens
        <5>2. ~InsideFrom(op.steps, 0)
          <6>1. PICK k \in DOMAIN op.steps : op.steps[k] = "release"
            BY <1>3 DEF Reopens, Reopening, Range
          <6>2. 1 \in DOMAIN op.steps /\ 0 < 1 /\ k # 1
            BY <1>0, <3>1, <6>1, HeadIsFirst
          <6>3. DOMAIN op.steps = 1..Len(op.steps) /\ Len(op.steps) \in Nat
            BY DEF Moves, Replaces
          <6>4. 1 < k
            BY <6>1, <6>2, <6>3
          <6>5. "staged" \notin Inner
            BY DEF Inner
          <6>6. QED
            BY <3>1, <6>1, <6>2, <6>4, <6>5 DEF InsideFrom
        <5>3. QED
          BY <5>1, <5>2
      <4>2. Len(new) = 0
        BY <1>0, <3>1, RewriteLengths
      <4>3. \A i \in 1..Len(new) : new[i] \in Inner
        BY <4>2
      <4>4. QED
        BY <4>1, <4>2, <4>3, InsideReplaced DEF Moves
    <3>2. CASE op.steps[1] # "staged"
      <4>1. InsideFrom(op.steps, 0)
        BY <1>0, <1>3, <3>2, InsideIsIdle
      <4>2. op.steps[1] \in Inner
        <5>1. PICK k \in DOMAIN op.steps : op.steps[k] = "release"
          BY <1>3 DEF Reopens, Reopening, Range
        <5>2. DOMAIN op.steps = 1..Len(op.steps) /\ Len(op.steps) \in Nat
          BY DEF Moves, Replaces
        <5>3. op.steps[1] # "release"
          <6>1. ASSUME op.steps[1] = "release"
                PROVE  FALSE
            <7>1. new = <<>>
              BY <1>0, <6>1 DEF Rewrite, Commanding
            <7>2. j - 0 + 1 \in DOMAIN op.steps /\ j - 0 + 1 # 1
                  /\ op'.steps[j] = op.steps[j - 0 + 1]
              BY <1>0, <2>1, <2>2, <7>1
            <7>3. j + 1 > 1 /\ j + 1 \in DOMAIN op.steps
                  /\ op.steps[j + 1] = "release" /\ 1 \in DOMAIN op.steps
              BY <2>1, <2>2, <5>2, <7>2
            <7>4. QED
              BY <4>1, <6>1, <7>3 DEF InsideFrom
          <6>2. QED
            BY <6>1
        <5>4. 1 < k /\ 1 \in DOMAIN op.steps
          BY <5>1, <5>2, <5>3
        <5>5. QED
          BY <4>1, <5>1, <5>4 DEF InsideFrom
      <4>3. \A i \in 1..Len(new) : new[i] \in Inner
        BY <1>0, <4>2, RewriteLengths
      <4>4. QED
        BY <4>1, <4>3, InsideReplaced DEF Moves
    <3>3. QED
      BY <3>1, <3>2
  <2>5. op'.steps[1] = "release" \/ op'.steps[1] \in Inner
    BY <2>1, <2>2, <2>3, <2>4 DEF InsideFrom
  <2>6. QED
    BY <2>5 DEF Inner
<1>4. QED
  BY <1>1, <1>2, <1>3

\* What a rewriting puts first, and what it never brings in.
LEMMA RewriteHeads ==
  ASSUME NEW h, NEW new, Rewrite(h, new)
  PROVE  /\ Len(new) > 0 =>
              /\ new[1] = "stage" => h = "stageIfCompleted"
              /\ new[1] = "staged" => h = "stage" /\ Len(new) = 1
              /\ new[1] = "await" => Len(new) = 1
              /\ new[1] \notin {"shut", "cancel", "suppress", "release", "held",
                                "advanceIfStudying"}
              /\ new[1] \in Asking \ {"fetching"} =>
                   /\ h \in {"cancel", "cancelling", "shut", "shutting"}
                   /\ h # "cancel" => h \in {"cancelling", "shut", "shutting"}
         /\ h \in {"await", "flush", "staged", "suppress", "release", "retry"} =>
              Len(new) = 0
         /\ h = "held" => Len(new) = 0 \/ (Len(new) = 1 /\ new[1] = "await")
         /\ h = "stage" => Len(new) # 0
         /\ \A i \in 1..Len(new) :
              /\ new[i] \notin Deciding \cup {"advanceIfStudying"}
              /\ new[i] = "held" => h \in {"advanceIfStudying", "requeue"}
         /\ (h = "advanceIfStudying" /\ Len(new) > 0) =>
              new[1] = "flush" /\ new[2] = "held" /\ Len(new) = 3
<1>1. CASE new = <<>>
  BY <1>1 DEF Rewrite, Commanding
<1>2. CASE h \in Commanding \cup {"held"} /\ new = <<"await">>
  BY <1>2 DEF Commanding, Asking, Deciding
<1>3. CASE h = "advanceIfStudying" /\ new = <<"flush", "held", "next">>
  BY <1>3 DEF Asking, Deciding
<1>4. CASE h = "requeue" /\ new = <<"revisit">>
  BY <1>4 DEF Asking, Deciding
<1>5. CASE /\ h = "requeue"
           /\ new = <<"resumeIfCompleted", "revisit", "flush", "held", "next">>
  BY <1>5 DEF Asking, Deciding
<1>6. CASE h = "stageIfCompleted" /\ new = <<"stage">>
  BY <1>6 DEF Asking, Deciding
<1>7. CASE h = "closeIfStaged" /\ new = <<"flush", "stage", "shut">>
  BY <1>7 DEF Asking, Deciding
<1>8. CASE h = "cancel" /\ new = <<"cancelling">>
  BY <1>8 DEF Asking, Deciding
<1>9. CASE h = "cancelling" /\ new \in {<<"fetching">>, <<"recancelling">>}
  BY <1>9 DEF Asking, Deciding
<1>10. CASE h = "recancelling" /\ new = <<"fetching">>
  BY <1>10 DEF Asking, Deciding
<1>11. CASE h = "shut" /\ new = <<"shutting">>
  BY <1>11 DEF Asking, Deciding
<1>12. CASE h = "shutting" /\ new = <<"reshutting">>
  BY <1>12 DEF Asking, Deciding
<1>13. CASE h = "stage" /\ new = <<"staged">>
  BY <1>13 DEF Asking, Deciding
<1>14. QED
  BY <1>1, <1>2, <1>3, <1>4, <1>5, <1>6, <1>7, <1>8, <1>9, <1>10, <1>11, <1>12,
     <1>13 DEF Rewrite

\* What a step of the operation does to the queue and to staging.
SentFor(kind) ==
  \/ kind = "next" \/ ~Completed
  \/ op.steps[1] \in Deciding \cup {"revisit", "undo", "resumeIfCompleted",
                                    "finishNowIfFinishing"}
  \/ op.steps[1] = "held" /\ ui.held
\* Steps that look at the completion before the operation may end.
Looking == {"cancel", "cancelling", "recancelling", "shut", "shutting",
            "reshutting", "closeIfStaged"}
LooksOn(new) == \/ \E i \in 1..Len(new) : new[i] \in Looking
                \/ ~Standing' \/ ui'.comp = "closed"
\* What the page holds of a completion taken back.
Orphans == ui'.comp = "cancelled" =>
             \/ ui'.sawCancelled
             \/ ui.comp = "cancelled" /\ ui'.sawCancelled = ui.sawCancelled
Learns(new) ==
  /\ op.steps[1] \notin Looking \cup {"fetching"} =>
       Keeps /\ ui'.sawCancelled = ui.sawCancelled /\ ui'.error = ui.error
  /\ op.steps[1] \in Looking => LooksOn(new)
  /\ op.steps[1] = "fetching" =>
       /\ calls["op"].at = "answered"
       /\ ~Standing' \/ ui'.comp = calls["op"].got.comp
  /\ Orphans
Goes(new) ==
  /\ Moves(new) /\ UNCHANGED server /\ calls'["stage"] = calls["stage"]
  /\ staging' = IF op.steps[1] = "stage" /\ staging = "idle" THEN "flush"
                ELSE staging
  /\ op.steps[1] \notin Asking => Keeps
  /\ ui'.held => ui.held /\ op.steps[1] # "held"
  /\ op.steps[1] = "staged" => staging = "idle"
  /\ op.steps[1] = "flush" => queue = <<>>
  /\ (op.steps[1] = "advanceIfStudying" /\ Len(new) > 0) => ~Completed
  /\ (Len(new) > 0 /\ new[1] \in Asking \ {"fetching"}) =>
       Keeps /\ ui.comp # "none"
  /\ \/ queue' = queue /\ (Len(new) > 0 => new[1] # "await")
     \/ /\ new = <<"await">> /\ op'.own = issued + 1
        /\ \E kind \in Kinds : Enqueue(kind) /\ SentFor(kind)
  /\ Learns(new)
GivesUp ==
  /\ Ends /\ UNCHANGED <<server, queue>> /\ calls'["stage"] = calls["stage"]
  /\ ui'.error /\ Orphans

\* A step that goes on and changes nothing of these.
LEMMA GoesQuietly ==
  ASSUME ClientTypes, NEW new, Moves(new),
         UNCHANGED <<server, queue, calls, staging>>, Keeps, ui'.held = ui.held,
         op.steps[1] \notin Asking \cup {"held", "stage", "flush", "staged"},
         op.steps[1] = "advanceIfStudying" => ~Completed \/ new = <<>>,
         Len(new) > 0 => new[1] \notin Asking \cup {"await"},
         ui'.sawCancelled = ui.sawCancelled, ui'.error = ui.error,
         op.steps[1] \in Looking => LooksOn(new)
  PROVE  Goes(new)
<1>1. new = <<>> => Len(new) = 0
  OBVIOUS
<1>2. Learns(new)
  BY DEF Learns, Asking, Orphans, Keeps
<1>3. QED
  BY <1>1, <1>2 DEF Goes

\* An error shown changes nothing of the completion.
LEMMA ThrowGivesUp ==
  ASSUME ClientTypes, Throw(ui), UNCHANGED <<server, queue>>,
         calls'["stage"] = calls["stage"]
  PROVE  GivesUp
<1>1. ui \in Pages
  BY DEF ClientTypes
<1>2. QED
  BY <1>1, Throws DEF GivesUp, Orphans
\* A step of the operation that says nothing of a completion.
LEMMA LearnsNothing ==
  ASSUME NEW new, op.steps[1] \notin Looking \cup {"fetching"}, Keeps,
         ui'.sawCancelled = ui.sawCancelled, ui'.error = ui.error
  PROVE  Learns(new)
BY DEF Learns, Orphans, Keeps

LEMMA QuietGoes ==
  ASSUME ClientTypes, Shape, Flush \/ Await \/ Held \/ SendStep
  PROVE  GivesUp \/ \E new : Goes(new)
<1>0. /\ Working /\ op.steps[1] \notin Asking \cup {"stage", "staged"}
      /\ UNCHANGED <<server, calls, staging>> /\ Keeps
      /\ ui'.sawCancelled = ui.sawCancelled
  BY QuietOp
<1>l. ASSUME NEW new, ui'.error = ui.error
      PROVE  op.steps[1] \notin Looking => Learns(new)
  BY <1>0, <1>l, LearnsNothing DEF Asking
<1>e. <<>> = <<>> /\ Len(<<>>) = 0 /\ ui \in Pages
  BY DEF ClientTypes
<1>1. CASE Flush
  <2>1. op.steps[1] = "flush" /\ queue' = queue
    BY <1>0, <1>1, HeadIsFirst DEF Flush
  <2>2. CASE Throw(ui)
    BY <1>0, <2>1, <2>2, ThrowGivesUp
  <2>3. CASE queue = <<>> /\ Continue /\ UNCHANGED ui
    <3>1. Learns(<<>>)
      BY <1>l, <2>1, <2>3 DEF Looking
    <3>2. QED
      BY <1>0, <1>e, <2>1, <2>3, <3>1, Continues DEF Goes
  <2>4. QED
    BY <1>1, <2>2, <2>3 DEF Flush
<1>2. CASE Await
  <2>1. op.steps[1] = "await" /\ queue' = queue
    BY <1>0, <1>2, HeadIsFirst DEF Await
  <2>2. CASE Throw(ui)
    BY <1>0, <2>1, <2>2, ThrowGivesUp
  <2>3. CASE Continue /\ UNCHANGED ui
    <3>1. Learns(<<>>)
      BY <1>l, <2>1, <2>3 DEF Looking
    <3>2. QED
      BY <1>0, <1>e, <2>1, <2>3, <3>1, Continues DEF Goes
  <2>4. QED
    BY <1>2, <2>2, <2>3 DEF Await
<1>3. CASE Held
  <2>1. op.steps[1] = "held" /\ ~ui'.held /\ ui'.error = ui.error
    BY <1>0, <1>e, <1>3, HeadIsFirst DEF Held, Pages
  <2>l. \A new : Learns(new)
    BY <1>l, <2>1 DEF Looking
  <2>2. CASE ui.held
    <3>1. Issue("work") /\ "work" \in Kinds
      BY <1>3, <2>2 DEF Held, Kinds
    <3>2. Moves(<<"await">>) /\ op'.own = issued + 1
      BY <1>0, <2>1, <3>1, Issues
    <3>3. Len(<<"await">>) = 1 /\ <<"await">>[1] = "await"
      OBVIOUS
    <3>4. Enqueue("work") /\ SentFor("work")
      BY <2>1, <2>2, <3>1 DEF Issue, SentFor
    <3>5. "await" \notin Asking
      BY DEF Asking
    <3>6. Goes(<<"await">>)
      BY <1>0, <2>1, <2>l, <3>1, <3>2, <3>3, <3>4, <3>5 DEF Goes
    <3>7. QED
      BY <3>6
  <2>3. CASE ~ui.held
    <3>1. Continue /\ queue' = queue
      BY <1>3, <2>3 DEF Held
    <3>2. Moves(<<>>)
      BY <1>0, <2>1, <3>1, Continues
    <3>3. Goes(<<>>)
      BY <1>0, <1>e, <2>1, <2>l, <3>1, <3>2 DEF Goes
    <3>4. QED
      BY <3>3
  <2>4. QED
    BY <2>2, <2>3
<1>4. CASE SendStep
  <2>1. /\ op.steps[1] \in Commanding /\ Head(op.steps) = op.steps[1]
        /\ ui' = ui
    BY <1>0, <1>4, HeadIsFirst DEF SendStep
  <2>0. op.steps[1] \notin {"held", "flush", "advanceIfStudying"}
    BY <2>1 DEF Commanding
  <2>l. \A new : Learns(new)
    BY <1>l, <2>1 DEF Looking, Commanding
  <2>2. CASE Continue /\ queue' = queue
    <3>1. Moves(<<>>)
      BY <1>0, <2>2, Continues
    <3>2. Goes(<<>>)
      BY <1>0, <1>e, <2>0, <2>1, <2>l, <2>2, <3>1 DEF Goes
    <3>3. QED
      BY <3>2
  <2>3. CASE /\ SendNow(op.steps[1]) # "nothing"
             /\ Issue(SendNow(op.steps[1]))
    <3>1. PICK kind : kind = SendNow(op.steps[1])
      OBVIOUS
    <3>2. kind \in Kinds
      BY <2>1, <2>3, <3>1, SendsKinds
    <3>3. Moves(<<"await">>) /\ op'.own = issued + 1 /\ Enqueue(kind)
      BY <1>0, <2>1, <2>3, <3>1, Issues DEF Issue
    <3>4. SentFor(kind)
      BY <2>1, <2>3, <3>1 DEF SentFor, SendNow, Commanding, Deciding
    <3>5. "await" \notin Asking /\ <<"await">>[1] = "await"
      BY DEF Asking
    <3>6. Goes(<<"await">>)
      BY <1>0, <2>0, <2>1, <2>l, <3>2, <3>3, <3>4, <3>5 DEF Goes
    <3>7. QED
      BY <3>6
  <2>4. QED
    BY <1>4, <2>1, <2>2, <2>3 DEF SendStep
<1>5. QED
  BY <1>1, <1>2, <1>3, <1>4

LEMMA LocalGoes ==
  ASSUME ClientTypes, Shape, Local
  PROVE  GivesUp \/ \E new : Goes(new)
<1>0. /\ Working
      /\ op.steps[1] \in {"advanceIfStudying", "requeue", "suppress", "release",
                          "retry", "stageIfCompleted", "closeIfStaged", "reset"}
      /\ \A step : At(step) => op.steps[1] = step
  BY HeadIsFirst DEF Local, At
<1>1. op.steps[1] \notin Asking \cup {"held", "stage", "flush", "staged"}
  BY <1>0 DEF Asking
<1>2. /\ UNCHANGED <<server, queue, calls, staging>> /\ Keeps /\ ui \in Pages
      /\ ui'.sawCancelled = ui.sawCancelled
  BY QuietOp DEF Local, net, ClientTypes
<1>3. ASSUME NEW new, Rewrite(op.steps[1], new), Become(new),
             ui'.held = ui.held, ui'.error = ui.error,
             op.steps[1] = "advanceIfStudying" => ~Completed \/ new = <<>>,
             Len(new) > 0 => new[1] \notin Asking \cup {"await"},
             op.steps[1] = "closeIfStaged" => LooksOn(new)
      PROVE  \E n : Goes(n)
  <2>1. Moves(new)
    BY <1>0, <1>3, Becomes
  <2>2. op.steps[1] \in Looking => LooksOn(new)
    BY <1>0, <1>3 DEF Looking
  <2>3. Goes(new)
    BY <1>1, <1>2, <1>3, <2>1, <2>2, GoesQuietly
  <2>4. QED
    BY <2>3
<1>4. CASE /\ Continue /\ ui'.held = ui.held /\ ui'.error = ui.error
           /\ op.steps[1] = "closeIfStaged" => ui.comp \notin {"pending", "failed"}
  <2>1. PICK new : new = <<>>
    OBVIOUS
  <2>2. Rewrite(op.steps[1], new) /\ Become(new) /\ Len(new) = 0
    BY <1>1, <1>4, <2>1 DEF Continue, Rewrite
  <2>3. op.steps[1] = "closeIfStaged" => LooksOn(new)
    <3>1. ui.comp \in Comps /\ ui'.comp = ui.comp
      BY <1>2 DEF Pages, Keeps
    <3>2. QED
      BY <1>4, <3>1 DEF LooksOn, Standing, Comps
  <2>4. QED
    BY <1>3, <1>4, <2>1, <2>2, <2>3
<1>5. CASE At("advanceIfStudying") /\ UNCHANGED ui /\ ~Completed
           /\ Become(<<"flush", "held", "next">>)
  <2>1. PICK new : new = <<"flush", "held", "next">>
    OBVIOUS
  <2>2. new[1] \notin Asking \cup {"await"}
    BY <2>1 DEF Asking
  <2>3. QED
    BY <1>3, <1>0, <1>5, <2>1, <2>2 DEF Rewrite
<1>6. CASE At("requeue") /\ UNCHANGED ui
           /\ \/ Become(<<"revisit">>)
              \/ Become(<<"resumeIfCompleted", "revisit", "flush", "held",
                          "next">>)
  <2>1. PICK new : /\ Become(new)
                   /\ \/ new = <<"revisit">>
                      \/ new = <<"resumeIfCompleted", "revisit", "flush",
                                 "held", "next">>
    BY <1>6
  <2>2. new[1] \notin Asking \cup {"await"}
    BY <2>1 DEF Asking
  <2>3. QED
    BY <1>3, <1>0, <1>6, <2>1, <2>2 DEF Rewrite
<1>7. CASE At("stageIfCompleted") /\ UNCHANGED ui /\ Become(<<"stage">>)
  <2>1. PICK new : new = <<"stage">>
    OBVIOUS
  <2>2. new[1] \notin Asking \cup {"await"}
    BY <2>1 DEF Asking
  <2>3. QED
    BY <1>3, <1>0, <1>7, <2>1, <2>2 DEF Rewrite
<1>8. CASE At("closeIfStaged") /\ UNCHANGED ui
           /\ Become(<<"flush", "stage", "shut">>)
  <2>1. PICK new : new = <<"flush", "stage", "shut">>
    OBVIOUS
  <2>2. new[1] \notin Asking \cup {"await"}
    BY <2>1 DEF Asking
  <2>3. 3 \in 1..Len(new) /\ new[3] \in Looking
    BY <2>1 DEF Looking
  <2>4. LooksOn(new)
    BY <2>3 DEF LooksOn
  <2>5. QED
    BY <1>3, <1>0, <1>8, <2>1, <2>2, <2>4 DEF Rewrite
<1>9. CASE Throw(ui)
  BY <1>2, <1>9, ThrowGivesUp
<1>10. QED
  <2>1. CASE At("advanceIfStudying") /\ UNCHANGED ui
             /\ Become(IF Completed THEN <<>> ELSE <<"flush", "held", "next">>)
    BY <1>0, <1>4, <1>5, <2>1 DEF Continue
  <2>2. CASE At("requeue") /\ UNCHANGED ui
    BY <1>6, <1>0, <2>2 DEF Local
  <2>3. CASE Continue /\ \/ UNCHANGED ui
                         \/ ui' = [ui EXCEPT !.suppress = TRUE]
                         \/ ui' = [ui EXCEPT !.suppress = FALSE]
                         \/ ui' = [ui EXCEPT !.open = FALSE]
                    /\ op.steps[1] # "closeIfStaged"
    BY <1>2, <1>4, <2>3 DEF Pages
  <2>4. CASE At("stageIfCompleted") /\ UNCHANGED ui
             /\ Become(IF Completed THEN <<"stage">> ELSE <<>>)
    BY <1>0, <1>4, <1>7, <2>4 DEF Continue
  <2>5. CASE At("closeIfStaged") /\ UNCHANGED ui
             /\ Become(IF ui.comp \in {"pending", "failed"}
                       THEN <<"flush", "stage", "shut">> ELSE <<>>)
    BY <1>0, <1>4, <1>8, <2>5 DEF Continue
  <2>6. QED
    BY <1>0, <1>9, <2>1, <2>2, <2>3, <2>4, <2>5 DEF Local

\* A step that asks the server, once the queue is flushed.
LEMMA AskGoes ==
  ASSUME ClientTypes, Shape, NEW step,
         NEW request \in {"cancel", "close", "fetch"},
         NEW new \in {"cancelling", "recancelling", "shutting", "reshutting"},
         Rewrite(step, <<new>>), Ask(step, request, new),
         request = IF new = "cancelling" THEN "cancel"
                   ELSE IF new = "shutting" THEN "close" ELSE "fetch",
         step \in {"cancel", "cancelling", "shut", "shutting"},
         ui.comp # "none", UNCHANGED <<server, queue, failure, staging>>
  PROVE  \E n : Goes(n)
<1>1. Moves(<<new>>) /\ op.steps[1] = step
  BY AskShape
<1>2. calls'["stage"] = calls["stage"] /\ UNCHANGED ui
  <2>1. CallsTyped /\ "op" \in Channels /\ "stage" \in Channels \ {"op"}
    BY DEF ClientTypes, Channels
  <2>2. QED
    BY <2>1, Calls1 DEF Ask
<1>3. Len(<<new>>) = 1 /\ <<new>>[1] = new /\ new # "await"
      /\ <<new>> # <<"await">>
  OBVIOUS
<1>4. Learns(<<new>>)
  <2>1. 1 \in 1..Len(<<new>>) /\ <<new>>[1] \in Looking
    BY <1>3 DEF Looking
  <2>2. LooksOn(<<new>>)
    BY <2>1 DEF LooksOn
  <2>3. step \in Looking
    BY DEF Looking
  <2>4. QED
    BY <1>1, <1>2, <2>2, <2>3 DEF Learns, Orphans
<1>5. Goes(<<new>>)
  BY <1>1, <1>2, <1>3, <1>4 DEF Goes, Keeps, SameStudy
<1>6. QED
  BY <1>5

\* A step that has its answer goes on, or asks for the study.
LEMMA AnsweredGoes ==
  ASSUME ClientTypes, Shape, Working, op.steps[1] \in Asking, NEW new,
         Rewrite(op.steps[1], new), Become(new), new \in {<<>>, <<"fetching">>},
         calls'["stage"] = calls["stage"], ui'.held = ui.held,
         UNCHANGED <<server, queue, staging>>, Learns(new)
  PROVE  Goes(new)
<1>1. Moves(new)
  BY Becomes
<1>2. Len(new) > 0 => new[1] = "fetching"
  OBVIOUS
<1>3. op.steps[1] \notin {"held", "stage", "flush", "staged", "advanceIfStudying"}
  BY DEF Asking
<1>4. QED
  BY <1>1, <1>2, <1>3 DEF Goes

LEMMA CancelGoes ==
  ASSUME ClientTypes, Shape, AskingIsFlushed, CancelStep
  PROVE  GivesUp \/ \E new : Goes(new)
<1>0. /\ UNCHANGED <<server, queue, failure, staging>> /\ "op" \in Channels
      /\ "stage" \in Channels \ {"op"} /\ ui \in Pages /\ CallsTyped
      /\ \A step : At(step) <=> Working /\ op.steps[1] = step
  BY HeadIsFirst DEF CancelStep, Channels, ClientTypes
<1>1. CASE At("cancel") /\ ~Standing /\ Continue /\ UNCHANGED <<ui, calls>>
  <2>1. Working /\ op.steps[1] = "cancel"
    BY <1>0, <1>1
  <2>2. Moves(<<>>)
    BY <1>1, <2>1, Continues
  <2>3. LooksOn(<<>>)
    BY <1>1 DEF LooksOn, Standing
  <2>4. Goes(<<>>)
    BY <1>0, <1>1, <2>1, <2>2, <2>3, GoesQuietly DEF Asking, Keeps, SameStudy
  <2>5. QED
    BY <2>4
<1>2. CASE Standing /\ Ask("cancel", "cancel", "cancelling")
  <2>1. ui.comp # "none"
    BY <1>2 DEF Standing
  <2>2. QED
    BY <1>0, <1>2, <2>1, AskGoes DEF Rewrite
<1>3. CASE /\ Answered("op")
           /\ At("cancelling") \/ At("recancelling")
           /\ Call("op", [call |-> "fetch"]) /\ Become(<<"fetching">>)
           /\ ui' = [ui EXCEPT !.comp = "none", !.fresh = TRUE]
  <2>1. Working /\ op.steps[1] \in {"cancelling", "recancelling"}
    BY <1>0, <1>3
  <2>2. calls'["stage"] = calls["stage"]
    BY <1>0, <1>3, Calls1
  <2>3. ui'.held = ui.held /\ ui'.comp = "none"
    BY <1>0, <1>3 DEF Pages
  <2>l. \A n : Learns(n)
    BY <2>1, <2>3 DEF Learns, LooksOn, Standing, Orphans, Looking
  <2>4. PICK new : new = <<"fetching">>
    OBVIOUS
  <2>5. Rewrite(op.steps[1], new) /\ Become(new)
    BY <1>3, <2>1, <2>4 DEF Rewrite
  <2>6. QED
    BY <1>0, <2>1, <2>2, <2>3, <2>l, <2>4, <2>5, AnsweredGoes DEF Asking
<1>4. CASE Failed("op") /\ Ask("cancelling", "fetch", "recancelling")
  <2>1. At("cancelling")
    BY <1>4 DEF Ask
  <2>2. ui.comp # "none"
    BY <1>0, <2>1 DEF AskingIsFlushed, Asking
  <2>3. QED
    BY <1>0, <1>4, <2>2, AskGoes DEF Rewrite
<1>5. ASSUME NEW view \in Pages, Throw(view), Hang("op"),
             \/ view = ui
             \/ view.comp = "cancelled" => view.sawCancelled
      PROVE  GivesUp
  <2>1. calls'["stage"] = calls["stage"]
    BY <1>0, <1>5, HangsUp
  <2>2. /\ Ends /\ ui'.error /\ ui'.comp = view.comp
        /\ ui'.sawCancelled = view.sawCancelled
    BY <1>5, Throws
  <2>3. QED
    BY <1>0, <1>5, <2>1, <2>2 DEF GivesUp, Orphans
<1>6. CASE /\ Answered("op") /\ Hang("op") /\ At("recancelling")
           /\ Throw(SeenCompletion(calls["op"].got))
  <2>1. calls["op"].got \in Snapshots
    BY <1>0, <1>6, GotIsTyped DEF Answered
  <2>2. /\ SeenCompletion(calls["op"].got) \in Pages
        /\ SeenCompletion(calls["op"].got).comp = calls["op"].got.comp
        /\ SeenCompletion(calls["op"].got).sawCancelled =
             (ui.sawCancelled \/ calls["op"].got.comp = "cancelled")
    BY <2>1, SeenKeeps
  <2>3. QED
    BY <1>5, <1>6, <2>2
<1>7. CASE /\ Answered("op") /\ At("fetching") /\ Continue /\ Hang("op")
           /\ ui' = Seen(calls["op"].got)
  <2>1. Working /\ op.steps[1] = "fetching"
    BY <1>0, <1>7
  <2>2. calls["op"].got \in Snapshots
    BY <1>0, <1>7, GotIsTyped DEF Answered
  <2>3. /\ ui'.held = ui.held
        /\ ui'.comp = IF calls["op"].got.comp = "cancelled" THEN "none"
                      ELSE calls["op"].got.comp
    BY <1>7, <2>2, SeenKeeps
  <2>l. \A n : Learns(n)
    BY <1>7, <2>1, <2>3
    DEF Learns, LooksOn, Standing, Orphans, Looking, Answered
  <2>4. calls'["stage"] = calls["stage"]
    BY <1>0, <1>7, HangsUp
  <2>5. PICK new : new = <<>>
    OBVIOUS
  <2>6. Rewrite(op.steps[1], new) /\ Become(new)
    BY <1>7, <2>1, <2>5 DEF Rewrite, Continue
  <2>7. QED
    BY <1>0, <2>1, <2>3, <2>l, <2>4, <2>5, <2>6, AnsweredGoes DEF Asking
<1>8. CASE Throw(ui) /\ Hang("op")
  BY <1>0, <1>5, <1>8
<1>9. QED
  BY <1>1, <1>2, <1>3, <1>4, <1>6, <1>7, <1>8 DEF CancelStep

LEMMA ShutGoes ==
  ASSUME ClientTypes, Shape, AskingIsFlushed, ShutStep
  PROVE  GivesUp \/ \E new : Goes(new)
<1>0. /\ UNCHANGED <<server, queue, failure, staging>> /\ "op" \in Channels
      /\ "stage" \in Channels \ {"op"} /\ ui \in Pages /\ CallsTyped
      /\ \A step : At(step) <=> Working /\ op.steps[1] = step
  BY HeadIsFirst DEF ShutStep, Channels, ClientTypes
<1>1. CASE /\ At("shut") /\ UNCHANGED <<ui, calls>> /\ Continue
           /\ ui.comp = "closed"
  <2>1. Working /\ op.steps[1] = "shut"
    BY <1>0, <1>1
  <2>2. Moves(<<>>)
    BY <1>1, <2>1, Continues
  <2>3. LooksOn(<<>>)
    BY <1>1 DEF LooksOn
  <2>4. Goes(<<>>)
    BY <1>0, <1>1, <2>1, <2>2, <2>3, GoesQuietly DEF Asking, Keeps, SameStudy
  <2>5. QED
    BY <2>4
<1>2. CASE At("shut") /\ UNCHANGED calls /\ Throw(ui)
  BY <1>0, <1>2, ThrowGivesUp
<1>3. CASE ui.comp \notin {"none", "closed"} /\ Ask("shut", "close", "shutting")
  BY <1>0, <1>3, AskGoes DEF Rewrite
<1>4. CASE Failed("op") /\ Ask("shutting", "fetch", "reshutting")
  <2>1. At("shutting")
    BY <1>4 DEF Ask
  <2>2. ui.comp # "none"
    BY <1>0, <2>1 DEF AskingIsFlushed, Asking
  <2>3. QED
    BY <1>0, <1>4, <2>2, AskGoes DEF Rewrite
<1>5. ASSUME NEW view \in Pages, Throw(view), Hang("op"),
             \/ view = ui
             \/ view.comp = "cancelled" => view.sawCancelled
      PROVE  GivesUp
  <2>1. calls'["stage"] = calls["stage"]
    BY <1>0, <1>5, HangsUp
  <2>2. /\ Ends /\ ui'.error /\ ui'.comp = view.comp
        /\ ui'.sawCancelled = view.sawCancelled
    BY <1>5, Throws
  <2>3. QED
    BY <1>0, <1>5, <2>1, <2>2 DEF GivesUp, Orphans
<1>6. CASE /\ Answered("op") /\ (At("shutting") \/ At("reshutting"))
           /\ Hang("op")
           /\ \/ /\ Continue /\ calls["op"].got.comp = "closed"
                 /\ ui' = SeenCompletion(calls["op"].got)
              \/ Throw(SeenCompletion(calls["op"].got))
  <2>1. Working /\ op.steps[1] \in {"shutting", "reshutting"}
    BY <1>0, <1>6
  <2>2. calls["op"].got \in Snapshots
    BY <1>0, <1>6, GotIsTyped DEF Answered
  <2>3. /\ SeenCompletion(calls["op"].got) \in Pages
        /\ SeenCompletion(calls["op"].got).held = ui.held
        /\ SeenCompletion(calls["op"].got).comp = calls["op"].got.comp
        /\ SeenCompletion(calls["op"].got).sawCancelled =
             (ui.sawCancelled \/ calls["op"].got.comp = "cancelled")
    BY <2>2, SeenKeeps
  <2>4. CASE Throw(SeenCompletion(calls["op"].got))
    BY <1>5, <1>6, <2>3, <2>4
  <2>5. CASE /\ Continue /\ calls["op"].got.comp = "closed"
             /\ ui' = SeenCompletion(calls["op"].got)
    <3>1. ui'.held = ui.held /\ ui'.comp = "closed"
      BY <2>3, <2>5
    <3>l. \A n : Learns(n)
      BY <2>1, <3>1 DEF Learns, LooksOn, Orphans, Looking
    <3>2. calls'["stage"] = calls["stage"]
      BY <1>0, <1>6, HangsUp
    <3>3. PICK new : new = <<>>
      OBVIOUS
    <3>4. Rewrite(op.steps[1], new) /\ Become(new)
      BY <2>1, <2>5, <3>3 DEF Rewrite, Continue
    <3>5. QED
      BY <1>0, <2>1, <3>1, <3>l, <3>2, <3>3, <3>4, AnsweredGoes DEF Asking
  <2>6. QED
    BY <1>6, <2>4, <2>5
<1>7. CASE Throw(ui) /\ Hang("op")
  BY <1>0, <1>5, <1>7
<1>8. QED
  BY <1>1, <1>2, <1>3, <1>4, <1>6, <1>7 DEF ShutStep

LEMMA StageGoes ==
  ASSUME ClientTypes, Shape, StageStep
  PROVE  \E new : Goes(new)
<1>0. /\ UNCHANGED <<server, queue, calls, ui>>
      /\ \A step : At(step) <=> Working /\ op.steps[1] = step
  BY HeadIsFirst DEF StageStep, net
<1>1. CASE /\ At("stage") /\ Become(<<"staged">>)
           /\ staging' = IF staging = "idle" THEN "flush" ELSE staging
  <2>1. Working /\ op.steps[1] = "stage"
    BY <1>0, <1>1
  <2>2. Moves(<<"staged">>)
    BY <1>1, <2>1, Becomes DEF Rewrite
  <2>3. "staged" \notin Asking /\ Len(<<"staged">>) = 1
        /\ <<"staged">>[1] = "staged"
    BY DEF Asking
  <2>l. Learns(<<"staged">>)
    BY <1>0, <2>1, LearnsNothing DEF Keeps, SameStudy, Looking
  <2>4. Goes(<<"staged">>)
    BY <1>0, <1>1, <2>1, <2>2, <2>3, <2>l DEF Goes, Keeps, SameStudy
  <2>5. QED
    BY <2>4
<1>2. CASE At("staged") /\ staging = "idle" /\ Continue /\ UNCHANGED staging
  <2>1. Working /\ op.steps[1] = "staged" /\ Len(<<>>) = 0
    BY <1>0, <1>2
  <2>2. Moves(<<>>)
    BY <1>2, <2>1, Continues
  <2>l. Learns(<<>>)
    BY <1>0, <2>1, LearnsNothing DEF Keeps, SameStudy, Looking
  <2>3. Goes(<<>>)
    BY <1>0, <1>2, <2>1, <2>2, <2>l DEF Goes, Keeps, SameStudy
  <2>4. QED
    BY <2>3
<1>3. QED
  BY <1>1, <1>2 DEF StageStep

\* Every step of the operation gives up or goes on.
LEMMA OperationGoes ==
  ASSUME ClientTypes, Shape, AskingIsFlushed, OpStep \/ StageStep
  PROVE  GivesUp \/ \E new : Goes(new)
BY QuietGoes, LocalGoes, CancelGoes, ShutGoes, StageGoes DEF OpStep

-----------------------------------------------------------------------------
(* The queue while the operation goes on.                                  *)

\* Where a step comes to, in the terms of the script before it.
LEMMA StepsAfter ==
  ASSUME ClientTypes, Shape, NEW new, Goes(new)
  PROVE  /\ Working /\ Rewrite(op.steps[1], new) /\ Moves(new)
         /\ Len(new) \in Nat /\ DOMAIN new = 1..Len(new)
         /\ DOMAIN op.steps = 1..Len(op.steps) /\ Len(op.steps) \in Nat
         /\ DOMAIN op'.steps = 1..Len(op'.steps) /\ Len(op'.steps) \in Nat
         /\ Working' => 1 \in DOMAIN op'.steps
         /\ \A i \in DOMAIN op'.steps :
              IF i <= Len(new) THEN op'.steps[i] = new[i] /\ i \in 1..Len(new)
              ELSE /\ i - Len(new) + 1 \in DOMAIN op.steps
                   /\ i - Len(new) + 1 # 1
                   /\ op'.steps[i] = op.steps[i - Len(new) + 1]
<1>1. Working /\ Rewrite(op.steps[1], new) /\ Moves(new)
  BY DEF Goes, Moves
<1>2. /\ Len(new) \in Nat /\ DOMAIN new = 1..Len(new)
      /\ DOMAIN op.steps = 1..Len(op.steps) /\ Len(op.steps) \in Nat
      /\ DOMAIN op'.steps = 1..Len(op'.steps) /\ Len(op'.steps) \in Nat
  BY <1>1 DEF Moves, Replaces
<1>3. \A i \in DOMAIN op'.steps :
        IF i <= Len(new) THEN op'.steps[i] = new[i] /\ i \in DOMAIN new
        ELSE /\ i - Len(new) + 1 \in DOMAIN op.steps
             /\ i - Len(new) + 1 # 1
             /\ op'.steps[i] = op.steps[i - Len(new) + 1]
  BY <1>1, ComesTo DEF Shape
<1>4. Working' => 1 \in DOMAIN op'.steps
  <2>1. op'.steps \in Seq(Steps)
    BY <1>1 DEF Moves, Replaces
  <2>2. QED
    BY <1>2, <2>1 DEF Working
<1>5. QED
  BY <1>1, <1>2, <1>3, <1>4

\* What is added while a request to stage could succeed is a next, at most.
LEMMA GoesLeavesNothing ==
  ASSUME ClientTypes, Shape, Answers, QueueInv, NEW new, Goes(new)
  PROVE  NothingIsLeftOut'
<1>1. Live' => Live
  BY DEF Goes, Live, Sending
<1>2. server'.log = server.log
  BY DEF Goes
<1>3. CASE queue' = queue
  BY <1>1, <1>2, <1>3 DEF QueueInv, NothingIsLeftOut, Recognised
<1>4. ASSUME NEW kind \in Kinds, Enqueue(kind), SentFor(kind),
             new = <<"await">>, Live
      PROVE  kind = "next"
  <2>1. Completed
    BY <1>4, LiveIsSeen
  <2>2. Working /\ op.steps[1] \in Commanding \cup {"held"}
    <3>1. Working /\ Rewrite(op.steps[1], new)
      BY StepsAfter
    <3>2. new[1] = "await" /\ Len(new) = 1
      BY <1>4
    <3>3. QED
      BY <3>1, <3>2 DEF Rewrite
  <2>3. 1 \in DOMAIN op.steps
    BY <2>2, HeadIsFirst
  <2>4. ~Reopens
    <3>1. op.steps[1] \notin {"suppress", "staged"}
      BY <2>2 DEF Commanding
    <3>2. QED
      BY <1>4, <2>2, <3>1, InsideIsIdle DEF Live
  <2>5. op.steps[1] \in Outer
    BY <2>3, <2>4 DEF Shape, StagingIsHeldOff, HeldOff, Reopens, Range
  <2>6. op.steps[1] \notin Deciding
    BY <1>4, <2>3, <2>4
    DEF QueueInv, DecidedBefore, WorkIsEarly, Decides, Range
  <2>7. ~(op.steps[1] = "held" /\ ui.held)
    BY <2>1, <2>3, <2>4 DEF QueueInv, DecidedBefore, HeldIsEarly, Range
  <2>8. QED
    BY <1>4, <2>1, <2>5, <2>6, <2>7 DEF SentFor, Outer
<1>5. ASSUME NEW kind \in Kinds, Enqueue(kind), SentFor(kind),
             new = <<"await">>
      PROVE  NothingIsLeftOut'
  <2>1. SUFFICES ASSUME Live', NEW i \in DOMAIN queue', Matters(queue'[i])
                 PROVE  queue'[i] \in Range(server'.log)
    BY DEF NothingIsLeftOut, Recognised, Matters
  <2>2. kind = "next"
    BY <1>1, <1>4, <1>5, <2>1
  <2>3. i \in DOMAIN queue
    <3>1. queue'[Len(queue) + 1] = Entry(issued + 1, kind)
          /\ DOMAIN queue' = DOMAIN queue \cup {Len(queue) + 1}
      BY <1>5, EnqueueAdds
    <3>2. i # Len(queue) + 1
      BY <2>1, <2>2, <3>1 DEF Matters, Entry
    <3>3. QED
      BY <2>1, <3>1, <3>2
  <2>4. queue'[i] = queue[i]
    BY <1>5, <2>3, EnqueueAdds
  <2>5. Recognised(queue[i])
    BY <1>1, <2>1, <2>3, <2>4 DEF QueueInv, NothingIsLeftOut
  <2>6. QED
    BY <1>2, <2>4, <2>5 DEF Recognised
<1>6. QED
  BY <1>3, <1>5 DEF Goes

LEMMA GoesLate ==
  ASSUME ClientTypes, Shape, QueueInv, NEW new, Goes(new)
  PROVE  BoundaryIsLate'
<1>1. SUFFICES ASSUME Reopens', op'.steps[1] \in {"suppress", "staged"}
               PROVE  op'.steps[1] # "suppress" /\ ~(Live' /\ Unstaged')
  BY DEF BoundaryIsLate
<1>2. Moves(new) /\ Rewrite(op.steps[1], new)
  BY StepsAfter
<1>3. Reopens /\ op.steps[1] = "suppress"
  BY <1>1, <1>2, ReopensBefore
<1>4. ~(Live' /\ Unstaged')
  <2>1. ~(Live /\ Unstaged)
    BY <1>3 DEF QueueInv, BoundaryIsLate
  <2>2. QED
    BY <2>1 DEF Goes, Live, Sending, Unstaged
<1>5. op'.steps[1] = "staged"
  <2>1. Len(new) = 0
    BY <1>2, <1>3, RewriteHeads
  <2>2. op.steps[2] = "staged"
    <3>1. PICK j \in DOMAIN op.steps : op.steps[j] = "release"
      BY <1>3 DEF Reopens, Reopening, Range
    <3>2. DOMAIN op.steps = 1..Len(op.steps) /\ Len(op.steps) \in Nat
      BY StepsAfter
    <3>3. 1 < j /\ 1 \in DOMAIN op.steps
      BY <1>3, <3>1, <3>2
    <3>4. ~InsideFrom(op.steps, 0)
      BY <1>3, <3>1, <3>3 DEF InsideFrom, Inner
    <3>5. QED
      BY <1>3, <3>4 DEF Shape, StagingIsHeldOff, HeldOff, Reopens
  <2>3. Working'
    BY <1>1 DEF Reopens, Reopening, Range, Working
  <2>4. QED
    BY <1>2, <2>1, <2>2, <2>3, ComesTo DEF Shape
<1>6. QED
  BY <1>4, <1>5

\* What was decided on stays where it was, or moves to the front.
LEMMA GoesDecides ==
  ASSUME ClientTypes, Shape, WorkIsEarly, NEW new, Goes(new), ~Reopens
  PROVE  WorkIsEarly'
<1>0. /\ Rewrite(op.steps[1], new) /\ Len(new) \in Nat
      /\ \A i \in DOMAIN op'.steps :
           IF i <= Len(new) THEN op'.steps[i] = new[i] /\ i \in 1..Len(new)
           ELSE /\ i - Len(new) + 1 \in DOMAIN op.steps
                /\ i - Len(new) + 1 # 1
                /\ op'.steps[i] = op.steps[i - Len(new) + 1]
      /\ DOMAIN op'.steps = 1..Len(op'.steps) /\ Len(op'.steps) \in Nat
      /\ DOMAIN op.steps = 1..Len(op.steps) /\ Len(op.steps) \in Nat
  BY StepsAfter
<1>1. SUFFICES ASSUME Decides'
               PROVE  /\ DecidesFirst(op'.steps) /\ staging' # "flush" /\ ~Live'
                      /\ op'.steps[1] \in {"flush", "held"} =>
                           queue' = <<>> /\ ~Completed'
                      /\ (op'.steps[1] = "await" /\ InQueue(op.own)') =>
                           ~Completed' /\ queue'[1].id = op'.own
  BY DEF WorkIsEarly
<1>2. ASSUME NEW i \in DOMAIN op'.steps, op'.steps[i] \in Deciding
      PROVE  /\ i > Len(new) /\ i - Len(new) + 1 \in DOMAIN op.steps
             /\ i - Len(new) + 1 # 1
             /\ op.steps[i - Len(new) + 1] = op'.steps[i]
  <2>1. \A j \in 1..Len(new) : new[j] \notin Deciding
    BY <1>0, RewriteHeads
  <2>2. ~(i <= Len(new))
    BY <1>0, <1>2, <2>1
  <2>3. i > Len(new)
    BY <1>0, <2>2
  <2>4. QED
    BY <1>0, <2>2, <2>3
<1>3. PICK i \in DOMAIN op'.steps : op'.steps[i] \in Deciding
  BY <1>1 DEF Decides, Range
<1>4. Decides
  BY <1>2, <1>3 DEF Decides, Range
<1>5. /\ DecidesFirst(op.steps) /\ staging # "flush" /\ ~Live
      /\ op.steps[1] \in {"flush", "held"} => queue = <<>> /\ ~Completed
  BY <1>4 DEF WorkIsEarly
<1>6. ASSUME NEW j \in DOMAIN op'.steps, op'.steps[j] \in Deciding
      PROVE  \/ /\ op.steps[1] = "await" /\ Len(new) = 0 /\ j = 1
             \/ /\ op.steps[1] = "held" /\ Len(new) = 0 /\ j = 1
             \/ /\ op.steps[1] = "held" /\ Len(new) = 1 /\ new[1] = "await"
                /\ j = 2
             \/ /\ op.steps[1] = "flush" /\ op.steps[2] = "held" /\ Len(new) = 0
                /\ j = 2
  <2>1. PICK k \in DOMAIN op.steps : /\ k = j - Len(new) + 1 /\ k # 1
                                     /\ op.steps[k] \in Deciding
    BY <1>2, <1>6
  <2>2. \/ k = 2 /\ op.steps[1] \in {"held", "await"}
        \/ k = 3 /\ op.steps[1] = "flush" /\ op.steps[2] = "held"
    BY <1>5, <2>1 DEF DecidesFirst
  <2>3. \/ op.steps[1] \in {"await", "flush"} /\ Len(new) = 0
        \/ op.steps[1] = "held" /\ Len(new) = 0
        \/ op.steps[1] = "held" /\ Len(new) = 1 /\ new[1] = "await"
    BY <1>0, <2>2, RewriteHeads
  <2>4. j = k + Len(new) - 1
    BY <1>0, <2>1
  <2>5. CASE k = 2 /\ op.steps[1] \in {"held", "await"}
    <3>1. CASE Len(new) = 0
      <4>1. j = 1
        BY <2>4, <2>5, <3>1
      <4>2. QED
        BY <2>5, <3>1, <4>1
    <3>2. CASE op.steps[1] = "held" /\ Len(new) = 1 /\ new[1] = "await"
      <4>1. j = 2
        BY <2>4, <2>5, <3>2
      <4>2. QED
        BY <3>2, <4>1
    <3>3. QED
      BY <2>3, <3>1, <3>2
  <2>6. CASE k = 3 /\ op.steps[1] = "flush" /\ op.steps[2] = "held"
    BY <2>3, <2>4, <2>6
  <2>7. QED
    BY <2>2, <2>5, <2>6
<1>7. op.steps[1] \in {"await", "held", "flush"}
  BY <1>3, <1>6
<1>8. staging' = staging /\ ~Live' /\ Completed' = Completed
  <2>1. op.steps[1] # "stage" /\ op.steps[1] \notin Asking
    BY <1>7 DEF Asking
  <2>2. QED
    BY <1>5, <2>1 DEF Goes, Live, Sending, Keeps, SameStudy, Completed
<1>9. 1 \in DOMAIN op'.steps
  BY <1>0, <1>3
<1>10. CASE op.steps[1] = "flush" /\ op.steps[2] = "held" /\ Len(new) = 0
  <2>1. op'.steps[1] = "held"
    BY <1>0, <1>9, <1>10
  <2>2. DecidesFirst(op'.steps)
    BY <1>6, <1>10, <2>1 DEF DecidesFirst
  <2>3. new # <<"await">>
    BY <1>10
  <2>4. queue' = <<>>
    BY <1>5, <1>10, <2>3 DEF Goes
  <2>5. QED
    BY <1>5, <1>8, <1>10, <2>1, <2>2, <2>4
<1>11. CASE op.steps[1] \in {"await", "held"} /\ Len(new) = 0
  <2>1. \A j \in DOMAIN op'.steps : op'.steps[j] \in Deciding => j = 1
    BY <1>6, <1>11
  <2>2. op'.steps[1] \in Deciding
    BY <1>3, <2>1
  <2>3. QED
    BY <1>5, <1>8, <2>1, <2>2 DEF DecidesFirst, Deciding
<1>12. CASE op.steps[1] = "held" /\ Len(new) = 1 /\ new[1] = "await"
  <2>1. op'.steps[1] = "await"
    BY <1>0, <1>9, <1>12
  <2>2. DecidesFirst(op'.steps)
    BY <1>6, <1>12, <2>1 DEF DecidesFirst
  <2>3. PICK kind \in Kinds : Enqueue(kind) /\ op'.own = issued + 1
    BY <1>12 DEF Goes
  <2>4. queue'[1] = Entry(issued + 1, kind)
    <3>1. queue = <<>> /\ Len(queue) = 0
      BY <1>5, <1>12
    <3>2. QED
      BY <2>3, <3>1, EnqueueAdds
  <2>5. queue'[1].id = op'.own
    BY <2>3, <2>4 DEF Entry
  <2>6. QED
    BY <1>5, <1>8, <1>12, <2>1, <2>2, <2>5
<1>13. QED
  BY <1>3, <1>6, <1>10, <1>11, <1>12

LEMMA GoesHeld ==
  ASSUME ClientTypes, Shape, HeldIsEarly, AdvanceIsEarly, NEW new, Goes(new),
         ~Reopens
  PROVE  HeldIsEarly' /\ AdvanceIsEarly'
<1>0. /\ Rewrite(op.steps[1], new) /\ Len(new) \in Nat /\ Working
      /\ \A i \in DOMAIN op'.steps :
           IF i <= Len(new) THEN op'.steps[i] = new[i] /\ i \in 1..Len(new)
           ELSE /\ i - Len(new) + 1 \in DOMAIN op.steps
                /\ i - Len(new) + 1 # 1
                /\ op'.steps[i] = op.steps[i - Len(new) + 1]
      /\ DOMAIN op'.steps = 1..Len(op'.steps) /\ Len(op'.steps) \in Nat
      /\ DOMAIN op.steps = 1..Len(op.steps) /\ Len(op.steps) \in Nat
      /\ Working' => 1 \in DOMAIN op'.steps
  BY StepsAfter
<1>1. SUFFICES ASSUME ui'.held PROVE HeldIsEarly' /\ AdvanceIsEarly'
  BY DEF HeldIsEarly, AdvanceIsEarly
<1>2. ui.held /\ op.steps[1] # "held"
  BY <1>1 DEF Goes
<1>3. op.steps[1] # "requeue"
  <2>1. 1 \in DOMAIN op.steps
    BY <1>0, HeadIsFirst
  <2>2. op.steps[1] \in Outer
    BY <2>1 DEF Shape, StagingIsHeldOff, HeldOff, Reopens, Range
  <2>3. QED
    BY <2>2 DEF Outer
<1>4. ASSUME op.steps[1] \in {"flush", "advanceIfStudying"},
             op.steps[1] = "flush" => Len(new) = 0,
             op.steps[1] = "advanceIfStudying" => new[1] = "flush" /\ Len(new) = 3
      PROVE  queue' = queue /\ Completed' = Completed
  <2>1. op.steps[1] \notin Asking /\ new # <<"await">>
    BY <1>4 DEF Asking
  <2>2. QED
    BY <2>1 DEF Goes, Keeps, SameStudy, Completed
<1>5. HeldIsEarly'
  <2>1. SUFFICES ASSUME "held" \in Range(op'.steps)
                 PROVE  /\ HeldFirst(op'.steps) /\ queue' = <<>> /\ ~Completed'
    BY DEF HeldIsEarly
  <2>2. PICK i \in DOMAIN op'.steps : op'.steps[i] = "held"
    BY <2>1 DEF Range
  <2>3. CASE i <= Len(new)
    <3>1. op.steps[1] = "advanceIfStudying" /\ Len(new) = 3 /\ new[1] = "flush"
          /\ new[2] = "held"
      BY <1>0, <1>3, <2>2, <2>3, RewriteHeads
    <3>2. queue = <<>>
      BY <1>0, <1>2, <3>1 DEF AdvanceIsEarly
    <3>3. ~Completed
      BY <3>1 DEF Goes
    <3>4. op'.steps[1] = "flush" /\ op'.steps[2] = "held"
      <4>1. Moves(new)
        BY StepsAfter
      <4>2. \A j \in 1..Len(new) : op'.steps[j] = new[j]
        BY <4>1 DEF Moves, Replaces
      <4>3. QED
        BY <3>1, <4>2
    <3>5. QED
      BY <1>4, <3>1, <3>2, <3>3, <3>4 DEF HeldFirst
  <2>4. CASE i > Len(new)
    <3>1. PICK k \in DOMAIN op.steps : op.steps[k] = "held"
      <4>1. op'.steps[i] = "held" /\ ~(i <= Len(new))
        BY <1>0, <2>2, <2>4
      <4>2. /\ i - Len(new) + 1 \in DOMAIN op.steps
            /\ op'.steps[i] = op.steps[i - Len(new) + 1]
        BY <1>0, <2>2, <4>1
      <4>3. QED
        BY <4>1, <4>2
    <3>2. HeldFirst(op.steps) /\ queue = <<>> /\ ~Completed
      BY <1>2, <3>1 DEF HeldIsEarly, Range
    <3>3. op.steps[1] = "flush" /\ op.steps[2] = "held"
      BY <1>2, <3>1, <3>2 DEF HeldFirst, Range
    <3>4. Len(new) = 0
      BY <1>0, <3>3, RewriteHeads
    <3>5. 1 \in DOMAIN op'.steps /\ ~(1 <= Len(new)) /\ 1 - Len(new) + 1 = 2
      BY <1>0, <2>2, <3>4
    <3>6. op'.steps[1] = "held"
      BY <1>0, <3>3, <3>5
    <3>7. QED
      BY <1>4, <3>2, <3>3, <3>4, <3>6 DEF HeldFirst
  <2>5. QED
    BY <1>0, <2>2, <2>3, <2>4
<1>6. AdvanceIsEarly'
  <2>1. AdvancesSoon(op.steps)
    BY <1>2 DEF AdvanceIsEarly
  <2>2. ASSUME NEW i \in DOMAIN op'.steps, op'.steps[i] = "advanceIfStudying"
        PROVE  \/ op.steps[1] = "flush" /\ i = 1 /\ Len(new) = 0
               \/ i = 2 /\ op'.steps[1] = "flush"
    <3>1. i > Len(new)
      BY <1>0, <2>2, RewriteHeads
    <3>2. PICK k \in DOMAIN op.steps : /\ k = i - Len(new) + 1 /\ k # 1
                                       /\ op.steps[k] = "advanceIfStudying"
      BY <1>0, <2>2, <3>1
    <3>3. \/ k = 2 /\ op.steps[1] = "flush"
          \/ k = 3 /\ op.steps[1] = "retry" /\ op.steps[2] = "flush"
      BY <1>2, <2>1, <3>2 DEF AdvancesSoon
    <3>4. Len(new) = 0
      BY <1>0, <3>3, RewriteHeads
    <3>5. k = i + 1
      BY <1>0, <2>2, <3>2, <3>4
    <3>6. CASE k = 2 /\ op.steps[1] = "flush"
      BY <1>0, <2>2, <3>4, <3>5, <3>6
    <3>7. CASE k = 3 /\ op.steps[1] = "retry" /\ op.steps[2] = "flush"
      <4>1. i = 2 /\ 1 \in DOMAIN op'.steps
        BY <1>0, <2>2, <3>5, <3>7
      <4>2. QED
        BY <1>0, <3>4, <3>7, <4>1
    <3>8. QED
      BY <3>3, <3>6, <3>7
  <2>3. AdvancesSoon(op'.steps)
    BY <2>2 DEF AdvancesSoon
  <2>4. (Working' /\ op'.steps[1] = "advanceIfStudying") => queue' = <<>>
    <3>1. SUFFICES ASSUME Working', op'.steps[1] = "advanceIfStudying"
                   PROVE  queue' = <<>>
      OBVIOUS
    <3>2. op.steps[1] = "flush" /\ Len(new) = 0
      BY <1>0, <2>2, <3>1
    <3>3. queue = <<>>
      BY <3>2 DEF Goes
    <3>4. QED
      BY <1>4, <3>2, <3>3
  <2>5. QED
    BY <2>3, <2>4 DEF AdvanceIsEarly
<1>7. QED
  BY <1>5, <1>6

LEMMA GoesDecidedBefore ==
  ASSUME ClientTypes, Shape, QueueInv, NEW new, Goes(new)
  PROVE  DecidedBefore'
<1>1. SUFFICES ASSUME ~Reopens'
               PROVE  WorkIsEarly' /\ HeldIsEarly' /\ AdvanceIsEarly'
  BY DEF DecidedBefore
<1>2. CASE ~Reopens
  BY <1>2, GoesDecides, GoesHeld DEF QueueInv, DecidedBefore
<1>3. CASE Reopens
  <2>1. Moves(new)
    BY StepsAfter
  <2>2. \A i \in DOMAIN op'.steps : op'.steps[i] = "stage"
    BY <1>1, <1>3, <2>1, ReopensBefore
  <2>3. /\ ~Decides' /\ "held" \notin Range(op'.steps)
        /\ AdvancesSoon(op'.steps)
    BY <2>2 DEF Decides, Range, Deciding, AdvancesSoon
  <2>4. Working' => op'.steps[1] # "advanceIfStudying"
    BY <2>2, StepsAfter
  <2>5. QED
    BY <2>3, <2>4 DEF WorkIsEarly, HeldIsEarly, AdvanceIsEarly
<1>4. QED
  BY <1>2, <1>3

\* A completion is closed or cancelled behind a queue that was flushed.
LEMMA GoesFlushed ==
  ASSUME ClientTypes, Shape, QueueInv, NEW new, Goes(new)
  PROVE  QueueIsFlushed'
<1>0. /\ Rewrite(op.steps[1], new) /\ Len(new) \in Nat /\ Working
      /\ \A i \in DOMAIN op'.steps :
           IF i <= Len(new) THEN op'.steps[i] = new[i] /\ i \in 1..Len(new)
           ELSE /\ i - Len(new) + 1 \in DOMAIN op.steps
                /\ i - Len(new) + 1 # 1
                /\ op'.steps[i] = op.steps[i - Len(new) + 1]
      /\ DOMAIN op'.steps = 1..Len(op'.steps) /\ Len(op'.steps) \in Nat
      /\ Working' => 1 \in DOMAIN op'.steps
  BY StepsAfter
<1>1. CASE ~Working'
  BY <1>1 DEF QueueIsFlushed, AskingIsFlushed
<1>2. ASSUME Working' PROVE QueueIsFlushed'
  <2>1. 1 \in DOMAIN op'.steps
    BY <1>0, <1>2
  <2>2. Len(new) > 0 => op'.steps[1] = new[1]
    BY <1>0, <2>1
  <2>3. Len(new) = 0 => /\ 2 \in DOMAIN op.steps
                        /\ op'.steps[1] = op.steps[2]
    BY <1>0, <2>1
  <2>4. ASSUME 2 \in DOMAIN op'.steps
        PROVE  /\ Len(new) = 0 => /\ 3 \in DOMAIN op.steps
                                  /\ op'.steps[2] = op.steps[3]
               /\ Len(new) = 1 => /\ 2 \in DOMAIN op.steps
                                  /\ op'.steps[2] = op.steps[2]
    <3>1. IF 2 <= Len(new) THEN op'.steps[2] = new[2] /\ 2 \in 1..Len(new)
          ELSE /\ 2 - Len(new) + 1 \in DOMAIN op.steps
               /\ 2 - Len(new) + 1 # 1
               /\ op'.steps[2] = op.steps[2 - Len(new) + 1]
      BY <1>0, <2>4
    <3>2. ASSUME NEW n \in Nat
          PROVE  /\ n = 0 => ~(2 <= n) /\ 2 - n + 1 = 3
                 /\ n = 1 => ~(2 <= n) /\ 2 - n + 1 = 2
      OBVIOUS
    <3>3. /\ Len(new) = 0 => ~(2 <= Len(new)) /\ 2 - Len(new) + 1 = 3
          /\ Len(new) = 1 => ~(2 <= Len(new)) /\ 2 - Len(new) + 1 = 2
      BY <1>0, <3>2
    <3>4. QED
      BY <3>1, <3>3
  <2>5. InPlace(op.steps)
    BY DEF Shape, StepsInPlace
  <2>6. \/ queue' = queue
        \/ op'.steps[1] = "await"
    <3>1. CASE new = <<"await">>
      <4>1. Len(new) > 0 /\ new[1] = "await"
        BY <3>1
      <4>2. QED
        BY <2>2, <4>1
    <3>2. QED
      BY <3>1 DEF Goes
  <2>7. /\ Live' => Live
        /\ calls'["stage"] = calls["stage"]
        /\ op.steps[1] # "stage" => staging' = staging
        /\ op.steps[1] = "flush" => queue = <<>>
        /\ op.steps[1] = "staged" => staging = "idle"
    BY DEF Goes, Live, Sending
  <2>8. ASSUME op'.steps[1] = "stage", NextIsShut'
        PROVE  queue' = <<>>
    <3>1. 2 \in DOMAIN op'.steps /\ op'.steps[2] = "shut"
      BY <2>8 DEF NextIsShut
    <3>2. CASE Len(new) = 0
      <4>1. 3 \in DOMAIN op.steps /\ op.steps[3] = "shut"
        BY <2>4, <3>1, <3>2
      <4>2. op.steps[1] = "flush"
        BY <2>5, <4>1 DEF InPlace
      <4>3. QED
        BY <2>6, <2>7, <2>8, <4>2
    <3>3. CASE Len(new) # 0
      <4>1. new[1] = "stage" /\ Len(new) > 0
        BY <1>0, <2>2, <2>8, <3>3
      <4>2. op.steps[1] = "stageIfCompleted"
        BY <1>0, <4>1, RewriteHeads
      <4>3. Len(new) = 1
        BY <1>0, <4>1, <4>2, RewriteLengths
      <4>4. 2 \in DOMAIN op.steps /\ op.steps[2] = "shut"
        BY <2>4, <3>1, <4>3
      <4>5. FALSE
        BY <2>5, <4>2, <4>4 DEF InPlace
      <4>6. QED
        BY <4>5
    <3>4. QED
      BY <3>2, <3>3
  <2>9. ASSUME op'.steps[1] = "staged", NextIsShut'
        PROVE  queue' = <<>>
    <3>1. 2 \in DOMAIN op'.steps /\ op'.steps[2] = "shut"
      BY <2>9 DEF NextIsShut
    <3>2. CASE Len(new) = 0
      <4>1. 3 \in DOMAIN op.steps /\ op.steps[3] = "shut"
            /\ op.steps[2] = "staged"
        BY <2>3, <2>4, <2>9, <3>1, <3>2
      <4>2. op.steps[2] = "stage"
        BY <2>5, <4>1 DEF InPlace
      <4>3. QED
        BY <4>1, <4>2
    <3>3. CASE Len(new) # 0
      <4>1. new[1] = "staged" /\ Len(new) > 0
        BY <1>0, <2>2, <2>9, <3>3
      <4>2. op.steps[1] = "stage" /\ Len(new) = 1
        BY <1>0, <4>1, RewriteHeads
      <4>3. NextIsShut
        BY <2>4, <3>1, <4>2 DEF NextIsShut
      <4>4. queue = <<>>
        BY <1>0, <4>2, <4>3 DEF QueueInv, QueueIsFlushed
      <4>5. QED
        BY <2>6, <2>9, <4>4
    <3>4. QED
      BY <3>2, <3>3
  <2>10. ASSUME op'.steps[1] = "shut"
         PROVE  queue' = <<>> \/ (ui'.comp = "none" /\ staging' = "idle")
    <3>1. Len(new) = 0
      BY <1>0, <2>2, <2>10, RewriteHeads
    <3>2. 2 \in DOMAIN op.steps /\ op.steps[2] = "shut"
      BY <2>3, <2>10, <3>1
    <3>3. op.steps[1] \in {"stage", "staged"}
      BY <2>5, <3>2 DEF InPlace
    <3>4. op.steps[1] = "staged"
      BY <1>0, <3>1, <3>3, RewriteHeads
    <3>5. NextIsShut /\ staging = "idle"
      BY <2>7, <3>2, <3>4 DEF NextIsShut
    <3>6. queue = <<>> \/ ui.comp = "none"
      BY <1>0, <3>4, <3>5 DEF QueueInv, QueueIsFlushed
    <3>7. ui'.comp = ui.comp /\ staging' = "idle"
      BY <2>7, <3>4, <3>5 DEF Goes, Keeps, Asking
    <3>8. QED
      BY <2>6, <2>10, <3>6, <3>7
  <2>11. ASSUME op'.steps[1] = "cancel"
         PROVE  queue' = <<>>
    <3>1. Len(new) = 0
      BY <1>0, <2>2, <2>11, RewriteHeads
    <3>2. 2 \in DOMAIN op.steps /\ op.steps[2] = "cancel"
      BY <2>3, <2>11, <3>1
    <3>3. op.steps[1] = "flush"
      BY <2>5, <3>2 DEF InPlace
    <3>4. QED
      BY <2>6, <2>7, <2>11, <3>3
  <2>12. ASSUME op'.steps[1] \in Asking \ {"fetching"}
         PROVE  queue' = <<>> /\ ui'.comp # "none"
    <3>1. Len(new) > 0
      <4>1. ASSUME Len(new) = 0
            PROVE  FALSE
        <5>1. 2 \in DOMAIN op.steps /\ op.steps[2] \in Asking
          BY <2>3, <2>12, <4>1
        <5>2. QED
          BY <2>5, <5>1 DEF InPlace
      <4>2. QED
        BY <1>0, <4>1
    <3>2. /\ op.steps[1] \in {"cancel", "cancelling", "shut", "shutting"}
          /\ new[1] \in Asking \ {"fetching"}
      BY <1>0, <2>2, <2>12, <3>1, RewriteHeads
    <3>3. ui.comp # "none" /\ ui'.comp = ui.comp
      BY <3>1, <3>2 DEF Goes, Keeps
    <3>4. queue = <<>>
      BY <1>0, <3>2, <3>3
      DEF QueueInv, QueueIsFlushed, AskingIsFlushed, Asking
    <3>5. op'.steps[1] # "await"
      BY <2>12 DEF Asking
    <3>6. QED
      BY <2>6, <3>3, <3>4, <3>5
  <2>13. QED
    BY <2>8, <2>9, <2>10, <2>11, <2>12 DEF QueueIsFlushed, AskingIsFlushed
<1>3. QED
  BY <1>1, <1>2

LEMMA GivesUpQueue ==
  ASSUME QueueInv, GivesUp
  PROVE  QueueInv'
<1>1. ~Working' /\ Range(op'.steps) = {} /\ DOMAIN op'.steps = {}
  BY DEF GivesUp, Ends, Working, Range
<1>2. NothingIsLeftOut'
  BY DEF GivesUp, QueueInv, NothingIsLeftOut, Recognised, Live, Sending
<1>3. BoundaryIsLate'
  BY <1>1 DEF BoundaryIsLate, Reopens, Reopening
<1>4. DecidedBefore'
  BY <1>1 DEF DecidedBefore, WorkIsEarly, HeldIsEarly, AdvanceIsEarly, Decides,
              AdvancesSoon
<1>5. QueueIsFlushed'
  BY <1>1 DEF QueueIsFlushed, AskingIsFlushed
<1>6. QED
  BY <1>2, <1>3, <1>4, <1>5 DEF QueueInv

LEMMA OperationQueue ==
  ASSUME ClientTypes, Shape, Answers, QueueInv, OpStep \/ StageStep
  PROVE  QueueInv'
<1>1. AskingIsFlushed
  BY DEF QueueInv, QueueIsFlushed
<1>2. GivesUp \/ \E new : Goes(new)
  BY <1>1, OperationGoes
<1>3. ASSUME NEW new, Goes(new)
      PROVE  QueueInv'
  BY <1>3, GoesLeavesNothing, GoesLate, GoesDecidedBefore, GoesFlushed
  DEF QueueInv
<1>4. QED
  BY <1>2, <1>3, GivesUpQueue

-----------------------------------------------------------------------------
(* The queue while the operation waits, and when one starts.               *)

\* Where another event may find what was decided.
LEMMA Pausing ==
  ASSUME ClientTypes, Shape, QueueInv, Waiting
  PROVE  /\ (~Reopens /\ Decides) =>
              /\ Working /\ op.steps[1] = "await" /\ InQueue(op.own)
              /\ ~Completed /\ queue[1].id = op.own
         /\ (~Reopens /\ ui.held /\ Working) =>
              /\ "held" \notin Range(op.steps)
              /\ op.steps[1] # "advanceIfStudying"
<1>1. Working =>
        /\ op.steps[1] \in {"flush", "await", "staged", "retry"} \cup Asking
        /\ op.steps[1] = "flush" => queue # <<>>
        /\ op.steps[1] = "await" => InQueue(op.own)
  BY WhereItWaits, HeadIsFirst
<1>2. ASSUME ~Reopens, Decides
      PROVE  /\ Working /\ op.steps[1] = "await" /\ InQueue(op.own)
             /\ ~Completed /\ queue[1].id = op.own
  <2>1. PICK i \in DOMAIN op.steps : op.steps[i] \in Deciding
    BY <1>2 DEF Decides, Range
  <2>2. Working
    BY <2>1 DEF Working
  <2>3. WorkIsEarly
    BY <1>2 DEF QueueInv, DecidedBefore
  <2>4. \/ i = 1
        \/ op.steps[1] \in {"held", "await"}
        \/ op.steps[1] = "flush"
    BY <1>2, <2>1, <2>3 DEF WorkIsEarly, DecidesFirst
  <2>5. op.steps[1] = "await"
    BY <1>1, <1>2, <2>1, <2>2, <2>3, <2>4 DEF WorkIsEarly, Deciding, Asking
  <2>6. QED
    BY <1>1, <1>2, <2>2, <2>3, <2>5 DEF WorkIsEarly
<1>3. ASSUME ~Reopens, ui.held, Working
      PROVE  /\ "held" \notin Range(op.steps)
             /\ op.steps[1] # "advanceIfStudying"
  <2>1. HeldIsEarly
    BY <1>3 DEF QueueInv, DecidedBefore
  <2>2. "held" \notin Range(op.steps)
    BY <1>1, <1>3, <2>1 DEF HeldIsEarly, HeldFirst, Asking
  <2>3. QED
    BY <1>1, <1>3, <2>2 DEF Asking
<1>4. QED
  BY <1>2, <1>3

\* An event that leaves the operation and the request to stage alone.
LEMMA EventQueue ==
  ASSUME ClientTypes, Shape, QueueInv, Waiting, UNCHANGED <<server, op>>,
         calls'["stage"] = calls["stage"], NothingIsLeftOut',
         staging' = staging \/ (staging' = "flush" /\ Completed),
         ui'.held => ui.held \/ ~Working,
         (/\ Working /\ op.steps[1] = "await" /\ queue[1].id = op.own
          /\ ~Completed /\ InQueue(op.own) /\ InQueue(op.own)') =>
           ~Completed' /\ queue'[1].id = op.own,
         (Live \/ calls["stage"].at = "answered"
          \/ (Working /\ op.steps[1] \in Asking \ {"fetching"})) =>
           (queue = <<>> => queue' = <<>>),
         (Working /\ op.steps[1] \in Asking \ {"fetching"}
          /\ queue = <<>> /\ ui.comp # "none") => ui'.comp # "none"
  PROVE  QueueInv'
<1>1. Working =>
        /\ op.steps[1] \in {"flush", "await", "staged", "retry"} \cup Asking
        /\ op.steps[1] = "staged" => staging # "idle"
  BY WhereItWaits, HeadIsFirst
<1>2. /\ Reopens' = Reopens /\ Decides' = Decides /\ Working' = Working
      /\ Live' = Live /\ (Unstaged' <=> Unstaged) /\ NextIsShut' = NextIsShut
      /\ op'.steps = op.steps /\ op'.own = op.own
  BY DEF Reopens, Decides, Working, Live, Sending, Unstaged, NextIsShut
<1>3. BoundaryIsLate'
  <2>1. SUFFICES ASSUME Reopens, op.steps[1] \in {"suppress", "staged"}
                 PROVE  op.steps[1] # "suppress" /\ ~(Live /\ Unstaged)
    BY <1>2 DEF BoundaryIsLate
  <2>2. Working
    BY <2>1 DEF Reopens, Reopening, Range, Working
  <2>3. op.steps[1] # "suppress"
    BY <1>1, <2>2 DEF Asking
  <2>4. ~(Live /\ Unstaged)
    BY <2>1 DEF QueueInv, BoundaryIsLate
  <2>5. QED
    BY <2>3, <2>4
<1>4. DecidedBefore'
  <2>1. SUFFICES ASSUME ~Reopens
                 PROVE  WorkIsEarly' /\ HeldIsEarly' /\ AdvanceIsEarly'
    BY <1>2 DEF DecidedBefore
  <2>2. WorkIsEarly /\ HeldIsEarly /\ AdvanceIsEarly
    BY <2>1 DEF QueueInv, DecidedBefore
  <2>3. WorkIsEarly'
    <3>1. SUFFICES ASSUME Decides PROVE WorkIsEarly'
      BY <1>2 DEF WorkIsEarly
    <3>2. /\ Working /\ op.steps[1] = "await" /\ InQueue(op.own)
          /\ ~Completed /\ queue[1].id = op.own
      BY <2>1, <3>1, Pausing
    <3>3. DecidesFirst(op.steps) /\ staging # "flush" /\ ~Live
      BY <2>2, <3>1 DEF WorkIsEarly
    <3>4. staging' # "flush"
      BY <3>2, <3>3
    <3>5. InQueue(op.own)' => ~Completed' /\ queue'[1].id = op.own
      BY <3>2
    <3>6. QED
      BY <1>2, <3>2, <3>3, <3>4, <3>5 DEF WorkIsEarly
  <2>4. HeldIsEarly' /\ AdvanceIsEarly'
    <3>1. CASE ~Working
      BY <1>2, <3>1 DEF HeldIsEarly, AdvanceIsEarly, AdvancesSoon, Range, Working
    <3>2. CASE Working
      <4>1. SUFFICES ASSUME ui.held PROVE HeldIsEarly' /\ AdvanceIsEarly'
        BY <3>2 DEF HeldIsEarly, AdvanceIsEarly
      <4>2. /\ "held" \notin Range(op.steps)
            /\ op.steps[1] # "advanceIfStudying"
        BY <2>1, <3>2, <4>1, Pausing
      <4>3. AdvancesSoon(op.steps)
        BY <2>2, <4>1 DEF AdvanceIsEarly
      <4>4. QED
        BY <1>2, <4>2, <4>3 DEF HeldIsEarly, AdvanceIsEarly
    <3>3. QED
      BY <3>1, <3>2
  <2>5. QED
    BY <2>3, <2>4
<1>5. QueueIsFlushed'
  <2>1. CASE ~Working
    BY <1>2, <2>1 DEF QueueIsFlushed, AskingIsFlushed
  <2>2. CASE Working
    <3>1. op.steps[1] \notin {"stage", "shut", "cancel"}
      BY <1>1, <2>2 DEF Asking
    <3>2. ASSUME op.steps[1] = "staged", NextIsShut
          PROVE  /\ staging' # "idle"
                 /\ (Live \/ calls["stage"].at = "answered") => queue' = <<>>
      <4>1. staging' # "idle"
        BY <1>1, <2>2, <3>2
      <4>2. (Live \/ calls["stage"].at = "answered") => queue = <<>>
        BY <2>2, <3>2 DEF QueueInv, QueueIsFlushed
      <4>3. QED
        BY <4>1, <4>2
    <3>3. ASSUME op.steps[1] \in Asking \ {"fetching"}
          PROVE  queue' = <<>> /\ ui'.comp # "none"
      <4>1. queue = <<>> /\ ui.comp # "none"
        BY <2>2, <3>3 DEF QueueInv, QueueIsFlushed, AskingIsFlushed
      <4>2. QED
        BY <2>2, <3>3, <4>1
    <3>4. AskingIsFlushed'
      BY <1>2, <3>3 DEF AskingIsFlushed
    <3>5. QED
      BY <1>2, <3>1, <3>2, <3>4 DEF QueueIsFlushed
  <2>3. QED
    BY <2>1, <2>2
<1>6. QED
  BY <1>3, <1>4, <1>5 DEF QueueInv

\* Events that leave the queue and what the page holds of the phase alone.
LEMMA QuietEventQueue ==
  ASSUME ClientTypes, Shape, Answers, QueueInv, Waiting,
         Pump \/ Stop \/ AutoStage \/ Leave \/ Look \/ LookSeen \/ Hold
         \/ Discard
  PROVE  QueueInv'
<1>0. /\ ui \in Pages /\ CallsTyped /\ UNCHANGED <<server, op, queue>>
      /\ {"queue", "op", "stage", "look"} = Channels
  BY AnswerTypes
  DEF Pump, Stop, AutoStage, Leave, Look, LookSeen, Hold, Discard, page
<1>1. calls'["stage"] = calls["stage"]
  <2>1. CASE UNCHANGED calls
    BY <2>1
  <2>2. CASE Hang("queue") \/ Hang("look")
    BY <1>0, <2>2, HangsUp
  <2>3. ASSUME NEW req, Call("queue", req) \/ Call("look", req)
        PROVE  calls'["stage"] = calls["stage"]
    BY <1>0, <2>3, Calls1
  <2>4. QED
    BY <2>1, <2>2, <2>3
    DEF Pump, Stop, AutoStage, Leave, Look, LookSeen, Hold, Discard, net
<1>2. NothingIsLeftOut'
  BY <1>0, <1>1 DEF QueueInv, NothingIsLeftOut, Recognised, Live, Sending
<1>3. /\ Completed' = Completed
      /\ ui'.held => ui.held \/ ~Working
      /\ ui.comp # "none" => ui'.comp # "none"
      /\ staging' = staging \/ (staging' = "flush" /\ Completed)
  <2>1. CASE /\ \/ UNCHANGED ui
                \/ ui' = [ui EXCEPT !.error = TRUE]
                \/ ui' = [ui EXCEPT !.fresh = FALSE]
                \/ ui' = [ui EXCEPT !.open = FALSE]
                \/ ui' = [ui EXCEPT !.held = FALSE]
                \/ ui' = [ui EXCEPT !.held = TRUE] /\ ~Working
             /\ staging' = staging \/ (staging' = "flush" /\ Completed)
    BY <1>0, <2>1 DEF Completed, Pages
  <2>2. CASE /\ calls["look"].at = "answered" /\ UNCHANGED staging
             /\ ui' = SeenCompletion(calls["look"].got)
    <3>1. calls["look"].got \in Snapshots
      BY <1>0, <2>2, GotIsTyped
    <3>2. calls["look"].got.comp # "none"
      BY <2>2 DEF Answers, AnswersAreKnown
    <3>3. /\ SeenCompletion(calls["look"].got).phase = ui.phase
          /\ SeenCompletion(calls["look"].got).comp = calls["look"].got.comp
          /\ SeenCompletion(calls["look"].got).held = ui.held
      BY <3>1, SeenKeeps
    <3>4. QED
      BY <2>2, <3>2, <3>3 DEF Completed
  <2>3. QED
    BY <2>1, <2>2
    DEF Pump, Stop, AutoStage, Leave, Look, LookSeen, Hold, Discard, page,
        Answered
<1>4. InQueue(op.own)' = InQueue(op.own)
  BY <1>0 DEF InQueue
<1>5. QED
  BY <1>0, <1>1, <1>2, <1>3, EventQueue

\* The head is answered: it was not the operation's command, or no longer is.
LEMMA AcknowledgeQueue ==
  ASSUME ClientInv, Shape, Answers, QueueInv, Waiting, Acknowledge
  PROVE  QueueInv'
<1>0. /\ ui \in Pages /\ CallsTyped /\ UNCHANGED <<server, op, staging>>
      /\ "queue" \in Channels /\ "stage" \in Channels \ {"queue"}
      /\ queue \in Seq(Entries) /\ ClientTypes
  BY DEF Acknowledge, ClientInv, ClientTypes, Channels
<1>1. calls'["stage"] = calls["stage"]
  BY <1>0, HangsUp DEF Acknowledge
<1>2. queue # <<>>
  BY DEF Acknowledge, Answered, ClientInv, QueueOrder, HeadIsSent
<1>3. /\ DOMAIN queue' = 1..(Len(queue) - 1)
      /\ \A i \in DOMAIN queue' : i + 1 \in DOMAIN queue
                                  /\ queue'[i] = queue[i + 1]
      /\ 1 \in DOMAIN queue
  BY <1>0, <1>2 DEF Acknowledge
<1>4. NothingIsLeftOut'
  <2>1. Live' => Live
    BY <1>0, <1>1 DEF Live, Sending
  <2>2. QED
    BY <1>0, <1>3, <2>1
    DEF QueueInv, NothingIsLeftOut, Recognised, Matters
<1>5. ui'.held = ui.held
  <2>1. calls["queue"].got \in Snapshots
    BY <1>0, GotIsTyped DEF Acknowledge, Answered
  <2>2. QED
    BY <1>0, <2>1, SeenKeeps DEF Acknowledge
<1>6. queue[1].id = op.own => ~InQueue(op.own)'
  <2>1. SUFFICES ASSUME NEW i \in DOMAIN queue'
                 PROVE  queue'[i].id # queue[1].id
    BY <1>0 DEF InQueue
  <2>2. i + 1 \in DOMAIN queue /\ 1 < i + 1 /\ queue'[i] = queue[i + 1]
    BY <1>3
  <2>3. queue[1].id < queue[i + 1].id
    BY <1>3, <2>2 DEF ClientInv, QueueOrder, QueueIsOrdered
  <2>4. queue[1].id \in Nat /\ queue[i + 1].id \in Nat
    <3>1. queue[1] \in Entries /\ queue[i + 1] \in Entries
      BY <1>0, <1>3, <2>2
    <3>2. QED
      BY <3>1 DEF Entries
  <2>5. QED
    BY <2>2, <2>3, <2>4
<1>7. (Working /\ op.steps[1] \in Asking \ {"fetching"}) => queue = <<>>
  BY DEF QueueInv, QueueIsFlushed, AskingIsFlushed
<1>8. QED
  BY <1>0, <1>1, <1>2, <1>4, <1>5, <1>6, <1>7, EventQueue

LEMMA ReactQueue ==
  ASSUME ClientTypes, Shape, Answers, QueueInv, Waiting, React
  PROVE  QueueInv'
<1>0. /\ UNCHANGED <<server, op, staging, calls, ui>> /\ ~Completed
      /\ ui.comp = "none" /\ Enqueue("feedback")
  BY DEF React, net, Studying
<1>1. ~Live
  BY <1>0, LiveIsSeen
<1>2. calls["stage"].at # "answered"
  <2>1. SUFFICES ASSUME calls["stage"].at = "answered" PROVE FALSE
    OBVIOUS
  <2>2. ~Unstaged
    BY <2>1 DEF Answers, StagingIsCurrent
  <2>3. ui.seq = Len(server.log) /\ server.phase = "completed"
    BY <2>2 DEF Answers, PageIsCurrent, AnswersAreKnown, Grounded
  <2>4. Completed
    BY <2>3 DEF Answers, AnswersAreKnown, KnownTo, Completed
  <2>5. QED
    BY <1>0, <2>4
<1>3. NothingIsLeftOut'
  BY <1>0, <1>1 DEF NothingIsLeftOut, Live, Sending
<1>4. InQueue(op.own) => queue'[1] = queue[1]
  <2>1. ASSUME InQueue(op.own) PROVE 1 \in DOMAIN queue
    <3>1. queue \in Seq(Entries)
      BY DEF ClientTypes
    <3>2. QED
      BY <2>1, <3>1 DEF InQueue
  <2>2. \A i \in DOMAIN queue : queue'[i] = queue[i]
    BY <1>0, EnqueueAdds
  <2>3. QED
    BY <2>1, <2>2
<1>5. Completed' = Completed
  BY <1>0 DEF Completed
<1>6. QED
  <2>1. ~(Working /\ op.steps[1] \in Asking \ {"fetching"})
    BY <1>0 DEF QueueInv, QueueIsFlushed, AskingIsFlushed
  <2>2. calls'["stage"] = calls["stage"] /\ ui'.held = ui.held
    BY <1>0
  <2>3. QED
    BY <1>0, <1>1, <1>2, <1>3, <1>4, <1>5, <2>1, <2>2, EventQueue

\* The staging run asks with nothing in the queue.
LEMMA StageSendsQueue ==
  ASSUME ClientInv, Shape, Answers, QueueInv, StageSends
  PROVE  QueueInv'
<1>0. /\ UNCHANGED <<server, ui, op, queue>> /\ queue = <<>>
      /\ staging = "flush" /\ staging' # "flush"
      /\ \/ staging' = "idle" /\ UNCHANGED calls /\ calls["stage"].at = "none"
         \/ /\ staging' = "sent" /\ ~ui.suppress /\ Completed
            /\ ui.comp = "none" /\ calls'["stage"].at = "sent"
  BY StageSendsStep DEF StageSends
<1>1. NothingIsLeftOut'
  BY <1>0 DEF NothingIsLeftOut
<1>2. BoundaryIsLate'
  <2>1. SUFFICES ASSUME Reopens, op.steps[1] \in {"suppress", "staged"}
                 PROVE  op.steps[1] # "suppress" /\ ~Live'
    BY <1>0 DEF BoundaryIsLate, Reopens
  <2>2. op.steps[1] # "suppress"
    BY <1>0, <2>1 DEF QueueInv, BoundaryIsLate
  <2>3. ui.suppress
    BY <2>1, <2>2 DEF Shape, StagingIsHeldOff, HeldOff, Reopens
  <2>4. QED
    BY <1>0, <2>2, <2>3 DEF Live, Sending
<1>3. DecidedBefore'
  <2>1. SUFFICES ASSUME ~Reopens
                 PROVE  WorkIsEarly' /\ HeldIsEarly' /\ AdvanceIsEarly'
    BY <1>0 DEF DecidedBefore, Reopens
  <2>2. WorkIsEarly /\ HeldIsEarly /\ AdvanceIsEarly
    BY <2>1 DEF QueueInv, DecidedBefore
  <2>3. ~Decides
    BY <1>0, <2>2 DEF WorkIsEarly
  <2>4. QED
    BY <1>0, <2>2, <2>3
    DEF WorkIsEarly, HeldIsEarly, AdvanceIsEarly, Decides, Working, Completed
<1>4. QueueIsFlushed'
  BY <1>0 DEF QueueInv, QueueIsFlushed, AskingIsFlushed, Working
<1>5. QED
  BY <1>1, <1>2, <1>3, <1>4 DEF QueueInv

LEMMA StageDoneQueue ==
  ASSUME ClientTypes, Shape, Answers, QueueInv, StageEnds \/ StageSucceeds
  PROVE  QueueInv'
<1>0. /\ UNCHANGED <<server, queue>> /\ staging' = "idle" /\ staging # "idle"
      /\ CallsTyped /\ "stage" \in Channels /\ ui \in Pages
      /\ \A step : At(step) <=> Working /\ op.steps[1] = step
  BY HeadIsFirst DEF StageEnds, StageSucceeds, ClientTypes, Channels
<1>1. calls'["stage"].at = "none"
  <2>1. CASE Hang("stage")
    BY <1>0, <2>1, HangsUp
  <2>2. CASE staging = "flush" /\ UNCHANGED calls
    BY <2>2 DEF Shape, CallsAwaited
  <2>3. QED
    BY <2>1, <2>2 DEF StageEnds, StageSucceeds
<1>2. ~Live'
  BY <1>1 DEF Live, Sending
<1>3. NothingIsLeftOut'
  BY <1>2 DEF NothingIsLeftOut
<1>4. BoundaryIsLate'
  BY <1>0, <1>2 DEF BoundaryIsLate
<1>5. CASE At("staged") /\ StageEnds
  <2>1. Ends
    BY <1>0, <1>5, Throws DEF StageEnds
  <2>2. ~Working' /\ Range(op'.steps) = {} /\ DOMAIN op'.steps = {}
    BY <2>1 DEF Ends, Working, Range
  <2>3. DecidedBefore'
    BY <2>2 DEF DecidedBefore, WorkIsEarly, HeldIsEarly, AdvanceIsEarly, Decides,
                AdvancesSoon
  <2>4. QueueIsFlushed'
    BY <2>2 DEF QueueIsFlushed, AskingIsFlushed
  <2>5. QED
    BY <1>3, <1>4, <2>3, <2>4 DEF QueueInv
<1>6. CASE ~(At("staged") /\ StageEnds)
  <2>1. /\ UNCHANGED op /\ Completed' = Completed /\ ui'.held = ui.held
        /\ \/ ui'.comp = ui.comp /\ StageEnds
           \/ ui'.comp # "none" /\ calls["stage"].at = "answered"
    <3>1. CASE StageEnds
      BY <1>0, <1>6, <3>1 DEF StageEnds, Completed, Pages
    <3>2. CASE StageSucceeds
      <4>1. /\ calls["stage"].got \in Snapshots
            /\ calls["stage"].at = "answered"
        BY <1>0, <3>2, GotIsTyped DEF StageSucceeds, Answered
      <4>2. calls["stage"].got.comp # "none"
        BY <4>1 DEF Answers, AnswersAreKnown, StagingIsCurrent
      <4>3. /\ SeenCompletion(calls["stage"].got).phase = ui.phase
            /\ SeenCompletion(calls["stage"].got).comp = calls["stage"].got.comp
            /\ SeenCompletion(calls["stage"].got).held = ui.held
        BY <4>1, SeenKeeps
      <4>4. QED
        BY <3>2, <4>1, <4>2, <4>3 DEF StageSucceeds, Completed
    <3>3. QED
      BY <3>1, <3>2
  <2>2. DecidedBefore'
    <3>1. SUFFICES ASSUME ~Reopens
                   PROVE  WorkIsEarly' /\ HeldIsEarly' /\ AdvanceIsEarly'
      BY <2>1 DEF DecidedBefore, Reopens
    <3>2. WorkIsEarly /\ HeldIsEarly /\ AdvanceIsEarly
      BY <3>1 DEF QueueInv, DecidedBefore
    <3>3. WorkIsEarly'
      BY <1>0, <1>2, <2>1, <3>2 DEF WorkIsEarly, Decides, InQueue
    <3>4. HeldIsEarly' /\ AdvanceIsEarly'
      BY <1>0, <2>1, <3>2 DEF HeldIsEarly, AdvanceIsEarly, Working
    <3>5. QED
      BY <3>3, <3>4
  <2>3. QueueIsFlushed'
    <3>1. CASE ~Working
      BY <2>1, <3>1 DEF QueueIsFlushed, AskingIsFlushed, Working
    <3>2. CASE Working
      <4>1. op.steps[1] = "staged" => calls["stage"].at = "answered"
        BY <1>0, <1>6, <2>1, <3>2
      <4>2. (op.steps[1] = "staged" /\ NextIsShut) => queue = <<>>
        BY <3>2, <4>1 DEF QueueInv, QueueIsFlushed
      <4>3. op.steps[1] = "shut" => queue = <<>>
        BY <1>0, <3>2 DEF QueueInv, QueueIsFlushed
      <4>4. /\ (op.steps[1] = "stage" /\ NextIsShut) => queue = <<>>
            /\ op.steps[1] = "cancel" => queue = <<>>
            /\ op.steps[1] \in Asking \ {"fetching"} =>
                 queue = <<>> /\ ui.comp # "none"
        BY <3>2 DEF QueueInv, QueueIsFlushed, AskingIsFlushed
      <4>5. NextIsShut' = NextIsShut /\ op'.steps = op.steps
        BY <2>1 DEF NextIsShut
      <4>6. AskingIsFlushed'
        BY <1>0, <2>1, <4>4, <4>5 DEF AskingIsFlushed
      <4>7. QED
        BY <1>0, <4>2, <4>3, <4>4, <4>5, <4>6 DEF QueueIsFlushed
    <3>3. QED
      BY <3>1, <3>2
  <2>4. QED
    BY <1>3, <1>4, <2>2, <2>3 DEF QueueInv
<1>7. QED
  BY <1>5, <1>6

\* An operation starts with the queue empty, or with nothing decided.
LEMMA StartsQueue ==
  ASSUME ClientTypes, Shape, Answers, QueueInv, Waiting, NEW s, Starts(s),
         Opening(s)
  PROVE  QueueInv'
<1>0. /\ UNCHANGED <<server, queue, staging, calls>> /\ op'.steps = s
      /\ Completed' = Completed /\ ui'.held = ui.held /\ ui'.comp = ui.comp
  BY DEF Starts, Completed
<1>1. s[1] \in {"flush", "held", "work", "suppress", "retry"}
  BY OpeningInPlace
<1>2. queue = <<>> => staging # "flush"
  BY WhereItWaits
<1>3. NothingIsLeftOut'
  BY <1>0 DEF QueueInv, NothingIsLeftOut, Recognised, Live, Sending
<1>4. QueueIsFlushed'
  BY <1>0, <1>1 DEF QueueIsFlushed, AskingIsFlushed, Asking
<1>5. BoundaryIsLate' /\ DecidedBefore'
  <2>1. CASE StudyScript(s, ui.held) /\ CanAct /\ Studying
    <3>1. ~Reopening(s)
      BY <2>1, PlainInPlace DEF StudyScript
    <3>2. queue = <<>> /\ ~Completed
      BY <2>1 DEF CanAct, Studying
    <3>3. ~Live /\ staging # "flush"
      BY <1>2, <3>2, LiveIsSeen
    <3>4. BoundaryIsLate'
      BY <1>0, <3>1 DEF BoundaryIsLate, Reopens
    <3>5. WorkIsEarly'
      BY <1>0, <1>1, <2>1, <3>2, <3>3
      DEF WorkIsEarly, StudyScript, Live, Sending
    <3>6. HeldIsEarly'
      BY <1>0, <2>1, <3>2 DEF HeldIsEarly, StudyScript
    <3>7. AdvanceIsEarly'
      BY <1>0, <1>1, <2>1 DEF AdvanceIsEarly, StudyScript
    <3>8. QED
      BY <3>4, <3>5, <3>6, <3>7 DEF DecidedBefore
  <2>2. CASE (\E k, m : IsBoundary(s, k, m)) /\ CanAct /\ (Studying \/ Summary)
    <3>1. Reopening(s) /\ s[1] = "suppress"
      BY <2>2, BoundaryScript
    <3>2. queue = <<>> /\ staging # "flush"
      BY <1>2, <2>2 DEF CanAct
    <3>3. ~(Live /\ Unstaged)
      <4>1. CASE Studying
        BY <4>1, LiveIsSeen DEF Studying
      <4>2. CASE Summary
        BY <4>2 DEF Summary, Answers, StagingIsCurrent
      <4>3. QED
        BY <2>2, <4>1, <4>2
    <3>4. BoundaryIsLate'
      BY <1>0, <3>2, <3>3 DEF BoundaryIsLate, Live, Sending, Unstaged
    <3>5. QED
      BY <1>0, <3>1, <3>4 DEF DecidedBefore, Reopens
  <2>3. ASSUME Range(s) \cap Deciding = {}, "held" \notin Range(s),
               AdvancesSoon(s), s[1] \in {"flush", "retry"}, ~Reopening(s)
        PROVE  BoundaryIsLate' /\ DecidedBefore'
    <3>1. BoundaryIsLate'
      BY <1>0, <2>3 DEF BoundaryIsLate, Reopens
    <3>2. WorkIsEarly' /\ HeldIsEarly' /\ AdvanceIsEarly'
      BY <1>0, <2>3 DEF WorkIsEarly, HeldIsEarly, AdvanceIsEarly, Decides
    <3>3. QED
      BY <3>1, <3>2 DEF DecidedBefore
  <2>4. CASE s \in ShutScripts
    BY <2>3, <2>4, ShutInPlace
  <2>5. CASE RetryScript(s)
    <3>1. /\ PlainScript(s) /\ Range(s) \cap Deciding = {}
          /\ "held" \notin Range(s)
      BY <2>5, RetryIsPlain
    <3>2. ~Reopening(s)
      BY <3>1, PlainInPlace
    <3>3. QED
      BY <2>3, <2>5, <3>1, <3>2 DEF RetryScript
  <2>6. QED
    BY <2>1, <2>2, <2>4, <2>5 DEF Opening
<1>6. QED
  BY <1>3, <1>4, <1>5 DEF QueueInv

LEMMA ReloadQueue ==
  ASSUME ClientTypes, Reload
  PROVE  QueueInv'
<1>1. /\ ~Working' /\ Range(op'.steps) = {} /\ DOMAIN op'.steps = {}
      /\ op'.steps = <<>>
  BY DEF Reload, Working, Range, ClientTypes, Ops
<1>2. queue' = <<>>
  BY DEF Reload
<1>3. NothingIsLeftOut'
  BY <1>2 DEF NothingIsLeftOut
<1>4. BoundaryIsLate'
  BY <1>1 DEF BoundaryIsLate, Reopens, Reopening
<1>5. DecidedBefore'
  BY <1>1 DEF DecidedBefore, WorkIsEarly, HeldIsEarly, AdvanceIsEarly, Decides,
              AdvancesSoon
<1>6. QueueIsFlushed'
  BY <1>1 DEF QueueIsFlushed, AskingIsFlushed
<1>7. QED
  BY <1>3, <1>4, <1>5, <1>6 DEF QueueInv

LEMMA QueueInvStep ==
  ASSUME ClientInv, Shape, Answers, QueueInv, [Next]_vars
  PROVE  QueueInv'
<1>0. ClientTypes /\ ClientTypes' /\ Grounded
  BY NextIsTyped DEF ClientInv, Answers, AnswersAreKnown
<1>1. CASE UNCHANGED vars
  <2>1. NothingIsLeftOut'
    BY <1>1 DEF vars, page, net, QueueInv, NothingIsLeftOut, Recognised, Live,
                Sending
  <2>2. BoundaryIsLate'
    BY <1>1 DEF vars, page, net, QueueInv, BoundaryIsLate, Reopens, Live,
                Sending, Unstaged
  <2>3. DecidedBefore'
    BY <1>1 DEF vars, page, net, QueueInv, DecidedBefore, Reopens, WorkIsEarly,
                HeldIsEarly, AdvanceIsEarly, Decides, Live, Sending, Working,
                Completed, InQueue
  <2>4. QueueIsFlushed'
    BY <1>1 DEF vars, page, net, QueueInv, QueueIsFlushed, AskingIsFlushed,
                NextIsShut, Working, Live, Sending
  <2>5. QED
    BY <2>1, <2>2, <2>3, <2>4 DEF QueueInv
<1>2. CASE OpStep \/ StageStep
  BY <1>0, <1>2, OperationQueue
<1>3. CASE StageSends
  BY <1>3, StageSendsQueue
<1>4. CASE StageEnds \/ StageSucceeds
  BY <1>0, <1>4, StageDoneQueue
<1>5. CASE \/ \E ch \in Channels : Serve(ch) \/ Lose(ch)
           \/ CloseFails \/ WindowEnds \/ WorkerCloses
           \/ \E e \in late : Arrive(e)
  <2>1. ServerStep
    BY <1>0, <1>5, ServeMoves, OtherMoves
  <2>2. QED
    BY <1>0, <2>1, ServerQueueInv
<1>6. CASE /\ Waiting
           /\ \/ Pump \/ Stop \/ AutoStage \/ Leave \/ Look \/ LookSeen
              \/ Hold \/ Discard
  BY <1>0, <1>6, QuietEventQueue
<1>7. CASE Waiting /\ Acknowledge
  BY <1>7, AcknowledgeQueue
<1>8. CASE Waiting /\ React
  BY <1>0, <1>8, ReactQueue
<1>9. CASE Waiting /\ (Study \/ Revise \/ Home \/ Retry \/ Deadline)
  <2>1. PICK s : Starts(s) /\ Opening(s)
    BY <1>0, <1>9, OperationStarts
  <2>2. QED
    BY <1>0, <1>9, <2>1, StartsQueue
<1>10. CASE Reload
  BY <1>0, <1>10, ReloadQueue
<1>11. QED
  BY <1>1, <1>2, <1>3, <1>4, <1>5, <1>6, <1>7, <1>8, <1>9, <1>10
  DEF Next, StagingStep, QueueStep, Learner

-----------------------------------------------------------------------------
(* A completion that was taken back.                                       *)

Looks == Range(op.steps) \cap Looking # {}
\* The page that holds one shows so, shows an error, or is about to look.
TakenBackIsNoticed ==
  /\ ui.comp = "cancelled" => ui.sawCancelled
  /\ (Standing /\ Unstaged /\ ~ui.sawCancelled) => ui.error \/ Looks

LEMMA NoticedFrame ==
  ASSUME TakenBackIsNoticed, Unstaged' => Unstaged, ui'.comp = ui.comp,
         ui'.sawCancelled = ui.sawCancelled,
         (ui.error \/ Looks) => ui'.error \/ Looks'
  PROVE  TakenBackIsNoticed'
BY DEF TakenBackIsNoticed, Standing

\* A closed completion was never taken back.
LEMMA ClosedIsStaged ==
  ASSUME Answers, UNCHANGED server, ui'.comp = "closed",
         OlderThan(server, ui'.comp)
  PROVE  ~Unstaged'
BY DEF OlderThan, Unstaged

LEMMA GoesNoticed ==
  ASSUME ClientTypes, ClientTypes', Shape, Answers, Answers',
         TakenBackIsNoticed, NEW new, Goes(new)
  PROVE  TakenBackIsNoticed'
<1>0. /\ Moves(new) /\ UNCHANGED server /\ Learns(new)
      /\ 1 \in DOMAIN op.steps
  BY HeadIsFirst DEF Goes, Moves
<1>1. ui'.comp = "cancelled" => ui'.sawCancelled
  BY <1>0 DEF Learns, Orphans, TakenBackIsNoticed
<1>2. SUFFICES ASSUME Standing', Unstaged', ~ui'.sawCancelled
               PROVE  ui'.error \/ Looks'
  BY <1>1 DEF TakenBackIsNoticed
<1>3. Unstaged
  BY <1>0, <1>2 DEF Unstaged
<1>4. ASSUME NEW j \in DOMAIN op.steps, j # 1, op.steps[j] \in Looking
      PROVE  Looks'
  BY <1>0, <1>4, ComesTo DEF Shape, Looks, Range
<1>5. CASE op.steps[1] \in Looking
  <2>1. LooksOn(new)
    BY <1>0, <1>5 DEF Learns
  <2>2. ui'.comp # "closed"
    <3>1. OlderThan(server', ui'.comp)
      BY DEF Answers, AnswersAreKnown
    <3>2. QED
      BY <1>2, <3>1 DEF OlderThan, Unstaged
  <2>3. PICK i \in 1..Len(new) : new[i] \in Looking
    BY <1>2, <2>1, <2>2 DEF LooksOn
  <2>4. i \in DOMAIN op'.steps /\ op'.steps[i] = new[i]
    <3>1. Replaces(op.steps, new, op'.steps)
      BY <1>0 DEF Moves
    <3>2. /\ \A k \in 1..Len(new) : op'.steps[k] = new[k]
          /\ DOMAIN op'.steps = 1..(Len(new) + Len(op.steps) - 1)
          /\ Len(op.steps) \in Nat \ {0} /\ Len(new) \in Nat
      BY <3>1 DEF Replaces
    <3>3. QED
      BY <3>2
  <2>5. QED
    BY <2>3, <2>4 DEF Looks, Range
<1>6. CASE op.steps[1] = "fetching"
  <2>1. /\ calls["op"].at = "answered"
        /\ ui'.comp = calls["op"].got.comp
    BY <1>0, <1>2, <1>6 DEF Learns
  <2>2. Whole("op") /\ "op" \in Channels
    BY <1>0, <1>6, <2>1, HeadIsFirst DEF Whole, Channels, Moves
  <2>3. calls["op"].got.comp \in {"none", "cancelled"}
    BY <1>3, <2>2 DEF Answers, AnswersAreCurrent
  <2>4. QED
    BY <1>2, <2>1, <2>3 DEF Standing
<1>7. CASE op.steps[1] \notin Looking \cup {"fetching"}
  <2>1. /\ ui'.comp = ui.comp /\ ui'.sawCancelled = ui.sawCancelled
        /\ ui'.error = ui.error
    BY <1>0, <1>7 DEF Learns, Keeps
  <2>2. ui.error \/ Looks
    BY <1>2, <1>3, <2>1 DEF TakenBackIsNoticed, Standing
  <2>3. Looks => Looks'
    <3>1. SUFFICES ASSUME Looks PROVE Looks'
      OBVIOUS
    <3>2. PICK j \in DOMAIN op.steps : op.steps[j] \in Looking
      BY <3>1 DEF Looks, Range
    <3>3. QED
      BY <1>4, <1>7, <3>2
  <2>4. QED
    BY <2>1, <2>2, <2>3
<1>8. QED
  BY <1>5, <1>6, <1>7

LEMMA OperationNoticed ==
  ASSUME ClientTypes, ClientTypes', Shape, Answers, Answers', AskingIsFlushed,
         TakenBackIsNoticed, OpStep \/ StageStep
  PROVE  TakenBackIsNoticed'
<1>1. GivesUp \/ \E new : Goes(new)
  BY OperationGoes
<1>2. CASE GivesUp
  BY <1>2 DEF GivesUp, Orphans, TakenBackIsNoticed
<1>3. QED
  BY <1>1, <1>2, GoesNoticed

\* The server takes a completion back when the operation asks it to.
LEMMA ServerNoticed ==
  ASSUME ClientTypes, ClientTypes', Shape, Answers, TakenBackIsNoticed, ServerStep
  PROVE  TakenBackIsNoticed'
<1>1. UNCHANGED <<ui, op>> /\ ServerMoves
  BY DEF ServerStep, page
<1>2. Looks' = Looks
  BY <1>1 DEF Looks
<1>3. CASE TakesBack
  <2>1. Working /\ op.steps[1] = "cancelling" /\ 1 \in DOMAIN op.steps
    BY <1>3, HeadIsFirst DEF TakesBack
  <2>2. Looks
    BY <2>1 DEF Looks, Range, Looking
  <2>3. QED
    BY <1>1, <1>2, <2>2 DEF TakenBackIsNoticed
<1>4. CASE ~TakesBack
  <2>1. Unstaged' => Unstaged
    BY <1>1, <1>4
    DEF ServerMoves, Logs, Stages, GoesOn, Unstaged, Answers, AnswersAreKnown,
        Grounded
  <2>2. QED
    BY <1>1, <1>2, <2>1, NoticedFrame
<1>5. QED
  BY <1>3, <1>4

\* An event that learns nothing of the completion.
LEMMA QuietEventNoticed ==
  ASSUME ClientTypes, Shape, Answers, TakenBackIsNoticed,
         Pump \/ Stop \/ AutoStage \/ Leave \/ Look \/ Hold \/ Discard \/ React
         \/ StageSends \/ StageEnds
  PROVE  TakenBackIsNoticed'
<1>0. /\ ui \in Pages /\ UNCHANGED server
  BY DEF ClientTypes, Pump, Stop, AutoStage, Leave, Look, Hold, Discard, React,
         StageSends, StageEnds, page
<1>1. CASE UNCHANGED op /\ ~StageEnds
  <2>1. /\ ui'.comp = ui.comp /\ ui'.sawCancelled = ui.sawCancelled
        /\ ui.error => ui'.error
    BY <1>0, <1>1
    DEF Pages, Pump, Stop, AutoStage, Leave, Look, Hold, Discard, React,
        StageSends, page
  <2>2. QED
    BY <1>0, <1>1, <2>1, NoticedFrame DEF Looks, Unstaged
<1>2. CASE StageEnds
  <2>1. /\ ui'.comp = ui.comp /\ ui'.sawCancelled = ui.sawCancelled /\ ui'.error
    <3>1. CASE Throw(ui)
      BY <1>0, <3>1, Throws
    <3>2. CASE ui' = [ui EXCEPT !.error = TRUE]
      BY <1>0, <3>2 DEF Pages
    <3>3. QED
      BY <1>2, <3>1, <3>2 DEF StageEnds
  <2>2. QED
    BY <1>0, <2>1, NoticedFrame DEF Unstaged
<1>3. QED
  BY <1>1, <1>2
  DEF Pump, Stop, AutoStage, Leave, Look, Hold, Discard, React, StageSends, page

\* The study read whole drops a completion taken back; one looked at shows it.
LEMMA LearningNoticed ==
  ASSUME ClientTypes, Shape, Answers, TakenBackIsNoticed,
         Acknowledge \/ LookSeen \/ StageSucceeds
  PROVE  TakenBackIsNoticed'
<1>0. /\ ui \in Pages /\ CallsTyped /\ UNCHANGED <<server, op>>
      /\ {"queue", "op", "stage", "look"} = Channels
  BY AnswerTypes DEF Acknowledge, LookSeen, StageSucceeds
<1>1. Looks' = Looks /\ (Unstaged' <=> Unstaged)
  BY <1>0 DEF Looks, Unstaged
<1>2. CASE Acknowledge
  <2>1. /\ calls["queue"].at = "answered" /\ calls["queue"].got \in Snapshots
    BY <1>0, <1>2, GotIsTyped DEF Acknowledge, Answered
  <2>2. ui'.comp = IF calls["queue"].got.comp = "cancelled" THEN "none"
                   ELSE calls["queue"].got.comp
    BY <1>2, <2>1, SeenKeeps DEF Acknowledge
  <2>3. Unstaged => calls["queue"].got.comp \in {"none", "cancelled"}
    BY <1>0, <2>1 DEF Answers, AnswersAreCurrent, Whole
  <2>4. QED
    BY <1>1, <2>2, <2>3 DEF TakenBackIsNoticed, Standing
<1>3. ASSUME NEW ch \in Channels, calls[ch].at = "answered",
             ui' = SeenCompletion(calls[ch].got),
             ui.comp # "none" \/ ~Unstaged
      PROVE  TakenBackIsNoticed'
  <2>1. calls[ch].got \in Snapshots
    BY <1>0, <1>3, GotIsTyped
  <2>2. /\ ui'.comp = calls[ch].got.comp /\ ui'.error = ui.error
        /\ ui'.sawCancelled = (ui.sawCancelled \/ calls[ch].got.comp = "cancelled")
    BY <1>3, <2>1, SeenKeeps
  <2>3. QED
    BY <1>1, <1>3, <2>2 DEF TakenBackIsNoticed, Standing
<1>4. CASE LookSeen
  <2>1. CASE calls["look"].at = "answered" /\ ui.comp # "none"
    BY <1>0, <1>3, <1>4, <2>1 DEF LookSeen, Answered
  <2>2. CASE ~(calls["look"].at = "answered" /\ ui.comp # "none")
    <3>1. UNCHANGED ui
      BY <1>4, <2>2 DEF LookSeen, Answered
    <3>2. QED
      BY <1>1, <3>1, NoticedFrame
  <2>3. QED
    BY <2>1, <2>2
<1>5. CASE StageSucceeds
  <2>1. ~Unstaged
    BY <1>5 DEF StageSucceeds, Answered, Answers, StagingIsCurrent
  <2>2. QED
    BY <1>0, <1>3, <1>5, <2>1 DEF StageSucceeds, Answered
<1>6. QED
  BY <1>2, <1>4, <1>5

\* An operation that clears the error looks at the completion again.
LEMMA StartsNoticed ==
  ASSUME ClientTypes, TakenBackIsNoticed, NEW s, Starts(s), Opening(s)
  PROVE  TakenBackIsNoticed'
<1>1. /\ UNCHANGED server /\ op'.steps = s
      /\ ui'.comp = ui.comp /\ ui'.sawCancelled = ui.sawCancelled
  BY DEF Starts
<1>2. Standing => Range(s) \cap Looking # {}
  <2>1. CASE Studying
    BY <2>1 DEF Studying, Standing
  <2>2. CASE \E k, m : IsBoundary(s, k, m)
    BY <2>2, BoundaryScript DEF Looking
  <2>3. CASE s \in ShutScripts
    BY <2>3, ShutInPlace DEF Looking
  <2>4. CASE RetryScript(s)
    BY <2>4 DEF RetryScript, Looking
  <2>5. QED
    BY <2>1, <2>2, <2>3, <2>4 DEF Opening
<1>3. QED
  BY <1>1, <1>2 DEF TakenBackIsNoticed, Standing, Looks

LEMMA ReloadNoticed ==
  ASSUME ClientTypes, Reload
  PROVE  TakenBackIsNoticed'
<1>0. Snapshot(server) \in Snapshots /\ Snapshot(server).comp = server.comp
  BY SnapshotIsTyped DEF ClientTypes, Snapshot
<1>1. /\ Seen(Snapshot(server)) \in Pages
      /\ Seen(Snapshot(server)).comp =
           IF server.comp = "cancelled" THEN "none" ELSE server.comp
  BY <1>0, SeenKeeps
<1>2. PICK seen \in Pages :
        /\ seen.comp = IF server.comp = "cancelled" THEN "none" ELSE server.comp
        /\ ui' = [seen EXCEPT !.open = Unfinished, !.load = @ + 1,
                              !.held = FALSE, !.error = FALSE,
                              !.suppress = FALSE, !.attempted = 0]
  BY <1>1 DEF Reload
<1>3. ui'.comp = seen.comp /\ UNCHANGED server
  BY <1>2 DEF Pages, Reload
<1>4. QED
  BY <1>2, <1>3 DEF TakenBackIsNoticed, Standing, Unstaged

LEMMA NoticedStep ==
  ASSUME ClientInv, Shape, Answers, Answers', QueueInv, TakenBackIsNoticed,
         [Next]_vars
  PROVE  TakenBackIsNoticed'
<1>0. ClientTypes /\ ClientTypes' /\ Grounded /\ AskingIsFlushed
  BY NextIsTyped
  DEF ClientInv, Answers, AnswersAreKnown, QueueInv, QueueIsFlushed
<1>1. CASE UNCHANGED vars
  BY <1>1, NoticedFrame DEF vars, page, Looks, Unstaged
<1>2. CASE OpStep \/ StageStep
  BY <1>0, <1>2, OperationNoticed
<1>3. CASE \/ QueueStep \/ AutoStage \/ Leave \/ Look \/ LookSeen \/ Hold
           \/ Discard \/ React \/ StageSends \/ StageEnds \/ StageSucceeds
  BY <1>0, <1>3, QuietEventNoticed, LearningNoticed DEF QueueStep
<1>4. CASE \/ \E ch \in Channels : Serve(ch) \/ Lose(ch)
           \/ CloseFails \/ WindowEnds \/ WorkerCloses
           \/ \E e \in late : Arrive(e)
  <2>1. ServerStep
    BY <1>0, <1>4, ServeMoves, OtherMoves
  <2>2. QED
    BY <1>0, <2>1, ServerNoticed
<1>5. CASE Study \/ Revise \/ Home \/ Retry \/ Deadline
  <2>1. PICK s : Starts(s) /\ Opening(s)
    BY <1>0, <1>5, OperationStarts
  <2>2. QED
    BY <1>0, <2>1, StartsNoticed
<1>6. CASE Reload
  BY <1>0, <1>6, ReloadNoticed
<1>7. QED
  BY <1>1, <1>2, <1>3, <1>4, <1>5, <1>6 DEF Next, StagingStep, Learner

-----------------------------------------------------------------------------
(* What staging completes, and what is on screen.                          *)

SummaryInv ==
  /\ ClientInv /\ Shape /\ Answers /\ QueueInv /\ TakenBackIsNoticed

LEMMA InitSummary ==
  ASSUME Init
  PROVE  SummaryInv
<1>1. ClientInv
  BY InitIsTyped, InitIsOrdered DEF ClientInv
<1>2. /\ op.steps = <<>> /\ queue = <<>> /\ staging = "idle" /\ failure = "none"
      /\ \A ch \in Channels : calls[ch].at = "none"
      /\ {"queue", "op", "stage", "look"} = Channels
      /\ ~Working /\ Range(op.steps) = {} /\ DOMAIN op.steps = {}
  BY DEF Init, NoCall, Channels, Working, Range
<1>3. Shape
  <2>1. CallsAwaited
    BY <1>2 DEF CallsAwaited
  <2>2. QED
    BY <1>2, <2>1 DEF Shape, StopsAtHead, StagingIsHeldOff, HeldOff, Reopening,
                      StepsInPlace, InPlace
<1>4. Answers
  <2>1. /\ server.comp = "none" /\ server.status = "active"
        /\ server.phase = "active" /\ Len(server.log) = 0
        /\ ui.seq = 0 /\ ui.phase = "active" /\ ui.comp = "none"
    BY DEF Init
  <2>2. AnswersAreKnown
    BY <1>2, <2>1 DEF AnswersAreKnown, Grounded, Unstaged, KnownTo, OlderThan
  <2>3. PageIsCurrent /\ AnswersAreCurrent
    BY <1>2, <2>1 DEF PageIsCurrent, AnswersAreCurrent, Unstaged, Whole
  <2>4. StagingIsCurrent
    BY <1>2 DEF StagingIsCurrent, Live, Sending
  <2>5. QED
    BY <2>2, <2>3, <2>4 DEF Answers
<1>5. QueueInv
  BY <1>2 DEF QueueInv, NothingIsLeftOut, BoundaryIsLate, Reopens, Reopening,
              DecidedBefore, WorkIsEarly, HeldIsEarly, AdvanceIsEarly, Decides,
              AdvancesSoon, QueueIsFlushed, AskingIsFlushed
<1>6. TakenBackIsNoticed
  BY DEF Init, TakenBackIsNoticed, Standing
<1>7. QED
  BY <1>1, <1>3, <1>4, <1>5, <1>6 DEF SummaryInv

LEMMA SummaryStep == SummaryInv /\ [Next]_vars => SummaryInv'
<1>1. SUFFICES ASSUME SummaryInv, [Next]_vars
               PROVE  SummaryInv'
  OBVIOUS
<1>2. ClientInv /\ Shape /\ Answers /\ QueueInv /\ TakenBackIsNoticed
  BY <1>1 DEF SummaryInv
<1>3. ClientInv'
  BY <1>1, <1>2, ClientStep
<1>4. Shape'
  BY <1>1, <1>2, ShapeStep
<1>5. AskingIsFlushed
  BY <1>2 DEF QueueInv, QueueIsFlushed
<1>6. Answers'
  BY <1>1, <1>2, <1>5, AnswersStep
<1>7. QueueInv'
  BY <1>1, <1>2, QueueInvStep
<1>8. TakenBackIsNoticed'
  BY <1>1, <1>2, <1>6, NoticedStep
<1>9. QED
  BY <1>3, <1>4, <1>6, <1>7, <1>8 DEF SummaryInv

\* Only the server stages, and only what is asked of the whole log.
LEMMA OnlyStaged ==
  ASSUME SummaryInv, [Next]_vars, server.comp # "pending",
         server'.comp = "pending"
  PROVE  Stages
<1>1. ClientTypes /\ Shape /\ Grounded
  BY DEF SummaryInv, ClientInv, Answers, AnswersAreKnown
<1>2. server' # server
  OBVIOUS
<1>3. \/ \E ch \in Channels : Serve(ch) \/ Lose(ch)
      \/ CloseFails \/ WindowEnds \/ WorkerCloses
      \/ \E e \in late : Arrive(e)
  <2>1. ~UNCHANGED vars
    BY <1>2 DEF vars
  <2>2. ~(OpStep \/ StagingStep)
    BY <1>2 DEF OpStep, StagingStep, Flush, Await, Held, SendStep, Local,
                CancelStep, ShutStep, StageStep, StageSends, StageEnds,
                StageSucceeds
  <2>3. ~(QueueStep \/ AutoStage)
    BY <1>2 DEF QueueStep, Pump, Acknowledge, Stop, AutoStage
  <2>4. ~(Leave \/ Look \/ LookSeen \/ Hold \/ Discard \/ React \/ Reload)
    BY <1>2 DEF Leave, Look, LookSeen, Hold, Discard, React, Reload
  <2>5. ~(Study \/ Revise \/ Home \/ Retry \/ Deadline)
    BY <1>1, <1>2, OperationStarts DEF Starts
  <2>6. QED
    BY <2>1, <2>2, <2>3, <2>4, <2>5 DEF Next, Learner
<1>4. ServerMoves
  BY <1>1, <1>3, ServeMoves, OtherMoves DEF ServerStep
<1>5. QED
  BY <1>2, <1>4 DEF ServerMoves, Logs, TakesBack, GoesOn

\* What is on screen once no operation is under way is the session itself, if
\* it is no completion the page saw cancelled: the server holds a completion,
\* of all that the page received, for any number of commands, lost calls,
\* failed closes and reloads.
THEOREM SummaryIsTheSessionAlways == Spec => []SummaryIsTheSession
<1>1. Init => SummaryInv
  BY InitSummary
<1>2. SummaryInv => SummaryIsTheSession
  <2>1. SUFFICES ASSUME SummaryInv, ~Working, ~ui.error, Standing, ~ui.sawCancelled
                 PROVE  ~Unstaged /\ Completed /\ ui.seq = Len(server.log)
    BY DEF SummaryIsTheSession
  <2>2. ~Looks
    BY <2>1 DEF Looks, Range, Working
  <2>3. ~Unstaged
    BY <2>1, <2>2 DEF SummaryInv, TakenBackIsNoticed
  <2>4. ui.seq = Len(server.log) /\ server.phase = "completed"
    BY <2>1, <2>3
    DEF SummaryInv, Answers, PageIsCurrent, AnswersAreKnown, Grounded
  <2>5. Completed
    BY <2>1, <2>4 DEF SummaryInv, Answers, AnswersAreKnown, KnownTo, Completed
  <2>6. QED
    BY <2>3, <2>4, <2>5
<1>3. QED
  BY <1>1, <1>2, SummaryStep, PTL DEF Spec

\* When a completion is staged, whatever is still in the queue is logged
\* already or asks for the next exercise: no answer, skip or reaction of the
\* learner is left out of the session that is saved.
THEOREM WholeSessionIsStagedAlways == Spec => WholeSessionIsStaged
<1>1. Init => SummaryInv
  BY InitSummary
<1>2. SummaryInv /\ [Next]_vars =>
        [ (server.comp # "pending" /\ server'.comp = "pending") =>
            \A i \in DOMAIN queue :
              Matters(queue[i]) => Recognised(queue[i]) ]_vars
  <2>1. SUFFICES ASSUME SummaryInv, [Next]_vars, server.comp # "pending",
                        server'.comp = "pending"
                 PROVE  \A i \in DOMAIN queue :
                          Matters(queue[i]) => Recognised(queue[i])
    OBVIOUS
  <2>2. Live
    BY <2>1, OnlyStaged DEF Stages
  <2>3. QED
    BY <2>1, <2>2 DEF SummaryInv, QueueInv, NothingIsLeftOut
<1>3. QED
  BY <1>1, <1>2, SummaryStep, PTL DEF Spec, WholeSessionIsStaged

\* While the operation that took a completion back has not released staging,
\* nothing completes the session again: the run under way was waited for, and
\* none is started.
THEOREM ResumedStaysOpenAlways == Spec => ResumedStaysOpen
<1>1. Init => SummaryInv
  BY InitSummary
<1>2. SummaryInv /\ [Next]_vars =>
        [ (server.comp = "cancelled" /\ server'.comp = "pending") =>
            "release" \notin Range(op.steps) ]_vars
  <2>1. SUFFICES ASSUME SummaryInv, [Next]_vars, server.comp = "cancelled",
                        server'.comp = "pending", Reopens
                 PROVE  FALSE
    BY DEF Reopens, Reopening
  <2>2. Live /\ Unstaged
    BY <2>1, OnlyStaged DEF Stages
  <2>3. ClientTypes /\ Shape /\ QueueInv
    BY <2>1 DEF SummaryInv, ClientInv
  <2>4. Working
    BY <2>1 DEF Reopens, Reopening, Range, Working
  <2>5. CASE op.steps[1] \in {"suppress", "staged"}
    BY <2>1, <2>2, <2>3, <2>5 DEF QueueInv, BoundaryIsLate
  <2>6. CASE op.steps[1] \notin {"suppress", "staged"}
    BY <2>1, <2>2, <2>3, <2>4, <2>6, InsideIsIdle DEF Live
  <2>7. QED
    BY <2>5, <2>6
<1>3. QED
  BY <1>1, <1>2, SummaryStep, PTL DEF Spec, ResumedStaysOpen

=============================================================================
