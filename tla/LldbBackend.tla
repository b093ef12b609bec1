----------------------------- MODULE LldbBackend -----------------------------
(***************************************************************************)
(* Crate lldb-backend over a DAP adapter, and the tool handlers of         *)
(* mcp-tools that call it and that ToolSession leaves out: what launch,    *)
(* attach, continue, step and disconnect exchange with lldb-dap, the       *)
(* inspection tools with the frame map they share, the walk of variables,  *)
(* and the output on its way from the adapter to the client.               *)
(*                                                                         *)
(* An operation is its script, the awaits it makes in order; between two   *)
(* awaits its code runs without interruption.  The client library is       *)
(* reduced to what DapClient establishes: a request is answered by its own *)
(* response or closed by recovery, and the one slot of the stop waiter     *)
(* holds the last registration.  An event takes effect when the read loop  *)
(* reads it.  One session, made by one tool server, is followed.           *)
(***************************************************************************)
EXTENDS Integers, Sequences, FiniteSets, OutputBuffer, FlattenVariables

CONSTANTS
    Calls,          \* the tool calls, numbered in the order they are made
    PlanChoices,    \* what each of them is, one function per choice
    Threads,        \* the threads of the debuggee
    StackDepth,     \* how many frames each of them has
    Sizes,          \* the sizes of output chunks
    Depths,         \* the depth argument of variables
    Filters,        \* the top-level variables the filter argument may match
    None            \* no thread, no call; where a thread is asked about, the default

VARIABLES
    plan,           \* what each call is
    at,             \* the position in its script, 0 before it begins
    result,         \* "none", "done", "failed" or "cancelled"
    req,            \* its DAP request: "none", "sent", "ok", "refused" or "closed"
    got,            \* what its stop receiver holds
    about,          \* the thread whose frame it resolved or asks about
    walk,           \* the walk of variables
    phase,          \* Inner::state
    ended,          \* whether reset was called: the generation is another, no backend is held
    lastStop,       \* Inner::last_stopped, its thread
    frames,         \* Inner::frame_mapping, the thread of each frame index
    slot,           \* StopWaiter::slot
    fired,          \* InitializedSignal::fired
    start,          \* the launch or attach request
    loop,           \* the read loop, "running" or "ended"
    signalled,      \* whether the pump has handled Terminated
    child,          \* the lldb-dap process: "none", "running", "exited" or "reaped"
    hung,           \* external: whether it runs, connected, and answers no more
    defers,         \* external: whether it answers launch after configurationDone only
    configured,     \* external: its answer to configurationDone, "none", "ok" or "refused"
    target,         \* external: the debuggee, "none", "running", "stopped" or "exited"
    pausing,        \* external: whether something is about to stop it
    stopped,        \* external: the thread that stopped
    accepted,       \* history: the calls whose request set the debuggee running
    queue,          \* output the pump has not taken yet
    chunks,         \* how many chunks were written
    buffer,         \* OutputBuffer
    shown           \* the last output a tool returned, or reset threw away

calls == <<plan, at, result, req, got, about, walk>>
session == <<phase, ended, lastStop, frames>>
client == <<slot, fired, start, loop, signalled>>
adapter == <<child, hung, defers, configured, target, pausing, stopped, accepted>>
output == <<queue, chunks, buffer, shown>>
vars == <<calls, session, client, adapter, output>>

-----------------------------------------------------------------------------
(* The scripts (backend.rs; frame.rs, inspection.rs, memory.rs) *)

run_launch == <<"initialize", "start", "initialized", "flush", "exceptions", "configure",
                "started">>

\* MUTANT of run_launch_entry: the launch response is awaited before configurationDone.
run_launch_blocking == <<"initialize", "start", "started", "initialized", "flush",
                         "exceptions", "register", "configure", "stop">>

\* stop_on_entry: the waiter is registered before configurationDone.
run_launch_entry == <<"initialize", "start", "initialized", "flush", "exceptions", "register",
                      "configure", "started", "stop">>

run_attach == <<"initialize", "start", "initialized", "exceptions", "configure", "started",
                "register", "stop">>

\* MUTANT of resume_and_wait: the waiter is registered once the request is answered.
resume_then_wait == <<"resume", "register", "stop">>

resume_and_wait == <<"register", "resume", "stop">>

\* threads and read_memory make one request, disassemble without an address two.
Script == [
    launch |-> run_launch, launch_entry |-> run_launch_entry, attach |-> run_attach,
    cont |-> resume_and_wait, pause |-> <<"pause">>, disconnect |-> <<"disconnect", "kill">>,
    backtrace |-> <<"stackTrace">>, variables |-> <<"frame", "scopes", "fetch">>,
    evaluate |-> <<"frame", "evaluate">>, threads |-> <<"inspect">>,
    disassemble |-> <<"inspect", "inspect">>, read_output |-> <<>>,
    none |-> <<>>]      \* a call that is not made

Tools == DOMAIN Script
Connecting == {"launch", "launch_entry", "attach"}
Inspecting == {"backtrace", "variables", "evaluate", "threads", "disassemble"}
Ops == [tool : Tools, thread : Threads \cup {None}, levels : Nat, index : Nat, chunks : Nat]

\* The requests whose success=false is an error; exceptions, configure and resume
\* are sent for their effect, and disconnect's outcome is ignored.
Checked == {"initialize", "flush", "pause", "stackTrace", "frame", "scopes", "fetch",
            "evaluate", "inspect"}
Requests == Checked \cup {"exceptions", "configure", "resume", "disconnect"}

ASSUME LldbAssumption ==
    /\ Calls \subseteq Nat
    /\ PlanChoices \subseteq [Calls -> Ops]
    /\ \A p \in PlanChoices : \A c, d \in Calls :
          p[c].tool \in Connecting /\ p[d].tool \in Connecting => c = d
    /\ None \notin Threads \cup Calls
    /\ StackDepth \in Nat \ {0}
    /\ Sizes \subseteq Nat
    /\ Depths \subseteq Nat

Tool(c) == plan[c].tool
InFlight(c) == at[c] > 0 /\ result[c] = "none"
StepOf(c) == IF at[c] \in DOMAIN Script[Tool(c)] THEN Script[Tool(c)][at[c]] ELSE "over"
At(c) == IF InFlight(c) THEN StepOf(c) ELSE "over"
Quiet == \A c \in Calls : ~ InFlight(c)

TypeOK ==
    /\ plan \in PlanChoices
    /\ \A c \in Calls : at[c] \in 0 .. Len(Script[Tool(c)]) + 1
    /\ result \in [Calls -> {"none", "done", "failed", "cancelled"}]
    /\ req \in [Calls -> {"none", "sent", "ok", "refused", "closed"}]
    /\ got \in [Calls -> {"none", "stopped", "exited", "terminated"}]
    /\ about \in [Calls -> Threads \cup {None}]
    /\ phase \in {"idle", "configuring", "stopped", "running", "terminated"}
    /\ ended \in BOOLEAN
    /\ lastStop \in Threads \cup {None}
    /\ DOMAIN frames \subseteq 0 .. StackDepth - 1
    /\ frames \in [DOMAIN frames -> Threads \cup {None}]
    /\ slot \in Calls \cup {None}
    /\ start \in {"none", "sent", "ok", "refused", "closed"}
    /\ fired \in BOOLEAN /\ signalled \in BOOLEAN
    /\ loop \in {"running", "ended"}
    /\ child \in {"none", "running", "exited", "reaped"}
    /\ hung \in BOOLEAN /\ defers \in BOOLEAN /\ pausing \in BOOLEAN
    /\ configured \in {"none", "ok", "refused"}
    /\ target \in {"none", "running", "stopped", "exited"}
    /\ stopped \in Threads \cup {None}
    /\ accepted \subseteq Calls
    /\ queue \in Seq(Sizes) /\ chunks \in Nat
    /\ buffer.entries \in Seq(Sizes) /\ buffer.size \in Nat /\ buffer.truncated \in BOOLEAN

Init ==
    /\ plan \in PlanChoices
    /\ at = [c \in Calls |-> 0]
    /\ result = [c \in Calls |-> "none"]
    /\ req = [c \in Calls |-> "none"]
    /\ got = [c \in Calls |-> "none"]
    /\ about = [c \in Calls |-> None]
    /\ walk = NewWalk(0, {})
    /\ phase = "idle" /\ ended = FALSE /\ lastStop = None /\ frames = << >>
    /\ slot = None /\ fired = FALSE /\ start = "none" /\ loop = "running" /\ signalled = FALSE
    /\ child = "none" /\ hung = FALSE /\ defers \in BOOLEAN /\ configured = "none"
    /\ target = "none" /\ pausing = FALSE /\ stopped = None /\ accepted = {}
    /\ queue = <<>> /\ chunks = 0 /\ buffer = EmptyBuffer
    /\ shown = [marker |-> FALSE, entries |-> <<>>]

-----------------------------------------------------------------------------
(* A call begins and ends *)

\* The calls are made in order.  Pause, disconnect and read_output may be made
\* while another call is in flight.
Due(c) ==
    /\ at[c] = 0 /\ result[c] = "none" /\ Tool(c) # "none"
    /\ \A d \in Calls : d < c => at[d] > 0 \/ result[d] # "none"
    /\ Tool(c) \in {"pause", "disconnect", "read_output"} \/ Quiet

Admits(tool) ==
    IF tool \in Connecting THEN {"idle"}
    ELSE IF tool = "pause" THEN {"running"}
    ELSE IF tool \in {"disconnect", "read_output"}
    THEN {"configuring", "stopped", "running", "terminated"} ELSE {"stopped"}

\* check_state; without a backend only disconnect and read_output go on.
Ready(c) ==
    /\ phase \in Admits(Tool(c))
    /\ ended => Tool(c) \in {"disconnect", "read_output"}

Enter(c) == at' = [at EXCEPT ![c] = 1]
Advance(c) == at' = [at EXCEPT ![c] = @ + 1]
Finish(c, how) == result' = [result EXCEPT ![c] = how]

\* check_state refuses the call, or there is no backend.
Rejected(c) ==
    /\ Due(c) /\ ~ Ready(c)
    /\ Finish(c, "failed")
    /\ UNCHANGED <<plan, at, req, got, about, walk, session, client, adapter, output>>

\* launch and attach: LldbFactory::connect finds and spawns lldb-dap.
Connect(c) ==
    /\ Due(c) /\ Ready(c) /\ Tool(c) \in Connecting
    /\ Enter(c)
    /\ phase' = "configuring"
    /\ child' = "running"
    /\ UNCHANGED <<plan, result, req, got, about, walk, ended, lastStop, frames, client, hung,
                   defers, configured, target, pausing, stopped, accepted, output>>

Drains == shown' = drained(buffer) /\ buffer' = drain(buffer)

\* The output goes with it: a stop result and reset drain the buffer.
Reset == phase' = "idle" /\ ended' = TRUE /\ lastStop' = None /\ frames' = << >> /\ Drains

\* lldb-dap is not found or not spawned: reset.
ConnectFails(c) ==
    /\ Due(c) /\ Ready(c) /\ Tool(c) \in Connecting
    /\ Finish(c, "failed")
    /\ Reset
    /\ UNCHANGED <<plan, at, req, got, about, walk, client, adapter, queue, chunks>>

\* The thread of a backtrace: the one it was given, else the last that stopped.
ThreadOf(c) == IF plan[c].thread # None THEN plan[c].thread ELSE lastStop

\* continue and step_* set the session running before they call the backend; a
\* disconnect without a backend goes to its reset.
Begin(c) ==
    /\ Due(c) /\ Ready(c) /\ Tool(c) \notin Connecting \cup {"read_output"}
    /\ at' = [at EXCEPT ![c] = IF ended THEN Len(Script[Tool(c)]) + 1 ELSE 1]
    /\ phase' = IF Tool(c) = "cont" THEN "running" ELSE phase
    /\ \E d \in Depths, f \in Filters :
          walk' = IF Tool(c) = "variables" THEN NewWalk(d, f) ELSE walk
    /\ about' = IF Tool(c) = "backtrace" THEN [about EXCEPT ![c] = ThreadOf(c)] ELSE about
    /\ UNCHANGED <<plan, result, req, got, ended, lastStop, frames, client, adapter, output>>

\* The handler returns an error.  A failed launch or attach cleans up, a failed
\* resumption goes back to stopped, even where a reset came first.
Fail(c) ==
    /\ Finish(c, "failed")
    /\ IF Tool(c) \in Connecting
       THEN Reset
       ELSE /\ phase' = IF Tool(c) = "cont" THEN "stopped" ELSE phase
            /\ UNCHANGED <<ended, lastStop, frames, buffer, shown>>

\* MUTANT of Abandons: a cancelled continue goes back to stopped.
AbandonsToStopped(c) ==
    IF Tool(c) = "cont"
    THEN phase' = "stopped" /\ UNCHANGED <<ended, lastStop, frames, buffer, shown>>
    ELSE Reset

\* A cancelled continue leaves the session running, the others clean up.
Abandons(c) == IF Tool(c) = "cont" THEN UNCHANGED <<session, buffer, shown>> ELSE Reset

\* The client cancels a launch, attach, continue or step, or the five seconds of
\* disconnect are over: the call is dropped where it waits.  What it has sent is
\* sent.  Nothing is awaited between disconnect's answer and start_kill.
Dropped(c) ==
    /\ InFlight(c) /\ Tool(c) \in Connecting \cup {"cont", "disconnect"} /\ At(c) # "kill"
    /\ Finish(c, "cancelled")
    /\ Abandons(c)
    /\ UNCHANGED <<plan, at, req, got, about, walk, client, adapter, queue, chunks>>

-----------------------------------------------------------------------------
(* Requests *)

\* What a step that is a request asks about: a frame already in the map needs none.
Wants(c) ==
    /\ At(c) \in Requests
    /\ At(c) = "frame" => plan[c].index \notin DOMAIN frames
    /\ At(c) = "fetch" => walk.opens # {}

\* Client::send: it fails when the process has gone.  Nobody answers it when the
\* read loop alone has ended.
Send(c) ==
    /\ Wants(c) /\ req[c] = "none"
    /\ req' = [req EXCEPT ![c] = IF child = "running" THEN "sent" ELSE "closed"]
    /\ about' = IF At(c) = "frame" THEN [about EXCEPT ![c] = lastStop] ELSE about
    /\ UNCHANGED <<plan, at, result, got, walk, session, client, adapter, output>>

\* send_checked and its variants: an error ends the call, success=false only where
\* it is checked.  A body that does not parse, a scope that is not there and a
\* frame without an address end it just the same.
Errs(c) ==
    /\ At(c) # "disconnect"
    /\ \/ req[c] = "closed"
       \/ req[c] = "refused" /\ At(c) \in Checked

RequestFails(c) ==
    /\ At(c) \in Requests /\ Errs(c)
    /\ Fail(c)
    /\ UNCHANGED <<plan, at, req, got, about, walk, client, adapter, queue, chunks>>

\* The answer is there and not an error.
Has(c) == At(c) \in Requests /\ req[c] \in {"ok", "refused", "closed"} /\ ~ Errs(c)

NextRequest(c) == Advance(c) /\ req' = [req EXCEPT ![c] = "none"]

\* MUTANT of Replied: disconnect returns on an error, before it kills.
RepliedOrReturns(c) ==
    /\ Has(c) /\ At(c) \notin {"stackTrace", "frame", "fetch"}
    /\ at' = [at EXCEPT ![c] = @ + (IF At(c) = "disconnect" /\ req[c] # "ok" THEN 2 ELSE 1)]
    /\ req' = [req EXCEPT ![c] = "none"]
    /\ UNCHANGED <<plan, result, got, about, walk, session, client, adapter, output>>

Replied(c) ==
    /\ Has(c) /\ At(c) \notin {"stackTrace", "frame", "fetch"}
    /\ NextRequest(c)
    /\ UNCHANGED <<plan, result, got, about, walk, session, client, adapter, output>>

\* MUTANT of MapOf: the frames are numbered from one.
MapOfFromOne(t, levels) == [i \in 1 .. Min({levels, StackDepth}) |-> t]

\* The map of a stack trace of so many levels.
MapOf(t, levels) == [i \in 0 .. Min({levels, StackDepth}) - 1 |-> t]

\* backtrace rebuilds the map from what it got.
Backtraced(c) ==
    /\ Has(c) /\ At(c) = "stackTrace"
    /\ frames' = MapOf(about[c], plan[c].levels)
    /\ NextRequest(c)
    /\ UNCHANGED <<plan, result, got, about, walk, phase, ended, lastStop, client, adapter,
                   output>>

\* resolve_frame_id: a hit.
FrameHit(c) ==
    /\ At(c) = "frame" /\ req[c] = "none" /\ ~ Wants(c)
    /\ about' = [about EXCEPT ![c] = frames[plan[c].index]]
    /\ Advance(c)
    /\ UNCHANGED <<plan, result, req, got, walk, session, client, adapter, output>>

\* A miss: the map is rebuilt from 20 levels; the index may still be out of range.
FrameMiss(c) ==
    /\ Has(c) /\ At(c) = "frame"
    /\ frames' = MapOf(about[c], 20)
    /\ IF plan[c].index \in DOMAIN frames'
       THEN NextRequest(c) /\ UNCHANGED result
       ELSE Finish(c, "failed") /\ UNCHANGED <<at, req>>
    /\ UNCHANGED <<plan, got, about, walk, phase, ended, lastStop, client, adapter,
                   output>>

\* variables: one fetch of the walk is answered, the tree being what it is.
VariablesFetched(c) ==
    /\ Has(c) /\ At(c) = "fetch"
    /\ \E p \in walk.opens, tree \in Trees :
          /\ p # Root => tree = walk.tree
          /\ walk' = Fetched(walk, tree, p)
    /\ req' = [req EXCEPT ![c] = "none"]
    /\ UNCHANGED <<plan, at, result, got, about, session, client, adapter, output>>

VariablesVisit(c) ==
    /\ At(c) = "fetch" /\ walk.opens = {}
    /\ IF walk.todo # <<>>
       THEN walk' = Visit(walk) /\ UNCHANGED at
       ELSE Advance(c) /\ UNCHANGED walk
    /\ UNCHANGED <<plan, result, req, got, about, session, client, adapter, output>>

-----------------------------------------------------------------------------
(* The other steps of the scripts *)

\* send_async of launch or attach.
SendStart(c) ==
    /\ At(c) = "start"
    /\ IF child = "running"
       THEN Advance(c) /\ start' = "sent" /\ UNCHANGED <<result, session, buffer, shown>>
       ELSE Fail(c) /\ UNCHANGED <<at, start>>
    /\ UNCHANGED <<plan, req, got, about, walk, slot, fired, loop, signalled, adapter, queue,
                   chunks>>

\* wait_initialized
WaitInitialized(c) ==
    /\ At(c) = "initialized" /\ fired
    /\ Advance(c)
    /\ UNCHANGED <<plan, result, req, got, about, walk, session, client, adapter, output>>

\* The launch or attach response is awaited and checked.
Started(c) ==
    /\ At(c) = "started" /\ start \in {"ok", "refused", "closed"}
    /\ IF start = "ok" THEN Advance(c) /\ UNCHANGED <<result, session, buffer, shown>>
                       ELSE Fail(c) /\ UNCHANGED at
    /\ UNCHANGED <<plan, req, got, about, walk, client, adapter, queue, chunks>>

\* StopWaiter::register: an earlier registration loses its sender and ends as
\* terminated.
Register(c) ==
    /\ At(c) = "register"
    /\ slot' = c
    /\ got' = [d \in Calls |-> IF d = slot /\ got[d] = "none" THEN "terminated" ELSE got[d]]
    /\ Advance(c)
    /\ UNCHANGED <<plan, result, req, about, walk, session, fired, start, loop, signalled,
                   adapter, output>>

Stop(c) ==
    /\ At(c) = "stop" /\ got[c] # "none"
    /\ Advance(c)
    /\ UNCHANGED <<plan, result, req, got, about, walk, session, client, adapter, output>>

\* start_kill and wait.
Kill(c) ==
    /\ At(c) = "kill"
    /\ child' = IF child = "none" THEN child ELSE "reaped"
    /\ Advance(c)
    /\ UNCHANGED <<plan, result, req, got, about, walk, session, client, hung, defers, configured,
                   target, pausing, stopped, accepted, output>>

\* The handler's last step, with what it makes of the outcome.  A
\* resumption leaves a session that was reset meanwhile alone, but drains what a
\* stop result shows; launch and attach write what they got.
Return(c) ==
    /\ InFlight(c) /\ At(c) = "over"
    /\ Finish(c, "done")
    /\ IF Tool(c) = "disconnect" THEN Reset
       ELSE IF Tool(c) \notin Connecting \cup {"cont"} THEN UNCHANGED <<session, buffer, shown>>
       ELSE /\ UNCHANGED <<ended, frames>>
            /\ IF ended /\ Tool(c) = "cont" THEN UNCHANGED <<phase, lastStop>>
               ELSE /\ phase' = IF Tool(c) = "launch" THEN "running"
                                ELSE IF got[c] = "stopped" THEN "stopped" ELSE "terminated"
                    /\ lastStop' = IF got[c] = "stopped" THEN stopped ELSE lastStop
            /\ IF Tool(c) = "cont" /\ got[c] # "terminated"
               THEN Drains ELSE UNCHANGED <<buffer, shown>>
    /\ UNCHANGED <<plan, at, req, got, about, walk, client, adapter, queue, chunks>>

ReadOutput(c) ==
    /\ Due(c) /\ Tool(c) = "read_output" /\ Ready(c)
    /\ Finish(c, "done")
    /\ Drains
    /\ UNCHANGED <<plan, at, req, got, about, walk, session, client, adapter, queue, chunks>>

-----------------------------------------------------------------------------
(* lldb-dap and the debuggee (external), the read loop, the pump *)

Works == child = "running" /\ loop = "running" /\ ~ hung

\* The effect of a request the adapter carries out.
Effect(c) ==
    CASE StepOf(c) = "configure" ->
            /\ configured' = "ok"
            /\ target' = IF start = "refused" THEN target ELSE "running"
            /\ pausing' = (Tool(c) # "launch")
            /\ accepted' = accepted \cup {c}
      [] StepOf(c) = "resume" ->
            /\ target' = "running" /\ pausing' = FALSE
            /\ accepted' = accepted \cup {c} /\ UNCHANGED configured
      [] StepOf(c) = "pause" ->
            /\ pausing' = TRUE /\ UNCHANGED <<target, configured, accepted>>
      [] OTHER -> UNCHANGED <<configured, target, pausing, accepted>>

\* What it can carry out in the state the debuggee is in.
Possible(c) ==
    CASE StepOf(c) = "resume" -> target = "stopped"
      [] StepOf(c) = "pause" -> target = "running"
      [] StepOf(c) \in {"stackTrace", "frame", "scopes", "fetch", "evaluate"} -> target = "stopped"
      [] OTHER -> TRUE

Answer(c) ==
    /\ Works /\ req[c] = "sent"
    /\ \/ Possible(c) /\ Effect(c) /\ req' = [req EXCEPT ![c] = "ok"]
       \/ /\ req' = [req EXCEPT ![c] = "refused"]
          /\ configured' = IF StepOf(c) = "configure" THEN "refused" ELSE configured
          /\ UNCHANGED <<target, pausing, accepted>>
    /\ UNCHANGED <<plan, at, result, got, about, walk, session, client, child, hung, defers,
                   stopped, output>>

\* The initialized event follows the launch or attach request.
AdapterInitialized ==
    /\ Works /\ start # "none" /\ ~ fired
    /\ fired' = TRUE
    /\ UNCHANGED <<calls, session, slot, start, loop, signalled, adapter, output>>

AnswerStart ==
    /\ Works /\ start = "sent" /\ (defers => configured = "ok")
    /\ \/ start' = "ok" /\ UNCHANGED <<target, pausing>>
       \/ start' = "refused" /\ target' = "none" /\ pausing' = FALSE
    /\ UNCHANGED <<calls, session, slot, fired, loop, signalled, child, hung, defers, configured,
                   stopped, accepted, output>>

\* StopWaiter::send: to the registration in the slot, if there is one.
Deliver(outcome) ==
    /\ slot' = None
    /\ got' = [c \in Calls |-> IF c = slot /\ got[c] = "none" THEN outcome ELSE got[c]]

\* A breakpoint, an exception, the entry point, a step or a pause.
TargetStops ==
    /\ Works /\ target = "running"
    /\ \E t \in Threads : stopped' = t
    /\ target' = "stopped" /\ pausing' = FALSE
    /\ Deliver("stopped")
    /\ UNCHANGED <<plan, at, result, req, about, walk, session, fired, start, loop, signalled,
                   child, hung, defers, configured, accepted, output>>

TargetExits ==
    /\ Works /\ target = "running"
    /\ target' = "exited" /\ pausing' = FALSE
    /\ Deliver("exited")
    /\ UNCHANGED <<plan, at, result, req, about, walk, session, fired, start, loop, signalled,
                   child, hung, defers, configured, stopped, accepted, output>>

AdapterHangs ==
    /\ Works
    /\ hung' = TRUE
    /\ UNCHANGED <<calls, session, client, child, defers, configured, target, pausing, stopped,
                   accepted, output>>

AdapterDies ==
    /\ child = "running"
    /\ child' = "exited" /\ hung' = FALSE
    /\ target' = "none" /\ pausing' = FALSE
    /\ UNCHANGED <<calls, session, client, defers, configured, stopped, accepted, output>>

\* MUTANT of Closes: only the requests still on the wire are told.
ClosesRequests == /\ req' = [c \in Calls |-> IF req[c] = "sent" THEN "closed" ELSE req[c]]
                  /\ start' = IF start = "sent" THEN "closed" ELSE start
                  /\ UNCHANGED <<slot, got>>

\* recover: every pending request, then the stop waiter; not the initialized signal.
Closes ==
    /\ req' = [c \in Calls |-> IF req[c] = "sent" THEN "closed" ELSE req[c]]
    /\ start' = IF start = "sent" THEN "closed" ELSE start
    /\ Deliver("terminated")

\* The stream ends, or holds something unreadable.
Recover ==
    /\ loop = "running" /\ child # "none"
    /\ loop' = "ended" /\ hung' = FALSE
    /\ Closes
    /\ UNCHANGED <<plan, at, result, about, walk, session, fired, signalled, child, defers,
                   configured, target, pausing, stopped, accepted, output>>

AdapterOutput ==
    /\ Works /\ configured = "ok" /\ chunks < plan[Min(Calls)].chunks
    /\ \E n \in Sizes : queue' = Append(queue, n)
    /\ chunks' = chunks + 1
    /\ UNCHANGED <<calls, session, client, adapter, buffer, shown>>

\* The pump: output, and the one Terminated, in either order.
PumpOutput ==
    /\ queue # <<>>
    /\ buffer' = append(buffer, Head(queue))
    /\ queue' = Tail(queue)
    /\ UNCHANGED <<calls, session, client, adapter, chunks, shown>>

PumpTerminated ==
    /\ target = "exited" \/ loop = "ended"
    /\ ~ signalled
    /\ signalled' = TRUE
    /\ phase' = IF ended THEN phase ELSE "terminated"
    /\ UNCHANGED <<calls, ended, lastStop, frames, slot, fired, start, loop, adapter, output>>

-----------------------------------------------------------------------------
Run(c) ==
    \/ Send(c) \/ RequestFails(c) \/ Replied(c) \/ Backtraced(c) \/ FrameHit(c) \/ FrameMiss(c)
    \/ VariablesFetched(c) \/ VariablesVisit(c) \/ SendStart(c) \/ WaitInitialized(c)
    \/ Started(c) \/ Register(c) \/ Stop(c) \/ Kill(c) \/ Return(c)

Make(c) == Rejected(c) \/ Connect(c) \/ ConnectFails(c) \/ Begin(c) \/ ReadOutput(c)

Pump == PumpOutput \/ PumpTerminated

\* What a working adapter does in the end: it answers, and stops what it was
\* asked to stop.
Obliged ==
    \/ AdapterInitialized \/ AnswerStart
    \/ pausing /\ TargetStops
    \/ \E c \in Calls : Answer(c)

Next ==
    \/ \E c \in Calls : Make(c) \/ Run(c) \/ Dropped(c) \/ Answer(c)
    \/ AdapterInitialized \/ AnswerStart \/ TargetStops \/ TargetExits \/ AdapterHangs
    \/ AdapterDies \/ AdapterOutput \/ Recover \/ Pump

Spec == Init /\ [][Next]_vars

\* tokio runs what is ready, the read loop sees the end of the stream, and an
\* adapter that works answers.  Nobody need call or cancel, and nothing stops a
\* debuggee that runs.
Fairness ==
    /\ WF_vars(\E c \in Calls : Run(c))
    /\ WF_vars(Pump)
    /\ WF_vars(child # "running" /\ Recover)
    /\ WF_vars(Obliged)

FairSpec == Spec /\ Fairness

-----------------------------------------------------------------------------
(* Properties *)

InUse(tools) == {c \in Calls : InFlight(c) /\ Tool(c) \in tools}

\* No stop is missed: a continue, a step or a launch that stops on entry, whose
\* request set the debuggee running, waits only while it runs and holds the slot
\* (resume_and_wait, run_launch: the waiter is registered first).  Attach, which
\* registers last, is left out.
NoMissedStop ==
    \A c \in accepted :
        At(c) = "stop" /\ got[c] = "none" /\ Tool(c) # "attach" /\ start # "refused"
            => slot = c /\ target \notin {"stopped", "exited"}

\* Between calls a session that says it is stopped has a stopped debuggee, as
\* long as the connection lives, whatever was refused, cancelled or paused.
StoppedHolds == phase = "stopped" /\ Quiet /\ Works => target = "stopped"

\* A launch ends, whether the adapter answers it at once or after
\* configurationDone only, if the adapter goes on working (run_launch).  Nothing
\* is known of a refused configurationDone, which run_launch does not check.
LaunchReturns ==
    InUse({"launch", "launch_entry"}) # {}
        ~> InUse({"launch", "launch_entry"}) = {} \/ ~ Works \/ configured = "refused"

\* A pause the adapter accepted ends the continue it was made for (handle_pause:
\* "will return when the process stops").
PauseEndsResume ==
    pausing /\ InUse({"cont"}) \cap accepted # {} ~> InUse({"cont"}) = {} \/ ~ Works

\* When the adapter's process dies no call waits for ever, neither for a response
\* nor for a stop.  Only the wait for the initialized event does, and an attach
\* that registers for its stop too late.  (A request sent between the end of the
\* read loop and that of the process is not covered.)
LossEndsCalls ==
    child \in {"exited", "reaped"} /\ loop = "running"
        ~> \A c \in InUse(Tools) :
              At(c) = "initialized" \/ (Tool(c) = "attach" /\ At(c) = "stop")

\* Nothing but a dropped disconnect, or a launch or attach that did not succeed,
\* leaves an lldb-dap process behind (disconnect ignores the answer and kills).
ChildGone ==
    ended /\ child = "running" /\ Quiet =>
        \/ \E c \in Calls : Tool(c) = "disconnect" /\ result[c] = "cancelled"
        \/ \E c \in Calls : Tool(c) \in Connecting /\ result[c] \in {"failed", "cancelled"}

\* The output a client reads is a bounded log of what the pump delivered: the
\* latest entries that fit, the marker exactly when some are missing.
Log == INSTANCE BoundedLog WITH Capacity <- MaxSize, source <- queue, log <- buffer.entries,
                                gap <- buffer.truncated, read <- shown
OutputIsBoundedLog == Log!Spec

\* variables lists the first of the variables in order, up to its cap.
VariablesInOrder == WalkCorrect(walk)

\* What the design says of frames: the map is rebuilt on every stop
\* (Designs/LLDBDebugMCP README, "`RefreshFrameMapping` is called on every
\* `StoppedEvent`"), so that a frame index is one of the thread that stopped.
FramesOfTheStop ==
    \A c \in Calls : At(c) \in {"scopes", "fetch", "evaluate"} => about[c] = lastStop

=============================================================================
