---------------------------- MODULE ToolSession ----------------------------
(***************************************************************************)
(* The tool handlers of crate mcp-tools that own the life of a debug       *)
(* session (launch, attach, open_crash_dump, attach_kernel, continue and   *)
(* step_*, pause, disconnect), the SessionManager of crate mcp-session     *)
(* they share, the backend slot of ToolServer and the event pump that      *)
(* copies a backend's events into the session.                             *)
(*                                                                         *)
(* Every tool call is its own task on a multi-threaded runtime.  A step is *)
(* one call on the session or on the slot, each of which takes its lock    *)
(* for that call only; set_program and set_pid, which follow each other,   *)
(* are one step, and so are the backend slot and active_backend_name.  A   *)
(* call whose arguments are rejected changes nothing and is left out.      *)
(*                                                                         *)
(* A backend is named by the tool call that connected it, and a cached     *)
(* value (program, stop, exit code, output) by the backend it came from.   *)
(***************************************************************************)
EXTENDS Naturals, FiniteSets

CONSTANTS
    Tools,        \* the tool calls, each made at most once
    None,         \* no backend
    KindChoices,  \* the tool each call may be of, one function per choice
    Overlaps      \* the pairs of tools that the MCP client has in flight together

Connecting == {"launch", "attach", "dump", "kernel"}
Kinds == Connecting \cup {"resume", "pause", "disconnect"}

ASSUME ToolsAssumption ==
    /\ None \notin Tools
    /\ KindChoices \subseteq [Tools -> Kinds]
    /\ Overlaps \subseteq SUBSET Kinds

VARIABLES
    state,      \* Inner::state
    gen,        \* Inner::generation
    program,    \* Inner::program and pid
    lastStop,   \* Inner::last_stopped
    exitCode,   \* Inner::exit_code
    isDump,     \* Inner::is_dump
    output,     \* OutputBuffer: the backends it holds output of
    slot,       \* ToolServer::backend and active_backend_name
    kind,       \* which tool the call is
    pc,         \* where the handler is
    mine,       \* the backend the handler holds a reference to
    snap,       \* the generation the handler took before its backend call
    outcome,    \* what the backend call returned
    backend,    \* external: "none", "up", "exited" (the debuggee), "dead"
    stream,     \* the unread events of the backend: output, then one last terminated
    pumps,      \* the backends with a spawned event pump
    pumpGen     \* the generation that pump was given

inner == <<state, gen, program, lastStop, exitCode, isDump>>
tools == <<kind, pc, mine, snap, outcome>>
backends == <<backend, stream>>
pump == <<pumps, pumpGen>>
vars == <<inner, output, slot, tools, backends, pump>>

States == {"idle", "configuring", "stopped", "running", "terminated"}
Finished == {"rejected", "failed", "done", "cancelled"}
Steps == {"configure", "connect", "spawn", "await", "program", "settle", "mark", "cache",
          "is_dump", "backend", "snapshot", "run", "apply", "ask", "take",
          "clear", "reset", "drain", "undo_reset", "undo_drain", "undo_clear"}
Backends == Tools \cup {None}

TypeOK ==
    /\ state \in States
    /\ gen \in Nat
    /\ program \in Backends
    /\ lastStop \in Backends
    /\ exitCode \in Backends
    /\ isDump \in BOOLEAN
    /\ output \in SUBSET Tools
    /\ slot \in Backends
    /\ kind \in [Tools -> Kinds]
    /\ pc \in [Tools -> {"start"} \cup Steps \cup Finished]
    /\ mine \in [Tools -> Backends]
    /\ snap \in [Tools -> Nat]
    /\ outcome \in [Tools -> {"none", "stopped", "running", "exited", "terminated"}]
    /\ backend \in [Tools -> {"none", "up", "exited", "dead"}]
    /\ stream \in [Tools -> SUBSET {"output", "terminated"}]
    /\ pumps \in SUBSET Tools
    /\ pumpGen \in [Tools -> Nat]

Init ==
    /\ state = "idle"
    /\ gen = 0
    /\ program = None
    /\ lastStop = None
    /\ exitCode = None
    /\ isDump = FALSE
    /\ output = {}
    /\ slot = None
    /\ kind \in KindChoices
    /\ pc = [t \in Tools |-> "start"]
    /\ mine = [t \in Tools |-> None]
    /\ snap = [t \in Tools |-> 0]
    /\ outcome = [t \in Tools |-> "none"]
    /\ backend = [t \in Tools |-> "none"]
    /\ stream = [t \in Tools |-> {}]
    /\ pumps = {}
    /\ pumpGen = [t \in Tools |-> 0]

-----------------------------------------------------------------------------
(* The session's critical sections (manager.rs) *)

SetState(s) == state' = s /\ UNCHANGED <<gen, program, lastStop, exitCode, isDump>>

\* set_state_if_generation
SetStateIfGeneration(g, s) == IF g = gen THEN SetState(s) ELSE UNCHANGED inner

\* MUTANT of TerminateIfGeneration: the generation is not compared.
TerminateAnyGeneration(g, b) ==
    /\ state' = "terminated"
    /\ exitCode' \in {exitCode, b}
    /\ UNCHANGED <<gen, program, lastStop, isDump>>

\* MUTANT of TerminateIfGeneration: the comparison is inverted.
TerminateOtherGeneration(g, b) ==
    IF g = gen
    THEN UNCHANGED inner
    ELSE /\ state' = "terminated"
         /\ exitCode' \in {exitCode, b}
         /\ UNCHANGED <<gen, program, lastStop, isDump>>

\* terminate_if_generation: b's exit code, if the event carries one, and the state.
TerminateIfGeneration(g, b) ==
    IF g = gen
    THEN /\ state' = "terminated"
         /\ exitCode' \in {exitCode, b}
         /\ UNCHANGED <<gen, program, lastStop, isDump>>
    ELSE UNCHANGED inner

SetLastStopped(b) == lastStop' = b /\ UNCHANGED <<state, gen, program, exitCode, isDump>>

\* MUTANT of ResetInner: the epoch is counted down.
ResetInnerDown ==
    /\ state' = "idle"
    /\ gen' = gen - 1
    /\ program' = None
    /\ lastStop' = None
    /\ exitCode' = None
    /\ isDump' = FALSE

\* reset up to its drop(inner); the output buffer is drained afterwards, under
\* its own lock.
ResetInner ==
    /\ state' = "idle"
    /\ gen' = gen + 1
    /\ program' = None
    /\ lastStop' = None
    /\ exitCode' = None
    /\ isDump' = FALSE

-----------------------------------------------------------------------------
(* Starting a call *)

InFlight(t) == pc[t] \notin {"start"} \cup Finished

Goto(t, l) == pc' = [pc EXCEPT ![t] = l]

\* The client has t in flight only together with calls it may overlap with.
Admitted(t) ==
    /\ pc[t] = "start"
    /\ \A u \in Tools \ {t} : InFlight(u) => {kind[t], kind[u]} \in Overlaps

\* check_state, the first thing every handler does.
CheckState(t, allowed, next) ==
    /\ Admitted(t)
    /\ Goto(t, IF state \in allowed THEN next ELSE "rejected")
    /\ UNCHANGED <<inner, output, slot, kind, mine, snap, outcome, backends, pump>>

\* current_backend: a clone of the slot, an error when it is empty.
CurrentBackend(t, next, otherwise) ==
    /\ mine' = [mine EXCEPT ![t] = slot]
    /\ Goto(t, IF slot = None THEN otherwise ELSE next)
    /\ UNCHANGED <<inner, output, slot, kind, snap, outcome, backends, pump>>

\* How a handler ends: cleanup_after_cancel is clear, reset and drain; the slot
\* emptied, disconnect goes on with reset and drain; a stop result drains the
\* output; a failed connect is reset, drain and clear, in that order.
Ended(t) == IF kind[t] \in Connecting THEN "failed" ELSE "done"

\* MUTANT of DoClear: cleanup_after_cancel forgets the reset.
DoClearOnly(t) ==
    /\ pc[t] \in {"clear", "undo_clear"}
    /\ slot' = None
    /\ Goto(t, Ended(t))
    /\ UNCHANGED <<inner, output, kind, mine, snap, outcome, backends, pump>>

\* clear_backend
DoClear(t) ==
    /\ pc[t] \in {"clear", "undo_clear"}
    /\ slot' = None
    /\ Goto(t, IF pc[t] = "clear" THEN "reset" ELSE Ended(t))
    /\ UNCHANGED <<inner, output, kind, mine, snap, outcome, backends, pump>>

\* reset, under the session lock
DoReset(t) ==
    /\ pc[t] \in {"reset", "undo_reset"}
    /\ ResetInner
    /\ Goto(t, IF pc[t] = "reset" THEN "drain" ELSE "undo_drain")
    /\ UNCHANGED <<output, slot, kind, mine, snap, outcome, backends, pump>>

\* OutputBuffer::drain, at the end of reset and of a stop result
DoDrain(t) ==
    /\ pc[t] \in {"drain", "undo_drain"}
    /\ output' = {}
    /\ Goto(t, IF pc[t] = "drain" THEN Ended(t) ELSE "undo_clear")
    /\ UNCHANGED <<inner, slot, kind, mine, snap, outcome, backends, pump>>

Finish(t) == DoClear(t) \/ DoReset(t) \/ DoDrain(t)

-----------------------------------------------------------------------------
(* launch, attach, open_crash_dump, attach_kernel (lifecycle.rs, windbg.rs) *)

ConnectGuard(t) == kind[t] \in Connecting /\ CheckState(t, {"idle"}, "configure")

Configure(t) ==
    /\ pc[t] = "configure"
    /\ SetState("configuring")
    /\ Goto(t, "connect")
    /\ UNCHANGED <<output, slot, kind, mine, snap, outcome, backends, pump>>

\* No such backend, or factory.connect() fails: reset, then clear_backend.
ConnectFails(t) ==
    /\ pc[t] = "connect"
    /\ Goto(t, "undo_reset")
    /\ UNCHANGED <<inner, output, slot, kind, mine, snap, outcome, backends, pump>>

\* factory.connect() succeeds and set_backend stores the backend.
SetBackend(t) ==
    /\ pc[t] = "connect"
    /\ backend' = [backend EXCEPT ![t] = "up"]
    /\ slot' = t
    /\ mine' = [mine EXCEPT ![t] = t]
    /\ Goto(t, "spawn")
    /\ UNCHANGED <<inner, output, kind, snap, outcome, stream, pump>>

\* generation() and spawn_event_pump.
SpawnPump(t) ==
    /\ pc[t] = "spawn"
    /\ pumps' = pumps \cup {t}
    /\ pumpGen' = [pumpGen EXCEPT ![t] = gen]
    /\ Goto(t, "await")
    /\ UNCHANGED <<inner, output, slot, kind, mine, snap, outcome, backends>>

\* What the backend call of each connecting tool can return; "none" is a dump
\* without a faulting thread.
ConnectOutcomes(k) ==
    {"stopped"} \cup (IF k = "launch" THEN {"running", "exited"}
                      ELSE IF k = "dump" THEN {"none"} ELSE {"exited"})

\* backend.launch (attach, open_dump, attach_kernel) returns Ok.
Connected(t) ==
    /\ pc[t] = "await"
    /\ kind[t] \in Connecting
    /\ \E o \in ConnectOutcomes(kind[t]) :
          /\ o = "exited" \/ backend[t] = "up"
          /\ outcome' = [outcome EXCEPT ![t] = o]
    /\ Goto(t, IF kind[t] \in {"launch", "attach"} THEN "program" ELSE "settle")
    /\ UNCHANGED <<inner, output, slot, kind, mine, snap, backends, pump>>

\* It returns Err, or the request is cancelled: cleanup_after_cancel.
ConnectAborted(t) ==
    /\ pc[t] = "await"
    /\ kind[t] \in Connecting
    /\ Goto(t, "clear")
    /\ UNCHANGED <<inner, output, slot, kind, mine, snap, outcome, backends, pump>>

\* set_program and set_pid.
SetProgram(t) ==
    /\ pc[t] = "program"
    /\ program' = t
    /\ Goto(t, "settle")
    /\ UNCHANGED <<state, gen, lastStop, exitCode, isDump, output, slot, kind, mine, snap,
                   outcome, backends, pump>>

\* The state the outcome stands for, written without the generation guard.
SettledState(o) ==
    IF o = "running" THEN "running" ELSE IF o = "exited" THEN "terminated" ELSE "stopped"

Settle(t) ==
    /\ pc[t] = "settle"
    /\ SetState(SettledState(outcome[t]))
    /\ Goto(t, IF kind[t] = "dump" THEN "mark"
               ELSE IF outcome[t] = "stopped" THEN "cache" ELSE "done")
    /\ UNCHANGED <<output, slot, kind, mine, snap, outcome, backends, pump>>

\* MUTANT of SetDump: the flag is not set.
SetDumpForgotten(t) ==
    /\ pc[t] = "mark"
    /\ Goto(t, IF outcome[t] = "stopped" THEN "cache" ELSE "done")
    /\ UNCHANGED <<inner, output, slot, kind, mine, snap, outcome, backends, pump>>

\* set_dump(true)
SetDump(t) ==
    /\ pc[t] = "mark"
    /\ isDump' = TRUE
    /\ Goto(t, IF outcome[t] = "stopped" THEN "cache" ELSE "done")
    /\ UNCHANGED <<state, gen, program, lastStop, exitCode, output, slot, kind, mine, snap,
                   outcome, backends, pump>>

\* set_last_stopped, the last call of a connecting tool; a resumed one still
\* drains the output.
CacheStop(t) ==
    /\ pc[t] = "cache"
    /\ SetLastStopped(mine[t])
    /\ Goto(t, IF kind[t] = "resume" THEN "drain" ELSE "done")
    /\ UNCHANGED <<output, slot, kind, mine, snap, outcome, backends, pump>>

\* What the four handlers have in common, up to the outcome of the backend call.
Handshake(t) ==
    \/ ConnectGuard(t) \/ Configure(t) \/ ConnectFails(t) \/ SetBackend(t) \/ SpawnPump(t)
    \/ Connected(t) \/ ConnectAborted(t) \/ Finish(t)

Launch(t) == kind[t] = "launch" /\ (Handshake(t) \/ SetProgram(t) \/ Settle(t) \/ CacheStop(t))

Attach(t) == kind[t] = "attach" /\ (Handshake(t) \/ SetProgram(t) \/ Settle(t) \/ CacheStop(t))

OpenCrashDump(t) == kind[t] = "dump" /\ (Handshake(t) \/ Settle(t) \/ SetDump(t) \/ CacheStop(t))

AttachKernel(t) == kind[t] = "kernel" /\ (Handshake(t) \/ Settle(t) \/ CacheStop(t))

Connect(t) == Launch(t) \/ Attach(t) \/ OpenCrashDump(t) \/ AttachKernel(t)

-----------------------------------------------------------------------------
(* continue and step_* (execution.rs, resume and handle_stop_result) *)

ResumeGuard(t) == kind[t] = "resume" /\ CheckState(t, {"stopped"}, "is_dump")

ResumeIsDump(t) ==
    /\ pc[t] = "is_dump"
    /\ Goto(t, IF isDump THEN "rejected" ELSE "backend")
    /\ UNCHANGED <<inner, output, slot, kind, mine, snap, outcome, backends, pump>>

ResumeBackend(t) ==
    /\ pc[t] = "backend"
    /\ kind[t] = "resume"
    /\ CurrentBackend(t, "snapshot", "failed")

ResumeSnapshot(t) ==
    /\ pc[t] = "snapshot"
    /\ snap' = [snap EXCEPT ![t] = gen]
    /\ Goto(t, "run")
    /\ UNCHANGED <<inner, output, slot, kind, mine, outcome, backends, pump>>

ResumeRun(t) ==
    /\ pc[t] = "run"
    /\ SetState("running")
    /\ Goto(t, "await")
    /\ UNCHANGED <<output, slot, kind, mine, snap, outcome, backends, pump>>

\* backend.cont or backend.step returns a stop outcome.  A live backend ends the
\* wait as terminated only when another resume has taken over its stop waiter.
Resumed(t) ==
    /\ pc[t] = "await"
    /\ kind[t] = "resume"
    /\ \E o \in {"stopped", "exited", "terminated"} :
          /\ o = "stopped" => backend[mine[t]] = "up"
          /\ o = "exited" => backend[mine[t]] # "up"
          /\ o = "terminated" => \/ backend[mine[t]] # "up"
                                 \/ \E u \in Tools \ {t} : kind[u] = "resume" /\ pc[u] = "await"
          /\ outcome' = [outcome EXCEPT ![t] = o]
    /\ Goto(t, "apply")
    /\ UNCHANGED <<inner, output, slot, kind, mine, snap, backends, pump>>

\* It returns Err (a refused or unsent request): back to stopped, unguarded.
ResumeFails(t) ==
    /\ pc[t] = "await"
    /\ kind[t] = "resume"
    /\ SetState("stopped")
    /\ Goto(t, "failed")
    /\ UNCHANGED <<output, slot, kind, mine, snap, outcome, backends, pump>>

\* The request is cancelled: the state is left running.
ResumeCancelled(t) ==
    /\ pc[t] = "await"
    /\ kind[t] = "resume"
    /\ Goto(t, "cancelled")
    /\ UNCHANGED <<inner, output, slot, kind, mine, snap, outcome, backends, pump>>

\* handle_stop_result for a stop: the caches are written only if the guard held.
ApplyStopped(t) ==
    /\ pc[t] = "apply"
    /\ outcome[t] = "stopped"
    /\ SetStateIfGeneration(snap[t], "stopped")
    /\ Goto(t, IF snap[t] = gen THEN "cache" ELSE "drain")
    /\ UNCHANGED <<output, slot, kind, mine, snap, outcome, backends, pump>>

ApplyExited(t) ==
    /\ pc[t] = "apply"
    /\ outcome[t] = "exited"
    /\ TerminateIfGeneration(snap[t], mine[t])
    /\ Goto(t, "drain")
    /\ UNCHANGED <<output, slot, kind, mine, snap, outcome, backends, pump>>

ApplyTerminated(t) ==
    /\ pc[t] = "apply"
    /\ outcome[t] = "terminated"
    /\ SetStateIfGeneration(snap[t], "terminated")
    /\ Goto(t, "done")
    /\ UNCHANGED <<output, slot, kind, mine, snap, outcome, backends, pump>>

HandleStopResult(t) ==
    \/ ApplyStopped(t) \/ ApplyExited(t) \/ ApplyTerminated(t)
    \/ kind[t] = "resume" /\ (CacheStop(t) \/ DoDrain(t))

Resume(t) ==
    \/ ResumeGuard(t) \/ ResumeIsDump(t) \/ ResumeBackend(t) \/ ResumeSnapshot(t) \/ ResumeRun(t)
    \/ Resumed(t) \/ ResumeFails(t) \/ ResumeCancelled(t) \/ HandleStopResult(t)

-----------------------------------------------------------------------------
(* pause (execution.rs) *)

PauseGuard(t) == kind[t] = "pause" /\ CheckState(t, {"running"}, "backend")

PauseBackend(t) ==
    /\ pc[t] = "backend"
    /\ kind[t] = "pause"
    /\ CurrentBackend(t, "await", "failed")

\* backend.pause() returns, in either way: the session is left alone.
Paused(t) ==
    /\ pc[t] = "await"
    /\ kind[t] = "pause"
    /\ \E l \in {"done", "failed"} : Goto(t, l)
    /\ UNCHANGED <<inner, output, slot, kind, mine, snap, outcome, backends, pump>>

Pause(t) == PauseGuard(t) \/ PauseBackend(t) \/ Paused(t)

-----------------------------------------------------------------------------
(* disconnect (lifecycle.rs) *)

DisconnectGuard(t) == kind[t] = "disconnect" /\ CheckState(t, States \ {"idle"}, "backend")

DisconnectBackend(t) ==
    /\ pc[t] = "backend"
    /\ kind[t] = "disconnect"
    /\ CurrentBackend(t, "ask", "take")

\* MUTANT of DisconnectAsk: the backend's answer is awaited without a timeout.
DisconnectAskUntimed(t) ==
    /\ pc[t] = "ask"
    /\ backend[mine[t]] = "dead"
    /\ Goto(t, "take")
    /\ UNCHANGED <<inner, output, slot, kind, mine, snap, outcome, backends, pump>>

\* backend.disconnect() ends the debugger and with it the event stream, or its
\* five seconds pass and nothing is known.
DisconnectAsk(t) ==
    /\ pc[t] = "ask"
    /\ \/ /\ backend[mine[t]] # "dead"
          /\ backend' = [backend EXCEPT ![mine[t]] = "dead"]
          /\ stream' = [stream EXCEPT ![mine[t]] = @ \cup {"terminated"}]
       \/ UNCHANGED <<backend, stream>>
    /\ Goto(t, "take")
    /\ UNCHANGED <<inner, output, slot, kind, mine, snap, outcome, pump>>

\* drop_backend_bounded: the slot is emptied; waiting for the drop changes nothing.
DisconnectTake(t) ==
    /\ pc[t] = "take"
    /\ slot' = None
    /\ Goto(t, "reset")
    /\ UNCHANGED <<inner, output, kind, mine, snap, outcome, backends, pump>>

Disconnect(t) ==
    \/ DisconnectGuard(t) \/ DisconnectBackend(t) \/ DisconnectAsk(t) \/ DisconnectTake(t)
    \/ kind[t] = "disconnect" /\ (DoReset(t) \/ DoDrain(t))

-----------------------------------------------------------------------------
(* The event pump (pump.rs) and the backend (external) *)

PumpOutput(b) ==
    /\ b \in pumps
    /\ "output" \in stream[b]
    /\ stream' = [stream EXCEPT ![b] = @ \ {"output"}]
    /\ output' = output \cup {b}
    /\ UNCHANGED <<inner, slot, tools, backend, pump>>

PumpTerminated(b) ==
    /\ b \in pumps
    /\ stream[b] = {"terminated"}
    /\ stream' = [stream EXCEPT ![b] = {}]
    /\ TerminateIfGeneration(pumpGen[b], b)
    /\ UNCHANGED <<output, slot, tools, backend, pump>>

Pump(b) == PumpOutput(b) \/ PumpTerminated(b)

BackendOutput(b) ==
    /\ backend[b] \in {"up", "exited"}
    /\ stream' = [stream EXCEPT ![b] = @ \cup {"output"}]
    /\ UNCHANGED <<inner, output, slot, tools, backend, pump>>

\* The debuggee exits; the debugger still answers.
BackendExits(b) ==
    /\ backend[b] = "up"
    /\ backend' = [backend EXCEPT ![b] = "exited"]
    /\ UNCHANGED <<inner, output, slot, tools, stream, pump>>

\* The debugger ends its session or dies: one Terminated, the last event.
BackendTerminates(b) ==
    /\ backend[b] \in {"up", "exited"}
    /\ backend' = [backend EXCEPT ![b] = "dead"]
    /\ stream' = [stream EXCEPT ![b] = @ \cup {"terminated"}]
    /\ UNCHANGED <<inner, output, slot, tools, pump>>

Backend(b) == BackendOutput(b) \/ BackendExits(b) \/ BackendTerminates(b)

-----------------------------------------------------------------------------
Next ==
    \E t \in Tools :
        \/ Connect(t) \/ Resume(t) \/ Pause(t) \/ Disconnect(t)
        \/ Pump(t) \/ Backend(t)

Spec == Init /\ [][Next]_vars

\* A handler that is not waiting for its backend.
Own(t) ==
    \/ CacheStop(t) \/ Finish(t)
    \/ Configure(t) \/ SpawnPump(t) \/ SetProgram(t) \/ Settle(t) \/ SetDump(t)
    \/ ResumeIsDump(t) \/ ResumeBackend(t) \/ ResumeSnapshot(t) \/ ResumeRun(t)
    \/ ApplyStopped(t) \/ ApplyExited(t) \/ ApplyTerminated(t)
    \/ PauseBackend(t)
    \/ DisconnectBackend(t) \/ DisconnectAsk(t) \/ DisconnectTake(t)

\* The runtime polls every ready task.  A backend call other than disconnect's,
\* which carries its own timeout, may take forever, and nobody need cancel it.
FairSpec ==
    /\ Spec
    /\ \A t \in Tools : WF_vars(Own(t)) /\ WF_vars(Pump(t))

-----------------------------------------------------------------------------
(* Properties *)

Quiet == \A t \in Tools : ~ InFlight(t)

\* Between calls the session tells the truth about its backend: it is idle
\* exactly when the slot is empty, what it caches (program, last stop, exit code,
\* dump flag) comes from the backend in the slot, and nothing of an earlier
\* session survives its end, however late its events arrive (reset,
\* cleanup_after_cancel, the generation guard of the pump).
SessionMatchesBackend ==
    Quiet => /\ (state = "idle") = (slot = None)
             /\ {program, lastStop, exitCode} \subseteq {slot, None}
             /\ isDump => slot # None /\ kind[slot] = "dump"

\* The backend of the session: the one in the slot, or the one taken out of it
\* whose pump still writes to the session until reset.
Current == ({slot} \ {None}) \cup {b \in pumps : pumpGen[b] = gen}

Life == INSTANCE SessionLife WITH
    Debuggers <- Tools, debuggers <- Current,
    known <- {program, lastStop, exitCode} \ {None},
    dump <- \E b \in Current : kind[b] = "dump"

\* Handlers, slot, generation and pumps together are one session with one
\* debugger at a time: at every step, those of a handshake, a cleanup or a
\* disconnect under way included, the session moves only for its own backend,
\* forgets it and its reports (not its output) in one step, no dump is resumed
\* (terminate_if_generation, reset, the is_dump check of resume).
OneDebuggerAtATime == Life!Spec

\* A Terminated event of the current session is never lost: the pump marks the
\* session terminated, or the session has been reset meanwhile (pump.rs).
TerminationReachesSession ==
    \A b \in Tools :
        (b \in pumps /\ pumpGen[b] = gen /\ "terminated" \in stream[b])
            ~> (state = "terminated" \/ pumpGen[b] # gen)

\* disconnect returns even if the backend never answers (its two five-second
\* bounds, lifecycle.rs).
DisconnectReturns ==
    \A t \in Tools : (kind[t] = "disconnect" /\ InFlight(t)) ~> pc[t] = "done"

\* A connecting tool that fails or is cancelled brings the session back to idle,
\* whatever its backend and the other calls do, so that the next launch is not
\* refused (cleanup_after_cancel, the connect error paths).
FailedConnectFreesSession ==
    \A t \in Tools : pc[t] \in {"clear", "undo_reset"} ~> state = "idle"

\* What the documents promise of a disconnect that races a continue: the call
\* "returns without clobbering the reset idle state" (Designs/RustPort README),
\* nor does it "leak stale stop metadata into the fresh session" (execution.rs).
ResetStaysIdle == Quiet /\ slot = None => state = "idle" /\ lastStop = None

\* What the documents promise of termination: the session "transitions to
\* `terminated`" when the debugger ends on its own (Spec FR-17.7), "a Terminated
\* event during the handshake reaches the session (not dropped)" (lifecycle.rs).
TerminationSticks ==
    (Quiet /\ slot # None /\ backend[slot] = "dead" /\ stream[slot] = {})
        => state = "terminated"

=============================================================================
