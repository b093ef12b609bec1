# A verification development for debug-mcp

debug-mcp is an MCP server that lets an agent drive a native debugger: LLDB
through the `lldb-dap` adapter on Unix, DbgEng on Windows. This directory holds
TLA+ models of its concurrent core, the TLC configurations that check them on
small instances and TLAPS proofs of what matters most for every instance.

## Inventory of the system

| Part (crate) | State | Operations | Hard because |
|---|---|---|---|
| Transport (`dap-client`: client, read_loop, stop_waiter, wire) | sequence counter, pending map, writer mutex, initialized latch, single stop slot, last exit code, terminated oneshot | send, send_async, send_and_await_both, wait_initialized, register/deliver/cancel of the stop waiter, dispatch of each message, EOF recovery | every call is its own task and can be dropped at any await; answers arrive late or never; the adapter dies at any point |
| Session (`mcp-session`: manager, output_buffer, pump) | state, generation, program and pid, exit code, last stop, dump flag, frame map, breakpoint lists, output buffer | guarded and unguarded state writes, reset, breakpoint tracking, append and drain, the pump task | several handlers and a pump per backend share one lock that each takes one call at a time |
| Tools (`mcp-tools`) | backend slot | launch, attach, open_crash_dump, attach_kernel, continue, step_*, pause, disconnect; breakpoints; inspection | check-then-act across awaits, cancellation, cleanup |
| LLDB backend (`lldb-backend`) | client, child process, stderr ring | launch and attach handshakes, resume and wait, disconnect, detection | order of requests, events and waiter registration; a child that outlives its session |
| WinDbg backend (`windbg-backend`, `dbgeng-sys`) | command channel, engine thread, interrupt flag, breakpoint table | one command at a time on the engine thread, go/break_in loops, reconciliation | a blocking engine, an interrupt flag with two writers |
| Seam (`debugger-core`), binary (`debug-mcp`) | none | traits, values, wiring | |

How they interact: a tool handler reads and writes the session, clones the
backend out of the slot and awaits a backend call. The LLDB backend turns that
call into DAP requests through the client; the client's read loop answers them,
feeds the stop waiter, and reports output and termination on a stream. A pump
task per backend copies that stream into the session. `disconnect` empties the
slot and resets the session, bumping its generation, while other handlers and
pumps may still be about to write.

What makes each part correct:

- Transport: an answer reaches the request it answers and no other; a cancelled
  request leaves nothing behind; a waiting call always has somebody who can wake
  it; frames never interleave; each waiter and the lifecycle signal fire once;
  after a broken stream everything that waited is woken.
- Session and tools: between calls the session agrees with its backend, nothing
  of an ended session survives or arrives late, termination is reported and
  stays reported, disconnect returns, a failed launch frees the session.
- Breakpoints: between calls the debugger has exactly what the session tracks,
  and what the session lists is there under that id.
- Backends: a stop reaches whoever resumed and is still true when it is
  reported; a pause ends the wait it was made for; a launch ends whichever way
  the adapter answers; the death of the adapter wakes every call; the child
  process ends with its session; the engine has the breakpoints the backend
  believes it has; a dropped backend ends its event stream.
- Data that tools return: output is a bounded log of what was written, variables
  are the first of the listing, a frame index is one of the current stop.

## Modules

**DapClient** models `dap-client`. A step is one critical section of the code
(pending map, stop slot, initialized signal), one write to the pipe, or one step
of the environment. A call is of one of the three methods and goes through
`Begin` (sequence number and registration), `WriteHeader` and `WriteBody` (two
`write_all`s under the writer mutex), `WaitInitialized`, `Resolve`; `WriteFails`
and `Cancel` can end it on the way. The AbortGuard is the flag `armed`. The read
loop handles one message per step, except where the code enters two critical
sections (`ReadExited`/`DeliverExit`, `ReadTerminated`/`CancelStop`) and in
recovery, whose four steps are separate. The adapter (external) reads frames,
answers in any order, sends any event at any time, sends something unreadable,
and dies. Data is abstracted to identities: a request is its call and sequence
number, an answer names the request it answers.

**Connection** is what the users of the client rely on, with no sequence numbers,
pending map, mutex, slot or bytes in it: a call that was sent is answered, told that
the stream broke, or given up, once; the last who waits for a stop hears the next
one; a broken stream is told to the calls, then to who waits for a stop, and the end
of the session is announced last and once. `KeepsPromise` shows that DapClient keeps
it: `Progress` forgets where in the client a call is, `Stage` names the steps of
recovery, and `Doomed` are the calls whose sender recovery holds and that still
listen.

**ToolSession** models the handlers that own a session's life, `SessionManager`
as far as they use it, the backend slot and the event pump. A step is one call
on the session or the slot. A cached value is named by the backend it came from
and a backend by the call that connected it, which is what lets the properties
tell one session from the next. `Overlaps` is the set of pairs of tools that the
MCP client may have in flight together. The backend (external) emits output,
loses its debuggee, dies, or stays silent for ever. A call rejected for its
arguments changes nothing and is left out. Breakpoint lists and the frame map,
which the same handlers reset, belong to `Breakpoints` and `LldbBackend`.

**SessionLife** is what the MCP client is promised of the session, with no
handlers, slot, generations or pumps in it: it begins without a debugger, gets one,
moves only for that one and holds only what that one reported, and forgets it and
all it reported in one step; a crash dump never runs. Output is not part of it: an
ended session's may still arrive (pump.rs:34). `OneDebuggerAtATime` shows that
ToolSession keeps it, for the overlaps of the run. The debugger of the session is
`Current`: the backend in the slot or, once clear_backend or disconnect has taken it
out, the one whose pump still has the session's generation, until reset.

**Breakpoints** models the breakpoint tools, the lists of `SessionManager` they
maintain, and what launch, attach and disconnect do to those lists. A group is
what one DAP request replaces as a whole (the lines of one file, or all function
names); `active`, `pending` and `responses` are the session's maps by group and
by id. A set call checks the state, reads it again to choose between buffering
and sending, takes the backend, reads the tracked list, sends it with the new
entry, picks the answer that is its own (`Matched`) and commits in two steps.
The debugger (external) replaces a group per request, gives ids, may report a
line elsewhere than asked (`reloc`), refuse, decline a name, or die. `Careful`
says that the client does not overlap two calls that work on the same list.

**LldbBackend** models `lldb-backend` below those handlers, and the handlers
that the modules above leave out. An operation of the backend is its *script*,
the list of awaits it makes in order (`run_launch`, `run_attach`,
`resume_and_wait`, ...); `at` is the position in it, `req` the DAP request in
flight, `got` what the stop receiver holds. One action stands for one stretch of
code between two awaits: `Send` and `Replied` for a request and its answer,
`RequestFails` for the ones whose failure the code checks (`Checked`: continue,
setExceptionBreakpoints and configurationDone are not), `SendStart`/`Started` for
the launch request and its separately awaited answer, `Register`/`Stop` for the
waiter, `Kill` for start_kill, `Return` for the handler's end. `Dropped` is a
cancelled call, or a disconnect whose five seconds are over. `ended` says that reset
has run: the generation is another and the backend slot empty, so a pump or a
resumption still under way leaves the state alone, while a launch, an attach and a
failed resumption, which the code does not guard, still write it. The client is
reduced to what DapClient establishes (own answer or closed by recovery, one stop
slot). `lldb-dap` and the debuggee are external: they answer launch early or
after configurationDone only (`defers`), refuse, hang, die, stop, exit, write
output. The inspection tools (backtrace, variables, evaluate, threads,
disassemble) share the frame map, of which the model keeps the thread each index
came from.

**OutputBuffer** and **BoundedLog**: the output buffer with its running total,
eviction loop and drain, and the promise it is to keep: the latest entries that
fit and a marker exactly when some are missing. LldbBackend drives the buffer
from the pump and the tools, and `OutputIsBoundedLog` is the refinement
(`INSTANCE BoundedLog WITH log <- buffer.entries, gap <- buffer.truncated, ...`).

**FlattenVariables**: the recursive walk of `flatten.rs` as a list of variables
still to visit, one fetch at a time because each is an await, with the reference
definition `WalkCorrect`: which variables are listed and where each one stands. A
tree may be infinitely deep, as a cyclic list is to a debugger; one response is a
finite list, and `InOrder` is that list. A container is a variable with children:
one whose reference the debugger gives but whose fetch returns nothing is, in the
model, a leaf.

**DbgEng** models `dbgeng_sys::Engine`, one operator per method with its result
as a parameter, and as much of DbgEng as it relies on (external). A method is one
step, since the engine is confined to its thread; `go`, `break_in` and
`attach_kernel`, which poll or wait without bound, are one step per wait
(`go_polls`, `wait_times_out`, `wait_skips`, `waited`, `kernel_waited`). Any call
of DbgEng may fail, at each point where that leaves a different state behind.

**WinDbgBackend** adds the engine thread, its bounded command channel, the
operations of the backend as commands sent and awaited one at a time
(`Asks`, `Enqueue`, `Dispatch`, `Answered`), the flush at launch, the
reconciliation of a set request against the table it read before its awaits
(`BeginSet`, `Proceed`, `Commit`), and the event stream with its drop signal.
`phase`, `told` and `slot` are the session's state, what the agent was told last,
and whether the tool server still holds the backend.

**ReplaceAll** is what the breakpoint tools rely on of any debugger: a set
request leaves its group, in one step, with breakpoints of the request's own list
only (those of it that the debugger took, and all the group already had), keeps the
numbers of those that stay, and touches no other group; what launch sets is on its
list. `Requests` are the requests under way and what they ask for. `ReplacesAll` shows that
WinDbgBackend keeps that promise over an engine that can only add and remove
single breakpoints.

The theorems are in **DapClient_proofs**, **ToolSession_proofs**,
**Breakpoints_proofs**, **LldbBackend_proofs**, **LldbOutput_proofs** and, above it,
**LldbVariables_proofs**, **WinDbgBackend_proofs** and, above it,
**WinDbgTable_proofs**. The `MC` modules give the constants of the runs.

## Runs

| Run | Instance | Result |
|---|---|---|
| dap | a send and a launch (send_async or dual await) with one stop registration and one event; or two registrations and three events | `Correlated`, `SenderNotLost`, `NoLeakedEntry`, `FramesIntact`, `WaiterReachable`, `TerminatedSignalled`, `DeliveredOnce`, `KeepsPromise`, `RecoveryUnblocksCalls`, `RecoveryUnblocksStop` hold |
| dap_handshake | one launch | `HandshakeUnblocked` is violated |
| session | four calls: a session of each of the four kinds, a continue, a disconnect and a second launch; or launch, continue, pause, disconnect | `SessionMatchesBackend`, `OneDebuggerAtATime` hold |
| session_returns | launch, continue, disconnect, overlapping in any way | `TerminationReachesSession`, `DisconnectReturns`, `FailedConnectFreesSession` hold |
| session_reset | launch, continue, disconnect; only the last two overlap | `ResetStaysIdle` is violated |
| session_termination | launch, continue, disconnect, one at a time | `TerminationSticks` is violated |
| breakpoints | six calls: a launch, two lines (or one twice), a name (or a declined one), a removal, an attach or disconnect; lines in place or moved | `DebuggerHasTracked`, `ListedAreLive` hold |
| breakpoints_remove | launch, one line that the debugger moves, its removal | `RemovedIsGone` is violated |
| windbg | six plans of up to four calls: launch with a flushed conditional breakpoint, then continue and pause; launch and three set requests on two groups; kernel attach and disconnect; a dump with continue and step; attach with step and inspection, or with continue and disconnect | `ReportedStopHolds`, `InitialBreakGone`, `ConditionsOwned`, `DumpNeverRuns`, `EngineMatchesTable`, `ReplacesAll`, `PauseEndsGo`, `DroppedStreamEnds` hold |
| windbg_interrupt | the launch with a flushed conditional breakpoint, continue and pause | `InterruptSeen` is violated |
| lldb | eight plans of up to four calls: launch, continue, pause and disconnect; a launch overtaken by a disconnect, then read_output; a launch without stop on entry and a pause; backtrace and evaluate; attach, disassemble, threads, evaluate; an inspection overtaken by a disconnect; variables; a chatty debuggee and read_output | `NoMissedStop`, `StoppedHolds`, `ChildGone`, `VariablesInOrder`, `LaunchReturns`, `PauseEndsResume`, `LossEndsCalls`, `OutputIsBoundedLog` hold |
| lldb_frames | launch, backtrace, continue, evaluate; two threads | `FramesOfTheStop` is violated |

Why the bounds are enough: the transport's calls share only the pending map, the
writer and the initialized slot, so any interference needs two of them; two
registrations are needed for a replacement; three events are what exited,
terminated and a stop in any order take. For the session, a second session after
a first one, with the first one's events still undelivered, takes four calls.
For breakpoints, a group with two entries, a second group beside it, and a
session that ends and starts again are what the lists can get wrong; one file
stands for all, since files never share a list.
For WinDbg, a command channel of capacity one makes senders wait already; one
poll of `break_loop` is the whole loop body, and hits whose condition is false are
not bounded (each one flips `restarted`, so that it is a step); two groups
with a conditional, an unconditional and a rejected key, and five numbers
starting at 0, cover reuse, removal, numbers given out again and the number 0.
For LLDB, an inspection reads one stop, so one thread does, and two where the
stop changes; two frames against maps of one and of twenty levels give a hit, a
miss and an index out of range; chunks of 1 to 3 against a buffer of 2 fit, fill
and exceed it; trees of three levels against a cap of 3 put the cap before,
inside and after a nested container.
Every call is made once, so the runs may stop: deadlock is not checked.

What the passing properties leave out is left out because the code does fail
there, and each exception is written into the property: `PauseEndsGo` has as its
alternative that breakpoints whose condition is false are hit for ever
(*windbg_interrupt* is about those; the waits of `step` and launch, a single
step of the model, are prolonged by such hits in the same way) and speaks of a
flag that is up once `go` polls: a pause made before `go` has lowered it is lost;
`EngineMatchesTable` excepts number 0, which `remove_engine_breakpoint` never
removes, and breakpoints that DbgEng made and then failed on, and it and
`ReplacesAll` are for lists that name no location twice: neither the session's
lists nor the setters look for one, each occurrence that is not tracked yet is
another engine breakpoint, and the table keeps the last one's number (with the
launch list `<<k1, k1>>` TLC refutes `EngineMatchesTable`); `ReportedStopHolds`
says nothing after a step that timed out, which leaves the session stopped over a
running target; `NoMissedStop` excepts attach, which registers last;
`LaunchReturns` and `PauseEndsResume` except requests whose refusal is not
checked; `ChildGone` excepts a failed or cancelled launch and a timed out
disconnect, after which nothing kills the adapter; `LossEndsCalls` excepts the
wait for the initialized event.

The six violations are disagreements between the code and what the
repository's documents say of it:

- *dap_handshake*: recovery resolves pending requests, the stop waiter and the
  lifecycle signal, but not the initialized latch. A launch parked in
  `wait_initialized` when `lldb-dap` dies stays parked until it is cancelled.
- *session_reset*: the error path of `resume` writes `stopped` without the
  generation guard. When disconnect has reset the session in between, the
  session says `stopped` with no backend.
- *session_termination*: launch writes the state of its outcome whatever the
  pump wrote in the meantime. A debugger that dies right after the handshake is
  reported terminated, then stopped, and no second event corrects it.
- *breakpoints_remove*: the tracked list holds the requested line, the response
  entry the reported one, and removal matches by the latter. A relocated
  breakpoint is reported removed, its id is forgotten, and the debugger keeps it.
- *windbg_interrupt*: a hit whose condition is false resumes the target and
  starts the 200 ms wait of the same slice again, where the flag is not looked at.
  While such hits come within 200 ms of each other a pause is not seen, whatever
  the comments of `wait_for_event` and `pause` say of slices; nor is the deadline.
- *lldb_frames*: the frame map is rebuilt by a backtrace or on a miss and cleared
  by reset only. After a stop on another thread, frame 0 is still the frame of
  the earlier stop.

Two more have no run. The answers to the breakpoints flushed by launch are checked
and dropped (lldb-backend/src/backend.rs:216), so those breakpoints are never listed
and have no id, where the specification says of the flush "Record each resulting
breakpoint" (Specs/RustPort README:254). And the comment at lifecycle.rs:353, "The
backend's drop kills the subprocess", does not hold of the failed and cancelled
launches it is about, nor of a timed out disconnect: the child is spawned with
`kill_on_drop(false)`, which is why `ChildGone` excepts them.

## Fairness

`DapClient!FairSpec` assumes that the read loop, a task of its own, goes on
when it can, and that a call whose oneshot has been filled is polled. Nothing is
assumed of the adapter or of a caller. `ToolSession!FairSpec` assumes that a
handler's own steps and the pump are scheduled; a backend call other than
disconnect's, which the code bounds by five seconds, may take for ever.
`LldbBackend!FairSpec` assumes that tokio runs what is ready, that the read loop
sees the end of the stream of a process that has ended, and that an adapter that
has neither hung nor died answers and stops what it was told to stop; a property
about a live adapter has its hanging or death as an alternative. Nothing stops a
debuggee by itself. `WinDbgBackend!FairSpec` assumes that the engine thread goes
on with its queue and its bounded waits (not with the kernel's unbounded one) and
that calls and the pump are scheduled. Nowhere must a client call or cancel.

## Proofs

TLC checks small instances; the theorems below, checked by TLAPS, hold for every
value of the constants. Each invariant named here was model-checked on the
instance of its component's run before it was proved. They hang on the named
assumptions of the modules (`ConstAssumption`, `ToolsAssumption`, `BpAssumption`,
`LldbAssumption`, `TreeAssumption`, `MaxSizeAssumption`, `EngineAssumption`,
`BackendAssumption`), which give the constants their types and keep the marks
`NoCall`, `None`, `NoId` and `Unreported` apart from what they mark. One of them
bounds the model: a plan of `LldbBackend` is one session, with one connecting call.
What a theorem asks of the client is a hypothesis of its statement.

### Transport (`DapClient_proofs`)

`ClientTypes`, `CallsCorrelated`, `SendersKept`, `EntriesRemoved`, `FramesWhole`,
`StopsReach`, `EndSignalled` state the seven invariants of the run *dap*, and
`OneOutcome` its action property `DeliveredOnce`, for any number of calls,
registrations and events. That no answer goes to another call rests on `SeqInv`
(calls that have begun have distinct numbers) and `TransitInv` (whatever is on the
wire, with the adapter or in the inbox carries its call's number); that no sender
is lost or used twice on `SenderInv` (a registered sender, or one that recovery
holds, is unused and nowhere else) and `ChanInv`; that guarded calls leave nothing
on `ArmedInv`; that frames stay whole on `MutexInv` (the mutex is held between
the two writes) and `FrameInv`: the stream is whole frames, then at most the header
of the frame being written.

`PromiseKept` is the refinement `Spec => KeepsPromise`: every step of the client is
one step of `Connection` or leaves everything it speaks of alone. Two more invariants
are needed. `SentInv`: only a call that has handed its whole frame to the adapter is
on the wire as a request, asked of the adapter, or answered, so that a response finds
a call that waits for one, not one still writing. `LoopInv`: what the read loop has
recorded, the exit or the announcement, before it tells the waiter.
`CallRefines`, `WaitRefines` and `LoopRefines` take the steps of the calls, the
registrations and the read loop in turn.

### Session (`ToolSession_proofs`)

- `TypeCorrect`: `Spec => []TypeOK`.
- `SessionAgrees`: `CarefulClient => (Spec => []SessionMatchesBackend)`.
- `OneSession`: `CarefulClient => (Spec => OneDebuggerAtATime)`, the refinement.

`CarefulClient` says what the client is asked to avoid: having a connecting tool
or a disconnect in flight together with another tool that writes the session.
Without it the property is false (`session_reset` is one of the ways). Pauses and
several continues may overlap with anything allowed.

`SessionMatchesBackend` speaks of the moments between calls, so it is not
inductive. The invariant `Inv` adds: which program points each kind of tool can
be at (`PcInv`); that a connecting tool or a disconnect in flight is alone among
the writers (`MutexInv`); that a pump's generation is never ahead of the session,
and equals it only for the backend in the slot or the one being set up
(`PumpInv`), which is what makes late events harmless; what a handler in flight
knows of backend, snapshot and outcome (`HandlerInv`); and the agreement itself,
stated for each program point of the one handler that may be in the middle of
changing it (`AgreeInv`). One lemma per group of actions shows that each
preserves `Inv`.

`OneDebuggerAtATime` speaks of every step, those of a handshake, a cleanup and a
disconnect under way included, and of dumps; it needs `LifeInv` besides. `CurrentInv`:
there is at most one current backend, the one in the slot is pumped but for the
moment between set_backend and spawn_event_pump (so taking it out of the slot
changes nothing until reset), what is cached is its, and an idle session has none.
`DumpInv`: a dump is never running and, unless open_crash_dump is still at work, its
flag is set. `Phase`: what a handler relies on at its program point, above all that
a resume past its is_dump check holds no dump and that whoever is about to reset finds
a session to reset. `ExclusiveStep`, `ReportStep` and `StillStep` say once why the
other handlers are not disturbed by a step: beside a tool that starts or ends a
session there are only pauses, which rely on nothing; a resume or a pump writes no
more than state and caches. Each step is then a step of `SessionLife`: reset is its
`End`, set_backend its `Claim`, whatever a resume, a settled handshake or a pump
writes a `Report`.

The hypothesis matters for dumps too: open_crash_dump sets the session stopped
before it sets the flag (windbg.rs:106, :109), and a continue in between would go on.

### Breakpoints (`Breakpoints_proofs`)

- `BreakpointTypes`: `Spec => []TypeOK`.
- `TransactionalLists`: `Careful => (Spec => []DebuggerHasTracked)`.
- `ListedBreakpoints`: `Careful => (Spec => []ListedAreLive)`. The property is
  about a debugger that puts each line where it was asked to (`LinesStay`); for one
  that does not it fails, as *breakpoints_remove* shows.

`DebuggerHasTracked` too speaks of the moments between calls. Its invariant says
which program points each tool can be at (`PcInv`); that two calls in flight are
set calls of different groups (`MutexInv`, from `Careful`); that a slot in use
holds the last debugger and an empty one leaves nothing tracked, outside a
connect (`SlotInv`); that debugger and list of a group agree unless a call is
between sending and committing on that group (`AgreeInv`); and what such a call
knows: the list it sent is the tracked one with its own entry added or removed,
and is what the debugger has (`HandlerInv`). The lemmas `ApplyKeys` (what one
request does to the debugger's set), `ToSetAppend` and `WithoutType` carry the
data; `SetFrame` and `AloneFrame` reduce each step to what it does to its own
group. `ListedAreLive` adds `ListInv`: the debugger has one breakpoint per key, and
what is listed is live except for the entry a remove call has taken from the
debugger and not yet from the list, as is the answer a set call has picked and
not yet listed.

### LLDB backend (`LldbBackend_proofs`, `LldbOutput_proofs`, `LldbVariables_proofs`)

- `LldbTypes`: `Spec => []TypeOK`.
- `NoStopMissed`, `StoppedMeansStopped`, `NoChildLeft`: `Spec => []P` for
  `NoMissedStop`, `StoppedHolds` and `ChildGone`.
- `OutputBounded`: `Spec => OutputIsBoundedLog`, the refinement of `BoundedLog`.
- `VariablesListed`: `Spec => []VariablesInOrder`.

The scripts of the operations are taken apart once (`ContScript`, ...), and
`StepForms` says what a step of any operation may do to the debuggee, the session
and the slot. The invariant says that nothing happens before the connecting call
(`BeginInv`), that one call moves the debuggee at a time and the session is not
stopped meanwhile (`MoverInv`), that it awaits its requests (`SentInv`), that after
a failed or cancelled mover nothing is resumed (`EndInv`), that a handshake goes on
only after a good answer (`StartInv`), that whoever has registered holds the slot
or its outcome (`SlotInv`), what the debuggee is before and after it is resumed
(`BeforeInv`, `StopInv`), that one that has been resumed and has stopped has told
who waits (`AcceptInv`), and that a disconnect past its kill leaves no process
(`KillInv`).

The buffer's argument is about sums. `Kept` says that the running total is the sum
of the entries and within the cap; `AppendKept` that appending drops just as many
of the oldest entries as it must; `TotalsOfPart` and `TotalsOfTail` compare the
sums of a list and of its parts. `Totals` is a recursive function; what holds of
all its values is proved by taking the first position where it would fail
(`LeastPosition`), since the induction theorems of the library are out of reach.

`VariablesListed` compares the walk with a listing defined without it, by the paths
of the tree alone. Its invariant `WalkInv` needs no induction over the tree, because
it speaks of the whole subtree under each variable on the to-do list: what is listed
and not yet emitted is exactly what stands under that list or below the container
being opened (`RestInv`); the list goes from left to right (`TodoInv`), and the
container being opened is left of all of it with depth to go (`OpensInv`); what was
emitted stands in order and before all the rest (`OutInv`). A fetch puts children
where their parent stood (`FetchedKeeps`: `ChildOnTheWay` says that what is below a
variable is under one of its children), a visit takes the first from the list
(`VisitKeeps`), and that each variable emitted has exactly the earlier ones before it
(`InItsPlace`) counts a set by listing it. `OrderExists` shows that a response can
be put in order and `ListedFinite` that there are finitely many variables within a
depth; both again take a least counterexample. `TreeAssumption` asks of a tree only
that it has the ancestors of its variables and that a variable has finitely many
children.

### WinDbg backend (`WinDbgBackend_proofs`, `WinDbgTable_proofs`)

- `StopHolds`, `OptionGone`, `ConditionsLive`, `DumpStays`: `Spec => []P` for
  `ReportedStopHolds`, `InitialBreakGone`, `ConditionsOwned` and `DumpNeverRuns`.
- `BackendTypes`: `Spec => []TypeOK`.
- `TableMatches`: with `Careful` and `NoRepeats`, `Spec => []EngineMatchesTable`.
- `Reconciles`: with `Careful` and `NoRepeats`, `Spec => ReplacesAll`, the
  refinement of `ReplaceAll`.

For the first four the invariant says: only the operation that has a command sends
it (`AskInv`); a call has at most one command in the channel (`QueueInv`); what the
engine thread waits for (`WaitInv`); one call connects, and one at a time moves the
target, which the session's state shows (`ConnectInv`, `BusyInv`); nothing is asked
of a thread that is not ready (`StartInv`); where the dump flag, the conditions and
INITIAL_BREAK come from (`DumpInv`, `CondInv`, `BreakInv`); and a call that is about
to report a stop finds the target stopped (`StopInv`). `Sides` splits a step into
one of the engine thread and one of a call, and each half of the invariant's proof
sees only its side.

The table's theorems ask two things of the client. `Careful`: no two requests about
one group overlap; each reads the table before its awaits and writes it after them.
`NoRepeats`: no list names a location twice; neither the session's lists nor the
setters look for that, and without it both fail (see above). Their invariant `TableHolds` relates four places where a number can be,
through a request of many commands: the engine, the table, the locals of a request
and an answer it has not taken yet. Nothing is set before the connecting call comes
to its flush (`OriginInv`); one request per group (`MutexInv`); what is still to be
set is not tracked and not repeated (`TodoInv`); what a request will commit keeps
the numbers of the keys that stay and has new ones for the others, and what it will
remove is the rest (`NewInv`, `GivenInv`); every number in the table, in a
request's new map or in an answer is in the engine at its place, except those a
request has already had removed (`EngineInv`, with `Kept`); and everything in the
engine is in one of those places, left over, unreported or number 0, what a request
has finished removing being gone (`PoolInv`). `MethodForms`, `DispatchForms`,
`EngineForms` and `CallForms` say what any step may do to breakpoints; the lemmas
`QuietStep`, `SetsStep`, `RemovesStep`, `LaunchesStep`, `AsideStep`, `SubmitsStep`,
`FlushStep`, `GoesOnStep` and `GivesUpStep` show that each form keeps the invariant.
For the setters `Ready` collects what it takes to go on with given locals, and
`FirstReady` and `NextReady` show that a request has it at its start and after each
answer. The refinement follows: the only steps that change the table are a commit,
whose new row `NewInv` describes, and a recorded number of the flush. `TodoInv` and
`NewInv` speak of the list that the call was made with, which is how the refinement ties the
row to the request (`RowBecomes`); that the calls under way are the requests that
`ReplaceAll` sees is `RequestsOf`.

### What stays with TLC

Liveness under fairness is out of the prover's reach: `RecoveryUnblocksCalls`,
`RecoveryUnblocksStop`, `TerminationReachesSession`, `DisconnectReturns`,
`FailedConnectFreesSession`, `PauseEndsGo`, `DroppedStreamEnds`,
`LaunchReturns`, `PauseEndsResume`, `LossEndsCalls`. The properties of the
`violation` runs are false. Every other property of a run is a theorem.

## Plan

Every part of the system with control of its own is modelled, and every safety
property and refinement of the passing runs is proved. What is left is
`LldbBackend` for two sessions one after the other; that nothing but output is carried
from one session to the next is proved of the session itself (`OneSession`) and of
its breakpoint lists (`TransactionalLists`), for any number of sessions.

## Not modelled

- Arguments, schemas, error wording, response layout, the bodies of DAP messages
  and the header grammar: data without control. A body that does not decode is a
  failed request.
- `run_command`: the raw command may do anything to the debuggee, its resumption
  behind the session's back included, so nothing could be promised after it.
- The inspections of `dbgeng-sys` beyond the fact that they read, its COM
  bindings and process lookup (a failure of the thread or of attach), DbgEng and
  `lldb-dap` themselves (external).
- The order in which `lldb-dap` is looked for and the ring of its stderr: one
  sequential function each, and no state that anything else reads.
- The MCP protocol (the rmcp library's) and the wiring of the binary.
