--------------------------- MODULE WinDbgBackend ---------------------------
(***************************************************************************)
(* Crate windbg-backend: the engine thread and its command channel, the    *)
(* operations of WinDbgBackend that marshal commands to it, the table with *)
(* which the breakpoint setters are reconciled, and the event stream.      *)
(*                                                                         *)
(* A call is one operation some tool handler makes on the backend.  It     *)
(* sends one command at a time and awaits the answer; between two awaits   *)
(* its code runs without interruption.  The handlers above, and the client *)
(* who cancels them, are as ToolSession has them: phase is the session's   *)
(* state as far as it admits a call.                                       *)
(***************************************************************************)
EXTENDS DbgEng, Sequences, SequencesExt

CONSTANTS
    Calls,          \* the operations, each made at most once
    PlanChoices,    \* what each of them is, one function per choice
    Groups,         \* the source files, and the function breakpoints
    Keys,           \* lines and function names
    Conditional,    \* the keys set with a condition
    Rejected,       \* bare addresses as function names, lines out of range
    CmdBuffer,      \* capacity of the command channel
    MaxOutput,      \* bound: lines of engine output
    Careful         \* whether calls on one group are made one at a time

OpKinds == {"launch", "attach", "open_dump", "attach_kernel", "cont", "step", "pause",
            "set", "inspect", "disconnect", "none"}   \* "none": a call not made
Connecting == {"launch", "attach", "open_dump", "attach_kernel"}
Ops == [kind : OpKinds, group : Groups, keys : Seq(Keys)]
Places == [group : Groups, key : Keys]
Commands == [verb : {"none", "launch", "attach_pid", "open_dump", "attach_kernel", "go",
                     "break_in", "step", "set_breakpoint", "remove_breakpoint", "inspect",
                     "detach"},
             place : Places, id : Ids \cup {NoId}]

ASSUME BackendAssumption ==
    /\ PlanChoices \subseteq [Calls -> Ops]
    /\ Locations = Places /\ Places # {}
    /\ Conditional \subseteq Keys
    /\ Rejected \subseteq Keys
    /\ CmdBuffer \in Nat \ {0}
    /\ MaxOutput \in Nat
    /\ Careful \in BOOLEAN

VARIABLES
    thread,     \* the engine thread: "starting", "serving" or "exited"
    ready,      \* the readiness oneshot: "none", "ok", "error" or "dropped"
    serving,    \* the call whose command go, break_in or attach_kernel is serving
    queue,      \* the command channel: the calls whose commands are in it
    plan,       \* what each call is
    pc,         \* where it is
    ask,        \* the command it sends
    answer,     \* the answer it got
    work,       \* the locals of launch's flush and of the setters
    table,      \* WinDbgBackend::breakpoints, the number of each key of each group
    pid,        \* WinDbgBackend::target_pid, whether one is known
    phase,      \* the session's state, as far as it admits calls
    told,       \* the last result a call reported to its handler
    slot,       \* whether the handlers hold the backend
    output,     \* the output channel: lines the stream has not taken yet
    lines,      \* how many lines the engine has written
    ended,      \* the terminated oneshot: whether the thread has fired it
    stream,     \* the event stream: "none", "open", "terminated" (emitted) or "over"
    leftover    \* history: the numbers DbgEng would not remove

channel == <<thread, ready, serving, queue>>
calls == <<plan, pc, ask, answer, work, leftover>>
session == <<phase, told, slot>>
events == <<output, lines, ended, stream>>
vars == <<engine, channel, calls, table, pid, session, events>>

InFlight == {"lookup", "send", "await", "answered"}

Place(g, k) == [group |-> g, key |-> k]
AnyPlace == CHOOSE p \in Places : TRUE
Command(verb) == [verb |-> verb, place |-> AnyPlace, id |-> NoId]
SetAt(p) == [verb |-> "set_breakpoint", place |-> p, id |-> NoId]
RemoveId(i) == [verb |-> "remove_breakpoint", place |-> AnyPlace, id |-> i]
NoWork == [todo |-> <<>>, new |-> << >>, drop |-> {}]
Closed == Reply("closed", NoId)

\* The backend exists as long as the slot or a call in progress holds its Arc.
Held == slot \/ \E c \in Calls : pc[c] \in InFlight

TypeOK ==
    /\ EngineTypeOK
    /\ thread \in {"starting", "serving", "exited"}
    /\ ready \in {"none", "ok", "error", "dropped"}
    /\ serving \in Calls \cup {NoId}
    /\ queue \in Seq(Calls) /\ Len(queue) <= CmdBuffer
    /\ plan \in [Calls -> Ops]
    /\ pc \in [Calls -> {"start", "done", "gone"} \cup InFlight]
    /\ ask \in [Calls -> Commands]
    /\ answer \in [Calls -> Replies]
    /\ \A c \in Calls : /\ work[c].todo \in Seq(Places)
                        /\ work[c].drop \subseteq Ids
                        /\ work[c].new \in [DOMAIN work[c].new -> Ids]
    /\ \A g \in Groups : DOMAIN table[g] \subseteq Keys /\ table[g] \in [DOMAIN table[g] -> Ids]
    /\ pid \in BOOLEAN
    /\ phase \in {"connecting", "idle", "configuring", "stopped", "running", "ended"}
    /\ told \in Replies
    /\ slot \in BOOLEAN
    /\ output \in 0 .. MaxOutput
    /\ lines \in 0 .. MaxOutput
    /\ ended \in BOOLEAN
    /\ leftover \subseteq Ids
    /\ stream \in {"none", "open", "terminated", "over"}

Init ==
    /\ EngineInit
    /\ thread = "starting"
    /\ ready = "none"
    /\ serving = NoId
    /\ queue = <<>>
    /\ plan \in PlanChoices
    /\ pc = [c \in Calls |-> "start"]
    /\ ask = [c \in Calls |-> Command("none")]
    /\ answer = [c \in Calls |-> Plain]
    /\ work = [c \in Calls |-> NoWork]
    /\ table = [g \in Groups |-> << >>]
    /\ pid = FALSE
    /\ phase = "connecting"
    /\ told = Plain
    /\ slot = TRUE
    /\ output = 0
    /\ lines = 0
    /\ ended = FALSE
    /\ stream = "none"
    /\ leftover = {}

-----------------------------------------------------------------------------
(* Connecting: WinDbgFactory::connect and the engine thread *)

ThreadReady ==
    /\ thread = "starting"
    /\ IF ready = "dropped"
       THEN \E r \in Replies : detach(r) /\ thread' = "exited" /\ ended' = TRUE /\ UNCHANGED ready
       ELSE thread' = "serving" /\ ready' = "ok" /\ UNCHANGED <<engine, ended>>
    /\ UNCHANGED <<serving, queue, calls, table, pid, session, output, lines, stream>>

\* The apartment or the engine cannot be made.
ThreadFails ==
    /\ thread = "starting"
    /\ thread' = "exited"
    /\ ready' = IF ready = "dropped" THEN ready ELSE "error"
    /\ ended' = TRUE
    /\ UNCHANGED <<engine, serving, queue, calls, table, pid, session, output, lines, stream>>

\* Readiness, the output sink installed, and the backend handed out with its stream.
Connected ==
    /\ phase = "connecting" /\ ready = "ok" /\ thread = "serving"
    /\ phase' = "idle"
    /\ stream' = "open"
    /\ UNCHANGED <<engine, channel, calls, table, pid, told, slot, output, lines, ended>>

\* connect fails, or its handler is cancelled: the channel's sender is dropped.
ConnectFails ==
    /\ phase = "connecting"
    /\ \/ ready = "error" /\ UNCHANGED ready
       \/ ready = "ok" /\ UNCHANGED ready
       \/ ready = "none" /\ ready' = "dropped"
    /\ phase' = "ended"
    /\ slot' = FALSE
    /\ UNCHANGED <<engine, thread, serving, queue, calls, table, pid, told, events>>

\* Every sender of the channel is gone: the target is left running, not killed.
ThreadStops ==
    /\ thread = "serving" /\ wait = "idle"
    /\ queue = <<>> /\ ~ Held
    /\ \E r \in Replies : detach(r)
    /\ thread' = "exited"
    /\ ended' = TRUE
    /\ UNCHANGED <<ready, serving, queue, calls, table, pid, session, output, lines, stream>>

\* A panic in an operation of the engine: the thread ends at once, and with it
\* the commands it has not answered.
ThreadPanics ==
    /\ thread = "serving"
    /\ queue # <<>> \/ wait # "idle"
    /\ thread' = "exited"
    /\ ended' = TRUE
    /\ queue' = <<>>
    /\ serving' = NoId
    /\ wait' = "idle"
    /\ pc' = [c \in Calls |-> IF pc[c] = "await" THEN "answered" ELSE pc[c]]
    /\ answer' = [c \in Calls |-> IF pc[c] = "await" THEN Closed ELSE answer[c]]
    /\ UNCHANGED <<still, tries, restarted, ready, plan, ask, work, leftover, table, pid, session,
                   output, lines, stream>>

-----------------------------------------------------------------------------
(* The command loop: blocking_recv and dispatch *)

\* The reply oneshot: a call that was dropped meanwhile does not get it.
Answered(c, r) ==
    /\ pc' = [pc EXCEPT ![c] = IF @ = "await" THEN "answered" ELSE @]
    /\ answer' = [answer EXCEPT ![c] = IF pc[c] = "await" THEN r ELSE @]

backendRest == <<plan, ask, work, leftover, table, pid, session, events>>

Serves(c, verb) ==
    /\ thread = "serving" /\ wait = "idle"
    /\ queue # <<>> /\ Head(queue) = c /\ ask[c].verb = verb
    /\ queue' = Tail(queue)

\* The commands that one step answers.
Dispatch(c) ==
    \E r \in Replies :
        /\ \/ Serves(c, "launch") /\ launch(r)
           \/ Serves(c, "attach_pid") /\ attach_pid(r)
           \/ Serves(c, "open_dump") /\ open_dump(r)
           \/ Serves(c, "attach_kernel") /\ attach_kernel_refused(r)
           \/ Serves(c, "go") /\ go_refused(r)
           \/ Serves(c, "break_in") /\ break_in_refused(r)
           \/ Serves(c, "step") /\ step(r)
           \/ Serves(c, "set_breakpoint")
                /\ set_breakpoint(ask[c].place, ask[c].place.key \in Conditional, r)
           \/ Serves(c, "remove_breakpoint") /\ remove_breakpoint(ask[c].id, r)
           \/ Serves(c, "inspect") /\ inspect(r)
           \/ Serves(c, "detach") /\ detach(r)
        /\ Answered(c, r)
        /\ UNCHANGED <<thread, ready, serving, backendRest>>

\* The commands that wait.
DispatchWaiting(c) ==
    /\ \/ Serves(c, "go") /\ go
       \/ Serves(c, "break_in") /\ break_in
       \/ Serves(c, "attach_kernel") /\ attach_kernel
    /\ serving' = c
    /\ UNCHANGED <<thread, ready, pc, answer, backendRest>>

EngineWaits ==
    /\ thread = "serving"
    /\ go_polls \/ wait_times_out \/ wait_skips
    /\ UNCHANGED <<channel, calls, table, pid, session, events>>

\* What follows the end of a wait with result r: the call is answered.
WaitReplies(r) ==
    /\ thread = "serving"
    /\ Answered(serving, r)
    /\ serving' = NoId
    /\ UNCHANGED <<thread, ready, queue, backendRest>>

GoReplies == \E r \in Replies : (waited(r) \/ go_expires(r)) /\ WaitReplies(r)

KernelReplies == \E r \in Replies : kernel_waited(r) /\ WaitReplies(r)

-----------------------------------------------------------------------------
(* The event stream: the output sink, build_event_stream *)

EngineOutput ==
    /\ thread = "serving" /\ stream # "none" /\ lines < MaxOutput
    /\ lines' = lines + 1
    /\ output' = IF stream = "over" THEN output ELSE output + 1
    /\ UNCHANGED <<engine, channel, calls, table, pid, session, ended, stream>>

\* MUTANT of Terminates: only the thread's own signal ends the stream.
TerminatesLate == ended

\* The race of term_rx and drop_rx.
Terminates == ended \/ ~ Held

\* Output first; once there is none, the first of the thread's signal and the
\* backend's drop ends the stream with one Terminated.
StreamPoll ==
    /\ \/ /\ stream = "open" /\ output > 0
          /\ output' = output - 1 /\ UNCHANGED stream
       \/ /\ stream = "open" /\ output = 0 /\ Terminates
          /\ stream' = "terminated" /\ UNCHANGED output
       \/ /\ stream = "terminated"
          /\ stream' = "over" /\ UNCHANGED output
    /\ UNCHANGED <<engine, channel, calls, table, pid, session, lines, ended>>

-----------------------------------------------------------------------------
(* The operations of WinDbgBackend *)

\* WinDbgBackend::call: the next command of a call is on its way.
Asks(c, command) ==
    /\ pc' = [pc EXCEPT ![c] = "send"]
    /\ ask' = [ask EXCEPT ![c] = command]

Enqueue(c) ==
    /\ pc[c] = "send" /\ thread = "serving" /\ Len(queue) < CmdBuffer
    /\ queue' = Append(queue, c)
    /\ pc' = [pc EXCEPT ![c] = "await"]
    /\ UNCHANGED <<engine, thread, ready, serving, plan, ask, answer, work, leftover, table, pid,
                   session, events>>

SendFails(c) ==
    /\ pc[c] = "send" /\ thread = "exited"
    /\ pc' = [pc EXCEPT ![c] = "answered"]
    /\ answer' = [answer EXCEPT ![c] = Closed]
    /\ UNCHANGED <<engine, channel, plan, ask, work, leftover, table, pid, session, events>>

Begins(c, kinds) == pc[c] = "start" /\ plan[c].kind \in kinds
quiet == <<engine, channel, plan, answer, leftover, events>>

PlacesOf(g, keys) == [i \in DOMAIN keys |-> Place(g, keys[i])]

\* What the first n entries of a request make it ask the engine for, in order.
Asking(list, k, known) == IF k \in Rejected \cup known THEN list ELSE Append(list, k)
Asked(keys, known) ==
    LET asked[n \in 0 .. Len(keys)] ==
            IF n = 0 THEN <<>> ELSE Asking(asked[n - 1], keys[n], known)
    IN  asked

Settable(keys, known) == Asked(keys, known)[Len(keys)]

\* The number of a key recorded in a map.
Recorded(map, k, i) == [l \in DOMAIN map \cup {k} |-> IF l = k THEN i ELSE map[l]]

\* launch (its flush list is what it has to set), open_dump, attach_kernel.
BeginConnecting(c) ==
    /\ phase = "idle"
    /\ \/ /\ Begins(c, {"launch"})
          /\ Asks(c, Command("launch"))
          /\ work' = [work EXCEPT ![c].todo =
                         PlacesOf(plan[c].group, Settable(plan[c].keys, {}))]
       \/ Begins(c, {"open_dump", "attach_kernel"}) /\ Asks(c, Command(plan[c].kind))
            /\ UNCHANGED work
       \/ Begins(c, {"attach"}) /\ pc' = [pc EXCEPT ![c] = "lookup"] /\ UNCHANGED <<ask, work>>
    /\ phase' = "configuring"
    /\ UNCHANGED <<quiet, table, pid, told, slot>>

\* attach: the pid that was given, or the one poll_for_process finds.
Resolved(c) ==
    /\ pc[c] = "lookup"
    /\ Asks(c, Command("attach_pid"))
    /\ pid' = TRUE
    /\ UNCHANGED <<quiet, work, table, session>>

\* MUTANT of Runs: the session is set running when the answer is there.
RunsLate == UNCHANGED phase

Runs == phase' = "running"

\* continue and step: the session is running before the command is sent.
BeginResume(c) ==
    /\ phase = "stopped"
    /\ \/ Begins(c, {"cont"}) /\ Asks(c, Command("go"))
       \/ Begins(c, {"step"}) /\ Asks(c, Command("step"))
    /\ Runs
    /\ UNCHANGED <<quiet, work, table, pid, told, slot>>

BeginInspect(c) ==
    /\ phase = "stopped"
    /\ Begins(c, {"inspect"}) /\ Asks(c, Command("inspect"))
    /\ UNCHANGED <<quiet, work, table, pid, session>>

Interrupts == interrupt' = TRUE /\ UNCHANGED <<target, initialBreak, pool, event, isDump,
                                               conditions, callbacks, waiting>>

\* pause only raises the flag.
Pause(c) ==
    /\ phase = "running"
    /\ Begins(c, {"pause"})
    /\ Interrupts
    /\ pc' = [pc EXCEPT ![c] = "done"]
    /\ UNCHANGED <<channel, plan, ask, answer, work, leftover, table, pid, session, events>>

\* disconnect raises it too, so that a running go makes way for the detach.
BeginDisconnect(c) ==
    /\ phase \in {"configuring", "stopped", "running", "ended"} /\ slot
    /\ Begins(c, {"disconnect"}) /\ Asks(c, Command("detach"))
    /\ Interrupts
    /\ UNCHANGED <<channel, plan, answer, work, leftover, table, pid, session, events>>

\* A handler's last step: what the call reports, and the session's state after it.
\* A connecting tool that fails drops the backend; a resumption that fails
\* leaves the session stopped; a session that was reset stays as it is.
Reports(c, r) ==
    /\ pc' = [pc EXCEPT ![c] = "done"]
    /\ told' = r
    /\ slot' = (slot /\ plan[c].kind # "disconnect"
                     /\ (plan[c].kind \in Connecting => r.is \notin {"error", "closed"}))
    /\ phase' = IF ~ slot' \/ r.is = "exited" THEN "ended" ELSE "stopped"

Ends(c) ==
    /\ pc[c] = "answered"
    /\ \/ /\ plan[c].kind \in {"attach", "open_dump", "attach_kernel", "step", "disconnect"}
          /\ Reports(c, answer[c]) /\ UNCHANGED <<ask, work>>
       \/ /\ plan[c].kind = "cont" /\ answer[c].is = "running"
          /\ Asks(c, Command("break_in")) /\ UNCHANGED <<work, session>>
       \/ /\ plan[c].kind = "cont" /\ answer[c].is # "running"
          /\ Reports(c, answer[c]) /\ UNCHANGED <<ask, work>>
       \/ /\ plan[c].kind = "inspect"
          /\ pc' = [pc EXCEPT ![c] = "done"] /\ UNCHANGED <<ask, work, session>>
    /\ UNCHANGED <<quiet, table, pid>>

LookupFails(c) ==
    /\ pc[c] = "lookup"
    /\ Reports(c, Failed)
    /\ UNCHANGED <<quiet, ask, work, table, pid>>

\* The client cancels, or disconnect's five seconds are over: the call is dropped
\* where it is.  A cancelled resumption leaves the session running.
Abandon(c) ==
    /\ pc[c] \in InFlight
    /\ plan[c].kind \in Connecting \cup {"cont", "step", "disconnect"}
    /\ pc' = [pc EXCEPT ![c] = "gone"]
    /\ IF plan[c].kind \in {"cont", "step"}
       THEN UNCHANGED session
       ELSE slot' = FALSE /\ phase' = "ended" /\ UNCHANGED told
    /\ UNCHANGED <<quiet, ask, work, table, pid>>

-----------------------------------------------------------------------------
(* Breakpoints: launch's flush, set_source_breakpoints, set_function_breakpoints *)

\* launch, after its command and after each breakpoint of the flush: what is
\* verified is recorded, what fails is passed over.
Flush(c) ==
    /\ pc[c] = "answered" /\ plan[c].kind = "launch"
    /\ LET flushing == ask[c].verb = "set_breakpoint"
           set == flushing /\ answer[c].is = "ok"
           p == ask[c].place
           left == IF flushing THEN Tail(work[c].todo) ELSE work[c].todo
       IN  /\ table' = IF set
                     THEN [table EXCEPT ![p.group] = Recorded(@, p.key, answer[c].hit)]
                     ELSE table
           /\ work' = [work EXCEPT ![c].todo = left]
           /\ IF left # <<>> /\ (flushing \/ answer[c].is = "stopped")
              THEN Asks(c, SetAt(Head(left))) /\ UNCHANGED session
              ELSE Reports(c, IF flushing THEN Reply("stopped", NoId) ELSE answer[c])
                       /\ UNCHANGED ask
    /\ UNCHANGED <<quiet, pid>>

\* MUTANT of Commit: one map for every file and the functions.
CommitAll(c, new) == table' = [g \in Groups |-> IF g = plan[c].group THEN new ELSE << >>]

Commit(c, new) == table' = [table EXCEPT ![plan[c].group] = new]

\* A setter goes on: the next breakpoint to set, then the next to remove (number
\* 0 is taken for unverified and passed over), then the new map is committed.
Proceed(c, w) ==
    /\ work' = [work EXCEPT ![c] = w]
    /\ IF w.todo # <<>>
       THEN Asks(c, SetAt(Head(w.todo))) /\ UNCHANGED table
       ELSE IF w.drop # {}
       THEN (\E i \in w.drop : Asks(c, RemoveId(i))) /\ UNCHANGED table
       ELSE /\ Commit(c, w.new)
            /\ pc' = [pc EXCEPT ![c] = "done"] /\ UNCHANGED ask

\* MUTANT of Removable: no pass over the stale ones.
RemovableNone(S) == {}

\* remove_engine_breakpoint passes over what cannot be a real breakpoint.
Removable(S) == {i \in S : i > 0}

BeginSet(c) ==
    /\ phase = "stopped"
    /\ Begins(c, {"set"})
    /\ Careful => \A d \in Calls : pc[d] \in InFlight /\ plan[d].kind \in {"set", "launch"}
                                       => plan[d].group # plan[c].group
    /\ LET prior == table[plan[c].group]
           wanted == ToSet(plan[c].keys) \ Rejected
       IN  Proceed(c, [todo |-> PlacesOf(plan[c].group, Settable(plan[c].keys, DOMAIN prior)),
                       new |-> Restrict(prior, DOMAIN prior \cap wanted),
                       drop |-> Removable({prior[k] : k \in DOMAIN prior \ wanted})])
    /\ UNCHANGED <<quiet, pid, session>>

\* The answer to one command of a setter.  A dead engine thread ends the call:
\* while it sets with nothing committed, while it removes with what it has.
SetAnswered(c) ==
    /\ pc[c] = "answered" /\ plan[c].kind = "set"
    /\ LET w == work[c]
           r == answer[c]
           sets == ask[c].verb = "set_breakpoint"
       IN  \/ /\ r = Closed /\ sets
              /\ pc' = [pc EXCEPT ![c] = "done"] /\ UNCHANGED <<ask, work, table, leftover>>
           \/ /\ r = Closed /\ ~ sets
              /\ Proceed(c, [w EXCEPT !.drop = {}]) /\ UNCHANGED leftover
           \/ /\ r # Closed /\ sets
              /\ Proceed(c, [w EXCEPT !.todo = Tail(@),
                                      !.new = IF r.is = "ok"
                                              THEN Recorded(@, ask[c].place.key, r.hit)
                                              ELSE @])
              /\ UNCHANGED leftover
           \/ /\ r # Closed /\ ~ sets
              /\ Proceed(c, [w EXCEPT !.drop = @ \ {ask[c].id}])
              /\ leftover' = IF r = Failed THEN leftover \cup {ask[c].id} ELSE leftover
    /\ UNCHANGED <<engine, channel, plan, answer, pid, session, events>>

-----------------------------------------------------------------------------
CallStep(c) == Enqueue(c) \/ SendFails(c) \/ Ends(c) \/ Flush(c) \/ SetAnswered(c)

Starts(c) == BeginConnecting(c) \/ BeginResume(c) \/ BeginInspect(c) \/ Pause(c)
                \/ BeginDisconnect(c) \/ BeginSet(c)

Next ==
    \/ ThreadReady \/ ThreadFails \/ Connected \/ ConnectFails \/ ThreadStops \/ ThreadPanics
    \/ EngineWaits \/ GoReplies \/ KernelReplies \/ EngineOutput \/ StreamPoll
    \/ \E c \in Calls : \/ Dispatch(c) \/ DispatchWaiting(c) \/ CallStep(c) \/ Starts(c)
                        \/ Resolved(c) \/ LookupFails(c) \/ Abandon(c)

Spec == Init /\ [][Next]_vars

\* What the engine thread, one sequential process, may do next.
EngineThread ==
    \/ ThreadReady \/ ThreadFails \/ ThreadStops
    \/ EngineWaits \/ GoReplies
    \/ \E c \in Calls : Dispatch(c) \/ DispatchWaiting(c)

\* The engine thread serves its queue and makes its bounded waits, and tokio runs
\* the pump and every call that has something to do.  Nothing makes a debuggee
\* stop or a kernel answer, and nothing makes a client call or cancel.
Fairness ==
    /\ WF_vars(EngineThread)
    /\ WF_vars(StreamPoll)
    /\ WF_vars(\E c \in Calls : CallStep(c))

FairSpec == Spec /\ Fairness

-----------------------------------------------------------------------------
(* Correctness *)

Active(kinds) == {c \in Calls : pc[c] \in InFlight /\ plan[c].kind \in kinds}

\* What the agent was told of a stop goes on being true: while the session is
\* stopped after a reported stop, and nobody is disconnecting, DbgEng holds the
\* target at a break, however many set and inspect calls overlap and whatever a
\* cancelled continue left in the channel.
ReportedStopHolds ==
    phase = "stopped" /\ told.is = "stopped" /\ thread = "serving" /\ Active({"disconnect"}) = {}
        => target = "break"

\* The INITIAL_BREAK option that launch, attach_pid and attach_kernel set (the
\* engine would stop at every later process or reboot) does not outlive the call
\* that reported a stop.
InitialBreakGone ==
    told.is = "stopped" /\ phase \in {"stopped", "running"} => ~ initialBreak

\* breakpoint_conditions speaks of breakpoints DbgEng has, so that a number given
\* out again never inherits the condition of a removed breakpoint.
ConditionsOwned == target # "none" => conditions \subseteq DOMAIN pool

\* A dump is never resumed: neither a continue, a step nor the break_in after
\* them leaves the execution status of an opened dump anything but break.
DumpNeverRuns == isDump => target # "go" /\ wait = "idle"

\* Reconciliation is exact.  Between set requests of a connected session what the
\* table tracks is in the engine, where the table says, and what is in the engine
\* is tracked.  Left out are the breakpoints whose removal DbgEng refused, those
\* set_breakpoint made and could not report, and number 0, which
\* remove_engine_breakpoint takes for the unverified sentinel.  (For a client that
\* is Careful and whose lists name no location twice.)
EngineMatchesTable ==
    Active({"launch", "set"}) = {} /\ slot /\ thread = "serving" /\ target = "break" =>
        /\ \A g \in Groups : \A k \in DOMAIN table[g] :
              table[g][k] \in DOMAIN pool /\ pool[table[g][k]] = Place(g, k)
        /\ \A i \in DOMAIN pool \ (leftover \cup {0}) :
              \/ pool[i] = Unreported
              \/ \E g \in Groups : \E k \in DOMAIN table[g] : table[g][k] = i

\* What the calls that are not over ask for.
Requests == [c \in {d \in Calls : pc[d] \notin {"done", "gone"}} |->
             [kind |-> plan[c].kind, group |-> plan[c].group, keys |-> ToSet(plan[c].keys)]]

\* The table does what the breakpoint tools assume of one request, although each
\* request is several commands and awaits between reading and writing it: a set
\* request ends with the breakpoints of its own list, those it keeps keep their
\* numbers, nobody else's change.
Abstract == INSTANCE ReplaceAll WITH Refused <- Rejected, set <- table, asked <- Requests
ReplacesAll == Abstract!Spec

\* What the comments of wait_for_event promise: a hit whose condition is false
\* leaves "the interrupt-flag/deadline checks in `go` fully intact", for a slice of
\* go is bounded and the "interrupt checked between slices".  With the flag up,
\* go does not stay in its slice.
InterruptSeen == interrupt /\ wait = "slice" ~> wait # "slice"

\* What the code keeps of it: an interrupt that finds go past its first line brings
\* the engine thread back to its queue, with a stop or an error, unless breakpoints
\* whose conditions are false are hit for ever, each before the wait it starts anew
\* is over (go, break_loop, wait_for_event).
PauseEndsGo ==
    \/ interrupt /\ wait \in {"poll", "slice"} ~> wait = "idle"
    \/ []<><<wait_skips>>_vars

\* Once nobody holds the backend its event stream ends, an attach_kernel that
\* waits for ever on the engine thread included.
DroppedStreamEnds == ~ Held /\ stream # "none" ~> stream = "over"

=============================================================================
