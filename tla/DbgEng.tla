------------------------------- MODULE DbgEng -------------------------------
(***************************************************************************)
(* dbgeng_sys::Engine, the safe wrapper of one DbgEng engine, and what it  *)
(* relies on of DbgEng itself: one target, its breakpoints, its events.    *)
(*                                                                         *)
(* Each operator is one method of Engine; its parameter r is the result    *)
(* the method returns.  A method runs on the engine thread alone and reads *)
(* nothing another thread writes, so it is one step; go and break_in,      *)
(* which poll the interrupt flag, and the unbounded wait of attach_kernel  *)
(* are one step per wait.                                                  *)
(***************************************************************************)
EXTENDS Naturals, FiniteSets, Functions

CONSTANTS
    Ids,            \* the breakpoint numbers DbgEng gives out
    Locations,      \* where a breakpoint can be set: a line or a function
    NoId,           \* no breakpoint
    Unreported,     \* the place of one that set_breakpoint made and then failed on
    BreakPolls      \* bound: break_loop's polls (50 in the code)

ASSUME EngineAssumption ==
    /\ Ids \subseteq Nat
    /\ NoId \notin Ids
    /\ Unreported \notin Locations
    /\ BreakPolls \in Nat \ {0}

VARIABLES
    target,         \* external: the execution status, "none", "break" or "go"
    initialBreak,   \* external: the engine option INITIAL_BREAK
    pool,           \* external: the breakpoints DbgEng has, their location by number
    event,          \* external: the last event, with the number of its breakpoint
    isDump,         \* Engine::is_dump
    conditions,     \* Engine::breakpoint_conditions, the numbers that have one
    lastHit,        \* CallbackState::last_breakpoint_id
    exitCode,       \* CallbackState::last_exit_code, whether there is one
    interrupt,      \* Engine::interrupt_flag
    wait,           \* where go, break_in or attach_kernel is in its waits
    tries,          \* break_loop's polls so far
    restarted       \* flips when a hit whose condition is false starts a wait anew

callbacks == <<lastHit, exitCode>>
waiting == <<wait, tries, restarted>>
engine == <<target, initialBreak, pool, event, isDump, conditions, callbacks, interrupt, waiting>>

Events == [is : {"none", "breakpoint", "exception", "step", "interrupted", "exit"},
           id : Ids \cup {NoId}]
Results == {"ok", "stopped", "exited", "running", "error", "closed"}
Replies == [is : Results, hit : Ids \cup {NoId}]

EngineTypeOK ==
    /\ target \in {"none", "break", "go"}
    /\ initialBreak \in BOOLEAN
    /\ DOMAIN pool \subseteq Ids
    /\ pool \in [DOMAIN pool -> Locations \cup {Unreported}]
    /\ event \in Events
    /\ isDump \in BOOLEAN
    /\ conditions \subseteq Ids
    /\ lastHit \in Ids \cup {NoId}
    /\ exitCode \in BOOLEAN
    /\ interrupt \in BOOLEAN
    /\ wait \in {"idle", "poll", "slice", "break", "kernel"}
    /\ tries \in 0 .. BreakPolls
    /\ restarted \in BOOLEAN

Event(is) == [is |-> is, id |-> NoId]
Hit(i) == [is |-> "breakpoint", id |-> i]

\* Engine::create: a fresh engine, with no target.
EngineInit ==
    /\ target = "none"
    /\ initialBreak = FALSE
    /\ pool = << >>
    /\ event = Event("none")
    /\ isDump = FALSE
    /\ conditions = {}
    /\ lastHit = NoId
    /\ exitCode = FALSE
    /\ interrupt = FALSE
    /\ wait = "idle"
    /\ tries = 0
    /\ restarted = FALSE

Reply(is, hit) == [is |-> is, hit |-> hit]
Failed == Reply("error", NoId)
Plain == Reply("ok", NoId)

-----------------------------------------------------------------------------
(* Events and waits *)

\* What happens to a running target, with the callbacks that record it.  Only
\* Breakpoint and ExitProcess leave their mark for good; a first-chance exception
\* does not stop the target and is left out.
Happens(e) ==
    /\ event' = e
    /\ lastHit' = IF e.is = "breakpoint" THEN e.id ELSE lastHit
    /\ exitCode' = (exitCode \/ e.is = "exit")
    /\ target' = IF e.is = "exit" THEN "none" ELSE "break"
    /\ pool' = IF e.is = "exit" THEN << >> ELSE pool

\* The events that end a wait: a breakpoint, its condition met if it has one (one
\* that was never reported too, if it got as far as being enabled), the end of the
\* process, and those the resumption itself brings about.
Stops(expected) == {Hit(i) : i \in DOMAIN pool}
                       \cup {Event(x) : x \in expected \cup {"exception", "exit"}}

\* build_stop_outcome, in the state the event leaves.
StopOutcome == IF exitCode' \/ target' = "none" THEN Reply("exited", NoId)
                                               ELSE Reply("stopped", lastHit')

\* wait_for_event: the condition of the breakpoint that was hit is false or does
\* not evaluate, so the target is resumed and WaitForEvent called again with the
\* whole timeout, any number of times.
Skipped(i) ==
    /\ i \in conditions \cap DOMAIN pool
    /\ restarted' = ~ restarted
    /\ event' = Hit(i)
    /\ lastHit' = i
    /\ target' = "go"
    /\ UNCHANGED <<pool, exitCode>>

\* A wait inside one step (launch, attach_pid, step): hits that are skipped leave
\* their mark, then an event, the deadline or a failed call ends the wait.
WaitInStep(expected, r) ==
    /\ \/ /\ r.is \in {"stopped", "exited"}
          /\ \E e \in Stops(expected) : Happens(e)
          /\ r = StopOutcome
       \/ /\ r = Failed
          /\ target' = "go"
          /\ \E h \in {lastHit} \cup (conditions \cap DOMAIN pool) : lastHit' = h
          /\ UNCHANGED <<pool, event, exitCode>>
    /\ UNCHANGED waiting

-----------------------------------------------------------------------------
(* Lifecycle *)

\* MUTANT of OptionRemoved: RemoveEngineOptions is forgotten.
OptionLeft == initialBreak' = TRUE

OptionRemoved == initialBreak' = FALSE

\* The common part of launch and attach_pid.  An error before the process is
\* there leaves INITIAL_BREAK set; afterwards it is removed whatever the wait
\* did, and only a failure to remove it keeps it.
Begin(r) ==
    /\ conditions' = {}
    /\ UNCHANGED <<isDump, interrupt>>
    /\ \/ /\ r = Failed
          /\ initialBreak' \in {initialBreak, TRUE}
          /\ UNCHANGED <<target, pool, event, callbacks, waiting>>
       \/ OptionRemoved /\ WaitInStep({}, r)
       \/ initialBreak' = TRUE /\ r = Failed /\ \E s \in Replies : WaitInStep({}, s)

launch(r) == Begin(r)
attach_pid(r) == Begin(r)

detach(r) ==
    \/ r = Failed /\ UNCHANGED engine
    \/ /\ r = Plain
       /\ target' = "none"
       /\ pool' = << >>
       /\ isDump' = FALSE
       /\ conditions' = {}
       /\ UNCHANGED <<initialBreak, event, callbacks, interrupt, waiting>>

\* The status guard, OpenDumpFile, and the wait that loads the dump's state.
open_dump(r) ==
    /\ UNCHANGED <<initialBreak, pool, conditions, callbacks, interrupt, waiting>>
    /\ \/ r = Failed /\ UNCHANGED <<target, event, isDump>>
       \/ /\ target = "none"
          /\ isDump' = TRUE
          /\ \/ r = Failed /\ UNCHANGED <<target, event>>
             \/ r.is = "ok" /\ target' = "break" /\ event' = Event("exception")

\* attach_kernel up to its wait, which has no bound.
attach_kernel ==
    /\ conditions' = {}
    /\ initialBreak' = TRUE
    /\ isDump' = FALSE
    /\ wait' = "kernel"
    /\ UNCHANGED <<target, pool, event, callbacks, interrupt, tries, restarted>>

\* AddEngineOptions or AttachKernel fails: the option is removed again, if DbgEng
\* removes it.
attach_kernel_refused(r) ==
    /\ r = Failed
    /\ conditions' = {}
    /\ initialBreak' \in BOOLEAN
    /\ UNCHANGED <<target, pool, event, isDump, callbacks, interrupt, waiting>>

\* The kernel breaks in, or the wait fails and the session is ended.
kernel_waited(r) ==
    /\ wait = "kernel"
    /\ wait' = "idle"
    /\ UNCHANGED <<pool, isDump, conditions, callbacks, interrupt, tries, restarted>>
    /\ \/ /\ r = Reply("stopped", lastHit)
          /\ target' = "break" /\ event' = Event("exception") /\ OptionRemoved
       \/ /\ r = Failed
          /\ target' = "break" /\ event' = Event("exception") /\ initialBreak' = TRUE
       \/ /\ r = Failed
          /\ target' = "none" /\ initialBreak' \in BOOLEAN /\ UNCHANGED event

-----------------------------------------------------------------------------
(* Execution *)

\* MUTANT of ensure_runnable: a dump is not told apart.
always_runnable == TRUE

ensure_runnable == ~ isDump

\* go up to its first look at the flag.
go ==
    /\ ensure_runnable /\ target # "none"
    /\ interrupt' = FALSE
    /\ target' = "go"
    /\ wait' = "poll"
    /\ UNCHANGED <<initialBreak, pool, event, isDump, conditions, callbacks, tries, restarted>>

\* The dump guard, or SetExecutionStatus fails once the flag is down.
go_refused(r) ==
    /\ r = Failed
    /\ interrupt' = (interrupt /\ isDump)
    /\ UNCHANGED <<target, initialBreak, pool, event, isDump, conditions, callbacks, waiting>>

still == <<target, initialBreak, pool, event, isDump, conditions, callbacks, interrupt>>

\* MUTANT of go_polls: the flag is not looked at.
go_pollsDeaf ==
    /\ wait = "poll"
    /\ wait' = "slice"
    /\ tries' = 0
    /\ UNCHANGED <<still, restarted>>

\* The head of go's loop: the flag leads to break_loop, otherwise the next slice.
go_polls ==
    /\ wait = "poll"
    /\ wait' = IF interrupt THEN "break" ELSE "slice"
    /\ tries' = 0
    /\ UNCHANGED <<still, restarted>>

\* The budget is spent with the target still running.
go_expires(r) ==
    /\ wait = "poll" /\ ~ interrupt
    /\ r = Reply("running", NoId)
    /\ wait' = "idle"
    /\ UNCHANGED <<still, tries, restarted>>

break_in ==
    /\ ensure_runnable /\ target # "none"
    /\ wait' = "break"
    /\ tries' = 0
    /\ UNCHANGED <<still, restarted>>

break_in_refused(r) == r = Failed /\ UNCHANGED engine

\* MUTANT of PollsLeft: break_loop never gives up.
PollsForEver == TRUE

PollsLeft == tries < BreakPolls

\* A wait of go or break_loop ends with nothing: back to the loop's head.
wait_times_out ==
    /\ \/ wait = "slice" /\ wait' = "poll" /\ UNCHANGED tries
       \/ wait = "break" /\ PollsLeft /\ tries' = tries + 1 /\ UNCHANGED wait
    /\ UNCHANGED <<still, restarted>>

wait_skips ==
    /\ wait \in {"slice", "break"}
    /\ \E i \in Ids : Skipped(i)
    /\ UNCHANGED <<initialBreak, isDump, conditions, interrupt, wait, tries>>

\* The wait ends with an event, and go or break_loop with it; or break_loop has
\* made its last poll, or a call of DbgEng fails, and the target runs on.
waited(r) ==
    /\ wait \in {"slice", "break"}
    /\ wait' = "idle"
    /\ UNCHANGED <<initialBreak, isDump, conditions, interrupt, tries, restarted>>
    /\ \/ /\ PollsLeft
          /\ \E e \in Stops(IF wait = "break" THEN {"interrupted"} ELSE {}) : Happens(e)
          /\ r = StopOutcome
       \/ /\ r = Failed
          /\ UNCHANGED <<target, pool, event, callbacks>>

step(r) ==
    /\ \/ r = Failed /\ UNCHANGED <<target, pool, event, callbacks, waiting>>
       \/ ensure_runnable /\ target # "none" /\ WaitInStep({"step"}, r)
    /\ UNCHANGED <<initialBreak, isDump, conditions, interrupt>>

-----------------------------------------------------------------------------
(* Breakpoints *)

\* AddBreakpoint gives any free number; a call that fails after it leaves the
\* breakpoint behind; a location that does not resolve leaves nothing.
set_breakpoint(loc, conditional, r) ==
    /\ UNCHANGED <<target, initialBreak, event, isDump, callbacks, interrupt, waiting>>
    /\ \/ r = Failed /\ UNCHANGED <<pool, conditions>>
       \/ \E i \in Ids \ DOMAIN pool :
             /\ target # "none"
             /\ \A j \in Ids \ DOMAIN pool : i <= j
             /\ \/ /\ r = Reply("ok", i)
                   /\ pool' = [j \in DOMAIN pool \cup {i} |-> IF j = i THEN loc ELSE pool[j]]
                   /\ conditions' = conditions \cup (IF conditional THEN {i} ELSE {})
                \/ /\ r = Failed
                   /\ pool' = [j \in DOMAIN pool \cup {i} |-> IF j = i THEN Unreported ELSE pool[j]]
                   /\ UNCHANGED conditions

\* MUTANT of ForgetCondition: the number keeps its condition.
KeepCondition(i) == UNCHANGED conditions

ForgetCondition(i) == conditions' = conditions \ {i}

\* The condition goes first, then the breakpoint.
remove_breakpoint(i, r) ==
    /\ UNCHANGED <<target, initialBreak, event, isDump, callbacks, interrupt, waiting>>
    /\ \/ /\ i \in DOMAIN pool
          /\ r = Plain
          /\ ForgetCondition(i)
          /\ pool' = Restrict(pool, DOMAIN pool \ {i})
       \/ /\ r = Failed
          /\ conditions' \in {conditions, conditions \ {i}}
          /\ UNCHANGED pool

\* threads, stack_trace, locals, evaluate, read_memory, disassemble, modules,
\* list_breakpoints, current_source_location, execute and analyze answer without
\* changing what is modelled here.
inspect(r) == r \in {Plain, Failed} /\ UNCHANGED engine

=============================================================================
