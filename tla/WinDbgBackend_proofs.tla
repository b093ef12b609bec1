------------------------ MODULE WinDbgBackend_proofs ------------------------
(***************************************************************************)
(* Proofs about WinDbgBackend, for any calls in any overlap, any           *)
(* breakpoints and a channel of any capacity: a reported stop goes on      *)
(* holding, the INITIAL_BREAK option and the conditions of breakpoints do  *)
(* not outlive their purpose, and a dump is never resumed.                 *)
(***************************************************************************)
EXTENDS WinDbgBackend, TLAPS

-----------------------------------------------------------------------------
(* The inductive invariant *)

Resuming == {"cont", "step"}
Begun(c) == pc[c] # "start"

\* A call that may still move the target: on its way, or dropped with what it sent.
Busy(c) == plan[c].kind \in Connecting \cup Resuming /\ pc[c] \in InFlight \cup {"gone"}

SomeConnected == \E c \in Calls : plan[c].kind \in Connecting /\ pc[c] = "done"

\* The part of the types that the argument needs.
Shape ==
    /\ plan \in [Calls -> Ops]
    /\ pc \in [Calls -> {"start", "done", "gone"} \cup InFlight]
    /\ ask = [c \in Calls |-> ask[c]]
    /\ answer \in [Calls -> Replies]
    /\ queue \in Seq(Calls)
    /\ slot \in BOOLEAN

\* Only the operation that has a command sends it.
AskInv ==
    \A c \in Calls :
        /\ ask[c].verb = "launch" => plan[c].kind = "launch"
        /\ ask[c].verb = "attach_pid" => plan[c].kind = "attach"
        /\ ask[c].verb \in {"open_dump", "attach_kernel", "step", "inspect"} =>
              plan[c].kind = ask[c].verb
        /\ ask[c].verb \in {"go", "break_in"} => plan[c].kind = "cont"
        /\ ask[c].verb = "set_breakpoint" => plan[c].kind \in {"launch", "set"}
        /\ ask[c].verb = "remove_breakpoint" => plan[c].kind = "set"
        /\ ask[c].verb = "detach" => plan[c].kind = "disconnect"
        /\ pc[c] = "lookup" => plan[c].kind = "attach"

\* A call has at most one command in the channel, and awaits it or was dropped.
QueueInv ==
    \A i \in 1 .. Len(queue) :
        /\ pc[queue[i]] \in {"await", "gone"}
        /\ \A j \in 1 .. Len(queue) : queue[j] = queue[i] => j = i

\* What the engine thread is doing while it waits.
WaitInv ==
    wait # "idle" =>
        /\ thread = "serving"
        /\ serving \in Calls /\ pc[serving] \in {"await", "gone"}
        /\ \A i \in 1 .. Len(queue) : queue[i] # serving
        /\ \/ wait = "kernel" /\ plan[serving].kind = "attach_kernel" /\ conditions = {}
           \/ wait \in {"poll", "slice", "break"} /\ plan[serving].kind = "cont"
                /\ target # "none"

\* One call connects, one at a time moves the target, and the session says which.
ConnectInv ==
    /\ \A c, d \in Calls : /\ plan[c].kind \in Connecting /\ plan[d].kind \in Connecting
                           /\ Begun(c) /\ Begun(d)
                           => c = d
    /\ \A c \in Calls : plan[c].kind \in Resuming \cup {"set"} /\ Begun(c) => SomeConnected
    /\ phase \in {"stopped", "running"} => SomeConnected
    /\ phase \in {"connecting", "idle"} => \A c \in Calls : ~ Begun(c)

BusyInv ==
    /\ \A c, d \in Calls : Busy(c) /\ Busy(d) => c = d
    /\ \A c \in Calls : Busy(c) /\ slot =>
          phase = IF plan[c].kind \in Connecting THEN "configuring" ELSE "running"

SlotInv ==
    /\ ~ slot => phase = "ended"
    /\ \A c \in Calls : plan[c].kind = "disconnect" /\ pc[c] \in {"done", "gone"} => ~ slot

\* Nothing is asked of a thread that is not ready.
StartInv ==
    thread = "starting" =>
        /\ phase = "connecting" \/ (phase = "ended" /\ ~ slot)
        /\ \A c \in Calls : ~ Begun(c)

\* isDump and conditions come from the calls that make them.
DumpInv ==
    /\ isDump => \E c \in Calls : plan[c].kind = "open_dump" /\ Begun(c)
    /\ DumpNeverRuns

CondInv ==
    /\ conditions # {} => \/ SomeConnected
                          \/ \E c \in Calls : plan[c].kind = "launch" /\ Begun(c)
    /\ ConditionsOwned

\* A launch that has come to its flush.
Flushing(c) ==
    plan[c].kind = "launch" /\ ask[c].verb = "set_breakpoint"
        /\ pc[c] \in {"send", "await", "answered"}

\* A connecting call with a good answer.
Good(c) ==
    /\ plan[c].kind \in Connecting
    /\ \/ pc[c] = "answered" /\ answer[c].is \notin {"error", "closed"}
       \/ Flushing(c)

\* It has INITIAL_BREAK removed.
BreakInv ==
    /\ initialBreak => \E c \in Calls : /\ plan[c].kind \in Connecting \ {"open_dump"}
                                        /\ Begun(c)
    /\ \A c \in Calls : Good(c) => ~ initialBreak
    /\ phase \in {"stopped", "running"} => ~ initialBreak

\* A call that is about to report a stop finds the target stopped.
Claims(c) ==
    /\ plan[c].kind \in Connecting \cup Resuming
    /\ \/ pc[c] = "answered" /\ answer[c].is = "stopped"
       \/ Flushing(c)

Undisturbed == slot /\ thread = "serving" /\ Active({"disconnect"}) = {}

StopInv ==
    /\ \A c \in Calls : Claims(c) /\ Undisturbed => target = "break"
    /\ ReportedStopHolds

Inv ==
    /\ Shape /\ AskInv /\ QueueInv /\ WaitInv /\ ConnectInv /\ BusyInv /\ SlotInv
    /\ StartInv /\ DumpInv /\ CondInv /\ BreakInv /\ StopInv


-----------------------------------------------------------------------------
(* The two sides of the command channel *)

\* What the argument sees of the engine.
core == <<target, initialBreak, pool, isDump, conditions, wait>>

EngineSide ==
    \/ ThreadReady \/ ThreadFails \/ ThreadStops \/ ThreadPanics
    \/ EngineWaits \/ GoReplies \/ KernelReplies
    \/ \E c \in Calls : Dispatch(c) \/ DispatchWaiting(c)

CallSide(c) ==
    CallStep(c) \/ Starts(c) \/ Resolved(c) \/ LookupFails(c) \/ Abandon(c)

\* A step is the engine thread's, a call's, the connecting task's, the stream's or none.
LEMMA Sides ==
    ASSUME [Next]_vars
    PROVE  \/ UNCHANGED vars
           \/ EngineSide
           \/ Connected \/ ConnectFails \/ EngineOutput \/ StreamPoll
           \/ \E c \in Calls : CallSide(c)
BY DEF Next, EngineSide, CallSide

\* The first element and the rest of a sequence.
LEMMA HeadTail ==
    ASSUME NEW S, NEW s \in Seq(S), s # <<>>
    PROVE  /\ Head(s) \in S /\ Head(s) = s[1] /\ Len(s) \in Nat /\ Len(s) > 0
           /\ Tail(s) \in Seq(S) /\ Len(Tail(s)) = Len(s) - 1
           /\ \A i \in 1 .. Len(s) - 1 : Tail(s)[i] = s[i + 1]
OBVIOUS

\* The calls and the session see nothing of an engine step but its answer.
LEMMA EngineKeeps ==
    ASSUME EngineSide, Shape
    PROVE  /\ UNCHANGED <<plan, ask, phase, told, slot>>
           /\ \A c \in Calls : \/ pc'[c] = pc[c] /\ answer'[c] = answer[c]
                               \/ pc[c] = "await" /\ pc'[c] = "answered"
<1> USE DEF Shape, session, calls, channel, events, backendRest
<1>1. CASE ThreadReady \/ ThreadFails \/ ThreadStops \/ EngineWaits
  BY <1>1 DEF ThreadReady, ThreadFails, ThreadStops, EngineWaits
<1>2. CASE ThreadPanics
  BY <1>2 DEF ThreadPanics
<1>3. CASE GoReplies
  BY <1>3 DEF GoReplies, WaitReplies, Answered
<1>4. CASE KernelReplies
  BY <1>4 DEF KernelReplies, WaitReplies, Answered
<1>5. CASE \E c \in Calls : Dispatch(c)
  BY <1>5 DEF Dispatch, Answered
<1>6. CASE \E c \in Calls : DispatchWaiting(c)
  BY <1>6 DEF DispatchWaiting
<1>7. QED
  BY <1>1, <1>2, <1>3, <1>4, <1>5, <1>6 DEF EngineSide

\* A call's step leaves the engine, the thread and every other call alone.
LEMMA CallKeeps ==
    ASSUME NEW c \in Calls, CallSide(c), Shape
    PROVE  /\ UNCHANGED <<core, thread, serving, plan>>
           /\ UNCHANGED queue \/ Enqueue(c)
           /\ \A d \in Calls \ {c} : /\ pc'[d] = pc[d] /\ ask'[d] = ask[d]
                                     /\ answer'[d] = answer[d]
           /\ pc[c] \in {"start"} \cup InFlight
           /\ pc'[c] # "start"
           /\ pc[c] = "await" => pc'[c] = "gone"
           /\ pc'[c] = "await" => Enqueue(c)
<1> USE DEF Shape, session, calls, channel, events, quiet, core, engine, waiting, InFlight
<1>1. CASE Enqueue(c) \/ SendFails(c)
  BY <1>1 DEF Enqueue, SendFails
<1>2. CASE Ends(c)
  BY <1>2 DEF Ends, Asks, Reports
<1>3. CASE Flush(c)
  BY <1>3 DEF Flush, Asks, Reports
<1>4. CASE SetAnswered(c)
  BY <1>4 DEF SetAnswered, Proceed, Asks
<1>5. CASE BeginConnecting(c)
  BY <1>5 DEF BeginConnecting, Begins, Asks
<1>6. CASE BeginResume(c) \/ BeginInspect(c)
  BY <1>6 DEF BeginResume, BeginInspect, Begins, Asks
<1>7. CASE Pause(c) \/ BeginDisconnect(c)
  BY <1>7 DEF Pause, BeginDisconnect, Interrupts, Begins, Asks
<1>8. CASE BeginSet(c)
  BY <1>8 DEF BeginSet, Begins, Proceed, Asks
<1>9. CASE Resolved(c) \/ LookupFails(c) \/ Abandon(c)
  BY <1>9 DEF Resolved, LookupFails, Abandon, Asks, Reports
<1>10. QED
  BY <1>1, <1>2, <1>3, <1>4, <1>5, <1>6, <1>7, <1>8, <1>9 DEF CallSide, CallStep, Starts

\* What a call reports is what it was answered.
Backed(c, r) ==
    /\ pc[c] \in {"lookup", "answered"}
    /\ plan[c].kind \in Connecting \cup Resuming \cup {"disconnect"}
    /\ r.is = "stopped" /\ plan[c].kind # "disconnect" => Claims(c)
    /\ plan[c].kind \in Connecting /\ r.is \notin {"error", "closed"} =>
          Flushing(c) \/ (pc[c] = "answered" /\ answer[c].is \notin {"error", "closed"})

\* A step that leaves the session as it is.
Within(c) ==
    /\ UNCHANGED <<phase, told, slot>>
    /\ Busy(c)' => Busy(c)
    /\ pc'[c] = "done" => plan[c].kind \notin Connecting \cup Resuming \cup {"disconnect"}
    /\ plan[c].kind = "disconnect" => pc'[c] \in InFlight
    /\ plan[c].kind \in Resuming \cup {"set"} /\ pc[c] = "start" => phase = "stopped"
    /\ pc[c] = "start" => plan[c].kind \notin Connecting /\ phase \notin {"connecting", "idle"}
    /\ pc[c] = "start" => slot \/ phase # "ended"

\* How a call's step moves the session.
LEMMA SessionStep ==
    ASSUME NEW c \in Calls, CallSide(c), Shape, AskInv
    PROVE  \/ Within(c) \/ BeginConnecting(c) \/ BeginResume(c) \/ Abandon(c)
           \/ \E r : Reports(c, r) /\ Backed(c, r)
<1> USE DEF Shape, AskInv, session, calls, InFlight, Connecting, Resuming
<1>1. CASE Enqueue(c) \/ SendFails(c) \/ Resolved(c)
  BY <1>1 DEF Enqueue, SendFails, Resolved, Asks, Within, Busy, quiet
<1>2. CASE Ends(c)
  <2>1. CASE /\ plan[c].kind \in {"attach", "open_dump", "attach_kernel", "step", "disconnect",
                                  "cont"}
             /\ Reports(c, answer[c])
    BY <1>2, <2>1 DEF Ends, Backed, Claims
  <2>2. CASE plan[c].kind = "cont" /\ Asks(c, Command("break_in")) /\ UNCHANGED session
    BY <1>2, <2>2 DEF Ends, Asks, Within, Busy, quiet
  <2>3. CASE plan[c].kind = "inspect" /\ pc' = [pc EXCEPT ![c] = "done"] /\ UNCHANGED session
    BY <1>2, <2>3 DEF Ends, Within, Busy, quiet
  <2>4. QED
    BY <1>2, <2>1, <2>2, <2>3 DEF Ends
<1>3. CASE Flush(c)
  <2>1. CASE Reports(c, IF ask[c].verb = "set_breakpoint" THEN Reply("stopped", NoId)
                                                         ELSE answer[c])
    BY <1>3, <2>1 DEF Flush, Backed, Claims, Flushing
  <2>2. CASE pc' = [pc EXCEPT ![c] = "send"] /\ UNCHANGED session
    BY <1>3, <2>2 DEF Flush, Within, Busy, quiet
  <2>3. QED
    BY <1>3, <2>1, <2>2 DEF Flush, Asks
<1>4. CASE SetAnswered(c)
  BY <1>4 DEF SetAnswered, Proceed, Asks, Within, Busy
<1>5. CASE BeginInspect(c) \/ Pause(c) \/ BeginDisconnect(c)
  BY <1>5 DEF BeginInspect, Pause, BeginDisconnect, Begins, Asks, Within, Busy, quiet
<1>6. CASE BeginSet(c)
  BY <1>6 DEF BeginSet, Begins, Proceed, Asks, Within, Busy, quiet
<1>7. CASE LookupFails(c)
  BY <1>7 DEF LookupFails, Failed, Reply, Backed
<1>8. QED
  BY <1>1, <1>2, <1>3, <1>4, <1>5, <1>6, <1>7 DEF CallSide, CallStep, Starts

-----------------------------------------------------------------------------
(* Calls, channel and session *)

\* What the argument needs of the types stays.
LEMMA ShapeStep == Shape /\ [Next]_vars => Shape'
<1> SUFFICES ASSUME Shape, [Next]_vars PROVE Shape'
  OBVIOUS
<1> USE DEF Shape, vars, session, calls, channel, events, quiet, backendRest, InFlight
<1>0. Closed \in Replies /\ <<>> \in Seq(Calls)
  BY DEF Closed, Reply, Replies, Results
<1>1. CASE UNCHANGED vars
  BY <1>1
<1>2. CASE ThreadReady \/ ThreadFails \/ ThreadStops \/ EngineWaits
  BY <1>2 DEF ThreadReady, ThreadFails, ThreadStops, EngineWaits
<1>3. CASE ThreadPanics
  BY <1>0, <1>3 DEF ThreadPanics
<1>4. CASE GoReplies \/ KernelReplies
  BY <1>4 DEF GoReplies, KernelReplies, WaitReplies, Answered
<1>5. CASE \E c \in Calls : Dispatch(c)
  <2> PICK c \in Calls : Dispatch(c)
    BY <1>5
  <2>1. queue # <<>> /\ queue' = Tail(queue)
    BY DEF Dispatch, Serves
  <2>2. queue' \in Seq(Calls)
    BY <2>1, HeadTail
  <2>3. QED
    BY <2>2 DEF Dispatch, Answered
<1>6. CASE \E c \in Calls : DispatchWaiting(c)
  <2> PICK c \in Calls : DispatchWaiting(c)
    BY <1>6
  <2>1. queue # <<>> /\ queue' = Tail(queue)
    BY DEF DispatchWaiting, Serves
  <2>2. queue' \in Seq(Calls)
    BY <2>1, HeadTail
  <2>3. QED
    BY <2>2 DEF DispatchWaiting
<1>7. CASE Connected \/ ConnectFails \/ EngineOutput \/ StreamPoll
  BY <1>7 DEF Connected, ConnectFails, EngineOutput, StreamPoll
<1>8. ASSUME NEW c \in Calls, CallSide(c) PROVE Shape'
  <2>1. CASE Enqueue(c) \/ SendFails(c)
    BY <1>0, <2>1 DEF Enqueue, SendFails
  <2>2. CASE Ends(c)
    BY <2>2 DEF Ends, Asks, Reports
  <2>3. CASE Flush(c)
    BY <2>3 DEF Flush, Asks, Reports
  <2>4. CASE SetAnswered(c)
    BY <2>4 DEF SetAnswered, Proceed, Asks
  <2>5. CASE BeginConnecting(c)
    BY <2>5 DEF BeginConnecting, Begins, Asks
  <2>6. CASE BeginResume(c) \/ BeginInspect(c)
    BY <2>6 DEF BeginResume, BeginInspect, Begins, Asks
  <2>7. CASE Pause(c) \/ BeginDisconnect(c)
    BY <2>7 DEF Pause, BeginDisconnect, Begins, Asks
  <2>8. CASE BeginSet(c)
    BY <2>8 DEF BeginSet, Begins, Proceed, Asks
  <2>9. CASE Resolved(c) \/ LookupFails(c) \/ Abandon(c)
    BY <2>9 DEF Resolved, LookupFails, Abandon, Asks, Reports
  <2>10. QED
    BY <1>8, <2>1, <2>2, <2>3, <2>4, <2>5, <2>6, <2>7, <2>8, <2>9 DEF CallSide, CallStep, Starts
<1>9. QED
  BY <1>1, <1>2, <1>3, <1>4, <1>5, <1>6, <1>7, <1>8, Sides DEF EngineSide

\* The steps of nobody's call change none of the calls.
LEMMA OtherKeeps ==
    ASSUME UNCHANGED vars \/ Connected \/ ConnectFails \/ EngineOutput \/ StreamPoll
    PROVE  UNCHANGED <<core, thread, serving, queue, plan, pc, ask, answer>>
BY DEF Connected, ConnectFails, EngineOutput, StreamPoll, vars, core, engine, waiting, channel,
       calls

\* Each operation sends its own commands.
LEMMA AskStep == Shape /\ AskInv /\ [Next]_vars => AskInv'
<1> SUFFICES ASSUME Shape, AskInv, [Next]_vars PROVE AskInv'
  OBVIOUS
<1> USE DEF AskInv
<1>1. CASE EngineSide
  BY <1>1, EngineKeeps
<1>2. ASSUME NEW c \in Calls, CallSide(c) PROVE AskInv'
  <2> USE DEF Shape, Asks, Command, SetAt, RemoveId, calls, quiet, InFlight
  <2>1. CASE Enqueue(c) \/ SendFails(c)
    BY <2>1 DEF Enqueue, SendFails
  <2>2. CASE Ends(c)
    BY <2>2 DEF Ends, Reports
  <2>3. CASE Flush(c)
    BY <2>3 DEF Flush, Reports
  <2>4. CASE SetAnswered(c)
    BY <2>4 DEF SetAnswered, Proceed
  <2>5. CASE BeginConnecting(c)
    BY <2>5 DEF BeginConnecting, Begins
  <2>6. CASE BeginResume(c) \/ BeginInspect(c)
    BY <2>6 DEF BeginResume, BeginInspect, Begins
  <2>7. CASE Pause(c) \/ BeginDisconnect(c)
    BY <2>7 DEF Pause, BeginDisconnect, Begins
  <2>8. CASE BeginSet(c)
    <3>1. /\ pc' \in {[pc EXCEPT ![c] = "send"], [pc EXCEPT ![c] = "done"]}
          /\ \/ ask' = ask
             \/ \E p : ask' = [ask EXCEPT ![c] = SetAt(p)]
             \/ \E i : ask' = [ask EXCEPT ![c] = RemoveId(i)]
      BY <2>8 DEF BeginSet, Proceed
    <3>2. plan' = plan /\ plan[c].kind = "set"
      BY <2>8 DEF BeginSet, Begins
    <3>3. QED
      BY <3>1, <3>2
  <2>9. CASE Resolved(c) \/ LookupFails(c) \/ Abandon(c)
    BY <2>9 DEF Resolved, LookupFails, Abandon, Reports
  <2>10. QED
    BY <1>2, <2>1, <2>2, <2>3, <2>4, <2>5, <2>6, <2>7, <2>8, <2>9 DEF CallSide, CallStep, Starts
<1>3. QED
  BY <1>1, <1>2, Sides, OtherKeeps

\* The engine thread takes a command from the head of the channel while it is idle.
LEMMA Taken ==
    ASSUME NEW c \in Calls, Dispatch(c) \/ DispatchWaiting(c), Shape, QueueInv
    PROVE  /\ thread = "serving" /\ wait = "idle"
           /\ queue' = Tail(queue) /\ Len(queue) \in Nat /\ Len(queue') = Len(queue) - 1
           /\ pc[c] \in {"await", "gone"}
           /\ \A i \in 1 .. Len(queue') : queue'[i] = queue[i + 1] /\ queue'[i] # c
<1>1. queue # <<>> /\ c = Head(queue) /\ queue' = Tail(queue) /\ thread = "serving" /\ wait = "idle"
  BY DEF Dispatch, DispatchWaiting, Serves
<1>2. /\ Len(queue) \in Nat /\ Len(queue) > 0 /\ Len(Tail(queue)) = Len(queue) - 1
      /\ c = queue[1]
      /\ \A i \in 1 .. Len(queue) - 1 : Tail(queue)[i] = queue[i + 1]
  BY <1>1, HeadTail DEF Shape
<1>3. QED
  BY <1>1, <1>2 DEF QueueInv

\* A command in the channel is its call's only one.
LEMMA QueueStep == Shape /\ QueueInv /\ WaitInv /\ [Next]_vars => QueueInv'
<1> SUFFICES ASSUME Shape, QueueInv, WaitInv, [Next]_vars PROVE QueueInv'
  OBVIOUS
<1>0. \A i \in 1 .. Len(queue) : queue[i] \in Calls
  BY DEF Shape
<1>1. CASE ThreadReady \/ ThreadFails \/ ThreadStops \/ EngineWaits
  BY <1>1 DEF ThreadReady, ThreadFails, ThreadStops, EngineWaits, channel, calls, QueueInv
<1>2. CASE ThreadPanics
  BY <1>2 DEF ThreadPanics, QueueInv
<1>3. CASE GoReplies \/ KernelReplies
  <2>1. wait # "idle" /\ UNCHANGED queue
    BY <1>3 DEF GoReplies, KernelReplies, WaitReplies, waited, go_expires, kernel_waited
  <2>2. pc' = [pc EXCEPT ![serving] = IF @ = "await" THEN "answered" ELSE @]
    BY <1>3 DEF GoReplies, KernelReplies, WaitReplies, Answered
  <2>3. \A i \in 1 .. Len(queue) : pc'[queue[i]] = pc[queue[i]]
    BY <1>0, <2>1, <2>2 DEF WaitInv, Shape
  <2>4. QED
    BY <2>1, <2>3 DEF QueueInv
<1>4. ASSUME NEW c \in Calls, Dispatch(c) \/ DispatchWaiting(c) PROVE QueueInv'
  <2>1. \A d \in Calls \ {c} : pc'[d] = pc[d]
    BY <1>4 DEF Dispatch, DispatchWaiting, Answered, Shape
  <2>2. /\ Len(queue) \in Nat /\ Len(queue') = Len(queue) - 1
        /\ \A i \in 1 .. Len(queue') : queue'[i] = queue[i + 1] /\ queue'[i] # c
    BY <1>4, Taken
  <2>3. \A i \in 1 .. Len(queue') : i + 1 \in 1 .. Len(queue) /\ i \in Nat
    BY <2>2
  <2>4. \A i \in 1 .. Len(queue') : pc'[queue'[i]] \in {"await", "gone"}
    BY <1>0, <2>1, <2>2, <2>3 DEF QueueInv
  <2>5. \A i, j \in 1 .. Len(queue') : queue'[j] = queue'[i] => j = i
    BY <2>2, <2>3 DEF QueueInv
  <2>6. QED
    BY <2>4, <2>5 DEF QueueInv
<1>5. ASSUME NEW c \in Calls, CallSide(c) PROVE QueueInv'
  <2>1. CASE Enqueue(c)
    <3>1. pc[c] = "send" /\ queue' = Append(queue, c) /\ pc' = [pc EXCEPT ![c] = "await"]
      BY <2>1 DEF Enqueue
    <3>2. /\ Len(queue) \in Nat /\ Len(queue') = Len(queue) + 1 /\ queue'[Len(queue) + 1] = c
          /\ \A i \in 1 .. Len(queue) : queue'[i] = queue[i]
      BY <3>1 DEF Shape
    <3>3. \A i \in 1 .. Len(queue) : queue[i] # c
      BY <3>1 DEF QueueInv
    <3>4. pc'[c] = "await" /\ \A i \in 1 .. Len(queue) : pc'[queue[i]] = pc[queue[i]]
      BY <1>0, <3>1, <3>3 DEF Shape
    <3>5. QED
      BY <3>2, <3>3, <3>4 DEF QueueInv
  <2>2. CASE UNCHANGED queue
    <3>1. \A d \in Calls : pc[d] \in {"await", "gone"} => pc'[d] \in {"await", "gone"}
      BY <1>5, CallKeeps DEF InFlight
    <3>2. QED
      BY <1>0, <2>2, <3>1 DEF QueueInv
  <2>3. QED
    BY <1>5, <2>1, <2>2, CallKeeps
<1>6. QED
  BY <1>1, <1>2, <1>3, <1>4, <1>5, Sides, OtherKeeps DEF EngineSide, QueueInv

\* What one step answers leaves the engine idle; the status of a go or a break_in
\* that waits is not none.
LEMMA WaitStep ==
    Shape /\ AskInv /\ QueueInv /\ WaitInv /\ [Next]_vars => WaitInv'
<1> SUFFICES ASSUME Shape, AskInv, QueueInv, WaitInv, [Next]_vars PROVE WaitInv'
  OBVIOUS
<1>1. CASE ThreadReady \/ ThreadFails \/ ThreadStops
  BY <1>1 DEF ThreadReady, ThreadFails, ThreadStops, detach, engine, waiting, WaitInv
<1>2. CASE ThreadPanics \/ GoReplies \/ KernelReplies
  BY <1>2 DEF ThreadPanics, GoReplies, KernelReplies, waited, go_expires, kernel_waited, WaitInv
<1>3. CASE EngineWaits
  BY <1>3 DEF EngineWaits, go_polls, wait_times_out, wait_skips, Skipped, still, channel, calls,
              WaitInv
<1>4. ASSUME NEW c \in Calls, Dispatch(c) PROVE WaitInv'
  <2>1. wait' = wait
    BY <1>4 DEF Dispatch, launch, attach_pid, Begin, WaitInStep, open_dump,
                attach_kernel_refused, go_refused, break_in_refused, step, set_breakpoint,
                remove_breakpoint, inspect, detach, engine, waiting
  <2>2. QED
    BY <1>4, <2>1, Taken DEF WaitInv
<1>5. ASSUME NEW c \in Calls, DispatchWaiting(c) PROVE WaitInv'
  <2>1. UNCHANGED <<thread, pc, plan>> /\ serving' = c /\ thread = "serving"
    BY <1>5, Taken DEF DispatchWaiting, backendRest
  <2>2. CASE ask[c].verb = "attach_kernel" /\ attach_kernel
    BY <1>5, <2>1, <2>2, Taken DEF attach_kernel, AskInv, WaitInv
  <2>3. CASE ask[c].verb = "go" /\ go
    BY <1>5, <2>1, <2>3, Taken DEF go, AskInv, WaitInv
  <2>4. CASE ask[c].verb = "break_in" /\ break_in
    BY <1>5, <2>1, <2>4, Taken DEF break_in, still, AskInv, WaitInv
  <2>5. QED
    BY <1>5, <2>2, <2>3, <2>4 DEF DispatchWaiting, Serves
<1>6. ASSUME NEW c \in Calls, CallSide(c) PROVE WaitInv'
  <2>1. UNCHANGED <<core, thread, serving, plan>>
    BY <1>6, CallKeeps
  <2>2. \A d \in Calls : pc[d] \in {"await", "gone"} => pc'[d] \in {"await", "gone"}
    BY <1>6, CallKeeps DEF InFlight
  <2>3. CASE UNCHANGED queue
    BY <2>1, <2>2, <2>3 DEF core, WaitInv
  <2>4. CASE Enqueue(c)
    <3>1. pc[c] = "send" /\ queue' = Append(queue, c)
      BY <2>4 DEF Enqueue
    <3>2. /\ Len(queue) \in Nat /\ Len(queue') = Len(queue) + 1 /\ queue'[Len(queue) + 1] = c
          /\ \A i \in 1 .. Len(queue) : queue'[i] = queue[i]
      BY <3>1 DEF Shape
    <3>3. QED
      BY <2>1, <2>2, <3>1, <3>2 DEF core, WaitInv
  <2>5. QED
    BY <1>6, <2>3, <2>4, CallKeeps
<1>7. CASE UNCHANGED vars \/ Connected \/ ConnectFails \/ EngineOutput \/ StreamPoll
  BY <1>7, OtherKeeps DEF core, WaitInv
<1>8. QED
  BY <1>1, <1>2, <1>3, <1>4, <1>5, <1>6, <1>7, Sides DEF EngineSide

\* What has begun has begun, and what is done is done.
LEMMA Persists ==
    ASSUME Shape, [Next]_vars
    PROVE  /\ plan' = plan
           /\ \A c \in Calls : /\ Begun(c) => Begun(c)'
                               /\ pc[c] = "done" => pc'[c] = "done"
           /\ SomeConnected => SomeConnected'
<1>1. CASE EngineSide
  BY <1>1, EngineKeeps DEF Begun, SomeConnected
<1>2. CASE \E c \in Calls : CallSide(c)
  BY <1>2, CallKeeps DEF Begun, SomeConnected, InFlight
<1>3. QED
  BY <1>1, <1>2, Sides, OtherKeeps DEF Begun, SomeConnected

\* An engine step begins and ends no call.
LEMMA EngineBusy ==
    ASSUME Shape, EngineSide, NEW c \in Calls
    PROVE  /\ Begun(c)' <=> Begun(c)
           /\ Busy(c)' <=> Busy(c)
           /\ pc'[c] = "done" <=> pc[c] = "done"
           /\ pc'[c] = "gone" <=> pc[c] = "gone"
BY EngineKeeps DEF Begun, Busy, InFlight

\* One call connects, and the others come after it.
LEMMA ConnectStep == Shape /\ AskInv /\ ConnectInv /\ [Next]_vars => ConnectInv'
<1> SUFFICES ASSUME Shape, AskInv, ConnectInv, [Next]_vars PROVE ConnectInv'
  OBVIOUS
<1>0. plan' = plan /\ (SomeConnected => SomeConnected')
  BY Persists
<1>1. CASE EngineSide
  BY <1>0, <1>1, EngineKeeps, EngineBusy DEF ConnectInv
<1>2. CASE UNCHANGED vars \/ Connected \/ ConnectFails \/ EngineOutput \/ StreamPoll
  <2>1. phase' = phase \/ (phase = "connecting" /\ phase' \in {"idle", "ended"})
    BY <1>2 DEF Connected, ConnectFails, EngineOutput, StreamPoll, vars, session
  <2>2. pc' = pc
    BY <1>2, OtherKeeps
  <2>3. QED
    BY <1>0, <2>1, <2>2 DEF ConnectInv, Begun
<1>3. ASSUME NEW c \in Calls, CallSide(c) PROVE ConnectInv'
  <2>1. \A d \in Calls \ {c} : pc'[d] = pc[d]
    BY <1>3, CallKeeps
  <2>2. CASE Within(c)
    <3>1. \A d \in Calls : Begun(d)' =>
            \/ Begun(d)
            \/ /\ plan[d].kind \notin Connecting /\ phase \notin {"connecting", "idle"}
               /\ plan[d].kind \in Resuming \cup {"set"} => SomeConnected
      BY <2>1, <2>2 DEF Within, Begun, ConnectInv
    <3>2. phase \in {"connecting", "idle"} => ~ Begun(c)'
      BY <1>3, <2>2, CallKeeps DEF Within, Begun, ConnectInv
    <3>3. phase' = phase
      BY <2>2 DEF Within
    <3>4. QED
      BY <1>0, <2>1, <3>1, <3>2, <3>3 DEF ConnectInv, Begun
  <2>3. CASE BeginConnecting(c)
    <3>1. phase = "idle" /\ phase' = "configuring" /\ plan[c].kind \in Connecting
      BY <2>3 DEF BeginConnecting, Begins, Connecting
    <3>2. \A d \in Calls \ {c} : ~ Begun(d)'
      BY <2>1, <3>1 DEF ConnectInv, Begun
    <3>3. QED
      BY <1>0, <3>1, <3>2 DEF ConnectInv, Connecting, Resuming
  <2>4. CASE BeginResume(c)
    <3>1. phase = "stopped" /\ phase' = "running" /\ plan[c].kind \in Resuming
      BY <2>4 DEF BeginResume, Begins, Runs, Resuming
    <3>2. QED
      BY <1>0, <2>1, <3>1 DEF ConnectInv, Begun, Connecting, Resuming
  <2>5. CASE Abandon(c)
    <3>1. phase' \in {phase, "ended"} /\ Begun(c)
      BY <2>5 DEF Abandon, session, Begun, InFlight
    <3>2. QED
      BY <1>0, <2>1, <3>1 DEF ConnectInv, Begun
  <2>6. ASSUME NEW r, Reports(c, r), Backed(c, r) PROVE ConnectInv'
    <3>1. Begun(c) /\ pc'[c] = "done" /\ phase' \in {"ended", "stopped"}
      BY <2>6 DEF Backed, Reports, Begun, Shape
    <3>2. phase' = "stopped" => plan[c].kind \in Connecting \cup Resuming
      BY <2>6 DEF Backed, Reports
    <3>3. phase' = "stopped" => SomeConnected'
      BY <1>0, <3>1, <3>2 DEF ConnectInv, SomeConnected
    <3>4. QED
      BY <1>0, <2>1, <3>1, <3>3 DEF ConnectInv, Begun
  <2>7. QED
    BY <1>3, <2>2, <2>3, <2>4, <2>5, <2>6, SessionStep
<1>4. QED
  BY <1>1, <1>2, <1>3, Sides

\* One call at a time may move the target, and the session's state says so.
LEMMA BusyStep ==
    Shape /\ AskInv /\ ConnectInv /\ BusyInv /\ SlotInv /\ [Next]_vars => BusyInv'
<1> SUFFICES ASSUME Shape, AskInv, ConnectInv, BusyInv, SlotInv, [Next]_vars PROVE BusyInv'
  OBVIOUS
<1>0. plan' = plan
  BY Persists
<1>1. CASE EngineSide
  BY <1>0, <1>1, EngineKeeps, EngineBusy DEF BusyInv
<1>2. CASE UNCHANGED vars \/ Connected \/ ConnectFails \/ EngineOutput \/ StreamPoll
  <2>1. \/ phase' = phase /\ slot' = slot
        \/ phase = "connecting"
    BY <1>2 DEF Connected, ConnectFails, EngineOutput, StreamPoll, vars, session
  <2>2. pc' = pc
    BY <1>2, OtherKeeps
  <2>3. phase = "connecting" => \A c \in Calls : ~ Busy(c)
    BY DEF ConnectInv, Busy, Begun, InFlight
  <2>4. QED
    BY <1>0, <2>1, <2>2, <2>3 DEF BusyInv, Busy
<1>3. ASSUME NEW c \in Calls, CallSide(c) PROVE BusyInv'
  <2>1. \A d \in Calls \ {c} : Busy(d)' <=> Busy(d)
    BY <1>0, <1>3, CallKeeps DEF Busy
  <2>2. CASE Within(c)
    BY <1>0, <2>1, <2>2 DEF Within, BusyInv
  <2>3. CASE BeginConnecting(c) \/ BeginResume(c)
    <3>1. \/ phase = "idle" /\ phase' = "configuring" /\ plan[c].kind \in Connecting
          \/ phase = "stopped" /\ phase' = "running" /\ plan[c].kind \in Resuming
      BY <2>3 DEF BeginConnecting, BeginResume, Begins, Runs, Connecting, Resuming
    <3>2. \A d \in Calls : ~ Busy(d)
      BY <3>1 DEF BusyInv, SlotInv, ConnectInv, Busy, Begun, InFlight, Shape
    <3>3. QED
      BY <1>0, <2>1, <3>1, <3>2 DEF BusyInv, Connecting, Resuming
  <2>4. CASE Abandon(c)
    <3>1. Busy(c)' => Busy(c)
      BY <1>0, <2>4 DEF Abandon, Busy
    <3>2. slot' => phase' = phase /\ slot
      BY <2>4 DEF Abandon, session
    <3>3. QED
      BY <1>0, <2>1, <3>1, <3>2 DEF BusyInv
  <2>5. ASSUME NEW r, Reports(c, r), Backed(c, r) PROVE BusyInv'
    <3>1. ~ Busy(c)'
      BY <2>5 DEF Reports, Busy, InFlight, Shape
    <3>2. plan[c].kind = "disconnect" => ~ slot'
      BY <2>5 DEF Reports
    <3>3. plan[c].kind # "disconnect" => Busy(c)
      BY <2>5 DEF Backed, Busy, InFlight
    <3>4. QED
      BY <1>0, <2>1, <3>1, <3>2, <3>3 DEF BusyInv
  <2>6. QED
    BY <1>3, <2>2, <2>3, <2>4, <2>5, SessionStep
<1>4. QED
  BY <1>1, <1>2, <1>3, Sides

\* A disconnect that is over has taken the backend from its slot.
LEMMA SlotStep == Shape /\ AskInv /\ SlotInv /\ [Next]_vars => SlotInv'
<1> SUFFICES ASSUME Shape, AskInv, SlotInv, [Next]_vars PROVE SlotInv'
  OBVIOUS
<1>0. plan' = plan
  BY Persists
<1>1. CASE EngineSide
  BY <1>0, <1>1, EngineKeeps, EngineBusy DEF SlotInv
<1>2. CASE UNCHANGED vars \/ Connected \/ ConnectFails \/ EngineOutput \/ StreamPoll
  <2>1. \/ phase' = phase /\ slot' = slot
        \/ phase = "connecting" /\ phase' = "idle" /\ slot' = slot
        \/ ~ slot' /\ phase' = "ended"
    BY <1>2 DEF Connected, ConnectFails, EngineOutput, StreamPoll, vars, session
  <2>2. pc' = pc
    BY <1>2, OtherKeeps
  <2>3. QED
    BY <1>0, <2>1, <2>2 DEF SlotInv, Shape
<1>3. ASSUME NEW c \in Calls, CallSide(c) PROVE SlotInv'
  <2>1. \A d \in Calls \ {c} : pc'[d] = pc[d]
    BY <1>3, CallKeeps
  <2>2. CASE Within(c)
    BY <1>0, <2>1, <2>2 DEF Within, SlotInv, InFlight
  <2>3. CASE BeginConnecting(c) \/ BeginResume(c)
    BY <1>0, <2>1, <2>3 DEF BeginConnecting, BeginResume, Begins, Runs, SlotInv, Shape
  <2>4. CASE Abandon(c)
    BY <1>0, <2>1, <2>4 DEF Abandon, session, SlotInv
  <2>5. ASSUME NEW r, Reports(c, r), Backed(c, r) PROVE SlotInv'
    BY <1>0, <2>1, <2>5 DEF Reports, SlotInv, Shape
  <2>6. QED
    BY <1>3, <2>2, <2>3, <2>4, <2>5, SessionStep
<1>4. QED
  BY <1>1, <1>2, <1>3, Sides

\* The handlers get the backend when the thread is ready.
LEMMA StartStep == Shape /\ AskInv /\ StartInv /\ [Next]_vars => StartInv'
<1> SUFFICES ASSUME Shape, AskInv, StartInv, [Next]_vars, thread' = "starting"
             PROVE  StartInv'
  BY DEF StartInv
<1>1. CASE EngineSide
  <2>1. thread = "starting"
    BY <1>1 DEF EngineSide, ThreadReady, ThreadFails, ThreadStops, ThreadPanics, EngineWaits,
                GoReplies, KernelReplies, WaitReplies, Dispatch, DispatchWaiting, channel
  <2>2. QED
    BY <1>1, <2>1, EngineKeeps, EngineBusy DEF StartInv
<1>2. CASE UNCHANGED vars \/ Connected \/ ConnectFails \/ EngineOutput \/ StreamPoll
  <2>1. \/ phase' = phase /\ slot' = slot
        \/ ~ slot' /\ phase' = "ended"
    BY <1>2 DEF Connected, ConnectFails, EngineOutput, StreamPoll, vars, session, channel
  <2>2. pc' = pc /\ thread' = thread
    BY <1>2, OtherKeeps
  <2>3. QED
    BY <2>1, <2>2 DEF StartInv, Begun
<1>3. ASSUME NEW c \in Calls, CallSide(c) PROVE FALSE
  <2>1. thread = "starting" /\ pc[c] = "start"
    BY <1>3, CallKeeps DEF StartInv, Begun
  <2>2. ~ Within(c)
    BY <2>1 DEF Within, StartInv
  <2>3. ~ BeginConnecting(c) /\ ~ BeginResume(c) /\ ~ Abandon(c)
    BY <2>1 DEF BeginConnecting, BeginResume, Abandon, StartInv, InFlight
  <2>4. QED
    BY <1>3, <2>1, <2>2, <2>3, SessionStep DEF Backed
<1>4. QED
  BY <1>1, <1>2, <1>3, Sides

-----------------------------------------------------------------------------
(* The engine *)

\* A call in the channel that moves the target is the busy one.
LEMMA Mover ==
    ASSUME NEW c \in Calls, Shape, AskInv, ConnectInv, BusyInv, SlotInv,
           pc[c] \in {"await", "gone"}, plan[c].kind \in Connecting \cup Resuming
    PROVE  /\ Busy(c) /\ Begun(c)
           /\ \A d \in Calls : Busy(d) => d = c
           /\ phase # "stopped" /\ (plan[c].kind \in Connecting => phase # "running")
           /\ plan[c].kind \in Connecting =>
                 /\ ~ SomeConnected
                 /\ \A d \in Calls : plan[d].kind \in Connecting /\ Begun(d) => d = c
<1>1. Busy(c) /\ Begun(c)
  BY DEF Busy, Begun, InFlight
<1>2. \A d \in Calls : Busy(d) => d = c
  BY <1>1 DEF BusyInv
<1>3. phase # "stopped" /\ (plan[c].kind \in Connecting => phase # "running")
  BY <1>1 DEF BusyInv, SlotInv
<1>4. ASSUME plan[c].kind \in Connecting
      PROVE  \A d \in Calls : plan[d].kind \in Connecting /\ Begun(d) => d = c
  BY <1>1, <1>4 DEF ConnectInv
<1>5. ASSUME plan[c].kind \in Connecting PROVE ~ SomeConnected
  BY <1>4, <1>5 DEF SomeConnected, Begun
<1>6. QED
  BY <1>1, <1>2, <1>3, <1>4, <1>5

\* A dump is opened by open_dump alone, and ensure_runnable guards every resumption.
LEMMA DumpStep ==
    /\ Shape /\ AskInv /\ QueueInv /\ WaitInv /\ ConnectInv /\ BusyInv /\ SlotInv /\ DumpInv
    /\ [Next]_vars
    => DumpInv'
<1> SUFFICES ASSUME Shape, AskInv, QueueInv, WaitInv, ConnectInv, BusyInv, SlotInv, DumpInv,
                    [Next]_vars
             PROVE  DumpInv'
  OBVIOUS
<1> USE DEF DumpInv, DumpNeverRuns
<1>0. /\ plan' = plan
      /\ \A c \in Calls : Begun(c) => Begun(c)'
  BY Persists
<1>1. CASE UNCHANGED <<target, isDump, wait>>
  BY <1>0, <1>1
<1>2. CASE ~ isDump'
  BY <1>2
<1>3. CASE ThreadReady \/ ThreadFails \/ ThreadStops
  BY <1>1, <1>2, <1>3 DEF ThreadReady, ThreadFails, ThreadStops, detach, engine, waiting
<1>4. CASE ThreadPanics
  BY <1>0, <1>4 DEF ThreadPanics, still
<1>5. CASE EngineWaits \/ GoReplies \/ KernelReplies
  BY <1>2, <1>5 DEF EngineWaits, GoReplies, KernelReplies, go_polls, wait_times_out, wait_skips,
                    waited, go_expires, kernel_waited, still
<1>6. ASSUME NEW c \in Calls, Dispatch(c) PROVE DumpInv'
  <2>1. pc[c] \in {"await", "gone"} /\ wait = "idle"
    BY <1>6, Taken
  <2>2. CASE ask[c].verb \in {"launch", "attach_pid"}
    <3>1. ~ isDump
      BY <2>1, <2>2, Mover DEF AskInv, Connecting
    <3>2. isDump' = isDump
      BY <1>6, <2>2 DEF Dispatch, Serves, launch, attach_pid, Begin
    <3>3. QED
      BY <1>2, <3>1, <3>2
  <2>3. CASE ask[c].verb = "open_dump"
    <3>1. \E r : open_dump(r)
      BY <1>6, <2>3 DEF Dispatch, Serves
    <3>2. plan[c].kind = "open_dump" /\ Begun(c)
      BY <2>1, <2>3 DEF AskInv, Begun
    <3>3. QED
      BY <1>0, <2>1, <3>1, <3>2 DEF open_dump, waiting
  <2>4. CASE ask[c].verb = "step"
    BY <1>1, <1>2, <1>6, <2>4 DEF Dispatch, Serves, step, ensure_runnable, waiting
  <2>5. CASE ask[c].verb = "detach"
    BY <1>1, <1>2, <1>6, <2>5 DEF Dispatch, Serves, detach, engine, waiting
  <2>6. CASE ask[c].verb \notin {"launch", "attach_pid", "open_dump", "step", "detach"}
    BY <1>1, <1>6, <2>6 DEF Dispatch, Serves, attach_kernel_refused, go_refused,
         break_in_refused, set_breakpoint, remove_breakpoint, inspect, engine, waiting
  <2>7. QED
    BY <2>2, <2>3, <2>4, <2>5, <2>6
<1>7. ASSUME NEW c \in Calls, DispatchWaiting(c) PROVE DumpInv'
  BY <1>2, <1>7 DEF DispatchWaiting, go, break_in, attach_kernel, ensure_runnable, still
<1>8. CASE \E c \in Calls : CallSide(c)
  BY <1>1, <1>8, CallKeeps DEF core
<1>9. CASE UNCHANGED vars \/ Connected \/ ConnectFails \/ EngineOutput \/ StreamPoll
  BY <1>1, <1>9, OtherKeeps DEF core
<1>10. QED
  BY <1>3, <1>4, <1>5, <1>6, <1>7, <1>8, <1>9, Sides DEF EngineSide

\* A condition belongs to a breakpoint that DbgEng has.
LEMMA CondStep ==
    /\ Shape /\ AskInv /\ QueueInv /\ WaitInv /\ ConnectInv /\ BusyInv /\ SlotInv /\ CondInv
    /\ [Next]_vars
    => CondInv'
<1> SUFFICES ASSUME Shape, AskInv, QueueInv, WaitInv, ConnectInv, BusyInv, SlotInv, CondInv,
                    [Next]_vars
             PROVE  CondInv'
  OBVIOUS
<1> DEFINE Made == SomeConnected \/ \E c \in Calls : plan[c].kind = "launch" /\ Begun(c)
<1>0. Made => Made'
  BY Persists
<1>1. CASE UNCHANGED <<target, pool, conditions>>
  BY <1>0, <1>1 DEF CondInv, ConditionsOwned
<1>2. CASE conditions' = {}
  BY <1>2 DEF CondInv, ConditionsOwned
<1>3. CASE /\ conditions' \subseteq conditions
           /\ target' # "none" => conditions' \subseteq DOMAIN pool'
  BY <1>0, <1>3 DEF CondInv, ConditionsOwned
<1>4. CASE ThreadReady \/ ThreadFails \/ ThreadStops
  BY <1>1, <1>2, <1>4 DEF ThreadReady, ThreadFails, ThreadStops, detach, engine
<1>5. CASE ThreadPanics
  BY <1>1, <1>5 DEF ThreadPanics, still
<1>6. CASE EngineWaits
  <2>1. CASE go_polls \/ wait_times_out
    BY <1>1, <2>1 DEF go_polls, wait_times_out, still
  <2>2. CASE wait_skips
    BY <1>3, <2>2 DEF wait_skips, Skipped, WaitInv, CondInv, ConditionsOwned
  <2>3. QED
    BY <1>6, <2>1, <2>2 DEF EngineWaits
<1>7. CASE GoReplies
  <2> PICK r \in Replies : waited(r) \/ go_expires(r)
    BY <1>7 DEF GoReplies
  <2>1. CASE go_expires(r)
    BY <1>1, <2>1 DEF go_expires, still
  <2>2. CASE waited(r)
    BY <1>3, <2>2 DEF waited, Happens, WaitInv, CondInv, ConditionsOwned
  <2>3. QED
    BY <2>1, <2>2
<1>8. CASE KernelReplies
  BY <1>2, <1>8 DEF KernelReplies, kernel_waited, WaitInv
<1>9. ASSUME NEW c \in Calls, Dispatch(c) PROVE CondInv'
  <2>1. pc[c] \in {"await", "gone"} /\ Begun(c)
    BY <1>9, Taken DEF Begun
  <2>2. CASE ask[c].verb \in {"launch", "attach_pid", "attach_kernel"}
    BY <1>2, <1>9, <2>2 DEF Dispatch, Serves, launch, attach_pid, Begin, attach_kernel_refused
  <2>3. CASE ask[c].verb = "open_dump"
    <3>1. conditions = {}
      BY <2>1, <2>3, Mover DEF CondInv, AskInv, Connecting
    <3>2. QED
      BY <1>2, <1>9, <2>3, <3>1 DEF Dispatch, Serves, open_dump
  <2>4. CASE ask[c].verb = "step"
    <3> PICK r \in Replies : step(r)
      BY <1>9, <2>4 DEF Dispatch, Serves
    <3>1. CASE UNCHANGED <<target, pool>>
      BY <1>1, <3>1 DEF step
    <3>2. CASE target # "none" /\ WaitInStep({"step"}, r)
      BY <1>3, <3>2 DEF step, WaitInStep, Happens, CondInv, ConditionsOwned
    <3>3. QED
      BY <3>1, <3>2 DEF step
  <2>5. CASE ask[c].verb = "set_breakpoint"
    <3>1. Made
      BY <2>1, <2>5 DEF AskInv, ConnectInv
    <3>2. ASSUME NEW r, set_breakpoint(ask[c].place, ask[c].place.key \in Conditional, r)
          PROVE  target' # "none" => conditions' \subseteq DOMAIN pool'
      BY <3>2 DEF set_breakpoint, CondInv, ConditionsOwned
    <3>3. QED
      BY <1>0, <1>9, <2>5, <3>1, <3>2 DEF Dispatch, Serves, CondInv, ConditionsOwned
  <2>6. CASE ask[c].verb = "remove_breakpoint"
    <3> PICK r \in Replies : remove_breakpoint(ask[c].id, r)
      BY <1>9, <2>6 DEF Dispatch, Serves
    <3>1. QED
      BY <1>3 DEF remove_breakpoint, ForgetCondition, Restrict, CondInv, ConditionsOwned
  <2>7. CASE ask[c].verb = "detach"
    BY <1>1, <1>2, <1>9, <2>7 DEF Dispatch, Serves, detach, engine
  <2>8. CASE ask[c].verb \in {"go", "break_in", "inspect"}
    BY <1>1, <1>9, <2>8 DEF Dispatch, Serves, go_refused, break_in_refused, inspect, engine
  <2>9. QED
    BY <1>9, <2>2, <2>3, <2>4, <2>5, <2>6, <2>7, <2>8 DEF Dispatch, Serves
<1>10. ASSUME NEW c \in Calls, DispatchWaiting(c) PROVE CondInv'
  <2>1. CASE go \/ break_in
    BY <1>3, <2>1 DEF go, break_in, still, CondInv, ConditionsOwned
  <2>2. CASE attach_kernel
    BY <1>2, <2>2 DEF attach_kernel
  <2>3. QED
    BY <1>10, <2>1, <2>2 DEF DispatchWaiting
<1>11. CASE \E c \in Calls : CallSide(c)
  BY <1>1, <1>11, CallKeeps DEF core
<1>12. CASE UNCHANGED vars \/ Connected \/ ConnectFails \/ EngineOutput \/ StreamPoll
  BY <1>1, <1>12, OtherKeeps DEF core
<1>13. QED
  BY <1>4, <1>5, <1>6, <1>7, <1>8, <1>9, <1>10, <1>11, <1>12, Sides DEF EngineSide

\* No step of a call makes a claim or a good answer.
LEMMA NoNewClaim ==
    ASSUME NEW c \in Calls, CallSide(c), Shape, AskInv, NEW d \in Calls
    PROVE  (Claims(d)' => Claims(d)) /\ (Good(d)' => Good(d))
<1>0. plan' = plan
  BY CallKeeps
<1>1. CASE d # c
  BY <1>0, <1>1, CallKeeps DEF Claims, Good, Flushing
<1>2. CASE d = c
  <2> USE DEF Claims, Good, Flushing, Shape, Connecting, Resuming
  <2>1. CASE pc'[c] \notin {"send", "await", "answered"}
    BY <1>2, <2>1
  <2>2. CASE Enqueue(c)
    BY <1>0, <1>2, <2>2 DEF Enqueue
  <2>3. CASE SendFails(c)
    BY <1>0, <1>2, <2>3 DEF SendFails, Closed, Reply
  <2>4. CASE Flush(c)
    <3>1. pc'[c] = "send" => \/ ask[c].verb = "set_breakpoint"
                             \/ answer[c].is = "stopped"
      BY <2>4 DEF Flush, Reports
    <3>2. QED
      BY <1>0, <1>2, <2>1, <2>4, <3>1, CallKeeps DEF Flush, Asks, Reports
  <2>5. CASE Ends(c) \/ Resolved(c)
    BY <1>0, <1>2, <2>5 DEF Ends, Resolved, Reports, Asks, Command, AskInv
  <2>6. CASE SetAnswered(c) \/ BeginSet(c)
    <3>1. plan[c].kind = "set"
      BY <2>6 DEF SetAnswered, BeginSet, Begins
    <3>2. QED
      BY <1>0, <1>2, <3>1
  <2>7. CASE BeginConnecting(c)
    BY <1>0, <1>2, <2>7 DEF BeginConnecting, Begins, Asks, Command
  <2>8. CASE BeginResume(c) \/ BeginInspect(c) \/ BeginDisconnect(c)
    BY <1>0, <1>2, <2>8 DEF BeginResume, BeginInspect, BeginDisconnect, Begins, Asks, Command
  <2>9. CASE Pause(c) \/ LookupFails(c) \/ Abandon(c)
    BY <2>1, <2>9 DEF Pause, LookupFails, Abandon, Reports
  <2>10. QED
    BY <2>2, <2>3, <2>4, <2>5, <2>6, <2>7, <2>8, <2>9 DEF CallSide, CallStep, Starts
<1>3. QED
  BY <1>1, <1>2

\* A call answered by the engine thread is answered what the command returned.
LEMMA Replied ==
    ASSUME NEW c \in Calls, Shape, NEW r, Answered(c, r)
    PROVE  /\ \A d \in Calls \ {c} : pc'[d] = pc[d] /\ answer'[d] = answer[d]
           /\ pc[c] = "await" => pc'[c] = "answered" /\ answer'[c] = r
           /\ pc[c] # "await" => pc'[c] = pc[c] /\ answer'[c] = answer[c]
BY DEF Answered, Shape

\* INITIAL_BREAK is removed before a good answer, and no other call sets it again.
LEMMA BreakStep ==
    /\ Shape /\ AskInv /\ QueueInv /\ WaitInv /\ ConnectInv /\ BusyInv /\ SlotInv /\ BreakInv
    /\ [Next]_vars
    => BreakInv'
<1> SUFFICES ASSUME Shape, AskInv, QueueInv, WaitInv, ConnectInv, BusyInv, SlotInv, BreakInv,
                    [Next]_vars
             PROVE  BreakInv'
  OBVIOUS
<1>0. plan' = plan /\ \A c \in Calls : Begun(c) => Begun(c)'
  BY Persists
\* The call that sets or removes the option is the one that connects.
<1>1. ASSUME NEW c \in Calls, EngineSide, pc[c] \in {"await", "gone"},
             plan[c].kind \in Connecting \ {"open_dump"}, Good(c)' => ~ initialBreak'
      PROVE  BreakInv'
  <2>1. /\ Begun(c) /\ phase \notin {"stopped", "running"}
        /\ \A d \in Calls : plan[d].kind \in Connecting /\ Begun(d) => d = c
    BY <1>1, Mover
  <2>2. \A d \in Calls : Good(d)' => d = c
    BY <1>0, <1>1, <2>1, EngineBusy DEF Good, Flushing, Begun
  <2>3. phase' = phase
    BY <1>1, EngineKeeps
  <2>4. QED
    BY <1>0, <1>1, <2>1, <2>2, <2>3 DEF BreakInv
\* Without a change of the option, no new good answer comes while it is set.
<1>2. ASSUME EngineSide, UNCHANGED initialBreak,
             \A d \in Calls : Good(d)' => Good(d) \/ plan[d].kind = "open_dump"
      PROVE  BreakInv'
  <2>1. \A d \in Calls : Good(d)' => Begun(d)
    BY <1>2, EngineBusy DEF Good, Flushing, Begun
  <2>2. \A d \in Calls : Begun(d) /\ plan[d].kind = "open_dump" => ~ initialBreak
    BY DEF BreakInv, ConnectInv, Connecting
  <2>3. phase' = phase
    BY <1>2, EngineKeeps
  <2>4. QED
    BY <1>0, <1>2, <2>1, <2>2, <2>3 DEF BreakInv
<1>3. CASE ThreadReady \/ ThreadFails \/ ThreadStops \/ EngineWaits
  <2>1. UNCHANGED <<initialBreak, pc, answer, ask>>
    BY <1>3 DEF ThreadReady, ThreadFails, ThreadStops, EngineWaits, detach, go_polls,
                wait_times_out, wait_skips, still, engine, calls
  <2>2. EngineSide
    BY <1>3 DEF EngineSide
  <2>3. QED
    BY <1>0, <1>2, <2>1, <2>2 DEF Good, Flushing
<1>4. CASE ThreadPanics
  <2>1. UNCHANGED <<initialBreak, ask>> /\ EngineSide
    BY <1>4 DEF ThreadPanics, still, EngineSide
  <2>2. \A d \in Calls : Good(d)' => Good(d)
    BY <1>0, <1>4, <2>1 DEF ThreadPanics, Good, Flushing, Closed, Reply
  <2>3. QED
    BY <1>2, <2>1, <2>2
<1>5. CASE GoReplies
  <2> PICK r \in Replies : (waited(r) \/ go_expires(r)) /\ WaitReplies(r)
    BY <1>5 DEF GoReplies
  <2>1. UNCHANGED <<initialBreak, ask>> /\ EngineSide
    BY <1>5 DEF waited, go_expires, still, EngineSide, WaitReplies, backendRest
  <2>2. serving \in Calls /\ plan[serving].kind = "cont" /\ Answered(serving, r)
    BY DEF waited, go_expires, WaitInv, WaitReplies
  <2>3. \A d \in Calls : Good(d)' => Good(d)
    BY <1>0, <2>1, <2>2, Replied DEF Good, Flushing, Connecting
  <2>4. QED
    BY <1>2, <2>1, <2>3
<1>6. CASE KernelReplies
  <2> PICK r \in Replies : kernel_waited(r) /\ WaitReplies(r)
    BY <1>6 DEF KernelReplies
  <2>1. /\ serving \in Calls /\ plan[serving].kind = "attach_kernel"
        /\ pc[serving] \in {"await", "gone"} /\ Answered(serving, r) /\ EngineSide
    BY <1>6 DEF kernel_waited, WaitInv, WaitReplies, EngineSide
  <2> PICK c \in Calls : c = serving
    BY <2>1
  <2>2. r.is = "error" \/ ~ initialBreak'
    BY DEF kernel_waited, OptionRemoved, Failed, Reply
  <2>3. Good(c)' => answer'[c] = r /\ answer'[c].is # "error"
    BY <1>0, <2>1, Replied DEF Good, Flushing
  <2>4. QED
    BY <1>1, <2>1, <2>2, <2>3 DEF Connecting
<1>7. ASSUME NEW c \in Calls, Dispatch(c) PROVE BreakInv'
  <2>0. EngineSide /\ pc[c] \in {"await", "gone"} /\ UNCHANGED ask
    BY <1>7, Taken DEF EngineSide, Dispatch, backendRest
  <2> PICK r \in Replies : Dispatch(c)!(r)
    BY <1>7 DEF Dispatch
  <2>1. CASE ask[c].verb \in {"launch", "attach_pid", "attach_kernel"}
    <3>1. launch(r) \/ attach_pid(r) \/ attach_kernel_refused(r)
      BY <2>1 DEF Serves
    <3>2. r = Failed \/ initialBreak' = FALSE
      BY <3>1, Zenon DEF launch, attach_pid, Begin, OptionRemoved, attach_kernel_refused
    <3>3. r.is = "error" \/ ~ initialBreak'
      BY <3>2 DEF Failed, Reply
    <3>4. Good(c)' => answer'[c] = r /\ answer'[c].is # "error"
      BY <1>0, <2>0, <2>1, Replied DEF Good, Flushing
    <3>5. plan[c].kind \in Connecting \ {"open_dump"}
      BY <2>1 DEF AskInv, Connecting
    <3>6. QED
      BY <1>1, <2>0, <3>3, <3>4, <3>5
  <2>2. CASE ask[c].verb \notin {"launch", "attach_pid", "attach_kernel"}
    <3>1. UNCHANGED initialBreak
      BY <2>2 DEF Serves, open_dump, go_refused, break_in_refused, step, set_breakpoint,
                  remove_breakpoint, inspect, detach, engine
    <3>2. plan[c].kind \in Connecting => \/ plan[c].kind = "open_dump"
                                         \/ ask[c].verb = "set_breakpoint"
      BY <2>2 DEF Serves, AskInv, Connecting
    <3>3. \A d \in Calls : Good(d)' => Good(d) \/ plan[d].kind = "open_dump"
      BY <1>0, <2>0, <3>2, Replied DEF Good, Flushing, AskInv, Connecting
    <3>4. QED
      BY <1>2, <2>0, <3>1, <3>3
  <2>3. QED
    BY <2>1, <2>2
<1>8. ASSUME NEW c \in Calls, DispatchWaiting(c) PROVE BreakInv'
  <2>0. EngineSide /\ pc[c] \in {"await", "gone"} /\ UNCHANGED <<ask, pc, answer>>
    BY <1>8, Taken DEF EngineSide, DispatchWaiting, backendRest
  <2>1. CASE go \/ break_in
    BY <1>0, <1>2, <2>0, <2>1 DEF go, break_in, still, Good, Flushing
  <2>2. CASE ask[c].verb = "attach_kernel"
    BY <1>0, <1>1, <2>0, <2>2 DEF Good, Flushing, AskInv, Connecting
  <2>3. QED
    BY <1>8, <2>1, <2>2 DEF DispatchWaiting, Serves
<1>9. ASSUME NEW c \in Calls, CallSide(c) PROVE BreakInv'
  <2>1. initialBreak' = initialBreak
    BY <1>9, CallKeeps DEF core
  <2>2. \A d \in Calls : Good(d)' => Good(d)
    BY <1>9, NoNewClaim
  <2>3. phase' \in {"stopped", "running"} => ~ initialBreak
    <3>1. CASE Within(c) \/ BeginConnecting(c) \/ BeginResume(c) \/ Abandon(c)
      BY <3>1 DEF Within, BeginConnecting, BeginResume, Abandon, session, BreakInv
    <3>2. ASSUME NEW r, Reports(c, r), Backed(c, r), phase' = "stopped" PROVE ~ initialBreak
      <4>1. /\ slot /\ plan[c].kind # "disconnect"
            /\ plan[c].kind \in Connecting => r.is \notin {"error", "closed"}
        BY <3>2 DEF Reports
      <4>2. CASE plan[c].kind \in Connecting
        BY <3>2, <4>1, <4>2 DEF Backed, BreakInv, Good
      <4>3. CASE plan[c].kind \in Resuming
        BY <3>2, <4>1, <4>3
           DEF Backed, BreakInv, BusyInv, Busy, InFlight, Connecting, Resuming
      <4>4. QED
        BY <3>2, <4>1, <4>2, <4>3 DEF Backed
    <3>3. \A r : Reports(c, r) => phase' \in {"stopped", "ended"}
      BY DEF Reports
    <3>4. QED
      BY <1>9, <3>1, <3>2, <3>3, SessionStep
  <2>4. QED
    BY <1>0, <2>1, <2>2, <2>3 DEF BreakInv
<1>10. CASE UNCHANGED vars \/ Connected \/ ConnectFails \/ EngineOutput \/ StreamPoll
  <2>1. phase' \in {phase, "idle", "ended"}
    BY <1>10 DEF Connected, ConnectFails, EngineOutput, StreamPoll, vars, session
  <2>2. UNCHANGED <<initialBreak, pc, answer, ask>>
    BY <1>10, OtherKeeps DEF core
  <2>3. QED
    BY <1>0, <2>1, <2>2 DEF BreakInv, Good, Flushing
<1>11. QED
  BY <1>3, <1>4, <1>5, <1>6, <1>7, <1>8, <1>9, <1>10, Sides DEF EngineSide

\* As long as the backend is in its slot, no disconnect has begun that is over.
LEMMA Calm ==
    ASSUME Shape, SlotInv
    PROVE  Undisturbed <=>
             /\ slot /\ thread = "serving"
             /\ \A c \in Calls : plan[c].kind = "disconnect" => ~ Begun(c)
<1>1. ASSUME slot, NEW c \in Calls, plan[c].kind = "disconnect"
      PROVE  c \in Active({"disconnect"}) <=> Begun(c)
  BY <1>1 DEF Shape, SlotInv, Active, Begun, InFlight
<1>2. Active({"disconnect"}) = {} <=>
        \A c \in Calls : plan[c].kind = "disconnect" => c \notin Active({"disconnect"})
  BY DEF Active
<1>3. QED
  BY <1>1, <1>2 DEF Undisturbed

\* The stop that is reported is there, and stays.
LEMMA StopStep ==
    /\ Shape /\ AskInv /\ QueueInv /\ WaitInv /\ ConnectInv /\ BusyInv /\ SlotInv /\ StartInv
    /\ StopInv /\ SlotInv' /\ Shape' /\ [Next]_vars
    => StopInv'
<1> SUFFICES ASSUME Shape, AskInv, QueueInv, WaitInv, ConnectInv, BusyInv, SlotInv, StartInv,
                    StopInv, SlotInv', Shape', [Next]_vars
             PROVE  StopInv'
  OBVIOUS
<1>0. plan' = plan /\ \A c \in Calls : Begun(c) => Begun(c)'
  BY Persists
<1>1. /\ Undisturbed => slot /\ thread = "serving"
                          /\ \A c \in Calls : plan[c].kind = "disconnect" => ~ Begun(c)
      /\ slot /\ thread = "serving" /\ Active({"disconnect"}) = {} => Undisturbed
  BY Calm DEF Undisturbed
<1>2. Undisturbed' <=>
        slot' /\ thread' = "serving"
           /\ \A c \in Calls : plan[c].kind = "disconnect" => ~ Begun(c)'
  <2>1. \A c \in Calls : plan'[c].kind = plan[c].kind
    BY <1>0
  <2>2. ASSUME slot', NEW c \in Calls, plan'[c].kind = "disconnect"
        PROVE  pc'[c] \in InFlight <=> Begun(c)'
    BY <2>2 DEF Shape, SlotInv, Begun, InFlight
  <2>3. Active({"disconnect"})' =
          {c \in Calls : pc'[c] \in InFlight /\ plan'[c].kind = "disconnect"}
    BY DEF Active
  <2>4. QED
    BY <2>1, <2>2, <2>3 DEF Undisturbed
<1> DEFINE Goal == /\ \A c \in Calls : Claims(c)' => target' = "break"
                   /\ phase' = "stopped" /\ told'.is = "stopped" => target' = "break"
<1>3. SUFFICES ASSUME Undisturbed' PROVE Goal
  <2>1. phase' = "stopped" => slot'
    BY DEF SlotInv, Shape
  <2>2. QED
    BY <1>3, <2>1 DEF StopInv, ReportedStopHolds, Undisturbed
<1> HIDE DEF Goal
\* Nothing of it changes.
<1>4. ASSUME Undisturbed, target' = target, \A c \in Calls : Claims(c)' => Claims(c),
             UNCHANGED <<phase, told>>
      PROVE  Goal
  <2>1. phase = "stopped" /\ told.is = "stopped" => target = "break"
    BY <1>4 DEF StopInv, ReportedStopHolds, Undisturbed
  <2>2. \A c \in Calls : Claims(c) => target = "break"
    BY <1>4 DEF StopInv
  <2>3. QED
    BY <1>4, <2>1, <2>2 DEF Goal
\* The busy call moves the target.
<1>5. ASSUME NEW c \in Calls, EngineSide, pc[c] \in {"await", "gone"},
             plan[c].kind \in Connecting \cup Resuming, Claims(c)' => target' = "break"
      PROVE  Goal
  <2>1. \A d \in Calls : Claims(d)' => Busy(d)
    BY <1>0, <1>5, EngineBusy DEF Claims, Flushing, Busy, InFlight
  <2>2. phase' = phase /\ phase # "stopped" /\ \A d \in Calls : Busy(d) => d = c
    BY <1>5, EngineKeeps, Mover
  <2>3. QED
    BY <1>5, <2>1, <2>2 DEF Goal
<1>6. ASSUME EngineSide, ~ ThreadReady PROVE Undisturbed
  <2>1. thread = "serving"
    BY <1>3, <1>2, <1>6 DEF EngineSide, ThreadFails, ThreadStops, ThreadPanics, EngineWaits,
         GoReplies, KernelReplies, WaitReplies, Dispatch, DispatchWaiting, Serves, channel
  <2>2. slot /\ \A c \in Calls : plan[c].kind = "disconnect" => ~ Begun(c)
    BY <1>2, <1>3, <1>6, EngineKeeps, EngineBusy
  <2>3. QED
    BY <2>1, <2>2, Calm
<1>7. CASE ThreadReady
  <2>1. thread = "starting" /\ EngineSide
    BY <1>7 DEF ThreadReady, EngineSide
  <2>2. \A c \in Calls : ~ Begun(c)'
    BY <2>1, EngineBusy DEF StartInv
  <2>3. phase' # "stopped"
    BY <2>1, EngineKeeps DEF StartInv
  <2>4. QED
    BY <2>2, <2>3 DEF Goal, Claims, Flushing, Begun
<1>8. CASE ThreadFails \/ ThreadStops \/ ThreadPanics
  BY <1>2, <1>3, <1>8 DEF ThreadFails, ThreadStops, ThreadPanics
<1>9. CASE EngineWaits
  <2>1. EngineSide /\ ~ ThreadReady /\ UNCHANGED <<pc, answer, ask, phase, told>>
    BY <1>9 DEF EngineSide, ThreadReady, EngineWaits, calls, session
  <2>2. CASE go_polls \/ wait_times_out
    BY <1>0, <1>4, <1>6, <2>1, <2>2 DEF go_polls, wait_times_out, still, Claims, Flushing
  <2>3. CASE wait_skips
    <3>1. /\ serving \in Calls /\ plan[serving].kind = "cont"
          /\ pc[serving] \in {"await", "gone"}
      BY <2>3 DEF wait_skips, WaitInv
    <3> PICK c \in Calls : c = serving
      BY <3>1
    <3>2. ~ Claims(c)'
      BY <1>0, <2>1, <3>1 DEF Claims, Flushing
    <3>3. QED
      BY <1>5, <2>1, <3>1, <3>2 DEF Resuming
  <2>4. QED
    BY <1>9, <2>2, <2>3 DEF EngineWaits
<1>10. CASE GoReplies
  <2> PICK r \in Replies : (waited(r) \/ go_expires(r)) /\ WaitReplies(r)
    BY <1>10 DEF GoReplies
  <2>1. /\ serving \in Calls /\ plan[serving].kind = "cont"
        /\ pc[serving] \in {"await", "gone"} /\ Answered(serving, r) /\ EngineSide
    BY <1>10 DEF waited, go_expires, WaitInv, WaitReplies, EngineSide
  <2> PICK c \in Calls : c = serving
    BY <2>1
  <2>2. Claims(c)' => r.is = "stopped"
    BY <1>0, <2>1, Replied DEF Claims, Flushing
  <2>3. r.is = "stopped" => target' = "break"
    BY DEF waited, go_expires, Happens, StopOutcome, Reply, Failed
  <2>4. QED
    BY <1>5, <2>1, <2>2, <2>3 DEF Resuming
<1>11. CASE KernelReplies
  <2> PICK r \in Replies : kernel_waited(r) /\ WaitReplies(r)
    BY <1>11 DEF KernelReplies
  <2>1. /\ serving \in Calls /\ plan[serving].kind = "attach_kernel"
        /\ pc[serving] \in {"await", "gone"} /\ Answered(serving, r) /\ EngineSide
    BY <1>11 DEF kernel_waited, WaitInv, WaitReplies, EngineSide
  <2> PICK c \in Calls : c = serving
    BY <2>1
  <2>2. Claims(c)' => r.is = "stopped"
    BY <1>0, <2>1, Replied DEF Claims, Flushing
  <2>3. r.is = "stopped" => target' = "break"
    BY DEF kernel_waited, Reply, Failed
  <2>4. QED
    BY <1>5, <2>1, <2>2, <2>3 DEF Connecting
<1>12. ASSUME NEW c \in Calls, Dispatch(c) PROVE Goal
  <2>1. EngineSide /\ ~ ThreadReady /\ pc[c] \in {"await", "gone"} /\ Begun(c)
    BY <1>12, Taken DEF EngineSide, ThreadReady, Begun
  <2>2. UNCHANGED <<ask, phase, told>> /\ Undisturbed
    BY <1>6, <2>1, EngineKeeps
  <2> PICK r \in Replies : Dispatch(c)!(r)
    BY <1>12 DEF Dispatch
  <2>3. CASE ask[c].verb \in {"launch", "attach_pid", "open_dump", "step"}
    <3>1. Claims(c)' => r.is = "stopped"
      BY <1>0, <2>1, <2>2, <2>3, Replied DEF Claims, Flushing
    <3>2. launch(r) \/ attach_pid(r) \/ open_dump(r) \/ step(r)
      BY <2>3 DEF Serves
    <3>3. r = Failed \/ r.is = "ok" \/ \E x : WaitInStep(x, r)
      BY <3>2, Zenon DEF launch, attach_pid, Begin, open_dump, step
    <3>4. r.is = "stopped" => \E x : WaitInStep(x, r) /\ r # Failed
      BY <3>3 DEF Failed, Reply
    <3>5. ASSUME NEW x, WaitInStep(x, r), r.is = "stopped" PROVE target' = "break"
      BY <3>5 DEF WaitInStep, Happens, StopOutcome, Failed, Reply
    <3>6. QED
      BY <1>5, <2>1, <2>3, <3>1, <3>4, <3>5 DEF AskInv, Connecting, Resuming
  <2>4. CASE ask[c].verb = "detach"
    BY <1>1, <2>1, <2>2, <2>4 DEF AskInv
  <2>5. CASE ask[c].verb \notin {"launch", "attach_pid", "open_dump", "step", "detach"}
    <3>1. target' = target
      BY <2>5 DEF Serves, attach_kernel_refused, go_refused, break_in_refused, set_breakpoint,
                  remove_breakpoint, inspect, engine
    <3>2. r.is # "stopped"
      <4>1. r \in {Failed, Plain} \/ \E i : r = Reply("ok", i)
        BY <2>5 DEF Serves, attach_kernel_refused, go_refused, break_in_refused, set_breakpoint,
                    remove_breakpoint, inspect
      <4>2. QED
        BY <4>1 DEF Failed, Plain, Reply
    <3>3. \A d \in Calls : Claims(d)' => Claims(d)
      BY <1>0, <2>1, <2>2, <3>2, Replied DEF Claims, Flushing
    <3>4. QED
      BY <1>4, <2>2, <3>1, <3>3
  <2>6. QED
    BY <2>3, <2>4, <2>5
<1>13. ASSUME NEW c \in Calls, DispatchWaiting(c) PROVE Goal
  <2>1. EngineSide /\ pc[c] \in {"await", "gone"} /\ UNCHANGED <<ask, pc, answer>>
    BY <1>13, Taken DEF EngineSide, DispatchWaiting, backendRest
  <2>2. ask[c].verb \in {"go", "break_in", "attach_kernel"}
    BY <1>13 DEF DispatchWaiting, Serves
  <2>3. plan[c].kind \in Connecting \cup Resuming
    BY <2>2 DEF AskInv, Connecting, Resuming
  <2>4. ~ Claims(c)'
    BY <1>0, <2>1, <2>2 DEF Claims, Flushing
  <2>5. QED
    BY <1>5, <2>1, <2>3, <2>4
<1>14. ASSUME NEW c \in Calls, CallSide(c) PROVE Goal
  <2>1. target' = target /\ thread' = thread
    BY <1>14, CallKeeps DEF core
  <2>2. \A d \in Calls : Claims(d)' => Claims(d)
    BY <1>14, NoNewClaim
  <2>3. slot
    BY <1>2, <1>3, <1>14, SessionStep
       DEF Within, BeginConnecting, BeginResume, Abandon, session, Reports
  <2>4. Undisturbed
    BY <1>0, <1>2, <1>3, <2>1, <2>3, Calm
  <2>5. CASE Within(c)
    BY <1>4, <2>1, <2>2, <2>4, <2>5 DEF Within
  <2>6. \A d \in Calls : Claims(d) => target = "break"
    BY <2>4 DEF StopInv
  <2>7. CASE BeginConnecting(c) \/ BeginResume(c)
    BY <2>1, <2>2, <2>6, <2>7 DEF BeginConnecting, BeginResume, Runs, Goal
  <2>8. CASE Abandon(c)
    <3>1. UNCHANGED <<phase, told>> \/ phase' = "ended"
      BY <2>8 DEF Abandon, session
    <3>2. QED
      BY <1>4, <2>1, <2>2, <2>4, <2>6, <3>1 DEF Goal
  <2>9. ASSUME NEW r, Reports(c, r), Backed(c, r) PROVE Goal
    <3>1. phase' = "stopped" /\ told'.is = "stopped" => Claims(c)
      BY <2>9 DEF Reports, Backed
    <3>2. QED
      BY <2>1, <2>2, <2>6, <3>1 DEF Goal
  <2>10. QED
    BY <1>14, <2>5, <2>7, <2>8, <2>9, SessionStep
<1>15. CASE UNCHANGED vars \/ Connected \/ ConnectFails \/ EngineOutput \/ StreamPoll
  <2>1. UNCHANGED <<target, thread, pc, answer, ask>>
    BY <1>15, OtherKeeps DEF core
  <2>2. \/ UNCHANGED <<phase, told, slot>>
        \/ phase' = "idle" /\ slot' = slot
        \/ ~ slot'
    BY <1>15 DEF Connected, ConnectFails, EngineOutput, StreamPoll, vars, session
  <2>3. Undisturbed
    BY <1>0, <1>2, <1>3, <2>1, <2>2, Calm DEF Begun
  <2>4. \A d \in Calls : Claims(d)' => Claims(d)
    BY <1>0, <2>1 DEF Claims, Flushing
  <2>5. \A d \in Calls : Claims(d) => target = "break"
    BY <2>3 DEF StopInv
  <2>6. QED
    BY <1>2, <1>3, <1>4, <2>1, <2>2, <2>3, <2>4, <2>5 DEF Goal
<1>16. QED
  BY <1>7, <1>8, <1>9, <1>10, <1>11, <1>12, <1>13, <1>14, <1>15, Sides DEF EngineSide

-----------------------------------------------------------------------------
(* The theorems *)

\* No call is begun, the channel is empty and the engine is fresh (Engine::create).
LEMMA InvInit == Init => Inv
<1> SUFFICES ASSUME Init PROVE Inv
  OBVIOUS
<1> USE DEF Init, EngineInit
<1>1. plan \in [Calls -> Ops]
  BY BackendAssumption DEF BackendAssumption
<1>2. Shape
  BY <1>1 DEF Shape, InFlight, Plain, Reply, Replies, Results
<1>3. \A c \in Calls : ~ Begun(c) /\ ~ Busy(c) /\ ~ Claims(c) /\ ~ Good(c)
  BY DEF Begun, Busy, Claims, Good, Flushing, InFlight
<1>4. AskInv
  BY DEF AskInv, Command
<1>5. QueueInv /\ WaitInv /\ StartInv
  BY <1>3 DEF QueueInv, WaitInv, StartInv
<1>6. ConnectInv /\ BusyInv /\ SlotInv
  BY <1>3 DEF ConnectInv, BusyInv, SlotInv, Connecting, Resuming
<1>7. DumpInv /\ CondInv /\ BreakInv /\ StopInv
  BY <1>3 DEF DumpInv, DumpNeverRuns, CondInv, ConditionsOwned, BreakInv, StopInv,
              ReportedStopHolds
<1>8. QED
  BY <1>2, <1>4, <1>5, <1>6, <1>7 DEF Inv

\* Every step of the engine thread, a call, the stream or a handler keeps it.
LEMMA InvStep == Inv /\ [Next]_vars => Inv'
BY ShapeStep, AskStep, QueueStep, WaitStep, ConnectStep, BusyStep, SlotStep, StartStep, DumpStep,
   CondStep, BreakStep, StopStep DEF Inv

\* The invariant holds in every reachable state.
LEMMA InvAlways == Spec => []Inv
BY InvInit, InvStep, PTL DEF Spec

\* What the agent was told of a stop goes on being true: no command that a dropped
\* call left in the channel, no overlapping setter or inspection and no late answer
\* moves the target while the session says stopped.
THEOREM StopHolds == Spec => []ReportedStopHolds
<1>1. Inv => ReportedStopHolds
  BY DEF Inv, StopInv
<1>2. QED
  BY <1>1, InvAlways, PTL

\* The INITIAL_BREAK option of launch, attach_pid and attach_kernel is gone when a
\* stop has been reported.
THEOREM OptionGone == Spec => []InitialBreakGone
<1>1. Inv => InitialBreakGone
  BY DEF Inv, BreakInv, InitialBreakGone
<1>2. QED
  BY <1>1, InvAlways, PTL

\* breakpoint_conditions never names a number that DbgEng does not have.
THEOREM ConditionsLive == Spec => []ConditionsOwned
<1>1. Inv => ConditionsOwned
  BY DEF Inv, CondInv
<1>2. QED
  BY <1>1, InvAlways, PTL

\* ensure_runnable keeps continue, step and break_in from resuming a dump.
THEOREM DumpStays == Spec => []DumpNeverRuns
<1>1. Inv => DumpNeverRuns
  BY DEF Inv, DumpInv
<1>2. QED
  BY <1>1, InvAlways, PTL

=============================================================================
