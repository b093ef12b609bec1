------------------------- MODULE LldbBackend_proofs -------------------------
(***************************************************************************)
(* Proofs about LldbBackend, for any plan of calls with one connection:    *)
(* no stop is missed, a session that says it is stopped has a stopped      *)
(* debuggee, and no lldb-dap process is left behind without a reason.      *)
(***************************************************************************)
EXTENDS LldbBackend, TLAPS

-----------------------------------------------------------------------------
(* The inductive invariant *)

\* The operations that set the debuggee running and await its stop.
Movers == Connecting \cup {"cont"}
Moving(c) == InFlight(c) /\ Tool(c) \in Movers

Begun(c) == at[c] > 0
ConnBegun == \E c \in Calls : Tool(c) \in Connecting /\ Begun(c)

\* Where in a mover's script the debuggee is set running, the waiter registered
\* and the answer to launch or attach awaited.
GoStep(t) == IF t = "cont" THEN 2 ELSE IF t = "launch" THEN 6
             ELSE IF t = "launch_entry" THEN 7 ELSE 5
RegStep(t) == IF t = "cont" THEN 1 ELSE IF t = "launch_entry" THEN 6 ELSE 7
StartedStep(t) == IF t = "launch" THEN 7 ELSE IF t = "launch_entry" THEN 8 ELSE 6

\* The request that sets it running is not answered yet.
Pending(c) ==
    \/ at[c] < GoStep(Tool(c))
    \/ at[c] = GoStep(Tool(c)) /\ req[c] \in {"none", "sent"}

Awaited(c) == result[c] = "cancelled" \/ (InFlight(c) /\ StepOf(c) \in Requests)

\* What the argument needs of the types.
Shape ==
    /\ plan \in PlanChoices
    /\ at \in [Calls -> Nat]
    /\ result \in [Calls -> {"none", "done", "failed", "cancelled"}]
    /\ req \in [Calls -> {"none", "sent", "ok", "refused", "closed"}]
    /\ got \in [Calls -> {"none", "stopped", "exited", "terminated"}]
    /\ slot \in Calls \cup {None}

\* Nothing happens before the one connecting call.
BeginInv ==
    /\ \/ \E c \in Calls : Begun(c)
       \/ phase # "idle" \/ target # "none" \/ start # "none" \/ child # "none" \/ loop = "ended"
       => ConnBegun
    /\ \A c \in Calls : ~ Begun(c) => req[c] = "none" /\ got[c] = "none"

\* One call moves the debuggee at a time, and the session is not stopped meanwhile.
MoverInv ==
    /\ \A c, d \in Calls : Moving(c) /\ Moving(d) => c = d
    /\ \A c \in Calls : Moving(c) => phase # "stopped"

\* A mover's request is awaited, or it is one of a cancelled call; a closed one is of
\* a connection that is lost.
SentInv ==
    \A c \in Calls :
        /\ Tool(c) \in Movers /\ req[c] = "sent" => Awaited(c)
        /\ req[c] = "closed" => ~ Works

\* A call that left the debuggee in a state the session does not know.
LeftUnknown(c) ==
    /\ Begun(c)
    /\ \/ Tool(c) \in Connecting /\ result[c] \in {"failed", "cancelled"}
       \/ Tool(c) = "cont" /\ result[c] = "cancelled"

\* After it nothing is resumed any more.
EndInv ==
    \A c \in Calls : LeftUnknown(c) => phase # "stopped" /\ \A d \in Calls : ~ Moving(d)

\* launch and attach go on only after a good answer.
StartInv ==
    \A c \in Calls :
        Tool(c) \in Connecting
            /\ (result[c] = "done" \/ (InFlight(c) /\ at[c] > StartedStep(Tool(c))))
        => start = "ok" \/ ~ Begun(c)

\* The slot holds a registration.
SlotInv ==
    /\ slot \in Calls => Tool(slot) \in Movers \ {"launch"} /\ at[slot] > RegStep(Tool(slot))
    /\ \A c \in Calls : Moving(c) /\ Tool(c) # "launch" /\ at[c] > RegStep(Tool(c))
                          => got[c] # "none" \/ slot = c

\* Before it is set running the debuggee is not there, or stopped.
BeforeInv ==
    \A c \in Calls : Pending(c) =>
        /\ Tool(c) \in Connecting /\ Begun(c) => target = "none"
        /\ Moving(c) /\ Works => got[c] = "none" /\ (Tool(c) = "cont" => target = "stopped")

\* A stop that was delivered is there.
StopInv ==
    /\ \A c \in Calls : Moving(c) /\ got[c] = "stopped" /\ Works /\ start # "refused"
                          => target = "stopped"
    /\ phase = "stopped" /\ Works => target = "stopped"

\* A debuggee that was set running and stopped has told who waits.
AcceptInv ==
    \A c \in accepted :
        /\ c \in Calls /\ Begun(c)
        /\ Moving(c) /\ Tool(c) \in {"cont", "launch_entry"} =>
              /\ ~ Pending(c)
              /\ got[c] = "none" /\ start # "refused" => target \notin {"stopped", "exited"}

\* A disconnect that has come to its end has killed, or had nothing to kill.
Excused ==
    \/ \E c \in Calls : Tool(c) = "disconnect" /\ result[c] = "cancelled"
    \/ \E c \in Calls : Tool(c) \in Connecting /\ result[c] \in {"failed", "cancelled"}

KillInv ==
    /\ \A c \in Calls : Tool(c) = "disconnect" /\ InFlight(c) /\ at[c] > 2 =>
          child # "running" \/ ended
    /\ ended /\ child = "running" => Excused

Inv ==
    /\ Shape /\ BeginInv /\ MoverInv /\ SentInv /\ EndInv /\ StartInv /\ SlotInv
    /\ BeforeInv /\ StopInv /\ AcceptInv /\ KillInv

-----------------------------------------------------------------------------
(* The scripts *)

\* resume_and_wait
LEMMA ContScript ==
    ASSUME NEW c, at[c] \in Nat, Tool(c) = "cont"
    PROVE  /\ StepOf(c) = "register" <=> at[c] = 1
           /\ StepOf(c) = "resume" <=> at[c] = 2
           /\ StepOf(c) = "stop" <=> at[c] = 3
           /\ StepOf(c) \in {"register", "resume", "stop", "over"}
BY DEF StepOf, Script, resume_and_wait

\* run_launch without stop_on_entry
LEMMA LaunchScript ==
    ASSUME NEW c, at[c] \in Nat, Tool(c) = "launch"
    PROVE  /\ StepOf(c) = "start" <=> at[c] = 2
           /\ StepOf(c) = "configure" <=> at[c] = 6
           /\ StepOf(c) = "started" <=> at[c] = 7
           /\ StepOf(c) = "over" <=> at[c] \notin 1 .. 7
           /\ StepOf(c) \notin {"register", "resume", "stop", "kill"}
           /\ StepOf(c) \notin {"frame", "fetch", "stackTrace"}
BY DEF StepOf, Script, run_launch

\* run_launch with stop_on_entry
LEMMA EntryScript ==
    ASSUME NEW c, at[c] \in Nat, Tool(c) = "launch_entry"
    PROVE  /\ StepOf(c) = "start" <=> at[c] = 2
           /\ StepOf(c) = "register" <=> at[c] = 6
           /\ StepOf(c) = "configure" <=> at[c] = 7
           /\ StepOf(c) = "started" <=> at[c] = 8
           /\ StepOf(c) = "stop" <=> at[c] = 9
           /\ StepOf(c) = "over" <=> at[c] \notin 1 .. 9
           /\ StepOf(c) \notin {"resume", "kill", "frame", "fetch", "stackTrace"}
BY DEF StepOf, Script, run_launch_entry

\* run_attach
LEMMA AttachScript ==
    ASSUME NEW c, at[c] \in Nat, Tool(c) = "attach"
    PROVE  /\ StepOf(c) = "start" <=> at[c] = 2
           /\ StepOf(c) = "configure" <=> at[c] = 5
           /\ StepOf(c) = "started" <=> at[c] = 6
           /\ StepOf(c) = "register" <=> at[c] = 7
           /\ StepOf(c) = "stop" <=> at[c] = 8
           /\ StepOf(c) = "over" <=> at[c] \notin 1 .. 8
           /\ StepOf(c) \notin {"resume", "kill", "frame", "fetch", "stackTrace"}
BY DEF StepOf, Script, run_attach

\* disconnect
LEMMA DisconnectScript ==
    ASSUME NEW c, at[c] \in Nat, Tool(c) = "disconnect"
    PROVE  /\ StepOf(c) = "disconnect" <=> at[c] = 1
           /\ StepOf(c) = "kill" <=> at[c] = 2
           /\ StepOf(c) \in {"disconnect", "kill", "over"}
           /\ Len(Script[Tool(c)]) + 1 = 3
BY DEF StepOf, Script

\* pause, the inspections and read_output take none of the movers' steps.
LEMMA OtherScripts ==
    ASSUME NEW c, at[c] \in Nat, Tool(c) \in Tools \ (Movers \cup {"disconnect"})
    PROVE  StepOf(c) \notin {"start", "configure", "started", "register", "resume", "stop", "kill"}
BY DEF StepOf, Script, Tools, Movers, Connecting

-----------------------------------------------------------------------------
(* What a step does, as far as the argument sees *)

world == <<child, hung, loop, target, accepted>>

\* Something the argument does not see.
Unseen == UNCHANGED <<plan, at, result, req, got, phase, ended, slot, start, world>>

\* A call begins.
Starts(c) ==
    /\ at[c] = 0 /\ result[c] = "none"
    /\ \E n \in Nat \ {0} : /\ at' = [at EXCEPT ![c] = n]
                            /\ Tool(c) \in Movers => n = 1
                            /\ Tool(c) = "disconnect" => n = 1 \/ ended
    /\ Tool(c) \in Movers => Quiet
    /\ \/ /\ Tool(c) \in Connecting /\ phase = "idle" /\ ~ ended
          /\ phase' = "configuring" /\ child' = "running"
       \/ /\ Tool(c) = "cont" /\ phase = "stopped"
          /\ phase' = "running" /\ UNCHANGED child
       \/ Tool(c) \notin Movers /\ phase # "idle" /\ UNCHANGED <<phase, child>>
    /\ UNCHANGED <<plan, result, req, got, ended, slot, start, hung, loop, target, accepted>>

\* It sends a request, or forgets an answer.
Asks(c) ==
    /\ InFlight(c)
    /\ \/ /\ req[c] = "none" /\ StepOf(c) \in Requests
          /\ req' = [req EXCEPT ![c] = IF child = "running" THEN "sent" ELSE "closed"]
       \/ Tool(c) \notin Movers /\ req' = [req EXCEPT ![c] = "none"]
    /\ UNCHANGED <<plan, at, result, got, phase, ended, slot, start, world>>

\* It goes on to the next step of its script.
Advances(c) ==
    /\ InFlight(c)
    /\ at' = [at EXCEPT ![c] = @ + 1]
    /\ req' \in {req, [req EXCEPT ![c] = "none"]}
    /\ StepOf(c) \in {"configure", "resume"} => req[c] \notin {"none", "sent"}
    /\ Tool(c) \in Movers /\ StepOf(c) \in Requests => req[c] # "sent"
    /\ StepOf(c) = "started" => start = "ok"
    /\ StepOf(c) \notin {"start", "register", "kill", "over"}
    /\ UNCHANGED <<plan, result, got, phase, ended, slot, start, world>>

\* It is over.
Ends(c, how) ==
    /\ result[c] = "none" /\ result' = [result EXCEPT ![c] = how]
    /\ how \in {"done", "failed", "cancelled"}
    /\ Moving(c) /\ how = "done" => StepOf(c) = "over"
    /\ how = "cancelled" => Begun(c)
    /\ phase' = "stopped" =>
          \/ phase = "stopped"
          \/ Moving(c) /\ how = "done" /\ got[c] = "stopped"
          \/ Moving(c) /\ Tool(c) = "cont" /\ how = "failed" /\ req[c] = "closed"
    /\ phase' \notin {phase, "idle"} => Begun(c)
    /\ Tool(c) \in Connecting /\ Begun(c) /\ how # "done" => phase' = "idle"
    /\ \/ ended' = ended
       \/ /\ ended'
          /\ \/ Tool(c) \in Connecting /\ how # "done"
             \/ Tool(c) = "disconnect" /\ how = "cancelled"
             \/ Tool(c) = "disconnect" /\ InFlight(c) /\ StepOf(c) = "over"
    /\ Tool(c) \in Movers /\ req[c] = "sent" => how = "cancelled"
    /\ UNCHANGED <<plan, at, req, got, slot, start, world>>

\* The adapter answers a request.
Answers(c) ==
    /\ Works /\ req[c] = "sent"
    /\ \/ /\ req' \in {[req EXCEPT ![c] = "ok"], [req EXCEPT ![c] = "refused"]}
          /\ UNCHANGED <<target, accepted>>
       \/ /\ req' = [req EXCEPT ![c] = "ok"]
          /\ \/ /\ StepOf(c) = "configure"
                /\ target' = IF start = "refused" THEN target ELSE "running"
             \/ StepOf(c) = "resume" /\ target = "stopped" /\ target' = "running"
          /\ accepted' = accepted \cup {c}
    /\ UNCHANGED <<plan, at, result, got, phase, ended, slot, start, child, hung, loop>>

\* launch or attach is sent (SendStart, where it does not fail).
StartSent(c) ==
    /\ InFlight(c) /\ StepOf(c) = "start"
    /\ at' = [at EXCEPT ![c] = @ + 1] /\ start' = "sent"
    /\ UNCHANGED <<plan, result, req, got, phase, ended, slot, world>>

\* Tools are what the plan says.
LEMMA Planned ==
    ASSUME Shape, NEW c \in Calls
    PROVE  Tool(c) \in Tools /\ at[c] \in Nat
BY LldbAssumption DEF LldbAssumption, Shape, Ops, Tool

\* There is one connecting call.
LEMMA Lone ==
    ASSUME Shape, NEW c \in Calls, NEW d \in Calls, Tool(c) \in Connecting, Tool(d) \in Connecting
    PROVE  c = d
BY LldbAssumption DEF LldbAssumption, Shape, Tool

\* The steps of the movers are not those of the inspections.
LEMMA MoverSteps ==
    ASSUME NEW c, at[c] \in Nat, Tool(c) \in Tools
    PROVE  /\ Tool(c) \in Movers => StepOf(c) \notin {"frame", "fetch", "stackTrace", "kill"}
           /\ Tool(c) \in Connecting => StepOf(c) # "resume"
           /\ StepOf(c) \in {"start", "started"} => Tool(c) \in Connecting
           /\ StepOf(c) = "configure" => Tool(c) \in Connecting
           /\ StepOf(c) = "resume" => Tool(c) = "cont"
           /\ StepOf(c) \in {"register", "stop"} => Tool(c) \in Movers
           /\ StepOf(c) = "kill" => Tool(c) = "disconnect"
           /\ StepOf(c) \in {"frame", "fetch"} => Tool(c) # "disconnect"
<1>1. CASE Tool(c) = "cont"
  BY <1>1, ContScript DEF Movers, Connecting
<1>2. CASE Tool(c) = "launch"
  BY <1>2, LaunchScript DEF Movers, Connecting
<1>3. CASE Tool(c) = "launch_entry"
  BY <1>3, EntryScript DEF Movers, Connecting
<1>4. CASE Tool(c) = "attach"
  BY <1>4, AttachScript DEF Movers, Connecting
<1>5. CASE Tool(c) = "disconnect"
  BY <1>5, DisconnectScript DEF Movers, Connecting
<1>6. CASE Tool(c) \in Tools \ (Movers \cup {"disconnect"})
  BY <1>6, OtherScripts DEF Movers, Connecting
<1>7. QED
  BY <1>1, <1>2, <1>3, <1>4, <1>5, <1>6 DEF Movers, Connecting

\* The forms of a call's own steps.
LEMMA RunForms ==
    ASSUME Shape, NEW c \in Calls, Run(c),
           Tool(c) \in Movers /\ req[c] = "sent" => Awaited(c)
    PROVE  \/ Unseen \/ Asks(c) \/ Advances(c) \/ StartSent(c) \/ Register(c) \/ Kill(c)
           \/ \E how : Ends(c, how)
<1> USE DEF session, client, adapter, output, world
<1>0. Tool(c) \in Tools /\ at[c] \in Nat
  BY Planned
<1>1. CASE Send(c)
  <2>1. InFlight(c) /\ StepOf(c) \in Requests
    BY <1>1 DEF Send, Wants, At, Requests, Checked
  <2>2. QED
    BY <1>1, <2>1 DEF Send, Asks
<1>2. CASE RequestFails(c)
  <2>1. /\ InFlight(c) /\ At(c) = StepOf(c) /\ StepOf(c) \in Requests /\ StepOf(c) # "disconnect"
    BY <1>2 DEF RequestFails, Errs, At, Requests, Checked
  <2>2. Tool(c) = "cont" => req[c] = "closed"
    BY <1>0, <1>2, <2>1, ContScript DEF RequestFails, Errs, Requests, Checked
  <2>3. Tool(c) # "disconnect"
    BY <1>0, <2>1, DisconnectScript DEF Requests, Checked
  <2>4. Ends(c, "failed")
    BY <1>0, <1>2, <2>1, <2>2, <2>3
       DEF RequestFails, Fail, Finish, Reset, Ends, Errs, InFlight, Begun, Moving, Movers
  <2>5. QED
    BY <2>4
<1>3. CASE Replied(c)
  <2>1. InFlight(c) /\ At(c) = StepOf(c) /\ StepOf(c) \in Requests /\ req[c] \notin {"none", "sent"}
    BY <1>3 DEF Replied, Has, At, Requests, Checked
  <2>2. QED
    BY <1>3, <2>1 DEF Replied, NextRequest, Advance, Advances, Requests, Checked
<1>4. CASE Backtraced(c)
  <2>1. InFlight(c) /\ StepOf(c) = "stackTrace" /\ req[c] # "sent"
    BY <1>4 DEF Backtraced, Has, At
  <2>2. QED
    BY <1>4, <2>1 DEF Backtraced, NextRequest, Advance, Advances
<1>5. CASE FrameHit(c)
  <2>1. InFlight(c) /\ StepOf(c) = "frame"
    BY <1>5 DEF FrameHit, At
  <2>2. QED
    BY <1>5, <2>1 DEF FrameHit, Advance, Advances
<1>6. CASE FrameMiss(c)
  <2>1. InFlight(c) /\ StepOf(c) = "frame" /\ req[c] # "sent"
    BY <1>6 DEF FrameMiss, Has, At
  <2>2. Tool(c) \notin Movers \cup {"disconnect"}
    BY <1>0, <2>1, MoverSteps
  <2>3. CASE NextRequest(c) /\ UNCHANGED result
    BY <1>6, <2>1, <2>3 DEF FrameMiss, NextRequest, Advance, Advances
  <2>4. CASE Finish(c, "failed") /\ UNCHANGED <<at, req>>
    <3>1. Ends(c, "failed")
      BY <1>6, <2>1, <2>2, <2>4 DEF FrameMiss, Finish, Ends, InFlight, Begun, Moving, Movers
    <3>2. QED
      BY <3>1
  <2>5. QED
    BY <1>6, <2>3, <2>4 DEF FrameMiss
<1>7. CASE VariablesFetched(c)
  <2>1. InFlight(c) /\ StepOf(c) = "fetch"
    BY <1>7 DEF VariablesFetched, At
  <2>2. Tool(c) \notin Movers
    BY <1>0, <2>1, MoverSteps
  <2>3. QED
    BY <1>7, <2>1, <2>2 DEF VariablesFetched, Asks
<1>8. CASE VariablesVisit(c)
  <2>1. InFlight(c) /\ StepOf(c) = "fetch"
    BY <1>8 DEF VariablesVisit, At
  <2>2. CASE UNCHANGED at
    BY <1>8, <2>2 DEF VariablesVisit, Unseen
  <2>3. CASE Advance(c)
    BY <1>0, <1>8, <2>1, <2>3, MoverSteps DEF VariablesVisit, Advance, Advances
  <2>4. QED
    BY <1>8, <2>2, <2>3 DEF VariablesVisit
<1>9. CASE SendStart(c)
  <2>1. InFlight(c) /\ StepOf(c) = "start"
    BY <1>9 DEF SendStart, At
  <2>2. CASE child = "running"
    BY <1>9, <2>1, <2>2 DEF SendStart, Advance, StartSent
  <2>3. CASE child # "running"
    <3>1. /\ Tool(c) \in Connecting /\ Tool(c) # "cont"
          /\ req[c] # "sent"
      BY <1>0, <2>1, MoverSteps DEF Connecting, Movers, Awaited, InFlight, Requests, Checked
    <3>2. Ends(c, "failed")
      BY <1>9, <2>1, <2>3, <3>1 DEF SendStart, Fail, Finish, Reset, Ends, InFlight, Begun, Moving
    <3>3. QED
      BY <3>2
  <2>4. QED
    BY <2>2, <2>3
<1>10. CASE WaitInitialized(c)
  <2>1. InFlight(c) /\ StepOf(c) = "initialized"
    BY <1>10 DEF WaitInitialized, At
  <2>2. QED
    BY <1>10, <2>1 DEF WaitInitialized, Advance, Advances, Requests, Checked
<1>11. CASE Started(c)
  <2>1. InFlight(c) /\ StepOf(c) = "started"
    BY <1>11 DEF Started, At
  <2>2. CASE start = "ok"
    BY <1>11, <2>1, <2>2 DEF Started, Advance, Advances, Requests, Checked
  <2>3. CASE start # "ok"
    <3>1. /\ Tool(c) \in Connecting /\ Tool(c) # "cont"
          /\ req[c] # "sent"
      BY <1>0, <2>1, MoverSteps DEF Connecting, Movers, Awaited, InFlight, Requests, Checked
    <3>2. Ends(c, "failed")
      BY <1>11, <2>1, <2>3, <3>1 DEF Started, Fail, Finish, Reset, Ends, InFlight, Begun, Moving
    <3>3. QED
      BY <3>2
  <2>4. QED
    BY <2>2, <2>3
<1>12. CASE Stop(c)
  <2>1. InFlight(c) /\ StepOf(c) = "stop"
    BY <1>12 DEF Stop, At
  <2>2. QED
    BY <1>12, <2>1 DEF Stop, Advance, Advances, Requests, Checked
<1>13. CASE Return(c)
  <2>1. InFlight(c) /\ StepOf(c) = "over"
    BY <1>13 DEF Return, At
  <2>2. Tool(c) \in Movers => req[c] # "sent"
    BY <2>1 DEF Awaited, InFlight, Requests, Checked
  <2>3. Ends(c, "done")
    BY <1>13, <2>1, <2>2
       DEF Return, Finish, Reset, Ends, InFlight, Begun, Moving, Movers, Connecting
  <2>4. QED
    BY <2>3
<1>14. QED
  BY <1>1, <1>2, <1>3, <1>4, <1>5, <1>6, <1>7, <1>8, <1>9, <1>10, <1>11, <1>12, <1>13 DEF Run

\* The forms of a call's beginning.
LEMMA MakeForms ==
    ASSUME Shape, NEW c \in Calls, Make(c),
           Tool(c) \in Movers /\ req[c] = "sent" => Awaited(c)
    PROVE  Starts(c) \/ \E how : Ends(c, how)
<1> USE DEF session, client, adapter, output, world
<1>0. Tool(c) \in Tools /\ at[c] \in Nat
  BY Planned
<1>1. Due(c) /\ at[c] = 0 /\ result[c] = "none" /\ ~ InFlight(c)
  BY DEF Make, Rejected, Connect, ConnectFails, Begin, ReadOutput, Due, InFlight
<1>2. Tool(c) \in Movers => req[c] # "sent"
  BY <1>1 DEF Awaited
<1>3. CASE Rejected(c)
  <2>1. Ends(c, "failed")
    BY <1>1, <1>2, <1>3 DEF Rejected, Finish, Ends, Moving, Begun
  <2>2. QED
    BY <2>1
<1>4. CASE ConnectFails(c)
  <2>1. Ends(c, "failed")
    BY <1>1, <1>2, <1>4 DEF ConnectFails, Finish, Reset, Ends, Moving, Begun
  <2>2. QED
    BY <2>1
<1>5. CASE ReadOutput(c)
  <2>1. Ends(c, "done")
    BY <1>1, <1>2, <1>5 DEF ReadOutput, Finish, Ends, Moving, Begun
  <2>2. QED
    BY <2>1
<1>6. CASE Connect(c)
  <2>1. phase = "idle" /\ ~ ended /\ Quiet /\ Tool(c) \in Connecting
    BY <1>6, <1>1 DEF Connect, Ready, Admits, Due, Connecting
  <2>2. \E n \in Nat \ {0} : /\ at' = [at EXCEPT ![c] = n]
                             /\ Tool(c) \in Movers => n = 1
                             /\ Tool(c) = "disconnect" => n = 1 \/ ended
    <3>1. at' = [at EXCEPT ![c] = 1] /\ 1 \in Nat \ {0}
      BY <1>6 DEF Connect, Enter
    <3>2. QED
      BY <3>1
  <2>3. Starts(c)
    BY <1>1, <1>6, <2>1, <2>2 DEF Connect, Starts, Movers
  <2>4. QED
    BY <2>3
<1>7. CASE Begin(c)
  <2>1. /\ Tool(c) \notin Connecting \cup {"read_output"}
        /\ phase \in Admits(Tool(c)) /\ (ended => Tool(c) \in {"disconnect", "read_output"})
    BY <1>7 DEF Begin, Ready
  <2>2. phase # "idle" /\ (Tool(c) = "cont" => phase = "stopped" /\ ~ ended /\ Quiet)
    BY <2>1, <1>1 DEF Admits, Connecting, Due
  <2>3. at' = [at EXCEPT ![c] = IF ended THEN Len(Script[Tool(c)]) + 1 ELSE 1]
    BY <1>7 DEF Begin
  <2>4. ended => Tool(c) = "disconnect" /\ at' = [at EXCEPT ![c] = 3]
    <3>1. Tool(c) = "disconnect" => Len(Script[Tool(c)]) + 1 = 3
      BY <1>0, DisconnectScript
    <3>2. ASSUME ended
          PROVE  Tool(c) = "disconnect" /\ Len(Script[Tool(c)]) + 1 = 3
      BY <2>1, <3>1, <3>2
    <3>3. QED
      BY <2>3, <3>2
  <2>5. ~ ended => at' = [at EXCEPT ![c] = 1]
    BY <2>3
  <2>6. \E n \in Nat \ {0} : /\ at' = [at EXCEPT ![c] = n]
                             /\ Tool(c) \in Movers => n = 1
                             /\ Tool(c) = "disconnect" => n = 1 \/ ended
    BY <2>4, <2>5 DEF Movers, Connecting
  <2>7. /\ UNCHANGED <<plan, result, req, got, ended, slot, start, child, hung, loop, target,
                       accepted>>
        /\ phase' = IF Tool(c) = "cont" THEN "running" ELSE phase
    BY <1>7 DEF Begin
  <2>8. Starts(c)
    BY <1>1, <2>1, <2>2, <2>6, <2>7 DEF Starts, Movers
  <2>9. QED
    BY <2>8
<1>8. QED
  BY <1>3, <1>4, <1>5, <1>6, <1>7 DEF Make

\* A call that is dropped ends.
LEMMA DroppedForm ==
    ASSUME Shape, NEW c \in Calls, Dropped(c)
    PROVE  Ends(c, "cancelled")
<1>1. InFlight(c) /\ result[c] = "none" /\ Begun(c)
  BY DEF Dropped, InFlight, Begun
<1>2. CASE Tool(c) = "cont"
  BY <1>1, <1>2 DEF Dropped, Abandons, Finish, Ends, Connecting, session, client, adapter, world
<1>3. CASE Tool(c) # "cont"
  BY <1>1, <1>3 DEF Dropped, Abandons, Reset, Finish, Ends, session, client, adapter, world
<1>4. QED
  BY <1>2, <1>3

\* An answer, as far as the argument sees.
LEMMA AnswerForm ==
    ASSUME Shape, NEW c \in Calls, Answer(c)
    PROVE  Answers(c)
<1> USE DEF session, client
<1>1. CASE /\ req' = [req EXCEPT ![c] = "refused"] /\ UNCHANGED <<target, pausing, accepted>>
  BY <1>1 DEF Answer, Answers
<1>2. CASE Possible(c) /\ Effect(c) /\ req' = [req EXCEPT ![c] = "ok"]
  <2>1. CASE StepOf(c) = "configure"
    BY <1>2, <2>1 DEF Answer, Answers, Effect
  <2>2. CASE StepOf(c) = "resume"
    BY <1>2, <2>2 DEF Answer, Answers, Effect, Possible
  <2>3. CASE StepOf(c) \notin {"configure", "resume"}
    BY <1>2, <2>3 DEF Answer, Answers, Effect
  <2>4. QED
    BY <2>1, <2>2, <2>3
<1>3. QED
  BY <1>1, <1>2 DEF Answer

\* What a call does.
CallStep(c) ==
    \/ Starts(c) \/ Asks(c) \/ Advances(c) \/ StartSent(c) \/ Register(c) \/ Kill(c) \/ Answers(c)
    \/ \E how : Ends(c, how)

\* What the adapter, the read loop and the pump do.
OtherStep ==
    AnswerStart \/ TargetStops \/ TargetExits \/ AdapterHangs \/ AdapterDies \/ Recover
    \/ PumpTerminated

\* Every step is one of these.
LEMMA StepForms ==
    ASSUME Shape, SentInv, [Next]_vars
    PROVE  Unseen \/ OtherStep \/ \E c \in Calls : CallStep(c)
<1> USE DEF session, client, adapter, output, world, calls
<1>1. ASSUME NEW c \in Calls, Make(c) \/ Run(c) \/ Dropped(c) \/ Answer(c)
      PROVE  Unseen \/ CallStep(c)
  <2>0. Tool(c) \in Movers /\ req[c] = "sent" => Awaited(c)
    BY DEF SentInv
  <2>1. CASE Make(c)
    BY <2>0, <2>1, MakeForms DEF CallStep
  <2>2. CASE Run(c)
    BY <2>0, <2>2, RunForms DEF CallStep
  <2>3. CASE Dropped(c)
    BY <2>3, DroppedForm DEF CallStep
  <2>4. CASE Answer(c)
    BY <2>4, AnswerForm DEF CallStep
  <2>5. QED
    BY <1>1, <2>1, <2>2, <2>3, <2>4
<1>2. CASE AdapterInitialized \/ AdapterOutput \/ PumpOutput \/ UNCHANGED vars
  BY <1>2 DEF AdapterInitialized, AdapterOutput, PumpOutput, vars, Unseen
<1>3. CASE OtherStep
  BY <1>3
<1>4. QED
  BY <1>1, <1>2, <1>3 DEF Next, Pump, OtherStep

-----------------------------------------------------------------------------
(* Facts the steps share *)

\* Where the steps of a mover are.
LEMMA Positions ==
    ASSUME NEW c, at[c] \in Nat, Tool(c) \in Movers
    PROVE  /\ StepOf(c) = "register" <=> Tool(c) # "launch" /\ at[c] = RegStep(Tool(c))
           /\ StepOf(c) \in {"configure", "resume"} <=> at[c] = GoStep(Tool(c))
           /\ Tool(c) \in Connecting => (StepOf(c) = "started" <=> at[c] = StartedStep(Tool(c)))
           /\ StepOf(c) = "start" => at[c] = 2 /\ Tool(c) \in Connecting
           /\ StepOf(c) = "over" /\ at[c] > 0 /\ Tool(c) \in Connecting =>
                 at[c] > StartedStep(Tool(c))
           /\ StepOf(c) # "kill"
<1>1. CASE Tool(c) = "cont"
  BY <1>1, ContScript DEF Connecting, GoStep, RegStep, StartedStep
<1>2. CASE Tool(c) = "launch"
  BY <1>2, LaunchScript DEF Connecting, GoStep, RegStep, StartedStep
<1>3. CASE Tool(c) = "launch_entry"
  BY <1>3, EntryScript DEF Connecting, GoStep, RegStep, StartedStep
<1>4. CASE Tool(c) = "attach"
  BY <1>4, AttachScript DEF Connecting, GoStep, RegStep, StartedStep
<1>5. QED
  BY <1>1, <1>2, <1>3, <1>4 DEF Movers, Connecting

\* The order of those places.
LEMMA StepOrder ==
    ASSUME NEW t \in Movers
    PROVE  /\ GoStep(t) \in 2 .. 7 /\ RegStep(t) \in 1 .. 7 /\ StartedStep(t) \in 6 .. 8
           /\ t \in Connecting => GoStep(t) > 2 /\ StartedStep(t) > GoStep(t)
           /\ t \in {"cont", "launch_entry"} => GoStep(t) > RegStep(t)
           /\ t = "attach" => RegStep(t) > StartedStep(t)
           /\ t = "launch_entry" => RegStep(t) < StartedStep(t)
BY DEF Movers, Connecting, GoStep, RegStep, StartedStep

\* A session that is stopped, or that a call resumes, was launched or attached to.
LEMMA StartedOk ==
    ASSUME Inv, phase = "stopped" \/ \E c \in Calls : Moving(c) /\ Tool(c) = "cont"
    PROVE  start = "ok"
<1>1. PICK d \in Calls : Tool(d) \in Connecting /\ Begun(d)
  BY DEF Inv, BeginInv, ConnBegun, Moving, InFlight, Begun
<1>2. ~ Moving(d)
  <2>1. CASE phase = "stopped"
    BY <2>1 DEF Inv, MoverInv
  <2>2. CASE \E c \in Calls : Moving(c) /\ Tool(c) = "cont"
    BY <1>1, <2>2 DEF Inv, MoverInv, Connecting
  <2>3. QED
    BY <2>1, <2>2
<1>3. result[d] # "none"
  BY <1>1, <1>2 DEF Moving, InFlight, Movers, Begun
<1>4. ~ LeftUnknown(d)
  BY DEF Inv, EndInv
<1>5. result[d] = "done"
  BY <1>1, <1>3, <1>4 DEF Inv, Shape, LeftUnknown
<1>6. QED
  BY <1>1, <1>5 DEF Inv, StartInv

\* Whoever has got past its go-request holds the slot, or has been told.
LEMMA Told ==
    ASSUME Inv, NEW c \in Calls, Moving(c), Tool(c) \in {"cont", "launch_entry"}, ~ Pending(c)
    PROVE  got[c] # "none" \/ slot = c
<1>1. Tool(c) \in Movers /\ Tool(c) # "launch"
  BY DEF Movers, Connecting
<1>2. at[c] > RegStep(Tool(c))
  BY <1>1, Planned, StepOrder DEF Inv, Pending
<1>3. QED
  BY <1>1, <1>2 DEF Inv, SlotInv

\* A registration is one of a call that has begun.
LEMMA Registered ==
    ASSUME Inv, slot \in Calls
    PROVE  Begun(slot)
<1>1. Tool(slot) \in Movers /\ at[slot] > RegStep(Tool(slot)) /\ at[slot] \in Nat
  BY Planned DEF Inv, SlotInv
<1>2. RegStep(Tool(slot)) \in 1 .. 7
  BY <1>1, StepOrder
<1>3. QED
  BY <1>1, <1>2 DEF Begun

-----------------------------------------------------------------------------
(* The adapter, the read loop and the pump *)

\* What no step of theirs changes.
Uncalled == UNCHANGED <<plan, at, result, ended, accepted>>

\* What the calls are is then what it was.
LEMMA UncalledKeeps ==
    ASSUME Uncalled
    PROVE  /\ \A c \in Calls : /\ Tool(c)' = Tool(c) /\ (Begun(c)' <=> Begun(c))
                               /\ (Moving(c)' <=> Moving(c)) /\ (InFlight(c)' <=> InFlight(c))
                               /\ (LeftUnknown(c)' <=> LeftUnknown(c))
                               /\ StepOf(c)' = StepOf(c) /\ (Awaited(c)' <=> Awaited(c))
           /\ ConnBegun' <=> ConnBegun
           /\ Excused' <=> Excused
BY DEF Uncalled, Tool, Begun, Moving, InFlight, LeftUnknown, StepOf, Awaited, ConnBegun, Excused

\* Nothing the argument sees.
LEMMA UnseenStep ==
    ASSUME Inv, Unseen
    PROVE  Inv'
<1>0. Uncalled /\ UNCHANGED <<req, got, phase, slot, start, child, hung, loop, target>>
  BY DEF Unseen, Uncalled, world
<1>1. \A c \in Calls : /\ Tool(c)' = Tool(c) /\ (Begun(c)' <=> Begun(c))
                       /\ (Moving(c)' <=> Moving(c)) /\ (InFlight(c)' <=> InFlight(c))
                       /\ (LeftUnknown(c)' <=> LeftUnknown(c))
                       /\ (Awaited(c)' <=> Awaited(c)) /\ (Pending(c)' <=> Pending(c))
  BY <1>0, UncalledKeeps DEF Pending, Uncalled
<1>2. Shape' /\ BeginInv' /\ MoverInv' /\ EndInv'
  BY <1>0, <1>1, UncalledKeeps DEF Inv, Shape, BeginInv, MoverInv, EndInv, Uncalled
<1>3. SentInv' /\ StartInv' /\ SlotInv'
  BY <1>0, <1>1 DEF Inv, SentInv, StartInv, SlotInv, Works, Uncalled
<1>4. BeforeInv' /\ StopInv' /\ AcceptInv'
  BY <1>0, <1>1 DEF Inv, BeforeInv, StopInv, AcceptInv, Works, Uncalled
<1>5. KillInv'
  BY <1>0, <1>1, UncalledKeeps DEF Inv, KillInv, Uncalled
<1>6. QED
  BY <1>2, <1>3, <1>4, <1>5 DEF Inv

\* The answer to launch or attach; a refusal takes the debuggee away.
LEMMA AnswerStartStep ==
    ASSUME Inv, AnswerStart
    PROVE  Inv'
<1>0. /\ Uncalled /\ UNCHANGED <<req, got, phase, slot, child, hung, loop>>
      /\ start = "sent" /\ start' \in {"ok", "refused"}
      /\ target' = IF start' = "ok" THEN target ELSE "none"
  BY DEF AnswerStart, Uncalled, calls, session, output
<1>1. \A c \in Calls : /\ Tool(c)' = Tool(c) /\ (Begun(c)' <=> Begun(c))
                       /\ (Moving(c)' <=> Moving(c)) /\ (InFlight(c)' <=> InFlight(c))
                       /\ (LeftUnknown(c)' <=> LeftUnknown(c))
                       /\ (Awaited(c)' <=> Awaited(c)) /\ (Pending(c)' <=> Pending(c))
  BY <1>0, UncalledKeeps DEF Pending, Uncalled
<1>2. phase # "stopped" /\ \A c \in Calls : Moving(c) => Tool(c) # "cont"
  BY <1>0, StartedOk
<1>3. Shape' /\ BeginInv' /\ MoverInv' /\ EndInv'
  BY <1>0, <1>1, UncalledKeeps DEF Inv, Shape, BeginInv, MoverInv, EndInv, Uncalled
<1>4. SentInv' /\ StartInv' /\ SlotInv'
  BY <1>0, <1>1 DEF Inv, SentInv, StartInv, SlotInv, Works, Uncalled
<1>5. BeforeInv' /\ StopInv' /\ AcceptInv'
  BY <1>0, <1>1, <1>2 DEF Inv, BeforeInv, StopInv, AcceptInv, Works, Uncalled
<1>6. KillInv'
  BY <1>0, <1>1, UncalledKeeps DEF Inv, KillInv, Uncalled
<1>7. QED
  BY <1>3, <1>4, <1>5, <1>6 DEF Inv

\* A stop, an exit and the end of the read loop tell the call in the slot.
LEMMA DeliverStep ==
    ASSUME Inv, NEW outcome \in {"stopped", "exited", "terminated"}, Deliver(outcome),
           Uncalled, UNCHANGED phase,
           \/ /\ Works /\ target = "running" /\ target' = outcome
              /\ UNCHANGED <<req, start, child, hung, loop>>
           \/ /\ outcome = "terminated" /\ child # "none" /\ loop' = "ended"
              /\ \A c \in Calls : req'[c] = req[c] \/ (req[c] = "sent" /\ req'[c] = "closed")
              /\ req' \in [Calls -> {"none", "sent", "ok", "refused", "closed"}]
              /\ start' = start \/ (start = "sent" /\ start' = "closed")
              /\ UNCHANGED <<child, target>>
    PROVE  Inv'
<1>1. \A c \in Calls : /\ Tool(c)' = Tool(c) /\ (Begun(c)' <=> Begun(c))
                       /\ (Moving(c)' <=> Moving(c)) /\ (InFlight(c)' <=> InFlight(c))
                       /\ (LeftUnknown(c)' <=> LeftUnknown(c))
                       /\ (Awaited(c)' <=> Awaited(c)) /\ (Pending(c)' => Pending(c))
  BY UncalledKeeps DEF Pending, Uncalled
<1>2. /\ slot' = None
      /\ \A c \in Calls : got'[c] = IF c = slot /\ got[c] = "none" THEN outcome ELSE got[c]
  BY DEF Deliver
<1>3. Shape'
  BY DEF Inv, Shape, Deliver, Uncalled
<1>4. BeginInv'
  <2>1. \A c \in Calls : ~ Begun(c) => c # slot
    BY Registered
  <2>2. \A c \in Calls : (~ Begun(c) => req[c] = "none" /\ got[c] = "none")'
    BY <1>1, <1>2, <2>1 DEF Inv, BeginInv
  <2>3. ConnBegun
    BY DEF Inv, BeginInv
  <2>4. ConnBegun'
    BY <2>3, UncalledKeeps
  <2>5. QED
    BY <2>2, <2>4 DEF BeginInv
<1>5. MoverInv' /\ EndInv' /\ SentInv' /\ StartInv'
  BY <1>1, UncalledKeeps DEF Inv, MoverInv, EndInv, SentInv, StartInv, Works, Uncalled
<1>6. SlotInv'
  BY <1>1, <1>2, LldbAssumption DEF Inv, SlotInv, Uncalled, LldbAssumption
<1>7. KillInv'
  BY <1>1, UncalledKeeps DEF Inv, KillInv, Uncalled
<1>8. BeforeInv'
  <2>1. \A c \in Calls : Moving(c) => Begun(c) /\ Tool(c) \in Connecting \cup {"cont"}
    BY DEF Moving, InFlight, Begun, Movers
  <2>2. CASE Works /\ target = "running"
    <3>1. \A c \in Calls : Pending(c) => /\ ~ (Tool(c) \in Connecting /\ Begun(c))
                                         /\ ~ Moving(c)
      BY <2>1, <2>2 DEF Inv, BeforeInv
    <3>2. QED
      BY <1>1, <3>1 DEF BeforeInv
  <2>3. CASE loop' = "ended" /\ target' = target
    BY <1>1, <2>3 DEF Inv, BeforeInv, Works
  <2>4. QED
    BY <2>2, <2>3
<1>9. StopInv'
  BY <1>1, <1>2 DEF Inv, StopInv, Works
<1>10. AcceptInv'
  BY <1>1, <1>2, Told DEF Inv, AcceptInv, Uncalled
<1>11. QED
  BY <1>3, <1>4, <1>5, <1>6, <1>7, <1>8, <1>9, <1>10 DEF Inv

\* The adapter stops answering or dies, and the pump says that the session is over.
LEMMA LossStep ==
    ASSUME Inv, AdapterHangs \/ AdapterDies \/ PumpTerminated
    PROVE  Inv'
<1>0. /\ Uncalled /\ UNCHANGED <<req, got, slot, start, loop>>
      /\ \/ UNCHANGED <<child, hung, target, phase>>
         \/ ~ Works' /\ child' = child /\ target' = target /\ phase' = phase
         \/ ~ Works' /\ child = "running" /\ child' = "exited" /\ target' = "none" /\ phase' = phase
         \/ /\ phase' = "terminated" /\ UNCHANGED <<child, hung, target>>
            /\ target = "exited" \/ loop = "ended"
  BY DEF AdapterHangs, AdapterDies, PumpTerminated, Uncalled, Works, calls, session, output,
         client, adapter
<1>1. \A c \in Calls : /\ Tool(c)' = Tool(c) /\ (Begun(c)' <=> Begun(c))
                       /\ (Moving(c)' <=> Moving(c)) /\ (InFlight(c)' <=> InFlight(c))
                       /\ (LeftUnknown(c)' <=> LeftUnknown(c))
                       /\ (Awaited(c)' <=> Awaited(c)) /\ (Pending(c)' <=> Pending(c))
  BY <1>0, UncalledKeeps DEF Pending, Uncalled
<1>2. Shape' /\ BeginInv' /\ MoverInv' /\ EndInv'
  BY <1>0, <1>1, UncalledKeeps DEF Inv, Shape, BeginInv, MoverInv, EndInv, Uncalled
<1>3. SentInv' /\ StartInv' /\ SlotInv'
  BY <1>0, <1>1 DEF Inv, SentInv, StartInv, SlotInv, Works, Uncalled
<1>4. BeforeInv' /\ StopInv' /\ AcceptInv'
  BY <1>0, <1>1 DEF Inv, BeforeInv, StopInv, AcceptInv, Works, Uncalled
<1>5. KillInv'
  BY <1>0, <1>1, UncalledKeeps DEF Inv, KillInv, Uncalled
<1>6. QED
  BY <1>2, <1>3, <1>4, <1>5 DEF Inv

\* All of them.
LEMMA OtherStepKeeps ==
    ASSUME Inv, OtherStep
    PROVE  Inv'
<1> USE DEF calls, session, client, adapter, output
<1>1. CASE TargetStops
  BY <1>1, DeliverStep DEF TargetStops, Uncalled
<1>2. CASE TargetExits
  BY <1>2, DeliverStep DEF TargetExits, Uncalled
<1>3. CASE Recover
  <2>1. /\ Deliver("terminated") /\ Uncalled /\ UNCHANGED <<phase, child, target>>
        /\ child # "none" /\ loop' = "ended"
        /\ start' = start \/ (start = "sent" /\ start' = "closed")
    BY <1>3 DEF Recover, Closes, Uncalled
  <2>2. /\ \A c \in Calls : req'[c] = req[c] \/ (req[c] = "sent" /\ req'[c] = "closed")
        /\ req' \in [Calls -> {"none", "sent", "ok", "refused", "closed"}]
    BY <1>3 DEF Recover, Closes, Inv, Shape
  <2>3. QED
    BY <2>1, <2>2, DeliverStep
<1>4. QED
  BY <1>1, <1>2, <1>3, AnswerStartStep, LossStep DEF OtherStep

-----------------------------------------------------------------------------
(* The calls *)

\* The calls a step of call c leaves alone.
LEMMA OthersKeep ==
    ASSUME NEW c, plan' = plan,
           \A d \in Calls : d # c => at'[d] = at[d] /\ result'[d] = result[d] /\ req'[d] = req[d]
    PROVE  /\ \A d \in Calls : Tool(d)' = Tool(d)
           /\ \A d \in Calls \ {c} :
                 /\ (Begun(d)' <=> Begun(d)) /\ (Moving(d)' <=> Moving(d))
                 /\ (InFlight(d)' <=> InFlight(d)) /\ (LeftUnknown(d)' <=> LeftUnknown(d))
                 /\ (Awaited(d)' <=> Awaited(d)) /\ (Pending(d)' <=> Pending(d))
BY DEF Tool, Begun, Moving, InFlight, LeftUnknown, StepOf, Awaited, Pending

\* A call begins.
LEMMA StartsStep ==
    ASSUME Inv, NEW c \in Calls, Starts(c)
    PROVE  Inv'
<1> USE DEF Inv
<1>0. /\ at[c] = 0 /\ result[c] = "none" /\ req[c] = "none" /\ got[c] = "none"
      /\ ~ Begun(c) /\ ~ InFlight(c) /\ ~ Moving(c)
  BY DEF Starts, BeginInv, Begun, InFlight, Moving
<1>1. PICK n \in Nat \ {0} : /\ at' = [at EXCEPT ![c] = n]
                             /\ Tool(c) \in Movers => n = 1
                             /\ Tool(c) = "disconnect" => n = 1 \/ ended
  BY DEF Starts
<1>2. /\ at' \in [Calls -> Nat] /\ at'[c] = n
      /\ \A d \in Calls : d # c => at'[d] = at[d]
  BY <1>1 DEF Shape
<1>3. UNCHANGED <<plan, result, req, got, ended, slot, start, hung, loop, target, accepted>>
  BY DEF Starts
<1>4. /\ \A d \in Calls : Tool(d)' = Tool(d)
      /\ \A d \in Calls \ {c} :
            /\ (Begun(d)' <=> Begun(d)) /\ (Moving(d)' <=> Moving(d))
            /\ (InFlight(d)' <=> InFlight(d)) /\ (LeftUnknown(d)' <=> LeftUnknown(d))
            /\ (Awaited(d)' <=> Awaited(d)) /\ (Pending(d)' <=> Pending(d))
  BY <1>2, <1>3, OthersKeep
<1>5. /\ Begun(c)' /\ InFlight(c)' /\ (Moving(c)' <=> Tool(c) \in Movers) /\ ~ LeftUnknown(c)'
  BY <1>0, <1>2, <1>3, <1>4 DEF Begun, InFlight, Moving, LeftUnknown
<1>6. Tool(c) \in Movers => /\ \A d \in Calls : ~ Moving(d)
                            /\ phase' # "stopped"
  BY DEF Starts, Quiet, Moving
<1>7. CASE Tool(c) \in Connecting
  <2>1. ~ ConnBegun
    BY <1>0, <1>7, Lone DEF ConnBegun
  <2>2. /\ \A d \in Calls : ~ Begun(d) /\ req[d] = "none" /\ got[d] = "none"
        /\ target = "none" /\ start = "none" /\ child = "none" /\ loop # "ended"
    BY <2>1 DEF BeginInv
  <2>3. phase' = "configuring" /\ child' = "running" /\ ~ ended /\ n = 1 /\ Tool(c) \in Movers
    BY <1>1, <1>7 DEF Starts, Movers, Connecting
  <2>4. \A d \in Calls : /\ d # c => ~ Begun(d)' /\ ~ Moving(d)' /\ ~ LeftUnknown(d)'
                                     /\ ~ InFlight(d)' /\ at'[d] = 0
                         /\ at[d] = 0
    BY <1>2, <1>4, <2>2 DEF Begun, Moving, InFlight, LeftUnknown, Shape
  <2>5. Shape'
    BY <1>2, <1>3 DEF Shape
  <2>6. BeginInv' /\ MoverInv' /\ EndInv'
    BY <1>3, <1>4, <1>5, <1>7, <2>2, <2>3, <2>4
       DEF BeginInv, MoverInv, EndInv, ConnBegun
  <2>7. SentInv'
    BY <1>3, <2>2 DEF SentInv
  <2>8. StartInv'
    BY <1>2, <1>3, <1>4, <1>7, <2>3, <2>4, StepOrder, <1>0 DEF StartInv
  <2>9. SlotInv'
    <3>1. slot \notin Calls
      BY <2>2, Registered
    <3>2. QED
      BY <1>2, <1>3, <1>4, <2>3, <2>4, <3>1, StepOrder DEF SlotInv, Moving
  <2>10. BeforeInv' /\ StopInv'
    BY <1>3, <1>4, <1>5, <1>7, <2>2, <2>3, <2>4 DEF BeforeInv, StopInv, Connecting
  <2>11. AcceptInv' /\ KillInv'
    BY <1>3, <1>4, <1>7, <2>2, <2>3, <2>4 DEF AcceptInv, KillInv, Connecting
  <2>12. QED
    BY <2>5, <2>6, <2>7, <2>8, <2>9, <2>10, <2>11
<1>8. CASE Tool(c) \notin Connecting
  <2>1. /\ child' = child /\ phase # "idle"
        /\ \/ Tool(c) = "cont" /\ phase = "stopped" /\ phase' = "running" /\ n = 1
           \/ Tool(c) \notin Movers /\ phase' = phase
    BY <1>1, <1>8 DEF Starts, Movers
  <2>2. Shape'
    BY <1>2, <1>3 DEF Shape
  <2>3. BeginInv'
    BY <1>3, <1>4, <1>5, <2>1 DEF BeginInv, ConnBegun
  <2>4. MoverInv'
    BY <1>4, <1>5, <1>6, <2>1 DEF MoverInv, Movers
  <2>5. EndInv'
    BY <1>4, <1>5, <1>6, <2>1 DEF EndInv
  <2>6. SentInv'
    BY <1>0, <1>3, <1>4, <2>1 DEF SentInv, Works
  <2>7. StartInv'
    BY <1>2, <1>3, <1>4, <1>8 DEF StartInv
  <2>8. SlotInv'
    <3>1. slot \in Calls => slot # c
      BY <1>0, Registered
    <3>2. QED
      BY <1>2, <1>3, <1>4, <1>5, <2>1, <3>1, StepOrder DEF SlotInv
  <2>9. BeforeInv'
    <3>1. Tool(c) = "cont" /\ Works => target = "stopped"
      BY <2>1 DEF StopInv, Movers
    <3>2. QED
      BY <1>0, <1>3, <1>4, <1>5, <1>8, <2>1, <3>1 DEF BeforeInv, Works, Movers
  <2>10. StopInv'
    BY <1>0, <1>3, <1>4, <1>5, <2>1 DEF StopInv, Works
  <2>11. AcceptInv'
    BY <1>0, <1>3, <1>4, <2>1 DEF AcceptInv
  <2>12. KillInv'
    BY <1>1, <1>2, <1>3, <1>4, <2>1 DEF KillInv, Excused
  <2>13. QED
    BY <2>2, <2>3, <2>4, <2>5, <2>6, <2>7, <2>8, <2>9, <2>10, <2>11, <2>12
<1>9. QED
  BY <1>7, <1>8

\* A call sends a request, or forgets an answer.
LEMMA AsksStep ==
    ASSUME Inv, NEW c \in Calls, Asks(c)
    PROVE  Inv'
<1> USE DEF Inv
<1>1. /\ UNCHANGED <<plan, at, result, got, phase, ended, slot, start, child, hung, loop, target,
                     accepted>>
      /\ Uncalled /\ InFlight(c) /\ Begun(c)
  BY DEF Asks, world, Uncalled, InFlight, Begun
<1>2. /\ req' \in [Calls -> {"none", "sent", "ok", "refused", "closed"}]
      /\ \A d \in Calls : d # c => req'[d] = req[d]
      /\ \/ /\ req[c] = "none" /\ StepOf(c) \in Requests
            /\ req'[c] = "sent" \/ (req'[c] = "closed" /\ child # "running")
         \/ Tool(c) \notin Movers /\ req'[c] = "none"
  BY DEF Asks, Shape
<1>3. \A d \in Calls : /\ Tool(d)' = Tool(d) /\ (Begun(d)' <=> Begun(d))
                       /\ (Moving(d)' <=> Moving(d)) /\ (InFlight(d)' <=> InFlight(d))
                       /\ (LeftUnknown(d)' <=> LeftUnknown(d))
                       /\ (Awaited(d)' <=> Awaited(d))
                       /\ Tool(d) \in Movers /\ Pending(d)' => Pending(d)
  BY <1>1, <1>2, UncalledKeeps DEF Pending
<1>4. Shape' /\ BeginInv' /\ MoverInv' /\ EndInv'
  BY <1>1, <1>2, <1>3, UncalledKeeps DEF Shape, BeginInv, MoverInv, EndInv
<1>5. SentInv'
  BY <1>1, <1>2, <1>3 DEF SentInv, Works, Awaited
<1>6. StartInv' /\ SlotInv'
  BY <1>1, <1>3 DEF StartInv, SlotInv
<1>7. BeforeInv' /\ StopInv' /\ AcceptInv'
  BY <1>1, <1>3 DEF BeforeInv, StopInv, AcceptInv, Works, Movers, Moving
<1>8. KillInv'
  BY <1>1, <1>3, UncalledKeeps DEF KillInv
<1>9. QED
  BY <1>4, <1>5, <1>6, <1>7, <1>8

\* A call goes on, sends launch or attach, registers, or kills.
LEMMA GoesOn ==
    ASSUME Inv, NEW c \in Calls, InFlight(c), at' = [at EXCEPT ![c] = @ + 1],
           req' \in {req, [req EXCEPT ![c] = "none"]}, UNCHANGED <<plan, result>>
    PROVE  /\ at' \in [Calls -> Nat] /\ at'[c] = at[c] + 1
           /\ \A d \in Calls \ {c} : at'[d] = at[d] /\ req'[d] = req[d]
           /\ req' \in [Calls -> {"none", "sent", "ok", "refused", "closed"}]
           /\ req'[c] \in {req[c], "none"}
           /\ at[c] \in Nat /\ at[c] > 0 /\ result[c] = "none"
           /\ \A d \in Calls :
                 /\ Tool(d)' = Tool(d) /\ (Begun(d)' <=> Begun(d)) /\ (Moving(d)' <=> Moving(d))
                 /\ (InFlight(d)' <=> InFlight(d)) /\ (LeftUnknown(d)' <=> LeftUnknown(d))
           /\ \A d \in Calls \ {c} : /\ (Awaited(d)' <=> Awaited(d))
                                     /\ (Pending(d)' <=> Pending(d))
           /\ (ConnBegun' <=> ConnBegun) /\ (Excused' <=> Excused)
<1>1. /\ at' \in [Calls -> Nat] /\ at'[c] = at[c] + 1
      /\ \A d \in Calls \ {c} : at'[d] = at[d] /\ req'[d] = req[d]
      /\ req' \in [Calls -> {"none", "sent", "ok", "refused", "closed"}]
      /\ req'[c] \in {req[c], "none"}
      /\ at[c] \in Nat /\ at[c] > 0 /\ result[c] = "none"
  BY DEF Inv, Shape, InFlight
<1>2. /\ \A d \in Calls : Tool(d)' = Tool(d)
      /\ \A d \in Calls \ {c} :
            /\ (Begun(d)' <=> Begun(d)) /\ (Moving(d)' <=> Moving(d))
            /\ (InFlight(d)' <=> InFlight(d)) /\ (LeftUnknown(d)' <=> LeftUnknown(d))
            /\ (Awaited(d)' <=> Awaited(d)) /\ (Pending(d)' <=> Pending(d))
  BY <1>1, OthersKeep
<1>3. /\ Begun(c)' /\ Begun(c) /\ InFlight(c)' /\ (Moving(c)' <=> Moving(c))
      /\ ~ LeftUnknown(c) /\ ~ LeftUnknown(c)'
  BY <1>1, <1>2 DEF Begun, InFlight, Moving, LeftUnknown
<1>4. ConnBegun' <=> ConnBegun
  BY <1>2, <1>3 DEF ConnBegun
<1>5. Excused' <=> Excused
  BY <1>2 DEF Excused
<1>6. QED
  BY <1>1, <1>2, <1>3, <1>4, <1>5

\* A call goes on to its next step.
LEMMA AdvancesStep ==
    ASSUME Inv, NEW c \in Calls, Advances(c)
    PROVE  Inv'
<1> USE DEF Inv
<1>0. /\ UNCHANGED <<plan, result, got, phase, ended, slot, start, child, hung, loop, target,
                     accepted>>
      /\ InFlight(c) /\ at' = [at EXCEPT ![c] = @ + 1]
      /\ req' \in {req, [req EXCEPT ![c] = "none"]}
  BY DEF Advances, world
<1>1. /\ at' \in [Calls -> Nat] /\ at'[c] = at[c] + 1
      /\ \A d \in Calls \ {c} : at'[d] = at[d] /\ req'[d] = req[d]
      /\ req' \in [Calls -> {"none", "sent", "ok", "refused", "closed"}]
      /\ req'[c] \in {req[c], "none"}
      /\ at[c] \in Nat /\ at[c] > 0 /\ result[c] = "none"
      /\ \A d \in Calls :
            /\ Tool(d)' = Tool(d) /\ (Begun(d)' <=> Begun(d)) /\ (Moving(d)' <=> Moving(d))
            /\ (InFlight(d)' <=> InFlight(d)) /\ (LeftUnknown(d)' <=> LeftUnknown(d))
      /\ \A d \in Calls \ {c} : /\ (Awaited(d)' <=> Awaited(d))
                                /\ (Pending(d)' <=> Pending(d))
      /\ (ConnBegun' <=> ConnBegun) /\ (Excused' <=> Excused)
  BY <1>0, GoesOn
<1>2. Tool(c) \in Movers =>
         /\ (at[c] = GoStep(Tool(c))) => req[c] \notin {"none", "sent"}
         /\ Tool(c) # "launch" => at[c] # RegStep(Tool(c))
         /\ Tool(c) \in Connecting /\ at[c] = StartedStep(Tool(c)) => start = "ok"
         /\ req[c] # "sent"
  BY <1>1, Positions DEF Advances, SentInv, Awaited
<1>3. Tool(c) \in Movers =>
         /\ GoStep(Tool(c)) \in Nat /\ RegStep(Tool(c)) \in Nat /\ StartedStep(Tool(c)) \in Nat
  BY StepOrder
<1>4. Tool(c) \in Movers /\ Pending(c)' => Pending(c)
  BY <1>1, <1>2, <1>3 DEF Pending
<1>5. \A d \in Calls : Tool(d) \in Movers /\ Pending(d)' => Pending(d)
  BY <1>1, <1>4
<1>6. Shape' /\ BeginInv' /\ MoverInv' /\ EndInv'
  BY <1>0, <1>1 DEF Shape, BeginInv, MoverInv, EndInv, Begun
<1>7. SentInv'
  BY <1>0, <1>1, <1>2 DEF SentInv, Works
<1>8. StartInv'
  BY <1>0, <1>1, <1>2, <1>3 DEF StartInv, Movers
<1>9. SlotInv'
  BY <1>0, <1>1, <1>2, <1>3 DEF SlotInv, Moving
<1>10. BeforeInv' /\ StopInv' /\ AcceptInv'
  BY <1>0, <1>1, <1>5 DEF BeforeInv, StopInv, AcceptInv, Works, Movers, Moving
<1>11. KillInv'
  <2>1. Tool(c) = "disconnect" => at[c] # 2
    BY <1>1, DisconnectScript DEF Advances
  <2>2. QED
    BY <1>0, <1>1, <2>1 DEF KillInv
<1>12. QED
  BY <1>6, <1>7, <1>8, <1>9, <1>10, <1>11

\* launch or attach is sent.
LEMMA StartSentStep ==
    ASSUME Inv, NEW c \in Calls, StartSent(c)
    PROVE  Inv'
<1> USE DEF Inv
<1>0. /\ UNCHANGED <<plan, result, req, got, phase, ended, slot, child, hung, loop, target,
                     accepted>>
      /\ start' = "sent"
      /\ InFlight(c) /\ at' = [at EXCEPT ![c] = @ + 1]
      /\ req' \in {req, [req EXCEPT ![c] = "none"]}
  BY DEF StartSent, world
<1>1. /\ at' \in [Calls -> Nat] /\ at'[c] = at[c] + 1
      /\ \A d \in Calls \ {c} : at'[d] = at[d]
      /\ at[c] \in Nat /\ at[c] > 0 /\ result[c] = "none"
      /\ \A d \in Calls :
            /\ Tool(d)' = Tool(d) /\ (Begun(d)' <=> Begun(d)) /\ (Moving(d)' <=> Moving(d))
            /\ (InFlight(d)' <=> InFlight(d)) /\ (LeftUnknown(d)' <=> LeftUnknown(d))
      /\ \A d \in Calls \ {c} : /\ (Awaited(d)' <=> Awaited(d))
                                /\ (Pending(d)' <=> Pending(d))
      /\ (ConnBegun' <=> ConnBegun) /\ (Excused' <=> Excused)
  BY <1>0, GoesOn
<1>2. Tool(c) \in Connecting /\ Tool(c) \in Movers /\ at[c] = 2
  <2>1. Tool(c) \in Connecting
    BY <1>1, Planned, MoverSteps DEF StartSent
  <2>2. QED
    BY <1>1, <2>1, Positions DEF StartSent, Movers
<1>3. /\ GoStep(Tool(c)) \in 3 .. 7 /\ StartedStep(Tool(c)) \in 6 .. 8
      /\ RegStep(Tool(c)) \in 6 .. 7
  BY <1>2, StepOrder DEF Connecting, RegStep, GoStep
<1>4. /\ Moving(c) /\ Pending(c) /\ (Works => got[c] = "none")
      /\ \A d \in Calls : Moving(d) => d = c
      /\ req[c] # "sent" /\ Begun(c)
  BY <1>0, <1>1, <1>2, <1>3
     DEF Pending, Moving, BeforeInv, MoverInv, SentInv, Awaited, StartSent, Requests, Checked, Begun
<1>5. Shape' /\ BeginInv' /\ MoverInv' /\ EndInv'
  BY <1>0, <1>1, <1>2, <1>4 DEF Shape, BeginInv, MoverInv, EndInv, ConnBegun
<1>6. SentInv'
  BY <1>0, <1>1, <1>4 DEF SentInv, Works
<1>7. StartInv'
  <2>1. \A d \in Calls : Tool(d) \in Connecting => d = c
    BY <1>2, Lone
  <2>2. QED
    BY <1>0, <1>1, <1>2, <1>3, <2>1 DEF StartInv
<1>8. SlotInv'
  <2>1. slot # c
    BY <1>1, <1>2, <1>3 DEF SlotInv
  <2>2. QED
    BY <1>0, <1>1, <1>2, <1>3, <1>4, <2>1 DEF SlotInv
<1>9. BeforeInv'
  BY <1>0, <1>1, <1>4 DEF BeforeInv, Works
<1>10. StopInv'
  BY <1>0, <1>1, <1>4 DEF StopInv, Works
<1>11. AcceptInv'
  BY <1>0, <1>1, <1>4 DEF AcceptInv
<1>12. KillInv'
  BY <1>0, <1>1, <1>2 DEF KillInv, Connecting
<1>13. QED
  BY <1>5, <1>6, <1>7, <1>8, <1>9, <1>10, <1>11, <1>12

\* A waiter is registered.
LEMMA RegisterStep ==
    ASSUME Inv, NEW c \in Calls, Register(c)
    PROVE  Inv'
<1> USE DEF Inv
<1>0. /\ UNCHANGED <<plan, result, req, start, phase, ended, child, hung, loop, target,
                     accepted>>
      /\ InFlight(c) /\ StepOf(c) = "register" /\ at' = [at EXCEPT ![c] = @ + 1]
      /\ req' \in {req, [req EXCEPT ![c] = "none"]}
      /\ slot' = c
      /\ got' = [d \in Calls |-> IF d = slot /\ got[d] = "none" THEN "terminated" ELSE got[d]]
  BY DEF Register, At, Advance, session, adapter
<1>1. /\ at' \in [Calls -> Nat] /\ at'[c] = at[c] + 1
      /\ \A d \in Calls \ {c} : at'[d] = at[d]
      /\ at[c] \in Nat /\ at[c] > 0 /\ result[c] = "none"
      /\ \A d \in Calls :
            /\ Tool(d)' = Tool(d) /\ (Begun(d)' <=> Begun(d)) /\ (Moving(d)' <=> Moving(d))
            /\ (InFlight(d)' <=> InFlight(d)) /\ (LeftUnknown(d)' <=> LeftUnknown(d))
      /\ \A d \in Calls \ {c} : /\ (Awaited(d)' <=> Awaited(d))
                                /\ (Pending(d)' <=> Pending(d))
      /\ (ConnBegun' <=> ConnBegun) /\ (Excused' <=> Excused)
  BY <1>0, GoesOn
<1>2. Tool(c) \in Movers \ {"launch"} /\ at[c] = RegStep(Tool(c))
  <2>1. Tool(c) \in Movers
    BY <1>0, <1>1, Planned, MoverSteps
  <2>2. QED
    BY <1>0, <1>1, <2>1, Positions
<1>3. /\ RegStep(Tool(c)) \in 1 .. 7 /\ GoStep(Tool(c)) \in 2 .. 7
      /\ StartedStep(Tool(c)) \in 6 .. 8
      /\ Tool(c) \in {"cont", "launch_entry"} => GoStep(Tool(c)) > RegStep(Tool(c))
      /\ Tool(c) = "attach" => RegStep(Tool(c)) > StartedStep(Tool(c))
      /\ Tool(c) = "launch_entry" => RegStep(Tool(c)) < StartedStep(Tool(c))
  BY <1>2, StepOrder
<1>4. /\ Moving(c) /\ (\A d \in Calls : Moving(d) => d = c) /\ req[c] # "sent"
      /\ slot # c
  BY <1>0, <1>1, <1>2, <1>3
     DEF Moving, MoverInv, SentInv, Awaited, Requests, Checked, SlotInv
<1>5. \A d \in Calls : /\ got'[d] = IF d = slot /\ got[d] = "none" THEN "terminated" ELSE got[d]
                       /\ d = slot => Begun(d)
  BY <1>0, Registered
<1>6. Pending(c)' => Pending(c)
  BY <1>0, <1>1, <1>3 DEF Pending
<1>7. Shape'
  BY <1>0, <1>1 DEF Shape
<1>8. BeginInv' /\ MoverInv' /\ EndInv'
  BY <1>0, <1>1, <1>5 DEF BeginInv, MoverInv, EndInv
<1>9. SentInv'
  BY <1>0, <1>1, <1>4 DEF SentInv, Works
<1>10. StartInv'
  BY <1>0, <1>1, <1>2, <1>3 DEF StartInv, Movers, Connecting
<1>11. SlotInv'
  BY <1>0, <1>1, <1>2, <1>3, <1>4 DEF SlotInv
<1>12. BeforeInv'
  BY <1>0, <1>1, <1>4, <1>5, <1>6 DEF BeforeInv, Works
<1>13. StopInv'
  BY <1>0, <1>1, <1>5 DEF StopInv, Works
<1>14. AcceptInv'
  BY <1>0, <1>1, <1>2, <1>3, <1>4 DEF AcceptInv, Pending
<1>15. KillInv'
  BY <1>0, <1>1, <1>2 DEF KillInv, Movers, Connecting
<1>16. QED
  BY <1>7, <1>8, <1>9, <1>10, <1>11, <1>12, <1>13, <1>14, <1>15

\* The process is killed.
LEMMA KillStep ==
    ASSUME Inv, NEW c \in Calls, Kill(c)
    PROVE  Inv'
<1> USE DEF Inv
<1>0. /\ UNCHANGED <<plan, result, req, got, slot, start, phase, ended, hung, loop, target,
                     accepted>>
      /\ InFlight(c) /\ StepOf(c) = "kill" /\ at' = [at EXCEPT ![c] = @ + 1]
      /\ req' \in {req, [req EXCEPT ![c] = "none"]}
      /\ child' \in {"none", "reaped"} /\ (child' = "none" <=> child = "none")
  BY DEF Kill, At, Advance, session, client
<1>1. /\ at' \in [Calls -> Nat] /\ at'[c] = at[c] + 1
      /\ \A d \in Calls \ {c} : at'[d] = at[d]
      /\ at[c] \in Nat /\ at[c] > 0 /\ result[c] = "none"
      /\ \A d \in Calls :
            /\ Tool(d)' = Tool(d) /\ (Begun(d)' <=> Begun(d)) /\ (Moving(d)' <=> Moving(d))
            /\ (InFlight(d)' <=> InFlight(d)) /\ (LeftUnknown(d)' <=> LeftUnknown(d))
      /\ \A d \in Calls \ {c} : /\ (Awaited(d)' <=> Awaited(d))
                                /\ (Pending(d)' <=> Pending(d))
      /\ (ConnBegun' <=> ConnBegun) /\ (Excused' <=> Excused)
  BY <1>0, GoesOn
<1>2. Tool(c) = "disconnect" /\ Tool(c) \notin Movers \cup Connecting /\ ~ Works'
  BY <1>0, <1>1, Planned, MoverSteps DEF Movers, Connecting, Works
<1>3. Shape' /\ BeginInv' /\ MoverInv' /\ EndInv'
  BY <1>0, <1>1 DEF Shape, BeginInv, MoverInv, EndInv
<1>4. SentInv'
  BY <1>0, <1>1, <1>2 DEF SentInv
<1>5. StartInv' /\ SlotInv'
  <2>1. StartInv'
    BY <1>0, <1>1, <1>2 DEF StartInv
  <2>2. slot # c
    BY <1>2 DEF SlotInv
  <2>3. SlotInv'
    BY <1>0, <1>1, <1>2, <2>2 DEF SlotInv, Moving
  <2>4. QED
    BY <2>1, <2>3
<1>6. BeforeInv' /\ StopInv' /\ AcceptInv'
  BY <1>0, <1>1, <1>2 DEF BeforeInv, StopInv, AcceptInv, Movers, Moving
<1>7. KillInv'
  BY <1>0, <1>1 DEF KillInv
<1>8. QED
  BY <1>3, <1>4, <1>5, <1>6, <1>7

\* The adapter answers a request.
LEMMA AnswersStep ==
    ASSUME Inv, NEW c \in Calls, Answers(c)
    PROVE  Inv'
<1> USE DEF Inv
<1>0. /\ UNCHANGED <<plan, at, result, got, phase, ended, slot, start, child, hung, loop>>
      /\ Works /\ Works' /\ req[c] = "sent" /\ Begun(c)
  BY DEF Answers, Works, BeginInv
<1>1. /\ req' \in [Calls -> {"none", "sent", "ok", "refused", "closed"}]
      /\ req'[c] \in {"ok", "refused"}
      /\ \A d \in Calls \ {c} : at'[d] = at[d] /\ result'[d] = result[d] /\ req'[d] = req[d]
  BY <1>0 DEF Answers, Shape
<1>2. /\ \A d \in Calls : Tool(d)' = Tool(d)
      /\ \A d \in Calls \ {c} :
            /\ (Begun(d)' <=> Begun(d)) /\ (Moving(d)' <=> Moving(d))
            /\ (InFlight(d)' <=> InFlight(d)) /\ (LeftUnknown(d)' <=> LeftUnknown(d))
            /\ (Awaited(d)' <=> Awaited(d)) /\ (Pending(d)' <=> Pending(d))
  BY <1>0, <1>1, OthersKeep
<1>3. /\ Begun(c)' /\ (Moving(c)' <=> Moving(c)) /\ (InFlight(c)' <=> InFlight(c))
      /\ (LeftUnknown(c)' <=> LeftUnknown(c)) /\ (Pending(c)' => Pending(c))
  BY <1>0, <1>1, <1>2 DEF Begun, Moving, InFlight, LeftUnknown, Pending
<1>4. (ConnBegun' <=> ConnBegun) /\ (Excused' <=> Excused)
  BY <1>0, <1>2, <1>3 DEF ConnBegun, Excused
<1>5. Shape' /\ MoverInv' /\ EndInv'
  BY <1>0, <1>1, <1>2, <1>3 DEF Shape, MoverInv, EndInv
<1>6. BeginInv'
  BY <1>0, <1>1, <1>2, <1>3, <1>4 DEF BeginInv
<1>7. SentInv' /\ StartInv'
  BY <1>0, <1>1, <1>2, <1>3 DEF SentInv, StartInv
<1>8. SlotInv' /\ KillInv'
  BY <1>0, <1>1, <1>2, <1>3, <1>4 DEF SlotInv, KillInv
<1>9. CASE UNCHANGED <<target, accepted>>
  <2>1. BeforeInv' /\ StopInv' /\ AcceptInv'
    BY <1>0, <1>2, <1>3, <1>9 DEF BeforeInv, StopInv, AcceptInv
  <2>2. QED
    BY <1>5, <1>6, <1>7, <1>8, <2>1
<1>10. CASE /\ req'[c] = "ok"
            /\ \/ /\ StepOf(c) = "configure"
                  /\ target' = IF start = "refused" THEN target ELSE "running"
               \/ StepOf(c) = "resume" /\ target = "stopped" /\ target' = "running"
            /\ accepted' = accepted \cup {c}
  <2>1. /\ Tool(c) \in Movers /\ (Tool(c) = "cont" <=> StepOf(c) = "resume")
        /\ at[c] = GoStep(Tool(c)) /\ Pending(c) /\ ~ Pending(c)'
    <3>1. Tool(c) \in Movers /\ (Tool(c) = "cont" <=> StepOf(c) = "resume")
      BY <1>10, Planned, MoverSteps DEF Movers, Connecting
    <3>2. at[c] = GoStep(Tool(c)) /\ GoStep(Tool(c)) \in 2 .. 7
      BY <1>10, <3>1, Positions, Planned, StepOrder
    <3>3. QED
      BY <1>0, <1>1, <1>2, <3>1, <3>2 DEF Pending
  <2>2. Moving(c) \/ LeftUnknown(c)
    BY <1>0, <2>1 DEF SentInv, Awaited, Moving, LeftUnknown, Movers
  <2>3. phase # "stopped" /\ \A d \in Calls : Moving(d) => d = c
    BY <2>2 DEF MoverInv, EndInv
  <2>4. BeforeInv'
    <3>1. ASSUME NEW d \in Calls, Pending(d)', Tool(d) \in Connecting, Begun(d)'
          PROVE  target' = "none"
      <4>1. d # c /\ target = "none"
        BY <1>2, <2>1, <3>1 DEF BeforeInv
      <4>2. Tool(c) \notin Connecting
        BY <3>1, <4>1, Lone
      <4>3. QED
        BY <1>10, <2>1, <4>1, <4>2 DEF Movers
    <3>2. ASSUME NEW d \in Calls, Pending(d)'
          PROVE  ~ Moving(d)'
      BY <1>2, <1>3, <2>1, <2>3, <3>2
    <3>3. QED
      BY <1>2, <3>1, <3>2 DEF BeforeInv
  <2>5. StopInv'
    <3>1. Moving(c) => got[c] = "none"
      BY <1>0, <2>1 DEF BeforeInv
    <3>2. QED
      BY <1>0, <1>2, <1>3, <2>3, <3>1 DEF StopInv
  <2>6. AcceptInv'
    BY <1>0, <1>2, <1>3, <1>10, <2>1, <2>3 DEF AcceptInv
  <2>7. QED
    BY <1>5, <1>6, <1>7, <1>8, <2>4, <2>5, <2>6
<1>11. QED
  <2>1. Shape
    OBVIOUS
  <2>2. req' = [req EXCEPT ![c] = "ok"] => req'[c] = "ok"
    BY <2>1 DEF Shape
  <2>3. QED
    BY <1>9, <1>10, <2>2 DEF Answers

\* A call ends.
LEMMA EndsStep ==
    ASSUME Inv, NEW c \in Calls, NEW how, Ends(c, how)
    PROVE  Inv'
<1> USE DEF Inv
<1>0. /\ UNCHANGED <<plan, at, req, got, slot, start, child, hung, loop, target, accepted>>
      /\ result[c] = "none" /\ result' = [result EXCEPT ![c] = how]
      /\ how \in {"done", "failed", "cancelled"}
  BY DEF Ends, world
<1>1. /\ result' \in [Calls -> {"none", "done", "failed", "cancelled"}] /\ result'[c] = how
      /\ \A d \in Calls \ {c} : at'[d] = at[d] /\ result'[d] = result[d] /\ req'[d] = req[d]
  BY <1>0 DEF Shape
<1>2. /\ \A d \in Calls : Tool(d)' = Tool(d)
      /\ \A d \in Calls \ {c} :
            /\ (Begun(d)' <=> Begun(d)) /\ (Moving(d)' <=> Moving(d))
            /\ (InFlight(d)' <=> InFlight(d)) /\ (LeftUnknown(d)' <=> LeftUnknown(d))
            /\ (Awaited(d)' <=> Awaited(d)) /\ (Pending(d)' <=> Pending(d))
  BY <1>0, <1>1, OthersKeep
<1>3. /\ (Begun(c)' <=> Begun(c)) /\ ~ InFlight(c)' /\ ~ Moving(c)' /\ (Pending(c)' <=> Pending(c))
      /\ Begun(c) => InFlight(c)
      /\ Begun(c) /\ Tool(c) \in Movers => Moving(c)
      /\ Moving(c) => Begun(c) /\ Tool(c) \in Movers
  BY <1>0, <1>1, <1>2 DEF Begun, Moving, InFlight, Pending
<1>4. ConnBegun' <=> ConnBegun
  BY <1>2, <1>3 DEF ConnBegun
<1>5. Excused => Excused'
  BY <1>0, <1>1, <1>2 DEF Excused
<1>6. Moving(c) /\ Tool(c) \in Connecting /\ how = "done" => start = "ok"
  <2>1. ASSUME Moving(c), Tool(c) \in Connecting, how = "done"
        PROVE  start = "ok"
    <3>1. at[c] > StartedStep(Tool(c))
      BY <2>1, Positions, Planned DEF Ends, Moving, InFlight
    <3>2. QED
      BY <1>3, <2>1, <3>1 DEF StartInv, Moving
  <2>2. QED
    BY <2>1
<1>7. Shape'
  BY <1>0, <1>1 DEF Shape
<1>8. BeginInv'
  BY <1>0, <1>2, <1>3, <1>4 DEF BeginInv, Ends
<1>9. MoverInv'
  <2>1. phase' = "stopped" => phase = "stopped" \/ Moving(c)
    BY DEF Ends
  <2>2. QED
    BY <1>2, <1>3, <2>1 DEF MoverInv
<1>10. SentInv'
  <2>1. Tool(c) \in Movers /\ req[c] = "sent" => Awaited(c)'
    BY <1>0, <1>1 DEF Ends, Awaited
  <2>2. QED
    BY <1>0, <1>2, <2>1 DEF SentInv, Works
<1>11. EndInv'
  <2>1. ASSUME NEW d \in Calls, LeftUnknown(d)'
        PROVE  phase' # "stopped" /\ \A e \in Calls : ~ Moving(e)'
    <3>1. CASE d # c
      <4>1. phase # "stopped" /\ \A e \in Calls : ~ Moving(e)
        BY <1>2, <2>1, <3>1 DEF EndInv
      <4>2. QED
        BY <1>2, <1>3, <4>1 DEF Ends
    <3>2. CASE d = c
      <4>1. /\ Begun(c) /\ Tool(c) \in Movers /\ how # "done"
            /\ Tool(c) = "cont" => how = "cancelled"
        BY <1>1, <1>2, <1>3, <2>1, <3>2 DEF LeftUnknown, Movers, Connecting
      <4>2. Moving(c) /\ phase # "stopped" /\ \A e \in Calls : Moving(e) => e = c
        BY <1>3, <4>1 DEF MoverInv
      <4>3. phase' # "stopped"
        BY <4>1, <4>2 DEF Ends, Movers
      <4>4. QED
        BY <1>2, <1>3, <4>2, <4>3
    <3>3. QED
      BY <3>1, <3>2
  <2>2. QED
    BY <2>1 DEF EndInv
<1>12. StartInv'
  <2>1. Tool(c) \in Connecting /\ how = "done" => start = "ok" \/ ~ Begun(c)
    BY <1>3, <1>6 DEF Movers
  <2>2. QED
    BY <1>0, <1>1, <1>2, <1>3, <2>1 DEF StartInv
<1>13. SlotInv' /\ BeforeInv' /\ AcceptInv'
  BY <1>0, <1>2, <1>3 DEF SlotInv, BeforeInv, AcceptInv, Works
<1>14. StopInv'
  <2>1. ASSUME phase' = "stopped", Works
        PROVE  target = "stopped"
    <3>1. CASE phase = "stopped"
      BY <2>1, <3>1 DEF StopInv
    <3>2. CASE Moving(c) /\ how = "done" /\ got[c] = "stopped"
      <4>1. start = "ok"
        BY <1>3, <1>6, <3>2, StartedOk DEF Movers
      <4>2. QED
        BY <2>1, <3>2, <4>1 DEF StopInv
    <3>3. CASE req[c] = "closed"
      BY <2>1, <3>3 DEF SentInv
    <3>4. QED
      BY <2>1, <3>1, <3>2, <3>3 DEF Ends
  <2>2. QED
    BY <1>0, <1>2, <1>3, <2>1 DEF StopInv, Works
<1>15. KillInv'
  <2>1. ended => ended'
    BY DEF Ends
  <2>2. ended' /\ child = "running" => Excused'
    <3>1. CASE ended' = ended
      BY <1>5, <3>1 DEF KillInv
    <3>2. CASE Tool(c) \in Connecting /\ how # "done"
      BY <1>0, <1>1, <1>2, <3>2 DEF Excused
    <3>3. CASE Tool(c) = "disconnect" /\ how = "cancelled"
      BY <1>1, <1>2, <3>3 DEF Excused
    <3>4. CASE Tool(c) = "disconnect" /\ InFlight(c) /\ StepOf(c) = "over"
      <4>1. at[c] > 2
        BY <3>4, DisconnectScript, Planned DEF InFlight
      <4>2. QED
        BY <1>5, <3>4, <4>1 DEF KillInv
    <3>5. QED
      BY <3>1, <3>2, <3>3, <3>4 DEF Ends
  <2>3. QED
    BY <1>0, <1>2, <1>3, <2>1, <2>2 DEF KillInv
<1>16. QED
  BY <1>7, <1>8, <1>9, <1>10, <1>11, <1>12, <1>13, <1>14, <1>15

-----------------------------------------------------------------------------
(* The theorems *)

\* The invariant holds at the start.
LEMMA InvInit == Init => Inv
<1> SUFFICES ASSUME Init
             PROVE  Inv
  OBVIOUS
<1>1. \A c \in Calls : /\ at[c] = 0 /\ result[c] = "none" /\ req[c] = "none" /\ got[c] = "none"
                       /\ ~ Begun(c) /\ ~ InFlight(c) /\ ~ Moving(c) /\ ~ LeftUnknown(c)
  BY DEF Init, Begun, InFlight, Moving, LeftUnknown
<1>2. Shape
  BY DEF Init, Shape
<1>3. BeginInv /\ MoverInv /\ SentInv /\ EndInv
  BY <1>1 DEF Init, BeginInv, MoverInv, SentInv, EndInv
<1>4. StartInv /\ SlotInv
  BY <1>1, LldbAssumption DEF Init, StartInv, SlotInv, LldbAssumption
<1>5. BeforeInv /\ StopInv /\ AcceptInv /\ KillInv
  BY <1>1 DEF Init, BeforeInv, StopInv, AcceptInv, KillInv
<1>6. QED
  BY <1>2, <1>3, <1>4, <1>5 DEF Inv

\* Every step keeps it.
LEMMA InvStep == Inv /\ [Next]_vars => Inv'
<1> SUFFICES ASSUME Inv, [Next]_vars
             PROVE  Inv'
  OBVIOUS
<1>1. Unseen \/ OtherStep \/ \E c \in Calls : CallStep(c)
  BY StepForms DEF Inv
<1>2. ASSUME NEW c \in Calls, CallStep(c)
      PROVE  Inv'
  BY <1>2, StartsStep, AsksStep, AdvancesStep, StartSentStep, RegisterStep, KillStep, AnswersStep,
     EndsStep DEF CallStep
<1>3. QED
  BY <1>1, <1>2, UnseenStep, OtherStepKeeps

\* So it always holds.
LEMMA InvAlways == Spec => []Inv
<1>1. Init => Inv
  BY InvInit
<1>2. Inv /\ [Next]_vars => Inv'
  BY InvStep
<1>3. QED
  BY <1>1, <1>2, PTL DEF Spec

\* No stop is missed: a continue, a step or a launch that stops on entry, whose request
\* set the debuggee running, holds the slot while it waits, and the debuggee runs
\* (resume_and_wait and run_launch, which register the waiter first).
THEOREM NoStopMissed == Spec => []NoMissedStop
<1>1. Inv => NoMissedStop
  <2> SUFFICES ASSUME Inv, NEW c \in accepted, At(c) = "stop", got[c] = "none",
                      Tool(c) # "attach", start # "refused"
               PROVE  slot = c /\ target \notin {"stopped", "exited"}
    BY DEF NoMissedStop
  <2>1. c \in Calls /\ InFlight(c) /\ StepOf(c) = "stop"
    BY DEF Inv, AcceptInv, At
  <2>2. Tool(c) \in Movers /\ Tool(c) # "launch"
    BY <2>1, Planned, MoverSteps, LaunchScript DEF Inv
  <2>3. Moving(c) /\ Tool(c) \in {"cont", "launch_entry"}
    BY <2>1, <2>2 DEF Moving, Movers, Connecting
  <2>4. ~ Pending(c) /\ target \notin {"stopped", "exited"}
    BY <2>3 DEF Inv, AcceptInv
  <2>5. QED
    BY <2>1, <2>3, <2>4, Told
<1>2. QED
  BY <1>1, InvAlways, PTL

\* Between calls a session that says it is stopped has a stopped debuggee, as long as the
\* connection lives (check_state, the resumption guard and the clean-up of launch).
THEOREM StoppedMeansStopped == Spec => []StoppedHolds
<1>1. Inv => StoppedHolds
  BY DEF Inv, StopInv, StoppedHolds
<1>2. QED
  BY <1>1, InvAlways, PTL

\* An lldb-dap process is left behind only by a disconnect that was dropped, or a launch
\* or attach that did not succeed (disconnect kills whatever its request came to).
THEOREM NoChildLeft == Spec => []ChildGone
<1>1. Inv => ChildGone
  BY DEF Inv, KillInv, Excused, ChildGone
<1>2. QED
  BY <1>1, InvAlways, PTL

=============================================================================
