------------------------- MODULE ToolSession_proofs -------------------------
(***************************************************************************)
(* Proofs about ToolSession, for any number of tool calls and backends:    *)
(* its variables keep their types whatever the client does; a client that  *)
(* runs the tools which start or end a session alone (pause aside) always  *)
(* finds a session that matches its backend, and at every step one that    *)
(* implements SessionLife.                                                 *)
(***************************************************************************)
EXTENDS ToolSession, TLAPS

-----------------------------------------------------------------------------
(* The inductive invariant behind SessionMatchesBackend *)

\* The tools that start or end a session.
Exclusive == Connecting \cup {"disconnect"}

\* The client overlaps them with nothing but pause, which writes nothing.
CarefulClient ==
    \A k \in Exclusive : \A l \in Kinds \ {"pause"} : {k, l} \notin Overlaps

\* Where the handler of each kind of tool can be.
ConnectPcs == {"configure", "connect", "spawn", "await", "program", "settle", "mark", "cache",
               "clear", "reset", "drain", "undo_reset", "undo_drain", "undo_clear"}
ResumePcs == {"is_dump", "backend", "snapshot", "run", "await", "apply", "cache", "drain"}
PausePcs == {"backend", "await"}
DisconnectPcs == {"backend", "ask", "take", "reset", "drain"}

PcInv ==
    \A t \in Tools : InFlight(t) =>
        /\ kind[t] \in Connecting => pc[t] \in ConnectPcs
        /\ kind[t] = "resume" => pc[t] \in ResumePcs
        /\ kind[t] = "pause" => pc[t] \in PausePcs
        /\ kind[t] = "disconnect" => pc[t] \in DisconnectPcs
        /\ pc[t] = "mark" => kind[t] = "dump"

\* A tool that starts or ends a session shares its time only with pauses.
MutexInv ==
    \A t, u \in Tools :
        (t # u /\ InFlight(t) /\ InFlight(u) /\ kind[t] \in Exclusive) => kind[u] = "pause"

\* What the session caches comes from backend b.
From(b) ==
    /\ program \in {b, None} /\ lastStop \in {b, None} /\ exitCode \in {b, None}
    /\ isDump => b # None /\ kind[b] = "dump"

Blank == state = "idle" /\ slot = None /\ From(None)

Agree == (state = "idle" <=> slot = None) /\ From(slot)

\* The handler is about to reset the session.
ResetPending(t) == pc[t] \in {"clear", "reset", "undo_reset"}

\* A pump whose generation is the current one belongs to the backend in the
\* slot, or to a session that is about to be reset.
PumpInv ==
    \A b \in pumps :
        /\ pumpGen[b] <= gen
        /\ pumpGen[b] = gen => (slot = b \/ \E t \in Tools : ResetPending(t))

\* What a connecting tool relies on: nothing before set_backend, its own backend
\* after it, and while it cleans up a slot and a session that end up blank.
ConnectInv(t) ==
    /\ pc[t] = "configure" => Blank
    /\ pc[t] = "connect" => state # "idle" /\ slot = None /\ From(None)
    /\ pc[t] \in {"spawn", "await", "program", "settle", "mark", "cache"}
           => state # "idle" /\ slot = t /\ mine[t] = t /\ From(t)
    /\ pc[t] \in {"reset", "undo_reset"} => slot = None
    /\ pc[t] \in {"drain", "undo_drain", "undo_clear"} => Blank

DisconnectInv(t) ==
    /\ pc[t] \in {"backend", "ask", "take"} => state # "idle" /\ Agree
    /\ pc[t] = "reset" => slot = None
    /\ pc[t] = "drain" => Blank

\* A resume in flight holds the backend in the slot.
ResumeInv(t) ==
    /\ slot # None
    /\ pc[t] \in {"snapshot", "run", "await", "apply", "cache"} => mine[t] = slot

HandlerInv ==
    \A t \in Tools : InFlight(t) =>
        /\ kind[t] \in Connecting => ConnectInv(t)
        /\ kind[t] = "disconnect" => DisconnectInv(t)
        /\ kind[t] = "resume" => ResumeInv(t)

AgreeInv == (\A t \in Tools : InFlight(t) => kind[t] \notin Exclusive) => Agree

Invariants == PcInv /\ MutexInv /\ PumpInv /\ HandlerInv /\ AgreeInv

Inv == TypeOK /\ Invariants

-----------------------------------------------------------------------------
(* Types *)

\* The initial session has the types of its fields (Inner::new).
LEMMA TypeInit == Init => TypeOK
<1> SUFFICES ASSUME Init PROVE TypeOK
  OBVIOUS
<1> USE DEF Init
<1>1. kind \in [Tools -> Kinds]
  BY ToolsAssumption DEF ToolsAssumption
<1>2. /\ state \in States /\ gen \in Nat /\ slot \in Backends
      /\ program \in Backends /\ lastStop \in Backends /\ exitCode \in Backends
  BY DEF States, Backends
<1>3. isDump \in BOOLEAN /\ output \in SUBSET Tools /\ pumps \in SUBSET Tools
  OBVIOUS
<1>4. pc \in [Tools -> {"start"} \cup Steps \cup Finished]
  OBVIOUS
<1>5. mine \in [Tools -> Backends] /\ snap \in [Tools -> Nat] /\ pumpGen \in [Tools -> Nat]
  BY DEF Backends
<1>6. outcome \in [Tools -> {"none", "stopped", "running", "exited", "terminated"}]
  OBVIOUS
<1>7. /\ backend \in [Tools -> {"none", "up", "exited", "dead"}]
      /\ stream \in [Tools -> SUBSET {"output", "terminated"}]
  OBVIOUS
<1>8. QED
  BY <1>1, <1>2, <1>3, <1>4, <1>5, <1>6, <1>7 DEF TypeOK

\* Every step of a handler, a pump or a backend keeps the types.
LEMMA TypeStep == TypeOK /\ [Next]_vars => TypeOK'
<1> SUFFICES ASSUME TypeOK, [Next]_vars PROVE TypeOK'
  OBVIOUS
<1> USE DEF TypeOK, States, Finished, Steps, Backends, vars, inner, tools, backends, pump
<1>1. CASE UNCHANGED vars
  BY <1>1
<1>2. ASSUME NEW t \in Tools, ConnectGuard(t) PROVE TypeOK'
  BY <1>2 DEF ConnectGuard, CheckState, Goto
<1>3. ASSUME NEW t \in Tools, Configure(t) PROVE TypeOK'
  BY <1>3 DEF Configure, SetState, Goto
<1>4. ASSUME NEW t \in Tools, ConnectFails(t) PROVE TypeOK'
  BY <1>4 DEF ConnectFails, Goto
<1>5. ASSUME NEW t \in Tools, SetBackend(t) PROVE TypeOK'
  BY <1>5 DEF SetBackend, Goto
<1>6. ASSUME NEW t \in Tools, SpawnPump(t) PROVE TypeOK'
  BY <1>6 DEF SpawnPump, Goto
<1>7. ASSUME NEW t \in Tools, Connected(t) PROVE TypeOK'
  BY <1>7 DEF Connected, ConnectOutcomes, Goto
<1>8. ASSUME NEW t \in Tools, ConnectAborted(t) PROVE TypeOK'
  BY <1>8 DEF ConnectAborted, Goto
<1>9. ASSUME NEW t \in Tools, SetProgram(t) PROVE TypeOK'
  BY <1>9 DEF SetProgram, Goto
<1>10. ASSUME NEW t \in Tools, Settle(t) PROVE TypeOK'
  BY <1>10 DEF Settle, SettledState, SetState, Goto
<1>11. ASSUME NEW t \in Tools, SetDump(t) PROVE TypeOK'
  BY <1>11 DEF SetDump, Goto
<1>12. ASSUME NEW t \in Tools, DoClear(t) PROVE TypeOK'
  <2>1. CASE pc[t] = "clear"
    BY <1>12, <2>1 DEF DoClear, Ended, Goto
  <2>2. CASE pc[t] = "undo_clear"
    BY <1>12, <2>2 DEF DoClear, Ended, Goto
  <2>3. QED
    BY <1>12, <2>1, <2>2 DEF DoClear
<1>13. ASSUME NEW t \in Tools, DoReset(t) PROVE TypeOK'
  <2> USE <1>13 DEF DoReset, ResetInner, Goto
  <2>1. gen' \in Nat /\ state' \in States
    OBVIOUS
  <2>2. program' \in Backends /\ lastStop' \in Backends /\ exitCode' \in Backends
    OBVIOUS
  <2>3. isDump' \in BOOLEAN
    OBVIOUS
  <2>4. pc' \in [Tools -> {"start"} \cup Steps \cup Finished]
    OBVIOUS
  <2>5. UNCHANGED <<output, slot, kind, mine, snap, outcome, backends, pump>>
    OBVIOUS
  <2>6. QED
    BY <2>1, <2>2, <2>3, <2>4, <2>5
<1>14. ASSUME NEW t \in Tools, DoDrain(t) PROVE TypeOK'
  <2>1. CASE pc[t] = "drain"
    BY <1>14, <2>1 DEF DoDrain, Ended, Goto
  <2>2. CASE pc[t] = "undo_drain"
    BY <1>14, <2>2 DEF DoDrain, Ended, Goto
  <2>3. QED
    BY <1>14, <2>1, <2>2 DEF DoDrain
<1>15. ASSUME NEW t \in Tools, ResumeGuard(t) PROVE TypeOK'
  BY <1>15 DEF ResumeGuard, CheckState, Goto
<1>16. ASSUME NEW t \in Tools, ResumeIsDump(t) PROVE TypeOK'
  BY <1>16 DEF ResumeIsDump, Goto
<1>17. ASSUME NEW t \in Tools, ResumeBackend(t) PROVE TypeOK'
  BY <1>17 DEF ResumeBackend, CurrentBackend, Goto
<1>18. ASSUME NEW t \in Tools, ResumeSnapshot(t) PROVE TypeOK'
  BY <1>18 DEF ResumeSnapshot, Goto
<1>19. ASSUME NEW t \in Tools, ResumeRun(t) PROVE TypeOK'
  BY <1>19 DEF ResumeRun, SetState, Goto
<1>20. ASSUME NEW t \in Tools, Resumed(t) PROVE TypeOK'
  BY <1>20 DEF Resumed, Goto
<1>21. ASSUME NEW t \in Tools, ResumeFails(t) PROVE TypeOK'
  BY <1>21 DEF ResumeFails, SetState, Goto
<1>22. ASSUME NEW t \in Tools, ResumeCancelled(t) PROVE TypeOK'
  BY <1>22 DEF ResumeCancelled, Goto
<1>23. ASSUME NEW t \in Tools, ApplyStopped(t) PROVE TypeOK'
  BY <1>23 DEF ApplyStopped, SetStateIfGeneration, SetState, Goto
<1>24. ASSUME NEW t \in Tools, ApplyExited(t) PROVE TypeOK'
  BY <1>24 DEF ApplyExited, TerminateIfGeneration, Goto
<1>25. ASSUME NEW t \in Tools, ApplyTerminated(t) PROVE TypeOK'
  BY <1>25 DEF ApplyTerminated, SetStateIfGeneration, SetState, Goto
<1>26. ASSUME NEW t \in Tools, PauseGuard(t) PROVE TypeOK'
  BY <1>26 DEF PauseGuard, CheckState, Goto
<1>27. ASSUME NEW t \in Tools, PauseBackend(t) PROVE TypeOK'
  BY <1>27 DEF PauseBackend, CurrentBackend, Goto
<1>28. ASSUME NEW t \in Tools, Paused(t) PROVE TypeOK'
  BY <1>28 DEF Paused, Goto
<1>29. ASSUME NEW t \in Tools, DisconnectGuard(t) PROVE TypeOK'
  BY <1>29 DEF DisconnectGuard, CheckState, Goto
<1>30. ASSUME NEW t \in Tools, DisconnectBackend(t) PROVE TypeOK'
  BY <1>30 DEF DisconnectBackend, CurrentBackend, Goto
<1>31. ASSUME NEW t \in Tools, DisconnectAsk(t) PROVE TypeOK'
  BY <1>31 DEF DisconnectAsk, Goto
<1>32. ASSUME NEW t \in Tools, DisconnectTake(t) PROVE TypeOK'
  BY <1>32 DEF DisconnectTake, Goto
<1>33. ASSUME NEW b \in Tools, PumpOutput(b) PROVE TypeOK'
  BY <1>33 DEF PumpOutput
<1>34. ASSUME NEW b \in Tools, PumpTerminated(b) PROVE TypeOK'
  BY <1>34 DEF PumpTerminated, TerminateIfGeneration
<1>35. ASSUME NEW b \in Tools, BackendOutput(b) PROVE TypeOK'
  BY <1>35 DEF BackendOutput
<1>36. ASSUME NEW b \in Tools, BackendExits(b) PROVE TypeOK'
  BY <1>36 DEF BackendExits
<1>37. ASSUME NEW b \in Tools, BackendTerminates(b) PROVE TypeOK'
  BY <1>37 DEF BackendTerminates
<1>38. ASSUME NEW t \in Tools, CacheStop(t) PROVE TypeOK'
  BY <1>38 DEF CacheStop, SetLastStopped, Goto
<1>39. QED
  BY <1>1, <1>2, <1>3, <1>4, <1>5, <1>6, <1>7, <1>8, <1>9, <1>10, <1>11, <1>12, <1>13,
     <1>14, <1>15, <1>16, <1>17, <1>18, <1>19, <1>20, <1>21, <1>22, <1>23, <1>24, <1>25,
     <1>26, <1>27, <1>28, <1>29, <1>30, <1>31, <1>32, <1>33, <1>34, <1>35, <1>36, <1>37,
     <1>38
  DEF Next, Connect, Launch, Attach, OpenCrashDump, AttachKernel, Handshake, Resume,
      HandleStopResult, Pause, Disconnect, Finish, Pump, Backend

\* Whatever the tool calls, their overlaps and the backends do, the session, the
\* handlers and the pumps stay within their types.
THEOREM TypeCorrect == Spec => []TypeOK
<1>1. QED
  BY TypeInit, TypeStep, PTL DEF Spec

-----------------------------------------------------------------------------
(* The invariant *)

\* What check_state finds in flight when a careful client makes a call.
LEMMA AdmittedAlone ==
    ASSUME TypeOK, CarefulClient, NEW t \in Tools, Admitted(t),
           NEW u \in Tools, u # t, InFlight(u)
    PROVE  /\ kind[t] \in Exclusive => kind[u] = "pause"
           /\ kind[t] # "pause" => kind[u] \notin Exclusive
<1>1. kind[t] \in Kinds /\ kind[u] \in Kinds
  BY DEF TypeOK
<1>2. {kind[t], kind[u]} \in Overlaps
  BY DEF Admitted
<1>3. {kind[u], kind[t]} \in Overlaps
  <2>1. {kind[u], kind[t]} = {kind[t], kind[u]}
    OBVIOUS
  <2>2. QED
    BY <1>2, <2>1
<1>4. kind[t] \in Exclusive => kind[u] = "pause"
  BY <1>1, <1>2 DEF CarefulClient
<1>5. kind[t] # "pause" => kind[u] \notin Exclusive
  BY <1>1, <1>3 DEF CarefulClient
<1>6. QED
  BY <1>4, <1>5

\* The session is blank before the first call.
LEMMA InvInit == Init => Inv
<1> SUFFICES ASSUME Init PROVE Inv
  OBVIOUS
<1>1. TypeOK
  BY TypeInit
<1>2. \A t \in Tools : ~ InFlight(t)
  BY DEF Init, InFlight
<1>3. Agree
  BY DEF Init, Agree, From
<1>4. PumpInv
  BY DEF Init, PumpInv
<1>5. QED
  BY <1>1, <1>2, <1>3, <1>4 DEF Inv, Invariants, PcInv, MutexInv, HandlerInv, AgreeInv

\* The steps of the last calls of a handler.
LEMMA FinishPreserves == ASSUME Inv, CarefulClient, NEW t \in Tools, Finish(t) PROVE Invariants'
<1> USE ToolsAssumption DEF ToolsAssumption, Inv, Invariants, TypeOK, InFlight, Finished,
        Backends, inner, tools, backends, pump, Exclusive, Connecting, Kinds,
        PcInv, ConnectPcs, ResumePcs, PausePcs, DisconnectPcs, MutexInv, PumpInv, ResetPending,
        HandlerInv, ConnectInv, DisconnectInv, ResumeInv, AgreeInv, Agree, Blank, From
<1>1. CASE DoClear(t)
  BY <1>1 DEF DoClear, Ended, Goto
<1>2. CASE DoReset(t)
  BY <1>2 DEF DoReset, ResetInner, Goto
<1>3. CASE DoDrain(t)
  BY <1>3 DEF DoDrain, Ended, Goto
<1>4. QED
  BY <1>1, <1>2, <1>3
  DEF Finish

\* The steps of set_last_stopped.
LEMMA CacheStopPreserves ==
    ASSUME Inv, CarefulClient, NEW t \in Tools, CacheStop(t)
    PROVE  Invariants'
<1> USE ToolsAssumption DEF ToolsAssumption, Inv, Invariants, TypeOK, InFlight, Finished,
        Backends, inner, tools, backends, pump, Exclusive, Connecting, Kinds,
        PcInv, ConnectPcs, ResumePcs, PausePcs, DisconnectPcs, MutexInv, PumpInv, ResetPending,
        HandlerInv, ConnectInv, DisconnectInv, ResumeInv, AgreeInv, Agree, Blank, From
<1>1. CASE CacheStop(t)
  BY <1>1 DEF CacheStop, SetLastStopped, Goto
<1>2. QED
  BY <1>1

\* The steps of launch, attach, open_crash_dump and attach_kernel.
LEMMA ConnectPreserves == ASSUME Inv, CarefulClient, NEW t \in Tools, Connect(t) PROVE Invariants'
<1> USE ToolsAssumption DEF ToolsAssumption, Inv, Invariants, TypeOK, InFlight, Finished,
        Backends, inner, tools, backends, pump, Exclusive, Connecting, Kinds,
        PcInv, ConnectPcs, ResumePcs, PausePcs, DisconnectPcs, MutexInv, PumpInv, ResetPending,
        HandlerInv, ConnectInv, DisconnectInv, ResumeInv, AgreeInv, Agree, Blank, From
<1>1. CASE ConnectGuard(t)
  <2> DEFINE Others == \A u \in Tools : (u # t /\ InFlight(u)) =>
                          /\ kind[t] \in Exclusive => kind[u] = "pause"
                          /\ kind[t] # "pause" => kind[u] \notin Exclusive
  <2>0. Others
    BY <1>1, AdmittedAlone DEF ConnectGuard, CheckState
  <2>1. PcInv'
    BY <1>1, <2>0 DEF ConnectGuard, CheckState, Goto, Admitted
  <2>2. MutexInv'
    BY <1>1, <2>0 DEF ConnectGuard, CheckState, Goto, Admitted
  <2>3. PumpInv'
    BY <1>1, <2>0 DEF ConnectGuard, CheckState, Goto, Admitted
  <2>4. HandlerInv'
    BY <1>1, <2>0 DEF ConnectGuard, CheckState, Goto, Admitted
  <2>5. AgreeInv'
    BY <1>1, <2>0 DEF ConnectGuard, CheckState, Goto, Admitted
  <2>6. QED
    BY <2>1, <2>2, <2>3, <2>4, <2>5
<1>2. CASE Configure(t)
  BY <1>2 DEF Configure, SetState, Goto
<1>3. CASE ConnectFails(t)
  BY <1>3 DEF ConnectFails, Goto
<1>4. CASE SetBackend(t)
  BY <1>4 DEF SetBackend, Goto
<1>5. CASE SpawnPump(t)
  BY <1>5 DEF SpawnPump, Goto
<1>6. CASE Connected(t)
  BY <1>6 DEF Connected, ConnectOutcomes, Goto
<1>7. CASE ConnectAborted(t)
  BY <1>7 DEF ConnectAborted, Goto
<1>8. CASE SetProgram(t)
  BY <1>8 DEF SetProgram, Goto
<1>9. CASE Settle(t)
  BY <1>9 DEF Settle, SettledState, SetState, Goto
<1>10. CASE SetDump(t)
  BY <1>10 DEF SetDump, Goto
<1>11. QED
  BY <1>1, <1>2, <1>3, <1>4, <1>5, <1>6, <1>7, <1>8, <1>9, <1>10,
     FinishPreserves, CacheStopPreserves
  DEF Connect, Launch, Attach, OpenCrashDump, AttachKernel, Handshake

\* The steps of continue and step_*.
LEMMA ResumePreserves == ASSUME Inv, CarefulClient, NEW t \in Tools, Resume(t) PROVE Invariants'
<1> USE ToolsAssumption DEF ToolsAssumption, Inv, Invariants, TypeOK, InFlight, Finished,
        Backends, inner, tools, backends, pump, Exclusive, Connecting, Kinds,
        PcInv, ConnectPcs, ResumePcs, PausePcs, DisconnectPcs, MutexInv, PumpInv, ResetPending,
        HandlerInv, ConnectInv, DisconnectInv, ResumeInv, AgreeInv, Agree, Blank, From
<1>1. CASE ResumeGuard(t)
  <2> DEFINE Others == \A u \in Tools : (u # t /\ InFlight(u)) =>
                          /\ kind[t] \in Exclusive => kind[u] = "pause"
                          /\ kind[t] # "pause" => kind[u] \notin Exclusive
  <2>0. Others
    BY <1>1, AdmittedAlone DEF ResumeGuard, CheckState
  <2>1. PcInv'
    BY <1>1, <2>0 DEF ResumeGuard, CheckState, Goto, Admitted
  <2>2. MutexInv'
    BY <1>1, <2>0 DEF ResumeGuard, CheckState, Goto, Admitted
  <2>3. PumpInv'
    BY <1>1, <2>0 DEF ResumeGuard, CheckState, Goto, Admitted
  <2>4. HandlerInv'
    BY <1>1, <2>0 DEF ResumeGuard, CheckState, Goto, Admitted
  <2>5. AgreeInv'
    BY <1>1, <2>0 DEF ResumeGuard, CheckState, Goto, Admitted
  <2>6. QED
    BY <2>1, <2>2, <2>3, <2>4, <2>5
<1>2. CASE ResumeIsDump(t)
  BY <1>2 DEF ResumeIsDump, Goto
<1>3. CASE ResumeBackend(t)
  BY <1>3 DEF ResumeBackend, CurrentBackend, Goto
<1>4. CASE ResumeSnapshot(t)
  BY <1>4 DEF ResumeSnapshot, Goto
<1>5. CASE ResumeRun(t)
  BY <1>5 DEF ResumeRun, SetState, Goto
<1>6. CASE Resumed(t)
  BY <1>6 DEF Resumed, Goto
<1>7. CASE ResumeFails(t)
  BY <1>7 DEF ResumeFails, SetState, Goto
<1>8. CASE ResumeCancelled(t)
  BY <1>8 DEF ResumeCancelled, Goto
<1>9. CASE ApplyStopped(t)
  BY <1>9 DEF ApplyStopped, SetStateIfGeneration, SetState, Goto
<1>10. CASE ApplyExited(t)
  BY <1>10 DEF ApplyExited, TerminateIfGeneration, Goto
<1>11. CASE ApplyTerminated(t)
  BY <1>11 DEF ApplyTerminated, SetStateIfGeneration, SetState, Goto
<1>12. QED
  BY <1>1, <1>2, <1>3, <1>4, <1>5, <1>6, <1>7, <1>8, <1>9, <1>10, <1>11,
     FinishPreserves, CacheStopPreserves
  DEF Resume, HandleStopResult, Finish

\* The steps of pause.
LEMMA PausePreserves == ASSUME Inv, CarefulClient, NEW t \in Tools, Pause(t) PROVE Invariants'
<1> USE ToolsAssumption DEF ToolsAssumption, Inv, Invariants, TypeOK, InFlight, Finished,
        Backends, inner, tools, backends, pump, Exclusive, Connecting, Kinds,
        PcInv, ConnectPcs, ResumePcs, PausePcs, DisconnectPcs, MutexInv, PumpInv, ResetPending,
        HandlerInv, ConnectInv, DisconnectInv, ResumeInv, AgreeInv, Agree, Blank, From
<1>1. CASE PauseGuard(t)
  BY <1>1 DEF PauseGuard, CheckState, Goto, Admitted
<1>2. CASE PauseBackend(t)
  BY <1>2 DEF PauseBackend, CurrentBackend, Goto
<1>3. CASE Paused(t)
  BY <1>3 DEF Paused, Goto
<1>4. QED
  BY <1>1, <1>2, <1>3
  DEF Pause

\* The steps of disconnect.
LEMMA DisconnectPreserves ==
    ASSUME Inv, CarefulClient, NEW t \in Tools, Disconnect(t)
    PROVE  Invariants'
<1> USE ToolsAssumption DEF ToolsAssumption, Inv, Invariants, TypeOK, InFlight, Finished,
        Backends, inner, tools, backends, pump, Exclusive, Connecting, Kinds,
        PcInv, ConnectPcs, ResumePcs, PausePcs, DisconnectPcs, MutexInv, PumpInv, ResetPending,
        HandlerInv, ConnectInv, DisconnectInv, ResumeInv, AgreeInv, Agree, Blank, From
<1>1. CASE DisconnectGuard(t)
  <2> DEFINE Others == \A u \in Tools : (u # t /\ InFlight(u)) =>
                          /\ kind[t] \in Exclusive => kind[u] = "pause"
                          /\ kind[t] # "pause" => kind[u] \notin Exclusive
  <2>0. Others
    BY <1>1, AdmittedAlone DEF DisconnectGuard, CheckState
  <2>1. PcInv'
    BY <1>1, <2>0 DEF DisconnectGuard, CheckState, Goto, Admitted
  <2>2. MutexInv'
    BY <1>1, <2>0 DEF DisconnectGuard, CheckState, Goto, Admitted
  <2>3. PumpInv'
    BY <1>1, <2>0 DEF DisconnectGuard, CheckState, Goto, Admitted
  <2>4. HandlerInv'
    BY <1>1, <2>0 DEF DisconnectGuard, CheckState, Goto, Admitted
  <2>5. AgreeInv'
    BY <1>1, <2>0 DEF DisconnectGuard, CheckState, Goto, Admitted
  <2>6. QED
    BY <2>1, <2>2, <2>3, <2>4, <2>5
<1>2. CASE DisconnectBackend(t)
  BY <1>2 DEF DisconnectBackend, CurrentBackend, Goto
<1>3. CASE DisconnectAsk(t)
  BY <1>3 DEF DisconnectAsk, Goto
<1>4. CASE DisconnectTake(t)
  BY <1>4 DEF DisconnectTake, Goto
<1>5. QED
  BY <1>1, <1>2, <1>3, <1>4, FinishPreserves
  DEF Disconnect, Finish

\* The steps of the event pump.
LEMMA PumpPreserves == ASSUME Inv, CarefulClient, NEW b \in Tools, Pump(b) PROVE Invariants'
<1> USE ToolsAssumption DEF ToolsAssumption, Inv, Invariants, TypeOK, InFlight, Finished,
        Backends, inner, tools, backends, pump, Exclusive, Connecting, Kinds,
        PcInv, ConnectPcs, ResumePcs, PausePcs, DisconnectPcs, MutexInv, PumpInv, ResetPending,
        HandlerInv, ConnectInv, DisconnectInv, ResumeInv, AgreeInv, Agree, Blank, From
<1>1. CASE PumpOutput(b)
  BY <1>1 DEF PumpOutput
<1>2. CASE PumpTerminated(b)
  BY <1>2 DEF PumpTerminated, TerminateIfGeneration
<1>3. QED
  BY <1>1, <1>2
  DEF Pump

\* The steps of the backend.
LEMMA BackendPreserves == ASSUME Inv, CarefulClient, NEW b \in Tools, Backend(b) PROVE Invariants'
<1> USE ToolsAssumption DEF ToolsAssumption, Inv, Invariants, TypeOK, InFlight, Finished,
        Backends, inner, tools, backends, pump, Exclusive, Connecting, Kinds,
        PcInv, ConnectPcs, ResumePcs, PausePcs, DisconnectPcs, MutexInv, PumpInv, ResetPending,
        HandlerInv, ConnectInv, DisconnectInv, ResumeInv, AgreeInv, Agree, Blank, From
<1>1. CASE BackendOutput(b)
  BY <1>1 DEF BackendOutput
<1>2. CASE BackendExits(b)
  BY <1>2 DEF BackendExits
<1>3. CASE BackendTerminates(b)
  BY <1>3 DEF BackendTerminates
<1>4. QED
  BY <1>1, <1>2, <1>3
  DEF Backend

\* Every step of a careful client's system keeps the invariant.
LEMMA InvStep == ASSUME CarefulClient PROVE Inv /\ [Next]_vars => Inv'
<1> SUFFICES ASSUME Inv, [Next]_vars PROVE Inv'
  OBVIOUS
<1>1. TypeOK'
  BY TypeStep DEF Inv
<1>2. CASE UNCHANGED vars
  BY <1>2 DEF vars, inner, tools, backends, pump, Inv, Invariants, TypeOK, PcInv, MutexInv, PumpInv,
              HandlerInv, AgreeInv, InFlight, ConnectInv, DisconnectInv, ResumeInv, ResetPending,
              Agree, Blank, From
<1>3. CASE Next
  BY <1>1, <1>3, ConnectPreserves, ResumePreserves, PausePreserves, DisconnectPreserves,
     PumpPreserves, BackendPreserves DEF Next, Inv
<1>4. QED
  BY <1>2, <1>3

\* When nothing is in flight the invariant says that session and backend agree.
LEMMA InvAgrees == Inv => SessionMatchesBackend
  BY DEF Inv, Invariants, AgreeInv, Agree, From, SessionMatchesBackend, Quiet

\* A client that overlaps launch, attach, open_crash_dump, attach_kernel and
\* disconnect with nothing but pause finds, between calls, an idle session
\* exactly when no backend is connected, and only what the connected backend
\* reported: no late event, failed handshake or cancelled call leaves a trace
\* (reset, cleanup_after_cancel, terminate_if_generation).
THEOREM SessionAgrees == CarefulClient => (Spec => []SessionMatchesBackend)
<1> SUFFICES ASSUME CarefulClient PROVE Spec => []SessionMatchesBackend
  OBVIOUS
<1>1. Init => Inv
  BY InvInit
<1>2. Inv /\ [Next]_vars => Inv'
  BY InvStep
<1>3. Inv => SessionMatchesBackend
  BY InvAgrees
<1>4. QED
  BY <1>1, <1>2, <1>3, PTL DEF Spec

-----------------------------------------------------------------------------
(* The inductive invariant behind OneDebuggerAtATime *)

Pumped(b) == b \in pumps /\ pumpGen[b] = gen

\* The session has one backend at most, in the slot and pumped but for the moment
\* between set_backend and spawn_event_pump, and holds only its reports.
CurrentInv ==
    /\ \A b, c \in Current : b = c
    /\ slot # None => Pumped(slot) \/ \E t \in Tools : pc[t] = "spawn"
    /\ {program, lastStop, exitCode} \subseteq Current \cup {None}
    /\ state = "idle" => Current = {}

\* A dump is stopped or terminated, and a resume finds its flag.
DumpInv ==
    /\ \A b \in Current : kind[b] = "dump" => state # "running"
    /\ (\A t \in Tools : InFlight(t) => kind[t] \notin Exclusive)
           => (slot # None /\ kind[slot] = "dump" => isDump)

\* What a handler relies on besides HandlerInv.
Phase(t) ==
    /\ pc[t] = "connect" => state = "configuring" /\ Current = {}
    /\ pc[t] = "clear" => slot = t /\ Pumped(t)
    /\ ResetPending(t) => state # "idle"
    /\ kind[t] = "dump" /\ pc[t] \in {"settle", "mark"} => outcome[t] # "running"
    /\ kind[t] = "dump" /\ pc[t] = "cache" => isDump
    /\ kind[t] = "resume" /\ InFlight(t) /\ pc[t] # "is_dump" => kind[slot] # "dump"

PhaseInv == \A t \in Tools : Phase(t)

LifeInv == CurrentInv /\ DumpInv /\ PhaseInv

\* What a step of handler t leaves alone in the others.
Moves(t) ==
    /\ kind' = kind
    /\ \A u \in Tools \ {t} : pc'[u] = pc[u] /\ outcome'[u] = outcome[u]

\* At the start there is no backend and nothing is known.
LEMMA LifeInit == Init => LifeInv
<1> SUFFICES ASSUME Init PROVE LifeInv
  OBVIOUS
<1>1. Current = {}
  BY DEF Init, Current
<1>2. CurrentInv
  BY <1>1 DEF Init, CurrentInv
<1>3. DumpInv
  BY <1>1 DEF Init, DumpInv
<1>4. PhaseInv
  BY DEF Init, PhaseInv, Phase, ResetPending, InFlight
<1>5. QED
  BY <1>2, <1>3, <1>4 DEF LifeInv

\* While a handler other than a pause is in flight, no other one is between
\* set_backend and spawn_event_pump.
LEMMA SpawnsAlone ==
    ASSUME Inv, NEW t \in Tools, InFlight(t), kind[t] # "pause",
           NEW u \in Tools, pc[u] = "spawn"
    PROVE  u = t
<1>1. InFlight(u)
  BY DEF InFlight, Finished
<1>2. kind[u] \in Exclusive
  <2>1. kind[u] \in Kinds
    BY DEF Inv, TypeOK
  <2>2. pc[u] \notin ResumePcs \cup PausePcs \cup DisconnectPcs
    BY DEF ResumePcs, PausePcs, DisconnectPcs
  <2>3. QED
    BY <1>1, <2>1, <2>2 DEF Inv, Invariants, PcInv, Kinds, Exclusive
<1>3. QED
  BY <1>1, <1>2 DEF Inv, Invariants, MutexInv

\* The slot's backend is then pumped, and the one of the session.
LEMMA SlotIsCurrent ==
    ASSUME Inv, LifeInv, NEW t \in Tools, InFlight(t), kind[t] # "pause", slot # None
    PROVE  Current = {slot} /\ (pc[t] # "spawn" => Pumped(slot))
<1>1. slot \in Current
  BY DEF Current
<1>2. Current = {slot}
  BY <1>1 DEF LifeInv, CurrentInv
<1>3. QED
  BY <1>2, SpawnsAlone DEF LifeInv, CurrentInv

\* Current depends on the slot, the generation and the pumps alone.
LEMMA CurrentStays == UNCHANGED <<slot, gen, pump>> => Current' = Current
  BY DEF Current, pump

\* A step that only moves a handler.
LEMMA StillStep ==
    ASSUME Inv, Inv', LifeInv, NEW t \in Tools, UNCHANGED <<inner, slot, pump>>, Moves(t),
           pc[t] # "spawn", Phase(t)',
           kind[t] \in Exclusive => pc[t] = "start" \/ InFlight(t)' \/ slot = None
    PROVE  LifeInv'
<1>1. Current' = Current
  BY CurrentStays DEF inner
<1>2. CurrentInv'
  BY <1>1 DEF LifeInv, CurrentInv, Pumped, inner, pump, Moves
<1>3. DumpInv'
  <2>1. \A b \in Current' : kind'[b] = "dump" => state' # "running"
    BY <1>1 DEF LifeInv, DumpInv, inner, Moves
  <2>2. ASSUME \A u \in Tools : InFlight(u)' => kind'[u] \notin Exclusive,
               slot' # None, kind'[slot'] = "dump"
        PROVE  isDump'
    <3>1. \A u \in Tools : InFlight(u) => kind[u] \notin Exclusive
      BY <2>2 DEF Moves, InFlight
    <3>2. QED
      BY <2>2, <3>1 DEF LifeInv, DumpInv, inner, Moves
  <2>3. QED
    BY <2>1, <2>2 DEF DumpInv
<1>4. ASSUME NEW u \in Tools, u # t PROVE Phase(u)'
  BY <1>1, <1>4 DEF LifeInv, PhaseInv, Phase, Pumped, ResetPending, InFlight, inner, pump, Moves
<1>5. QED
  BY <1>2, <1>3, <1>4 DEF LifeInv, PhaseInv

\* A step of a tool that starts or ends a session: besides it only pauses are in
\* flight, and they rely on nothing.
LEMMA ExclusiveStep ==
    ASSUME Inv, Inv', NEW t \in Tools, InFlight(t), kind[t] \in Exclusive, Moves(t),
           CurrentInv', Phase(t)',
           \A b \in Current' : kind[b] = "dump" => state' # "running",
           InFlight(t)' \/ (slot' # None /\ kind[slot'] = "dump" => isDump')
    PROVE  LifeInv'
<1>1. DumpInv'
  BY DEF DumpInv, Moves
<1>2. ASSUME NEW u \in Tools, u # t PROVE Phase(u)'
  <2>1. ~ InFlight(u)' \/ kind'[u] = "pause"
    BY <1>2 DEF Inv, Invariants, MutexInv, Moves, InFlight
  <2>2. CASE ~ InFlight(u)'
    BY <2>2 DEF Phase, ResetPending, InFlight, Finished
  <2>3. CASE InFlight(u)' /\ kind'[u] = "pause"
    <3>1. pc'[u] \in PausePcs
      BY <2>3 DEF Inv, Invariants, PcInv
    <3>2. QED
      BY <2>3, <3>1 DEF Phase, ResetPending, PausePcs
  <2>4. QED
    BY <2>1, <2>2, <2>3
<1>3. QED
  BY <1>1, <1>2 DEF LifeInv, PhaseInv

\* A step of a resume or a pump that writes the session: no handler that starts or
\* ends one relies on the state it had.
LEMMA ReportStep ==
    ASSUME Inv, Inv', LifeInv, NEW t \in Tools, UNCHANGED <<gen, slot, pump, isDump>>, Moves(t),
           pc'[t] = pc[t] \/ (pc[t] # "spawn" /\ kind[t] \notin Exclusive),
           Current # {}, state' # "idle",
           {program', lastStop', exitCode'} \subseteq Current \cup {None},
           \A b \in Current : kind[b] = "dump" => state' # "running",
           Phase(t)'
    PROVE  LifeInv'
<1>1. Current' = Current
  BY CurrentStays
<1>2. CurrentInv'
  BY <1>1 DEF LifeInv, CurrentInv, Pumped, pump, Moves
<1>3. DumpInv'
  <2>1. \A b \in Current' : kind'[b] = "dump" => state' # "running"
    BY <1>1 DEF Moves
  <2>2. ASSUME \A u \in Tools : InFlight(u)' => kind'[u] \notin Exclusive,
               slot' # None, kind'[slot'] = "dump"
        PROVE  isDump'
    <3>1. \A u \in Tools : InFlight(u) => kind[u] \notin Exclusive
      BY <2>2 DEF Moves, InFlight
    <3>2. QED
      BY <2>2, <3>1 DEF LifeInv, DumpInv, Moves
  <2>3. QED
    BY <2>1, <2>2 DEF DumpInv
<1>4. ASSUME NEW u \in Tools, u # t PROVE Phase(u)'
  BY <1>1, <1>4 DEF LifeInv, PhaseInv, Phase, Pumped, ResetPending, InFlight, pump, Moves
<1>5. QED
  BY <1>2, <1>3, <1>4 DEF LifeInv, PhaseInv

\* A handler that has been let in has not done anything.
LEMMA GuardLife ==
    ASSUME Inv, Inv', LifeInv, NEW t \in Tools,
           ConnectGuard(t) \/ ResumeGuard(t) \/ PauseGuard(t) \/ DisconnectGuard(t)
    PROVE  LifeInv'
<1> USE DEF ConnectGuard, ResumeGuard, PauseGuard, DisconnectGuard, CheckState, Admitted, Goto
<1>1. pc[t] = "start" /\ pc'[t] \in {"configure", "is_dump", "backend", "rejected"}
  BY DEF Inv, TypeOK
<1>2. kind[t] = "resume" => pc'[t] \in {"is_dump", "rejected"}
  BY DEF Inv, TypeOK, Connecting
<1>3. UNCHANGED <<inner, slot, pump>> /\ Moves(t)
  BY DEF Inv, TypeOK, Moves
<1>4. Phase(t)'
  BY <1>1, <1>2 DEF Phase, ResetPending, InFlight, Finished, Moves
<1>5. QED
  BY <1>1, <1>3, <1>4, StillStep

\* The steps of the last calls of a handler.
LEMMA FinishLife ==
    ASSUME Inv, Inv', LifeInv, NEW t \in Tools, Finish(t)
    PROVE  LifeInv'
<1> USE DEF InFlight, Finished, Goto
<1>0. /\ TypeOK /\ PcInv /\ HandlerInv /\ PumpInv /\ InFlight(t) /\ kind[t] \in Kinds
      /\ gen \in Nat /\ pumpGen \in [Tools -> Nat] /\ pc[t] # "spawn" /\ Phase(t)
  BY DEF Inv, Invariants, TypeOK, Finish, DoClear, DoReset, DoDrain, LifeInv, PhaseInv
<1>1. CASE DoClear(t)
  <2> USE <1>1 DEF DoClear
  <2>1. kind[t] \in Exclusive /\ Moves(t)
    BY <1>0 DEF PcInv, ResumePcs, PausePcs, DisconnectPcs, Kinds, Exclusive, TypeOK, Moves
  <2>2. UNCHANGED <<inner, pump>> /\ slot' = None
    OBVIOUS
  <2>3. Current' = Current
    <3>1. CASE pc[t] = "clear"
      BY <1>0, <2>2, <3>1, SlotIsCurrent, ToolsAssumption, <2>1
      DEF Phase, Pumped, Current, inner, pump, ToolsAssumption, Exclusive, Connecting
    <3>2. CASE pc[t] = "undo_clear"
      <4>1. kind[t] \in Connecting
        BY <1>0, <3>2 DEF PcInv, ResumePcs, PausePcs, DisconnectPcs, Kinds
      <4>2. slot = None
        BY <1>0, <3>2, <4>1 DEF HandlerInv, ConnectInv, Blank
      <4>3. QED
        BY <2>2, <4>2 DEF Current, inner, pump
    <3>3. QED
      BY <3>1, <3>2
  <2>4. CurrentInv'
    BY <2>2, <2>3 DEF LifeInv, CurrentInv, inner
  <2>5. Phase(t)'
    <3>1. CASE pc[t] = "clear"
      <4>1. pc'[t] = "reset"
        BY <1>0, <3>1 DEF TypeOK
      <4>2. state # "idle"
        BY <1>0, <3>1 DEF Phase, ResetPending
      <4>3. QED
        BY <2>1, <2>2, <4>1, <4>2 DEF Phase, inner, Exclusive, Connecting, Moves
    <3>2. CASE pc[t] = "undo_clear"
      <4>1. pc'[t] \in Finished
        BY <1>0, <3>2 DEF TypeOK, Ended
      <4>2. QED
        BY <4>1 DEF Phase, ResetPending
    <3>3. QED
      BY <3>1, <3>2
  <2>6. \A b \in Current' : kind[b] = "dump" => state' # "running"
    BY <2>2, <2>3 DEF LifeInv, DumpInv, inner
  <2>7. QED
    BY <1>0, <2>1, <2>2, <2>4, <2>5, <2>6, ExclusiveStep
<1>2. CASE DoReset(t)
  <2> USE <1>2 DEF DoReset, ResetInner
  <2>1. kind[t] \in Exclusive /\ Moves(t)
    BY <1>0 DEF PcInv, ResumePcs, PausePcs, DisconnectPcs, Kinds, Exclusive, TypeOK, Moves
  <2>2. slot = None
    BY <1>0, <2>1 DEF PcInv, DisconnectPcs, HandlerInv, ConnectInv, DisconnectInv, Exclusive
  <2>3. Current' = {}
    <3>1. \A b \in pumps : pumpGen[b] # gen + 1
      BY <1>0 DEF PumpInv, TypeOK
    <3>2. QED
      BY <2>2, <3>1 DEF Current, pump
  <2>4. CurrentInv'
    BY <2>2, <2>3 DEF CurrentInv
  <2>5. pc'[t] \in {"drain", "undo_drain"}
    BY <1>0 DEF TypeOK
  <2>6. Phase(t)'
    BY <2>1, <2>5 DEF Phase, ResetPending, Exclusive, Connecting, Moves
  <2>7. QED
    BY <1>0, <2>1, <2>3, <2>4, <2>5, <2>6, ExclusiveStep
<1>3. CASE DoDrain(t)
  <2> USE <1>3 DEF DoDrain
  <2>1. UNCHANGED <<inner, slot, pump>> /\ Moves(t)
    BY <1>0 DEF TypeOK, Moves
  <2>2. pc'[t] \in Finished \cup {"undo_clear"}
    BY <1>0 DEF TypeOK, Ended
  <2>3. kind[t] \in Exclusive => slot = None
    BY <1>0 DEF PcInv, DisconnectPcs, HandlerInv, ConnectInv, DisconnectInv, Blank, Exclusive
  <2>4. kind[t] = "resume" => pc[t] = "drain"
    BY <1>0 DEF PcInv, ResumePcs
  <2>5. Phase(t)'
    BY <1>0, <2>1, <2>2, <2>4 DEF Phase, ResetPending, Moves, Ended, TypeOK
  <2>6. QED
    BY <1>0, <2>1, <2>3, <2>5, StillStep
<1>4. QED
  BY <1>1, <1>2, <1>3 DEF Finish

\* The steps of set_last_stopped.
LEMMA CacheStopLife ==
    ASSUME Inv, Inv', LifeInv, NEW t \in Tools, CacheStop(t)
    PROVE  LifeInv'
<1> USE DEF InFlight, Finished, Goto, CacheStop, SetLastStopped
<1>0. /\ TypeOK /\ PcInv /\ HandlerInv /\ InFlight(t) /\ kind[t] \in Kinds \ {"pause"}
      /\ Phase(t) /\ Moves(t)
  BY DEF Inv, Invariants, TypeOK, PcInv, PausePcs, LifeInv, PhaseInv, Moves
<1>1. mine[t] = slot /\ slot # None /\ state # "idle"
  <2>1. CASE kind[t] = "resume"
    <3>1. ~ \E u \in Tools : InFlight(u) /\ kind[u] \in Exclusive
      BY <1>0, <2>1 DEF Inv, Invariants, MutexInv, Exclusive, Connecting
    <3>2. QED
      BY <1>0, <2>1, <3>1 DEF HandlerInv, ResumeInv, Inv, Invariants, AgreeInv, Agree
  <2>2. CASE kind[t] \in Connecting
    BY <1>0, <2>2, ToolsAssumption DEF HandlerInv, ConnectInv, ToolsAssumption
  <2>3. QED
    BY <1>0, <2>1, <2>2 DEF Kinds, PcInv, DisconnectPcs
<1>2. Current = {slot} /\ Current' = Current
  BY <1>0, <1>1, SlotIsCurrent, CurrentStays
<1>3. pc'[t] = IF kind[t] = "resume" THEN "drain" ELSE "done"
  BY <1>0 DEF TypeOK
<1>4. Phase(t)'
  BY <1>0, <1>3 DEF Phase, ResetPending, Moves
<1>5. {program', lastStop', exitCode'} \subseteq Current \cup {None}
  BY <1>1, <1>2 DEF LifeInv, CurrentInv
<1>6. \A b \in Current : kind[b] = "dump" => state' # "running"
  BY DEF LifeInv, DumpInv
<1>7. CASE kind[t] \in Exclusive
  <2>1. kind[t] \in Connecting
    BY <1>0, <1>7 DEF Exclusive, PcInv, DisconnectPcs
  <2>2. slot = t
    BY <1>0, <2>1 DEF HandlerInv, ConnectInv
  <2>3. kind[t] = "dump" => isDump
    BY <1>0 DEF Phase
  <2>4. CurrentInv'
    <3>1. Pumped(slot)
      BY <1>0, <1>1, SlotIsCurrent
    <3>2. QED
      BY <1>1, <1>2, <1>5, <3>1 DEF LifeInv, CurrentInv, Pumped, pump
  <2>5. QED
    BY <1>0, <1>2, <1>4, <1>6, <1>7, <2>2, <2>3, <2>4, ExclusiveStep
<1>8. CASE kind[t] \notin Exclusive
  BY <1>0, <1>1, <1>2, <1>4, <1>5, <1>6, <1>8, ReportStep
<1>9. QED
  BY <1>7, <1>8

\* The steps of launch, attach, open_crash_dump and attach_kernel.
LEMMA ConnectLife ==
    ASSUME Inv, Inv', LifeInv, NEW t \in Tools, Connect(t)
    PROVE  LifeInv'
<1> USE DEF InFlight, Finished, Goto
<1>0. /\ TypeOK /\ PcInv /\ HandlerInv /\ kind[t] \in Connecting /\ kind[t] \in Exclusive
      /\ Phase(t) /\ t # None
  BY ToolsAssumption
  DEF Inv, Invariants, LifeInv, PhaseInv, ToolsAssumption, Exclusive, Connecting,
      Connect, Launch, Attach, OpenCrashDump, AttachKernel
<1>1. CASE Configure(t)
  <2> USE <1>1 DEF Configure, SetState
  <2>1. Moves(t) /\ InFlight(t) /\ pc'[t] = "connect"
    BY <1>0 DEF TypeOK, Moves
  <2>2. Current = {} /\ Current' = Current /\ slot = None
    BY <1>0, CurrentStays DEF HandlerInv, ConnectInv, Blank, LifeInv, CurrentInv
  <2>3. CurrentInv' /\ Phase(t)'
    BY <1>0, <2>1, <2>2 DEF LifeInv, CurrentInv, Phase, ResetPending, Moves, Connecting
  <2>4. QED
    BY <1>0, <2>1, <2>2, <2>3, ExclusiveStep
<1>2. CASE SetBackend(t)
  <2> USE <1>2 DEF SetBackend
  <2>1. Moves(t) /\ InFlight(t) /\ pc'[t] = "spawn"
    BY <1>0 DEF TypeOK, Moves
  <2>2. Current = {} /\ state = "configuring"
    BY <1>0 DEF Phase
  <2>3. Current' = {t}
    BY <1>0, <2>2 DEF Current, inner, pump
  <2>4. CurrentInv' /\ Phase(t)'
    BY <1>0, <2>1, <2>2, <2>3 DEF LifeInv, CurrentInv, Phase, ResetPending, Moves, Connecting,
                                  inner
  <2>5. QED
    BY <1>0, <2>1, <2>2, <2>4, ExclusiveStep DEF inner
<1>3. CASE SpawnPump(t)
  <2> USE <1>3 DEF SpawnPump
  <2>1. Moves(t) /\ InFlight(t) /\ pc'[t] = "await"
    BY <1>0 DEF TypeOK, Moves
  <2>2. slot = t /\ state # "idle"
    BY <1>0 DEF HandlerInv, ConnectInv
  <2>3. Current = {t}
    BY <1>0, <2>1, <2>2, SlotIsCurrent DEF Connecting
  <2>4. Current' = {t} /\ Pumped(t)'
    BY <1>0, <2>2, <2>3 DEF Current, Pumped, inner, TypeOK
  <2>5. CurrentInv' /\ Phase(t)'
    BY <1>0, <2>1, <2>2, <2>3, <2>4
    DEF LifeInv, CurrentInv, Phase, ResetPending, Moves, Connecting, inner
  <2>6. QED
    BY <1>0, <2>1, <2>3, <2>4, <2>5, ExclusiveStep DEF LifeInv, DumpInv, inner
<1>4. CASE ConnectFails(t)
  <2> USE <1>4 DEF ConnectFails
  <2>1. Moves(t) /\ InFlight(t)' /\ pc'[t] = "undo_reset" /\ UNCHANGED <<inner, slot, pump>>
    BY <1>0 DEF TypeOK, Moves
  <2>2. Phase(t)'
    BY <1>0, <2>1 DEF Phase, ResetPending, Moves, Connecting, inner
  <2>3. QED
    BY <2>1, <2>2, StillStep
<1>5. CASE Connected(t)
  <2> USE <1>5 DEF Connected
  <2>1. /\ Moves(t) /\ InFlight(t)' /\ pc'[t] \in {"program", "settle"}
        /\ UNCHANGED <<inner, slot, pump>>
    BY <1>0 DEF TypeOK, Moves
  <2>2. kind[t] = "dump" => outcome'[t] # "running"
    BY <1>0 DEF TypeOK, ConnectOutcomes
  <2>3. Phase(t)'
    BY <1>0, <2>1, <2>2 DEF Phase, ResetPending, Moves, Connecting, inner
  <2>4. QED
    BY <2>1, <2>3, StillStep
<1>6. CASE ConnectAborted(t)
  <2> USE <1>6 DEF ConnectAborted
  <2>1. Moves(t) /\ InFlight(t) /\ pc'[t] = "clear" /\ UNCHANGED <<inner, slot, pump>>
    BY <1>0 DEF TypeOK, Moves
  <2>2. slot = t /\ state # "idle"
    BY <1>0 DEF HandlerInv, ConnectInv
  <2>3. Pumped(t)'
    BY <1>0, <2>1, <2>2, SlotIsCurrent DEF Pumped, inner, pump, Connecting
  <2>4. Phase(t)'
    BY <1>0, <2>1, <2>2, <2>3 DEF Phase, ResetPending, Moves, Connecting, inner
  <2>5. QED
    BY <2>1, <2>4, StillStep
<1>7. CASE (kind[t] # "dump" /\ SetProgram(t)) \/ Settle(t) \/ SetDump(t)
  <2> USE <1>7
  <2>1. Moves(t) /\ InFlight(t) /\ pc[t] \in {"program", "settle", "mark"}
    BY <1>0 DEF TypeOK, Moves, SetProgram, Settle, SetDump
  <2>2. slot = t /\ state # "idle"
    BY <1>0, <2>1 DEF HandlerInv, ConnectInv
  <2>3. UNCHANGED <<gen, slot, pump>>
    BY DEF SetProgram, Settle, SetDump, SetState
  <2>4. Current = {t} /\ Current' = {t} /\ Pumped(t)
    BY <1>0, <2>1, <2>2, <2>3, SlotIsCurrent, CurrentStays DEF Connecting
  <2>5. state' # "idle" /\ {program', lastStop', exitCode'} \subseteq {t, None}
    BY <2>2, <2>4
    DEF LifeInv, CurrentInv, SetProgram, Settle, SetDump, SetState, SettledState
  <2>6. CurrentInv'
    BY <2>2, <2>3, <2>4, <2>5 DEF CurrentInv, Pumped, pump
  <2>7. /\ kind[t] = "dump" => state' # "running"
        /\ pc'[t] \in {"settle", "mark", "cache", "done"}
        /\ kind[t] = "dump" /\ pc'[t] \in {"settle", "mark"} => outcome'[t] # "running"
        /\ kind[t] = "dump" /\ pc'[t] \in {"cache", "done"} => isDump'
    <3>1. CASE kind[t] # "dump" /\ SetProgram(t)
      BY <1>0, <3>1 DEF SetProgram, TypeOK
    <3>2. CASE Settle(t)
      BY <1>0, <3>2 DEF Settle, SetState, SettledState, Phase, TypeOK
    <3>3. CASE SetDump(t)
      BY <1>0, <2>4, <3>3 DEF SetDump, LifeInv, DumpInv, TypeOK
    <3>4. QED
      BY <3>1, <3>2, <3>3
  <2>8. Phase(t)'
    BY <1>0, <2>1, <2>7 DEF Phase, ResetPending, Moves, Connecting
  <2>9. QED
    BY <1>0, <2>1, <2>2, <2>3, <2>4, <2>6, <2>7, <2>8, ExclusiveStep
<1>8. QED
  BY <1>1, <1>2, <1>3, <1>4, <1>5, <1>6, <1>7, GuardLife, FinishLife, CacheStopLife
  DEF Connect, Launch, Attach, OpenCrashDump, AttachKernel, Handshake

\* The steps of continue and step_*.
LEMMA ResumeLife ==
    ASSUME Inv, Inv', LifeInv, NEW t \in Tools, Resume(t)
    PROVE  LifeInv'
<1> USE DEF InFlight, Finished, Goto
<1>0. /\ TypeOK /\ PcInv /\ HandlerInv /\ kind[t] = "resume" /\ kind[t] \notin Exclusive
      /\ Phase(t)
  <2>1. kind[t] = "resume"
    BY DEF Inv, Invariants, TypeOK, PcInv, ConnectPcs, PausePcs, DisconnectPcs, Kinds,
           Resume, ResumeGuard, ResumeIsDump, ResumeBackend, ResumeSnapshot, ResumeRun, Resumed,
           ResumeFails, ResumeCancelled, HandleStopResult, ApplyStopped, ApplyExited,
           ApplyTerminated
  <2>2. QED
    BY <2>1 DEF Inv, Invariants, LifeInv, PhaseInv, Exclusive, Connecting
<1>1. CASE ResumeGuard(t) \/ DoDrain(t) \/ CacheStop(t)
  BY <1>1, GuardLife, FinishLife, CacheStopLife DEF Finish
<1>2. ASSUME pc[t] # "start", InFlight(t) PROVE slot # None /\ state # "idle" /\ Current = {slot}
  <2>1. \A u \in Tools : InFlight(u) => kind[u] \notin Exclusive
    BY <1>0, <1>2 DEF Inv, Invariants, MutexInv
  <2>2. slot # None /\ state # "idle"
    BY <1>0, <1>2, <2>1 DEF HandlerInv, ResumeInv, Inv, Invariants, AgreeInv, Agree
  <2>3. QED
    BY <1>0, <1>2, <2>2, SlotIsCurrent
<1>3. CASE ResumeIsDump(t)
  <2> USE <1>3 DEF ResumeIsDump
  <2>1. /\ Moves(t) /\ InFlight(t) /\ pc'[t] = IF isDump THEN "rejected" ELSE "backend"
        /\ UNCHANGED <<inner, slot, pump>>
    BY <1>0 DEF TypeOK, Moves
  <2>2. \A u \in Tools : InFlight(u) => kind[u] \notin Exclusive
    BY <1>0, <2>1 DEF Inv, Invariants, MutexInv
  <2>3. kind[slot] = "dump" => isDump
    BY <1>2, <2>1, <2>2 DEF LifeInv, DumpInv
  <2>4. Phase(t)'
    BY <1>0, <2>1, <2>3 DEF Phase, ResetPending, Moves
  <2>5. QED
    BY <1>0, <2>1, <2>4, StillStep
<1>4. CASE ResumeBackend(t) \/ ResumeSnapshot(t) \/ Resumed(t) \/ ResumeCancelled(t)
  <2> USE <1>4 DEF ResumeBackend, CurrentBackend, ResumeSnapshot, Resumed, ResumeCancelled
  <2>1. /\ Moves(t) /\ UNCHANGED <<inner, slot, pump>>
        /\ pc[t] \in {"backend", "snapshot", "await"}
        /\ pc'[t] \in {"snapshot", "failed", "run", "apply", "cancelled"}
    BY <1>0 DEF TypeOK, Moves
  <2>2. Phase(t)'
    BY <1>0, <2>1 DEF Phase, ResetPending, Moves
  <2>3. QED
    BY <1>0, <2>1, <2>2, StillStep
<1>5. CASE \/ ResumeRun(t) \/ ResumeFails(t)
           \/ ApplyStopped(t) \/ ApplyExited(t) \/ ApplyTerminated(t)
  <2> USE <1>5 DEF ResumeRun, ResumeFails, ApplyStopped, ApplyExited, ApplyTerminated
  <2>1. /\ Moves(t) /\ UNCHANGED <<slot, pump>>
        /\ pc[t] \in {"run", "await", "apply"}
        /\ pc'[t] \in {"await", "failed", "cache", "drain", "done"}
    BY <1>0 DEF TypeOK, Moves
  <2>2. slot # None /\ state # "idle" /\ Current = {slot} /\ mine[t] = slot
    BY <1>0, <1>2, <2>1 DEF HandlerInv, ResumeInv
  <2>3. kind[slot] # "dump"
    BY <1>0, <2>1 DEF Phase
  <2>4. /\ state' # "idle" /\ UNCHANGED <<gen, isDump, program, lastStop>>
        /\ exitCode' \in {exitCode, mine[t]}
    BY <2>2 DEF SetState, SetStateIfGeneration, TerminateIfGeneration, inner
  <2>5. {program', lastStop', exitCode'} \subseteq Current \cup {None}
    BY <2>2, <2>4 DEF LifeInv, CurrentInv
  <2>6. Phase(t)'
    BY <1>0, <2>1, <2>3 DEF Phase, ResetPending, Moves
  <2>7. QED
    BY <1>0, <2>1, <2>2, <2>3, <2>4, <2>5, <2>6, ReportStep
<1>6. QED
  BY <1>1, <1>3, <1>4, <1>5 DEF Resume, HandleStopResult

\* The steps of pause.
LEMMA PauseLife ==
    ASSUME Inv, Inv', LifeInv, NEW t \in Tools, Pause(t)
    PROVE  LifeInv'
<1>1. CASE PauseGuard(t)
  BY <1>1, GuardLife
<1>2. CASE PauseBackend(t) \/ Paused(t)
  <2> USE <1>2 DEF PauseBackend, CurrentBackend, Paused, Goto
  <2>1. /\ Moves(t) /\ UNCHANGED <<inner, slot, pump>> /\ kind[t] = "pause" /\ pc[t] # "spawn"
        /\ pc'[t] \in {"await", "failed", "done"}
    BY DEF Inv, TypeOK, Moves
  <2>2. Phase(t)'
    BY <2>1 DEF Phase, ResetPending, Moves
  <2>3. QED
    BY <2>1, <2>2, StillStep DEF Exclusive, Connecting
<1>3. QED
  BY <1>1, <1>2 DEF Pause

\* The steps of disconnect.
LEMMA DisconnectLife ==
    ASSUME Inv, Inv', LifeInv, NEW t \in Tools, Disconnect(t)
    PROVE  LifeInv'
<1> USE DEF InFlight, Finished, Goto
<1>1. CASE DisconnectGuard(t) \/ DoReset(t) \/ DoDrain(t)
  BY <1>1, GuardLife, FinishLife DEF Finish
<1>2. CASE DisconnectBackend(t) \/ DisconnectAsk(t)
  <2> USE <1>2 DEF DisconnectBackend, CurrentBackend, DisconnectAsk
  <2>1. /\ Moves(t) /\ UNCHANGED <<inner, slot, pump>> /\ InFlight(t)' /\ pc[t] # "spawn"
        /\ pc'[t] \in {"ask", "take"}
    BY DEF Inv, TypeOK, Moves
  <2>2. kind'[t] # "resume"
    BY <2>1 DEF Inv, Invariants, PcInv, ResumePcs
  <2>3. Phase(t)'
    BY <2>1, <2>2 DEF Phase, ResetPending
  <2>4. QED
    BY <2>1, <2>3, StillStep
<1>3. CASE DisconnectTake(t)
  <2> USE <1>3 DEF DisconnectTake
  <2>1. /\ Moves(t) /\ UNCHANGED <<inner, pump>> /\ slot' = None /\ InFlight(t)
        /\ pc[t] = "take" /\ pc'[t] = "reset"
    BY DEF Inv, TypeOK, Moves
  <2>2. kind[t] = "disconnect"
    BY <2>1 DEF Inv, Invariants, TypeOK, PcInv, ResumePcs, PausePcs, ConnectPcs, Kinds
  <2>3. state # "idle" /\ slot # None
    BY <2>1, <2>2 DEF Inv, Invariants, HandlerInv, DisconnectInv, Agree, Connecting
  <2>4. Current = {slot} /\ Pumped(slot)
    BY <2>1, <2>2, <2>3, SlotIsCurrent
  <2>5. Current' = Current
    BY <2>1, <2>3, <2>4 DEF Current, Pumped, inner, pump
  <2>6. CurrentInv'
    BY <2>1, <2>5 DEF LifeInv, CurrentInv, inner
  <2>7. Phase(t)'
    BY <2>1, <2>2, <2>3 DEF Phase, ResetPending, Moves, inner
  <2>8. QED
    BY <2>1, <2>2, <2>5, <2>6, <2>7, ExclusiveStep DEF LifeInv, DumpInv, Exclusive, inner
<1>4. QED
  BY <1>1, <1>2, <1>3 DEF Disconnect

\* The steps of the event pump and of the backend.
LEMMA EventLife ==
    ASSUME Inv, Inv', LifeInv, NEW b \in Tools, Pump(b) \/ Backend(b)
    PROVE  LifeInv'
<1>1. Moves(b) /\ UNCHANGED <<slot, pump, tools>>
  BY DEF Pump, PumpOutput, PumpTerminated, Backend, BackendOutput, BackendExits,
         BackendTerminates, Moves, tools
<1>2. CASE UNCHANGED inner
  <2>1. Current' = Current
    BY <1>1, <1>2, CurrentStays DEF inner
  <2>2. QED
    BY <1>1, <1>2, <2>1
    DEF LifeInv, CurrentInv, DumpInv, PhaseInv, Phase, Pumped, ResetPending, InFlight, inner,
        pump, tools
<1>3. CASE PumpTerminated(b) /\ pumpGen[b] = gen
  <2> USE <1>3 DEF PumpTerminated, TerminateIfGeneration
  <2>1. /\ state' = "terminated" /\ exitCode' \in {exitCode, b}
        /\ UNCHANGED <<gen, program, lastStop, isDump>>
    OBVIOUS
  <2>2. b \in Current
    BY DEF Current
  <2>3. {program', lastStop', exitCode'} \subseteq Current \cup {None}
    BY <2>1, <2>2 DEF LifeInv, CurrentInv
  <2>4. Phase(b)'
    <3>1. Current' = Current
      BY <1>1, <2>1, CurrentStays
    <3>2. QED
      BY <1>1, <2>1, <2>2, <3>1
      DEF LifeInv, PhaseInv, Phase, Pumped, ResetPending, InFlight, tools, pump
  <2>5. pc'[b] = pc[b]
    BY <1>1 DEF tools
  <2>6. QED
    BY <1>1, <2>1, <2>2, <2>3, <2>4, <2>5, ReportStep
<1>4. QED
  BY <1>2, <1>3 DEF Pump, PumpOutput, PumpTerminated, TerminateIfGeneration, Backend,
                    BackendOutput, BackendExits, BackendTerminates

\* Every step of a careful client's system keeps the invariant.
LEMMA LifeStep == ASSUME CarefulClient PROVE Inv /\ LifeInv /\ [Next]_vars => LifeInv'
<1> SUFFICES ASSUME Inv, LifeInv, [Next]_vars PROVE LifeInv'
  OBVIOUS
<1>1. Inv'
  BY InvStep
<1>2. CASE UNCHANGED vars
  BY <1>2 DEF vars, inner, tools, pump, LifeInv, CurrentInv, DumpInv, PhaseInv, Phase, Pumped,
              Current, ResetPending, InFlight
<1>3. CASE Next
  BY <1>1, <1>3, ConnectLife, ResumeLife, PauseLife, DisconnectLife, EventLife DEF Next
<1>4. QED
  BY <1>2, <1>3

-----------------------------------------------------------------------------
(* ToolSession implements SessionLife *)

\* Whose reports the session holds, and whether its backend is a dump, as SessionLife
\* has them.
Known == {program, lastStop, exitCode} \ {None}
IsDump == \E b \in Current : kind[b] = "dump"

\* The initial session has no debugger.
LEMMA LifeStarts == Init => Life!Init
<1> SUFFICES ASSUME Init PROVE Life!Init
  OBVIOUS
<1>1. Current = {} /\ Known = {}
  BY DEF Init, Current, Known
<1>2. QED
  BY <1>1 DEF Init, Life!Init, Known

\* A step that writes neither session, slot nor pumps is a stutter.
LEMMA LifeStutters ==
    UNCHANGED <<inner, slot, kind, pump>> => UNCHANGED Life!vars
<1> SUFFICES ASSUME UNCHANGED <<inner, slot, kind, pump>> PROVE UNCHANGED Life!vars
  OBVIOUS
<1>1. Current' = Current
  BY CurrentStays DEF inner
<1>2. Known' = Known
  BY DEF Known, inner
<1>3. IsDump' = IsDump
  BY <1>1 DEF IsDump
<1>4. QED
  BY <1>1, <1>2, <1>3 DEF Life!vars, Known, IsDump, inner

\* What is written besides the state comes from the session's backend.
LEMMA KnownGrows ==
    ASSUME Inv, LifeInv, NEW b \in Current,
           program' \in {program, b}, lastStop' \in {lastStop, b}, exitCode' \in {exitCode, b}
    PROVE  Known' \in {Known, Current}
<1>1. Current = {b}
  BY DEF LifeInv, CurrentInv
<1>2. b # None
  BY ToolsAssumption DEF Current, Inv, TypeOK, ToolsAssumption
<1>3. {program, lastStop, exitCode} \subseteq {b, None}
  BY <1>1 DEF LifeInv, CurrentInv
<1>4. CASE program' = program /\ lastStop' = lastStop /\ exitCode' = exitCode
  BY <1>4 DEF Known
<1>5. CASE b \in {program', lastStop', exitCode'}
  <2>1. {program', lastStop', exitCode'} \subseteq {b, None}
    BY <1>3
  <2>2. Known' = {b}
    BY <1>2, <1>5, <2>1 DEF Known
  <2>3. QED
    BY <1>1, <2>2
<1>6. QED
  BY <1>4, <1>5

\* A step that writes the session of its backend is a report of it, or a stutter.
LEMMA LifeReports ==
    ASSUME Inv, LifeInv, LifeInv', UNCHANGED <<gen, slot, pump, kind>>,
           state' \in {state, "stopped", "running", "terminated"},
           NEW b \in Current,
           program' \in {program, b}, lastStop' \in {lastStop, b}, exitCode' \in {exitCode, b}
    PROVE  [Life!Next]_(Life!vars)
<1>1. Current' = Current
  BY CurrentStays
<1>2. IsDump' = IsDump
  BY <1>1 DEF IsDump
<1>3. Known' \in {Known, Current}
  BY KnownGrows
<1>4. CASE state' = state /\ Known' = Known
  BY <1>1, <1>2, <1>4 DEF Life!vars, Known, IsDump
<1>5. CASE state' = state /\ Known' = Current
  <2>1. Life!Learn
    BY <1>1, <1>2, <1>5 DEF Life!Learn, Known, IsDump
  <2>2. QED
    BY <2>1 DEF Life!Next
<1>6. CASE state' # state
  <2>1. IsDump => state' # "running"
    BY <1>1 DEF LifeInv, DumpInv, IsDump
  <2>2. state' \in Life!Live
    BY <1>6 DEF Life!Live
  <2>3. Life!Report(state')
    BY <1>1, <1>2, <1>3, <2>1 DEF Life!Report, Known, IsDump
  <2>4. QED
    BY <2>2, <2>3 DEF Life!Next
<1>7. QED
  BY <1>3, <1>4, <1>5, <1>6

\* The last calls of a handler are the end of the session, or a stutter.
LEMMA FinishLives ==
    ASSUME Inv, LifeInv, Inv', LifeInv', NEW t \in Tools, Finish(t)
    PROVE  [Life!Next]_(Life!vars)
<1> USE DEF InFlight, Finished, Goto
<1>0. /\ PcInv /\ HandlerInv /\ InFlight(t) /\ Phase(t) /\ kind[t] \in Kinds /\ t # None
      /\ kind' = kind
  BY ToolsAssumption
  DEF Inv, Invariants, TypeOK, Finish, DoClear, DoReset, DoDrain, LifeInv, PhaseInv,
      ToolsAssumption
<1>1. CASE DoClear(t)
  <2>1. UNCHANGED <<inner, pump>> /\ slot' = None
    BY <1>1 DEF DoClear
  <2>2. Current' = Current
    <3>1. CASE pc[t] = "clear"
      <4>1. kind[t] # "pause"
        BY <1>0, <3>1 DEF PcInv, PausePcs
      <4>2. QED
        BY <1>0, <2>1, <3>1, <4>1, SlotIsCurrent DEF Phase, Pumped, Current, inner, pump
    <3>2. CASE pc[t] = "undo_clear"
      <4>1. kind[t] \in Connecting
        BY <1>0, <3>2 DEF PcInv, ResumePcs, PausePcs, DisconnectPcs, Kinds
      <4>2. slot = None
        BY <1>0, <3>2, <4>1 DEF HandlerInv, ConnectInv, Blank
      <4>3. QED
        BY <2>1, <4>2 DEF Current, inner, pump
    <3>3. QED
      BY <1>1, <3>1, <3>2 DEF DoClear
  <2>3. Known' = Known /\ IsDump' = IsDump /\ state' = state
    BY <1>0, <2>1, <2>2 DEF Known, IsDump, inner
  <2>4. QED
    BY <2>2, <2>3 DEF Life!vars, Known, IsDump
<1>2. CASE DoReset(t)
  <2>1. state # "idle"
    BY <1>0, <1>2 DEF DoReset, Phase, ResetPending
  <2>2. state' = "idle" /\ Known' = {}
    BY <1>2 DEF DoReset, ResetInner, Known
  <2>3. Current' = {}
    BY <2>2 DEF LifeInv, CurrentInv
  <2>4. IsDump' = FALSE
    BY <2>3 DEF IsDump
  <2>5. Life!End
    BY <2>1, <2>2, <2>3, <2>4 DEF Life!End, Known, IsDump
  <2>6. QED
    BY <2>5 DEF Life!Next
<1>3. CASE DoDrain(t)
  BY <1>3, LifeStutters DEF DoDrain
<1>4. QED
  BY <1>1, <1>2, <1>3 DEF Finish

\* A handler that caches a stop holds the backend of the session.
LEMMA CacheStopLives ==
    ASSUME Inv, LifeInv, Inv', LifeInv', NEW t \in Tools, CacheStop(t)
    PROVE  [Life!Next]_(Life!vars)
<1>1. pc[t] = "cache" /\ InFlight(t) /\ kind[t] \in Kinds
  BY DEF CacheStop, InFlight, Finished, Inv, TypeOK
<1>2. kind[t] \in Connecting \cup {"resume"}
  BY <1>1 DEF Inv, Invariants, PcInv, PausePcs, DisconnectPcs, Kinds
<1>3. mine[t] = slot /\ slot # None
  BY <1>1, <1>2, ToolsAssumption
  DEF Inv, Invariants, HandlerInv, ConnectInv, ResumeInv, ToolsAssumption
<1>4. slot \in Current
  BY <1>3 DEF Current
<1>5. QED
  BY <1>3, <1>4, LifeReports DEF CacheStop, SetLastStopped

\* The steps of launch, attach, open_crash_dump and attach_kernel.
LEMMA ConnectLives ==
    ASSUME Inv, LifeInv, Inv', LifeInv', NEW t \in Tools, Connect(t)
    PROVE  [Life!Next]_(Life!vars)
<1> USE DEF InFlight, Finished, Goto
<1>0. HandlerInv /\ kind[t] \in Connecting /\ Phase(t) /\ t # None
  BY ToolsAssumption
  DEF Inv, Invariants, LifeInv, PhaseInv, ToolsAssumption, Connecting,
      Connect, Launch, Attach, OpenCrashDump, AttachKernel
<1>1. CASE \/ ConnectGuard(t) \/ ConnectFails(t) \/ Connected(t) \/ ConnectAborted(t)
           \/ SetDump(t)
  <2>1. UNCHANGED <<slot, kind, pump, gen, state, program, lastStop, exitCode>>
    BY <1>1 DEF ConnectGuard, CheckState, ConnectFails, Connected, ConnectAborted, SetDump, inner
  <2>2. Current' = Current
    BY <2>1, CurrentStays
  <2>3. Known' = Known /\ IsDump' = IsDump
    BY <2>1, <2>2 DEF Known, IsDump
  <2>4. QED
    BY <2>1, <2>2, <2>3 DEF Life!vars, Known, IsDump
<1>2. CASE Configure(t)
  <2>1. /\ UNCHANGED <<slot, kind, pump, gen, program, lastStop, exitCode>>
        /\ state' = "configuring"
    BY <1>2 DEF Configure, SetState
  <2>2. state = "idle"
    BY <1>0, <1>2 DEF Configure, HandlerInv, ConnectInv, Blank
  <2>3. Current' = Current
    BY <2>1, CurrentStays
  <2>4. Known' = Known /\ IsDump' = IsDump
    BY <2>1, <2>3 DEF Known, IsDump
  <2>5. Life!Begin
    BY <2>1, <2>2, <2>3, <2>4 DEF Life!Begin, Known, IsDump
  <2>6. QED
    BY <2>5 DEF Life!Next
<1>3. CASE SetBackend(t)
  <2>1. UNCHANGED <<inner, kind, pump>> /\ slot' = t
    BY <1>3 DEF SetBackend
  <2>2. state = "configuring" /\ Current = {}
    BY <1>0, <1>3 DEF SetBackend, Phase
  <2>3. Known = {} /\ Known' = {}
    BY <2>1, <2>2 DEF LifeInv, CurrentInv, Known, inner
  <2>4. Current' = {t}
    BY <1>0, <2>1, <2>2 DEF Current, inner, pump
  <2>5. IsDump' \in BOOLEAN
    BY DEF IsDump
  <2>6. Life!Claim(t)
    BY <2>1, <2>2, <2>3, <2>4, <2>5 DEF Life!Claim, Known, IsDump, inner
  <2>7. QED
    BY <2>6 DEF Life!Next
<1>4. CASE SpawnPump(t)
  <2>1. slot = t
    BY <1>0, <1>4 DEF SpawnPump, HandlerInv, ConnectInv
  <2>2. UNCHANGED <<inner, slot, kind>>
    BY <1>4 DEF SpawnPump
  <2>3. Current' = Current
    BY <1>0, <1>4, <2>1, SlotIsCurrent DEF SpawnPump, Current, inner, Connecting, Inv, TypeOK
  <2>4. Known' = Known /\ IsDump' = IsDump /\ state' = state
    BY <2>2, <2>3 DEF Known, IsDump, inner
  <2>5. QED
    BY <2>3, <2>4 DEF Life!vars, Known, IsDump
<1>5. CASE SetProgram(t) \/ Settle(t)
  <2>1. slot = t
    BY <1>0, <1>5 DEF SetProgram, Settle, HandlerInv, ConnectInv
  <2>2. t \in Current
    BY <1>0, <2>1 DEF Current
  <2>3. /\ UNCHANGED <<gen, slot, pump, kind>>
        /\ state' \in {state, "stopped", "running", "terminated"}
        /\ program' \in {program, t} /\ lastStop' = lastStop /\ exitCode' = exitCode
    BY <1>5 DEF SetProgram, Settle, SetState, SettledState
  <2>4. QED
    BY <2>2, <2>3, LifeReports
<1>6. QED
  BY <1>1, <1>2, <1>3, <1>4, <1>5, FinishLives, CacheStopLives
  DEF Connect, Launch, Attach, OpenCrashDump, AttachKernel, Handshake

\* The steps of continue and step_*.
LEMMA ResumeLives ==
    ASSUME Inv, LifeInv, Inv', LifeInv', NEW t \in Tools, Resume(t)
    PROVE  [Life!Next]_(Life!vars)
<1>1. CASE \/ ResumeGuard(t) \/ ResumeIsDump(t) \/ ResumeBackend(t) \/ ResumeSnapshot(t)
           \/ Resumed(t) \/ ResumeCancelled(t)
  BY <1>1, LifeStutters
  DEF ResumeGuard, CheckState, ResumeIsDump, ResumeBackend, CurrentBackend, ResumeSnapshot,
      Resumed, ResumeCancelled
<1>2. CASE \/ ResumeRun(t) \/ ResumeFails(t)
           \/ ApplyStopped(t) \/ ApplyExited(t) \/ ApplyTerminated(t)
  <2> USE <1>2 DEF ResumeRun, ResumeFails, ApplyStopped, ApplyExited, ApplyTerminated
  <2>1. pc[t] \in {"run", "await", "apply"} /\ InFlight(t)
    BY DEF InFlight, Finished
  <2>2. kind[t] = "resume"
    BY <2>1 DEF Inv, Invariants, TypeOK, PcInv, ConnectPcs, PausePcs, DisconnectPcs, Kinds
  <2>3. slot # None /\ mine[t] = slot
    BY <2>1, <2>2 DEF Inv, Invariants, HandlerInv, ResumeInv
  <2>4. slot \in Current
    BY <2>3 DEF Current
  <2>5. /\ UNCHANGED <<gen, slot, pump, kind, program, lastStop>>
        /\ state' \in {state, "stopped", "running", "terminated"}
        /\ exitCode' \in {exitCode, slot}
    BY <2>3 DEF SetState, SetStateIfGeneration, TerminateIfGeneration, inner
  <2>6. QED
    BY <2>4, <2>5, LifeReports
<1>3. QED
  BY <1>1, <1>2, FinishLives, CacheStopLives DEF Resume, HandleStopResult, Finish

\* The steps of pause and disconnect.
LEMMA DisconnectLives ==
    ASSUME Inv, LifeInv, Inv', LifeInv', NEW t \in Tools, Pause(t) \/ Disconnect(t)
    PROVE  [Life!Next]_(Life!vars)
<1>1. CASE \/ PauseGuard(t) \/ PauseBackend(t) \/ Paused(t)
           \/ DisconnectGuard(t) \/ DisconnectBackend(t) \/ DisconnectAsk(t)
  BY <1>1, LifeStutters
  DEF PauseGuard, PauseBackend, Paused, DisconnectGuard, CheckState, DisconnectBackend,
      CurrentBackend, DisconnectAsk
<1>2. CASE DisconnectTake(t)
  <2>1. UNCHANGED <<inner, kind, pump>> /\ slot' = None /\ pc[t] = "take" /\ InFlight(t)
    BY <1>2 DEF DisconnectTake, InFlight, Finished
  <2>2. kind[t] = "disconnect"
    BY <2>1 DEF Inv, Invariants, TypeOK, PcInv, ResumePcs, PausePcs, ConnectPcs, Kinds
  <2>3. slot # None
    BY <2>1, <2>2 DEF Inv, Invariants, HandlerInv, DisconnectInv, Agree, Connecting
  <2>4. Current = {slot} /\ Pumped(slot)
    BY <2>1, <2>2, <2>3, SlotIsCurrent
  <2>5. Current' = Current
    BY <2>1, <2>3, <2>4 DEF Current, Pumped, inner, pump
  <2>6. Known' = Known /\ IsDump' = IsDump /\ state' = state
    BY <2>1, <2>5 DEF Known, IsDump, inner
  <2>7. QED
    BY <2>5, <2>6 DEF Life!vars, Known, IsDump
<1>3. QED
  BY <1>1, <1>2, FinishLives DEF Pause, Disconnect, Finish

\* The steps of the event pump and of the backend.
LEMMA EventLives ==
    ASSUME Inv, LifeInv, Inv', LifeInv', NEW b \in Tools, Pump(b) \/ Backend(b)
    PROVE  [Life!Next]_(Life!vars)
<1>1. CASE UNCHANGED inner
  BY <1>1, LifeStutters
  DEF Pump, PumpOutput, PumpTerminated, Backend, BackendOutput, BackendExits,
      BackendTerminates, tools
<1>2. CASE PumpTerminated(b) /\ pumpGen[b] = gen
  <2>1. b \in Current
    BY <1>2 DEF PumpTerminated, Current
  <2>2. /\ UNCHANGED <<gen, slot, pump, kind, program, lastStop>>
        /\ state' = "terminated" /\ exitCode' \in {exitCode, b}
    BY <1>2 DEF PumpTerminated, TerminateIfGeneration, tools
  <2>3. QED
    BY <2>1, <2>2, LifeReports
<1>3. QED
  BY <1>1, <1>2 DEF Pump, PumpOutput, PumpTerminated, TerminateIfGeneration, Backend,
                    BackendOutput, BackendExits, BackendTerminates

\* Every step of ToolSession is one of SessionLife or a stutter.
LEMMA LifeSteps ==
    ASSUME CarefulClient
    PROVE  Inv /\ LifeInv /\ [Next]_vars => [Life!Next]_(Life!vars)
<1> SUFFICES ASSUME Inv, LifeInv, [Next]_vars PROVE [Life!Next]_(Life!vars)
  OBVIOUS
<1>1. Inv' /\ LifeInv'
  BY InvStep, LifeStep
<1>2. CASE UNCHANGED vars
  BY <1>2, LifeStutters DEF vars, tools
<1>3. CASE Next
  BY <1>1, <1>3, ConnectLives, ResumeLives, DisconnectLives, EventLives DEF Next
<1>4. QED
  BY <1>2, <1>3

\* For any number of tool calls and backends, a client that overlaps the tools that
\* start or end a session with nothing but pause sees one session with one debugger
\* at a time: at every step, not only between calls, the session moves only for its
\* own backend, forgets all its reports at once, and never runs a dump (reset,
\* terminate_if_generation, set_last_stopped, the is_dump check of resume).
THEOREM OneSession == CarefulClient => (Spec => OneDebuggerAtATime)
<1> SUFFICES ASSUME CarefulClient PROVE Spec => OneDebuggerAtATime
  OBVIOUS
<1>1. Init => Inv /\ LifeInv /\ Life!Init
  BY InvInit, LifeInit, LifeStarts
<1>2. Inv /\ LifeInv /\ [Next]_vars => Inv' /\ LifeInv' /\ [Life!Next]_(Life!vars)
  BY InvStep, LifeStep, LifeSteps
<1>3. QED
  BY <1>1, <1>2, PTL DEF Spec, OneDebuggerAtATime, Life!Spec

=============================================================================
