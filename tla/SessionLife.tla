---------------------------- MODULE SessionLife ----------------------------
(***************************************************************************)
(* What the MCP client is promised of the session, whatever handlers,      *)
(* pumps and backends are under way behind it: it has one debugger at a    *)
(* time.  It begins without one, gets one, holds only what that debugger   *)
(* reported of the debuggee (program, stop, exit), and ends by forgetting  *)
(* it and all that in one step, after which nothing of the kind is heard   *)
(* of that debugger any more.  A crash dump never runs.  Buffered output   *)
(* is no part of the promise: it has a lock of its own.                    *)
(***************************************************************************)
CONSTANT Debuggers

VARIABLES
    state,      \* what the client is told of the session
    debuggers,  \* the debugger of the session, if there is one
    known,      \* whose reports the session holds
    dump        \* the debugger has a crash dump open

vars == <<state, debuggers, known, dump>>

Live == {"stopped", "running", "terminated"}

Init == state = "idle" /\ debuggers = {} /\ known = {} /\ dump = FALSE

Begin == state = "idle" /\ state' = "configuring" /\ UNCHANGED <<debuggers, known, dump>>

\* A debugger is connected to a session that has none and knows nothing.
Claim(b) ==
    /\ state = "configuring" /\ debuggers = {} /\ known = {}
    /\ debuggers' = {b}
    /\ dump' \in BOOLEAN
    /\ UNCHANGED <<state, known>>

\* The debugger of the session is resumed, stops, exits, or is lost.
Report(s) ==
    /\ debuggers # {}
    /\ dump => s # "running"
    /\ state' = s
    /\ known' \in {known, debuggers}
    /\ UNCHANGED <<debuggers, dump>>

\* Something it reported is kept.
Learn == debuggers # {} /\ known' = debuggers /\ UNCHANGED <<state, debuggers, dump>>

End ==
    /\ state # "idle"
    /\ state' = "idle" /\ debuggers' = {} /\ known' = {} /\ dump' = FALSE

Next == Begin \/ (\E b \in Debuggers : Claim(b)) \/ (\E s \in Live : Report(s)) \/ Learn \/ End

Spec == Init /\ [][Next]_vars

=============================================================================
