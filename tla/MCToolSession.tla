--------------------------- MODULE MCToolSession ---------------------------
(* Sequences of tool calls of a small client.                                *)
EXTENDS ToolSession, TLC

CONSTANTS t1, t2, t3, t4

\* A session of any kind, resumed, disconnected, and a second session.
TwoSessions == {(t1 :> k) @@ (t2 :> "resume") @@ (t3 :> "disconnect") @@ (t4 :> l) :
                   k \in Connecting, l \in {"launch"}}

\* A session with a pause while it runs.
WithPause == {(t1 :> "launch") @@ (t2 :> "resume") @@ (t3 :> "pause") @@ (t4 :> "disconnect")}

Sessions == TwoSessions \cup WithPause

Sequential == {}

\* Everything may overlap but a connecting tool or a disconnect with another
\* tool that writes the session.
Careful == {{"pause", k} : k \in Kinds} \cup {{"resume"}}

Anything == {{k, l} : k \in Kinds, l \in Kinds}

\* A continue is in flight when the client disconnects.
DisconnectDuringResume == {{"resume", "disconnect"}}

OneSession == {(t1 :> "launch") @@ (t2 :> "resume") @@ (t3 :> "disconnect")}

=============================================================================
