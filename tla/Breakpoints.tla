---------------------------- MODULE Breakpoints ----------------------------
(***************************************************************************)
(* The breakpoint tools of crate mcp-tools (set_breakpoint,                *)
(* set_function_breakpoint, remove_breakpoint), the breakpoint lists of    *)
(* SessionManager they keep in step with the debugger's own, and the part  *)
(* of launch, attach and disconnect that moves or clears those lists.      *)
(*                                                                         *)
(* A group is what one request replaces as a whole: the breakpoints of one *)
(* source file, or all function breakpoints.  A key is a line or a name.   *)
(* Conditions and the verified flag ride along and are left out.  A step   *)
(* is one call on the session or one backend request; clear_backend and    *)
(* reset, whose interleavings ToolSession explores, are one step here.     *)
(***************************************************************************)
EXTENDS Naturals, Sequences, SequencesExt

CONSTANTS
    Tools,          \* the tool calls, each made at most once
    RequestChoices, \* what each call asks for, one function per choice
    Files,          \* the source files, one group each
    Fn,             \* the group of the function breakpoints
    Keys,           \* lines and function names
    Unsafe,         \* the function names a backend declines (bare addresses, WinDbg)
    RelocChoices,   \* the line the debugger reports for each requested line
    Careful         \* whether the client makes calls on one group one at a time

Groups == Files \cup {Fn}
ToolKinds == {"set", "remove", "launch", "attach", "disconnect"}
Requests == [kind : ToolKinds, group : Groups, key : Keys, id : Nat]

ASSUME BpAssumption ==
    /\ Fn \notin Files
    /\ Unsafe \subseteq Keys
    /\ RequestChoices \subseteq [Tools -> Requests]
    /\ RelocChoices \subseteq [Keys -> Keys]
    /\ Careful \in BOOLEAN

VARIABLES
    state,      \* Inner::state
    active,     \* Inner::source_bps and function_bps, the keys as requested
    responses,  \* Inner::bp_responses, one [id, group, key] per tracked id
    pending,    \* Inner::pending_source_bps and pending_function_bps
    slot,       \* ToolServer::backend, 0 when there is none
    req,        \* what the call asks for
    pc,         \* where its handler is
    mine,       \* the backend it holds
    list,       \* the list it read and is to send
    got,        \* the breakpoint it picked from the answer, or looked up by id
    spec,       \* LaunchSpec: the lists a launch has still to send
    conn,       \* external: how many debuggers have been connected
    up,         \* external: whether the last one is alive
    live,       \* external: the breakpoints the debugger has, by their requested key
    nextId,     \* external: the next breakpoint id
    reloc       \* external: where a requested line ends up

lists == <<active, responses, pending>>
tool == <<req, pc, mine, list, got, spec>>
debugger == <<conn, up, live, nextId, reloc>>
vars == <<state, lists, slot, tool, debugger>>

BpInfos == [id : Nat, group : Groups, key : Keys]
Empty == [g \in Groups |-> <<>>]
Finished == {"rejected", "failed", "done"}
Steps == {"mode", "pend", "backend", "read", "send", "track", "record", "peek", "commit",
          "configure", "flush", "connect", "handshake", "settle", "undo", "ask"}

TypeOK ==
    /\ state \in {"idle", "configuring", "stopped", "running", "terminated"}
    /\ active \in [Groups -> Seq(Keys)]
    /\ responses \in SUBSET BpInfos
    /\ pending \in [Groups -> Seq(Keys)]
    /\ slot \in Nat
    /\ req \in [Tools -> Requests]
    /\ pc \in [Tools -> {"start"} \cup Steps \cup Finished]
    /\ mine \in [Tools -> Nat]
    /\ list \in [Tools -> Seq(Keys)]
    /\ got \in [Tools -> BpInfos]
    /\ spec \in [Tools -> [Groups -> Seq(Keys)]]
    /\ conn \in Nat
    /\ up \in BOOLEAN
    /\ live \in SUBSET BpInfos
    /\ nextId \in Nat
    /\ reloc \in [Keys -> Keys]

Init ==
    /\ state = "idle"
    /\ active = Empty
    /\ responses = {}
    /\ pending = Empty
    /\ slot = 0
    /\ req \in RequestChoices
    /\ pc = [t \in Tools |-> "start"]
    /\ mine = [t \in Tools |-> 0]
    /\ list = [t \in Tools |-> <<>>]
    /\ got = [t \in Tools |-> [id |-> 0, group |-> req[t].group, key |-> req[t].key]]
    /\ spec = [t \in Tools |-> Empty]
    /\ conn = 0
    /\ up = FALSE
    /\ live = {}
    /\ nextId = 1
    /\ reloc \in RelocChoices

-----------------------------------------------------------------------------
(* The debugger: external, as far as the handlers rely on it *)

\* The keys of a group that a backend does not set.
Declined(g) == IF g = Fn THEN Unsafe ELSE {}

\* One setBreakpoints or setFunctionBreakpoints: the group's breakpoints become
\* the listed ones, each answered in its place.  Those it already had keep their
\* ids, the others get new ones.
Replaced(g, keys) ==
    LET wanted == ToSet(keys) \ Declined(g)
        kept == {b \in live : b.group = g /\ b.key \in wanted}
        new == wanted \ {b.key : b \in kept}
        first(k) == CHOOSE i \in DOMAIN keys : keys[i] = k
    IN  {b \in live : b.group # g} \cup kept
            \cup {[id |-> nextId + first(k) - 1, group |-> g, key |-> k] : k \in new}

Answers(t) == up /\ mine[t] = conn

Apply(g, keys) ==
    /\ live' = Replaced(g, keys)
    /\ nextId' = nextId + Len(keys)
    /\ UNCHANGED <<conn, up, reloc>>

\* A function breakpoint is reported under its name, a source one where it ended up.
Reported(g, k) == IF g = Fn THEN k ELSE reloc[k]

DebuggerDies ==
    /\ up
    /\ up' = FALSE
    /\ UNCHANGED <<state, lists, slot, tool, conn, live, nextId, reloc>>

\* The rest of the system, as ToolSession has it: continue and step run the
\* debuggee and it stops again; the pump reports a dead debugger.
Runs ==
    /\ slot # 0
    /\ \/ up /\ state = "stopped" /\ state' = "running"
       \/ up /\ state = "running" /\ state' = "stopped"
       \/ ~ up /\ state' = "terminated"
    /\ UNCHANGED <<lists, slot, tool, debugger>>

-----------------------------------------------------------------------------
(* The session's lists (manager.rs) *)

\* add_source_breakpoint, add_function_breakpoint
Track(g, k) == active' = [active EXCEPT ![g] = Append(@, k)]

\* add_breakpoint_response: insert by id.
AddResponse(r) == responses' = {x \in responses : x.id # r.id} \cup {r}

\* MUTANT of Without: the entry is blanked instead of removed.
WithoutBlank(s, k) == [i \in DOMAIN s |-> IF s[i] = k THEN Fn ELSE s[i]]

\* The list without its first entry for k: a line, or a name (remaining_source_breakpoints,
\* remaining_function_breakpoints and remove_breakpoint_by_id agree on it).
Without(s, k) == RemoveFirst(s, k)

\* MUTANT of RemoveById: the response entry is kept.
RemoveByIdKeeps(r) ==
    /\ active' = [active EXCEPT ![r.group] = Without(@, r.key)]
    /\ UNCHANGED responses

\* remove_breakpoint_by_id, once the entry r is found.
RemoveById(r) ==
    /\ active' = [active EXCEPT ![r.group] = Without(@, r.key)]
    /\ responses' = {x \in responses : x.id # r.id}

\* flush_pending_breakpoints
Flush ==
    /\ active' = [g \in Groups |-> active[g] \o pending[g]]
    /\ pending' = Empty
    /\ UNCHANGED responses

\* reset, as far as the lists go
ResetLists ==
    /\ state' = "idle"
    /\ active' = Empty
    /\ responses' = {}
    /\ pending' = Empty

-----------------------------------------------------------------------------
InFlight(t) == pc[t] \in Steps

Goto(t, l) == pc' = [pc EXCEPT ![t] = l]

\* Two calls a careful client has in flight together set breakpoints of different groups.
Admitted(t) ==
    /\ pc[t] = "start"
    /\ Careful => \A u \in Tools \ {t} : InFlight(u) =>
                      /\ req[t].kind = "set" /\ req[u].kind = "set"
                      /\ req[t].group # req[u].group

CheckState(t, kinds, allowed, next) ==
    /\ req[t].kind \in kinds
    /\ Admitted(t)
    /\ Goto(t, IF state \in allowed THEN next ELSE "rejected")
    /\ UNCHANGED <<state, lists, slot, req, mine, list, got, spec, debugger>>

CurrentBackend(t) ==
    /\ pc[t] = "backend"
    /\ mine' = [mine EXCEPT ![t] = slot]
    /\ Goto(t, IF slot = 0 THEN "failed" ELSE "read")
    /\ UNCHANGED <<state, lists, slot, req, list, got, spec, debugger>>

\* The backend returns Err: refused by the debugger, or the debugger is gone.
SendFails(t) ==
    /\ pc[t] = "send"
    /\ Goto(t, "failed")
    /\ UNCHANGED <<state, lists, slot, req, mine, list, got, spec, debugger>>

-----------------------------------------------------------------------------
(* set_breakpoint and set_function_breakpoint (breakpoints.rs) *)

SetGuard(t) == CheckState(t, {"set"}, {"idle", "stopped"}, "mode")

\* The state is read a second time to tell the two modes apart.
SetMode(t) ==
    /\ pc[t] = "mode"
    /\ Goto(t, IF state = "idle" THEN "pend" ELSE "backend")
    /\ UNCHANGED <<state, lists, slot, req, mine, list, got, spec, debugger>>

\* add_pending_source_breakpoint, add_pending_function_breakpoint
SetPending(t) ==
    /\ pc[t] = "pend"
    /\ pending' = [pending EXCEPT ![req[t].group] = Append(@, req[t].key)]
    /\ Goto(t, "done")
    /\ UNCHANGED <<state, active, responses, slot, req, mine, list, got, spec, debugger>>

\* MUTANT of SetRead: the session is changed before the debugger has agreed.
SetReadCommits(t) ==
    /\ pc[t] = "read"
    /\ req[t].kind = "set"
    /\ list' = [list EXCEPT ![t] = Append(active[req[t].group], req[t].key)]
    /\ Track(req[t].group, req[t].key)
    /\ Goto(t, "send")
    /\ UNCHANGED <<state, responses, pending, slot, req, mine, got, spec, debugger>>

\* The proposed list: the tracked one and the new breakpoint.
SetRead(t) ==
    /\ pc[t] = "read"
    /\ req[t].kind = "set"
    /\ list' = [list EXCEPT ![t] = Append(active[req[t].group], req[t].key)]
    /\ Goto(t, "send")
    /\ UNCHANGED <<state, lists, slot, req, mine, got, spec, debugger>>

\* Which of the answers is taken for the new breakpoint: a source one by the
\* first whose reported line is the requested one, else the last; a function
\* one is the last.
Matched(t) ==
    LET g == req[t].group
        hits == {i \in DOMAIN list[t] : Reported(g, list[t][i]) = req[t].key}
    IN  IF g # Fn /\ hits # {} THEN list[t][CHOOSE i \in hits : \A j \in hits : i <= j]
        ELSE req[t].key

\* A declined name is reported and not tracked.
SetSend(t) ==
    /\ pc[t] = "send"
    /\ req[t].kind = "set"
    /\ Answers(t)
    /\ Apply(req[t].group, list[t])
    /\ IF Matched(t) \in Declined(req[t].group)
       THEN Goto(t, "failed") /\ UNCHANGED got
       ELSE /\ \E b \in live' :
                  /\ b.group = req[t].group
                  /\ b.key = Matched(t)
                  /\ got' = [got EXCEPT ![t] = [b EXCEPT !.key = Reported(b.group, @)]]
            /\ Goto(t, "track")
    /\ UNCHANGED <<state, lists, slot, req, mine, list, spec>>

SetTrack(t) ==
    /\ pc[t] = "track"
    /\ Track(req[t].group, req[t].key)
    /\ Goto(t, "record")
    /\ UNCHANGED <<state, responses, pending, slot, req, mine, list, got, spec, debugger>>

SetRecord(t) ==
    /\ pc[t] = "record"
    /\ AddResponse(got[t])
    /\ Goto(t, "done")
    /\ UNCHANGED <<state, active, pending, slot, req, mine, list, got, spec, debugger>>

SetBreakpoint(t) ==
    \/ SetGuard(t) \/ SetMode(t) \/ SetPending(t)
    \/ req[t].kind = "set" /\ (CurrentBackend(t) \/ SendFails(t))
    \/ SetRead(t) \/ SetSend(t) \/ SetTrack(t) \/ SetRecord(t)

-----------------------------------------------------------------------------
(* remove_breakpoint (breakpoints.rs) *)

RemoveGuard(t) == CheckState(t, {"remove"}, {"stopped"}, "peek")

\* breakpoint_info
RemovePeek(t) ==
    /\ pc[t] = "peek"
    /\ IF \E r \in responses : r.id = req[t].id
       THEN /\ \E r \in responses : r.id = req[t].id /\ got' = [got EXCEPT ![t] = r]
            /\ Goto(t, "backend")
       ELSE Goto(t, "failed") /\ UNCHANGED got
    /\ UNCHANGED <<state, lists, slot, req, mine, list, spec, debugger>>

RemoveRead(t) ==
    /\ pc[t] = "read"
    /\ req[t].kind = "remove"
    /\ list' = [list EXCEPT ![t] = Without(active[got[t].group], got[t].key)]
    /\ Goto(t, "send")
    /\ UNCHANGED <<state, lists, slot, req, mine, got, spec, debugger>>

RemoveSend(t) ==
    /\ pc[t] = "send"
    /\ req[t].kind = "remove"
    /\ Answers(t)
    /\ Apply(got[t].group, list[t])
    /\ Goto(t, "commit")
    /\ UNCHANGED <<state, lists, slot, req, mine, list, got, spec>>

\* The entry is looked up again; it may be gone by now.
RemoveCommit(t) ==
    /\ pc[t] = "commit"
    /\ IF \E r \in responses : r.id = req[t].id
       THEN /\ \E r \in responses : r.id = req[t].id /\ RemoveById(r)
            /\ Goto(t, "done")
       ELSE Goto(t, "failed") /\ UNCHANGED <<active, responses>>
    /\ UNCHANGED <<state, pending, slot, req, mine, list, got, spec, debugger>>

RemoveBreakpoint(t) ==
    \/ RemoveGuard(t) \/ RemovePeek(t) \/ RemoveRead(t) \/ RemoveSend(t) \/ RemoveCommit(t)
    \/ req[t].kind = "remove" /\ (CurrentBackend(t) \/ SendFails(t))

-----------------------------------------------------------------------------
(* launch, attach and disconnect (lifecycle.rs, backend.rs) *)

ConnectGuard(t) == CheckState(t, {"launch", "attach"}, {"idle"}, "configure")

Configure(t) ==
    /\ pc[t] = "configure"
    /\ state' = "configuring"
    /\ Goto(t, IF req[t].kind = "launch" THEN "flush" ELSE "connect")
    /\ UNCHANGED <<lists, slot, req, mine, list, got, spec, debugger>>

\* launch moves the pending breakpoints to the active lists and into its spec.
LaunchFlush(t) ==
    /\ pc[t] = "flush"
    /\ Flush
    /\ spec' = [spec EXCEPT ![t] = pending]
    /\ Goto(t, "connect")
    /\ UNCHANGED <<state, slot, req, mine, list, got, debugger>>

Connect(t) ==
    /\ pc[t] = "connect"
    /\ conn' = conn + 1
    /\ up' = TRUE
    /\ live' = {}
    /\ nextId' = 1
    /\ slot' = conn'
    /\ mine' = [mine EXCEPT ![t] = conn']
    /\ Goto(t, "handshake")
    /\ UNCHANGED <<state, lists, req, list, got, spec, reloc>>

\* run_launch sends one list per file, then the functions; the answers are only
\* checked for success.
FlushGroup(t) ==
    /\ pc[t] = "handshake"
    /\ Answers(t)
    /\ \E g \in Groups :
          /\ spec[t][g] # <<>>
          /\ g = Fn => \A f \in Files : spec[t][f] = <<>>
          /\ Apply(g, spec[t][g])
          /\ spec' = [spec EXCEPT ![t][g] = <<>>]
    /\ UNCHANGED <<state, lists, slot, req, pc, mine, list, got>>

HandshakeDone(t) ==
    /\ pc[t] = "handshake"
    /\ spec[t] = Empty
    /\ Goto(t, "settle")
    /\ UNCHANGED <<state, lists, slot, req, mine, list, got, spec, debugger>>

\* No backend, a refused request, a dead debugger or a cancelled call.
ConnectFails(t) ==
    /\ pc[t] \in {"connect", "handshake"}
    /\ Goto(t, "undo")
    /\ UNCHANGED <<state, lists, slot, req, mine, list, got, spec, debugger>>

\* By the outcome: stopped, exited, or (launch) running.
Settle(t) ==
    /\ pc[t] = "settle"
    /\ state' \in {"stopped", "terminated"}
                    \cup (IF req[t].kind = "launch" THEN {"running"} ELSE {})
    /\ Goto(t, "done")
    /\ UNCHANGED <<lists, slot, req, mine, list, got, spec, debugger>>

\* clear_backend and reset: after a failed connect, and at the end of disconnect.
Undo(t) ==
    /\ pc[t] = "undo"
    /\ slot' = 0
    /\ ResetLists
    /\ Goto(t, IF req[t].kind = "disconnect" THEN "done" ELSE "failed")
    /\ UNCHANGED <<req, mine, list, got, spec, debugger>>

DisconnectGuard(t) ==
    CheckState(t, {"disconnect"}, {"configuring", "stopped", "running", "terminated"}, "ask")

\* The debugger in the slot ends, or does not answer in time.
DisconnectAsk(t) ==
    /\ pc[t] = "ask"
    /\ up' \in (IF slot = conn THEN {FALSE, up} ELSE {up})
    /\ Goto(t, "undo")
    /\ UNCHANGED <<state, lists, slot, req, mine, list, got, spec, conn, live, nextId, reloc>>

Lifecycle(t) ==
    \/ ConnectGuard(t) \/ Configure(t) \/ LaunchFlush(t) \/ Connect(t) \/ FlushGroup(t)
    \/ HandshakeDone(t) \/ ConnectFails(t) \/ Settle(t) \/ Undo(t)
    \/ DisconnectGuard(t) \/ DisconnectAsk(t)

-----------------------------------------------------------------------------
Next ==
    \/ \E t \in Tools : SetBreakpoint(t) \/ RemoveBreakpoint(t) \/ Lifecycle(t)
    \/ DebuggerDies \/ Runs

Spec == Init /\ [][Next]_vars

-----------------------------------------------------------------------------
(* Properties *)

Quiet == \A t \in Tools : ~ InFlight(t)

LiveKeys(g) == {b.key : b \in {x \in live : x.group = g}}

\* Between calls the tracked lists and the debugger agree, whatever the debugger
\* refused and wherever it put the lines: in a session each group has exactly
\* the tracked breakpoints (a name flushed by launch that the backend declines
\* excepted), and without one nothing is tracked (the transactional updates of
\* breakpoints.rs, flush_pending_breakpoints and reset).
DebuggerHasTracked ==
    Quiet => /\ slot # 0 /\ up => \A g \in Groups : LiveKeys(g) = ToSet(active[g]) \ Declined(g)
             /\ slot = 0 => active = Empty /\ responses = {}

\* As long as the debugger puts every line where it was asked to, each listed
\* breakpoint is one the debugger has, under that id and at that place, and no
\* id of an earlier session is listed (add_breakpoint_response, remove_breakpoint_by_id).
ListedAreLive ==
    (Quiet /\ slot # 0 /\ up /\ \A k \in Keys : reloc[k] = k) => responses \subseteq live

\* What the documents promise of remove_breakpoint, "Remove a single breakpoint by
\* ID" (Designs/LLDBDebugMCP README): once it has reported success the debugger
\* has no breakpoint with that id.
RemovedIsGone ==
    [][\A t \in Tools : (pc[t] = "commit" /\ pc'[t] = "done")
                            => \A b \in live' : b.id # req[t].id]_vars

=============================================================================
