-------------------------- MODULE MCWinDbgBackend --------------------------
(* Small instances of WinDbgBackend. *)
EXTENDS WinDbgBackend

CONSTANTS k1, k2, bad, file, fn

MCGroups == {file, fn}
MCKeys == {k1, k2, bad}
MCLocations == [group : MCGroups, key : MCKeys]

Op(kind) == [kind |-> kind, group |-> file, keys |-> <<>>]
Sets(g, keys) == [kind |-> "set", group |-> g, keys |-> keys]
Launches(keys) == [kind |-> "launch", group |-> file, keys |-> keys]

MCCalls == 1 .. 4

\* A launch that flushes a line, with a continue and a pause that overlap; the
\* setters; the kernel; a dump; attaches, with a step, or with a continue and a
\* disconnect that overlap.
MCPlans == {
    <<Launches(<<k1>>), Op("cont"), Op("pause"), Op("none")>>,
    <<Launches(<<k1>>), Sets(file, <<k1, k2>>), Sets(fn, <<bad, k2>>), Sets(file, <<k2>>)>>,
    <<Op("attach_kernel"), Op("disconnect"), Op("none"), Op("none")>>,
    <<Op("open_dump"), Op("cont"), Op("step"), Op("none")>>,
    <<Op("attach"), Op("step"), Op("inspect"), Op("none")>>,
    <<Op("attach"), Op("cont"), Op("disconnect"), Op("none")>> }

\* A pause while the target runs over a conditional breakpoint.
MCPausePlans == {<<Launches(<<k1>>), Op("cont"), Op("pause"), Op("none")>>}

=============================================================================
