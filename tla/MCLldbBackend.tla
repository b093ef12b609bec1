--------------------------- MODULE MCLldbBackend ---------------------------
(* Small instances of LldbBackend. *)
EXTENDS LldbBackend

CONSTANTS th1, th2

MCCalls == 1 .. 4

Op(tool) == [tool |-> tool, thread |-> None, levels |-> 1, index |-> 0, chunks |-> 0]
Talks(tool, n) == [Op(tool) EXCEPT !.chunks = n]
AtFrame(i) == [Op("evaluate") EXCEPT !.index = i]

\* Two variables, with children at various places, up to three levels.
Level == {<<1>>, <<2>>}
MCTrees == {Level \cup below : below \in {{}, {<<1, 1>>, <<1, 2>>}, {<<1, 1>>, <<2, 1>>},
                                          {<<1, 1>>, <<1, 1, 1>>}}}

\* A continue with a pause and a disconnect that overlap it; a launch that a
\* disconnect overtakes, with what is read after it; a launch that runs; the
\* inspections, with a frame the map lacks and one the stack lacks; an attach; one
\* that a disconnect overtakes; a chatty debuggee.
MCPlans == {
    <<Op("launch_entry"), Op("cont"), Op("pause"), Op("disconnect")>>,
    <<Op("launch"), Op("disconnect"), Op("read_output"), Op("none")>>,
    <<Op("launch"), Op("pause"), Op("none"), Op("none")>>,
    <<Op("launch_entry"), Op("backtrace"), AtFrame(1), AtFrame(1)>>,
    <<Op("attach"), Op("disassemble"), Op("threads"), AtFrame(2)>>,
    <<Op("launch_entry"), Op("variables"), Op("none"), Op("none")>>,
    <<Op("launch_entry"), Op("evaluate"), Op("disconnect"), Op("none")>>,
    <<Talks("launch", 2), Op("read_output"), Op("none"), Op("none")>> }

\* A backtrace, a continue, and the variables of the frame the agent sees.
MCFramePlans == {
    <<Op("launch_entry"), Op("backtrace"), Op("cont"), Op("evaluate")>> }

=============================================================================
