----------------------------- MODULE BoundedLog -----------------------------
(***************************************************************************)
(* What a reader of the debug output is promised: between two reads the    *)
(* log holds the most recent entries, as many of them as fit, in order,    *)
(* and a read says whether anything written since the last one is missing. *)
(***************************************************************************)
EXTENDS Integers, Sequences, SequencesExt

CONSTANTS
    Sizes,      \* the sizes of entries
    Capacity    \* the room there is

VARIABLES
    source,     \* what is still to be written
    log,        \* what a read would return
    gap,        \* whether something is missing from it
    read        \* the last read

vars == <<source, log, gap, read>>

Room(s) ==
    LET sum[n \in 0 .. Len(s)] == IF n = 0 THEN 0 ELSE sum[n - 1] + s[n]
    IN  sum[Len(s)] <= Capacity

Init ==
    /\ source = <<>> /\ log = <<>> /\ gap = FALSE
    /\ read = [marker |-> FALSE, entries |-> <<>>]

Arrive == (\E e \in Sizes : source' = Append(source, e)) /\ UNCHANGED <<log, gap, read>>

\* The longest tail that fits.
Write ==
    LET all == Append(log, Head(source))
    IN  /\ source # <<>> /\ source' = Tail(source)
        /\ \E tail \in Suffixes(all) :
              /\ Room(tail)
              /\ \A longer \in Suffixes(all) : Room(longer) => Len(longer) <= Len(tail)
              /\ log' = tail
              /\ gap' = (gap \/ tail # all)
        /\ UNCHANGED read

Read ==
    /\ read' = [marker |-> gap, entries |-> log]
    /\ log' = <<>>
    /\ gap' = FALSE
    /\ UNCHANGED source

Next == Arrive \/ Write \/ Read
Spec == Init /\ [][Next]_vars

=============================================================================
