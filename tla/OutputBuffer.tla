---------------------------- MODULE OutputBuffer ----------------------------
(***************************************************************************)
(* The session's buffer of debug output (mcp-session, output_buffer.rs).   *)
(* An entry is its size in bytes, of category and text together.  The      *)
(* buffer keeps a running total, from which it decides what to evict.      *)
(***************************************************************************)
EXTENDS Integers, Sequences, SequencesExt

CONSTANT MaxSize    \* the cap on the buffered bytes, 1 MiB in the code

ASSUME MaxSizeAssumption == MaxSize \in Nat

\* A new OutputBuffer.
EmptyBuffer == [entries |-> <<>>, size |-> 0, truncated |-> FALSE]

\* The bytes of the first n entries, for every n.
Totals(s) ==
    LET sum[n \in 0 .. Len(s)] == IF n = 0 THEN 0 ELSE sum[n - 1] + s[n]
    IN  sum

\* The loop of append: how many of the oldest entries go before the running
\* total, which counts them all, no longer exceeds the cap.
Evictions(entries, size) ==
    Min({n \in 0 .. Len(entries) :
            size - Totals(entries)[n] <= MaxSize \/ n = Len(entries)})

append(b, e) ==
    LET all == Append(b.entries, e)
        n == Evictions(all, b.size + e)
    IN  [entries |-> SubSeq(all, n + 1, Len(all)),
         size |-> b.size + e - Totals(all)[n],
         truncated |-> b.truncated \/ n > 0]

\* MUTANT of drain: the running total is not set back.
drainKeepsSize(b) == [b EXCEPT !.entries = <<>>, !.truncated = FALSE]

\* What drain leaves, and what it returns: the entries, after a marker if some
\* were evicted.
drain(b) == IF b.entries = <<>> /\ ~ b.truncated
            THEN b
            ELSE [entries |-> <<>>, size |-> 0, truncated |-> FALSE]

drained(b) == [marker |-> b.truncated, entries |-> b.entries]

=============================================================================
