--------------------------- MODULE MCBreakpoints ---------------------------
(* A client that sets, removes and connects, with one source file.          *)
EXTENDS Breakpoints

CONSTANTS t1, t2, t3, t4, t5, t6, file, five, seven, main, addr

Lifecycles(k) == [kind |-> k, group |-> Fn, key |-> main, id |-> 0]
SetLine(l) == [kind |-> "set", group |-> file, key |-> l, id |-> 0]
SetName(n) == [kind |-> "set", group |-> Fn, key |-> n, id |-> 0]
RemoveId(i) == [kind |-> "remove", group |-> file, key |-> five, id |-> i]

\* Two lines (or one twice) and a name set before or after connecting, and one
\* of them removed.
Session == {(t1 :> Lifecycles("launch")) @@ (t2 :> SetLine(five)) @@ (t3 :> r)
                @@ (t4 :> e[1]) @@ (t5 :> RemoveId(i)) @@ (t6 :> e[2]) :
               r \in {SetLine(five), SetLine(seven)}, i \in {1, 3},
               e \in {<<SetName(main), Lifecycles("disconnect")>>,
                      <<SetName(addr), Lifecycles("attach")>>}}

\* A breakpoint set in a running session, and removed.
SetThenRemove == {(t1 :> Lifecycles("launch")) @@ (t2 :> SetLine(five)) @@ (t3 :> RemoveId(1))}

InPlace == [k \in Keys |-> k]
Moved == [k \in Keys |-> IF k = five THEN seven ELSE k]
AnyPlace == {InPlace, Moved}
OnlyMoved == {Moved}

=============================================================================
