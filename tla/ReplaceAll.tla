----------------------------- MODULE ReplaceAll -----------------------------
(***************************************************************************)
(* What the breakpoint tools rely on of a debugger, whatever it is made    *)
(* of: a set request makes the breakpoints of its group, a source file or  *)
(* all the functions, those of its list in one step, as it ends.  Those    *)
(* the group had keep their numbers, the new ones get numbers the group    *)
(* did not have, and no other group is touched.  (Groups may share a       *)
(* number meanwhile: the engine gives a removed one out again before the   *)
(* remover's request is over.)  Breakpoints!Replaced is this promise with  *)
(* the numbers counted up; WinDbgBackend keeps it over an engine that only *)
(* adds and removes single breakpoints.                                    *)
(***************************************************************************)
CONSTANTS
    Groups,     \* the source files, and the function breakpoints
    Ids,        \* breakpoint numbers
    Refused     \* keys that are never set

VARIABLES
    set,        \* the number of each key of each group
    asked       \* the requests that are not over: kind, group and keys

Had(g) == {set[g][k] : k \in DOMAIN set[g]}

\* Group g has these keys from now on.
Becomes(g, keys) ==
    \E now \in [keys -> Ids] :
        /\ \A k \in keys : IF k \in DOMAIN set[g] THEN now[k] = set[g][k]
                                                  ELSE now[k] \notin Had(g)
        /\ \A k, l \in keys : now[k] = now[l] => k = l
        /\ set' = [set EXCEPT ![g] = now]

\* A set request, which ends with it: what it asks for and the group has stays,
\* nothing it does not ask for does, and what is new may fail to be set.
Replace(r) ==
    /\ r.kind = "set"
    /\ \E got \in SUBSET (r.keys \ Refused) :
          DOMAIN set[r.group] \cap r.keys \subseteq got /\ Becomes(r.group, got)

\* The launch sets the keys of its list one after the other.
Add(r) ==
    /\ r.kind = "launch"
    /\ \E k \in r.keys \ (Refused \cup DOMAIN set[r.group]) :
          Becomes(r.group, DOMAIN set[r.group] \cup {k})

Init == set = [g \in Groups |-> << >>]
Next == \E c \in DOMAIN asked : \/ c \notin DOMAIN asked' /\ Replace(asked[c])
                               \/ Add(asked[c])
Spec == Init /\ [][Next]_set

=============================================================================
