-------------------------- MODULE FlattenVariables --------------------------
(***************************************************************************)
(* flatten_variables and flatten_recursive (mcp-tools, flatten.rs): the    *)
(* depth-first walk that turns a scope into a flat list of at most a given *)
(* number of variables, one fetch from the debugger per opened container.  *)
(*                                                                         *)
(* A variable is named by its path, the positions of its ancestors and its *)
(* own among their siblings, as the dotted name does in the code; a tree   *)
(* is a set of paths that holds the ancestors of each.  It may be          *)
(* infinitely deep, as the nodes of a cyclic list are, but a response is a *)
(* list.  The recursion is the list of variables still to visit.           *)
(***************************************************************************)
EXTENDS Naturals, Sequences, SequencesExt, FiniteSets

CONSTANTS
    Cap,        \* VARIABLE_CAP, 100 in the code
    Trees       \* the trees the debugger may hold

\* The scope itself.
Root == <<>>

\* The variables of one response of the debugger: the children of p.
Children(tree, p) == {q \in tree : Front(q) = p}

ASSUME TreeAssumption ==
    /\ Cap \in Nat \ {0}
    /\ \A tree \in Trees : \A p \in tree :
          /\ p \in Seq(Nat) /\ p # Root
          /\ Len(p) > 1 => Front(p) \in tree
    /\ \A tree \in Trees : \A p \in tree \cup {Root} : IsFiniteSet(Children(tree, p))

\* Variables of one response in its order.
InOrder(level) ==
    CHOOSE s \in [1 .. Cardinality(level) -> level] :
        \A i, j \in DOMAIN s : i < j => Last(s[i]) < Last(s[j])

Container(tree, p) == Children(tree, p) # {}

\* A walk before its first fetch: wanted are the top-level variables whose name
\* matches the filter; opens is what is to be fetched next, if anything.
NewWalk(depth, wanted) ==
    [tree |-> {}, depth |-> depth, wanted |-> wanted, opens |-> {Root}, todo |-> <<>>,
     out |-> <<>>, truncated |-> FALSE]

\* A fetch is answered: its variables come before what was left to visit, those
\* of the scope itself filtered.
Fetched(w, tree, p) ==
    LET level == {q \in Children(tree, p) : p = Root => q[1] \in w.wanted}
    IN  [w EXCEPT !.tree = tree, !.opens = {}, !.todo = InOrder(level) \o @]

\* MUTANT of CapHit: one more than the cap is let through.
CapHitLate(out) == Len(out) > Cap

CapHit(out) == Len(out) >= Cap

\* The next variable is emitted.  A container is opened while there is depth
\* left, otherwise it is marked as having children; the cap is tested after every
\* variable, before any fetch.
Visit(w) ==
    LET p == Head(w.todo)
        opens == Container(w.tree, p) /\ Len(p) <= w.depth
        out == Append(w.out, [path |-> p, closed |-> Container(w.tree, p) /\ ~ opens])
    IN  IF CapHit(out)
        THEN [w EXCEPT !.out = out, !.todo = <<>>, !.truncated = TRUE]
        ELSE [w EXCEPT !.out = out, !.todo = Tail(@), !.opens = IF opens THEN {p} ELSE {}]

WalkOver(w) == w.opens = {} /\ w.todo = <<>>

-----------------------------------------------------------------------------
(* The reference: which variables are listed, and where each one stands. *)

Listed(w) == {p \in w.tree : Len(p) <= w.depth + 1 /\ p[1] \in w.wanted}

\* p comes first where their paths part.
LeftOf(p, q) ==
    \E i \in 1 .. Len(p) : /\ i <= Len(q) /\ p[i] < q[i]
                           /\ \A j \in 1 .. i - 1 : p[j] = q[j]

\* p stands before q in the listing: it is an ancestor, or left of it.
Before(p, q) == IsStrictPrefix(p, q) \/ LeftOf(p, q)

\* The walk has emitted the first of the listed variables, in order, a container
\* at the last level marked; when it is over it has emitted Cap of them or all,
\* and says that it is truncated exactly when it has emitted Cap.
WalkCorrect(w) ==
    /\ \A i \in DOMAIN w.out :
          LET p == w.out[i].path
          IN  /\ p \in Listed(w)
              /\ Cardinality({q \in Listed(w) : Before(q, p)}) = i - 1
              /\ w.out[i].closed = (Len(p) = w.depth + 1 /\ Container(w.tree, p))
    /\ WalkOver(w) => /\ Len(w.out) = Min({Cap, Cardinality(Listed(w))})
                      /\ w.truncated = (Cardinality(Listed(w)) >= Cap)

=============================================================================
