------------------------ MODULE LldbVariables_proofs ------------------------
(***************************************************************************)
(* Proofs about FlattenVariables, for any cap, depth, filter and any trees *)
(* whose containers have finitely many children each: the flat list is the *)
(* first of the variables in order (VariablesInOrder).                     *)
(*                                                                         *)
(* The argument is that what the walk has not emitted is exactly what      *)
(* stands under its to-do list, or under the container it is opening, that *)
(* the to-do list goes from left to right, and that what was emitted       *)
(* stands before all the rest.                                             *)
(***************************************************************************)
EXTENDS LldbOutput_proofs, FiniteSetTheorems

-----------------------------------------------------------------------------
(* The invariant of the walk *)

\* p is q or one of its ancestors.
Under(p, q) == Len(p) <= Len(q) /\ \A i \in 1 .. Len(p) : p[i] = q[i]

Emitted(w) == {w.out[i].path : i \in DOMAIN w.out}

\* What the walk has yet to come to: what is under its to-do list or under what it
\* opens.
OnList(list, q) == \E i \in DOMAIN list : Under(list[i], q)
Below(nodes, q) == \E p \in nodes : Under(p, q) /\ p # q
Waiting(w, q) == OnList(w.todo, q) \/ Below(w.opens, q)

WalkTypes(w) ==
    /\ w = [tree |-> w.tree, depth |-> w.depth, wanted |-> w.wanted, opens |-> w.opens,
            todo |-> w.todo, out |-> w.out, truncated |-> w.truncated]
    /\ w.tree \in Trees \cup {{}}
    /\ w.depth \in Nat
    /\ w.todo \in Seq(Seq(Nat))
    /\ w.out \in Seq([path : Seq(Nat), closed : BOOLEAN])
    /\ w.truncated \in BOOLEAN

\* What was emitted is listed, is marked as it should be, and is in order.
OutInv(w) ==
    /\ \A i \in DOMAIN w.out :
          LET p == w.out[i].path
          IN  /\ p \in Listed(w)
              /\ w.out[i].closed = (Len(p) = w.depth + 1 /\ Container(w.tree, p))
              /\ \A j \in DOMAIN w.out : i < j => Before(p, w.out[j].path)
              /\ \A q \in Listed(w) \ Emitted(w) : Before(p, q)

\* What is left to visit goes from left to right.
TodoInv(w) ==
    \A i \in DOMAIN w.todo :
        /\ w.todo[i] \in Listed(w)
        /\ \A j \in DOMAIN w.todo : i < j => LeftOf(w.todo[i], w.todo[j])

\* What is being opened is the scope, before anything else, or a container on
\* the left of what is left to visit, with depth to go.
OpensInv(w) ==
    \A p \in w.opens :
        /\ w.opens = {p}
        /\ p = Root => w.out = <<>> /\ w.todo = <<>>
        /\ p # Root => /\ p \in Listed(w) /\ Len(p) <= w.depth
                       /\ \A i \in DOMAIN w.todo : LeftOf(p, w.todo[i])

\* The walk has stopped at the cap, or what was not emitted is still to come.
RestInv(w) ==
    IF w.truncated
    THEN Len(w.out) = Cap /\ w.todo = <<>> /\ w.opens = {}
    ELSE /\ Len(w.out) < Cap
         /\ \A q \in Listed(w) : q \notin Emitted(w) <=> Waiting(w, q)

WalkInv(w) == WalkTypes(w) /\ OutInv(w) /\ TodoInv(w) /\ OpensInv(w) /\ RestInv(w)

-----------------------------------------------------------------------------
(* Paths *)

\* A path is a list of positions.
LEMMA PathParts ==
    ASSUME NEW p \in Seq(Nat)
    PROVE  Len(p) \in Nat /\ \A i \in 1 .. Len(p) : p[i] \in Nat
BY LenProperties, ElementOfSeq

\* The first positions of a path.
LEMMA SubSeqLess ==
    ASSUME NEW q \in Seq(Nat), NEW n \in Nat, n <= Len(q)
    PROVE  /\ SubSeq(q, 1, n) \in Seq(Nat)
           /\ Len(SubSeq(q, 1, n)) = n
           /\ \A i \in 1 .. n : SubSeq(q, 1, n)[i] = q[i]
<1> DEFINE r == SubSeq(q, 1, n)
<1>1. n \in Int /\ 1 \in Int /\ n - 1 + 1 = n /\ Len(q) \in Nat
  BY PathParts
<1>2. \A i \in 1 .. n : q[i] \in Nat
  BY <1>1, PathParts
<1>3. /\ r \in Seq(Nat)
      /\ Len(r) = IF 1 <= n THEN n - 1 + 1 ELSE 0
      /\ \A i \in 1 .. n - 1 + 1 : r[i] = q[1 + i - 1]
  BY <1>1, <1>2, SubSeqProperties
<1> HIDE DEF r
<1>4. r \in Seq(Nat) /\ Len(r) = n /\ \A i \in 1 .. n : r[i] = q[i]
  BY <1>1, <1>3
<1>5. QED
  BY <1>4 DEF r

\* A list is a prefix of another where it agrees with it.
LEMMA PrefixIsUnder ==
    ASSUME NEW p \in Seq(Nat), NEW q \in Seq(Nat)
    PROVE  IsPrefix(p, q) <=> Under(p, q)
<1>0. Len(p) \in Nat /\ Len(q) \in Nat /\ 1 \in Int /\ Len(p) \in Int
  BY PathParts
<1>1. CASE Len(p) <= Len(q)
  <2> DEFINE r == SubSeq(q, 1, Len(p))
             s == SubSeq(p, 1, Len(p))
  <2>1. /\ \A i \in 1 .. Len(p) : p[i] \in Nat
        /\ \A i \in 1 .. Len(p) : q[i] \in Nat
    BY <1>0, <1>1, PathParts
  <2>2. r \in Seq(Nat) /\ Len(r) = Len(p) /\ \A i \in 1 .. Len(p) : r[i] = q[i]
    BY <1>0, <2>1, SubSeqProperties
  <2>3. s = p
    BY SubSeqFull
  <2> HIDE DEF r, s
  <2>4. (\A i \in 1 .. Len(p) : p[i] = q[i]) => r = p
    BY <2>2, SeqEqual
  <2>5. r = p => \A i \in 1 .. Len(p) : p[i] = q[i]
    BY <2>2
  <2>6. QED
    BY <1>1, <2>3, <2>4, <2>5 DEF IsPrefix, Under, r, s
<1>2. CASE ~ (Len(p) <= Len(q))
  BY <1>2 DEF IsPrefix, Under
<1>3. QED
  BY <1>1, <1>2

\* One stands before the other where it is a proper ancestor or left of it.
LEMMA BeforeMeans ==
    ASSUME NEW p \in Seq(Nat), NEW q \in Seq(Nat)
    PROVE  Before(p, q) <=> (Under(p, q) /\ p # q) \/ LeftOf(p, q)
BY PrefixIsUnder DEF Before, IsStrictPrefix

\* A proper ancestor is shorter.
LEMMA ProperUnder ==
    ASSUME NEW p \in Seq(Nat), NEW q \in Seq(Nat), Under(p, q), p # q
    PROVE  Len(p) < Len(q)
<1>1. Len(p) \in Nat /\ Len(q) \in Nat /\ Len(p) <= Len(q)
  BY PathParts DEF Under
<1>2. Len(p) = Len(q) => p = q
  BY SeqEqual DEF Under
<1>3. QED
  BY <1>1, <1>2

\* Nothing is left of itself.
LEMMA NotLeftOfItself ==
    ASSUME NEW p \in Seq(Nat), LeftOf(p, p)
    PROVE  FALSE
BY PathParts DEF LeftOf

\* What is left of a node is left of what is under it.
LEMMA LeftOfUnder ==
    ASSUME NEW p \in Seq(Nat), NEW t \in Seq(Nat), NEW r \in Seq(Nat),
           LeftOf(p, t), Under(t, r)
    PROVE  LeftOf(p, r)
<1>1. Len(p) \in Nat /\ Len(t) \in Nat /\ Len(r) \in Nat
  BY PathParts
<1>2. PICK i \in 1 .. Len(p) : i <= Len(t) /\ p[i] < t[i] /\ \A j \in 1 .. i - 1 : p[j] = t[j]
  BY DEF LeftOf
<1>3. i <= Len(r) /\ \A j \in 1 .. i : r[j] = t[j]
  BY <1>1, <1>2 DEF Under
<1>4. p[i] < r[i] /\ \A j \in 1 .. i - 1 : p[j] = r[j]
  BY <1>1, <1>2, <1>3
<1>5. QED
  BY <1>3, <1>4 DEF LeftOf

\* What is under a node that is left of another is left of it too.
LEMMA UnderLeftOf ==
    ASSUME NEW p \in Seq(Nat), NEW c \in Seq(Nat), NEW t \in Seq(Nat),
           Under(p, c), LeftOf(p, t)
    PROVE  LeftOf(c, t)
<1>1. Len(p) \in Nat /\ Len(t) \in Nat /\ Len(c) \in Nat
  BY PathParts
<1>2. PICK i \in 1 .. Len(p) : i <= Len(t) /\ p[i] < t[i] /\ \A j \in 1 .. i - 1 : p[j] = t[j]
  BY DEF LeftOf
<1>3. i \in 1 .. Len(c) /\ \A j \in 1 .. i : c[j] = p[j]
  BY <1>1, <1>2 DEF Under
<1>4. c[i] < t[i] /\ \A j \in 1 .. i - 1 : c[j] = t[j]
  BY <1>1, <1>2, <1>3
<1>5. QED
  BY <1>2, <1>3, <1>4 DEF LeftOf

\* Two paths do not stand before each other.
LEMMA BeforeAsymmetric ==
    ASSUME NEW p \in Seq(Nat), NEW q \in Seq(Nat), Before(p, q), Before(q, p)
    PROVE  FALSE
<1>1. /\ (Under(p, q) /\ p # q) \/ LeftOf(p, q)
      /\ (Under(q, p) /\ p # q) \/ LeftOf(q, p)
  BY BeforeMeans
<1>2. CASE Under(p, q) /\ p # q /\ Under(q, p)
  <2>1. Len(p) < Len(q) /\ Len(q) < Len(p)
    BY <1>2, ProperUnder
  <2>2. QED
    BY <2>1, PathParts
<1>3. CASE Under(p, q) /\ LeftOf(q, p)
  BY <1>3, LeftOfUnder, NotLeftOfItself
<1>4. CASE Under(q, p) /\ LeftOf(p, q)
  BY <1>4, LeftOfUnder, NotLeftOfItself
<1>5. CASE LeftOf(p, q) /\ LeftOf(q, p)
  <2>1. PICK i \in 1 .. Len(p) :
           i <= Len(q) /\ p[i] < q[i] /\ \A j \in 1 .. i - 1 : p[j] = q[j]
    BY <1>5 DEF LeftOf
  <2>2. PICK k \in 1 .. Len(q) :
           k <= Len(p) /\ q[k] < p[k] /\ \A j \in 1 .. k - 1 : q[j] = p[j]
    BY <1>5 DEF LeftOf
  <2>3. /\ Len(p) \in Nat /\ Len(q) \in Nat
        /\ p[i] \in Nat /\ q[i] \in Nat /\ p[k] \in Nat /\ q[k] \in Nat
    BY <2>1, <2>2, PathParts
  <2>4. i < k \/ i = k \/ k < i
    BY <2>3
  <2>5. QED
    BY <2>1, <2>2, <2>3, <2>4
<1>6. QED
  BY <1>1, <1>2, <1>3, <1>4, <1>5

\* Nothing stands before itself.
LEMMA NotBeforeItself ==
    ASSUME NEW p \in Seq(Nat)
    PROVE  ~ Before(p, p)
BY BeforeAsymmetric

\* A child is one longer than its parent, and under it.
LEMMA ChildParts ==
    ASSUME NEW q \in Seq(Nat), q # Root
    PROVE  /\ Front(q) \in Seq(Nat)
           /\ Len(q) \in Nat \ {0} /\ Len(Front(q)) = Len(q) - 1
           /\ \A i \in 1 .. Len(q) - 1 : Front(q)[i] = q[i]
           /\ Under(Front(q), q) /\ Front(q) # q
           /\ Last(q) = q[Len(q)] /\ Last(q) \in Nat
<1>1. Len(q) \in Nat \ {0} /\ \A i \in 1 .. Len(q) : q[i] \in Nat
  BY PathParts, EmptySeq DEF Root
<1>2. Len(q) - 1 \in Nat /\ Len(q) - 1 <= Len(q)
  BY <1>1
<1>3. /\ Front(q) \in Seq(Nat)
      /\ Len(Front(q)) = Len(q) - 1
      /\ \A i \in 1 .. Len(q) - 1 : Front(q)[i] = q[i]
  BY <1>1, <1>2, SubSeqLess DEF Front
<1>4. Under(Front(q), q) /\ Front(q) # q
  BY <1>1, <1>3 DEF Under
<1>5. QED
  BY <1>1, <1>3, <1>4 DEF Last

\* Of two siblings one is left of the other.
LEMMA Siblings ==
    ASSUME NEW p \in Seq(Nat), NEW q \in Seq(Nat), p # Root, q # Root,
           Front(p) = Front(q), Last(p) < Last(q)
    PROVE  LeftOf(p, q)
<1>1. Len(p) = Len(q) /\ Len(p) \in Nat \ {0}
  BY ChildParts
<1>2. p[Len(p)] < q[Len(p)]
  BY <1>1, ChildParts
<1>3. \A j \in 1 .. Len(p) - 1 : p[j] = q[j]
  BY <1>1, ChildParts
<1>4. QED
  BY <1>1, <1>2, <1>3 DEF LeftOf

\* Siblings differ in their position.
LEMMA SiblingsDiffer ==
    ASSUME NEW p \in Seq(Nat), NEW q \in Seq(Nat), p # Root, q # Root,
           Front(p) = Front(q), Last(p) = Last(q)
    PROVE  p = q
<1>1. Len(p) = Len(q) /\ Len(p) \in Nat \ {0}
  BY ChildParts
<1>2. p[Len(p)] = q[Len(p)]
  BY <1>1, ChildParts
<1>3. \A j \in 1 .. Len(p) - 1 : p[j] = q[j]
  BY <1>1, ChildParts
<1>4. \A j \in 1 .. Len(p) : p[j] = q[j]
  BY <1>1, <1>2, <1>3
<1>5. QED
  BY <1>1, <1>4, SeqEqual

-----------------------------------------------------------------------------
(* Trees *)

\* A tree holds paths, and a path that is in it has its children in one response.
LEMMA TreeParts ==
    ASSUME NEW tree \in Trees \cup {{}}
    PROVE  /\ \A p \in tree : p \in Seq(Nat) /\ p # Root /\ (Len(p) > 1 => Front(p) \in tree)
           /\ \A p \in tree \cup {Root} : IsFiniteSet(Children(tree, p))
<1>1. CASE tree \in Trees
  BY <1>1, TreeAssumption DEF TreeAssumption
<1>2. CASE tree = {}
  BY <1>2, FS_EmptySet DEF Children
<1>3. QED
  BY <1>1, <1>2

\* It holds the ancestors of what it holds.
LEMMA Ancestors ==
    ASSUME NEW tree \in Trees \cup {{}}, NEW q \in tree, NEW n \in 1 .. Len(q)
    PROVE  SubSeq(q, 1, n) \in tree
<1> DEFINE I == {m \in 0 .. Len(q) - 1 : SubSeq(q, 1, Len(q) - m) \notin tree}
<1>0. q \in Seq(Nat) /\ Len(q) \in Nat /\ \A i \in 1 .. Len(q) : q[i] \in Nat
  BY TreeParts, PathParts
<1>1. I = {}
  <2>1. SUFFICES ASSUME I # {} PROVE FALSE
    OBVIOUS
  <2>2. I \subseteq Nat
    BY <1>0
  <2>3. PICK m \in I : \A j \in I : m <= j
    <3> HIDE DEF I
    <3>1. QED
      BY <2>1, <2>2, LeastPosition
  <2>4. m \in Nat /\ m <= Len(q) - 1 /\ SubSeq(q, 1, Len(q) - m) \notin tree
    BY <1>0
  <2>5. CASE m = 0
    <3>1. SubSeq(q, 1, Len(q)) = q /\ Len(q) - m = Len(q)
      BY <1>0, <2>5, SubSeqFull
    <3>2. SubSeq(q, 1, Len(q) - m) = q
      BY <3>1
    <3>3. QED
      BY <2>4, <3>2
  <2>6. CASE m # 0
    <3> DEFINE k == Len(q) - m
               r == SubSeq(q, 1, k + 1)
    <3>1. k \in Nat \ {0} /\ k + 1 <= Len(q) /\ Len(q) - (m - 1) = k + 1
      BY <1>0, <2>4, <2>6
    <3>2. m - 1 \in 0 .. Len(q) - 1 /\ ~ (m <= m - 1)
      BY <1>0, <2>4, <2>6
    <3>3. m - 1 \notin I
      <4> HIDE DEF I
      <4>1. QED
        BY <2>3, <3>2
    <3>4. r \in tree
      BY <3>1, <3>2, <3>3
    <3> HIDE DEF I, k
    <3>5. /\ Len(r) = k + 1
          /\ \A i \in 1 .. k + 1 : r[i] = q[i]
      BY <1>0, <3>1, SubSeqLess
    <3>6. Front(r) = SubSeq(q, 1, k)
      <4>1. r \in Seq(Nat) /\ r # Root
        BY <3>4, TreeParts
      <4>2. /\ Front(r) \in Seq(Nat) /\ Len(Front(r)) = k
            /\ \A i \in 1 .. k : Front(r)[i] = r[i]
        <5> HIDE DEF r
        <5>1. /\ Front(r) \in Seq(Nat) /\ Len(Front(r)) = Len(r) - 1
              /\ \A i \in 1 .. Len(r) - 1 : Front(r)[i] = r[i]
          BY <4>1, ChildParts
        <5>2. Len(r) - 1 = k
          BY <3>1, <3>5
        <5>3. QED
          BY <5>1, <5>2
      <4>3. /\ SubSeq(q, 1, k) \in Seq(Nat) /\ Len(SubSeq(q, 1, k)) = k
            /\ \A i \in 1 .. k : SubSeq(q, 1, k)[i] = q[i]
        BY <1>0, <3>1, SubSeqLess
      <4>4. QED
        BY <3>1, <3>5, <4>2, <4>3, SeqEqual
    <3>7. Front(r) \in tree
      <4> HIDE DEF r
      <4>1. Len(r) > 1
        BY <3>1, <3>5
      <4>2. QED
        BY <3>4, <4>1, TreeParts
    <3>8. QED
      BY <2>4, <3>6, <3>7 DEF k
  <2>7. QED
    BY <2>5, <2>6
<1>2. Len(q) - n \in 0 .. Len(q) - 1 /\ Len(q) - (Len(q) - n) = n
  BY <1>0
<1>3. QED
  BY <1>1, <1>2

\* What is under a node of a tree is under one of its children.
LEMMA ChildOnTheWay ==
    ASSUME NEW tree \in Trees \cup {{}}, NEW q \in tree, NEW p \in Seq(Nat),
           Under(p, q), p # q
    PROVE  \E r \in Children(tree, p) : Under(r, q)
<1> DEFINE n == Len(p) + 1
           r == SubSeq(q, 1, n)
<1>1. q \in Seq(Nat)
  BY TreeParts
<1>2. Len(p) \in Nat /\ Len(q) \in Nat /\ n \in 1 .. Len(q)
  BY <1>1, ProperUnder, PathParts
<1>3. r \in tree
  BY <1>2, Ancestors
<1>4. r \in Seq(Nat) /\ Len(r) = n /\ \A i \in 1 .. n : r[i] = q[i]
  BY <1>1, <1>2, SubSeqLess
<1>5. r # Root
  BY <1>3, TreeParts
<1> HIDE DEF r
<1>6. Front(r) = p
  <2>1. /\ Front(r) \in Seq(Nat) /\ Len(Front(r)) = Len(p)
        /\ \A i \in 1 .. Len(p) : Front(r)[i] = r[i]
    <3>1. /\ Front(r) \in Seq(Nat) /\ Len(Front(r)) = Len(r) - 1
          /\ \A i \in 1 .. Len(r) - 1 : Front(r)[i] = r[i]
      BY <1>4, <1>5, ChildParts
    <3>2. Len(r) - 1 = Len(p)
      BY <1>2, <1>4
    <3>3. QED
      BY <3>1, <3>2
  <2>2. \A i \in 1 .. Len(p) : Front(r)[i] = p[i]
    <3>1. \A i \in 1 .. Len(p) : i \in 1 .. n /\ p[i] = q[i]
      BY <1>2 DEF Under
    <3> HIDE DEF n
    <3>2. QED
      BY <1>4, <2>1, <3>1
  <2>3. QED
    BY <2>1, <2>2, SeqEqual
<1>7. Under(r, q)
  BY <1>2, <1>4 DEF Under
<1>8. QED
  BY <1>3, <1>6, <1>7 DEF Children

\* A tree has finitely many variables within a depth, however deep it is.
LEMMA WithinDepthFinite ==
    ASSUME NEW tree \in Trees \cup {{}}, NEW n \in Nat
    PROVE  IsFiniteSet({q \in tree : Len(q) <= n})
<1> DEFINE L(k) == {q \in tree : Len(q) <= k}
           I == {k \in Nat : ~ IsFiniteSet(L(k))}
<1>1. I = {}
  <2>1. SUFFICES ASSUME I # {} PROVE FALSE
    OBVIOUS
  <2>2. PICK m \in I : \A j \in I : m <= j
    <3>1. I \subseteq Nat
      OBVIOUS
    <3> HIDE DEF I
    <3>2. QED
      BY <2>1, <3>1, LeastPosition
  <2>3. m \in Nat /\ ~ IsFiniteSet(L(m))
    OBVIOUS
  <2>4. CASE m = 0
    <3>1. \A q \in tree : q \in Seq(Nat) /\ q # Root
      BY TreeParts
    <3>2. \A q \in tree : ~ (Len(q) <= 0)
      BY <3>1, ChildParts
    <3>3. L(m) = {}
      BY <2>4, <3>2
    <3>4. QED
      BY <2>3, <3>3, FS_EmptySet
  <2>5. CASE m # 0
    <3> DEFINE k == m - 1
               P == L(k) \cup {Root}
               f == [p \in P |-> Children(tree, p)]
               C == {f[p] : p \in P}
    <3>1. k \in Nat /\ ~ (m <= k)
      BY <2>3, <2>5
    <3>2. IsFiniteSet(L(k))
      <4>1. k \notin I
        <5> HIDE DEF I
        <5>1. QED
          BY <2>2, <3>1
      <4> HIDE DEF k
      <4>2. QED
        BY <3>1, <4>1
    <3>3. IsFiniteSet(P)
      <4> HIDE DEF L
      <4>1. QED
        BY <3>2, FS_AddElement
    <3>4. IsFiniteSet(C)
      <4>1. f \in Surjection(P, C)
        <5> HIDE DEF P
        <5>1. QED
          BY DEF Surjection
      <4> HIDE DEF f, C, P
      <4>2. QED
        BY <3>3, <4>1, FS_Surjection
    <3>5. \A T \in C : IsFiniteSet(T)
      BY TreeParts
    <3>6. IsFiniteSet(UNION C)
      <4> HIDE DEF C
      <4>1. QED
        BY <3>4, <3>5, FS_UNION
    <3>7. ASSUME NEW q \in L(m)
          PROVE  q \in UNION C
      <4>1. q \in tree /\ Len(q) <= m /\ q \in Seq(Nat) /\ q # Root
        BY TreeParts
      <4>2. Front(q) \in Seq(Nat) /\ Len(q) \in Nat \ {0} /\ Len(Front(q)) = Len(q) - 1
        BY <4>1, ChildParts
      <4>3. Front(q) \in P
        <5>1. CASE Len(q) > 1
          <6>1. Front(q) \in tree
            BY <4>1, <5>1, TreeParts
          <6>2. Len(Front(q)) <= k
            BY <2>3, <4>1, <4>2
          <6>3. QED
            BY <6>1, <6>2
        <5>2. CASE Len(q) = 1
          <6>1. Len(Front(q)) = 0
            BY <4>2, <5>2
          <6>2. Front(q) = Root
            BY <4>2, <6>1, EmptySeq DEF Root
          <6>3. QED
            BY <6>2
        <5>3. QED
          BY <4>2, <5>1, <5>2
      <4>4. q \in Children(tree, Front(q))
        BY <4>1 DEF Children
      <4> HIDE DEF P
      <4>5. f[Front(q)] \in C /\ q \in f[Front(q)]
        BY <4>3, <4>4
      <4> HIDE DEF C, f
      <4>6. QED
        BY <4>5
    <3>8. L(m) \in SUBSET (UNION C)
      <4> HIDE DEF L, C
      <4>1. QED
        BY <3>7
    <3> HIDE DEF L, C
    <3>9. IsFiniteSet(L(m))
      BY <3>6, <3>8, FS_Subset
    <3>10. QED
      BY <2>3, <3>9
  <2>6. QED
    BY <2>4, <2>5
<1>2. QED
  BY <1>1

\* So a walk lists finitely many.
LEMMA ListedFinite ==
    ASSUME NEW w, w.tree \in Trees \cup {{}}, w.depth \in Nat
    PROVE  IsFiniteSet(Listed(w))
<1> DEFINE n == w.depth + 1
           L == {q \in w.tree : Len(q) <= n}
<1>1. n \in Nat
  OBVIOUS
<1>2. Listed(w) \in SUBSET L
  BY DEF Listed
<1> HIDE DEF n
<1>3. IsFiniteSet(L)
  BY <1>1, WithinDepthFinite
<1> HIDE DEF L
<1>4. QED
  BY <1>2, <1>3, FS_Subset

-----------------------------------------------------------------------------
(* The order of a response *)

Increasing(s) == \A i, j \in DOMAIN s : i < j => Last(s[i]) < Last(s[j])

\* Finitely many siblings can be put in order.
LEMMA OrderExists ==
    ASSUME NEW level, IsFiniteSet(level),
           \A q \in level : Last(q) \in Nat,
           \A q, r \in level : Last(q) = Last(r) => q = r
    PROVE  \E s \in [1 .. Cardinality(level) -> level] : Increasing(s)
<1> DEFINE Orders(S, n) == {s \in [1 .. n -> S] : Increasing(s)}
           I == {n \in Nat : \E S \in SUBSET level : Cardinality(S) = n /\ Orders(S, n) = {}}
<1>1. I = {}
  <2>1. SUFFICES ASSUME I # {} PROVE FALSE
    OBVIOUS
  <2>2. PICK n \in I : \A j \in I : n <= j
    <3>1. I \subseteq Nat
      OBVIOUS
    <3> HIDE DEF I
    <3>2. QED
      BY <2>1, <3>1, LeastPosition
  <2>3. n \in Nat
    OBVIOUS
  <2>4. PICK S \in SUBSET level : Cardinality(S) = n /\ Orders(S, n) = {}
    OBVIOUS
  <2>5. IsFiniteSet(S)
    BY FS_Subset
  <2>6. CASE n = 0
    <3> DEFINE s == [i \in 1 .. n |-> S]
    <3>1. 1 .. n = {}
      BY <2>6
    <3>2. s \in [1 .. n -> S] /\ DOMAIN s = {}
      BY <3>1
    <3> HIDE DEF s
    <3>3. Increasing(s)
      BY <3>2 DEF Increasing
    <3>4. QED
      BY <2>4, <3>2, <3>3
  <2>7. CASE n # 0
    <3>1. S # {}
      BY <2>4, <2>5, <2>7, FS_EmptySet
    <3>2. PICK q \in S : \A r \in S : Last(q) <= Last(r)
      <4> DEFINE K == {Last(r) : r \in S}
      <4>1. K \subseteq Nat /\ K # {}
        BY <3>1
      <4>2. PICK k \in K : \A j \in K : k <= j
        <5> HIDE DEF K
        <5>1. QED
          BY <4>1, LeastPosition
      <4>3. QED
        BY <4>2
    <3> DEFINE T == S \ {q}
    <3>3. n - 1 \in Nat /\ ~ (n <= n - 1) /\ Cardinality(T) = n - 1
      <4>1. Cardinality(T) = Cardinality(S) - 1
        BY <2>5, FS_RemoveElement
      <4>2. QED
        BY <2>3, <2>4, <2>7, <4>1
    <3>4. n - 1 \notin I
      <4> HIDE DEF I
      <4>1. QED
        BY <2>2, <3>3
    <3>5. T \in SUBSET level
      OBVIOUS
    <3>6. PICK t \in [1 .. n - 1 -> T] : Increasing(t)
      <4> HIDE DEF T
      <4>1. Orders(T, n - 1) # {}
        BY <3>3, <3>4, <3>5
      <4>2. QED
        BY <4>1
    <3> HIDE DEF I
    <3> DEFINE s == [i \in 1 .. n |-> IF i = 1 THEN q ELSE t[i - 1]]
    <3>7. ASSUME NEW i \in 1 .. n, i # 1
          PROVE  /\ i - 1 \in 1 .. n - 1 /\ s[i] = t[i - 1]
                 /\ s[i] \in T
      <4>1. i - 1 \in 1 .. n - 1
        BY <2>3, <3>7
      <4> HIDE DEF T
      <4>2. t[i - 1] \in T
        BY <4>1
      <4>3. QED
        BY <3>7, <4>1, <4>2
    <3>8. s \in [1 .. n -> S]
      <4>1. \A i \in 1 .. n : s[i] \in S
        <5>1. s[1] = q
          BY <2>3, <2>7
        <5> HIDE DEF s
        <5>2. QED
          BY <3>7, <5>1
      <4>2. QED
        BY <4>1
    <3>9. ASSUME NEW i \in 1 .. n, NEW j \in 1 .. n, i < j
          PROVE  Last(s[i]) < Last(s[j])
      <4>1. j # 1 /\ j - 1 \in 1 .. n - 1 /\ s[j] = t[j - 1] /\ s[j] \in T
        BY <3>7, <3>9
      <4>2. CASE i = 1
        <5>1. s[i] = q
          BY <4>2
        <5>2. Last(q) <= Last(s[j]) /\ Last(q) # Last(s[j])
          <6> HIDE DEF s
          <6>1. QED
            BY <3>2, <4>1
        <5>3. Last(q) \in Nat /\ Last(s[j]) \in Nat
          <6> HIDE DEF s
          <6>1. QED
            BY <4>1
        <5> HIDE DEF s
        <5>4. QED
          BY <5>1, <5>2, <5>3
      <4>3. CASE i # 1
        <5>1. i - 1 \in 1 .. n - 1 /\ s[i] = t[i - 1] /\ i - 1 < j - 1
          BY <3>7, <3>9, <4>3
        <5> HIDE DEF s, T
        <5>2. QED
          BY <3>6, <4>1, <5>1 DEF Increasing
      <4>4. QED
        BY <4>2, <4>3
    <3> HIDE DEF s
    <3>10. Increasing(s)
      BY <3>8, <3>9 DEF Increasing
    <3>11. QED
      BY <2>4, <3>8, <3>10
  <2>8. QED
    BY <2>6, <2>7
<1>2. Cardinality(level) \in Nat /\ level \in SUBSET level
  BY FS_CardinalityType
<1> DEFINE m == Cardinality(level)
<1>3. m \notin I
  BY <1>1
<1> HIDE DEF m
<1>4. Orders(level, m) # {}
  BY <1>2, <1>3 DEF m
<1>5. QED
  BY <1>4 DEF m

\* A response in order has every variable of it.
LEMMA InOrderParts ==
    ASSUME NEW level, IsFiniteSet(level),
           \A q \in level : Last(q) \in Nat,
           \A q, r \in level : Last(q) = Last(r) => q = r
    PROVE  /\ Cardinality(level) \in Nat
           /\ InOrder(level) \in [1 .. Cardinality(level) -> level]
           /\ Increasing(InOrder(level))
           /\ \A q \in level : \E i \in 1 .. Cardinality(level) : InOrder(level)[i] = q
<1> DEFINE n == Cardinality(level)
           s == InOrder(level)
<1>1. n \in Nat
  BY FS_CardinalityType
<1>2. s \in [1 .. n -> level] /\ Increasing(s)
  BY OrderExists DEF InOrder, Increasing
<1>3. s \in Injection(1 .. n, level)
  <2>1. ASSUME NEW i \in 1 .. n, NEW j \in 1 .. n, s[i] = s[j]
        PROVE  i = j
    <3> HIDE DEF s
    <3>1. i \in DOMAIN s /\ j \in DOMAIN s /\ Last(s[i]) \in Nat /\ Last(s[i]) = Last(s[j])
      BY <1>2, <2>1
    <3>2. ~ (i < j) /\ ~ (j < i)
      BY <1>2, <3>1 DEF Increasing
    <3>3. QED
      BY <1>1, <3>2
  <2> HIDE DEF s
  <2>2. QED
    BY <1>2, <2>1 DEF Injection, IsInjective
<1>4. Cardinality(1 .. n) = n
  <2>1. 1 \in Int /\ n \in Int
    BY <1>1
  <2> HIDE DEF n
  <2>2. Cardinality(1 .. n) = IF 1 > n THEN 0 ELSE n - 1 + 1
    BY <2>1, FS_Interval
  <2>3. QED
    BY <1>1, <2>2
<1>5. s \in Surjection(1 .. n, level)
  <2> HIDE DEF s
  <2>1. QED
    BY <1>3, <1>4, FS_Injection
<1>6. QED
  BY <1>1, <1>2, <1>5 DEF Surjection

-----------------------------------------------------------------------------
(* The steps of the walk *)

\* What is listed is a path.
LEMMA ListedParts ==
    ASSUME NEW w, w.tree \in Trees \cup {{}}, NEW q \in Listed(w)
    PROVE  q \in w.tree /\ q \in Seq(Nat) /\ q # Root /\ Len(q) \in Nat \ {0}
BY TreeParts, ChildParts DEF Listed

\* A walk begins.
LEMMA NewWalkKeeps ==
    ASSUME NEW d \in Nat, NEW f
    PROVE  WalkInv(NewWalk(d, f))
<1> DEFINE w == NewWalk(d, f)
<1>1. /\ w.tree = {} /\ w.depth = d /\ w.wanted = f /\ w.opens = {Root} /\ w.todo = <<>>
      /\ w.out = <<>> /\ w.truncated = FALSE
  BY DEF NewWalk
<1>2. w = [tree |-> w.tree, depth |-> w.depth, wanted |-> w.wanted, opens |-> w.opens,
           todo |-> w.todo, out |-> w.out, truncated |-> w.truncated]
  BY <1>1 DEF NewWalk
<1> HIDE DEF w
<1>3. Listed(w) = {} /\ DOMAIN w.out = {} /\ DOMAIN w.todo = {} /\ Len(w.out) = 0
  BY <1>1 DEF Listed
<1>4. WalkTypes(w)
  <2>1. w.todo \in Seq(Seq(Nat)) /\ w.out \in Seq([path : Seq(Nat), closed : BOOLEAN])
    BY <1>1, EmptySeq
  <2>2. w.truncated \in BOOLEAN
    BY <1>1, Zenon
  <2>3. w.tree \in Trees \cup {{}} /\ w.depth \in Nat
    BY <1>1
  <2>4. QED
    BY <1>2, <2>1, <2>2, <2>3 DEF WalkTypes
<1>5. OutInv(w) /\ TodoInv(w)
  BY <1>3 DEF OutInv, TodoInv
<1>6. OpensInv(w)
  BY <1>1 DEF OpensInv
<1>7. RestInv(w)
  BY <1>1, <1>3, TreeAssumption DEF RestInv, TreeAssumption
<1>8. QED
  BY <1>4, <1>5, <1>6, <1>7 DEF WalkInv, w

\* What a fetch leaves of the walk.
LEMMA FetchedFields ==
    ASSUME NEW w, WalkTypes(w), NEW tree, NEW p
    PROVE  LET v == Fetched(w, tree, p)
               level == {q \in Children(tree, p) : p = Root => q[1] \in w.wanted}
           IN  /\ v = [tree |-> tree, depth |-> w.depth, wanted |-> w.wanted, opens |-> {},
                       todo |-> InOrder(level) \o w.todo, out |-> w.out,
                       truncated |-> w.truncated]
<1> DEFINE level == {q \in Children(tree, p) : p = Root => q[1] \in w.wanted}
           s == InOrder(level)
<1>1. Fetched(w, tree, p) = [w EXCEPT !.tree = tree, !.opens = {}, !.todo = s \o @]
  BY DEF Fetched
<1> HIDE DEF s
<1>2. w = [tree |-> w.tree, depth |-> w.depth, wanted |-> w.wanted, opens |-> w.opens,
           todo |-> w.todo, out |-> w.out, truncated |-> w.truncated]
  BY DEF WalkTypes
<1>3. Fetched(w, tree, p) =
         [tree |-> tree, depth |-> w.depth, wanted |-> w.wanted, opens |-> {},
          todo |-> s \o w.todo, out |-> w.out, truncated |-> w.truncated]
  BY <1>1, <1>2
<1>4. QED
  BY <1>3 DEF s

\* The variables of a response, in order, stand under what was opened and go from
\* left to right.
LEMMA LevelParts ==
    ASSUME NEW tree \in Trees \cup {{}}, NEW p \in tree \cup {Root},
           NEW level \in SUBSET Children(tree, p)
    PROVE  LET s == InOrder(level)
           IN  /\ s \in Seq(Seq(Nat))
               /\ \A i \in DOMAIN s : /\ s[i] \in level /\ s[i] \in tree /\ s[i] # Root
                                     /\ Under(p, s[i]) /\ Len(s[i]) = Len(p) + 1
               /\ \A i, j \in DOMAIN s : i < j => LeftOf(s[i], s[j])
               /\ \A q \in level : \E i \in DOMAIN s : s[i] = q
<1> DEFINE s == InOrder(level)
           n == Cardinality(level)
<1>1. IsFiniteSet(level)
  BY TreeParts, FS_Subset
<1>2. ASSUME NEW q \in level
      PROVE  /\ q \in tree /\ q \in Seq(Nat) /\ q # Root /\ Front(q) = p
             /\ Last(q) \in Nat /\ Under(p, q) /\ Len(q) = Len(p) + 1
  <2>1. q \in tree /\ Front(q) = p
    BY DEF Children
  <2>2. q \in Seq(Nat) /\ q # Root
    BY <2>1, TreeParts
  <2>3. Len(q) \in Nat \ {0} /\ Len(Front(q)) = Len(q) - 1 /\ Last(q) \in Nat /\ Under(Front(q), q)
    BY <2>2, ChildParts
  <2>4. QED
    BY <2>1, <2>2, <2>3
<1>3. \A q, r \in level : Last(q) = Last(r) => q = r
  BY <1>2, SiblingsDiffer
<1>4. /\ n \in Nat /\ s \in [1 .. n -> level] /\ Increasing(s)
      /\ \A q \in level : \E i \in 1 .. n : s[i] = q
  BY <1>1, <1>2, <1>3, InOrderParts
<1> HIDE DEF s, n
<1>5. DOMAIN s = 1 .. n /\ \A i \in DOMAIN s : s[i] \in level
  BY <1>4
<1>6. s \in Seq(Seq(Nat))
  <2>1. s \in [1 .. n -> Seq(Nat)]
    BY <1>2, <1>4
  <2>2. QED
    BY <1>4, <2>1, SeqDef
<1>7. ASSUME NEW i \in DOMAIN s, NEW j \in DOMAIN s, i < j
      PROVE  LeftOf(s[i], s[j])
  <2>1. s[i] \in level /\ s[j] \in level /\ Last(s[i]) < Last(s[j])
    BY <1>4, <1>5, <1>7 DEF Increasing
  <2>2. QED
    BY <1>2, <2>1, Siblings
<1>8. \A i \in DOMAIN s : /\ s[i] \in level /\ s[i] \in tree /\ s[i] # Root
                         /\ Under(p, s[i]) /\ Len(s[i]) = Len(p) + 1
  BY <1>2, <1>5
<1>9. \A q \in level : \E i \in DOMAIN s : s[i] = q
  BY <1>4, <1>5
<1>10. QED
  BY <1>6, <1>7, <1>8, <1>9 DEF s

\* Ancestors of ancestors.
LEMMA UnderTransitive ==
    ASSUME NEW p \in Seq(Nat), NEW q \in Seq(Nat), NEW r \in Seq(Nat), Under(p, q), Under(q, r)
    PROVE  Under(p, r)
<1>1. Len(p) \in Nat /\ Len(q) \in Nat /\ Len(r) \in Nat
  BY PathParts
<1>2. QED
  BY <1>1 DEF Under

\* A fetch is answered.
LEMMA FetchedKeeps ==
    ASSUME NEW w, WalkInv(w), NEW p \in w.opens, NEW tree \in Trees, p # Root => tree = w.tree
    PROVE  WalkInv(Fetched(w, tree, p))
<1> DEFINE v == Fetched(w, tree, p)
           level == {q \in Children(tree, p) : p = Root => q[1] \in w.wanted}
           s == InOrder(level)
<1>1. v = [tree |-> tree, depth |-> w.depth, wanted |-> w.wanted, opens |-> {},
           todo |-> s \o w.todo, out |-> w.out, truncated |-> w.truncated]
  BY FetchedFields DEF WalkInv
<1>2. /\ w.depth \in Nat /\ w.todo \in Seq(Seq(Nat)) /\ w.tree \in Trees \cup {{}}
      /\ w.out \in Seq([path : Seq(Nat), closed : BOOLEAN]) /\ w.truncated \in BOOLEAN
  BY DEF WalkInv, WalkTypes
<1>3. tree \in Trees \cup {{}} /\ level \in SUBSET Children(tree, p)
  OBVIOUS
<1>4. p \in tree \cup {Root} /\ p \in Seq(Nat)
  <2>1. p # Root => p \in Listed(w)
    BY DEF WalkInv, OpensInv
  <2>2. p # Root => p \in tree /\ p \in Seq(Nat)
    BY <1>2, <2>1, ListedParts
  <2>3. Root \in Seq(Nat)
    BY EmptySeq DEF Root
  <2>4. QED
    BY <2>2, <2>3
<1>5. /\ s \in Seq(Seq(Nat))
      /\ \A i \in DOMAIN s : /\ s[i] \in level /\ s[i] \in tree /\ s[i] # Root
                            /\ Under(p, s[i]) /\ Len(s[i]) = Len(p) + 1
      /\ \A i, j \in DOMAIN s : i < j => LeftOf(s[i], s[j])
      /\ \A q \in level : \E i \in DOMAIN s : s[i] = q
  <2> HIDE DEF level
  <2>1. QED
    BY <1>3, <1>4, LevelParts
<1>6. ASSUME NEW i \in DOMAIN s
      PROVE  p = Root => s[i][1] \in w.wanted
  <2> HIDE DEF s
  <2>1. s[i] \in level
    BY <1>5
  <2>2. QED
    BY <2>1
<1>7. ASSUME NEW q \in Listed(v), Under(p, q), p # q
      PROVE  \E i \in DOMAIN s : Under(s[i], q)
  <2>1. q \in tree /\ q[1] \in w.wanted
    BY <1>1, <1>7 DEF Listed
  <2>2. PICK r \in Children(tree, p) : Under(r, q)
    BY <1>3, <1>4, <1>7, <2>1, ChildOnTheWay
  <2>3. r \in Seq(Nat) /\ r # Root
    BY <1>3, TreeParts DEF Children
  <2>4. r[1] = q[1]
    BY <2>2, <2>3, ChildParts DEF Under
  <2>5. r \in level
    BY <2>1, <2>2, <2>4
  <2> HIDE DEF level, s
  <2>6. QED
    BY <1>5, <2>2, <2>5
<1> DEFINE todo == s \o w.todo
           n == Len(s)
           m == Len(w.todo)
<1>8. /\ n \in Nat /\ m \in Nat /\ DOMAIN s = 1 .. n /\ DOMAIN w.todo = 1 .. m
      /\ todo \in Seq(Seq(Nat)) /\ Len(todo) = n + m /\ DOMAIN todo = 1 .. n + m
      /\ \A i \in 1 .. n : i \in DOMAIN todo /\ todo[i] = s[i]
      /\ \A i \in 1 .. m : n + i \in DOMAIN todo /\ todo[n + i] = w.todo[i]
  <2> HIDE DEF s
  <2>1. n \in Nat /\ m \in Nat /\ DOMAIN s = 1 .. n /\ DOMAIN w.todo = 1 .. m
    BY <1>2, <1>5, LenProperties
  <2>2. /\ todo \in Seq(Seq(Nat)) /\ Len(todo) = n + m
        /\ \A i \in 1 .. n + m : todo[i] = IF i <= n THEN s[i] ELSE w.todo[i - n]
    BY <1>2, <1>5, ConcatProperties
  <2>3. DOMAIN todo = 1 .. n + m
    <3> HIDE DEF todo, n, m
    <3>1. QED
      BY <2>2, LenProperties
  <2> HIDE DEF todo, n, m
  <2>4. QED
    BY <2>1, <2>2, <2>3
<1> HIDE DEF level, s, todo, n, m
<1>9. /\ v.tree = tree /\ v.depth = w.depth /\ v.wanted = w.wanted /\ v.opens = {}
      /\ v.todo = todo /\ v.out = w.out /\ v.truncated = w.truncated
  BY <1>1 DEF todo
<1>10. v = [tree |-> v.tree, depth |-> v.depth, wanted |-> v.wanted, opens |-> v.opens,
            todo |-> v.todo, out |-> v.out, truncated |-> v.truncated]
  BY <1>1
<1> HIDE DEF v
<1>11. /\ p = Root => w.out = <<>> /\ w.todo = <<>>
       /\ p # Root => /\ p \in Listed(w) /\ Len(p) <= w.depth /\ Listed(v) = Listed(w)
                      /\ \A i \in DOMAIN w.todo : LeftOf(p, w.todo[i])
  <2>1. /\ p = Root => w.out = <<>> /\ w.todo = <<>>
        /\ p # Root => /\ p \in Listed(w) /\ Len(p) <= w.depth
                       /\ \A i \in DOMAIN w.todo : LeftOf(p, w.todo[i])
    BY DEF WalkInv, OpensInv
  <2>2. p # Root => Listed(v) = Listed(w)
    BY <1>9 DEF Listed
  <2>3. QED
    BY <2>1, <2>2
<1>12. WalkTypes(v)
  BY <1>2, <1>8, <1>9, <1>10 DEF WalkTypes
<1>13. ASSUME NEW i \in DOMAIN s
       PROVE  s[i] \in Listed(v) /\ s[i] \in Seq(Nat)
  <2>1. s[i] \in tree /\ s[i] \in Seq(Nat) /\ Len(s[i]) = Len(p) + 1 /\ Under(p, s[i])
    BY <1>3, <1>5, TreeParts
  <2>2. CASE p = Root
    <3>1. Len(s[i]) <= w.depth + 1
      BY <1>2, <2>1, <2>2 DEF Root
    <3>2. QED
      BY <1>6, <1>9, <2>1, <2>2, <3>1 DEF Listed
  <2>3. CASE p # Root
    <3>1. Len(p) \in Nat \ {0} /\ p[1] \in w.wanted
      BY <1>2, <1>11, <2>3, ListedParts DEF Listed
    <3>2. s[i][1] = p[1] /\ Len(s[i]) <= w.depth + 1
      BY <1>2, <1>11, <2>1, <2>3, <3>1 DEF Under
    <3>3. QED
      BY <1>9, <2>1, <3>1, <3>2 DEF Listed
  <2>4. QED
    BY <2>2, <2>3
<1>14. OutInv(v)
  <2>1. CASE p = Root
    <3>1. DOMAIN v.out = {}
      BY <1>9, <1>11, <2>1
    <3>2. QED
      BY <3>1 DEF OutInv
  <2>2. CASE p # Root
    <3>1. tree = w.tree /\ Listed(v) = Listed(w) /\ OutInv(w)
      BY <1>11, <2>2 DEF WalkInv
    <3>2. QED
      BY <1>9, <3>1 DEF OutInv, Emitted, Container
  <2>3. QED
    BY <2>1, <2>2
<1>15. TodoInv(v)
  <2>1. ASSUME NEW i \in 1 .. m
        PROVE  /\ w.todo[i] \in Listed(v) /\ w.todo[i] \in Seq(Nat)
               /\ LeftOf(p, w.todo[i])
               /\ \A j \in 1 .. m : i < j => LeftOf(w.todo[i], w.todo[j])
    <3>1. p # Root
      BY <1>8, <1>11, <2>1 DEF m
    <3>2. /\ w.todo[i] \in Listed(w) /\ LeftOf(p, w.todo[i])
          /\ \A j \in 1 .. m : i < j => LeftOf(w.todo[i], w.todo[j])
      BY <1>8, <1>11, <3>1 DEF WalkInv, TodoInv
    <3>3. QED
      BY <1>2, <1>11, <3>1, <3>2, ListedParts
  <2>2. ASSUME NEW i \in 1 .. n, NEW j \in 1 .. m
        PROVE  LeftOf(s[i], w.todo[j])
    BY <1>4, <1>5, <1>8, <1>13, <2>1, UnderLeftOf
  <2>3. ASSUME NEW i \in DOMAIN todo
        PROVE  todo[i] \in Listed(v)
    <3>1. CASE i <= n
      BY <1>8, <1>13, <3>1
    <3>2. CASE ~ (i <= n)
      <4>1. i - n \in 1 .. m /\ n + (i - n) = i
        BY <1>8, <3>2
      <4>2. QED
        BY <1>8, <2>1, <4>1
    <3>3. QED
      BY <3>1, <3>2
  <2>4. ASSUME NEW i \in DOMAIN todo, NEW j \in DOMAIN todo, i < j
        PROVE  LeftOf(todo[i], todo[j])
    <3>1. CASE j <= n
      <4>1. i \in 1 .. n /\ j \in 1 .. n
        BY <1>8, <2>4, <3>1
      <4>2. QED
        BY <1>5, <1>8, <2>4, <4>1
    <3>2. CASE i <= n /\ ~ (j <= n)
      <4>1. i \in 1 .. n /\ j - n \in 1 .. m /\ n + (j - n) = j
        BY <1>8, <3>2
      <4>2. todo[j] = w.todo[j - n] /\ todo[i] = s[i]
        BY <1>8, <4>1
      <4>3. QED
        BY <2>2, <4>1, <4>2
    <3>3. CASE ~ (i <= n)
      <4>1. /\ i - n \in 1 .. m /\ n + (i - n) = i /\ i - n < j - n
            /\ j - n \in 1 .. m /\ n + (j - n) = j
        BY <1>8, <2>4, <3>3
      <4>2. todo[j] = w.todo[j - n] /\ todo[i] = w.todo[i - n]
        BY <1>8, <4>1
      <4>3. QED
        BY <2>1, <4>1, <4>2
    <3>4. QED
      BY <1>8, <3>1, <3>2, <3>3
  <2>5. QED
    BY <1>9, <2>3, <2>4 DEF TodoInv
<1>16. OpensInv(v)
  BY <1>9 DEF OpensInv
<1>17. w.truncated = FALSE /\ Len(w.out) < Cap
  BY <1>2 DEF WalkInv, RestInv
<1>18. ASSUME NEW q \in Listed(v)
       PROVE  q \notin Emitted(v) <=> Waiting(v, q)
  <2>1. q \in Seq(Nat) /\ q # Root
    BY <1>3, <1>9, ListedParts
  <2>2. OnList(v.todo, q) <=> OnList(s, q) \/ OnList(w.todo, q)
    <3>1. ASSUME NEW i \in DOMAIN todo, Under(todo[i], q)
          PROVE  \/ \E j \in DOMAIN s : Under(s[j], q)
                 \/ \E j \in DOMAIN w.todo : Under(w.todo[j], q)
      <4>1. CASE i <= n
        BY <1>8, <3>1, <4>1
      <4>2. CASE ~ (i <= n)
        <5>1. i - n \in 1 .. m /\ n + (i - n) = i
          BY <1>8, <4>2
        <5>2. QED
          BY <1>8, <3>1, <5>1
      <4>3. QED
        BY <4>1, <4>2
    <3>2. ASSUME NEW i \in DOMAIN s, Under(s[i], q)
          PROVE  \E j \in DOMAIN todo : Under(todo[j], q)
      BY <1>8, <3>2
    <3>3. ASSUME NEW i \in DOMAIN w.todo, Under(w.todo[i], q)
          PROVE  \E j \in DOMAIN todo : Under(todo[j], q)
      BY <1>8, <3>3
    <3>4. QED
      BY <1>9, <3>1, <3>2, <3>3 DEF OnList
  <2>3. OnList(s, q) <=> Below({p}, q)
    <3>1. ASSUME NEW i \in DOMAIN s, Under(s[i], q)
          PROVE  Under(p, q) /\ p # q
      <4>1. s[i] \in Seq(Nat) /\ Under(p, s[i]) /\ Len(s[i]) = Len(p) + 1
        BY <1>5, <1>13
      <4>2. Under(p, q)
        BY <1>4, <2>1, <3>1, <4>1, UnderTransitive
      <4>3. Len(p) \in Nat /\ Len(q) \in Nat /\ Len(s[i]) <= Len(q)
        BY <1>4, <2>1, <3>1, PathParts DEF Under
      <4>4. QED
        BY <4>1, <4>2, <4>3
    <3>2. QED
      BY <1>7, <3>1 DEF OnList, Below
  <2>4. q \notin Emitted(w) <=> OnList(w.todo, q) \/ Below({p}, q)
    <3>1. CASE p = Root
      <4>1. Emitted(w) = {}
        BY <1>11, <3>1 DEF Emitted
      <4>2. Below({p}, q)
        BY <2>1, <3>1, PathParts DEF Below, Under, Root
      <4>3. QED
        BY <4>1, <4>2
    <3>2. CASE p # Root
      <4>1. q \in Listed(w) /\ w.opens = {p}
        BY <1>11, <3>2 DEF WalkInv, OpensInv
      <4>2. q \notin Emitted(w) <=> Waiting(w, q)
        BY <1>17, <4>1 DEF WalkInv, RestInv
      <4>3. QED
        BY <4>1, <4>2 DEF Waiting
    <3>3. QED
      BY <3>1, <3>2
  <2>5. Emitted(v) = Emitted(w)
    BY <1>9 DEF Emitted
  <2>6. Waiting(v, q) <=> OnList(v.todo, q)
    BY <1>9 DEF Waiting, Below
  <2>7. QED
    BY <2>2, <2>3, <2>4, <2>5, <2>6
<1>19. RestInv(v)
  BY <1>9, <1>17, <1>18 DEF RestInv
<1>20. QED
  BY <1>12, <1>14, <1>15, <1>16, <1>19 DEF WalkInv, v

\* What a visit leaves of the walk.
LEMMA VisitFields ==
    ASSUME NEW w, WalkTypes(w)
    PROVE  LET v == Visit(w)
               p == Head(w.todo)
               opens == Container(w.tree, p) /\ Len(p) <= w.depth
               out == Append(w.out, [path |-> p, closed |-> Container(w.tree, p) /\ ~ opens])
           IN  v = [tree |-> w.tree, depth |-> w.depth, wanted |-> w.wanted,
                    opens |-> IF CapHit(out) THEN w.opens ELSE IF opens THEN {p} ELSE {},
                    todo |-> IF CapHit(out) THEN <<>> ELSE Tail(w.todo), out |-> out,
                    truncated |-> IF CapHit(out) THEN TRUE ELSE w.truncated]
<1> DEFINE p == Head(w.todo)
           opens == Container(w.tree, p) /\ Len(p) <= w.depth
           out == Append(w.out, [path |-> p, closed |-> Container(w.tree, p) /\ ~ opens])
           next == IF opens THEN {p} ELSE {}
<1>1. Visit(w) =
         IF CapHit(out)
         THEN [w EXCEPT !.out = out, !.todo = <<>>, !.truncated = TRUE]
         ELSE [w EXCEPT !.out = out, !.todo = Tail(@), !.opens = next]
  BY DEF Visit
<1> HIDE DEF out, next
<1>2. w = [tree |-> w.tree, depth |-> w.depth, wanted |-> w.wanted, opens |-> w.opens,
           todo |-> w.todo, out |-> w.out, truncated |-> w.truncated]
  BY DEF WalkTypes
<1>3. CASE CapHit(out)
  <2>1. Visit(w) = [tree |-> w.tree, depth |-> w.depth, wanted |-> w.wanted, opens |-> w.opens,
                    todo |-> <<>>, out |-> out, truncated |-> TRUE]
    BY <1>1, <1>2, <1>3
  <2>2. QED
    BY <1>3, <2>1 DEF out, next
<1>4. CASE ~ CapHit(out)
  <2>1. Visit(w) = [tree |-> w.tree, depth |-> w.depth, wanted |-> w.wanted, opens |-> next,
                    todo |-> Tail(w.todo), out |-> out, truncated |-> w.truncated]
    BY <1>1, <1>2, <1>4
  <2>2. QED
    BY <1>4, <2>1 DEF out, next
<1>5. QED
  BY <1>3, <1>4

\* The next variable is emitted.
LEMMA VisitKeeps ==
    ASSUME NEW w, WalkInv(w), w.opens = {}, w.todo # <<>>
    PROVE  WalkInv(Visit(w))
<1> DEFINE v == Visit(w)
           p == Head(w.todo)
           opens == Container(w.tree, p) /\ Len(p) <= w.depth
           e == [path |-> p, closed |-> Container(w.tree, p) /\ ~ opens]
           out == Append(w.out, e)
           k == Len(w.out)
           m == Len(w.todo)
           rest == Tail(w.todo)
<1>1. v = [tree |-> w.tree, depth |-> w.depth, wanted |-> w.wanted,
           opens |-> IF CapHit(out) THEN w.opens ELSE IF opens THEN {p} ELSE {},
           todo |-> IF CapHit(out) THEN <<>> ELSE rest, out |-> out,
           truncated |-> IF CapHit(out) THEN TRUE ELSE w.truncated]
  BY VisitFields DEF WalkInv
<1>2. /\ w.depth \in Nat /\ w.todo \in Seq(Seq(Nat)) /\ w.tree \in Trees \cup {{}}
      /\ w.out \in Seq([path : Seq(Nat), closed : BOOLEAN]) /\ w.truncated \in BOOLEAN
  BY DEF WalkInv, WalkTypes
<1>3. /\ k \in Nat /\ DOMAIN w.out = 1 .. k
      /\ m \in Nat \ {0} /\ DOMAIN w.todo = 1 .. m
      /\ p \in Seq(Nat) /\ p = w.todo[1] /\ 1 \in DOMAIN w.todo
  BY <1>2, LenProperties, EmptySeq, HeadTailProperties
<1>4. /\ rest \in Seq(Seq(Nat)) /\ DOMAIN rest = 1 .. m - 1
      /\ \A i \in 1 .. m - 1 : i + 1 \in DOMAIN w.todo /\ rest[i] = w.todo[i + 1]
  <2>1. /\ rest \in Seq(Seq(Nat)) /\ Len(rest) = m - 1
        /\ \A i \in 1 .. Len(rest) : rest[i] = w.todo[i + 1]
    BY <1>2, HeadTailProperties
  <2> HIDE DEF rest
  <2>2. DOMAIN rest = 1 .. m - 1
    BY <2>1, LenProperties
  <2>3. \A i \in 1 .. m - 1 : i + 1 \in DOMAIN w.todo
    <3> HIDE DEF m
    <3>1. QED
      BY <1>3
  <2>4. QED
    BY <2>1, <2>2, <2>3
<1>5. /\ e \in [path : Seq(Nat), closed : BOOLEAN]
      /\ e.path = p /\ e.closed = (Container(w.tree, p) /\ ~ opens)
  <2>1. (Container(w.tree, p) /\ ~ opens) \in BOOLEAN
    OBVIOUS
  <2>2. QED
    BY <1>3, <2>1
<1> HIDE DEF e, rest
<1>6. /\ out \in Seq([path : Seq(Nat), closed : BOOLEAN])
      /\ Len(out) = k + 1 /\ DOMAIN out = 1 .. k + 1
      /\ out[k + 1] = e /\ \A i \in 1 .. k : out[i] = w.out[i]
  BY <1>2, <1>3, <1>5, AppendProperties
<1> HIDE DEF out, p, k, m
<1>7. /\ v.tree = w.tree /\ v.depth = w.depth /\ v.wanted = w.wanted /\ v.out = out
      /\ v.opens = IF CapHit(out) THEN {} ELSE IF opens THEN {p} ELSE {}
      /\ v.todo = IF CapHit(out) THEN <<>> ELSE rest
      /\ v.truncated = IF CapHit(out) THEN TRUE ELSE w.truncated
  <2> HIDE DEF opens
  <2>1. QED
    BY <1>1
<1>8. v = [tree |-> v.tree, depth |-> v.depth, wanted |-> v.wanted, opens |-> v.opens,
           todo |-> v.todo, out |-> v.out, truncated |-> v.truncated]
  <2> HIDE DEF opens
  <2>1. QED
    BY <1>1
<1> HIDE DEF v
<1>9. Listed(v) = Listed(w)
  BY <1>7 DEF Listed
<1>10. w.truncated = FALSE /\ k < Cap
       /\ \A q \in Listed(w) : q \notin Emitted(w) <=> OnList(w.todo, q)
  <2>1. /\ ~ w.truncated /\ k < Cap
        /\ \A q \in Listed(w) : q \notin Emitted(w) <=> Waiting(w, q)
    BY DEF WalkInv, RestInv, k
  <2>2. \A q : ~ Below(w.opens, q)
    BY DEF Below
  <2>3. QED
    BY <1>2, <2>1, <2>2 DEF Waiting
<1>11. /\ p \in Listed(w)
       /\ \A i \in 2 .. m : LeftOf(p, w.todo[i])
       /\ \A i \in 1 .. m : w.todo[i] \in Listed(w)
       /\ \A i, j \in 1 .. m : i < j => LeftOf(w.todo[i], w.todo[j])
  BY <1>3 DEF WalkInv, TodoInv
<1>12. p # Root /\ Len(p) \in Nat \ {0} /\ p \in w.tree /\ Len(p) <= w.depth + 1
  BY <1>2, <1>11, ListedParts DEF Listed
<1>13. p \notin Emitted(w)
  <2>1. Under(w.todo[1], p)
    BY <1>3, <1>12 DEF Under
  <2>2. OnList(w.todo, p)
    BY <1>3, <2>1 DEF OnList
  <2>3. QED
    BY <1>10, <1>11, <2>2
<1>14. Emitted(v) = Emitted(w) \cup {p}
  <2>1. Emitted(v) = {out[i].path : i \in 1 .. k + 1}
    BY <1>6, <1>7 DEF Emitted
  <2>2. Emitted(w) = {w.out[i].path : i \in 1 .. k}
    BY <1>3 DEF Emitted
  <2>3. \A i \in 1 .. k + 1 : i \in 1 .. k \/ i = k + 1
    BY <1>3
  <2>4. \A i \in 1 .. k : i \in 1 .. k + 1
    BY <1>3
  <2>5. k + 1 \in 1 .. k + 1
    BY <1>3
  <2>6. QED
    BY <1>5, <1>6, <2>1, <2>2, <2>3, <2>4, <2>5
\* What is waiting besides p.
<1>15. ASSUME NEW q \in Listed(w)
       PROVE  OnList(w.todo, q) <=> Under(p, q) \/ OnList(rest, q)
  <2>1. ASSUME NEW i \in DOMAIN w.todo, Under(w.todo[i], q)
        PROVE  Under(p, q) \/ OnList(rest, q)
    <3>1. CASE i = 1
      BY <1>3, <2>1, <3>1
    <3>2. CASE i # 1
      <4>1. i - 1 \in 1 .. m - 1 /\ (i - 1) + 1 = i
        BY <1>3, <3>2
      <4>2. rest[i - 1] = w.todo[i] /\ i - 1 \in DOMAIN rest
        BY <1>4, <4>1
      <4>3. QED
        BY <2>1, <4>2 DEF OnList
    <3>3. QED
      BY <3>1, <3>2
  <2>2. Under(p, q) => OnList(w.todo, q)
    BY <1>3 DEF OnList
  <2>3. OnList(rest, q) => OnList(w.todo, q)
    BY <1>4 DEF OnList
  <2>4. QED
    BY <2>1, <2>2, <2>3 DEF OnList
<1>16. ASSUME NEW q \in Listed(w), OnList(rest, q)
       PROVE  LeftOf(p, q) /\ q # p
  <2>1. PICK i \in 1 .. m - 1 : Under(rest[i], q)
    BY <1>4, <1>16 DEF OnList
  <2>2. i + 1 \in 2 .. m /\ i + 1 \in 1 .. m /\ rest[i] = w.todo[i + 1]
    BY <1>3, <1>4, <2>1
  <2>3. LeftOf(p, rest[i]) /\ rest[i] \in Listed(w)
    BY <1>11, <2>2
  <2>4. rest[i] \in Seq(Nat) /\ q \in Seq(Nat)
    BY <1>2, <2>3, ListedParts
  <2>5. LeftOf(p, q)
    BY <1>3, <2>1, <2>3, <2>4, LeftOfUnder
  <2>6. QED
    BY <1>3, <2>5, NotLeftOfItself
<1>17. ASSUME NEW q \in Listed(w) \ Emitted(v)
       PROVE  Before(p, q)
  <2>1. q \notin Emitted(w) /\ q # p /\ q \in Listed(w) /\ q \in Seq(Nat)
    BY <1>2, <1>14, ListedParts
  <2>2. Under(p, q) \/ OnList(rest, q)
    BY <1>10, <1>15, <2>1
  <2>3. QED
    BY <1>3, <1>16, <2>1, <2>2, BeforeMeans
<1>18. WalkTypes(v)
  <2>1. v.todo \in Seq(Seq(Nat))
    BY <1>4, <1>7, EmptySeq
  <2>2. v.truncated \in BOOLEAN
    <3>1. v.truncated = TRUE \/ v.truncated = w.truncated
      BY <1>7
    <3>2. QED
      BY <1>2, <3>1, Zenon
  <2>3. QED
    BY <1>2, <1>6, <1>7, <1>8, <2>1, <2>2 DEF WalkTypes
<1>19. OutInv(v)
  <2>1. ASSUME NEW i \in 1 .. k
        PROVE  /\ v.out[i] = w.out[i] /\ i \in DOMAIN w.out
               /\ w.out[i].path \in Listed(w)
               /\ w.out[i].closed = (Len(w.out[i].path) = w.depth + 1
                                        /\ Container(w.tree, w.out[i].path))
               /\ \A j \in 1 .. k : i < j => Before(w.out[i].path, w.out[j].path)
               /\ \A q \in Listed(w) \ Emitted(w) : Before(w.out[i].path, q)
    BY <1>3, <1>6, <1>7 DEF WalkInv, OutInv
  <2>2. v.out[k + 1].path = p /\ v.out[k + 1].closed = (Container(w.tree, p) /\ ~ opens)
    BY <1>5, <1>6, <1>7
  <2>3. v.out[k + 1].closed = (Len(p) = w.depth + 1 /\ Container(w.tree, p))
    <3>1. (Container(w.tree, p) /\ ~ opens) = (Len(p) = w.depth + 1 /\ Container(w.tree, p))
      BY <1>2, <1>12
    <3>2. QED
      BY <2>2, <3>1
  <2>4. ASSUME NEW i \in 1 .. k + 1, NEW j \in 1 .. k + 1, i < j
        PROVE  Before(v.out[i].path, v.out[j].path)
    <3>1. i \in 1 .. k
      BY <1>3, <2>4
    <3>2. CASE j \in 1 .. k
      BY <2>1, <2>4, <3>1, <3>2
    <3>3. CASE j = k + 1
      BY <1>11, <1>13, <2>1, <2>2, <3>1, <3>3
    <3>4. QED
      BY <1>3, <3>2, <3>3
  <2>5. ASSUME NEW i \in 1 .. k + 1
        PROVE  /\ v.out[i].path \in Listed(w)
               /\ v.out[i].closed = (Len(v.out[i].path) = w.depth + 1
                                        /\ Container(w.tree, v.out[i].path))
               /\ \A q \in Listed(w) \ Emitted(v) : Before(v.out[i].path, q)
    <3>1. CASE i \in 1 .. k
      BY <1>14, <2>1, <3>1
    <3>2. CASE i = k + 1
      BY <1>11, <1>17, <2>2, <2>3, <3>2
    <3>3. QED
      BY <1>3, <3>1, <3>2
  <2>6. DOMAIN v.out = 1 .. k + 1 /\ v.tree = w.tree /\ v.depth = w.depth
    BY <1>6, <1>7
  <2>7. QED
    BY <1>9, <2>4, <2>5, <2>6 DEF OutInv
<1>20. ASSUME NEW i \in DOMAIN v.todo
       PROVE  /\ ~ CapHit(out) /\ v.todo = rest /\ i \in 1 .. m - 1
              /\ i + 1 \in 2 .. m /\ i + 1 \in 1 .. m /\ v.todo[i] = w.todo[i + 1]
  <2>1. DOMAIN << >> = {}
    OBVIOUS
  <2>2. ~ CapHit(out) /\ v.todo = rest
    BY <1>7, <2>1
  <2>3. i \in 1 .. m - 1 /\ v.todo[i] = w.todo[i + 1]
    BY <1>4, <2>2
  <2>4. i + 1 \in 2 .. m /\ i + 1 \in 1 .. m
    BY <1>3, <2>3
  <2>5. QED
    BY <2>2, <2>3, <2>4
<1>21. TodoInv(v)
  <2>1. ASSUME NEW i \in DOMAIN v.todo
        PROVE  v.todo[i] \in Listed(v)
    BY <1>9, <1>11, <1>20
  <2>2. ASSUME NEW i \in DOMAIN v.todo, NEW j \in DOMAIN v.todo, i < j
        PROVE  LeftOf(v.todo[i], v.todo[j])
    <3>1. i \in Nat /\ j \in Nat
      BY <1>20
    <3>2. i + 1 < j + 1
      BY <2>2, <3>1
    <3>3. QED
      BY <1>11, <1>20, <3>2
  <2>3. QED
    BY <2>1, <2>2 DEF TodoInv
<1>22. OpensInv(v)
  <2>1. ASSUME NEW r \in v.opens
        PROVE  r = p /\ v.opens = {p} /\ opens
    BY <1>7
  <2>2. \A i \in DOMAIN v.todo : LeftOf(p, v.todo[i])
    BY <1>11, <1>20
  <2>3. v.opens # {} => Len(p) <= v.depth
    BY <1>7
  <2>4. QED
    BY <1>9, <1>11, <1>12, <2>1, <2>2, <2>3 DEF OpensInv
<1>23. RestInv(v)
  <2>1. CASE CapHit(out)
    <3>1. k + 1 = Cap
      BY <1>3, <1>6, <1>10, <2>1, TreeAssumption DEF CapHit, TreeAssumption
    <3>2. v.truncated = TRUE /\ v.todo = <<>> /\ v.opens = {} /\ Len(v.out) = Cap
      BY <1>6, <1>7, <2>1, <3>1
    <3>3. QED
      BY <3>2 DEF RestInv
  <2>2. CASE ~ CapHit(out)
    <3>1. /\ v.truncated = FALSE /\ v.todo = rest /\ v.out = out
          /\ v.opens = IF opens THEN {p} ELSE {}
      BY <1>7, <1>10, <2>2
    <3>2. Len(v.out) < Cap
      BY <1>3, <1>6, <2>2, <3>1, TreeAssumption DEF CapHit, TreeAssumption
    <3>3. ASSUME NEW q \in Listed(w)
          PROVE  q \notin Emitted(v) <=> Waiting(v, q)
      <4>1. q \notin Emitted(v) <=> (Under(p, q) /\ p # q) \/ OnList(rest, q)
        <5>1. q \notin Emitted(v) <=> OnList(w.todo, q) /\ q # p
          BY <1>10, <1>14
        <5>2. QED
          BY <1>15, <1>16, <5>1
      <4>2. CASE opens
        <5>1. Below(v.opens, q) <=> Under(p, q) /\ p # q
          BY <3>1, <4>2 DEF Below
        <5>2. QED
          BY <3>1, <4>1, <5>1 DEF Waiting
      <4>3. CASE ~ opens
        <5>1. ~ (Under(p, q) /\ p # q)
          <6>1. SUFFICES ASSUME Under(p, q), p # q PROVE FALSE
            OBVIOUS
          <6>2. q \in w.tree /\ q \in Seq(Nat) /\ Len(q) \in Nat /\ Len(q) <= w.depth + 1
            BY <1>2, ListedParts DEF Listed
          <6>3. Len(p) < Len(q)
            BY <1>3, <6>1, <6>2, ProperUnder
          <6>4. Children(w.tree, p) # {}
            BY <1>2, <1>3, <6>1, <6>2, ChildOnTheWay
          <6>5. Container(w.tree, p) /\ Len(p) <= w.depth
            BY <1>2, <1>12, <6>2, <6>3, <6>4 DEF Container
          <6>6. QED
            BY <4>3, <6>5
        <5>2. ~ Below(v.opens, q)
          BY <3>1, <4>3 DEF Below
        <5>3. QED
          BY <3>1, <4>1, <5>1, <5>2 DEF Waiting
      <4>4. QED
        BY <4>2, <4>3
    <3>4. QED
      BY <1>9, <3>1, <3>2, <3>3 DEF RestInv
  <2>3. QED
    BY <2>1, <2>2
<1>24. QED
  BY <1>18, <1>19, <1>21, <1>22, <1>23 DEF WalkInv, v

-----------------------------------------------------------------------------
(* The listing *)

\* What was emitted is as much as there are positions, and no more.
LEMMA EmittedCount ==
    ASSUME NEW w, WalkInv(w), NEW n \in 0 .. Len(w.out)
    PROVE  Cardinality({w.out[j].path : j \in 1 .. n}) = n
<1> DEFINE S == {w.out[j].path : j \in 1 .. n}
           f == [j \in 1 .. n |-> w.out[j].path]
<1>1. Len(w.out) \in Nat /\ DOMAIN w.out = 1 .. Len(w.out) /\ w.tree \in Trees \cup {{}}
  BY LenProperties DEF WalkInv, WalkTypes
<1>2. f \in Surjection(1 .. n, S)
  BY DEF Surjection
<1>3. ASSUME NEW i \in 1 .. n, NEW j \in 1 .. n, i < j
      PROVE  f[i] # f[j]
  <2>1. i \in DOMAIN w.out /\ j \in DOMAIN w.out
    BY <1>1
  <2>2. /\ Before(w.out[i].path, w.out[j].path)
        /\ w.out[i].path \in Listed(w)
    BY <1>3, <2>1 DEF WalkInv, OutInv
  <2>3. w.out[i].path \in Seq(Nat)
    BY <1>1, <2>2, ListedParts
  <2>4. QED
    BY <2>2, <2>3, NotBeforeItself
<1>4. f \in Injection(1 .. n, S)
  <2>1. ASSUME NEW i \in 1 .. n, NEW j \in 1 .. n, f[i] = f[j]
        PROVE  i = j
    <3> HIDE DEF f
    <3>1. ~ (i < j) /\ ~ (j < i)
      BY <1>3, <2>1
    <3>2. QED
      BY <1>1, <3>1
  <2>2. f \in [1 .. n -> S] /\ DOMAIN f = 1 .. n
    OBVIOUS
  <2> HIDE DEF f, S
  <2>3. QED
    BY <2>1, <2>2 DEF Injection, IsInjective
<1>5. IsFiniteSet(1 .. n) /\ Cardinality(1 .. n) = n
  <2>1. n \in Nat /\ 1 \in Int /\ n \in Int
    BY <1>1
  <2>2. /\ IsFiniteSet(1 .. n)
        /\ Cardinality(1 .. n) = IF 1 > n THEN 0 ELSE n - 1 + 1
    BY <2>1, FS_Interval
  <2>3. QED
    BY <2>1, <2>2
<1> HIDE DEF f, S
<1>6. Cardinality(S) = Cardinality(1 .. n)
  BY <1>2, <1>4, <1>5, FS_Surjection
<1>7. QED
  BY <1>5, <1>6 DEF S

\* Each one emitted has before it exactly those that were emitted before it.
LEMMA InItsPlace ==
    ASSUME NEW w, WalkInv(w), NEW i \in DOMAIN w.out
    PROVE  Cardinality({q \in Listed(w) : Before(q, w.out[i].path)}) = i - 1
<1> DEFINE p == w.out[i].path
           n == i - 1
<1>1. Len(w.out) \in Nat /\ DOMAIN w.out = 1 .. Len(w.out) /\ w.tree \in Trees \cup {{}}
  BY LenProperties DEF WalkInv, WalkTypes
<1>2. \A j \in DOMAIN w.out :
         /\ w.out[j].path \in Listed(w) /\ w.out[j].path \in Seq(Nat)
         /\ \A k \in DOMAIN w.out : j < k => Before(w.out[j].path, w.out[k].path)
         /\ \A q \in Listed(w) \ Emitted(w) : Before(w.out[j].path, q)
  BY <1>1, ListedParts DEF WalkInv, OutInv
<1>3. /\ i \in 1 .. Len(w.out) /\ n \in 0 .. Len(w.out)
      /\ \A j \in 1 .. n : j \in DOMAIN w.out /\ j < i
  BY <1>1
<1>4. ASSUME NEW q \in Listed(w), Before(q, p)
      PROVE  q \in {w.out[j].path : j \in 1 .. n}
  <2>1. q \in Seq(Nat) /\ p \in Seq(Nat)
    BY <1>1, <1>2, ListedParts
  <2>2. ~ Before(p, q)
    BY <1>4, <2>1, BeforeAsymmetric
  <2>3. q \in Emitted(w)
    BY <1>2, <2>2
  <2>4. PICK j \in DOMAIN w.out : q = w.out[j].path
    BY <2>3 DEF Emitted
  <2>5. ~ (i < j)
    BY <1>2, <2>2, <2>4
  <2>6. j # i
    BY <1>4, <2>1, <2>2, <2>4
  <2>7. j \in 1 .. n
    BY <1>1, <1>3, <2>5, <2>6
  <2>8. QED
    BY <2>4, <2>7
<1>5. \A j \in 1 .. n : w.out[j].path \in Listed(w) /\ Before(w.out[j].path, p)
  BY <1>2, <1>3
<1>6. {q \in Listed(w) : Before(q, p)} = {w.out[j].path : j \in 1 .. n}
  BY <1>4, <1>5
<1> HIDE DEF n
<1>7. Cardinality({w.out[j].path : j \in 1 .. n}) = n
  BY <1>3, EmittedCount
<1>8. QED
  BY <1>6, <1>7 DEF n

\* When the walk is over it has emitted as many as the cap allows, or all.
LEMMA AllListed ==
    ASSUME NEW w, WalkInv(w), WalkOver(w)
    PROVE  /\ Len(w.out) = Min({Cap, Cardinality(Listed(w))})
           /\ w.truncated = (Cardinality(Listed(w)) >= Cap)
<1> DEFINE k == Len(w.out)
           n == Cardinality(Listed(w))
<1>1. /\ k \in Nat /\ DOMAIN w.out = 1 .. k /\ w.tree \in Trees \cup {{}} /\ w.depth \in Nat
      /\ w.truncated \in BOOLEAN
  BY LenProperties DEF WalkInv, WalkTypes
<1>2. Cap \in Nat
  BY TreeAssumption DEF TreeAssumption
<1>3. IsFiniteSet(Listed(w)) /\ n \in Nat
  BY <1>1, ListedFinite, FS_CardinalityType
<1>4. Emitted(w) \in SUBSET Listed(w)
  BY DEF WalkInv, OutInv, Emitted
<1>5. Cardinality(Emitted(w)) = k
  <2>1. Emitted(w) = {w.out[j].path : j \in 1 .. k}
    BY <1>1 DEF Emitted
  <2>2. k \in 0 .. k
    BY <1>1
  <2> HIDE DEF k
  <2>3. k \in 0 .. Len(w.out)
    BY <2>2 DEF k
  <2>4. QED
    BY <2>1, <2>3, EmittedCount
<1>6. k <= n
  BY <1>3, <1>4, <1>5, FS_Subset
<1>7. \A c \in Nat, l \in Nat : Min({c, l}) = IF c <= l THEN c ELSE l
  BY DEF Min
<1>8. CASE w.truncated
  <2>1. k = Cap
    BY <1>8 DEF WalkInv, RestInv
  <2>2. w.truncated = TRUE /\ n >= Cap
    BY <1>1, <1>3, <1>6, <1>8, <2>1
  <2> HIDE DEF k, n
  <2>3. Min({Cap, n}) = Cap
    BY <1>2, <1>3, <1>7, <2>2
  <2>4. QED
    BY <2>1, <2>2, <2>3 DEF k, n
<1>9. CASE ~ w.truncated
  <2>1. k < Cap /\ \A q \in Listed(w) : q \notin Emitted(w) <=> Waiting(w, q)
    BY <1>9 DEF WalkInv, RestInv
  <2>2. \A q : ~ Waiting(w, q)
    BY DEF WalkOver, Waiting, OnList, Below
  <2>3. Emitted(w) = Listed(w)
    BY <1>4, <2>1, <2>2
  <2>4. n = k
    BY <1>5, <2>3
  <2> HIDE DEF k, n
  <2>5. Min({Cap, n}) = k /\ ~ (n >= Cap)
    BY <1>1, <1>2, <1>3, <1>7, <2>1, <2>4
  <2>6. w.truncated = FALSE
    BY <1>1, <1>9
  <2>7. w.truncated = (n >= Cap)
    <3>1. (n >= Cap) = FALSE
      BY <2>5
    <3>2. QED
      BY <2>6, <3>1
  <2>8. k = Min({Cap, n})
    BY <2>5
  <2>9. QED
    BY <2>7, <2>8 DEF k, n
<1>10. QED
  BY <1>8, <1>9

\* So the invariant of the walk makes the listing right.
LEMMA ListingRight ==
    ASSUME NEW w, WalkInv(w)
    PROVE  WalkCorrect(w)
<1>1. ASSUME NEW i \in DOMAIN w.out
      PROVE  /\ w.out[i].path \in Listed(w)
             /\ Cardinality({q \in Listed(w) : Before(q, w.out[i].path)}) = i - 1
             /\ w.out[i].closed = (Len(w.out[i].path) = w.depth + 1
                                      /\ Container(w.tree, w.out[i].path))
  BY InItsPlace DEF WalkInv, OutInv
<1>2. QED
  BY <1>1, AllListed DEF WalkCorrect

-----------------------------------------------------------------------------
(* The tool *)

\* What a step does to the walk: nothing, or it begins one, takes in a response or
\* emits a variable.
LEMMA WalkForms ==
    ASSUME [Next]_vars
    PROVE  \/ walk' = walk
           \/ \E d \in Depths, f \in Filters : walk' = NewWalk(d, f)
           \/ \E p \in walk.opens, tree \in Trees :
                 /\ p # Root => tree = walk.tree
                 /\ walk' = Fetched(walk, tree, p)
           \/ walk.opens = {} /\ walk.todo # <<>> /\ walk' = Visit(walk)
<1> USE DEF session, client, adapter, output, calls
<1>1. ASSUME NEW c \in Calls, Make(c)
      PROVE  walk' = walk \/ \E d \in Depths, f \in Filters : walk' = NewWalk(d, f)
  <2>1. CASE Begin(c)
    BY <2>1 DEF Begin
  <2>2. CASE Rejected(c) \/ Connect(c) \/ ConnectFails(c) \/ ReadOutput(c)
    BY <2>2 DEF Rejected, Connect, ConnectFails, ReadOutput
  <2>3. QED
    BY <1>1, <2>1, <2>2 DEF Make
<1>2. ASSUME NEW c \in Calls, Run(c)
      PROVE  \/ walk' = walk
             \/ \E p \in walk.opens, tree \in Trees :
                   /\ p # Root => tree = walk.tree
                   /\ walk' = Fetched(walk, tree, p)
             \/ walk.opens = {} /\ walk.todo # <<>> /\ walk' = Visit(walk)
  <2>1. CASE VariablesFetched(c)
    BY <2>1 DEF VariablesFetched
  <2>2. CASE VariablesVisit(c)
    BY <2>2 DEF VariablesVisit
  <2>3. CASE RequestFails(c) \/ SendStart(c) \/ Started(c) \/ Return(c)
    BY <2>3 DEF RequestFails, SendStart, Started, Return
  <2>4. CASE Send(c) \/ Replied(c) \/ Backtraced(c) \/ FrameHit(c) \/ FrameMiss(c)
    BY <2>4 DEF Send, Replied, Backtraced, FrameHit, FrameMiss
  <2>5. CASE WaitInitialized(c) \/ Register(c) \/ Stop(c) \/ Kill(c)
    BY <2>5 DEF WaitInitialized, Register, Stop, Kill
  <2>6. QED
    BY <1>2, <2>1, <2>2, <2>3, <2>4, <2>5 DEF Run
<1>3. ASSUME NEW c \in Calls, Dropped(c) \/ Answer(c)
      PROVE  walk' = walk
  BY <1>3 DEF Dropped, Answer
<1>4. CASE \/ AdapterInitialized \/ AnswerStart \/ TargetStops \/ TargetExits \/ AdapterHangs
           \/ AdapterDies \/ AdapterOutput \/ Recover \/ Pump
  BY <1>4 DEF AdapterInitialized, AnswerStart, TargetStops, TargetExits, AdapterHangs,
              AdapterDies, AdapterOutput, Recover, Pump, PumpOutput, PumpTerminated
<1>5. CASE UNCHANGED vars
  BY <1>5 DEF vars
<1>6. QED
  BY <1>1, <1>2, <1>3, <1>4, <1>5 DEF Next

\* variables lists the variables of the frame in the order of the tree, ancestors first,
\* each once, none left out and none beyond the depth or outside the filter, up to the
\* cap, and says that it is truncated exactly when it has listed as many as the cap, for
\* any cap, depth, filter and trees, infinitely deep ones too (flatten_variables).
THEOREM VariablesListed == Spec => []VariablesInOrder
<1>1. Init => WalkInv(walk)
  <2>1. SUFFICES ASSUME Init PROVE WalkInv(walk)
    OBVIOUS
  <2>2. walk = NewWalk(0, {})
    BY <2>1 DEF Init
  <2>3. QED
    BY <2>2, NewWalkKeeps
<1>2. WalkInv(walk) /\ [Next]_vars => WalkInv(walk)'
  <2>1. SUFFICES ASSUME WalkInv(walk), [Next]_vars PROVE WalkInv(walk')
    OBVIOUS
  <2>2. CASE walk' = walk
    BY <2>1, <2>2
  <2>3. CASE \E d \in Depths, f \in Filters : walk' = NewWalk(d, f)
    BY <2>3, NewWalkKeeps, LldbAssumption DEF LldbAssumption
  <2>4. CASE \E p \in walk.opens, tree \in Trees :
                /\ p # Root => tree = walk.tree
                /\ walk' = Fetched(walk, tree, p)
    BY <2>1, <2>4, FetchedKeeps
  <2>5. CASE walk.opens = {} /\ walk.todo # <<>> /\ walk' = Visit(walk)
    BY <2>1, <2>5, VisitKeeps
  <2>6. QED
    BY <2>1, <2>2, <2>3, <2>4, <2>5, WalkForms
<1>3. WalkInv(walk) => VariablesInOrder
  BY ListingRight DEF VariablesInOrder
<1>4. QED
  BY <1>1, <1>2, <1>3, PTL DEF Spec

=============================================================================
