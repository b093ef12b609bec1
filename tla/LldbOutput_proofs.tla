-------------------------- MODULE LldbOutput_proofs --------------------------
(***************************************************************************)
(* Proofs about LldbBackend and the OutputBuffer in it, for any plan of    *)
(* calls, sizes of output and cap of the buffer: the running total is the  *)
(* size of what is buffered and within the cap, append keeps the longest   *)
(* tail that fits, the output that a client reads is a bounded log of what *)
(* the pump delivered, and everything keeps its type.                      *)
(***************************************************************************)
EXTENDS LldbBackend, SequenceTheorems, WellFoundedInduction, TLAPS

\* A set of positions that is not empty has a first one.
LEMMA LeastPosition ==
    ASSUME NEW I, I \subseteq Nat, I # {}
    PROVE  \E i \in I : \A j \in I : i <= j
<1>1. PICK i \in I : \A j \in I : ~ (<<j, i>> \in OpToRel(<, Nat))
  BY NatLessThanWellFounded, WFMin, Zenon
<1>2. ASSUME NEW j \in I
      PROVE  i <= j
  <2>1. i \in Nat /\ j \in Nat
    OBVIOUS
  <2>2. ASSUME j < i
        PROVE  FALSE
    <3>1. <<j, i>> \in {ss \in Nat \X Nat : ss[1] < ss[2]}
      BY <2>1, <2>2
    <3>2. QED
      BY <1>1, <3>1, Zenon DEF OpToRel
  <2>3. QED
    BY <2>1, <2>2
<1>3. QED
  BY <1>2

-----------------------------------------------------------------------------
(* The sizes of the first entries *)

\* A function on 0 .. n that adds the entries up.
AddsUp(f, s, n) == f = [i \in 0 .. n |-> IF i = 0 THEN 0 ELSE f[i - 1] + s[i]]

\* The recursive definition of Totals has a solution.
LEMMA TotalsDefined ==
    ASSUME NEW S, NEW s \in Seq(S)
    PROVE  AddsUp(Totals(s), s, Len(s))
<1> DEFINE I == {n \in 0 .. Len(s) : ~ \E f : AddsUp(f, s, n)}
<1>0. Len(s) \in Nat
  BY LenProperties
<1>1. I = {}
  <2>1. SUFFICES ASSUME I # {} PROVE FALSE
    OBVIOUS
  <2>2. I \subseteq Nat
    BY <1>0
  <2>3. PICK m \in I : \A j \in I : m <= j
    <3> HIDE DEF I
    <3>1. QED
      BY <2>1, <2>2, LeastPosition
  <2>4. m \in Nat /\ m <= Len(s)
    BY <1>0
  <2>5. CASE m = 0
    <3> DEFINE f == [i \in 0 .. 0 |-> 0]
    <3>1. AddsUp(f, s, 0)
      BY DEF AddsUp
    <3>2. QED
      BY <2>5, <3>1
  <2>6. CASE m # 0
    <3>1. m - 1 \in 0 .. Len(s) /\ m - 1 \notin I
      <4>1. m - 1 \in 0 .. Len(s) /\ ~ (m <= m - 1)
        BY <2>4, <2>6, <1>0
      <4> HIDE DEF I
      <4>2. QED
        BY <2>3, <4>1
    <3>2. PICK f : AddsUp(f, s, m - 1)
      BY <3>1
    <3> DEFINE g == [i \in 0 .. m |-> IF i = m THEN f[m - 1] + s[m] ELSE f[i]]
    <3>3. ASSUME NEW i \in 0 .. m
          PROVE  g[i] = IF i = 0 THEN 0 ELSE g[i - 1] + s[i]
      <4>1. CASE i = m
        BY <2>4, <2>6, <4>1
      <4>2. CASE i # m
        <5>1. f[i] = IF i = 0 THEN 0 ELSE f[i - 1] + s[i]
          BY <2>4, <3>2, <4>2 DEF AddsUp
        <5>2. QED
          BY <2>4, <4>2, <5>1
      <4>3. QED
        BY <4>1, <4>2
    <3>4. AddsUp(g, s, m)
      <4> HIDE DEF I
      <4>1. g = [i \in 0 .. m |-> g[i]]
        OBVIOUS
      <4> HIDE DEF g
      <4>2. QED
        BY <3>3, <4>1 DEF AddsUp
    <3>5. QED
      BY <3>4
  <2>7. QED
    BY <2>5, <2>6
<1>2. \E f : AddsUp(f, s, Len(s))
  BY <1>0, <1>1
<1>3. QED
  BY <1>2 DEF AddsUp, Totals

\* What Totals returns.
LEMMA TotalsSteps ==
    ASSUME NEW s \in Seq(Nat)
    PROVE  /\ Len(s) \in Nat
           /\ DOMAIN Totals(s) = 0 .. Len(s)
           /\ Totals(s)[0] = 0
           /\ \A n \in 1 .. Len(s) : Totals(s)[n] = Totals(s)[n - 1] + s[n]
           /\ \A n \in 0 .. Len(s) : Totals(s)[n] \in Nat
<1> DEFINE f == Totals(s)
           I == {n \in 0 .. Len(s) : f[n] \notin Nat}
<1>0. Len(s) \in Nat /\ \A i \in 1 .. Len(s) : s[i] \in Nat
  BY LenProperties, ElementOfSeq
<1>1. f = [i \in 0 .. Len(s) |-> IF i = 0 THEN 0 ELSE f[i - 1] + s[i]]
  BY TotalsDefined DEF AddsUp
<1> HIDE DEF f
<1>2. DOMAIN f = 0 .. Len(s) /\ f[0] = 0
  BY <1>0, <1>1
<1>3. ASSUME NEW n \in 1 .. Len(s)
      PROVE  f[n] = f[n - 1] + s[n]
  <2>1. n \in 0 .. Len(s) /\ n # 0
    BY <1>0
  <2>2. QED
    BY <1>1, <2>1
<1>4. I = {}
  <2>1. SUFFICES ASSUME I # {} PROVE FALSE
    OBVIOUS
  <2>2. I \subseteq Nat
    BY <1>0
  <2>3. PICK m \in I : \A j \in I : m <= j
    <3> HIDE DEF I
    <3>1. QED
      BY <2>1, <2>2, LeastPosition
  <2>4. m # 0 /\ m \in 1 .. Len(s)
    BY <1>0, <1>2
  <2>5. m - 1 \in 0 .. Len(s) /\ m - 1 \notin I
    BY <2>2, <2>3, <2>4, <1>0
  <2>6. f[m - 1] \in Nat /\ s[m] \in Nat /\ f[m] = f[m - 1] + s[m]
    BY <1>0, <1>3, <2>4, <2>5
  <2>7. QED
    BY <2>6
<1>5. QED
  BY <1>0, <1>2, <1>3, <1>4 DEF f

\* Where one list goes on as another does, so do their totals.
LEMMA TotalsOfPart ==
    ASSUME NEW s \in Seq(Nat), NEW t \in Seq(Nat), NEW k \in Nat, NEW m \in Nat,
           m <= Len(t), k + m <= Len(s),
           \A i \in 1 .. m : t[i] = s[k + i]
    PROVE  \A n \in 0 .. m : Totals(s)[k + n] = Totals(s)[k] + Totals(t)[n]
<1> DEFINE f == Totals(s)
           g == Totals(t)
           I == {n \in 0 .. m : f[k + n] # f[k] + g[n]}
<1>1. /\ Len(s) \in Nat /\ Len(t) \in Nat /\ g[0] = 0
      /\ \A n \in 1 .. Len(s) : f[n] = f[n - 1] + s[n]
      /\ \A n \in 1 .. Len(t) : g[n] = g[n - 1] + t[n]
      /\ \A n \in 0 .. Len(s) : f[n] \in Nat
      /\ \A n \in 0 .. Len(t) : g[n] \in Nat
  BY TotalsSteps
<1>2. \A i \in 1 .. Len(t) : t[i] \in Nat
  BY ElementOfSeq
<1> HIDE DEF f, g
<1>3. I = {}
  <2>1. SUFFICES ASSUME I # {} PROVE FALSE
    OBVIOUS
  <2>2. I \subseteq Nat
    OBVIOUS
  <2>3. PICK n \in I : \A j \in I : n <= j
    <3> HIDE DEF I
    <3>1. QED
      BY <2>1, <2>2, LeastPosition
  <2>4. n \in 0 .. m /\ f[k + n] # f[k] + g[n] /\ n # 0
    <3>1. k \in 0 .. Len(s) /\ k + 0 = k
      BY <1>1
    <3>2. f[k] \in Nat /\ f[k + 0] = f[k] + g[0]
      BY <1>1, <3>1
    <3>3. QED
      BY <3>2
  <2>5. n - 1 \in 0 .. m /\ n - 1 \notin I
    <3>1. n - 1 \in 0 .. m /\ ~ (n <= n - 1)
      BY <2>4
    <3> HIDE DEF I
    <3>2. QED
      BY <2>3, <3>1
  <2>6. f[k + (n - 1)] = f[k] + g[n - 1]
    BY <2>5
  <2>7. f[k + n] = f[k + (n - 1)] + s[k + n]
    <3>1. k + n \in 1 .. Len(s) /\ (k + n) - 1 = k + (n - 1)
      BY <1>1, <2>4
    <3>2. QED
      BY <1>1, <3>1
  <2>8. g[n] = g[n - 1] + t[n] /\ t[n] = s[k + n]
    BY <1>1, <2>4
  <2>9. f[k] \in Nat /\ g[n - 1] \in Nat /\ t[n] \in Nat
    <3>1. n \in Nat /\ n # 0 /\ n <= m /\ Len(s) \in Nat /\ Len(t) \in Nat
      BY <1>1, <2>4
    <3> HIDE DEF I
    <3>2. k \in 0 .. Len(s)
      BY <3>1
    <3>3. n \in 1 .. Len(t)
      BY <3>1
    <3>4. n - 1 \in 0 .. Len(t)
      BY <3>1, <3>3
    <3>5. QED
      BY <1>1, <1>2, <3>2, <3>3, <3>4
  <2>10. f[k + n] # f[k] + g[n]
    BY <2>4
  <2> HIDE DEF I
  <2>11. QED
    BY <2>6, <2>7, <2>8, <2>9, <2>10
<1>4. QED
  BY <1>3 DEF f, g

\* What is left when the first k entries go.
LEMMA TotalsOfTail ==
    ASSUME NEW S, S \subseteq Nat, NEW s \in Seq(S), NEW k \in 0 .. Len(s)
    PROVE  LET rest == SubSeq(s, k + 1, Len(s))
           IN  /\ s \in Seq(Nat) /\ Len(s) \in Nat
               /\ rest \in Seq(S) /\ rest \in Seq(Nat) /\ Len(rest) = Len(s) - k
               /\ Totals(s)[Len(s)] = Totals(s)[k] + Totals(rest)[Len(rest)]
               /\ Totals(s)[Len(s)] \in Nat /\ Totals(s)[k] \in Nat
               /\ Totals(rest)[Len(rest)] \in Nat
<1> DEFINE t == SubSeq(s, k + 1, Len(s))
<1>1. s \in Seq(Nat) /\ Len(s) \in Nat /\ k \in Nat /\ k <= Len(s)
  <2>1. s \in Seq(Nat)
    BY SeqMonotonic, Zenon
  <2>2. QED
    BY <2>1, LenProperties
<1>2. \A i \in (k + 1) .. Len(s) : s[i] \in S
  BY <1>1, ElementOfSeq
<1>3. t \in Seq(S)
  BY <1>1, <1>2, SubSeqProperties
<1>4. Len(t) = Len(s) - k /\ \A i \in 1 .. Len(s) - k : t[i] = s[k + i]
  BY <1>1, <1>3, SubSeqProperties
<1> HIDE DEF t
<1>5. t \in Seq(Nat) /\ Len(t) \in Nat /\ k + Len(t) = Len(s)
  <2>1. t \in Seq(Nat)
    BY <1>3, SeqMonotonic, Zenon
  <2>2. QED
    BY <1>1, <1>4, <2>1
<1>6. \A j \in 0 .. Len(t) : Totals(s)[k + j] = Totals(s)[k] + Totals(t)[j]
  <2>1. Len(t) <= Len(t) /\ k + Len(t) <= Len(s)
    BY <1>1, <1>5
  <2>2. \A i \in 1 .. Len(t) : t[i] = s[k + i]
    BY <1>4
  <2>3. QED
    BY <1>1, <1>5, <2>1, <2>2, TotalsOfPart
<1>7. Len(t) \in 0 .. Len(t) /\ Len(s) \in 0 .. Len(s)
  BY <1>1, <1>5
<1>8. Totals(s)[Len(s)] = Totals(s)[k] + Totals(t)[Len(t)]
  BY <1>5, <1>6, <1>7
<1>9. /\ Totals(s)[Len(s)] \in Nat /\ Totals(s)[k] \in Nat /\ Totals(t)[Len(t)] \in Nat
  BY <1>1, <1>5, <1>7, TotalsSteps
<1>10. QED
  BY <1>1, <1>3, <1>4, <1>5, <1>8, <1>9 DEF t

-----------------------------------------------------------------------------
(* append and drain *)

\* The running total is that of the entries, and within the cap.
Kept(b) ==
    /\ b = [entries |-> b.entries, size |-> b.size, truncated |-> b.truncated]
    /\ b.entries \in Seq(Nat)
    /\ b.size = Totals(b.entries)[Len(b.entries)]
    /\ b.size <= MaxSize

\* A new buffer is kept.
LEMMA EmptyKept == Kept(EmptyBuffer)
<1>1. <<>> \in Seq(Nat) /\ Len(<<>>) = 0
  OBVIOUS
<1>2. Totals(<<>>)[0] = 0
  BY <1>1, TotalsSteps
<1>3. QED
  BY <1>1, <1>2, MaxSizeAssumption DEF Kept, EmptyBuffer, MaxSizeAssumption

\* drain leaves a kept buffer.
LEMMA DrainKept ==
    ASSUME NEW b, Kept(b), b.truncated \in BOOLEAN
    PROVE  Kept(drain(b)) /\ drain(b).entries = <<>> /\ drain(b).truncated = FALSE
<1>1. CASE b.entries = <<>> /\ ~ b.truncated
  BY <1>1 DEF drain
<1>2. CASE ~ (b.entries = <<>> /\ ~ b.truncated)
  <2>1. drain(b) = EmptyBuffer
    BY <1>2 DEF drain, EmptyBuffer
  <2>2. QED
    BY <2>1, EmptyKept DEF EmptyBuffer
<1>3. QED
  BY <1>1, <1>2

\* append keeps the longest tail of the entries that fits the cap, and its running total.
LEMMA AppendKept ==
    ASSUME NEW b, Kept(b), NEW e \in Nat
    PROVE  LET all == Append(b.entries, e)
           IN  /\ all \in Seq(Nat) /\ Len(all) \in Nat
               /\ Kept(append(b, e))
               /\ \E n \in 0 .. Len(all) :
                     /\ append(b, e).entries = SubSeq(all, n + 1, Len(all))
                     /\ append(b, e).truncated = (b.truncated \/ n > 0)
                     /\ \A j \in 0 .. n - 1 :
                           Totals(all)[Len(all)] - Totals(all)[j] > MaxSize
<1> DEFINE s == b.entries
           all == Append(s, e)
           n == Evictions(all, b.size + e)
           rest == SubSeq(all, n + 1, Len(all))
<1>0. s \in Seq(Nat) /\ b.size = Totals(s)[Len(s)]
  BY DEF Kept
<1>1. /\ Len(s) \in Nat /\ all \in Seq(Nat) /\ Len(all) = Len(s) + 1 /\ all[Len(s) + 1] = e
      /\ \A i \in 1 .. Len(s) : all[i] = s[i]
  BY <1>0, AppendProperties, LenProperties
<1> HIDE DEF all
<1>2. Totals(all)[Len(all)] = b.size + e
  <2>1. \A j \in 0 .. Len(s) : Totals(all)[0 + j] = Totals(all)[0] + Totals(s)[j]
    <3>1. \A i \in 1 .. Len(s) : s[i] = all[0 + i]
      BY <1>1
    <3>2. 0 \in Nat /\ Len(s) <= Len(s) /\ 0 + Len(s) <= Len(all)
      BY <1>1
    <3> HIDE DEF s
    <3>3. QED
      BY <1>0, <1>1, <3>1, <3>2, TotalsOfPart
  <2>2. Totals(all)[0] = 0 /\ Totals(all)[Len(s) + 1] = Totals(all)[(Len(s) + 1) - 1] + e
    BY <1>1, TotalsSteps
  <2>3. Totals(s)[Len(s)] \in Nat
    BY <1>0, <1>1, TotalsSteps
  <2>4. Totals(all)[Len(s)] = Totals(s)[Len(s)]
    <3>1. Len(s) \in 0 .. Len(s) /\ 0 + Len(s) = Len(s)
      BY <1>1
    <3>2. Totals(all)[0 + Len(s)] = Totals(all)[0] + Totals(s)[Len(s)]
      BY <2>1, <3>1
    <3>3. QED
      BY <2>2, <2>3, <3>1, <3>2
  <2>5. QED
    BY <1>0, <1>1, <2>2, <2>4
<1> DEFINE I == {k \in 0 .. Len(all) :
                    (b.size + e) - Totals(all)[k] <= MaxSize \/ k = Len(all)}
<1>3. n \in I /\ \A j \in I : n <= j
  <2>1. I \subseteq Nat /\ I # {}
    BY <1>1
  <2>2. n = Min(I)
    BY DEF Evictions
  <2> HIDE DEF I, n
  <2>3. \E i \in I : \A j \in I : i <= j
    BY <2>1, LeastPosition
  <2>4. QED
    BY <2>2, <2>3 DEF Min
<1>4. n \in 0 .. Len(all)
  BY <1>3
<1>5. \A j \in 0 .. n - 1 : Totals(all)[Len(all)] - Totals(all)[j] > MaxSize
  <2>1. SUFFICES ASSUME NEW j \in 0 .. n - 1
                 PROVE  Totals(all)[Len(all)] - Totals(all)[j] > MaxSize
    OBVIOUS
  <2> HIDE DEF n
  <2>2. j \in 0 .. Len(all) /\ j < n
    BY <1>1, <1>4
  <2>3. j \notin I
    <3> HIDE DEF I
    <3>1. ~ (n <= j)
      BY <1>1, <1>4, <2>2
    <3>2. QED
      BY <1>3, <3>1
  <2>4. ~ ((b.size + e) - Totals(all)[j] <= MaxSize)
    BY <2>2, <2>3
  <2>5. Totals(all)[Len(all)] \in Nat /\ Totals(all)[j] \in Nat
    <3>1. Len(all) \in 0 .. Len(all)
      BY <1>1
    <3>2. QED
      BY <1>1, <2>2, <3>1, TotalsSteps
  <2>6. QED
    BY <1>2, <2>4, <2>5, MaxSizeAssumption DEF MaxSizeAssumption
<1> HIDE DEF n
<1>6. /\ rest \in Seq(Nat) /\ Len(rest) = Len(all) - n /\ Len(all) \in Nat
      /\ Totals(all)[Len(all)] = Totals(all)[n] + Totals(rest)[Len(rest)]
      /\ Totals(all)[Len(all)] \in Nat /\ Totals(all)[n] \in Nat
      /\ Totals(rest)[Len(rest)] \in Nat
  BY <1>1, <1>4, TotalsOfTail
<1>7. b.size \in Nat
  BY <1>0, <1>1, TotalsSteps
<1>8. append(b, e) = [entries |-> rest, size |-> b.size + e - Totals(all)[n],
                      truncated |-> b.truncated \/ n > 0]
  BY DEF append, rest, n, all
<1>9. Kept(append(b, e))
  <2> HIDE DEF rest
  <2>1. b.size + e - Totals(all)[n] = Totals(rest)[Len(rest)]
    <3> DEFINE whole == Totals(all)[Len(all)]
               gone == Totals(all)[n]
               left == Totals(rest)[Len(rest)]
               size == b.size
    <3>1. /\ whole \in Nat /\ gone \in Nat /\ left \in Nat /\ size \in Nat
          /\ whole = gone + left
      BY <1>6, <1>7
    <3>2. whole = size + e
      BY <1>2
    <3> HIDE DEF whole, gone, left, size
    <3>3. size + e - gone = left
      BY <3>1, <3>2
    <3>4. QED
      BY <3>3 DEF gone, left, size
  <2>2. Totals(rest)[Len(rest)] <= MaxSize
    <3>1. CASE (b.size + e) - Totals(all)[n] <= MaxSize
      BY <1>2, <1>6, <1>7, <3>1
    <3>2. CASE n = Len(all)
      <4>1. Len(rest) = 0
        BY <1>6, <3>2
      <4>2. Totals(rest)[0] = 0
        BY <1>6, TotalsSteps
      <4>3. QED
        BY <4>1, <4>2, MaxSizeAssumption DEF MaxSizeAssumption
    <3>3. QED
      BY <1>3, <3>1, <3>2
  <2>3. QED
    BY <1>6, <1>8, <2>1, <2>2 DEF Kept
<1>10. /\ append(b, e).entries = SubSeq(all, n + 1, Len(all))
       /\ append(b, e).truncated = (b.truncated \/ n > 0)
  <2> HIDE DEF rest
  <2>1. append(b, e).entries = rest /\ append(b, e).truncated = (b.truncated \/ n > 0)
    BY <1>8
  <2>2. QED
    BY <2>1 DEF rest
<1>11. Len(all) \in Nat
  BY <1>1
<1>12. QED
  BY <1>1, <1>4, <1>5, <1>9, <1>10, <1>11 DEF all

-----------------------------------------------------------------------------
(* The output *)

\* The queue and the buffer hold sizes, and the running total is right.
OutputInv ==
    /\ queue \in Seq(Sizes)
    /\ buffer.entries \in Seq(Sizes)
    /\ buffer.truncated \in BOOLEAN
    /\ Kept(buffer)

\* What a step does to the output: nothing, a chunk more, a chunk delivered, or a
\* reader (or reset) that drains the buffer.
LEMMA OutputForms ==
    ASSUME [Next]_vars
    PROVE  \/ UNCHANGED <<queue, buffer, shown>>
           \/ AdapterOutput
           \/ PumpOutput
           \/ Drains /\ UNCHANGED queue
<1> USE DEF session, client, adapter, output, calls
<1>1. ASSUME NEW c \in Calls, Make(c)
      PROVE  UNCHANGED <<queue, buffer, shown>> \/ (Drains /\ UNCHANGED queue)
  BY <1>1 DEF Make, Rejected, Connect, ConnectFails, Begin, ReadOutput, Reset
<1>2. ASSUME NEW c \in Calls, Run(c)
      PROVE  UNCHANGED <<queue, buffer, shown>> \/ (Drains /\ UNCHANGED queue)
  <2>1. CASE RequestFails(c) \/ SendStart(c) \/ Started(c)
    BY <2>1 DEF RequestFails, SendStart, Started, Fail, Reset
  <2>2. CASE Return(c)
    BY <2>2 DEF Return, Reset
  <2>3. CASE Send(c) \/ Replied(c) \/ Backtraced(c) \/ FrameHit(c) \/ FrameMiss(c)
    BY <2>3 DEF Send, Replied, Backtraced, FrameHit, FrameMiss
  <2>4. CASE \/ VariablesFetched(c) \/ VariablesVisit(c) \/ WaitInitialized(c) \/ Register(c)
             \/ Stop(c) \/ Kill(c)
    BY <2>4 DEF VariablesFetched, VariablesVisit, WaitInitialized, Register, Stop, Kill
  <2>5. QED
    BY <1>2, <2>1, <2>2, <2>3, <2>4 DEF Run
<1>3. ASSUME NEW c \in Calls, Dropped(c)
      PROVE  UNCHANGED <<queue, buffer, shown>> \/ (Drains /\ UNCHANGED queue)
  BY <1>3 DEF Dropped, Abandons, Reset
<1>4. ASSUME NEW c \in Calls, Answer(c)
      PROVE  UNCHANGED <<queue, buffer, shown>>
  BY <1>4 DEF Answer
<1>5. CASE \/ AdapterInitialized \/ AnswerStart \/ TargetStops \/ TargetExits \/ AdapterHangs
           \/ AdapterDies \/ Recover \/ PumpTerminated
  BY <1>5 DEF AdapterInitialized, AnswerStart, TargetStops, TargetExits, AdapterHangs,
              AdapterDies, Recover, PumpTerminated
<1>6. CASE UNCHANGED vars
  BY <1>6 DEF vars
<1>7. QED
  BY <1>1, <1>2, <1>3, <1>4, <1>5, <1>6 DEF Next, Pump

\* The room of BoundedLog is the cap, and its tails are those of a list.
LEMMA RoomIsTotal ==
    \A s : /\ Log!Room(s) <=> Totals(s)[Len(s)] <= MaxSize
           /\ Log!Suffixes(s) = Suffixes(s)
BY DEF Log!Room, Totals, Log!Suffixes, Suffixes

\* A chunk is delivered.
LEMMA PumpKeeps ==
    ASSUME OutputInv, PumpOutput
    PROVE  /\ OutputInv'
           /\ Log!Write
<1> DEFINE e == Head(queue)
           all == Append(buffer.entries, e)
<1>1. e \in Sizes /\ e \in Nat /\ Tail(queue) \in Seq(Sizes) /\ queue # <<>>
  BY LldbAssumption, HeadTailProperties DEF PumpOutput, OutputInv, LldbAssumption
<1>2. queue' = Tail(queue) /\ buffer' = append(buffer, e) /\ shown' = shown
  BY DEF PumpOutput
<1>3. all \in Seq(Sizes) /\ Kept(buffer) /\ buffer.truncated \in BOOLEAN
  BY <1>1, AppendProperties DEF OutputInv
<1> HIDE DEF e
<1>4. /\ all \in Seq(Nat) /\ Len(all) \in Nat
      /\ Kept(append(buffer, e))
      /\ \E n \in 0 .. Len(all) :
            /\ append(buffer, e).entries = SubSeq(all, n + 1, Len(all))
            /\ append(buffer, e).truncated = (buffer.truncated \/ n > 0)
            /\ \A j \in 0 .. n - 1 : Totals(all)[Len(all)] - Totals(all)[j] > MaxSize
  BY <1>1, <1>3, AppendKept
<1> HIDE DEF all
<1>5. PICK n \in 0 .. Len(all) :
         /\ append(buffer, e).entries = SubSeq(all, n + 1, Len(all))
         /\ append(buffer, e).truncated = (buffer.truncated \/ n > 0)
         /\ \A j \in 0 .. n - 1 : Totals(all)[Len(all)] - Totals(all)[j] > MaxSize
  BY <1>4
<1> DEFINE rest == SubSeq(all, n + 1, Len(all))
<1>6. Sizes \subseteq Nat
  BY LldbAssumption DEF LldbAssumption
<1>7. rest \in Seq(Sizes) /\ rest \in Seq(Nat) /\ Len(rest) = Len(all) - n
  BY <1>3, <1>5, <1>6, TotalsOfTail
<1>8. append(buffer, e).entries = rest
  BY <1>5
<1> HIDE DEF rest
<1>9. OutputInv'
  <2>1. queue' \in Seq(Sizes) /\ buffer' = append(buffer, e)
    BY <1>1, <1>2
  <2>2. append(buffer, e).truncated \in BOOLEAN
    BY <1>3, <1>5
  <2>3. QED
    BY <1>4, <1>7, <1>8, <2>1, <2>2 DEF OutputInv, Kept
<1>10. rest \in Suffixes(all)
  <2>1. CASE n = Len(all)
    <3>1. Len(rest) = 0
      BY <1>4, <1>7, <2>1
    <3>2. rest = <<>>
      BY <1>7, <3>1, EmptySeq
    <3>3. QED
      BY <3>2 DEF Suffixes
  <2>2. CASE n # Len(all)
    <3>1. n + 1 \in 1 .. Len(all)
      BY <1>4, <1>5, <2>2
    <3>2. QED
      BY <3>1 DEF Suffixes, rest
  <2>3. QED
    BY <2>1, <2>2
<1>11. Log!Room(rest)
  <2>1. Totals(rest)[Len(rest)] <= MaxSize
    BY <1>4, <1>8 DEF Kept
  <2>2. QED
    BY <2>1, RoomIsTotal
<1>12. ASSUME NEW longer \in Suffixes(all), Log!Room(longer)
       PROVE  Len(longer) <= Len(rest)
  <2>1. n \in Nat /\ n <= Len(all) /\ Len(rest) = Len(all) - n
    BY <1>4, <1>5, <1>7
  <2>2. CASE longer = <<>>
    BY <1>4, <2>1, <2>2
  <2>3. CASE longer # <<>>
    <3>1. PICK l \in 1 .. Len(all) : longer = SubSeq(all, l, Len(all))
      BY <2>3 DEF Suffixes
    <3> DEFINE k == l - 1
    <3>2. k \in 0 .. Len(all) /\ k + 1 = l
      BY <1>4
    <3> DEFINE t == SubSeq(all, k + 1, Len(all))
    <3>3. longer = t
      BY <3>1, <3>2
    <3> HIDE DEF k
    <3>4. /\ Len(t) = Len(all) - k
          /\ Totals(all)[Len(all)] = Totals(all)[k] + Totals(t)[Len(t)]
          /\ Totals(all)[Len(all)] \in Nat /\ Totals(all)[k] \in Nat
          /\ Totals(t)[Len(t)] \in Nat
      BY <1>3, <1>6, <3>2, TotalsOfTail
    <3> HIDE DEF t
    <3>5. /\ Len(longer) = Len(all) - k
          /\ Totals(all)[Len(all)] = Totals(all)[k] + Totals(longer)[Len(longer)]
          /\ Totals(all)[Len(all)] \in Nat /\ Totals(all)[k] \in Nat
          /\ Totals(longer)[Len(longer)] \in Nat
      BY <3>3, <3>4
    <3>6. Totals(longer)[Len(longer)] <= MaxSize
      BY <1>12, RoomIsTotal
    <3>7. ~ (Totals(all)[Len(all)] - Totals(all)[k] > MaxSize)
      BY <3>5, <3>6, MaxSizeAssumption DEF MaxSizeAssumption
    <3>8. k \notin 0 .. n - 1
      BY <1>5, <3>7
    <3>9. QED
      BY <1>4, <2>1, <3>2, <3>5, <3>8
  <2>4. QED
    BY <2>2, <2>3
<1>13. (buffer.truncated \/ n > 0) = (buffer.truncated \/ rest # all)
  <2>1. n > 0 => rest # all
    BY <1>4, <1>5, <1>7
  <2>2. n = 0 => rest = all
    <3>1. ASSUME n = 0 PROVE rest = all
      <4>1. rest = SubSeq(all, 1, Len(all))
        BY <3>1 DEF rest
      <4>2. QED
        BY <1>4, <4>1, SubSeqFull
    <3>2. QED
      BY <3>1
  <2>3. QED
    BY <1>5, <2>1, <2>2
<1>14. Log!Write
  <2>1. /\ buffer'.entries = rest
        /\ buffer'.truncated = (buffer.truncated \/ rest # all)
    BY <1>2, <1>5, <1>8, <1>13
  <2>2. all = Append(buffer.entries, Head(queue))
    BY DEF all, e
  <2>3. /\ queue # <<>> /\ queue' = Tail(queue) /\ shown' = shown
    BY <1>1, <1>2
  <2>4. /\ rest \in Suffixes(all) /\ Log!Room(rest)
        /\ \A longer \in Suffixes(all) : Log!Room(longer) => Len(longer) <= Len(rest)
    BY <1>10, <1>11, <1>12
  <2>5. QED
    BY <2>1, <2>2, <2>3, <2>4, RoomIsTotal DEF Log!Write
<1>15. QED
  BY <1>9, <1>14

\* A chunk arrives.
LEMMA AdapterKeeps ==
    ASSUME OutputInv, AdapterOutput
    PROVE  OutputInv' /\ Log!Arrive
<1>1. PICK n \in Sizes : queue' = Append(queue, n)
  BY DEF AdapterOutput
<1>2. UNCHANGED <<buffer, shown>>
  BY DEF AdapterOutput
<1>3. queue' \in Seq(Sizes)
  BY <1>1, AppendProperties DEF OutputInv
<1>4. QED
  BY <1>1, <1>2, <1>3 DEF OutputInv, Kept, Log!Arrive

\* The buffer is drained.
LEMMA DrainsKeeps ==
    ASSUME OutputInv, Drains, UNCHANGED queue
    PROVE  OutputInv' /\ Log!Read
<1>1. Kept(drain(buffer)) /\ drain(buffer).entries = <<>> /\ drain(buffer).truncated = FALSE
  BY DrainKept DEF OutputInv
<1>2. /\ shown' = [marker |-> buffer.truncated, entries |-> buffer.entries]
      /\ buffer' = drain(buffer) /\ queue' = queue
  BY DEF Drains, drained
<1>3. buffer'.entries = <<>> /\ buffer'.truncated = FALSE
  BY <1>1, <1>2
<1>4. OutputInv'
  <2>1. queue' \in Seq(Sizes) /\ buffer'.entries \in Seq(Sizes) /\ buffer'.truncated \in BOOLEAN
    <3>1. queue' \in Seq(Sizes)
      BY <1>2 DEF OutputInv
    <3>2. <<>> \in Seq(Sizes)
      OBVIOUS
    <3>3. QED
      BY <1>3, <3>1, <3>2
  <2>2. Kept(buffer)'
    BY <1>1, <1>2 DEF Kept
  <2>3. QED
    BY <2>1, <2>2 DEF OutputInv
<1>5. Log!Read
  BY <1>2, <1>3 DEF Log!Read
<1>6. QED
  BY <1>4, <1>5

\* Every step keeps the output right, and is a step of the bounded log or none.
LEMMA OutputStep ==
    ASSUME OutputInv, [Next]_vars
    PROVE  OutputInv' /\ [Log!Next]_(Log!vars)
<1>1. CASE UNCHANGED <<queue, buffer, shown>>
  <2>1. queue' = queue /\ buffer' = buffer /\ shown' = shown
    BY <1>1
  <2>2. OutputInv'
    BY <2>1 DEF OutputInv, Kept
  <2>3. UNCHANGED Log!vars
    BY <2>1 DEF Log!vars
  <2>4. QED
    BY <2>2, <2>3
<1>2. CASE AdapterOutput
  BY <1>2, AdapterKeeps DEF Log!Next
<1>3. CASE PumpOutput
  BY <1>3, PumpKeeps DEF Log!Next
<1>4. CASE Drains /\ UNCHANGED queue
  BY <1>4, DrainsKeeps DEF Log!Next
<1>5. QED
  BY <1>1, <1>2, <1>3, <1>4, OutputForms

\* The output is right at first.
LEMMA OutputInit == Init => OutputInv /\ Log!Init
<1>1. SUFFICES ASSUME Init PROVE OutputInv /\ Log!Init
  OBVIOUS
<1>2. /\ queue = <<>> /\ buffer = EmptyBuffer
      /\ shown = [marker |-> FALSE, entries |-> <<>>]
  BY <1>1 DEF Init
<1>3. buffer.entries = <<>> /\ buffer.truncated = FALSE
  BY <1>2 DEF EmptyBuffer
<1>4. OutputInv
  <2>1. <<>> \in Seq(Sizes)
    OBVIOUS
  <2>2. Kept(buffer)
    BY <1>2, EmptyKept, Zenon
  <2>3. QED
    BY <1>2, <1>3, <2>1, <2>2 DEF OutputInv
<1>5. Log!Init
  BY <1>2, <1>3 DEF Log!Init
<1>6. QED
  BY <1>4, <1>5

\* The output a client reads is a bounded log of what the pump delivered, for any sizes
\* and any cap: the latest entries that fit, however large one of them is, and the marker
\* exactly when some are missing (OutputBuffer::append and drain).
THEOREM OutputBounded == Spec => OutputIsBoundedLog
<1>1. Init => OutputInv /\ Log!Init
  BY OutputInit
<1>2. OutputInv /\ [Next]_vars => OutputInv' /\ [Log!Next]_(Log!vars)
  BY OutputStep
<1>3. QED
  BY <1>1, <1>2, PTL DEF Spec, OutputIsBoundedLog, Log!Spec

-----------------------------------------------------------------------------
(* Types *)

Positions ==
    /\ plan \in PlanChoices
    /\ at \in [Calls -> Nat]
    /\ \A c \in Calls : at[c] <= Len(Script[Tool(c)]) + 1

CallTypes ==
    /\ result \in [Calls -> {"none", "done", "failed", "cancelled"}]
    /\ req \in [Calls -> {"none", "sent", "ok", "refused", "closed"}]
    /\ got \in [Calls -> {"none", "stopped", "exited", "terminated"}]
    /\ about \in [Calls -> Threads \cup {None}]

SessionTypes ==
    /\ phase \in {"idle", "configuring", "stopped", "running", "terminated"}
    /\ ended \in BOOLEAN
    /\ lastStop \in Threads \cup {None}
    /\ DOMAIN frames \subseteq 0 .. StackDepth - 1
    /\ frames \in [DOMAIN frames -> Threads \cup {None}]

WorldTypes ==
    /\ slot \in Calls \cup {None}
    /\ start \in {"none", "sent", "ok", "refused", "closed"}
    /\ fired \in BOOLEAN /\ signalled \in BOOLEAN
    /\ loop \in {"running", "ended"}
    /\ child \in {"none", "running", "exited", "reaped"}
    /\ hung \in BOOLEAN /\ defers \in BOOLEAN /\ pausing \in BOOLEAN
    /\ configured \in {"none", "ok", "refused"}
    /\ target \in {"none", "running", "stopped", "exited"}
    /\ stopped \in Threads \cup {None}
    /\ accepted \subseteq Calls
    /\ chunks \in Nat

Types == Positions /\ CallTypes /\ SessionTypes /\ WorldTypes /\ OutputInv

\* What the plan holds.
LEMMA PlanTypes ==
    ASSUME plan \in PlanChoices, NEW c \in Calls
    PROVE  /\ Tool(c) \in Tools
           /\ plan[c].thread \in Threads \cup {None} /\ plan[c].levels \in Nat
BY LldbAssumption DEF LldbAssumption, Ops, Tool

\* A script is a list, and a position at which it has a step is within it.
LEMMA ScriptPositions ==
    ASSUME NEW t \in Tools
    PROVE  Len(Script[t]) \in Nat /\ DOMAIN Script[t] = 1 .. Len(Script[t])
<1>1. t \in {"launch", "launch_entry", "attach", "cont", "pause", "disconnect", "backtrace",
             "variables", "evaluate", "threads", "disassemble", "read_output", "none"}
  BY DEF Tools, Script
<1>2. CASE t = "launch"
  BY <1>2 DEF Script, run_launch
<1>3. CASE t = "launch_entry"
  BY <1>3 DEF Script, run_launch_entry
<1>4. CASE t = "attach"
  BY <1>4 DEF Script, run_attach
<1>5. CASE t = "cont"
  BY <1>5 DEF Script, resume_and_wait
<1>6. CASE t \in {"pause", "backtrace", "threads"}
  BY <1>6 DEF Script
<1>7. CASE t \in {"disconnect", "evaluate", "disassemble"}
  BY <1>7 DEF Script
<1>8. CASE t = "variables"
  BY <1>8 DEF Script
<1>9. CASE t \in {"read_output", "none"}
  BY <1>9 DEF Script
<1>10. QED
  BY <1>1, <1>2, <1>3, <1>4, <1>5, <1>6, <1>7, <1>8, <1>9

\* A step forward stays within the script or is its end.
LEMMA AdvanceTyped ==
    ASSUME Positions, NEW c \in Calls, At(c) # "over", Advance(c), UNCHANGED plan
    PROVE  Positions'
<1>1. \A d \in Calls : Len(Script[Tool(d)]) \in Nat
  BY PlanTypes, ScriptPositions DEF Positions
<1>2. at[c] \in 1 .. Len(Script[Tool(c)])
  <2>1. at[c] \in DOMAIN Script[Tool(c)]
    BY DEF At, StepOf
  <2>2. QED
    BY <2>1, PlanTypes, ScriptPositions DEF Positions
<1>3. at' \in [Calls -> Nat]
  BY DEF Positions, Advance
<1>4. ASSUME NEW d \in Calls
      PROVE  at'[d] <= Len(Script[Tool(d)]) + 1
  <2>1. CASE d = c
    BY <1>1, <1>2, <2>1 DEF Positions, Advance
  <2>2. CASE d # c
    BY <2>2 DEF Positions, Advance
  <2>3. QED
    BY <2>1, <2>2
<1>5. QED
  BY <1>3, <1>4 DEF Positions, Tool

\* No step leaves its script.
LEMMA PositionStep ==
    ASSUME Positions, [Next]_vars
    PROVE  Positions'
<1> USE DEF session, client, adapter, output, calls
<1>1. CASE UNCHANGED <<plan, at>>
  BY <1>1 DEF Positions, Tool
<1>2. ASSUME NEW c \in Calls, Advance(c), UNCHANGED plan, At(c) # "over"
      PROVE  Positions'
  BY <1>2, AdvanceTyped
<1>3. ASSUME NEW c \in Calls, Make(c)
      PROVE  Positions'
  <2>1. CASE Rejected(c) \/ ConnectFails(c) \/ ReadOutput(c)
    BY <1>1, <2>1 DEF Rejected, ConnectFails, ReadOutput
  <2>2. CASE Connect(c) \/ Begin(c)
    <3>1. \A d \in Calls : Len(Script[Tool(d)]) \in Nat
      BY PlanTypes, ScriptPositions DEF Positions
    <3>2. PICK n \in {1, Len(Script[Tool(c)]) + 1} : at' = [at EXCEPT ![c] = n]
      BY <2>2 DEF Connect, Begin, Enter
    <3>3. plan' = plan
      BY <2>2 DEF Connect, Begin
    <3>4. n \in Nat /\ n <= Len(Script[Tool(c)]) + 1
      BY <3>1, <3>2
    <3>5. QED
      BY <3>2, <3>3, <3>4 DEF Positions, Tool
  <2>3. QED
    BY <1>3, <2>1, <2>2 DEF Make
<1>4. ASSUME NEW c \in Calls, Run(c)
      PROVE  Positions'
  <2>1. CASE Send(c) \/ RequestFails(c) \/ VariablesFetched(c) \/ Return(c)
    BY <1>1, <2>1 DEF Send, RequestFails, VariablesFetched, Return
  <2>2. CASE Replied(c) \/ Backtraced(c) \/ FrameHit(c) \/ FrameMiss(c)
    <3>1. At(c) # "over" /\ plan' = plan
      BY <2>2 DEF Replied, Backtraced, FrameHit, FrameMiss, Has, Requests, Checked
    <3>2. Advance(c) \/ UNCHANGED at
      BY <2>2 DEF Replied, Backtraced, FrameHit, FrameMiss, NextRequest
    <3>3. QED
      BY <1>1, <1>2, <3>1, <3>2
  <2>3. CASE VariablesVisit(c) \/ SendStart(c) \/ WaitInitialized(c) \/ Started(c)
    <3>1. At(c) # "over" /\ plan' = plan
      BY <2>3 DEF VariablesVisit, SendStart, WaitInitialized, Started
    <3>2. Advance(c) \/ UNCHANGED at
      BY <2>3 DEF VariablesVisit, SendStart, WaitInitialized, Started
    <3>3. QED
      BY <1>1, <1>2, <3>1, <3>2
  <2>4. CASE Register(c) \/ Stop(c) \/ Kill(c)
    <3>1. At(c) # "over" /\ plan' = plan /\ Advance(c)
      BY <2>4 DEF Register, Stop, Kill
    <3>2. QED
      BY <1>2, <3>1
  <2>5. QED
    BY <1>4, <2>1, <2>2, <2>3, <2>4 DEF Run
<1>5. ASSUME NEW c \in Calls, Dropped(c) \/ Answer(c)
      PROVE  Positions'
  BY <1>1, <1>5 DEF Dropped, Answer
<1>6. CASE \/ AdapterInitialized \/ AnswerStart \/ TargetStops \/ TargetExits \/ AdapterHangs
           \/ AdapterDies \/ AdapterOutput \/ Recover \/ Pump
  BY <1>1, <1>6 DEF AdapterInitialized, AnswerStart, TargetStops, TargetExits, AdapterHangs,
              AdapterDies, AdapterOutput, Recover, Pump, PumpOutput, PumpTerminated
<1>7. CASE UNCHANGED vars
  BY <1>1, <1>7 DEF vars
<1>8. QED
  BY <1>3, <1>4, <1>5, <1>6, <1>7 DEF Next

\* What a call knows keeps its type.
LEMMA CallTypesStep ==
    ASSUME Types, [Next]_vars
    PROVE  CallTypes'
<1> USE DEF session, client, adapter, output, calls
<1>1. CASE UNCHANGED <<result, req, got, about>>
  BY <1>1 DEF Types, CallTypes
<1>2. ASSUME NEW c \in Calls, NEW how \in {"done", "failed", "cancelled"}, Finish(c, how),
             UNCHANGED <<req, got, about>>
      PROVE  CallTypes'
  BY <1>2 DEF Types, CallTypes, Finish
<1>3. ASSUME NEW c \in Calls, Make(c)
      PROVE  CallTypes'
  <2>1. CASE Rejected(c) \/ ConnectFails(c) \/ ReadOutput(c)
    BY <1>2, <2>1 DEF Rejected, ConnectFails, ReadOutput
  <2>2. CASE Connect(c)
    BY <1>1, <2>2 DEF Connect
  <2>3. CASE Begin(c)
    <3>1. ThreadOf(c) \in Threads \cup {None}
      BY PlanTypes DEF ThreadOf, Types, Positions, SessionTypes
    <3>2. UNCHANGED <<result, req, got>> /\ about' \in {about, [about EXCEPT ![c] = ThreadOf(c)]}
      BY <2>3 DEF Begin
    <3>3. QED
      BY <3>1, <3>2 DEF Types, CallTypes
  <2>4. QED
    BY <1>3, <2>1, <2>2, <2>3 DEF Make
<1>4. ASSUME NEW c \in Calls, Run(c)
      PROVE  CallTypes'
  <2>1. CASE Send(c)
    BY <2>1 DEF Send, Types, CallTypes, SessionTypes
  <2>2. CASE RequestFails(c) \/ SendStart(c) \/ Started(c) \/ Return(c)
    BY <1>1, <1>2, <2>2 DEF RequestFails, SendStart, Started, Return, Fail
  <2>3. CASE Replied(c) \/ Backtraced(c) \/ VariablesFetched(c)
    BY <2>3 DEF Replied, Backtraced, VariablesFetched, NextRequest, Types, CallTypes
  <2>4. CASE FrameHit(c)
    <3>1. plan[c].index \in DOMAIN frames
      <4>1. At(c) = "frame" /\ ~ Wants(c)
        BY <2>4 DEF FrameHit
      <4>2. QED
        BY <4>1 DEF Wants, Requests, Checked
    <3>2. frames[plan[c].index] \in Threads \cup {None}
      BY <3>1 DEF Types, SessionTypes
    <3>3. QED
      BY <2>4, <3>2 DEF FrameHit, Types, CallTypes
  <2>5. CASE FrameMiss(c)
    <3>1. UNCHANGED <<got, about>>
      BY <2>5 DEF FrameMiss
    <3>2. CASE NextRequest(c) /\ UNCHANGED result
      BY <3>1, <3>2 DEF NextRequest, Types, CallTypes
    <3>3. CASE Finish(c, "failed") /\ UNCHANGED <<at, req>>
      BY <1>2, <3>1, <3>3
    <3>4. QED
      BY <2>5, <3>2, <3>3 DEF FrameMiss
  <2>6. CASE VariablesVisit(c) \/ WaitInitialized(c) \/ Stop(c) \/ Kill(c)
    BY <1>1, <2>6 DEF VariablesVisit, WaitInitialized, Stop, Kill
  <2>7. CASE Register(c)
    BY <2>7 DEF Register, Types, CallTypes
  <2>8. QED
    BY <1>4, <2>1, <2>2, <2>3, <2>4, <2>5, <2>6, <2>7 DEF Run
<1>5. ASSUME NEW c \in Calls, Dropped(c)
      PROVE  CallTypes'
  BY <1>2, <1>5 DEF Dropped
<1>6. ASSUME NEW c \in Calls, Answer(c)
      PROVE  CallTypes'
  BY <1>6 DEF Answer, Types, CallTypes
<1>7. CASE AdapterInitialized \/ AnswerStart \/ AdapterHangs \/ AdapterDies \/ AdapterOutput \/ Pump
  BY <1>1, <1>7 DEF AdapterInitialized, AnswerStart, AdapterHangs,
              AdapterDies, AdapterOutput, Pump, PumpOutput, PumpTerminated
<1>8. CASE TargetStops \/ TargetExits
  BY <1>8 DEF TargetStops, TargetExits, Deliver, Types, CallTypes
<1>9. CASE Recover
  BY <1>9 DEF Recover, Closes, Deliver, Types, CallTypes
<1>10. CASE UNCHANGED vars
  BY <1>1, <1>10 DEF vars
<1>11. QED
  BY <1>3, <1>4, <1>5, <1>6, <1>7, <1>8, <1>9, <1>10 DEF Next

\* The frame map of a stack trace.
LEMMA MapTypes ==
    ASSUME NEW t \in Threads \cup {None}, NEW n \in Nat
    PROVE  /\ DOMAIN MapOf(t, n) \subseteq 0 .. StackDepth - 1
           /\ MapOf(t, n) \in [DOMAIN MapOf(t, n) -> Threads \cup {None}]
<1> DEFINE m == Min({n, StackDepth})
<1>1. StackDepth \in Nat
  BY LldbAssumption DEF LldbAssumption
<1>2. m = (IF n <= StackDepth THEN n ELSE StackDepth)
  <2> DEFINE I == {n, StackDepth}
  <2>1. PICK i \in I : \A j \in I : i <= j
    BY <1>1
  <2> HIDE DEF I
  <2>2. m \in I /\ \A j \in I : m <= j
    BY <2>1 DEF Min, I
  <2>3. QED
    BY <1>1, <2>2 DEF I
<1> HIDE DEF m
<1>3. m \in Nat /\ m <= StackDepth
  BY <1>1, <1>2
<1>4. MapOf(t, n) = [i \in 0 .. m - 1 |-> t]
  BY DEF MapOf, m
<1>5. QED
  BY <1>1, <1>3, <1>4

\* The session keeps its type.
LEMMA SessionTypesStep ==
    ASSUME Types, [Next]_vars
    PROVE  SessionTypes'
<1> USE DEF session, client, adapter, output, calls
<1>1. CASE UNCHANGED <<phase, ended, lastStop, frames>>
  BY <1>1 DEF Types, SessionTypes
<1>2. ASSUME UNCHANGED <<ended, lastStop, frames>>,
             phase' \in {phase, "configuring", "stopped", "running", "terminated"}
      PROVE  SessionTypes'
  BY <1>2 DEF Types, SessionTypes
<1>3. CASE Reset
  BY <1>3 DEF Reset, SessionTypes
<1>4. ASSUME NEW c \in Calls, Fail(c)
      PROVE  SessionTypes'
  <2>1. CASE Tool(c) \in Connecting
    BY <1>3, <1>4, <2>1 DEF Fail
  <2>2. CASE Tool(c) \notin Connecting
    BY <1>2, <1>4, <2>2 DEF Fail
  <2>3. QED
    BY <2>1, <2>2
<1>5. ASSUME NEW c \in Calls, Make(c)
      PROVE  SessionTypes'
  <2>1. CASE Rejected(c) \/ ReadOutput(c)
    BY <1>1, <2>1 DEF Rejected, ReadOutput
  <2>2. CASE ConnectFails(c)
    BY <1>3, <2>2 DEF ConnectFails
  <2>3. CASE Connect(c)
    BY <1>2, <2>3 DEF Connect
  <2>4. CASE Begin(c)
    BY <1>2, <2>4 DEF Begin
  <2>5. QED
    BY <1>5, <2>1, <2>2, <2>3, <2>4 DEF Make
<1>6. ASSUME NEW c \in Calls, Run(c)
      PROVE  SessionTypes'
  <2>1. CASE RequestFails(c)
    BY <1>4, <2>1 DEF RequestFails
  <2>2. CASE SendStart(c) \/ Started(c)
    BY <1>1, <1>4, <2>2 DEF SendStart, Started
  <2>3. CASE Return(c)
    <3>1. CASE Tool(c) = "disconnect"
      BY <1>3, <2>3, <3>1 DEF Return
    <3>2. CASE Tool(c) \notin Connecting \cup {"cont", "disconnect"}
      BY <1>1, <2>3, <3>2 DEF Return
    <3>3. CASE Tool(c) \in Connecting \cup {"cont"}
      <4>1. /\ UNCHANGED <<ended, frames>>
            /\ phase' \in {phase, "stopped", "running", "terminated"}
            /\ lastStop' \in {lastStop, stopped}
        BY <2>3, <3>3 DEF Return, Connecting
      <4>2. QED
        BY <4>1 DEF Types, SessionTypes, WorldTypes
    <3>4. QED
      BY <3>1, <3>2, <3>3
  <2>4. CASE Backtraced(c) \/ FrameMiss(c)
    <3>1. about[c] \in Threads \cup {None} /\ plan[c].levels \in Nat /\ 20 \in Nat
      BY PlanTypes DEF Types, CallTypes, Positions
    <3>2. PICK n \in {plan[c].levels, 20} : frames' = MapOf(about[c], n)
      BY <2>4 DEF Backtraced, FrameMiss
    <3>3. UNCHANGED <<phase, ended, lastStop>>
      BY <2>4 DEF Backtraced, FrameMiss
    <3>4. /\ DOMAIN frames' \subseteq 0 .. StackDepth - 1
          /\ frames' \in [DOMAIN frames' -> Threads \cup {None}]
      BY <3>1, <3>2, MapTypes
    <3>5. QED
      BY <3>3, <3>4 DEF Types, SessionTypes
  <2>5. CASE \/ Send(c) \/ Replied(c) \/ FrameHit(c) \/ VariablesFetched(c) \/ VariablesVisit(c)
             \/ WaitInitialized(c) \/ Register(c) \/ Stop(c) \/ Kill(c)
    BY <1>1, <2>5 DEF Send, Replied, FrameHit, VariablesFetched, VariablesVisit,
                      WaitInitialized, Register, Stop, Kill
  <2>6. QED
    BY <1>6, <2>1, <2>2, <2>3, <2>4, <2>5 DEF Run
<1>7. ASSUME NEW c \in Calls, Dropped(c)
      PROVE  SessionTypes'
  BY <1>1, <1>3, <1>7 DEF Dropped, Abandons
<1>8. ASSUME NEW c \in Calls, Answer(c)
      PROVE  SessionTypes'
  BY <1>1, <1>8 DEF Answer
<1>9. CASE \/ AdapterInitialized \/ AnswerStart \/ TargetStops \/ TargetExits \/ AdapterHangs
           \/ AdapterDies \/ AdapterOutput \/ Recover \/ PumpOutput
  BY <1>1, <1>9 DEF AdapterInitialized, AnswerStart, TargetStops, TargetExits, AdapterHangs,
              AdapterDies, AdapterOutput, Recover, PumpOutput
<1>10. CASE PumpTerminated
  BY <1>2, <1>10 DEF PumpTerminated
<1>11. CASE UNCHANGED vars
  BY <1>1, <1>11 DEF vars
<1>12. QED
  BY <1>5, <1>6, <1>7, <1>8, <1>9, <1>10, <1>11 DEF Next, Pump

\* So do the client, the adapter and the debuggee.
LEMMA WorldTypesStep ==
    ASSUME Types, [Next]_vars
    PROVE  WorldTypes'
<1> USE DEF session, client, adapter, output, calls
<1>1. CASE UNCHANGED <<client, adapter, chunks>>
  BY <1>1 DEF Types, WorldTypes
<1>2. ASSUME NEW c \in Calls, Make(c)
      PROVE  WorldTypes'
  <2>1. CASE Connect(c)
    BY <2>1 DEF Connect, Types, WorldTypes
  <2>2. CASE Rejected(c) \/ ConnectFails(c) \/ Begin(c) \/ ReadOutput(c)
    BY <1>1, <2>2 DEF Rejected, ConnectFails, Begin, ReadOutput
  <2>3. QED
    BY <1>2, <2>1, <2>2 DEF Make
<1>3. ASSUME NEW c \in Calls, Run(c)
      PROVE  WorldTypes'
  <2>1. CASE RequestFails(c) \/ Started(c) \/ Return(c)
    BY <1>1, <2>1 DEF RequestFails, Started, Return, Fail, Reset, Drains
  <2>2. CASE SendStart(c)
    BY <2>2 DEF SendStart, Fail, Reset, Types, WorldTypes
  <2>3. CASE Register(c) \/ Kill(c)
    BY <2>3 DEF Register, Kill, Types, WorldTypes
  <2>4. CASE \/ Send(c) \/ Replied(c) \/ Backtraced(c) \/ FrameHit(c) \/ FrameMiss(c)
             \/ VariablesFetched(c) \/ VariablesVisit(c) \/ WaitInitialized(c) \/ Stop(c)
    BY <1>1, <2>4 DEF Send, Replied, Backtraced, FrameHit, FrameMiss, VariablesFetched,
                      VariablesVisit, WaitInitialized, Stop
  <2>5. QED
    BY <1>3, <2>1, <2>2, <2>3, <2>4 DEF Run
<1>4. ASSUME NEW c \in Calls, Dropped(c)
      PROVE  WorldTypes'
  BY <1>1, <1>4 DEF Dropped
<1>5. ASSUME NEW c \in Calls, Answer(c)
      PROVE  WorldTypes'
  <2>1. /\ UNCHANGED <<client, child, hung, defers, stopped, chunks>>
        /\ configured' \in {configured, "ok", "refused"} /\ target' \in {target, "running"}
        /\ pausing' \in {pausing, TRUE, FALSE} /\ accepted' \in {accepted, accepted \cup {c}}
    BY <1>5 DEF Answer, Effect
  <2>2. accepted' \subseteq Calls
    BY <2>1 DEF Types, WorldTypes
  <2>3. pausing' \in BOOLEAN
    BY <2>1, Zenon DEF Types, WorldTypes
  <2>4. QED
    BY <2>1, <2>2, <2>3 DEF Types, WorldTypes
<1>6. CASE AdapterInitialized
  BY <1>6 DEF AdapterInitialized, Types, WorldTypes
<1>7. CASE AnswerStart
  <2>1. /\ UNCHANGED <<slot, fired, loop, signalled, child, hung, defers, configured, stopped,
                       accepted, chunks>>
        /\ start' \in {"ok", "refused"} /\ target' \in {target, "none"}
    BY <1>7 DEF AnswerStart
  <2>2. pausing' = pausing \/ pausing' = FALSE
    BY <1>7 DEF AnswerStart
  <2>3. pausing' \in BOOLEAN
    BY <2>2, Zenon DEF Types, WorldTypes
  <2>4. QED
    BY <2>1, <2>3 DEF Types, WorldTypes
<1>8. CASE TargetStops \/ TargetExits
  <2>1. /\ slot' = None /\ target' \in {"stopped", "exited"} /\ pausing' = FALSE
        /\ stopped' \in Threads \cup {None}
        /\ UNCHANGED <<fired, start, loop, signalled, child, hung, defers, configured, accepted,
                       chunks>>
    BY <1>8 DEF TargetStops, TargetExits, Deliver, Types, WorldTypes
  <2>2. pausing' \in BOOLEAN
    BY <2>1, Zenon
  <2>3. QED
    BY <2>1, <2>2 DEF Types, WorldTypes
<1>9. CASE AdapterHangs
  BY <1>9 DEF AdapterHangs, Types, WorldTypes
<1>10. CASE AdapterDies
  BY <1>10 DEF AdapterDies, Types, WorldTypes
<1>11. CASE AdapterOutput
  BY <1>11 DEF AdapterOutput, Types, WorldTypes
<1>12. CASE Recover
  <2>1. /\ loop' = "ended" /\ hung' = FALSE /\ slot' = None /\ start' \in {start, "closed"}
        /\ UNCHANGED <<fired, signalled, child, defers, configured, target, pausing, stopped,
                       accepted, chunks>>
    BY <1>12 DEF Recover, Closes, Deliver
  <2>2. hung' \in BOOLEAN
    BY <2>1, Zenon
  <2>3. start' \in {"none", "sent", "ok", "refused", "closed"}
    BY <2>1 DEF Types, WorldTypes
  <2>4. QED
    BY <2>1, <2>2, <2>3 DEF Types, WorldTypes
<1>13. CASE PumpOutput
  BY <1>1, <1>13 DEF PumpOutput
<1>14. CASE PumpTerminated
  BY <1>14 DEF PumpTerminated, Types, WorldTypes
<1>15. CASE UNCHANGED vars
  BY <1>1, <1>15 DEF vars
<1>16. QED
  BY <1>2, <1>3, <1>4, <1>5, <1>6, <1>7, <1>8, <1>9, <1>10, <1>11, <1>12, <1>13, <1>14, <1>15
     DEF Next, Pump

\* Everything keeps its type: a call stays within its script, a frame index within the
\* stack, the running total of the output buffer is a number, for any plan, any number of
\* threads and frames and any sizes of output.
THEOREM LldbTypes == Spec => []TypeOK
<1>1. Init => Types
  <2>1. Init => OutputInv
    BY OutputInit
  <2>2. Init => Positions
    <3>1. SUFFICES ASSUME Init PROVE Positions
      OBVIOUS
    <3>2. plan \in PlanChoices /\ at = [c \in Calls |-> 0]
      BY <3>1 DEF Init
    <3>3. \A c \in Calls : Len(Script[Tool(c)]) \in Nat
      BY <3>2, PlanTypes, ScriptPositions
    <3>4. QED
      BY <3>2, <3>3 DEF Positions
  <2>3. Init => CallTypes
    BY DEF Init, CallTypes
  <2>4. Init => SessionTypes
    <3>1. DOMAIN << >> = {}
      OBVIOUS
    <3>2. << >> \in [{} -> Threads \cup {None}]
      OBVIOUS
    <3>3. Init => /\ phase = "idle" /\ ended = FALSE /\ lastStop = None /\ frames = << >>
      BY DEF Init
    <3>4. QED
      BY <3>1, <3>2, <3>3 DEF SessionTypes
  <2>5. Init => WorldTypes
    <3>1. Init => /\ slot = None /\ fired = FALSE /\ start = "none" /\ loop = "running"
                  /\ signalled = FALSE /\ child = "none" /\ hung = FALSE /\ defers \in BOOLEAN
                  /\ configured = "none" /\ target = "none" /\ pausing = FALSE
                  /\ stopped = None /\ accepted = {} /\ chunks = 0
      BY DEF Init
    <3>2. Init => /\ fired \in BOOLEAN /\ signalled \in BOOLEAN /\ hung \in BOOLEAN
                  /\ defers \in BOOLEAN /\ pausing \in BOOLEAN
      BY <3>1, Zenon
    <3>3. 0 \in Nat /\ {} \subseteq Calls
      OBVIOUS
    <3>4. QED
      BY <3>1, <3>2, <3>3, Zenon DEF WorldTypes
  <2>6. QED
    BY <2>1, <2>2, <2>3, <2>4, <2>5 DEF Types
<1>2. Types /\ [Next]_vars => Types'
  BY PositionStep, CallTypesStep, SessionTypesStep, WorldTypesStep, OutputStep DEF Types
<1>3. Types => TypeOK
  <2>1. SUFFICES ASSUME Types PROVE TypeOK
    OBVIOUS
  <2>2. buffer.size \in Nat
    BY <2>1, TotalsSteps DEF Types, OutputInv, Kept
  <2>3. \A c \in Calls : at[c] \in 0 .. Len(Script[Tool(c)]) + 1
    <3>1. \A c \in Calls : Len(Script[Tool(c)]) \in Nat
      BY <2>1, PlanTypes, ScriptPositions DEF Types, Positions
    <3>2. QED
      BY <2>1, <3>1 DEF Types, Positions
  <2>4. QED
    BY <2>1, <2>2, <2>3
       DEF Types, Positions, CallTypes, SessionTypes, WorldTypes, OutputInv, TypeOK
<1>4. QED
  BY <1>1, <1>2, <1>3, PTL DEF Spec

=============================================================================
