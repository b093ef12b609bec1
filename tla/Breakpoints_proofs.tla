------------------------- MODULE Breakpoints_proofs -------------------------
(***************************************************************************)
(* Proofs about Breakpoints, for any number of calls, files, lines and     *)
(* names and any relocation: with a careful client the tracked lists and   *)
(* the debugger agree between calls.                                       *)
(***************************************************************************)
EXTENDS Breakpoints, SequenceTheorems, WellFoundedInduction, TLAPS

-----------------------------------------------------------------------------
(* The inductive invariant behind DebuggerHasTracked *)

Lifecycles == {"launch", "attach", "disconnect"}

SetPcs == {"mode", "pend", "backend", "read", "send", "track", "record"}
RemovePcs == {"peek", "backend", "read", "send", "commit"}
ConnectPcs == {"configure", "flush", "connect", "handshake", "settle", "undo"}
DisconnectPcs == {"ask", "undo"}

\* Where the handler of each tool can be, and what a call has not done yet.
PcInv ==
    \A t \in Tools :
        /\ InFlight(t) =>
              /\ req[t].kind = "set" => pc[t] \in SetPcs
              /\ req[t].kind = "remove" => pc[t] \in RemovePcs
              /\ req[t].kind \in {"launch", "attach"} => pc[t] \in ConnectPcs
              /\ req[t].kind = "disconnect" => pc[t] \in DisconnectPcs
              /\ pc[t] = "flush" => req[t].kind = "launch"
        /\ (pc[t] \in {"start", "configure", "flush"} \/ req[t].kind # "launch")
              => spec[t] = Empty

\* A careful client has two calls in flight only to set breakpoints of different groups.
MutexInv ==
    \A t, u \in Tools :
        (t # u /\ InFlight(t) /\ InFlight(u)) =>
            /\ req[t].kind = "set" /\ req[u].kind = "set"
            /\ req[t].group # req[u].group

Tracked(g) == ToSet(active[g]) \ Declined(g)

\* Group g is where a call has sent its list and not yet tracked it.
Sent(t) == IF req[t].kind = "remove" THEN got[t].group ELSE req[t].group
Sending(g) == \E t \in Tools : pc[t] \in {"track", "commit"} /\ Sent(t) = g

Connecting == \E t \in Tools : InFlight(t) /\ req[t].kind \in Lifecycles

\* No session: nothing is tracked.
Blank == slot = 0 => active = Empty /\ responses = {}

SlotInv ==
    /\ slot # 0 => slot = conn
    /\ ~ Connecting => (state = "idle" <=> slot = 0)
    /\ (~ \E t \in Tools : pc[t] \in {"connect", "undo"}) => Blank

\* Outside the window between sending and tracking, and outside a handshake,
\* debugger and lists agree.
AgreeInv ==
    (slot # 0 /\ up /\ ~ Connecting) =>
        \A g \in Groups : ~ Sending(g) => LiveKeys(g) = Tracked(g)

UniqueIds == \A r, s \in responses : r.id = s.id => r = s

SetInv(t) ==
    /\ pc[t] \in {"read", "send", "track", "record"} => slot # 0 /\ mine[t] = slot
    /\ pc[t] = "pend" => slot = 0
    /\ pc[t] \in {"send", "track"} => list[t] = Append(active[req[t].group], req[t].key)
    /\ pc[t] = "track" /\ up =>
          LiveKeys(req[t].group) = ToSet(list[t]) \ Declined(req[t].group)

RemoveInv(t) ==
    /\ slot # 0
    /\ pc[t] \in {"read", "send", "commit"} => mine[t] = slot
    /\ pc[t] # "peek" => got[t] \in responses /\ got[t].id = req[t].id
    /\ pc[t] \in {"send", "commit"} => list[t] = Without(active[got[t].group], got[t].key)
    /\ pc[t] = "commit" /\ up =>
          LiveKeys(got[t].group) = ToSet(list[t]) \ Declined(got[t].group)

ConnectInv(t) ==
    /\ pc[t] \in {"configure", "flush", "connect"} => slot = 0 /\ responses = {}
    /\ pc[t] \in {"configure", "flush"} => active = Empty
    /\ pc[t] = "connect" => active = spec[t]
    /\ pc[t] \in {"handshake", "settle"} => slot # 0
    /\ pc[t] = "handshake" =>
          /\ mine[t] = slot
          /\ \A g \in Groups :
                /\ spec[t][g] # <<>> => spec[t][g] = active[g]
                /\ up => LiveKeys(g) = IF spec[t][g] = <<>> THEN Tracked(g) ELSE {}
    /\ pc[t] = "settle" /\ up => \A g \in Groups : LiveKeys(g) = Tracked(g)

HandlerInv ==
    \A t \in Tools : InFlight(t) =>
        /\ req[t].kind = "set" => SetInv(t)
        /\ req[t].kind = "remove" => RemoveInv(t)
        /\ req[t].kind \in {"launch", "attach"} => ConnectInv(t)

Invariants == PcInv /\ MutexInv /\ SlotInv /\ AgreeInv /\ UniqueIds /\ HandlerInv

Inv == TypeOK /\ Invariants

-----------------------------------------------------------------------------
(* Facts about the operators *)

\* A nonempty set of positions has a first one (SelectInSeq in RemoveFirst).
LEMMA FirstPosition ==
    ASSUME NEW I, I \subseteq Nat, I # {}
    PROVE  \E i \in I : \A j \in I : i <= j
<1>1. PICK i \in I : \A j \in I : ~ (<<j, i>> \in OpToRel(<, Nat))
  BY NatLessThanWellFounded, WFMin, Zenon
<1>2. ASSUME NEW j \in I
      PROVE  i <= j
  <2>1. i \in Nat /\ j \in Nat
    OBVIOUS
  <2>2. ~ (j < i)
    <3> SUFFICES ASSUME j < i
                 PROVE  FALSE
      OBVIOUS
    <3>1. <<j, i>> \in {ss \in Nat \X Nat : ss[1] < ss[2]}
      BY <2>1
    <3> QED
      BY <1>1, <3>1, Zenon DEF OpToRel
  <2> QED
    BY <2>1, <2>2
<1> QED
  BY <1>2

\* Removing an entry of a list of keys leaves a list of keys.
LEMMA WithoutType ==
    ASSUME NEW s \in Seq(Keys), NEW k
    PROVE  Without(s, k) \in Seq(Keys)
<1>1. CASE ~ \E i \in 1..Len(s) : s[i] = k
  BY <1>1 DEF Without, RemoveFirst
<1>2. CASE \E i \in 1..Len(s) : s[i] = k
  <2> DEFINE I == {i \in 1..Len(s) : s[i] = k}
             m == CHOOSE i \in I : \A j \in I : i <= j
  <2>1. Len(s) \in Nat
    BY LenProperties
  <2>2. m \in I
    <3>1. I # {} /\ I \subseteq Nat
      BY <1>2, <2>1
    <3>2. \E i \in I : \A j \in I : i <= j
      BY <3>1, FirstPosition
    <3> QED
      BY <3>2, Zenon
  <2>3. SelectInSeq(s, LAMBDA v : v = k) = m
    BY <2>2 DEF SelectInSeq, Min
  <2>4. SubSeq(s, 1, m - 1) \in Seq(Keys)
    <3>1. \A i \in 1..(m - 1) : i \in 1..Len(s)
      BY <2>1, <2>2
    <3> QED
      BY <2>1, <2>2, <3>1, SubSeqProperties
  <2>5. SubSeq(s, m + 1, Len(s)) \in Seq(Keys)
    <3>1. m + 1 \in Int /\ Len(s) \in Int /\ m \in Nat
      BY <2>1, <2>2
    <3>2. \A i \in (m + 1)..Len(s) : s[i] \in Keys
      <4> HIDE DEF m
      <4> QED
        BY <2>1, <3>1, ElementOfSeq
    <3> HIDE DEF m
    <3> QED
      BY <3>1, <3>2, SubSeqProperties
  <2>6. Without(s, k) = SubSeq(s, 1, m - 1) \o SubSeq(s, m + 1, Len(s))
    BY <1>2, <2>3 DEF Without, RemoveFirst, RemoveAt
  <2> QED
    BY <2>4, <2>5, <2>6, ConcatProperties
<1> QED
  BY <1>1, <1>2

\* The keys of a list with one appended.
LEMMA ToSetAppend ==
    ASSUME NEW s \in Seq(Keys), NEW k \in Keys
    PROVE  /\ Append(s, k) \in Seq(Keys)
           /\ ToSet(Append(s, k)) = ToSet(s) \cup {k}
<1>1. /\ Append(s, k) \in Seq(Keys)
      /\ Len(s) \in Nat
      /\ Len(Append(s, k)) = Len(s) + 1
      /\ \A i \in 1..Len(s) : Append(s, k)[i] = s[i]
      /\ Append(s, k)[Len(s) + 1] = k
      /\ DOMAIN s = 1..Len(s)
      /\ DOMAIN Append(s, k) = 1..(Len(s) + 1)
  BY AppendProperties, LenProperties
<1> QED
  BY <1>1 DEF ToSet

\* After a set request the group has the listed breakpoints and the others
\* are untouched.
LEMMA ApplyKeys ==
    ASSUME TypeOK, NEW g \in Groups, NEW keys \in Seq(Keys), Apply(g, keys)
    PROVE  /\ live' \in SUBSET BpInfos
           /\ nextId' \in Nat
           /\ LiveKeys(g)' = ToSet(keys) \ Declined(g)
           /\ \A h \in Groups : h # g => LiveKeys(h)' = LiveKeys(h)
<1> DEFINE wanted == ToSet(keys) \ Declined(g)
           kept == {b \in live : b.group = g /\ b.key \in wanted}
           new == wanted \ {b.key : b \in kept}
           first(k) == CHOOSE i \in DOMAIN keys : keys[i] = k
           fresh == {[id |-> nextId + first(k) - 1, group |-> g, key |-> k] : k \in new}
           others == {b \in live : b.group # g}
<1>1. Len(keys) \in Nat /\ DOMAIN keys = 1..Len(keys)
  BY LenProperties
<1>2. \A k \in wanted : k \in Keys /\ first(k) \in 1..Len(keys)
  <2> SUFFICES ASSUME NEW k \in wanted
               PROVE  k \in Keys /\ first(k) \in 1..Len(keys)
    OBVIOUS
  <2>1. \E i \in DOMAIN keys : keys[i] = k
    BY DEF ToSet
  <2>2. first(k) \in DOMAIN keys /\ keys[first(k)] = k
    BY <2>1, Zenon
  <2> QED
    BY <1>1, <2>2, ElementOfSeq
<1>3. live \subseteq BpInfos /\ nextId \in Nat
  BY DEF TypeOK
<1>4. fresh \subseteq BpInfos
  <2> HIDE DEF wanted, first
  <2> QED
    BY <1>1, <1>2, <1>3 DEF BpInfos
<1>5. live' = others \cup kept \cup fresh /\ nextId' = nextId + Len(keys)
  BY Zenon DEF Apply, Replaced
<1>6. \A b \in fresh : b.group = g /\ b.key \in new
  <2> HIDE DEF first, new
  <2> QED
    BY SMT
<1>7. \A k \in new : \E b \in fresh : b.key = k
  <2> HIDE DEF first, new
  <2> TAKE k \in new
  <2> WITNESS [id |-> nextId + first(k) - 1, group |-> g, key |-> k] \in fresh
  <2> QED
    OBVIOUS
<1> HIDE DEF fresh, wanted
<1>8. LiveKeys(g)' = wanted
  <2>1. \A k \in wanted : \E b \in kept \cup fresh : b.key = k
    BY <1>7
  <2> QED
    BY <1>5, <1>6, <2>1 DEF LiveKeys
<1>9. \A h \in Groups : h # g => LiveKeys(h)' = LiveKeys(h)
  BY <1>5, <1>6 DEF LiveKeys
<1> QED
  BY <1>1, <1>3, <1>4, <1>5, <1>8, <1>9 DEF wanted

\* Nothing of the debugger changes, and neither do the keys it has.
LEMMA LiveUnchanged ==
    ASSUME UNCHANGED live
    PROVE  \A g : LiveKeys(g)' = LiveKeys(g)
BY DEF LiveKeys

-----------------------------------------------------------------------------
(* Type correctness *)

\* The types hold at the start.
LEMMA InitType == Init => TypeOK
<1> SUFFICES ASSUME Init
             PROVE  TypeOK
  OBVIOUS
<1>1. <<>> \in Seq(Keys) /\ Empty \in [Groups -> Seq(Keys)]
  BY EmptySeq DEF Empty
<1>2. req \in [Tools -> Requests] /\ reloc \in [Keys -> Keys]
  BY BpAssumption DEF BpAssumption, Init
<1>3. got \in [Tools -> BpInfos]
  BY <1>2 DEF Init, BpInfos, Requests
<1> QED
  BY <1>1, <1>2, <1>3 DEF Init, TypeOK

\* The pcs a call can go to.
LEMMA PcType ==
    ASSUME TypeOK, NEW t \in Tools, NEW l \in Steps \cup Finished, Goto(t, l)
    PROVE  pc' \in [Tools -> {"start"} \cup Steps \cup Finished]
BY DEF TypeOK, Goto

\* A request checking the session's state keeps the types.
LEMMA CheckStateType ==
    ASSUME TypeOK, NEW t \in Tools, NEW kinds, NEW allowed, NEW l \in Steps,
           CheckState(t, kinds, allowed, l)
    PROVE  TypeOK'
<1>1. PICK x \in Steps \cup Finished : Goto(t, x)
  BY DEF CheckState, Finished
<1> QED
  BY <1>1, PcType DEF CheckState, TypeOK, lists, debugger

\* A request taking its backend.
LEMMA CurrentBackendType ==
    ASSUME TypeOK, NEW t \in Tools, CurrentBackend(t)
    PROVE  TypeOK'
<1>1. PICK l \in Steps \cup Finished : Goto(t, l)
  BY DEF CurrentBackend, Steps, Finished
<1> QED
  BY <1>1, PcType DEF CurrentBackend, TypeOK, lists, debugger

\* A request finding its backend gone.
LEMMA SendFailsType ==
    ASSUME TypeOK, NEW t \in Tools, SendFails(t)
    PROVE  TypeOK'
<1>1. "failed" \in Steps \cup Finished
  BY DEF Finished
<1> QED
  BY <1>1, PcType DEF SendFails, TypeOK, lists, debugger

\* The steps of a set request.
LEMMA SetType ==
    ASSUME TypeOK, NEW t \in Tools, SetBreakpoint(t)
    PROVE  TypeOK'
<1> USE DEF lists, debugger
<1>0. req[t] \in Requests /\ req[t].group \in Groups /\ req[t].key \in Keys
  BY DEF TypeOK, Requests
<1>1. CASE SetGuard(t)
  BY <1>1, CheckStateType DEF SetGuard, Steps
<1>2. CASE SetMode(t)
  <2>1. PICK l \in Steps \cup Finished : Goto(t, l)
    BY <1>2 DEF SetMode, Steps
  <2> QED
    BY <1>2, <2>1, PcType DEF SetMode, TypeOK
<1>3. CASE SetPending(t)
  <2>1. Append(pending[req[t].group], req[t].key) \in Seq(Keys)
    BY <1>0, ToSetAppend DEF TypeOK
  <2>2. pending' \in [Groups -> Seq(Keys)]
    BY <1>3, <1>0, <2>1 DEF SetPending, TypeOK
  <2>3. "done" \in Steps \cup Finished
    BY DEF Finished
  <2> QED
    BY <1>3, <2>2, <2>3, PcType DEF SetPending, TypeOK
<1>4. CASE CurrentBackend(t)
  BY <1>4, CurrentBackendType
<1>5. CASE SendFails(t)
  BY <1>5, SendFailsType
<1>6. CASE SetRead(t)
  <2>1. Append(active[req[t].group], req[t].key) \in Seq(Keys)
    BY <1>0, ToSetAppend DEF TypeOK
  <2>2. "send" \in Steps \cup Finished
    BY DEF Steps
  <2> QED
    BY <1>6, <2>1, <2>2, PcType DEF SetRead, TypeOK
<1>7. CASE SetSend(t)
  <2>1. list[t] \in Seq(Keys)
    BY DEF TypeOK
  <2>2. live' \in SUBSET BpInfos /\ nextId' \in Nat
    BY <1>0, <1>7, <2>1, ApplyKeys DEF SetSend
  <2>3. got' \in [Tools -> BpInfos]
    <3>1. CASE Matched(t) \in Declined(req[t].group)
      BY <1>7, <3>1 DEF SetSend, TypeOK
    <3>2. CASE Matched(t) \notin Declined(req[t].group)
      <4>1. PICK b \in live' : got' = [got EXCEPT ![t] = [b EXCEPT !.key = Reported(b.group, @)]]
        BY <1>7, <3>2 DEF SetSend
      <4>2. b \in BpInfos
        BY <2>2, <4>1
      <4>3. Reported(b.group, b.key) \in Keys
        BY <4>2 DEF Reported, BpInfos, TypeOK
      <4>4. [b EXCEPT !.key = Reported(b.group, @)] \in BpInfos
        BY <4>2, <4>3 DEF BpInfos
      <4> QED
        BY <4>1, <4>4 DEF TypeOK
    <3> QED
      BY <3>1, <3>2
  <2>4. PICK l \in Steps \cup Finished : Goto(t, l)
    BY <1>7 DEF SetSend, Steps, Finished
  <2> QED
    BY <1>7, <2>2, <2>3, <2>4, PcType DEF SetSend, Apply, TypeOK
<1>8. CASE SetTrack(t)
  <2>1. Append(active[req[t].group], req[t].key) \in Seq(Keys)
    BY <1>0, ToSetAppend DEF TypeOK
  <2>2. active' \in [Groups -> Seq(Keys)]
    BY <1>0, <1>8, <2>1 DEF SetTrack, Track, TypeOK
  <2>3. "record" \in Steps \cup Finished
    BY DEF Steps
  <2> QED
    BY <1>8, <2>2, <2>3, PcType DEF SetTrack, TypeOK
<1>9. CASE SetRecord(t)
  <2>1. responses' \in SUBSET BpInfos
    BY <1>9 DEF SetRecord, AddResponse, TypeOK
  <2>2. "done" \in Steps \cup Finished
    BY DEF Finished
  <2> QED
    BY <1>9, <2>1, <2>2, PcType DEF SetRecord, TypeOK
<1> QED
  BY <1>1, <1>2, <1>3, <1>4, <1>5, <1>6, <1>7, <1>8, <1>9 DEF SetBreakpoint

\* The steps of a remove request.
LEMMA RemoveType ==
    ASSUME TypeOK, NEW t \in Tools, RemoveBreakpoint(t)
    PROVE  TypeOK'
<1> USE DEF lists, debugger
<1>0. got[t] \in BpInfos /\ got[t].group \in Groups /\ got[t].key \in Keys
  BY DEF TypeOK, BpInfos
<1>1. CASE RemoveGuard(t)
  BY <1>1, CheckStateType DEF RemoveGuard, Steps
<1>2. CASE RemovePeek(t)
  <2>1. PICK l \in Steps \cup Finished : Goto(t, l)
    BY <1>2 DEF RemovePeek, Steps, Finished
  <2>2. got' \in [Tools -> BpInfos]
    BY <1>2 DEF RemovePeek, TypeOK
  <2> QED
    BY <1>2, <2>1, <2>2, PcType DEF RemovePeek, TypeOK
<1>3. CASE CurrentBackend(t)
  BY <1>3, CurrentBackendType
<1>4. CASE SendFails(t)
  BY <1>4, SendFailsType
<1>5. CASE RemoveRead(t)
  <2>1. Without(active[got[t].group], got[t].key) \in Seq(Keys)
    BY <1>0, WithoutType DEF TypeOK
  <2>2. "send" \in Steps \cup Finished
    BY DEF Steps
  <2> QED
    BY <1>5, <2>1, <2>2, PcType DEF RemoveRead, TypeOK
<1>6. CASE RemoveSend(t)
  <2>1. list[t] \in Seq(Keys)
    BY DEF TypeOK
  <2>2. live' \in SUBSET BpInfos /\ nextId' \in Nat
    BY <1>0, <1>6, <2>1, ApplyKeys DEF RemoveSend
  <2>3. "commit" \in Steps \cup Finished
    BY DEF Steps
  <2> QED
    BY <1>6, <2>2, <2>3, PcType DEF RemoveSend, Apply, TypeOK
<1>7. CASE RemoveCommit(t)
  <2>1. PICK l \in Steps \cup Finished : Goto(t, l)
    BY <1>7 DEF RemoveCommit, Finished
  <2>2. active' \in [Groups -> Seq(Keys)] /\ responses' \in SUBSET BpInfos
    <3>1. CASE \E r \in responses : r.id = req[t].id
      <4>1. PICK r \in responses : RemoveById(r)
        BY <1>7, <3>1 DEF RemoveCommit
      <4>2. r \in BpInfos /\ r.group \in Groups
        BY <4>1 DEF TypeOK, BpInfos
      <4>3. Without(active[r.group], r.key) \in Seq(Keys)
        BY <4>2, WithoutType DEF TypeOK
      <4> QED
        BY <4>1, <4>2, <4>3 DEF RemoveById, TypeOK
    <3>2. CASE ~ \E r \in responses : r.id = req[t].id
      BY <1>7, <3>2 DEF RemoveCommit, TypeOK
    <3> QED
      BY <3>1, <3>2
  <2> QED
    BY <1>7, <2>1, <2>2, PcType DEF RemoveCommit, TypeOK
<1> QED
  BY <1>1, <1>2, <1>3, <1>4, <1>5, <1>6, <1>7 DEF RemoveBreakpoint

\* The session's own steps.
LEMMA LifecycleType ==
    ASSUME TypeOK, NEW t \in Tools, Lifecycle(t)
    PROVE  TypeOK'
<1> USE DEF lists, debugger
<1>0. Empty \in [Groups -> Seq(Keys)] /\ <<>> \in Seq(Keys)
  BY EmptySeq DEF Empty
<1>1. CASE ConnectGuard(t)
  BY <1>1, CheckStateType DEF ConnectGuard, Steps
<1>2. CASE Configure(t)
  <2>1. PICK l \in Steps \cup Finished : Goto(t, l)
    BY <1>2 DEF Configure, Steps
  <2> QED
    BY <1>2, <2>1, PcType DEF Configure, TypeOK
<1>3. CASE LaunchFlush(t)
  <2>1. \A g \in Groups : active[g] \o pending[g] \in Seq(Keys)
    BY ConcatProperties DEF TypeOK
  <2>2. active' \in [Groups -> Seq(Keys)] /\ pending' \in [Groups -> Seq(Keys)]
    BY <1>0, <1>3, <2>1 DEF LaunchFlush, Flush
  <2>3. "connect" \in Steps \cup Finished
    BY DEF Steps
  <2> QED
    BY <1>3, <2>2, <2>3, PcType DEF LaunchFlush, Flush, TypeOK
<1>4. CASE Connect(t)
  <2>1. "handshake" \in Steps \cup Finished
    BY DEF Steps
  <2> QED
    BY <1>4, <2>1, PcType DEF Connect, TypeOK
<1>5. CASE FlushGroup(t)
  <2>1. PICK g \in Groups : Apply(g, spec[t][g]) /\ spec' = [spec EXCEPT ![t][g] = <<>>]
    BY <1>5 DEF FlushGroup
  <2>2. spec[t] \in [Groups -> Seq(Keys)] /\ spec[t][g] \in Seq(Keys)
    BY DEF TypeOK
  <2>3. live' \in SUBSET BpInfos /\ nextId' \in Nat
    BY <2>1, <2>2, ApplyKeys
  <2>4. spec' \in [Tools -> [Groups -> Seq(Keys)]]
    BY <1>0, <2>1, <2>2 DEF TypeOK
  <2> QED
    BY <1>5, <2>1, <2>3, <2>4 DEF FlushGroup, Apply, TypeOK
<1>6. CASE HandshakeDone(t)
  <2>1. "settle" \in Steps \cup Finished
    BY DEF Steps
  <2> QED
    BY <1>6, <2>1, PcType DEF HandshakeDone, TypeOK
<1>7. CASE ConnectFails(t)
  <2>1. "undo" \in Steps \cup Finished
    BY DEF Steps
  <2> QED
    BY <1>7, <2>1, PcType DEF ConnectFails, TypeOK
<1>8. CASE Settle(t)
  <2>1. "done" \in Steps \cup Finished
    BY DEF Finished
  <2> QED
    BY <1>8, <2>1, PcType DEF Settle, TypeOK
<1>9. CASE Undo(t)
  <2>1. PICK l \in Steps \cup Finished : Goto(t, l)
    BY <1>9 DEF Undo, Finished
  <2> QED
    BY <1>0, <1>9, <2>1, PcType DEF Undo, ResetLists, TypeOK
<1>10. CASE DisconnectGuard(t)
  BY <1>10, CheckStateType DEF DisconnectGuard, Steps
<1>11. CASE DisconnectAsk(t)
  <2>1. "undo" \in Steps \cup Finished
    BY DEF Steps
  <2>2. up' \in BOOLEAN
    BY <1>11, Zenon DEF DisconnectAsk, TypeOK
  <2> QED
    BY <1>11, <2>1, <2>2, PcType DEF DisconnectAsk, TypeOK
<1> QED
  BY <1>1, <1>2, <1>3, <1>4, <1>5, <1>6, <1>7, <1>8, <1>9, <1>10, <1>11 DEF Lifecycle

\* Every step keeps the types.
LEMMA NextType == TypeOK /\ [Next]_vars => TypeOK'
<1> SUFFICES ASSUME TypeOK, [Next]_vars
             PROVE  TypeOK'
  OBVIOUS
<1>1. CASE \E t \in Tools : SetBreakpoint(t) \/ RemoveBreakpoint(t) \/ Lifecycle(t)
  BY <1>1, SetType, RemoveType, LifecycleType
<1>2. CASE DebuggerDies
  BY <1>2 DEF DebuggerDies, TypeOK, lists, tool
<1>3. CASE Runs
  BY <1>3 DEF Runs, TypeOK, lists, tool, debugger
<1>4. CASE UNCHANGED vars
  BY <1>4 DEF vars, TypeOK, lists, tool, debugger
<1> QED
  BY <1>1, <1>2, <1>3, <1>4 DEF Next

-----------------------------------------------------------------------------
(* What a step of one call may disturb *)

\* A call that is in flight, or that the client may start.
Busy(t) == InFlight(t) \/ Admitted(t)

\* Beside a set call there are only set calls of other groups.
LEMMA BesideSet ==
    ASSUME Inv, Careful, NEW t \in Tools, req[t].kind = "set", Busy(t)
    PROVE  /\ ~ Connecting
           /\ \A u \in Tools : pc[u] \notin {"connect", "undo", "commit"}
           /\ \A u \in Tools \ {t} : InFlight(u) =>
                  req[u].kind = "set" /\ req[u].group # req[t].group
<1>1. \A u \in Tools \ {t} : InFlight(u) => req[u].kind = "set" /\ req[u].group # req[t].group
  BY DEF Busy, Admitted, Inv, Invariants, MutexInv
<1>2. \A u \in Tools : InFlight(u) => req[u].kind = "set" /\ pc[u] \in SetPcs
  BY <1>1 DEF Inv, Invariants, PcInv
<1>3. ~ Connecting
  BY <1>2 DEF Connecting, Lifecycles
<1>4. \A u \in Tools : pc[u] \notin {"connect", "undo", "commit"}
  BY <1>2 DEF InFlight, Steps, SetPcs
<1> QED
  BY <1>1, <1>3, <1>4

\* Beside any other call there is none.
LEMMA BesideOther ==
    ASSUME Inv, Careful, NEW t \in Tools, req[t].kind # "set", Busy(t)
    PROVE  \A u \in Tools \ {t} : ~ InFlight(u)
BY DEF Busy, Admitted, Inv, Invariants, MutexInv

\* The handlers stay where they belong, and the client stays careful.
LEMMA PcStep ==
    ASSUME Inv, Careful, NEW t \in Tools, Busy(t), NEW l \in Steps \cup Finished,
           Goto(t, l), UNCHANGED req,
           l \in Steps =>
              /\ req[t].kind = "set" => l \in SetPcs
              /\ req[t].kind = "remove" => l \in RemovePcs
              /\ req[t].kind \in {"launch", "attach"} => l \in ConnectPcs
              /\ req[t].kind = "disconnect" => l \in DisconnectPcs
              /\ l = "flush" => req[t].kind = "launch",
           (l \in {"configure", "flush"} \/ req[t].kind # "launch") => spec'[t] = Empty,
           \A u \in Tools \ {t} : spec'[u] = spec[u]
    PROVE  PcInv' /\ MutexInv'
<1>1. /\ pc'[t] = l
      /\ \A u \in Tools \ {t} : pc'[u] = pc[u]
  BY DEF Inv, TypeOK, Goto
<1>2. \A u \in Tools \ {t} : InFlight(u)' <=> InFlight(u)
  BY <1>1 DEF InFlight
<1>3. PcInv'
  <2> SUFFICES ASSUME NEW u \in Tools
               PROVE  PcInv!(u)'
    BY DEF PcInv
  <2>1. CASE u = t
    BY <1>1, <2>1 DEF InFlight, Steps, Finished
  <2>2. CASE u # t
    BY <1>1, <1>2, <2>2 DEF Inv, Invariants, PcInv
  <2> QED
    BY <2>1, <2>2
<1>4. MutexInv'
  <2>1. ASSUME NEW u \in Tools \ {t}, InFlight(u)
        PROVE  req[t].kind = "set" /\ req[u].kind = "set" /\ req[t].group # req[u].group
    BY <2>1 DEF Busy, Admitted, Inv, Invariants, MutexInv
  <2> QED
    BY <1>2, <2>1 DEF Inv, Invariants, MutexInv
<1> QED
  BY <1>3, <1>4

\* A step of a set call leaves the session and the other groups alone: what is left
\* to show is what it does to its own group.
LEMMA SetFrame ==
    ASSUME Inv, Careful, NEW t \in Tools, Busy(t), req[t].kind = "set",
           NEW l \in SetPcs \cup Finished, Goto(t, l),
           UNCHANGED <<state, slot, conn, up, req, spec>>,
           \A u \in Tools \ {t} : mine'[u] = mine[u] /\ list'[u] = list[u],
           \A g \in Groups \ {req[t].group} :
               active'[g] = active[g] /\ LiveKeys(g)' = LiveKeys(g),
           slot = 0 => UNCHANGED <<active, responses>>,
           (slot # 0 /\ up /\ l # "track") => LiveKeys(req[t].group)' = Tracked(req[t].group)',
           UniqueIds',
           l \in Steps => SetInv(t)'
    PROVE  Invariants'
<1>0. l \in Steps \cup Finished /\ (l \in Steps => l \in SetPcs)
  BY DEF Steps, SetPcs, Finished
<1>1. /\ pc'[t] = l
      /\ \A u \in Tools \ {t} : pc'[u] = pc[u]
  BY DEF Inv, TypeOK, Goto
<1>2. \A u \in Tools \ {t} : InFlight(u)' <=> InFlight(u)
  BY <1>1 DEF InFlight
<1>3. PcInv' /\ MutexInv'
  BY <1>0, PcStep DEF SetPcs, Finished, Inv, Invariants, PcInv
<1>4. ~ Connecting /\ ~ Connecting'
  BY <1>1, <1>2, BesideSet DEF Connecting, Lifecycles
<1>5. SlotInv'
  <2>1. Blank
    BY BesideSet DEF Inv, Invariants, SlotInv
  <2> QED
    BY <1>4, <2>1 DEF Inv, Invariants, SlotInv, Blank
<1>6. AgreeInv'
  <2> SUFFICES ASSUME (slot # 0)', up', NEW g \in Groups, ~ Sending(g)'
               PROVE  LiveKeys(g)' = Tracked(g)'
    BY DEF AgreeInv
  <2>1. CASE g = req[t].group
    <3>1. l # "track"
      BY <1>1, <2>1 DEF Sending, Sent
    <3> QED
      BY <2>1, <3>1
  <2>2. CASE g # req[t].group
    <3>1. ~ Sending(g)
      <4> SUFFICES ASSUME NEW u \in Tools, pc[u] \in {"track", "commit"}, Sent(u) = g
                   PROVE  FALSE
        BY DEF Sending
      <4>1. u # t
        BY <2>2 DEF Sent
      <4>2. pc[u] = "track" /\ req[u].kind = "set"
        BY <4>1, BesideSet DEF InFlight, Steps
      <4> QED
        BY <1>1, <4>1, <4>2 DEF Sending, Sent
    <3>2. LiveKeys(g) = Tracked(g)
      BY <1>4, <3>1 DEF Inv, Invariants, AgreeInv
    <3> QED
      BY <2>2, <3>2 DEF Tracked, Declined
  <2> QED
    BY <2>1, <2>2
<1>7. HandlerInv'
  <2> SUFFICES ASSUME NEW u \in Tools, InFlight(u)'
               PROVE  req[u].kind = "set" /\ SetInv(u)'
    BY DEF HandlerInv
  <2>1. CASE u = t
    BY <1>1, <2>1 DEF InFlight
  <2>2. CASE u # t
    <3>1. InFlight(u) /\ req[u].kind = "set" /\ req[u].group # req[t].group
      BY <1>2, <2>2, BesideSet
    <3>2. req[u].group \in Groups
      BY DEF Inv, TypeOK, Requests
    <3>3. SetInv(u)
      BY <3>1 DEF Inv, Invariants, HandlerInv
    <3>4. pc'[u] = pc[u] /\ mine'[u] = mine[u] /\ list'[u] = list[u]
      BY <1>1, <2>2
    <3>5. /\ active'[req[u].group] = active[req[u].group]
          /\ LiveKeys(req[u].group)' = LiveKeys(req[u].group)
      BY <3>1, <3>2
    <3> QED
      BY <3>1, <3>3, <3>4, <3>5 DEF SetInv, Declined
  <2> QED
    BY <2>1, <2>2
<1> QED
  BY <1>3, <1>5, <1>6, <1>7 DEF Invariants

\* Any other call is alone: what is left to show is the state it leaves.
LEMMA AloneFrame ==
    ASSUME Inv, Careful, NEW t \in Tools, Busy(t), req[t].kind # "set",
           NEW l \in Steps \cup Finished, Goto(t, l), UNCHANGED req,
           PcInv', MutexInv',
           slot' # 0 => slot' = conn',
           (l \in Steps => req[t].kind = "remove") => (state' = "idle" <=> slot' = 0),
           l \notin {"connect", "undo"} => Blank',
           (l \in Steps => req[t].kind = "remove") /\ slot' # 0 /\ up' =>
               \A g \in Groups : (l = "commit" => g # got'[t].group)
                                     => LiveKeys(g)' = Tracked(g)',
           UniqueIds',
           l \in Steps =>
               /\ req[t].kind = "remove" => RemoveInv(t)'
               /\ req[t].kind \in {"launch", "attach"} => ConnectInv(t)'
    PROVE  Invariants'
<1>1. /\ pc'[t] = l
      /\ \A u \in Tools \ {t} : pc'[u] = pc[u]
  BY DEF Inv, TypeOK, Goto
<1>2. \A u \in Tools \ {t} : ~ InFlight(u)' /\ ~ InFlight(u)
  BY <1>1, BesideOther DEF InFlight
<1>3. req[t].kind \in {"remove"} \cup Lifecycles
  BY DEF Inv, TypeOK, Requests, ToolKinds, Lifecycles
<1>4. Connecting' <=> (l \in Steps /\ req[t].kind # "remove")
  BY <1>1, <1>2, <1>3 DEF Connecting, InFlight, Lifecycles
<1>5. SlotInv'
  BY <1>1, <1>4 DEF SlotInv
<1>6. AgreeInv'
  <2> SUFFICES ASSUME (slot # 0)', up', ~ Connecting', NEW g \in Groups, ~ Sending(g)'
               PROVE  LiveKeys(g)' = Tracked(g)'
    BY DEF AgreeInv
  <2>1. l = "commit" => g # got'[t].group
    <3> SUFFICES ASSUME l = "commit", g = got'[t].group
                 PROVE  FALSE
      OBVIOUS
    <3>1. req[t].kind = "remove"
      BY <1>4 DEF Steps
    <3> QED
      BY <1>1, <3>1 DEF Sending, Sent
  <2> QED
    BY <1>4, <2>1
<1>7. HandlerInv'
  <2> SUFFICES ASSUME NEW u \in Tools, InFlight(u)'
               PROVE  HandlerInv!(u)!2'
    BY DEF HandlerInv
  <2>1. u = t /\ l \in Steps
    BY <1>1, <1>2 DEF InFlight
  <2> QED
    BY <2>1
<1> QED
  BY <1>5, <1>6, <1>7 DEF Invariants

\* Between calls, and beside a set call that has not sent its list, a group is as tracked.
LEMMA OwnAgrees ==
    ASSUME Inv, Careful, NEW t \in Tools, Busy(t), req[t].kind = "set", pc[t] # "track",
           slot # 0, up
    PROVE  LiveKeys(req[t].group) = Tracked(req[t].group)
<1>1. ~ Sending(req[t].group)
  <2> SUFFICES ASSUME NEW u \in Tools, pc[u] \in {"track", "commit"}, Sent(u) = req[t].group
               PROVE  FALSE
    BY DEF Sending
  <2>1. pc[u] = "track" /\ u # t
    BY BesideSet
  <2> QED
    BY <2>1, BesideSet DEF InFlight, Steps, Sent
<1> QED
  BY <1>1, BesideSet DEF Inv, Invariants, AgreeInv, TypeOK, Requests

-----------------------------------------------------------------------------
(* The set handlers keep the invariant *)

\* A step of the set handlers is one of a set call in flight, or starts one.
LEMMA SetCall ==
    ASSUME Inv, NEW t \in Tools, SetBreakpoint(t)
    PROVE  req[t].kind = "set" /\ Busy(t)
<1>1. SetPcs \subseteq Steps
  BY DEF SetPcs, Steps
<1>2. pc[t] \in {"mode", "pend", "track", "record"} => req[t].kind = "set"
  BY DEF Inv, Invariants, PcInv, InFlight, Steps, RemovePcs, ConnectPcs, DisconnectPcs, TypeOK,
         Requests, ToolKinds
<1>3. req[t].kind = "set"
  BY <1>2 DEF SetBreakpoint, SetGuard, CheckState, SetMode, SetPending, SetRead, SetSend,
              SetTrack, SetRecord
<1> QED
  BY <1>3 DEF SetBreakpoint, SetGuard, CheckState, SetMode, SetPending, SetRead, SetSend,
              SetTrack, SetRecord, CurrentBackend, SendFails, Busy, InFlight, Steps

\* A step of a set request keeps the invariant.
LEMMA SetStep ==
    ASSUME Inv, Careful, NEW t \in Tools, SetBreakpoint(t)
    PROVE  Invariants'
<1> DEFINE g == req[t].group
           k == req[t].key
<1>0. /\ TypeOK
      /\ g \in Groups /\ k \in Keys
      /\ UniqueIds
      /\ active \in [Groups -> Seq(Keys)]
      /\ pc[t] \in Steps => SetInv(t) \/ req[t].kind # "set"
  BY DEF Inv, TypeOK, Requests, Invariants, HandlerInv, InFlight
<1>1. req[t].kind = "set" /\ Busy(t)
  BY SetCall
<1>2. ASSUME UNCHANGED <<active, live, up, slot, req>>, pc[t] # "track"
      PROVE  /\ \A h \in Groups : LiveKeys(h)' = LiveKeys(h)
             /\ slot # 0 /\ up => LiveKeys(g)' = Tracked(g)'
  BY <1>1, <1>2, OwnAgrees, LiveUnchanged DEF Tracked, Declined
<1> USE DEF lists, debugger
<1>3. CASE SetGuard(t)
  <2>1. PICK l \in {"mode", "rejected"} : Goto(t, l)
    BY <1>3 DEF SetGuard, CheckState
  <2>2. UniqueIds' /\ pc[t] = "start"
    BY <1>0, <1>3 DEF SetGuard, CheckState, UniqueIds, Admitted
  <2>3. SetInv(t)'
    BY <1>0, <2>1 DEF SetInv, TypeOK, Goto
  <2> QED
    BY <1>1, <1>2, <1>3, <2>1, <2>2, <2>3, SetFrame DEF SetGuard, CheckState, SetPcs, Finished
<1>4. CASE SetMode(t)
  <2>1. PICK l \in {"pend", "backend"} : Goto(t, l) /\ (l = "pend" => state = "idle")
    BY <1>4 DEF SetMode
  <2>2. UniqueIds' /\ pc[t] = "mode"
    BY <1>0, <1>4 DEF SetMode, UniqueIds
  <2>3. l = "pend" => slot = 0
    BY <1>1, <2>1, BesideSet DEF Inv, Invariants, SlotInv
  <2>4. SetInv(t)'
    BY <1>0, <1>4, <2>1, <2>3 DEF SetMode, SetInv, TypeOK, Goto
  <2> QED
    BY <1>1, <1>2, <1>4, <2>1, <2>2, <2>4, SetFrame DEF SetMode, SetPcs
<1>5. CASE SetPending(t)
  <2>1. UniqueIds' /\ pc[t] = "pend"
    BY <1>0, <1>5 DEF SetPending, UniqueIds
  <2>2. "done" \in SetPcs \cup Finished /\ "done" \notin Steps
    BY DEF Finished, Steps
  <2> QED
    BY <1>1, <1>2, <1>5, <2>1, <2>2, SetFrame DEF SetPending
<1>6. CASE CurrentBackend(t)
  <2>1. PICK l \in {"failed", "read"} : Goto(t, l) /\ (l = "read" => slot # 0)
    BY <1>6 DEF CurrentBackend
  <2>2. UniqueIds' /\ pc[t] = "backend"
    BY <1>0, <1>6 DEF CurrentBackend, UniqueIds
  <2>3. SetInv(t)'
    BY <1>0, <1>6, <2>1 DEF CurrentBackend, SetInv, TypeOK, Goto
  <2>4. \A u \in Tools \ {t} : mine'[u] = mine[u]
    BY <1>0, <1>6 DEF CurrentBackend, TypeOK
  <2> QED
    BY <1>1, <1>2, <1>6, <2>1, <2>2, <2>3, <2>4, SetFrame DEF CurrentBackend, SetPcs, Finished
<1>7. CASE SendFails(t)
  <2>1. UniqueIds' /\ pc[t] = "send"
    BY <1>0, <1>7 DEF SendFails, UniqueIds
  <2>2. "failed" \in SetPcs \cup Finished /\ "failed" \notin Steps
    BY DEF Finished, Steps
  <2> QED
    BY <1>1, <1>2, <1>7, <2>1, <2>2, SetFrame DEF SendFails
<1>8. CASE SetRead(t)
  <2>1. UniqueIds' /\ pc[t] = "read"
    BY <1>0, <1>8 DEF SetRead, UniqueIds
  <2>2. "send" \in SetPcs \cup Finished
    BY DEF SetPcs
  <2>3. SetInv(t)
    BY <1>0, <1>1, <2>1 DEF Steps
  <2>4. list'[t] = Append(active[g], k) /\ \A u \in Tools \ {t} : list'[u] = list[u]
    BY <1>0, <1>8 DEF SetRead, TypeOK
  <2>5. SetInv(t)'
    BY <1>0, <1>8, <2>1, <2>3, <2>4 DEF SetRead, SetInv, TypeOK, Goto
  <2> QED
    BY <1>1, <1>2, <1>8, <2>1, <2>2, <2>4, <2>5, SetFrame DEF SetRead
<1>9. CASE SetSend(t)
  <2>1. UniqueIds' /\ pc[t] = "send" /\ up
    BY <1>0, <1>9 DEF SetSend, UniqueIds, Answers
  <2>2. SetInv(t)
    BY <1>0, <1>1, <2>1 DEF Steps
  <2>3. slot # 0 /\ list[t] = Append(active[g], k)
    BY <2>1, <2>2 DEF SetInv
  <2>4. ToSet(list[t]) = ToSet(active[g]) \cup {k} /\ list[t] \in Seq(Keys)
    BY <1>0, <2>3, ToSetAppend
  <2>5. /\ LiveKeys(g)' = ToSet(list[t]) \ Declined(g)
        /\ \A h \in Groups : h # g => LiveKeys(h)' = LiveKeys(h)
    BY <1>0, <1>9, <2>4, ApplyKeys DEF SetSend
  <2>6. UNCHANGED <<conn, up, active>>
    BY <1>9 DEF SetSend, Apply
  <2>7. CASE Matched(t) \in Declined(g)
    <3>1. Goto(t, "failed")
      BY <1>9, <2>7 DEF SetSend
    <3>2. g = Fn /\ k \in Declined(g)
      BY <2>7 DEF Declined, Matched
    <3>3. LiveKeys(g)' = Tracked(g)'
      BY <1>9, <2>4, <2>5, <2>6, <3>2 DEF SetSend, Tracked, Declined
    <3>4. "failed" \in SetPcs \cup Finished /\ "failed" \notin Steps
      BY DEF Finished, Steps
    <3> QED
      BY <1>1, <1>9, <2>1, <2>5, <2>6, <3>1, <3>3, <3>4, SetFrame DEF SetSend
  <2>8. CASE Matched(t) \notin Declined(g)
    <3>1. Goto(t, "track")
      BY <1>9, <2>8 DEF SetSend
    <3>2. "track" \in SetPcs \cup Finished
      BY DEF SetPcs
    <3>3. pc'[t] = "track"
      BY <1>0, <3>1 DEF Goto, TypeOK
    <3>4. SetInv(t)'
      BY <1>9, <2>1, <2>2, <2>3, <2>5, <2>6, <3>3 DEF SetSend, SetInv, Declined
    <3> QED
      BY <1>1, <1>9, <2>1, <2>5, <2>6, <3>1, <3>2, <3>4, SetFrame DEF SetSend
  <2> QED
    BY <2>7, <2>8
<1>10. CASE SetTrack(t)
  <2>1. UniqueIds' /\ pc[t] = "track" /\ pc' = [pc EXCEPT ![t] = "record"]
    BY <1>0, <1>10 DEF SetTrack, UniqueIds, Goto
  <2>2. SetInv(t)
    BY <1>0, <1>1, <2>1 DEF Steps
  <2>3. "record" \in SetPcs \cup Finished
    BY DEF SetPcs
  <2>4. active'[g] = Append(active[g], k) /\ \A h \in Groups \ {g} : active'[h] = active[h]
    BY <1>0, <1>10 DEF SetTrack, Track
  <2>5. \A h \in Groups : LiveKeys(h)' = LiveKeys(h)
    BY <1>10, LiveUnchanged DEF SetTrack
  <2>6. up => LiveKeys(g)' = Tracked(g)'
    BY <1>0, <1>10, <2>1, <2>2, <2>4, <2>5 DEF SetTrack, SetInv, Tracked, Declined
  <2>7. slot # 0 /\ SetInv(t)'
    BY <1>0, <1>10, <2>1, <2>2 DEF SetInv, SetTrack, TypeOK
  <2> QED
    BY <1>1, <1>10, <2>1, <2>3, <2>4, <2>5, <2>6, <2>7, SetFrame DEF SetTrack
<1>11. CASE SetRecord(t)
  <2>1. UniqueIds' /\ pc[t] = "record"
    BY <1>0, <1>11 DEF SetRecord, AddResponse, UniqueIds
  <2>2. "done" \in SetPcs \cup Finished /\ "done" \notin Steps
    BY DEF Finished, Steps
  <2>3. slot # 0
    BY <1>0, <1>1, <2>1 DEF Steps, SetInv
  <2> QED
    BY <1>1, <1>2, <1>11, <2>1, <2>2, <2>3, SetFrame DEF SetRecord
<1> QED
  BY <1>3, <1>4, <1>5, <1>6, <1>7, <1>8, <1>9, <1>10, <1>11 DEF SetBreakpoint

-----------------------------------------------------------------------------
(* remove_breakpoint keeps the invariant *)

\* A call that is not a set call, and has not sent a list, starts from an agreeing session.
LEMMA AloneAgrees ==
    ASSUME Inv, Careful, NEW t \in Tools, Busy(t), req[t].kind # "set",
           InFlight(t) => req[t].kind = "remove"
    PROVE  /\ state = "idle" <=> slot = 0
           /\ pc[t] \notin {"connect", "undo"} => Blank
           /\ slot # 0 /\ up => \A g \in Groups : (pc[t] = "commit" => g # got[t].group)
                                                     => LiveKeys(g) = Tracked(g)
<1>1. \A u \in Tools \ {t} : ~ InFlight(u)
  BY BesideOther
<1>2. ~ Connecting
  BY <1>1 DEF Connecting, Lifecycles
<1>3. \A u \in Tools \ {t} : pc[u] \notin {"connect", "undo", "track", "commit"}
  BY <1>1 DEF InFlight, Steps
<1>4. pc[t] # "track"
  BY DEF Inv, Invariants, PcInv, InFlight, Steps, RemovePcs
<1>5. pc[t] = "commit" => req[t].kind = "remove"
  BY DEF InFlight, Steps
<1>6. \A g \in Groups : (pc[t] = "commit" => g # got[t].group) => ~ Sending(g)
  BY <1>3, <1>4, <1>5 DEF Sending, Sent
<1> QED
  BY <1>2, <1>3, <1>6 DEF Inv, Invariants, SlotInv, AgreeInv

\* Steps that leave the lists, the slot and the debugger alone.
LEMMA RemoveFrame ==
    ASSUME Inv, Careful, NEW t \in Tools, Busy(t), req[t].kind = "remove",
           NEW l \in RemovePcs \cup Finished, l # "commit", pc[t] # "commit", Goto(t, l),
           UNCHANGED <<state, active, responses, slot, req, spec, conn, up, live>>,
           l \in Steps => RemoveInv(t)'
    PROVE  Invariants'
<1>1. l \in Steps \cup Finished /\ (l \in Steps => l \in RemovePcs)
  BY DEF Steps, RemovePcs, Finished
<1>2. PcInv' /\ MutexInv'
  BY <1>1, PcStep DEF RemovePcs, Finished, Inv, Invariants, PcInv
<1>3. pc[t] \notin {"connect", "undo"}
  BY DEF Inv, Invariants, PcInv, InFlight, Steps, RemovePcs
<1>4. Blank' /\ (state' = "idle" <=> slot' = 0) /\ (slot' # 0 => slot' = conn')
  BY <1>3, AloneAgrees DEF Blank, Inv, Invariants, SlotInv
<1>5. slot' # 0 /\ up' => \A g \in Groups : LiveKeys(g)' = Tracked(g)'
  BY AloneAgrees, LiveUnchanged DEF Tracked, Declined
<1>6. UniqueIds'
  BY DEF Inv, Invariants, UniqueIds
<1> QED
  BY <1>1, <1>2, <1>4, <1>5, <1>6, AloneFrame

\* A step of the remove handler is one of a remove call in flight, or starts one.
LEMMA RemoveCall ==
    ASSUME Inv, NEW t \in Tools, RemoveBreakpoint(t)
    PROVE  req[t].kind = "remove" /\ Busy(t)
<1>1. pc[t] \in {"peek", "commit"} => req[t].kind = "remove"
  BY DEF Inv, Invariants, PcInv, InFlight, Steps, SetPcs, ConnectPcs, DisconnectPcs, TypeOK,
         Requests, ToolKinds
<1>2. req[t].kind = "remove"
  BY <1>1 DEF RemoveBreakpoint, RemoveGuard, CheckState, RemovePeek, RemoveRead, RemoveSend,
              RemoveCommit
<1> QED
  BY <1>2 DEF RemoveBreakpoint, RemoveGuard, CheckState, RemovePeek, RemoveRead, RemoveSend,
              RemoveCommit, CurrentBackend, SendFails, Busy, InFlight, Steps

\* A step of a remove request keeps the invariant.
LEMMA RemoveStep ==
    ASSUME Inv, Careful, NEW t \in Tools, RemoveBreakpoint(t)
    PROVE  Invariants'
<1> DEFINE g == got[t].group
<1>0. /\ TypeOK
      /\ g \in Groups /\ active \in [Groups -> Seq(Keys)]
      /\ UniqueIds
      /\ InFlight(t) /\ req[t].kind = "remove" => RemoveInv(t)
  BY DEF Inv, TypeOK, BpInfos, Invariants, HandlerInv
<1>1. req[t].kind = "remove" /\ Busy(t)
  BY RemoveCall
<1> USE DEF lists, debugger
<1>2. CASE RemoveGuard(t)
  <2>1. PICK l \in {"peek", "rejected"} : Goto(t, l) /\ (l = "peek" => state = "stopped")
    BY <1>2 DEF RemoveGuard, CheckState
  <2>2. pc[t] = "start"
    BY <1>2 DEF RemoveGuard, CheckState, Admitted
  <2>3. l = "peek" => slot # 0
    BY <1>1, <2>1, AloneAgrees
  <2>4. l \in RemovePcs \cup Finished /\ (l \in Steps => l = "peek")
    BY <2>1 DEF RemovePcs, Finished, Steps
  <2>5. l \in Steps => RemoveInv(t)'
    BY <1>0, <1>2, <2>1, <2>3, <2>4 DEF RemoveGuard, CheckState, RemoveInv, Goto, TypeOK
  <2> QED
    BY <1>1, <1>2, <2>1, <2>2, <2>4, <2>5, RemoveFrame DEF RemoveGuard, CheckState
<1>3. CASE RemovePeek(t)
  <2>1. pc[t] = "peek" /\ RemoveInv(t)
    BY <1>0, <1>1, <1>3 DEF RemovePeek, InFlight, Steps
  <2>2. CASE \E r \in responses : r.id = req[t].id
    <3>1. PICK r \in responses : r.id = req[t].id /\ got' = [got EXCEPT ![t] = r]
      BY <1>3, <2>2 DEF RemovePeek
    <3>2. Goto(t, "backend") /\ pc'[t] = "backend" /\ got'[t] = r
      BY <1>0, <1>3, <2>2, <3>1 DEF RemovePeek, Goto, TypeOK
    <3>3. RemoveInv(t)'
      BY <1>3, <2>1, <3>1, <3>2 DEF RemovePeek, RemoveInv
    <3>4. "backend" \in RemovePcs \cup Finished
      BY DEF RemovePcs
    <3> QED
      BY <1>1, <1>3, <2>1, <3>2, <3>3, <3>4, RemoveFrame DEF RemovePeek
  <2>3. CASE ~ \E r \in responses : r.id = req[t].id
    <3>1. Goto(t, "failed")
      BY <1>3, <2>3 DEF RemovePeek
    <3>2. "failed" \in RemovePcs \cup Finished /\ "failed" \notin Steps
      BY DEF Finished, Steps
    <3> QED
      BY <1>1, <1>3, <2>1, <3>1, <3>2, RemoveFrame DEF RemovePeek
  <2> QED
    BY <2>2, <2>3
<1>4. CASE CurrentBackend(t)
  <2>1. pc[t] = "backend" /\ RemoveInv(t)
    BY <1>0, <1>1, <1>4 DEF CurrentBackend, InFlight, Steps
  <2>2. PICK l \in {"failed", "read"} : Goto(t, l)
    BY <1>4 DEF CurrentBackend
  <2>3. mine'[t] = slot /\ pc'[t] = l
    BY <1>0, <1>4, <2>2 DEF CurrentBackend, Goto, TypeOK
  <2>4. l \in RemovePcs \cup Finished /\ RemoveInv(t)'
    BY <1>4, <2>1, <2>2, <2>3 DEF CurrentBackend, RemoveInv, RemovePcs, Finished
  <2> QED
    BY <1>1, <1>4, <2>1, <2>2, <2>4, RemoveFrame DEF CurrentBackend
<1>5. CASE SendFails(t)
  <2>1. "failed" \in RemovePcs \cup Finished /\ "failed" \notin Steps
    BY DEF Finished, Steps
  <2> QED
    BY <1>1, <1>5, <2>1, RemoveFrame DEF SendFails
<1>6. CASE RemoveRead(t)
  <2>1. pc[t] = "read" /\ RemoveInv(t)
    BY <1>0, <1>1, <1>6 DEF RemoveRead, InFlight, Steps
  <2>2. list'[t] = Without(active[g], got[t].key) /\ pc'[t] = "send"
    BY <1>0, <1>6 DEF RemoveRead, Goto, TypeOK
  <2>3. "send" \in RemovePcs \cup Finished /\ RemoveInv(t)'
    BY <1>6, <2>1, <2>2 DEF RemoveRead, RemoveInv, RemovePcs
  <2> QED
    BY <1>1, <1>6, <2>1, <2>3, RemoveFrame DEF RemoveRead
<1>7. CASE RemoveSend(t)
  <2>1. pc[t] = "send" /\ RemoveInv(t)
    BY <1>0, <1>1, <1>7 DEF RemoveSend, InFlight, Steps
  <2>2. pc'[t] = "commit" /\ "commit" \in Steps /\ "commit" \in RemovePcs
    BY <1>0, <1>7 DEF RemoveSend, Goto, TypeOK, Steps, RemovePcs
  <2>3. /\ LiveKeys(g)' = ToSet(list[t]) \ Declined(g)
        /\ \A h \in Groups : h # g => LiveKeys(h)' = LiveKeys(h)
    <3>1. list[t] \in Seq(Keys)
      BY <1>0 DEF TypeOK
    <3>2. UNCHANGED got
      BY <1>7 DEF RemoveSend
    <3> QED
      BY <1>0, <1>7, <3>1, <3>2, ApplyKeys DEF RemoveSend
  <2>4. UNCHANGED <<state, slot, active, responses, conn, up, req, got, spec, list, mine>>
    BY <1>7 DEF RemoveSend, Apply
  <2>5. RemoveInv(t)'
    BY <2>1, <2>2, <2>3, <2>4 DEF RemoveInv, Declined
  <2>6. PcInv' /\ MutexInv'
    BY <1>1, <1>7, <2>2, <2>4, PcStep DEF RemoveSend, RemovePcs, Inv, Invariants, PcInv
  <2>7. slot # 0 /\ slot = conn
    BY <2>1 DEF RemoveInv, Inv, Invariants, SlotInv
  <2>8. state # "idle" /\ Blank'
    BY <1>1, <2>4, <2>7, AloneAgrees DEF Blank
  <2>9. up => \A h \in Groups : h # g => LiveKeys(h)' = Tracked(h)'
    BY <1>1, <2>1, <2>3, <2>4, <2>7, AloneAgrees DEF Tracked, Declined
  <2>10. UniqueIds'
    BY <1>0, <2>4 DEF UniqueIds
  <2> QED
    BY <1>1, <1>7, <2>2, <2>4, <2>5, <2>6, <2>7, <2>8, <2>9, <2>10, AloneFrame DEF RemoveSend
<1>8. CASE RemoveCommit(t)
  <2>1. pc[t] = "commit" /\ RemoveInv(t)
    BY <1>0, <1>1, <1>8 DEF RemoveCommit, InFlight, Steps
  <2>2. got[t] \in responses /\ got[t].id = req[t].id /\ slot # 0
    BY <2>1 DEF RemoveInv
  <2>3. PICK r \in responses : r.id = req[t].id /\ RemoveById(r)
    BY <1>8, <2>2 DEF RemoveCommit
  <2>4. r = got[t]
    BY <1>0, <2>2, <2>3 DEF UniqueIds
  <2>5. Goto(t, "done")
    BY <1>8, <2>2 DEF RemoveCommit
  <2>6. "done" \in Steps \cup Finished /\ "done" \notin Steps
    BY DEF Finished, Steps
  <2>7. UNCHANGED <<state, slot, conn, up, req, spec, live>>
    BY <1>8 DEF RemoveCommit
  <2>8. active'[g] = list[t] /\ \A h \in Groups : h # g => active'[h] = active[h]
    BY <1>0, <2>1, <2>3, <2>4 DEF RemoveById, RemoveInv
  <2>9. PcInv' /\ MutexInv'
    BY <1>1, <2>5, <2>6, <2>7, PcStep DEF Finished, Inv, Invariants, PcInv
  <2>10. slot = conn /\ state # "idle" /\ Blank'
    BY <1>1, <2>2, <2>7, AloneAgrees DEF Blank, Inv, Invariants, SlotInv
  <2>11. up => \A h \in Groups : LiveKeys(h)' = Tracked(h)'
    <3> SUFFICES ASSUME up, NEW h \in Groups
                 PROVE  LiveKeys(h)' = Tracked(h)'
      OBVIOUS
    <3>1. LiveKeys(h)' = LiveKeys(h)
      BY <2>7, LiveUnchanged
    <3>2. CASE h = g
      <4>1. LiveKeys(h) = ToSet(list[t]) \ Declined(h)
        BY <2>1, <3>2 DEF RemoveInv
      <4> QED
        BY <2>8, <3>1, <3>2, <4>1 DEF Tracked, Declined
    <3>3. CASE h # g
      <4>1. LiveKeys(h) = Tracked(h)
        BY <1>1, <2>2, <3>3, AloneAgrees
      <4> QED
        BY <2>8, <3>1, <3>3, <4>1 DEF Tracked, Declined
    <3> QED
      BY <3>2, <3>3
  <2>12. UniqueIds'
    BY <1>0, <2>3 DEF RemoveById, UniqueIds
  <2> QED
    BY <1>1, <2>2, <2>5, <2>6, <2>7, <2>9, <2>10, <2>11, <2>12, AloneFrame
<1> QED
  BY <1>2, <1>3, <1>4, <1>5, <1>6, <1>7, <1>8 DEF RemoveBreakpoint

-----------------------------------------------------------------------------
(* launch, attach and disconnect keep the invariant *)

\* A step after which the call is still in flight.
LEMMA LifecycleFrame ==
    ASSUME Inv, Careful, NEW t \in Tools, Busy(t), req[t].kind \in Lifecycles,
           NEW l \in Steps, Goto(t, l), UNCHANGED req,
           req[t].kind \in {"launch", "attach"} => l \in ConnectPcs /\ ConnectInv(t)',
           req[t].kind = "disconnect" => l \in DisconnectPcs,
           l = "flush" => req[t].kind = "launch",
           (l \in {"configure", "flush"} \/ req[t].kind # "launch") => spec'[t] = Empty,
           \A u \in Tools \ {t} : spec'[u] = spec[u],
           slot' # 0 => slot' = conn',
           l \notin {"connect", "undo"} => Blank',
           UniqueIds'
    PROVE  Invariants'
<1>1. req[t].kind \notin {"set", "remove"}
  BY DEF Lifecycles
<1>2. PcInv' /\ MutexInv'
  BY <1>1, PcStep
<1> QED
  BY <1>1, <1>2, AloneFrame

\* A step of launch, attach and disconnect is one of such a call in flight, or starts one.
LEMMA LifecycleCall ==
    ASSUME Inv, NEW t \in Tools, Lifecycle(t)
    PROVE  /\ req[t].kind \in Lifecycles /\ Busy(t)
           /\ pc[t] \in ConnectPcs \ {"undo"} => req[t].kind \in {"launch", "attach"}
<1>1. pc[t] \in ConnectPcs \ {"undo"} => req[t].kind \in {"launch", "attach"}
  BY DEF Inv, Invariants, PcInv, InFlight, Steps, SetPcs, RemovePcs, ConnectPcs, DisconnectPcs,
         TypeOK, Requests, ToolKinds
<1>2. pc[t] \in {"ask", "undo"} => req[t].kind \in Lifecycles
  BY DEF Inv, Invariants, PcInv, InFlight, Steps, SetPcs, RemovePcs, ConnectPcs, DisconnectPcs,
         TypeOK, Requests, ToolKinds, Lifecycles
<1>3. \/ Admitted(t) /\ req[t].kind \in Lifecycles
      \/ pc[t] \in ConnectPcs \cup DisconnectPcs
  BY DEF Lifecycle, ConnectGuard, DisconnectGuard, CheckState, Configure, LaunchFlush, Connect,
         FlushGroup, HandshakeDone, ConnectFails, Settle, Undo, DisconnectAsk, ConnectPcs,
         DisconnectPcs, Lifecycles
<1> QED
  BY <1>1, <1>2, <1>3 DEF Busy, InFlight, Steps, ConnectPcs, DisconnectPcs, Lifecycles

\* A step of the session keeps the invariant.
LEMMA LifecycleStep ==
    ASSUME Inv, Careful, NEW t \in Tools, Lifecycle(t)
    PROVE  Invariants'
<1> DEFINE connects == req[t].kind \in {"launch", "attach"}
<1>0. /\ TypeOK
      /\ active \in [Groups -> Seq(Keys)] /\ pending \in [Groups -> Seq(Keys)]
      /\ UniqueIds
      /\ slot # 0 => slot = conn
      /\ InFlight(t) /\ connects => ConnectInv(t)
      /\ req[t].kind # "launch" \/ pc[t] \in {"start", "configure", "flush"} => spec[t] = Empty
  BY DEF Inv, TypeOK, Invariants, SlotInv, HandlerInv, PcInv
<1>1. /\ req[t].kind \in Lifecycles /\ Busy(t)
      /\ pc[t] \in ConnectPcs \ {"undo"} => connects
  BY LifecycleCall
<1>2. req[t].kind \notin {"set", "remove"}
  BY <1>1 DEF Lifecycles
<1>3. UNCHANGED <<responses>> => UniqueIds'
  BY <1>0 DEF UniqueIds
<1>4. \A l : Goto(t, l) => pc'[t] = l
  BY <1>0 DEF Goto, TypeOK
<1> USE DEF lists, debugger
<1>5. ASSUME Admitted(t), Goto(t, "rejected"), UNCHANGED <<state, lists, slot, req, spec, debugger>>
      PROVE  Invariants'
  <2>1. "rejected" \in Steps \cup Finished /\ "rejected" \notin Steps /\ ~ InFlight(t)
    BY <1>5 DEF Finished, Steps, Admitted, InFlight
  <2>2. PcInv' /\ MutexInv'
    BY <1>0, <1>1, <1>5, <2>1, PcStep DEF Admitted
  <2>3. \A h \in Groups : LiveKeys(h)' = LiveKeys(h) /\ Tracked(h)' = Tracked(h)
    BY <1>5, LiveUnchanged DEF Tracked, Declined
  <2>4. /\ state' = "idle" <=> slot' = 0
        /\ slot' # 0 => slot' = conn'
        /\ Blank'
        /\ slot' # 0 /\ up' => \A h \in Groups : LiveKeys(h)' = Tracked(h)'
    BY <1>0, <1>1, <1>2, <1>5, <2>1, <2>3, AloneAgrees DEF Admitted, Blank
  <2> QED
    BY <1>1, <1>2, <1>3, <1>5, <2>1, <2>2, <2>4, AloneFrame
<1>6. CASE ConnectGuard(t)
  <2>1. Admitted(t) /\ pc[t] = "start" /\ connects
    BY <1>6 DEF ConnectGuard, CheckState, Admitted
  <2>2. CASE state = "idle"
    <3>1. Goto(t, "configure") /\ "configure" \in Steps /\ "configure" \in ConnectPcs
      BY <1>6, <2>2 DEF ConnectGuard, CheckState, Steps, ConnectPcs
    <3>2. slot = 0 /\ active = Empty /\ responses = {}
      BY <1>1, <1>2, <2>1, <2>2, AloneAgrees DEF Blank, InFlight, Steps
    <3>3. ConnectInv(t)' /\ Blank'
      BY <1>4, <1>6, <3>1, <3>2 DEF ConnectGuard, CheckState, ConnectInv, Blank, Empty
    <3> QED
      BY <1>0, <1>1, <1>3, <1>6, <2>1, <3>1, <3>2, <3>3, LifecycleFrame DEF ConnectGuard, CheckState
  <2>3. CASE state # "idle"
    BY <1>5, <1>6, <2>1, <2>3 DEF ConnectGuard, CheckState
  <2> QED
    BY <2>2, <2>3
<1>7. CASE Configure(t)
  <2>1. pc[t] = "configure" /\ connects /\ ConnectInv(t)
    BY <1>0, <1>1, <1>7 DEF Configure, ConnectPcs, InFlight, Steps
  <2>2. slot = 0 /\ active = Empty /\ responses = {} /\ spec[t] = Empty
    BY <1>0, <2>1 DEF ConnectInv
  <2>3. UNCHANGED <<slot, active, responses, spec, req, conn>>
    BY <1>7 DEF Configure
  <2>4. PICK l \in {"flush", "connect"} : Goto(t, l) /\ (l = "flush" => req[t].kind = "launch")
    BY <1>7 DEF Configure
  <2>5. ConnectInv(t)' /\ Blank' /\ l \in ConnectPcs /\ l \in Steps
    BY <1>4, <2>2, <2>3, <2>4 DEF ConnectInv, Blank, Empty, ConnectPcs, Steps
  <2> QED
    BY <1>1, <1>3, <2>1, <2>2, <2>3, <2>4, <2>5, LifecycleFrame
<1>8. CASE LaunchFlush(t)
  <2>1. pc[t] = "flush" /\ connects /\ ConnectInv(t) /\ req[t].kind = "launch"
    BY <1>0, <1>1, <1>8 DEF LaunchFlush, ConnectPcs, InFlight, Steps, Inv, Invariants, PcInv
  <2>2. slot = 0 /\ active = Empty /\ responses = {}
    BY <2>1 DEF ConnectInv
  <2>3. active' = pending
    <3>1. \A g \in Groups : active[g] \o pending[g] = pending[g]
      BY <1>0, <2>2, ConcatEmptySeq DEF Empty
    <3> QED
      BY <1>0, <1>8, <3>1 DEF LaunchFlush, Flush
  <2>4. spec'[t] = pending /\ \A u \in Tools \ {t} : spec'[u] = spec[u]
    BY <1>0, <1>8 DEF LaunchFlush, TypeOK
  <2>5. Goto(t, "connect") /\ UNCHANGED <<slot, conn, req, responses>>
    BY <1>8 DEF LaunchFlush, Flush
  <2>6. ConnectInv(t)' /\ "connect" \in ConnectPcs /\ "connect" \in Steps
    BY <1>4, <2>2, <2>3, <2>4, <2>5 DEF ConnectInv, ConnectPcs, Steps
  <2> QED
    BY <1>0, <1>1, <1>3, <2>1, <2>4, <2>5, <2>6, LifecycleFrame
<1>9. CASE Connect(t)
  <2>1. pc[t] = "connect" /\ connects /\ ConnectInv(t)
    BY <1>0, <1>1, <1>9 DEF Connect, ConnectPcs, InFlight, Steps
  <2>2. responses = {} /\ active = spec[t]
    BY <2>1 DEF ConnectInv
  <2>3. /\ slot' = conn' /\ slot' # 0 /\ mine'[t] = slot' /\ live' = {}
        /\ Goto(t, "handshake") /\ pc'[t] = "handshake"
        /\ UNCHANGED <<active, spec, req, responses>>
    BY <1>0, <1>4, <1>9 DEF Connect, TypeOK
  <2>4. \A g \in Groups : LiveKeys(g)' = {} /\ (active[g] = <<>> => Tracked(g)' = {})
    BY <2>3 DEF LiveKeys, Tracked, ToSet
  <2>5. ConnectInv(t)'
    BY <2>2, <2>3, <2>4 DEF ConnectInv
  <2>6. "handshake" \in ConnectPcs /\ "handshake" \in Steps /\ Blank'
    BY <2>3 DEF ConnectPcs, Steps, Blank
  <2> QED
    BY <1>0, <1>1, <1>3, <2>1, <2>3, <2>5, <2>6, LifecycleFrame
<1>10. CASE FlushGroup(t)
  <2>1. pc[t] = "handshake" /\ connects /\ ConnectInv(t)
    BY <1>0, <1>1, <1>10 DEF FlushGroup, ConnectPcs, InFlight, Steps
  <2>2. PICK g \in Groups : /\ spec[t][g] # <<>>
                            /\ Apply(g, spec[t][g])
                            /\ spec' = [spec EXCEPT ![t][g] = <<>>]
    BY <1>10 DEF FlushGroup
  <2>3. slot # 0 /\ mine[t] = slot /\ spec[t][g] = active[g]
    BY <2>1, <2>2 DEF ConnectInv
  <2>4. /\ LiveKeys(g)' = Tracked(g)
        /\ \A h \in Groups : h # g => LiveKeys(h)' = LiveKeys(h)
    BY <1>0, <2>2, <2>3, ApplyKeys DEF Tracked
  <2>5. /\ spec'[t][g] = <<>>
        /\ \A h \in Groups : h # g => spec'[t][h] = spec[t][h]
        /\ \A u \in Tools \ {t} : spec'[u] = spec[u]
    BY <1>0, <2>2 DEF TypeOK
  <2>6. UNCHANGED <<slot, conn, up, active, responses, req, pc, mine>> /\ Goto(t, "handshake")
    BY <1>0, <1>10, <2>1, <2>2 DEF FlushGroup, Apply, Goto, TypeOK
  <2>7. \A h \in Groups : Tracked(h)' = Tracked(h)
    BY <2>6 DEF Tracked, Declined
  <2>8. ConnectInv(t)'
    <3>1. \A h \in Groups : spec'[t][h] # <<>> => spec'[t][h] = active'[h]
      BY <2>1, <2>5, <2>6 DEF ConnectInv
    <3>2. ASSUME up', NEW h \in Groups
          PROVE  LiveKeys(h)' = IF spec'[t][h] = <<>> THEN Tracked(h)' ELSE {}
      <4>1. CASE h = g
        BY <2>4, <2>5, <2>7, <4>1
      <4>2. CASE h # g
        BY <2>1, <2>4, <2>5, <2>6, <2>7, <3>2, <4>2 DEF ConnectInv
      <4> QED
        BY <4>1, <4>2
    <3> QED
      BY <2>1, <2>3, <2>6, <3>1, <3>2 DEF ConnectInv
  <2>9. "handshake" \in ConnectPcs /\ "handshake" \in Steps /\ Blank'
    BY <2>3, <2>6 DEF ConnectPcs, Steps, Blank
  <2>10. req[t].kind = "launch"
    BY <1>0, <2>2 DEF Empty
  <2> QED
    BY <1>0, <1>1, <1>3, <2>1, <2>5, <2>6, <2>8, <2>9, <2>10, LifecycleFrame
<1>11. CASE HandshakeDone(t)
  <2>1. pc[t] = "handshake" /\ connects /\ ConnectInv(t)
    BY <1>0, <1>1, <1>11 DEF HandshakeDone, ConnectPcs, InFlight, Steps
  <2>2. slot # 0 /\ (up => \A g \in Groups : LiveKeys(g) = Tracked(g))
    BY <1>11, <2>1 DEF HandshakeDone, ConnectInv, Empty
  <2>3. UNCHANGED <<slot, conn, up, active, responses, req, spec, live>> /\ Goto(t, "settle")
    BY <1>11 DEF HandshakeDone
  <2>4. \A g \in Groups : LiveKeys(g)' = LiveKeys(g) /\ Tracked(g)' = Tracked(g)
    BY <2>3, LiveUnchanged DEF Tracked, Declined
  <2>5. ConnectInv(t)'
    BY <1>4, <2>2, <2>3, <2>4 DEF ConnectInv
  <2>6. "settle" \in ConnectPcs /\ "settle" \in Steps /\ Blank'
    BY <2>2, <2>3 DEF ConnectPcs, Steps, Blank
  <2> QED
    BY <1>0, <1>1, <1>3, <2>1, <2>3, <2>5, <2>6, LifecycleFrame
<1>12. CASE ConnectFails(t)
  <2>1. pc[t] \in {"connect", "handshake"} /\ connects
    BY <1>1, <1>12 DEF ConnectFails, ConnectPcs
  <2>2. UNCHANGED <<slot, conn, responses, req, spec>> /\ Goto(t, "undo")
    BY <1>12 DEF ConnectFails
  <2>3. ConnectInv(t)' /\ "undo" \in ConnectPcs /\ "undo" \in Steps
    BY <1>4, <2>2 DEF ConnectInv, ConnectPcs, Steps
  <2> QED
    BY <1>0, <1>1, <1>3, <2>1, <2>2, <2>3, LifecycleFrame
<1>13. CASE Settle(t)
  <2>1. pc[t] = "settle" /\ connects /\ ConnectInv(t)
    BY <1>0, <1>1, <1>13 DEF Settle, ConnectPcs, InFlight, Steps
  <2>2. UNCHANGED <<slot, conn, up, active, responses, req, spec, live>> /\ Goto(t, "done")
    BY <1>13 DEF Settle
  <2>3. slot # 0 /\ (up => \A g \in Groups : LiveKeys(g) = Tracked(g))
    BY <2>1 DEF ConnectInv
  <2>4. \A g \in Groups : LiveKeys(g)' = LiveKeys(g) /\ Tracked(g)' = Tracked(g)
    BY <2>2, LiveUnchanged DEF Tracked, Declined
  <2>5. state' # "idle" /\ Blank'
    BY <1>13, <2>2, <2>3 DEF Settle, Blank
  <2>6. "done" \in Steps \cup Finished /\ "done" \notin Steps
    BY DEF Finished, Steps
  <2>7. PcInv' /\ MutexInv'
    BY <1>0, <1>1, <2>2, <2>6, PcStep
  <2> QED
    BY <1>0, <1>1, <1>2, <1>3, <2>2, <2>3, <2>4, <2>5, <2>6, <2>7, AloneFrame
<1>14. CASE Undo(t)
  <2>1. PICK l \in {"done", "failed"} : Goto(t, l)
    BY <1>14 DEF Undo
  <2>2. slot' = 0 /\ state' = "idle" /\ Blank' /\ UniqueIds' /\ UNCHANGED <<req, spec>>
    BY <1>14 DEF Undo, ResetLists, Blank, UniqueIds, Empty
  <2>3. l \in Steps \cup Finished /\ l \notin Steps /\ l \notin {"configure", "flush", "commit"}
    BY <2>1 DEF Finished, Steps
  <2>4. PcInv' /\ MutexInv'
    BY <1>0, <1>1, <2>1, <2>2, <2>3, PcStep
  <2> QED
    BY <1>1, <1>2, <2>1, <2>2, <2>3, <2>4, AloneFrame
<1>15. CASE DisconnectGuard(t)
  <2>1. Admitted(t) /\ pc[t] = "start" /\ req[t].kind = "disconnect"
    BY <1>15 DEF DisconnectGuard, CheckState, Admitted
  <2>2. CASE Goto(t, "rejected")
    BY <1>5, <1>15, <2>1, <2>2 DEF DisconnectGuard, CheckState
  <2>3. CASE Goto(t, "ask")
    <3>1. Blank' /\ "ask" \in Steps /\ "ask" \in DisconnectPcs
      BY <1>1, <1>2, <1>15, <2>1, AloneAgrees
         DEF DisconnectGuard, CheckState, Blank, InFlight, Steps, DisconnectPcs
    <3> QED
      BY <1>0, <1>1, <1>3, <1>15, <2>1, <2>3, <3>1, LifecycleFrame DEF DisconnectGuard, CheckState
  <2> QED
    BY <1>15, <2>2, <2>3 DEF DisconnectGuard, CheckState
<1>16. CASE DisconnectAsk(t)
  <2>1. req[t].kind = "disconnect"
    BY <1>1, <1>16
       DEF DisconnectAsk, Inv, Invariants, PcInv, InFlight, Steps, ConnectPcs, Lifecycles
  <2>2. "undo" \in Steps /\ "undo" \in DisconnectPcs
    BY DEF Steps, DisconnectPcs
  <2>3. UNCHANGED <<slot, conn, responses, req, spec>> /\ Goto(t, "undo")
    BY <1>16 DEF DisconnectAsk
  <2> QED
    BY <1>0, <1>1, <1>3, <2>1, <2>2, <2>3, LifecycleFrame
<1> QED
  BY <1>6, <1>7, <1>8, <1>9, <1>10, <1>11, <1>12, <1>13, <1>14, <1>15, <1>16 DEF Lifecycle

-----------------------------------------------------------------------------
(* The debugger and the rest of the system *)

\* A step that leaves the calls and the lists alone.
LEMMA OutsideFrame ==
    ASSUME Inv, UNCHANGED <<active, responses, slot, tool, conn, live>>,
           up' => up,
           UNCHANGED state \/ (slot # 0 /\ state' # "idle")
    PROVE  Invariants'
<1> USE DEF tool
<1>1. PcInv' /\ MutexInv' /\ UniqueIds'
  BY DEF Inv, Invariants, PcInv, MutexInv, UniqueIds, InFlight
<1>2. \A t \in Tools : InFlight(t)' <=> InFlight(t)
  BY DEF InFlight
<1>3. \A g \in Groups : LiveKeys(g)' = LiveKeys(g) /\ Tracked(g)' = Tracked(g)
  BY LiveUnchanged DEF Tracked, Declined
<1>4. Connecting' <=> Connecting
  BY <1>2 DEF Connecting
<1>5. SlotInv'
  BY <1>4 DEF Inv, Invariants, SlotInv, Blank
<1>6. \A g \in Groups : Sending(g)' <=> Sending(g)
  BY DEF Sending, Sent
<1>7. AgreeInv'
  BY <1>3, <1>4, <1>6 DEF Inv, Invariants, AgreeInv
<1>8. HandlerInv'
  <2> SUFFICES ASSUME NEW t \in Tools, InFlight(t)'
               PROVE  HandlerInv!(t)!2'
    BY DEF HandlerInv
  <2>0. req[t].group \in Groups /\ got[t].group \in Groups
    BY DEF Inv, TypeOK, Requests, BpInfos
  <2>1. HandlerInv!(t)!2
    BY <1>2 DEF Inv, Invariants, HandlerInv
  <2>2. SetInv(t) => SetInv(t)'
    BY <1>3, <2>0 DEF SetInv, Declined
  <2>3. RemoveInv(t) => RemoveInv(t)'
    BY <1>3, <2>0 DEF RemoveInv, Declined
  <2>4. ConnectInv(t) => ConnectInv(t)'
    BY <1>3 DEF ConnectInv
  <2> QED
    BY <2>1, <2>2, <2>3, <2>4
<1> QED
  BY <1>1, <1>5, <1>7, <1>8 DEF Invariants

\* The invariant holds at the start.
LEMMA InvInit == Init => Inv
<1> SUFFICES ASSUME Init
             PROVE  Inv
  OBVIOUS
<1>1. \A t \in Tools : pc[t] = "start" /\ ~ InFlight(t) /\ spec[t] = Empty
  BY DEF Init, InFlight, Steps
<1>2. PcInv /\ MutexInv /\ HandlerInv /\ UniqueIds
  BY <1>1 DEF Init, PcInv, MutexInv, HandlerInv, UniqueIds
<1>3. SlotInv /\ AgreeInv
  BY DEF Init, SlotInv, AgreeInv, Blank
<1> QED
  BY <1>2, <1>3, InitType DEF Inv, Invariants

\* Every step of a careful client keeps it.
LEMMA InvNext == Careful => (Inv /\ [Next]_vars => Inv')
<1> SUFFICES ASSUME Careful, Inv, [Next]_vars
             PROVE  Inv'
  OBVIOUS
<1>1. TypeOK'
  BY NextType DEF Inv
<1>2. CASE \E t \in Tools : SetBreakpoint(t) \/ RemoveBreakpoint(t) \/ Lifecycle(t)
  BY <1>1, <1>2, SetStep, RemoveStep, LifecycleStep DEF Inv
<1>3. CASE DebuggerDies
  <2>1. UNCHANGED <<state, active, responses, slot, tool, conn, live>> /\ ~ up'
    BY <1>3 DEF DebuggerDies, lists
  <2> QED
    BY <1>1, <2>1, OutsideFrame DEF Inv
<1>4. CASE Runs
  <2>1. UNCHANGED <<active, responses, slot, tool, conn, live, up>> /\ slot # 0 /\ state' # "idle"
    BY <1>4 DEF Runs, lists, debugger
  <2> QED
    BY <1>1, <2>1, OutsideFrame DEF Inv
<1>5. CASE UNCHANGED vars
  <2>1. UNCHANGED <<state, active, responses, slot, tool, conn, live, up>>
    BY <1>5 DEF vars, lists, debugger
  <2> QED
    BY <1>1, <2>1, OutsideFrame DEF Inv
<1> QED
  BY <1>2, <1>3, <1>4, <1>5 DEF Next

\* Nobody is in flight: the invariant is the property.
LEMMA InvImplies == Inv => DebuggerHasTracked
<1> SUFFICES ASSUME Inv, Quiet
             PROVE  /\ slot # 0 /\ up => \A g \in Groups : LiveKeys(g) = Tracked(g)
                    /\ Blank
  BY DEF DebuggerHasTracked, Tracked, Blank
<1>1. \A t \in Tools : ~ InFlight(t) /\ pc[t] \notin {"connect", "undo", "track", "commit"}
  BY DEF Quiet, InFlight, Steps
<1>2. ~ Connecting /\ \A g \in Groups : ~ Sending(g)
  BY <1>1 DEF Connecting, Sending
<1> QED
  BY <1>1, <1>2 DEF Inv, Invariants, SlotInv, AgreeInv

-----------------------------------------------------------------------------
(* What is listed is live *)

\* The debugger puts every line where it was asked to.
LinesStay == \A k \in Keys : reloc[k] = k

\* It has one breakpoint for a key.
KeyUnique == \A a, b \in live : a.group = b.group /\ a.key = b.key => a = b

\* What is listed is live, but for the breakpoint a remove call has taken from the debugger and
\* not yet from the list; the answer a set call has picked stays live until it is listed; and
\* nothing is listed before a launch or attach is over.
ListInv ==
    /\ KeyUnique
    /\ slot # 0 /\ up /\ LinesStay =>
          \A r \in responses : r \in live \/ \E t \in Tools : pc[t] = "commit" /\ got[t] = r
    /\ \A t \in Tools : pc[t] \in {"track", "record"} =>
          /\ got[t].group = req[t].group
          /\ up /\ LinesStay => got[t] \in live
    /\ \A t \in Tools : pc[t] \in {"handshake", "settle"} => responses = {}

\* Removing an entry of a list leaves the other keys in it.
LEMMA WithoutKeeps ==
    ASSUME NEW s \in Seq(Keys), NEW k, NEW other \in ToSet(s), other # k
    PROVE  other \in ToSet(Without(s, k))
<1>1. CASE ~ \E i \in 1..Len(s) : s[i] = k
  BY <1>1 DEF Without, RemoveFirst
<1>2. CASE \E i \in 1..Len(s) : s[i] = k
  <2> DEFINE I == {i \in 1..Len(s) : s[i] = k}
             m == CHOOSE i \in I : \A j \in I : i <= j
             before == SubSeq(s, 1, m - 1)
             after == SubSeq(s, m + 1, Len(s))
  <2>1. Len(s) \in Nat /\ DOMAIN s = 1..Len(s)
    BY LenProperties
  <2>2. m \in I
    <3>1. I # {} /\ I \subseteq Nat
      BY <1>2, <2>1
    <3>2. \E i \in I : \A j \in I : i <= j
      BY <3>1, FirstPosition
    <3> QED
      BY <3>2, Zenon
  <2>3. SelectInSeq(s, LAMBDA v : v = k) = m
    BY <2>2 DEF SelectInSeq, Min
  <2>4. Without(s, k) = before \o after
    BY <1>2, <2>3 DEF Without, RemoveFirst, RemoveAt
  <2>5. m \in 1..Len(s) /\ s[m] = k
    BY <2>2
  <2> HIDE DEF m
  <2>6. PICK i \in 1..Len(s) : s[i] = other
    BY <2>1 DEF ToSet
  <2>7. i # m
    BY <2>5, <2>6
  <2>8. /\ before \in Seq(Keys) /\ Len(before) = m - 1
        /\ \A j \in 1..(m - 1) : before[j] = s[j]
    <3>1. \A j \in 1..(m - 1) : j \in 1..Len(s) /\ s[j] \in Keys
      BY <2>1, <2>5, ElementOfSeq
    <3> QED
      BY <2>1, <2>5, <3>1, SubSeqProperties
  <2>9. /\ after \in Seq(Keys) /\ Len(after) = Len(s) - m
        /\ \A j \in 1..(Len(s) - m) : after[j] = s[m + j]
    <3>1. \A j \in (m + 1)..Len(s) : s[j] \in Keys
      BY <2>1, <2>5, ElementOfSeq
    <3>2. m + 1 \in Int /\ Len(s) \in Int
      BY <2>1, <2>5
    <3>3. /\ after \in Seq(Keys)
          /\ Len(after) = IF m + 1 <= Len(s) THEN Len(s) - (m + 1) + 1 ELSE 0
          /\ \A j \in 1..(Len(s) - (m + 1) + 1) : after[j] = s[(m + 1) + j - 1]
      BY <3>1, <3>2, SubSeqProperties
    <3> HIDE DEF after
    <3>4. Len(after) = Len(s) - m
      <4>1. m \in Nat /\ Len(s) \in Nat /\ m <= Len(s)
        BY <2>1, <2>5
      <4>2. CASE m + 1 <= Len(s)
        <5>1. Len(after) = Len(s) - (m + 1) + 1
          BY <3>3, <4>2, Zenon
        <5> QED
          BY <4>1, <5>1
      <4>3. CASE ~ (m + 1 <= Len(s))
        <5>1. Len(after) = 0
          BY <3>3, <4>3, Zenon
        <5> QED
          BY <4>1, <4>3, <5>1
      <4> QED
        BY <4>2, <4>3
    <3>5. ASSUME NEW j \in 1..(Len(s) - m)
          PROVE  after[j] = s[m + j]
      <4>1. j \in 1..(Len(s) - (m + 1) + 1) /\ (m + 1) + j - 1 = m + j
        BY <2>1, <2>5
      <4>2. after[j] = s[(m + 1) + j - 1]
        BY <3>3, <4>1
      <4> QED
        BY <4>1, <4>2
    <3> QED
      BY <3>3, <3>4, <3>5
  <2>10. /\ Len(before \o after) = Len(s) - 1
         /\ DOMAIN (before \o after) = 1..(Len(s) - 1)
         /\ \A j \in 1..(m - 1) : (before \o after)[j] = s[j]
         /\ \A j \in m..(Len(s) - 1) : (before \o after)[j] = s[j + 1]
    <3> HIDE DEF before, after
    <3>1. /\ before \o after \in Seq(Keys)
          /\ Len(before \o after) = Len(before) + Len(after)
          /\ \A j \in 1..(Len(before) + Len(after)) :
                (before \o after)[j] = IF j <= Len(before) THEN before[j]
                                                           ELSE after[j - Len(before)]
      BY <2>8, <2>9, ConcatProperties
    <3>2. \A j \in m..(Len(s) - 1) : j - (m - 1) \in 1..(Len(s) - m) /\ m + (j - (m - 1)) = j + 1
      BY <2>1, <2>5
    <3>3. DOMAIN (before \o after) = 1..Len(before \o after)
      BY <3>1, LenProperties
    <3> QED
      BY <2>1, <2>5, <2>8, <2>9, <3>1, <3>2, <3>3
  <2>11. other = (before \o after)[IF i < m THEN i ELSE i - 1]
    <3> HIDE DEF before, after
    <3>1. CASE i < m
      <4>1. i \in 1..(m - 1)
        BY <2>1, <2>5, <3>1
      <4> QED
        BY <2>6, <2>10, <3>1, <4>1
    <3>2. CASE ~ (i < m)
      <4>1. i - 1 \in m..(Len(s) - 1) /\ (i - 1) + 1 = i
        BY <2>1, <2>5, <2>7, <3>2
      <4> QED
        BY <2>6, <2>10, <3>2, <4>1
    <3> QED
      BY <3>1, <3>2
  <2>12. (IF i < m THEN i ELSE i - 1) \in 1..(Len(s) - 1)
    BY <2>1, <2>5, <2>6, <2>7
  <2> HIDE DEF before, after
  <2> QED
    BY <2>4, <2>10, <2>11, <2>12 DEF ToSet
<1> QED
  BY <1>1, <1>2

\* A set request keeps the breakpoints of the other groups and those that are listed, and
\* a key has one breakpoint.
LEMMA ApplyKeeps ==
    ASSUME KeyUnique, NEW g, NEW keys, Apply(g, keys)
    PROVE  /\ KeyUnique'
           /\ \A b \in live : b.group # g \/ b.key \in ToSet(keys) \ Declined(g) => b \in live'
<1> DEFINE wanted == ToSet(keys) \ Declined(g)
           kept == {b \in live : b.group = g /\ b.key \in wanted}
           new == wanted \ {b.key : b \in kept}
           first(k) == CHOOSE i \in DOMAIN keys : keys[i] = k
           fresh == {[id |-> nextId + first(k) - 1, group |-> g, key |-> k] : k \in new}
           others == {b \in live : b.group # g}
<1>1. live' = others \cup kept \cup fresh
  BY Zenon DEF Apply, Replaced
<1>2. \A b \in fresh : /\ b.group = g /\ b.key \in new
                       /\ b = [id |-> nextId + first(b.key) - 1, group |-> g, key |-> b.key]
  <2> HIDE DEF first, new
  <2> QED
    BY SMT
<1>3. \A a, b \in fresh : a.key = b.key => a = b
  <2> HIDE DEF fresh, first, new
  <2> TAKE a, b \in fresh
  <2> HAVE a.key = b.key
  <2>1. /\ a = [id |-> nextId + first(a.key) - 1, group |-> g, key |-> a.key]
        /\ b = [id |-> nextId + first(b.key) - 1, group |-> g, key |-> b.key]
    BY <1>2
  <2> QED
    BY <2>1
<1>4. \A a \in kept, b \in fresh : a.key # b.key
  <2> HIDE DEF fresh, wanted
  <2> QED
    BY <1>2
<1> HIDE DEF fresh, wanted
<1> QED
  BY <1>1, <1>2, <1>3, <1>4 DEF KeyUnique, wanted

\* A step that leaves what the debugger has and what is listed alone.
LEMMA ListCalm ==
    ASSUME TypeOK, ListInv, UNCHANGED <<live, responses, slot, reloc, req>>, up' => up,
           NEW t \in Tools, NEW l, Goto(t, l),
           pc[t] # "commit", l # "commit", got'[t] = got[t] \/ l \notin {"track", "record"},
           \A u \in Tools \ {t} : got'[u] = got[u],
           l \in {"track", "record"} => pc[t] \in {"track", "record"},
           l \in {"handshake", "settle"} => pc[t] \in {"handshake", "settle"}
    PROVE  ListInv'
<1>1. /\ pc'[t] = l
      /\ \A u \in Tools \ {t} : pc'[u] = pc[u]
  BY DEF TypeOK, Goto
<1>2. KeyUnique' /\ (LinesStay' <=> LinesStay)
  BY DEF ListInv, KeyUnique, LinesStay
<1>3. (slot # 0 /\ up /\ LinesStay =>
          \A r \in responses : r \in live \/ \E u \in Tools : pc[u] = "commit" /\ got[u] = r)'
  BY <1>1, <1>2 DEF ListInv
<1>4. \A u \in Tools : (pc[u] \in {"track", "record"} =>
          /\ got[u].group = req[u].group
          /\ up /\ LinesStay => got[u] \in live)'
  BY <1>1, <1>2 DEF ListInv
<1>5. \A u \in Tools : (pc[u] \in {"handshake", "settle"} => responses = {})'
  BY <1>1 DEF ListInv
<1> QED
  BY <1>2, <1>3, <1>4, <1>5 DEF ListInv

\* The set handlers.
LEMMA SetList ==
    ASSUME Inv, Careful, ListInv, NEW t \in Tools, SetBreakpoint(t), TypeOK'
    PROVE  ListInv'
<1> DEFINE g == req[t].group
<1> USE DEF lists, debugger
<1>0. /\ TypeOK /\ g \in Groups /\ req[t].kind = "set" /\ Busy(t)
      /\ InFlight(t) => SetInv(t)
      /\ \A l : Goto(t, l) => pc'[t] = l /\ \A u \in Tools \ {t} : pc'[u] = pc[u]
  BY SetCall DEF Inv, TypeOK, Requests, Invariants, HandlerInv, Goto
<1>1. /\ ~ Connecting /\ \A u \in Tools : pc[u] # "commit"
      /\ \A u \in Tools \ {t} : InFlight(u) => req[u].kind = "set" /\ req[u].group # g
      /\ \A u \in Tools : pc[u] \notin {"handshake", "settle"}
  <2>1. \A u \in Tools : pc[u] \in {"handshake", "settle"} => Connecting
    BY DEF Inv, Invariants, PcInv, Connecting, Lifecycles, InFlight, Steps, SetPcs, RemovePcs,
           DisconnectPcs, TypeOK, Requests, ToolKinds
  <2> QED
    BY <1>0, <2>1, BesideSet
<1>2. CASE SetGuard(t)
  <2>1. PICK l \in {"mode", "rejected"} : Goto(t, l)
    BY <1>2 DEF SetGuard, CheckState
  <2> QED
    BY <1>0, <1>1, <1>2, <2>1, ListCalm DEF SetGuard, CheckState
<1>3. CASE SetMode(t)
  <2>1. PICK l \in {"pend", "backend"} : Goto(t, l)
    BY <1>3 DEF SetMode
  <2> QED
    BY <1>0, <1>1, <1>3, <2>1, ListCalm DEF SetMode
<1>4. CASE SetPending(t)
  BY <1>0, <1>1, <1>4, ListCalm DEF SetPending
<1>5. CASE CurrentBackend(t)
  <2>1. PICK l \in {"failed", "read"} : Goto(t, l)
    BY <1>5 DEF CurrentBackend
  <2> QED
    BY <1>0, <1>1, <1>5, <2>1, ListCalm DEF CurrentBackend
<1>6. CASE SendFails(t)
  BY <1>0, <1>1, <1>6, ListCalm DEF SendFails
<1>7. CASE SetRead(t)
  BY <1>0, <1>1, <1>7, ListCalm DEF SetRead
<1>8. CASE SetTrack(t)
  BY <1>0, <1>1, <1>8, ListCalm DEF SetTrack
<1>9. CASE SetRecord(t)
  <2>1. /\ Goto(t, "done") /\ pc[t] = "record"
        /\ responses' = {x \in responses : x.id # got[t].id} \cup {got[t]}
        /\ UNCHANGED <<live, slot, reloc, req, up, got>>
    BY <1>9 DEF SetRecord, AddResponse
  <2>2. KeyUnique' /\ (LinesStay' <=> LinesStay)
    BY <2>1 DEF ListInv, KeyUnique, LinesStay
  <2>3. (slot # 0 /\ up /\ LinesStay => responses \subseteq live)'
    BY <1>1, <2>1, <2>2 DEF ListInv
  <2> QED
    BY <1>0, <1>1, <2>1, <2>2, <2>3 DEF ListInv
<1>10. CASE SetSend(t)
  <2>1. /\ pc[t] = "send" /\ up /\ slot # 0 /\ Apply(g, list[t])
        /\ UNCHANGED <<responses, slot, req, up, reloc>>
    BY <1>0, <1>10 DEF SetSend, SetInv, InFlight, Steps, Answers, Apply
  <2>2. /\ KeyUnique' /\ (LinesStay' <=> LinesStay)
        /\ \A b \in live : b.group # g \/ b.key \in ToSet(list[t]) \ Declined(g) => b \in live'
    BY <2>1, ApplyKeeps DEF ListInv, LinesStay
  <2>3. Tracked(g) \subseteq ToSet(list[t]) \ Declined(g)
    <3>1. list[t] = Append(active[g], req[t].key)
      BY <1>0, <2>1 DEF SetInv, InFlight, Steps
    <3>2. active[g] \in Seq(Keys) /\ req[t].key \in Keys
      BY <1>0 DEF TypeOK, Requests
    <3>3. ToSet(list[t]) = ToSet(active[g]) \cup {req[t].key}
      BY <3>1, <3>2, ToSetAppend
    <3> QED
      BY <3>3 DEF Tracked
  <2>4. LiveKeys(g) = Tracked(g)
    BY <1>0, <2>1, OwnAgrees
  <2>5. (slot # 0 /\ up /\ LinesStay => responses \subseteq live)'
    <3> SUFFICES ASSUME LinesStay, NEW r \in responses
                 PROVE  r \in live'
      BY <2>1, <2>2
    <3>1. r \in live
      BY <1>1, <2>1 DEF ListInv
    <3>2. r.group = g => r.key \in Tracked(g)
      BY <2>4, <3>1 DEF LiveKeys
    <3> QED
      BY <2>2, <2>3, <3>1, <3>2
  <2>6. \A u \in Tools \ {t} : (pc[u] \in {"track", "record"} =>
            /\ got[u].group = req[u].group
            /\ up /\ LinesStay => got[u] \in live)'
    <3> SUFFICES ASSUME NEW u \in Tools \ {t}, pc'[u] \in {"track", "record"}
                 PROVE  /\ got'[u].group = req'[u].group
                        /\ up' /\ LinesStay' => got'[u] \in live'
      OBVIOUS
    <3>1. pc[u] = pc'[u] /\ got'[u] = got[u]
      BY <1>0, <1>10 DEF SetSend, TypeOK
    <3>2. req[u].group # g
      BY <1>1, <3>1 DEF InFlight, Steps
    <3> QED
      BY <2>1, <2>2, <3>1, <3>2 DEF ListInv
  <2>7. CASE Goto(t, "failed") /\ UNCHANGED got
    BY <1>0, <1>1, <2>1, <2>2, <2>5, <2>6, <2>7 DEF ListInv
  <2>8. CASE /\ Goto(t, "track")
             /\ \E b \in live' :
                  /\ b.group = g
                  /\ got' = [got EXCEPT ![t] = [b EXCEPT !.key = Reported(b.group, @)]]
    <3>1. PICK b \in live' :
             /\ b.group = g
             /\ got' = [got EXCEPT ![t] = [b EXCEPT !.key = Reported(b.group, @)]]
      BY <2>8
    <3>2. b \in BpInfos
      BY DEF TypeOK
    <3>3. got'[t] = [b EXCEPT !.key = Reported(b.group, b.key)]
      BY <1>0, <3>1 DEF TypeOK
    <3>4. LinesStay => Reported(b.group, b.key) = b.key
      BY <3>2 DEF LinesStay, Reported, BpInfos
    <3>5. LinesStay => got'[t] = b
      BY <3>2, <3>3, <3>4 DEF BpInfos
    <3>6. got'[t].group = g
      BY <3>1, <3>2, <3>3 DEF BpInfos
    <3> QED
      BY <1>0, <1>1, <2>1, <2>2, <2>5, <2>6, <2>8, <3>5, <3>6 DEF ListInv
  <2> QED
    BY <1>10, <2>7, <2>8 DEF SetSend
<1> QED
  BY <1>2, <1>3, <1>4, <1>5, <1>6, <1>7, <1>8, <1>9, <1>10 DEF SetBreakpoint

\* A call that is alone has the list to itself.
LEMMA AloneList ==
    ASSUME Inv, Careful, ListInv, NEW t \in Tools, req[t].kind # "set", Busy(t),
           UNCHANGED req, NEW l, Goto(t, l), l \notin {"track", "record"},
           KeyUnique',
           slot' # 0 /\ up' /\ LinesStay' =>
               \A r \in responses' : r \in live' \/ (l = "commit" /\ got'[t] = r),
           l \in {"handshake", "settle"} => responses' = {}
    PROVE  ListInv'
<1>1. /\ pc'[t] = l
      /\ \A u \in Tools \ {t} : pc'[u] = pc[u] /\ ~ InFlight(u)
  BY BesideOther DEF Inv, TypeOK, Goto
<1>2. \A u \in Tools \ {t} : pc'[u] \notin {"track", "record", "handshake", "settle", "commit"}
  BY <1>1 DEF InFlight, Steps
<1> QED
  BY <1>1, <1>2 DEF ListInv

\* The remove handler.
LEMMA RemoveList ==
    ASSUME Inv, Careful, ListInv, NEW t \in Tools, RemoveBreakpoint(t)
    PROVE  ListInv'
<1> DEFINE g == got[t].group
<1> USE DEF lists, debugger
<1>0. /\ TypeOK /\ g \in Groups /\ req[t].kind = "remove" /\ req[t].kind # "set" /\ Busy(t)
      /\ InFlight(t) => RemoveInv(t)
      /\ \A u \in Tools \ {t} : ~ InFlight(u)
  BY RemoveCall, BesideOther DEF Inv, TypeOK, BpInfos, Invariants, HandlerInv
<1>1. CASE RemoveGuard(t)
  <2>1. PICK l \in {"peek", "rejected"} : Goto(t, l)
    BY <1>1 DEF RemoveGuard, CheckState
  <2> QED
    BY <1>0, <1>1, <2>1, ListCalm DEF RemoveGuard, CheckState, Admitted
<1>2. CASE RemovePeek(t)
  <2>1. PICK l \in {"backend", "failed"} : Goto(t, l)
    BY <1>2 DEF RemovePeek
  <2>2. \A u \in Tools \ {t} : got'[u] = got[u]
    BY <1>0, <1>2 DEF RemovePeek, TypeOK
  <2> QED
    BY <1>0, <1>2, <2>1, <2>2, ListCalm DEF RemovePeek
<1>3. CASE CurrentBackend(t)
  <2>1. PICK l \in {"failed", "read"} : Goto(t, l)
    BY <1>3 DEF CurrentBackend
  <2> QED
    BY <1>0, <1>3, <2>1, ListCalm DEF CurrentBackend
<1>4. CASE SendFails(t)
  BY <1>0, <1>4, ListCalm DEF SendFails
<1>5. CASE RemoveRead(t)
  BY <1>0, <1>5, ListCalm DEF RemoveRead
<1>6. CASE RemoveSend(t)
  <2>1. /\ pc[t] = "send" /\ up /\ slot # 0 /\ Apply(g, list[t]) /\ Goto(t, "commit")
        /\ list[t] = Without(active[g], got[t].key) /\ got[t] \in responses
        /\ UNCHANGED <<responses, slot, req, up, reloc, got>>
    BY <1>0, <1>6 DEF RemoveSend, RemoveInv, InFlight, Steps, Answers, Apply
  <2>2. /\ KeyUnique' /\ (LinesStay' <=> LinesStay)
        /\ \A b \in live : b.group # g \/ b.key \in ToSet(list[t]) \ Declined(g) => b \in live'
    BY <2>1, ApplyKeeps DEF ListInv, LinesStay
  <2>3. LiveKeys(g) = Tracked(g)
    BY <1>0, <2>1, AloneAgrees
  <2>4. LinesStay => responses \subseteq live
    <3>1. \A u \in Tools : pc[u] # "commit"
      BY <1>0, <2>1 DEF InFlight, Steps
    <3> QED
      BY <2>1, <3>1 DEF ListInv
  <2>5. ASSUME LinesStay, NEW r \in responses, r # got[t]
        PROVE  r \in live'
    <3>1. r \in live /\ got[t] \in live
      BY <2>1, <2>4, <2>5
    <3>2. CASE r.group = g
      <4>1. r.key # got[t].key
        BY <2>5, <3>1, <3>2 DEF ListInv, KeyUnique
      <4>2. r.key \in ToSet(active[g]) \ Declined(g)
        BY <2>3, <3>1, <3>2 DEF LiveKeys, Tracked
      <4>3. active[g] \in Seq(Keys)
        BY <1>0 DEF TypeOK
      <4>4. r.key \in ToSet(list[t])
        BY <2>1, <4>1, <4>2, <4>3, WithoutKeeps
      <4> QED
        BY <2>2, <3>1, <4>2, <4>4
    <3>3. CASE r.group # g
      BY <2>2, <3>1, <3>3
    <3> QED
      BY <3>2, <3>3
  <2> QED
    BY <1>0, <2>1, <2>2, <2>5, AloneList
<1>7. CASE RemoveCommit(t)
  <2>0. /\ pc[t] = "commit" /\ InFlight(t)
        /\ UNCHANGED <<slot, req, up, reloc, got, live>>
    BY <1>7 DEF RemoveCommit, InFlight, Steps
  <2>1. KeyUnique' /\ (LinesStay' <=> LinesStay)
    BY <2>0 DEF ListInv, KeyUnique, LinesStay
  <2>2. got[t] \in responses /\ got[t].id = req[t].id
    BY <1>0, <2>0 DEF RemoveInv
  <2>3. PICK r \in responses : r.id = req[t].id /\ RemoveById(r)
    BY <1>7, <2>2 DEF RemoveCommit
  <2>4. Goto(t, "done") /\ responses' = {x \in responses : x.id # req[t].id}
    BY <1>7, <2>2, <2>3 DEF RemoveCommit, RemoveById
  <2>5. \A u \in Tools : pc[u] = "commit" => u = t
    BY <1>0 DEF InFlight, Steps
  <2>6. slot' # 0 /\ up' /\ LinesStay' => responses' \subseteq live'
    BY <2>0, <2>1, <2>2, <2>4, <2>5 DEF ListInv
  <2> QED
    BY <1>0, <2>0, <2>1, <2>4, <2>6, AloneList
<1> QED
  BY <1>1, <1>2, <1>3, <1>4, <1>5, <1>6, <1>7 DEF RemoveBreakpoint

\* launch, attach and disconnect.
LEMMA LifecycleList ==
    ASSUME Inv, Careful, ListInv, NEW t \in Tools, Lifecycle(t)
    PROVE  ListInv'
<1> USE DEF lists, debugger
<1>0. /\ TypeOK /\ req[t].kind \in Lifecycles /\ req[t].kind # "set" /\ Busy(t)
      /\ pc[t] \in ConnectPcs \ {"undo"} => ConnectInv(t) /\ InFlight(t)
  <2>1. pc[t] \in ConnectPcs => InFlight(t)
    BY DEF ConnectPcs, InFlight, Steps
  <2> QED
    BY <2>1, LifecycleCall DEF Inv, Invariants, HandlerInv, Lifecycles
<1>1. UNCHANGED live => KeyUnique'
  BY DEF ListInv, KeyUnique
<1>2. CASE ConnectGuard(t)
  <2>1. PICK l \in {"configure", "rejected"} : Goto(t, l)
    BY <1>2 DEF ConnectGuard, CheckState
  <2> QED
    BY <1>0, <1>2, <2>1, ListCalm DEF ConnectGuard, CheckState, Admitted
<1>3. CASE Configure(t)
  <2>1. PICK l \in {"flush", "connect"} : Goto(t, l)
    BY <1>3 DEF Configure
  <2> QED
    BY <1>0, <1>3, <2>1, ListCalm DEF Configure
<1>4. CASE LaunchFlush(t)
  BY <1>0, <1>4, ListCalm DEF LaunchFlush, Flush
<1>5. CASE Connect(t)
  <2>1. responses = {}
    BY <1>0, <1>5 DEF Connect, ConnectInv, ConnectPcs
  <2>2. /\ UNCHANGED <<req, responses>> /\ Goto(t, "handshake") /\ live' = {}
    BY <1>5 DEF Connect
  <2>3. KeyUnique'
    BY <2>2 DEF KeyUnique
  <2> QED
    BY <1>0, <2>1, <2>2, <2>3, AloneList
<1>6. CASE FlushGroup(t)
  <2>1. PICK g \in Groups : Apply(g, spec[t][g])
    BY <1>6 DEF FlushGroup
  <2>2. KeyUnique'
    BY <2>1, ApplyKeeps DEF ListInv
  <2>3. responses = {} /\ pc[t] = "handshake" /\ UNCHANGED <<responses, req, pc>>
    BY <1>6 DEF FlushGroup, ListInv
  <2>4. Goto(t, "handshake")
    BY <1>0, <2>3 DEF Goto, TypeOK
  <2> QED
    BY <1>0, <2>2, <2>3, <2>4, AloneList
<1>7. CASE HandshakeDone(t)
  BY <1>0, <1>7, ListCalm DEF HandshakeDone
<1>8. CASE ConnectFails(t)
  BY <1>0, <1>8, ListCalm DEF ConnectFails
<1>9. CASE Settle(t)
  BY <1>0, <1>9, ListCalm DEF Settle
<1>10. CASE Undo(t)
  <2>1. PICK l \in {"done", "failed"} : Goto(t, l)
    BY <1>10 DEF Undo
  <2>2. UNCHANGED <<req, live>> /\ responses' = {}
    BY <1>10 DEF Undo, ResetLists
  <2> QED
    BY <1>0, <1>1, <2>1, <2>2, AloneList
<1>11. CASE DisconnectGuard(t)
  <2>1. PICK l \in {"ask", "rejected"} : Goto(t, l)
    BY <1>11 DEF DisconnectGuard, CheckState
  <2> QED
    BY <1>0, <1>11, <2>1, ListCalm DEF DisconnectGuard, CheckState, Admitted
<1>12. CASE DisconnectAsk(t)
  <2>1. up' => up
    BY <1>12, Zenon DEF DisconnectAsk
  <2> QED
    BY <1>0, <1>12, <2>1, ListCalm DEF DisconnectAsk
<1> QED
  BY <1>2, <1>3, <1>4, <1>5, <1>6, <1>7, <1>8, <1>9, <1>10, <1>11, <1>12 DEF Lifecycle

\* Every step keeps it.
LEMMA ListNext == Careful => (Inv /\ ListInv /\ [Next]_vars => ListInv')
<1> SUFFICES ASSUME Careful, Inv, ListInv, [Next]_vars
             PROVE  ListInv'
  OBVIOUS
<1>1. TypeOK'
  BY NextType DEF Inv
<1>2. CASE \E t \in Tools : SetBreakpoint(t) \/ RemoveBreakpoint(t) \/ Lifecycle(t)
  BY <1>1, <1>2, SetList, RemoveList, LifecycleList
<1>3. CASE DebuggerDies \/ Runs \/ UNCHANGED vars
  <2>1. UNCHANGED <<responses, slot, req, pc, got, live, reloc>> /\ (up' => up)
    BY <1>3 DEF DebuggerDies, Runs, vars, lists, tool, debugger
  <2> QED
    BY <2>1 DEF ListInv, KeyUnique, LinesStay
<1> QED
  BY <1>2, <1>3 DEF Next

-----------------------------------------------------------------------------
(* The theorems *)

\* The breakpoint lists of the session, the handlers' local values and the debugger
\* keep their types, whatever the client does (SessionManager, breakpoints.rs).
THEOREM BreakpointTypes == Spec => []TypeOK
<1>1. Init => TypeOK
  BY InitType
<1>2. TypeOK /\ [Next]_vars => TypeOK'
  BY NextType
<1> QED
  BY <1>1, <1>2, PTL DEF Spec

\* For a careful client, between calls the debugger has exactly the tracked breakpoints,
\* however many calls, files and lines there are and wherever the debugger puts the lines
\* (handle_set_breakpoint, handle_remove_breakpoint, flush_pending_breakpoints, reset).
THEOREM TransactionalLists == Careful => (Spec => []DebuggerHasTracked)
<1> SUFFICES ASSUME Careful
             PROVE  Spec => []DebuggerHasTracked
  OBVIOUS
<1>1. Init => Inv
  BY InvInit
<1>2. Inv /\ [Next]_vars => Inv'
  BY InvNext
<1>3. Inv => DebuggerHasTracked
  BY InvImplies
<1> QED
  BY <1>1, <1>2, <1>3, PTL DEF Spec

\* For a careful client, and a debugger that puts every line where it was asked to, each
\* listed breakpoint is one the debugger has, under that id and at that place
\* (add_breakpoint_response, remove_breakpoint_by_id, reset).
THEOREM ListedBreakpoints == Careful => (Spec => []ListedAreLive)
<1> SUFFICES ASSUME Careful
             PROVE  Spec => []ListedAreLive
  OBVIOUS
<1>1. Init => Inv /\ ListInv
  <2>1. Init => ListInv
    BY DEF Init, ListInv, KeyUnique
  <2> QED
    BY <2>1, InvInit
<1>2. Inv /\ ListInv /\ [Next]_vars => Inv' /\ ListInv'
  BY InvNext, ListNext
<1>3. ListInv => ListedAreLive
  BY DEF ListInv, ListedAreLive, LinesStay, Quiet, InFlight, Steps
<1> QED
  BY <1>1, <1>2, <1>3, PTL DEF Spec

=============================================================================
