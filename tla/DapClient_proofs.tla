-------------------------- MODULE DapClient_proofs --------------------------
(***************************************************************************)
(* Proofs about DapClient, for any number of calls, registrations and      *)
(* events: requests and responses stay correlated, no sender is lost or    *)
(* used twice, no guarded call leaves its entry behind, frames stay whole, *)
(* the stop waiter and the lifecycle signal reach whom they should, and    *)
(* together they keep the promise of Connection.                           *)
(***************************************************************************)
EXTENDS DapClient, TLAPS

-----------------------------------------------------------------------------
(* The inductive invariant *)

Begun(c) == pc[c] # "idle"

\* What a message in transit says of its request.
Owned(m) == m.call \in Calls /\ Begun(m.call) /\ m.seq = seqOf[m.call]

\* Calls that have begun have distinct numbers, all handed out (next_seq).
SeqInv ==
    \A c \in Calls : Begun(c) =>
        /\ seqOf[c] <= seq
        /\ \A d \in Calls : Begun(d) /\ seqOf[d] = seqOf[c] => d = c

\* What is in transit carries the number of its call.
WireInv == \A i \in 1 .. Len(wire) : Owned(wire[i])
AskedInv == \A r \in asked : Owned(r)
InboxInv == \A i \in 1 .. Len(inbox) : inbox[i].type = "response" => Owned(inbox[i])
TransitInv == WireInv /\ AskedInv /\ InboxInv

\* A registered sender, and one that recovery holds, has not been used.
SenderInv ==
    /\ \A p \in pending : Owned(p) /\ chan[p.call] = Empty
    /\ \A c \in drained : Begun(c) /\ chan[c] = Empty /\ ~ \E p \in pending : p.call = c
    /\ rl # "fail" => drained = {}

\* A oneshot is empty, or holds the answer to its own request, or Closed.
ChanInv ==
    \A c \in Calls :
        /\ chan[c] \in {Empty, Ok(c), Closed}
        /\ pc[c] = "idle" => chan[c] = Empty

\* A send has its guard as long as it is in flight.
ArmedInv == \A c \in Calls : pc[c] \in InFlight /\ kind[c] = "send" => armed[c]

\* The writer mutex is held between the two writes of a frame.
MutexInv == \A c \in Calls : writer = c <=> pc[c] = "body"

\* As long as no frame was torn and the adapter lives, the stream is whole frames,
\* and the header of the one being written.
FrameInv ==
    torn = {} /\ adapter # "down" =>
        /\ Len(wire) > 0 => wire[1].part = "header"
        /\ \A i \in 1 .. Len(wire) - 1 :
              IF wire[i].part = "header"
              THEN wire[i + 1].part = "body" /\ wire[i + 1].call = wire[i].call
              ELSE wire[i + 1].part = "header"
        /\ writer = NoCall /\ Len(wire) > 0 => wire[Len(wire)].part = "body"
        /\ writer # NoCall =>
              Len(wire) > 0 /\ wire[Len(wire)].part = "header" /\ wire[Len(wire)].call = writer

Invariants ==
    /\ SeqInv /\ TransitInv /\ SenderInv /\ ChanInv /\ ArmedInv /\ MutexInv /\ FrameInv
    /\ SenderNotLost /\ NoLeakedEntry /\ WaiterReachable /\ FramesIntact /\ TerminatedSignalled

Inv == TypeOK /\ Invariants

-----------------------------------------------------------------------------
(* Sequences, and the steps that leave most of the state alone *)

\* Reading the first of a sequence.
LEMMA HeadTail ==
    ASSUME NEW S, NEW s \in Seq(S), s # <<>>
    PROVE  /\ Head(s) \in S /\ Head(s) = s[1]
           /\ Tail(s) \in Seq(S) /\ Len(Tail(s)) = Len(s) - 1
           /\ \A i \in 1 .. Len(s) - 1 : Tail(s)[i] = s[i + 1]
OBVIOUS

\* Reading the first two.
LEMMA TailTail ==
    ASSUME NEW S, NEW s \in Seq(S), Len(s) >= 2
    PROVE  /\ s[1] \in S /\ s[2] \in S
           /\ Tail(Tail(s)) \in Seq(S) /\ Len(Tail(Tail(s))) = Len(s) - 2
           /\ \A i \in 1 .. Len(s) - 2 : Tail(Tail(s))[i] = s[i + 2]
<1>1. s # <<>>
  OBVIOUS
<1>2. Tail(s) \in Seq(S) /\ Len(Tail(s)) = Len(s) - 1 /\ Head(s) = s[1] /\ s[2] = Tail(s)[1]
  BY <1>1, HeadTail
<1>3. Tail(s) # <<>>
  <2>1. Len(<<>>) = 0 /\ Len(s) \in Nat
    OBVIOUS
  <2>2. Len(Tail(s)) # 0
    BY <1>2, <2>1
  <2>3. QED
    BY <2>1, <2>2, Zenon
<1>4. /\ Tail(Tail(s)) \in Seq(S) /\ Len(Tail(Tail(s))) = Len(s) - 2
      /\ \A i \in 1 .. Len(s) - 2 : Tail(Tail(s))[i] = Tail(s)[i + 1]
  BY <1>2, <1>3, HeadTail
<1>5. QED
  BY <1>1, <1>2, <1>4, HeadTail

-----------------------------------------------------------------------------
(* Types *)

\* Nothing is registered, written or sent at first (Client::new).
LEMMA TypeInit == Init => TypeOK
<1> SUFFICES ASSUME Init PROVE TypeOK
  OBVIOUS
<1> USE DEF Init
<1>1. kind \in [Calls -> Kinds]
  BY ConstAssumption DEF ConstAssumption, Kinds
<1>2. chan \in [Calls -> ChanValues]
  BY DEF ChanValues, Empty
<1>3. wire \in Seq(Chunks) /\ inbox \in Seq(Messages)
  OBVIOUS
<1>4. QED
  BY <1>1, <1>2, <1>3 DEF TypeOK, InFlight, Finished

\* Every step of a call, a registration, the read loop or the adapter keeps the types.
LEMMA TypeStep == TypeOK /\ [Next]_vars => TypeOK'
<1> SUFFICES ASSUME TypeOK, [Next]_vars PROVE TypeOK'
  OBVIOUS
<1> USE DEF TypeOK, Kinds, InFlight, Finished, Outcomes, ChanValues, Messages, EventTypes, vars,
            callVars, stopVars, initVars, pipeVars, loopVars, adapterVars
<1>1. CASE UNCHANGED vars
  BY <1>1
<1>2. ASSUME NEW c \in Calls, Begin(c) PROVE TypeOK'
  BY <1>2 DEF Begin, TakeSeq, RegisterPending
<1>3. ASSUME NEW c \in Calls, WriteHeader(c) PROVE TypeOK'
  BY <1>3 DEF WriteHeader, Chunk, Chunks
<1>4. ASSUME NEW c \in Calls, WriteBody(c) PROVE TypeOK'
  BY <1>4 DEF WriteBody, Chunk, Chunks
<1>5. ASSUME NEW c \in Calls, WriteFails(c) PROVE TypeOK'
  BY <1>5 DEF WriteFails, RemovePending
<1>6. ASSUME NEW c \in Calls, WaitInitialized(c) PROVE TypeOK'
  <2>1. CASE fired
    <3>1. /\ initWait' = [initWait EXCEPT ![c] = "resolved"]
          /\ UNCHANGED <<seq, kind, pc, seqOf, armed, chan, pending, stopVars, initSlot, fired,
                         pipeVars, loopVars, adapterVars>>
      BY <1>6, <2>1 DEF WaitInitialized
    <3>2. initWait' \in [Calls -> {"no", "parked", "resolved"}]
      BY <3>1
    <3>3. QED
      BY <3>1, <3>2
  <2>2. CASE ~ fired
    <3>1. initWait' \in [Calls -> {"no", "parked", "resolved"}]
      BY <1>6, <2>2 DEF WaitInitialized
    <3>2. initSlot' \in Calls \cup {NoCall}
      BY <1>6, <2>2 DEF WaitInitialized
    <3>3. QED
      BY <1>6, <3>1, <3>2 DEF WaitInitialized
  <2>3. QED
    BY <2>1, <2>2
<1>7. ASSUME NEW c \in Calls, Resolve(c) PROVE TypeOK'
  BY <1>7 DEF Resolve, ChanValues
<1>8. ASSUME NEW c \in Calls, Cancel(c) PROVE TypeOK'
  BY <1>8 DEF Cancel, AbortGuardDrop, RemovePending
<1>9. ASSUME NEW w \in Waits, Register(w) PROVE TypeOK'
  BY <1>9 DEF Register
<1>10. ASSUME NEW w \in Waits, Abandon(w) PROVE TypeOK'
  BY <1>10 DEF Abandon
<1>11. CASE ReadResponse
  <2>1. Head(inbox) \in Messages /\ inbox' \in Seq(Messages)
    BY <1>11, HeadTail DEF ReadResponse, Received
  <2>2. chan' \in [Calls -> ChanValues]
    BY <1>11, <2>1 DEF ReadResponse, SendTo, Ok
  <2>3. pending' \in SUBSET [seq : Nat, call : Calls]
    BY <1>11 DEF ReadResponse, RemovePending
  <2>4. QED
    BY <1>11, <2>1, <2>2, <2>3 DEF ReadResponse, Received
<1>12. CASE ReadStopped
  BY <1>12 DEF ReadStopped, Received, SendStop
<1>13. CASE ReadInitialized
  BY <1>13 DEF ReadInitialized, Received
<1>14. CASE ReadOutput
  BY <1>14 DEF ReadOutput, Received
<1>15. CASE ReadExited
  BY <1>15 DEF ReadExited, Received
<1>16. CASE DeliverExit
  BY <1>16 DEF DeliverExit, SendStop
<1>17. CASE ReadTerminated
  BY <1>17 DEF ReadTerminated, Received, FireTerminated
<1>18. CASE CancelStop
  BY <1>18 DEF CancelStop, SendStop
<1>19. CASE ReadError
  BY <1>19 DEF ReadError, Received, Unreadable
<1>20. CASE RecoverDrain
  BY <1>20 DEF RecoverDrain
<1>21. CASE RecoverFail
  BY <1>21 DEF RecoverFail, SendTo, Closed
<1>22. CASE RecoverStop
  BY <1>22 DEF RecoverStop, SendStop
<1>23. CASE RecoverFire
  BY <1>23 DEF RecoverFire, FireTerminated
<1>24. CASE AdapterRead
  <2>1. wire[1] \in Chunks /\ Tail(Tail(wire)) \in Seq(Chunks)
    BY <1>24, TailTail DEF AdapterRead
  <2>2. \/ /\ asked' = asked \cup {[seq |-> wire[1].seq, call |-> wire[1].call]}
           /\ wire' = Tail(Tail(wire)) /\ adapter' = adapter
        \/ adapter' = "lost" /\ wire' = <<>> /\ asked' = asked
    BY <1>24, Zenon DEF AdapterRead
  <2>3. wire[1].seq \in Nat /\ wire[1].call \in Calls
    BY <2>1 DEF Chunks
  <2>4. asked' \in SUBSET [seq : Nat, call : Calls]
    BY <2>2, <2>3
  <2>5. wire' \in Seq(Chunks) /\ adapter' \in {"up", "lost", "down"}
    BY <2>1, <2>2, <<>> \in Seq(Chunks)
  <2>6. QED
    BY <1>24, <2>4, <2>5 DEF AdapterRead
<1>25. CASE AdapterAnswer
  BY <1>25 DEF AdapterAnswer, Response
<1>26. CASE AdapterEvent
  BY <1>26 DEF AdapterEvent, EventMsg, EventTypes
<1>27. CASE AdapterDies
  BY <1>27 DEF AdapterDies, EventMsg
<1>28. QED
  BY <1>1, <1>2, <1>3, <1>4, <1>5, <1>6, <1>7, <1>8, <1>9, <1>10, <1>11, <1>12, <1>13, <1>14,
     <1>15, <1>16, <1>17, <1>18, <1>19, <1>20, <1>21, <1>22, <1>23, <1>24, <1>25, <1>26, <1>27
  DEF Next, Call, ReadLoop, Adapter

-----------------------------------------------------------------------------
(* What a step may change *)

\* Only a call's own steps write its program counter, number, guard and the mutex.
LEMMA OnlyCalls ==
    [Next]_vars => \/ \E c \in Calls : Call(c)
                   \/ UNCHANGED <<seq, kind, pc, seqOf, armed, writer, torn>>
BY DEF Next, vars, callVars, pipeVars, loopVars, stopVars, initVars, adapterVars, Register, Abandon,
       ReadLoop, ReadResponse, ReadStopped, ReadInitialized, ReadOutput, ReadExited, DeliverExit,
       ReadTerminated, CancelStop, ReadError, RecoverDrain, RecoverFail, RecoverStop, RecoverFire,
       Adapter, AdapterRead, AdapterAnswer, AdapterEvent, AdapterDies

\* The pending map is written by Begin, by a call's end, by a response and by recovery.
LEMMA OnlyPending ==
    [Next]_vars => \/ \E c \in Calls : Begin(c) \/ WriteFails(c) \/ Cancel(c)
                   \/ ReadResponse \/ RecoverDrain
                   \/ UNCHANGED pending
BY DEF Next, vars, Call, WriteHeader, WriteBody, WaitInitialized, Resolve, Register, Abandon,
       ReadLoop, ReadStopped, ReadInitialized, ReadOutput, ReadExited, DeliverExit,
       ReadTerminated, CancelStop, ReadError, RecoverFail, RecoverStop, RecoverFire,
       Adapter, AdapterRead, AdapterAnswer, AdapterEvent, AdapterDies

\* A oneshot is written by a response and by recovery.
LEMMA OnlyChan ==
    [Next]_vars => ReadResponse \/ RecoverFail \/ UNCHANGED chan
BY DEF Next, vars, callVars, Call, Begin, WriteHeader, WriteBody, WriteFails, WaitInitialized,
       Resolve, Cancel, Register, Abandon,
       ReadLoop, ReadStopped, ReadInitialized, ReadOutput, ReadExited, DeliverExit,
       ReadTerminated, CancelStop, ReadError, RecoverDrain, RecoverStop, RecoverFire,
       Adapter, AdapterRead, AdapterAnswer, AdapterEvent, AdapterDies

\* The senders recovery holds change with recovery alone.
LEMMA OnlyDrained ==
    [Next]_vars => \/ RecoverDrain \/ RecoverFail
                   \/ UNCHANGED drained /\ (rl' = "fail" <=> rl = "fail")
BY DEF Next, vars, loopVars, Call, Begin, WriteHeader, WriteBody, WriteFails, WaitInitialized,
       Resolve, Cancel, Register, Abandon, Received,
       ReadLoop, ReadResponse, ReadStopped, ReadInitialized, ReadOutput, ReadExited, DeliverExit,
       ReadTerminated, CancelStop, ReadError, RecoverStop, RecoverFire,
       Adapter, AdapterRead, AdapterAnswer, AdapterEvent, AdapterDies

\* The stream to the adapter is written by calls and read by the adapter.
LEMMA OnlyWire ==
    [Next]_vars => \/ \E c \in Calls : WriteHeader(c) \/ WriteBody(c)
                   \/ AdapterRead
                   \/ UNCHANGED wire
BY DEF Next, vars, pipeVars, Call, Begin, WriteFails, WaitInitialized,
       Resolve, Cancel, Register, Abandon,
       ReadLoop, ReadResponse, ReadStopped, ReadInitialized, ReadOutput, ReadExited, DeliverExit,
       ReadTerminated, CancelStop, ReadError, RecoverDrain, RecoverFail, RecoverStop, RecoverFire,
       Adapter, AdapterAnswer, AdapterEvent, AdapterDies

\* The adapter alone keeps what it was asked, and writes what the read loop reads.
LEMMA OnlyInbox ==
    [Next]_vars => \/ Adapter
                   \/ asked' = asked /\ inbox # <<>> /\ inbox' = Tail(inbox)
                   \/ UNCHANGED <<asked, inbox>>
BY DEF Next, vars, adapterVars, Call, Begin, WriteHeader, WriteBody, WriteFails, WaitInitialized,
       Resolve, Cancel, Register, Abandon, Received,
       ReadLoop, ReadResponse, ReadStopped, ReadInitialized, ReadOutput, ReadExited, DeliverExit,
       ReadTerminated, CancelStop, ReadError, RecoverDrain, RecoverFail, RecoverStop, RecoverFire

\* The stop slot is written by a registration, and emptied by whatever sends.
LEMMA OnlyStop ==
    [Next]_vars => \/ \E w \in Waits : Register(w) \/ Abandon(w)
                   \/ \E outcome \in Outcomes : SendStop(outcome)
                   \/ UNCHANGED stopVars
BY DEF Next, vars, Call, Begin, WriteHeader, WriteBody, WriteFails, WaitInitialized,
       Resolve, Cancel, Outcomes,
       ReadLoop, ReadResponse, ReadStopped, ReadInitialized, ReadOutput, ReadExited, DeliverExit,
       ReadTerminated, CancelStop, ReadError, RecoverDrain, RecoverFail, RecoverStop, RecoverFire,
       Adapter, AdapterRead, AdapterAnswer, AdapterEvent, AdapterDies

\* The lifecycle signal is written by fire_terminated alone.
LEMMA OnlyTerm ==
    [Next]_vars => FireTerminated \/ UNCHANGED term
BY DEF Next, vars, loopVars, Call, Begin, WriteHeader, WriteBody, WriteFails, WaitInitialized,
       Resolve, Cancel, Register, Abandon,
       ReadLoop, ReadResponse, ReadStopped, ReadInitialized, ReadOutput, ReadExited, DeliverExit,
       ReadTerminated, CancelStop, ReadError, RecoverDrain, RecoverFail, RecoverStop, RecoverFire,
       Adapter, AdapterRead, AdapterAnswer, AdapterEvent, AdapterDies

\* A call goes forward, and what it was given stays (Begin is made once).
LEMMA Persists ==
    ASSUME TypeOK, [Next]_vars, NEW c \in Calls, Begun(c)
    PROVE  Begun(c)' /\ seqOf'[c] = seqOf[c]
<1>1. CASE \E d \in Calls : Call(d)
  <2>1. PICK d \in Calls : Call(d)
    BY <1>1
  <2>2. QED
    BY <2>1 DEF Call, Begin, TakeSeq, WriteHeader, WriteBody, WriteFails, WaitInitialized, Resolve,
                Cancel, Begun, TypeOK, InFlight, ChanValues
<1>2. CASE UNCHANGED <<seq, kind, pc, seqOf, armed, writer, torn>>
  BY <1>2 DEF Begun
<1>3. QED
  BY <1>1, <1>2, OnlyCalls

\* So what a message says of its request goes on being true.
LEMMA OwnedPersists ==
    ASSUME TypeOK, [Next]_vars, NEW m, Owned(m)
    PROVE  m.call \in Calls /\ Begun(m.call)' /\ m.seq = seqOf'[m.call]
BY Persists DEF Owned

-----------------------------------------------------------------------------
(* The conjuncts of the invariant, one by one *)

\* next_seq never hands out a number twice.
LEMMA SeqStep == Inv /\ [Next]_vars => SeqInv'
<1> SUFFICES ASSUME Inv, [Next]_vars PROVE SeqInv'
  OBVIOUS
<1> USE DEF Inv, Invariants, SeqInv, Begun, TypeOK
<1>1. ASSUME NEW c \in Calls, Begin(c) PROVE SeqInv'
  BY <1>1 DEF Begin, TakeSeq
<1>2. ASSUME NEW c \in Calls, Call(c), ~ Begin(c) PROVE SeqInv'
  BY <1>2 DEF Call, WriteHeader, WriteBody, WriteFails, WaitInitialized, Resolve, Cancel, InFlight
<1>3. CASE UNCHANGED <<seq, kind, pc, seqOf, armed, writer, torn>>
  BY <1>3
<1>4. QED
  BY <1>1, <1>2, <1>3, OnlyCalls

\* A frame, a request the adapter has read and its response carry the call's number.
LEMMA TransitStep == Inv /\ [Next]_vars => TransitInv'
<1> SUFFICES ASSUME Inv, [Next]_vars PROVE TransitInv'
  OBVIOUS
<1> USE DEF Inv, Invariants
<1>1. WireInv'
  <2>1. ASSUME NEW c \in Calls, WriteHeader(c) \/ WriteBody(c)
        PROVE  WireInv'
    <3>1. PICK p \in {"header", "body"} : wire' = Append(wire, Chunk(p, c))
      BY <2>1 DEF WriteHeader, WriteBody
    <3>2. Owned(Chunk(p, c))
      BY <2>1 DEF WriteHeader, WriteBody, Owned, Chunk, Begun
    <3>3. wire \in Seq(Chunks) /\ Chunk(p, c) \in Chunks
      BY DEF TypeOK, Chunks, Chunk
    <3>4. /\ Len(wire') = Len(wire) + 1 /\ wire'[Len(wire) + 1] = Chunk(p, c)
          /\ \A i \in 1 .. Len(wire) : wire'[i] = wire[i]
      BY <3>1, <3>3
    <3>5. \A i \in 1 .. Len(wire') : Owned(wire'[i])
      BY <3>2, <3>3, <3>4 DEF TransitInv, WireInv
    <3>6. QED
      BY <3>5, OwnedPersists DEF Owned, WireInv
  <2>2. CASE AdapterRead
    <3>1. wire' = Tail(Tail(wire)) \/ wire' = <<>>
      BY <2>2, Zenon DEF AdapterRead
    <3>2. Len(wire) >= 2 /\ wire \in Seq(Chunks)
      BY <2>2 DEF AdapterRead, TypeOK
    <3>3. \A i \in 1 .. Len(wire) : Owned(wire[i])
      BY DEF TransitInv, WireInv
    <3>4. ASSUME NEW i \in 1 .. Len(wire')
          PROVE  Owned(wire'[i])
      <4>1. wire' = Tail(Tail(wire))
        BY <3>1, <3>4
      <4>2. /\ Len(wire) \in Nat /\ Len(wire') = Len(wire) - 2
            /\ \A j \in 1 .. Len(wire) - 2 : wire'[j] = wire[j + 2]
        BY <3>2, <4>1, TailTail
      <4>3. i + 2 \in 1 .. Len(wire) /\ wire'[i] = wire[i + 2]
        BY <3>4, <4>2
      <4>4. QED
        BY <3>3, <4>3
    <3>5. \A i \in 1 .. Len(wire') : Owned(wire'[i])
      BY <3>4
    <3>6. QED
      BY <3>5, OwnedPersists DEF Owned, WireInv
  <2>3. CASE UNCHANGED wire
    BY <2>3, OwnedPersists DEF Owned, TransitInv, WireInv
  <2>4. QED
    BY <2>1, <2>2, <2>3, OnlyWire
<1>2. AskedInv'
  <2>1. CASE AdapterRead
    <3>1. asked' = asked \/ asked' = asked \cup {[seq |-> wire[1].seq, call |-> wire[1].call]}
      BY <2>1, Zenon DEF AdapterRead
    <3>2. Len(wire) \in Nat /\ Len(wire) >= 2
      BY <2>1 DEF AdapterRead, TypeOK
    <3>3. Owned(wire[1])
      BY <3>2 DEF TransitInv, WireInv
    <3>4. \A r \in asked' : Owned(r)
      BY <3>1, <3>3 DEF TransitInv, AskedInv, Owned
    <3>5. QED
      BY <3>4, OwnedPersists DEF Owned, AskedInv
  <2>2. CASE asked' \subseteq asked
    BY <2>2, OwnedPersists DEF Owned, TransitInv, AskedInv
  <2>3. QED
    BY <2>1, <2>2, OnlyInbox DEF Adapter, AdapterAnswer, AdapterEvent, AdapterDies
<1>3. InboxInv'
  <2>1. ASSUME NEW m \in Messages, inbox' = Append(inbox, m), m.type = "response" => Owned(m)
        PROVE  \A i \in 1 .. Len(inbox') : inbox'[i].type = "response" => Owned(inbox'[i])
    <3>1. inbox \in Seq(Messages)
      BY DEF TypeOK
    <3>2. /\ Len(inbox') = Len(inbox) + 1 /\ inbox'[Len(inbox) + 1] = m
          /\ \A i \in 1 .. Len(inbox) : inbox'[i] = inbox[i]
      BY <2>1, <3>1
    <3>3. QED
      BY <2>1, <3>1, <3>2 DEF TransitInv, InboxInv
  <2>2. CASE AdapterAnswer
    <3>1. PICK r \in asked : inbox' = Append(inbox, Response(r.seq, r.call))
      BY <2>2 DEF AdapterAnswer
    <3>2. Response(r.seq, r.call) \in Messages /\ Owned(Response(r.seq, r.call))
      BY DEF Response, Messages, Owned, TransitInv, AskedInv, TypeOK
    <3>3. \A i \in 1 .. Len(inbox') : inbox'[i].type = "response" => Owned(inbox'[i])
      BY <2>1, <3>1, <3>2
    <3>4. QED
      BY <3>3, OwnedPersists DEF Owned, InboxInv
  <2>3. CASE AdapterEvent \/ AdapterDies
    <3>1. PICK e \in EventTypes \cup {"eof"} : inbox' = Append(inbox, EventMsg(e))
      BY <2>3 DEF AdapterEvent, AdapterDies
    <3>2. EventMsg(e) \in Messages /\ EventMsg(e).type # "response"
      BY DEF EventMsg, Messages, EventTypes
    <3>3. \A i \in 1 .. Len(inbox') : inbox'[i].type = "response" => Owned(inbox'[i])
      BY <2>1, <3>1, <3>2
    <3>4. QED
      BY <3>3, OwnedPersists DEF Owned, InboxInv
  <2>4. CASE inbox # <<>> /\ inbox' = Tail(inbox)
    <3>1. inbox \in Seq(Messages)
      BY DEF TypeOK
    <3>2. \A i \in 1 .. Len(inbox') : inbox'[i].type = "response" => Owned(inbox'[i])
      BY <2>4, <3>1, HeadTail DEF TransitInv, InboxInv
    <3>3. QED
      BY <3>2, OwnedPersists DEF Owned, InboxInv
  <2>5. CASE UNCHANGED inbox
    BY <2>5, OwnedPersists DEF Owned, TransitInv, InboxInv
  <2>6. QED
    BY <2>2, <2>3, <2>4, <2>5, OnlyInbox DEF Adapter, AdapterRead
<1>4. QED
  BY <1>1, <1>2, <1>3 DEF TransitInv

\* dispatch_response: the entry it finds is that of the call the response is for,
\* so the response goes there or nowhere.
LEMMA ResponseMeets ==
    ASSUME Inv, ReadResponse
    PROVE  LET m == Head(inbox)
               e == [seq |-> m.seq, call |-> m.call]
           IN  /\ Owned(m)
               /\ pending' = pending \ {e}
               /\ \A c \in Calls :
                     chan'[c] = IF c = m.call /\ e \in pending /\ pc[c] \in InFlight
                                THEN Ok(c) ELSE chan[c]
<1> DEFINE m == Head(inbox)
           e == [seq |-> m.seq, call |-> m.call]
<1> USE DEF Inv, Invariants
<1>1. Owned(m)
  <2>1. inbox \in Seq(Messages) /\ inbox # <<>> /\ m.type = "response"
    BY DEF TypeOK, ReadResponse, Received
  <2>2. m = inbox[1] /\ 1 \in 1 .. Len(inbox)
    BY <2>1, HeadTail
  <2>3. QED
    BY <2>1, <2>2 DEF TransitInv, InboxInv
<1>2. \A p \in pending : p.seq = m.seq <=> p = e
  <2>1. ASSUME NEW p \in pending, p.seq = m.seq PROVE p = e
    <3>1. p.call = m.call
      BY <1>1, <2>1 DEF SenderInv, Owned, SeqInv
    <3>2. p = [seq |-> p.seq, call |-> p.call]
      BY DEF TypeOK
    <3>3. QED
      BY <2>1, <3>1, <3>2
  <2>2. QED
    BY <2>1
<1>3. pending' = pending \ {e}
  BY <1>2 DEF ReadResponse, RemovePending
<1>4. ASSUME NEW c \in Calls
      PROVE  chan'[c] = IF c = m.call /\ e \in pending /\ pc[c] \in InFlight
                        THEN Ok(c) ELSE chan[c]
  <2> DEFINE owner == {p.call : p \in {q \in pending : q.seq = m.seq}}
  <2>1. chan'[c] = IF c \in owner /\ pc[c] \in InFlight THEN Ok(m.call) ELSE chan[c]
    BY Zenon DEF ReadResponse, SendTo
  <2>2. c \in owner <=> c = m.call /\ e \in pending
    BY <1>2
  <2>3. QED
    BY <2>1, <2>2
<1>5. QED
  BY <1>1, <1>3, <1>4

\* cancel_all_pending's second half.
LEMMA FailMeets ==
    ASSUME Inv, RecoverFail, NEW c \in Calls
    PROVE  chan'[c] = IF c \in drained /\ pc[c] \in InFlight THEN Closed ELSE chan[c]
BY DEF RecoverFail, SendTo

\* The oneshot of a call holds nothing but its own answer.
LEMMA ChanStep == Inv /\ [Next]_vars => ChanInv'
<1> SUFFICES ASSUME Inv, [Next]_vars, NEW c \in Calls
             PROVE  (chan[c] \in {Empty, Ok(c), Closed} /\ (pc[c] = "idle" => chan[c] = Empty))'
  BY DEF ChanInv
<1>1. chan'[c] \in {Empty, Ok(c), Closed} /\ (pc[c] = "idle" => chan'[c] = Empty)
  <2>1. CASE ReadResponse
    BY <2>1, ResponseMeets DEF Inv, Invariants, ChanInv, InFlight
  <2>2. CASE RecoverFail
    BY <2>2, FailMeets DEF Inv, Invariants, ChanInv, InFlight
  <2>3. CASE UNCHANGED chan
    BY <2>3 DEF Inv, Invariants, ChanInv
  <2>4. QED
    BY <2>1, <2>2, <2>3, OnlyChan
<1>2. pc'[c] = "idle" => pc[c] = "idle"
  BY Persists DEF Begun, Inv
<1>3. QED
  BY <1>1, <1>2 DEF Empty, Ok, Closed

\* The guard of a send is armed until it is over.
LEMMA ArmedStep == Inv /\ [Next]_vars => ArmedInv'
<1> SUFFICES ASSUME Inv, [Next]_vars PROVE ArmedInv'
  OBVIOUS
<1> USE DEF Inv, Invariants, ArmedInv, TypeOK
<1>1. ASSUME NEW c \in Calls, Call(c) PROVE ArmedInv'
  <2>1. CASE Begin(c)
    BY <2>1 DEF Begin
  <2>2. CASE WriteHeader(c) \/ WaitInitialized(c)
    BY <2>2 DEF WriteHeader, WaitInitialized, InFlight
  <2>3. CASE WriteBody(c)
    BY <2>3 DEF WriteBody, InFlight
  <2>4. CASE WriteFails(c) \/ Cancel(c)
    BY <2>4 DEF WriteFails, Cancel, InFlight
  <2>5. CASE Resolve(c)
    BY <2>5 DEF Resolve, ChanValues, InFlight
  <2>6. QED
    BY <1>1, <2>1, <2>2, <2>3, <2>4, <2>5 DEF Call
<1>2. CASE UNCHANGED <<seq, kind, pc, seqOf, armed, writer, torn>>
  BY <1>2
<1>3. QED
  BY <1>1, <1>2, OnlyCalls

\* One frame is written at a time.
LEMMA MutexStep == Inv /\ [Next]_vars => MutexInv'
<1> SUFFICES ASSUME Inv, [Next]_vars PROVE MutexInv'
  OBVIOUS
<1> USE ConstAssumption DEF ConstAssumption, Inv, Invariants, MutexInv, TypeOK
<1>1. ASSUME NEW c \in Calls, Call(c) PROVE MutexInv'
  <2>1. CASE Begin(c) \/ WaitInitialized(c)
    BY <2>1 DEF Begin, WaitInitialized, pipeVars
  <2>2. CASE WriteHeader(c)
    BY <2>2 DEF WriteHeader
  <2>3. CASE WriteBody(c)
    BY <2>3 DEF WriteBody
  <2>4. CASE WriteFails(c)
    <3>1. writer' = NoCall /\ pc' = [pc EXCEPT ![c] = "send_error"]
      BY <2>4 DEF WriteFails
    <3>2. writer = NoCall \/ writer = c
      BY <2>4 DEF WriteFails
    <3>3. QED
      BY <3>1, <3>2
  <2>5. CASE Resolve(c)
    BY <2>5 DEF Resolve, ChanValues, pipeVars
  <2>6. CASE Cancel(c)
    BY <2>6 DEF Cancel, InFlight
  <2>7. QED
    BY <1>1, <2>1, <2>2, <2>3, <2>4, <2>5, <2>6 DEF Call
<1>2. CASE UNCHANGED <<seq, kind, pc, seqOf, armed, writer, torn>>
  BY <1>2
<1>3. QED
  BY <1>1, <1>2, OnlyCalls

\* A sender leaves the map when it is used, and is used once.
LEMMA SenderStep == Inv /\ [Next]_vars => SenderInv'
<1> SUFFICES ASSUME Inv, [Next]_vars PROVE SenderInv'
  OBVIOUS
<1> USE DEF Inv, Invariants
<1>1. ASSUME NEW p \in pending, p \in pending' PROVE Owned(p)' /\ chan'[p.call] = Empty
  <2>1. Owned(p) /\ chan[p.call] = Empty
    BY DEF SenderInv
  <2>2. Owned(p)'
    BY <2>1, OwnedPersists DEF Owned
  <2>3. CASE ReadResponse
    <3>1. p # [seq |-> Head(inbox).seq, call |-> Head(inbox).call] /\ Owned(Head(inbox))
      BY <1>1, <2>3, ResponseMeets
    <3>2. p = [seq |-> p.seq, call |-> p.call]
      BY DEF TypeOK
    <3>3. p.call # Head(inbox).call
      BY <2>1, <3>1, <3>2 DEF Owned
    <3>4. QED
      BY <2>1, <2>2, <2>3, <3>3, ResponseMeets DEF Owned
  <2>4. CASE RecoverFail
    <3>1. p.call \notin drained
      BY DEF SenderInv
    <3>2. QED
      BY <2>1, <2>2, <2>4, <3>1, FailMeets DEF Owned
  <2>5. CASE UNCHANGED chan
    BY <2>1, <2>2, <2>5
  <2>6. QED
    BY <2>3, <2>4, <2>5, OnlyChan
<1>2. ASSUME NEW p \in pending', p \notin pending
      PROVE  \E c \in Calls : Begin(c) /\ p = [seq |-> seqOf'[c], call |-> c]
  <2>1. CASE ReadResponse
    BY <1>2, <2>1, ResponseMeets
  <2>2. ASSUME NEW c \in Calls, Begin(c) PROVE p = [seq |-> seqOf'[c], call |-> c]
    BY <1>2, <2>2 DEF Begin, RegisterPending
  <2>3. QED
    BY <1>2, <2>1, <2>2, OnlyPending
    DEF WriteFails, Cancel, AbortGuardDrop, RemovePending, RecoverDrain
<1>3. \A p \in pending' : Owned(p)' /\ chan'[p.call] = Empty
  <2>1. ASSUME NEW p \in pending', p \notin pending PROVE Owned(p)' /\ chan'[p.call] = Empty
    <3>1. PICK c \in Calls : Begin(c) /\ p = [seq |-> seqOf'[c], call |-> c]
      BY <1>2, <2>1
    <3>2. chan'[c] = Empty
      BY <3>1 DEF Begin, ChanInv
    <3>3. pc'[c] = "lock"
      BY <3>1 DEF Begin, TypeOK
    <3>4. QED
      BY <3>1, <3>2, <3>3 DEF Owned, Begun
  <2>2. QED
    BY <1>1, <2>1
<1>4. ASSUME NEW c \in drained'
      PROVE  Begun(c)' /\ chan'[c] = Empty /\ ~ \E p \in pending' : p.call = c
  <2>1. CASE RecoverDrain
    <3>1. PICK p \in pending : c = p.call
      BY <2>1 DEF RecoverDrain
    <3>2. Begun(c)' /\ chan'[c] = Empty
      BY <2>1, <3>1 DEF RecoverDrain, SenderInv, Owned, callVars, Begun
    <3>3. QED
      BY <2>1, <3>2 DEF RecoverDrain
  <2>2. CASE UNCHANGED drained
    <3>1. c \in Calls /\ Begun(c) /\ chan[c] = Empty /\ ~ \E p \in pending : p.call = c
      BY <2>2 DEF SenderInv, TypeOK
    <3>2. Begun(c)'
      BY <3>1, Persists
    <3>3. rl = "fail"
      BY <2>2 DEF SenderInv
    <3>4. chan'[c] = Empty
      <4>1. ~ ReadResponse
        BY <3>3 DEF ReadResponse, Received
      <4>2. ~ RecoverFail
        BY <2>2, <3>1 DEF RecoverFail
      <4>3. QED
        BY <3>1, <4>1, <4>2, OnlyChan
    <3>5. ASSUME NEW p \in pending', p.call = c PROVE FALSE
      <4>1. p \notin pending
        BY <3>1, <3>5
      <4>2. PICK d \in Calls : Begin(d) /\ p = [seq |-> seqOf'[d], call |-> d]
        BY <1>2, <4>1
      <4>3. QED
        BY <3>1, <3>5, <4>2 DEF Begin, Begun
    <3>6. QED
      BY <3>2, <3>4, <3>5
  <2>3. QED
    BY <2>1, <2>2, OnlyDrained DEF RecoverFail
<1>5. rl' # "fail" => drained' = {}
  BY OnlyDrained DEF SenderInv, RecoverDrain, RecoverFail
<1>6. QED
  BY <1>3, <1>4, <1>5 DEF SenderInv

\* The stream the adapter reads is whole frames as long as no call was dropped in one.
LEMMA FrameStep == Inv /\ [Next]_vars => FrameInv' /\ FramesIntact'
<1> SUFFICES ASSUME Inv, [Next]_vars PROVE FrameInv' /\ FramesIntact'
  OBVIOUS
<1> USE DEF Inv, Invariants
<1>1. wire \in Seq(Chunks) /\ Len(wire) \in Nat
  BY DEF TypeOK
<1>2. ASSUME NEW c \in Calls, WriteHeader(c) PROVE FrameInv' /\ FramesIntact'
  <2>1. /\ Len(wire') = Len(wire) + 1 /\ wire'[Len(wire) + 1] = Chunk("header", c)
        /\ \A i \in 1 .. Len(wire) : wire'[i] = wire[i]
    <3>1. Chunk("header", c) \in Chunks
      BY DEF TypeOK, Chunks, Chunk
    <3>2. QED
      BY <1>1, <1>2, <3>1 DEF WriteHeader
  <2>2. Chunk("header", c).part = "header" /\ Chunk("header", c).call = c
    BY DEF Chunk
  <2>3. writer = NoCall /\ writer' = c /\ torn' = torn /\ adapter' = adapter
    BY <1>2 DEF WriteHeader, adapterVars
  <2>4. QED
    BY <1>1, <2>1, <2>2, <2>3, ConstAssumption DEF FrameInv, FramesIntact, ConstAssumption
<1>3. ASSUME NEW c \in Calls, WriteBody(c) PROVE FrameInv' /\ FramesIntact'
  <2>1. /\ Len(wire') = Len(wire) + 1 /\ wire'[Len(wire) + 1] = Chunk("body", c)
        /\ \A i \in 1 .. Len(wire) : wire'[i] = wire[i]
    <3>1. Chunk("body", c) \in Chunks
      BY DEF TypeOK, Chunks, Chunk
    <3>2. QED
      BY <1>1, <1>3, <3>1 DEF WriteBody
  <2>2. Chunk("body", c).part = "body" /\ Chunk("body", c).call = c
    BY DEF Chunk
  <2>3. writer = c /\ writer' = NoCall /\ torn' = torn /\ adapter' = adapter
    BY <1>3 DEF WriteBody, adapterVars, MutexInv
  <2>4. QED
    BY <1>1, <2>1, <2>2, <2>3, ConstAssumption DEF FrameInv, FramesIntact, ConstAssumption
<1>4. CASE AdapterRead
  <2>1. Len(wire) >= 2 /\ torn' = torn /\ writer' = writer /\ adapter = "up"
    BY <1>4 DEF AdapterRead
  <2>2. CASE torn = {}
    <3>1. wire[1].part = "header" /\ wire[2].part = "body" /\ wire[1].call = wire[2].call
      BY <1>1, <2>1, <2>2 DEF FrameInv
    <3>2. wire' = Tail(Tail(wire)) /\ adapter' = adapter
      BY <1>4, <3>1, Zenon DEF AdapterRead
    <3>3. /\ Len(wire') = Len(wire) - 2
          /\ \A i \in 1 .. Len(wire) - 2 : wire'[i] = wire[i + 2]
      BY <1>1, <2>1, <3>2, TailTail
    <3>4. ASSUME NEW i \in 1 .. Len(wire') - 1
          PROVE  IF wire'[i].part = "header"
                 THEN wire'[i + 1].part = "body" /\ wire'[i + 1].call = wire'[i].call
                 ELSE wire'[i + 1].part = "header"
      <4>1. /\ i + 2 \in 1 .. Len(wire) - 1 /\ wire'[i] = wire[i + 2]
            /\ wire'[i + 1] = wire[(i + 2) + 1]
        BY <1>1, <2>1, <3>3
      <4>2. QED
        BY <2>1, <2>2, <4>1 DEF FrameInv
    <3>5. Len(wire') > 0 => wire'[1].part = "header"
      BY <1>1, <2>1, <2>2, <3>1, <3>3 DEF FrameInv
    <3>6. Len(wire') > 0 => wire'[Len(wire')] = wire[Len(wire)]
      BY <1>1, <2>1, <3>3
    <3>7. Len(wire') = 0 => wire[Len(wire)].part = "body"
      <4>1. Len(wire') = 0 => Len(wire) = 2
        BY <1>1, <2>1, <3>3
      <4>2. QED
        BY <3>1, <4>1
    <3>8. Len(wire') \in Nat
      BY <1>1, <2>1, <3>3
    <3>9. FrameInv'
      <4>1. /\ writer = NoCall => wire[Len(wire)].part = "body"
            /\ writer # NoCall => wire[Len(wire)].part = "header" /\ wire[Len(wire)].call = writer
        BY <1>1, <2>1, <2>2 DEF FrameInv
      <4>2. writer # NoCall => Len(wire') > 0
        BY <3>7, <3>8, <4>1
      <4>3. QED
        BY <2>1, <3>4, <3>5, <3>6, <4>1, <4>2 DEF FrameInv
    <3>10. QED
      BY <2>1, <3>2, <3>9 DEF FramesIntact
  <2>3. CASE torn # {}
    BY <2>1, <2>3 DEF FrameInv, FramesIntact
  <2>4. QED
    BY <2>2, <2>3
<1>5. ASSUME NEW c \in Calls, WriteFails(c) PROVE FrameInv' /\ FramesIntact'
  BY <1>5 DEF WriteFails, FrameInv, FramesIntact, adapterVars
<1>6. ASSUME NEW c \in Calls, Cancel(c) PROVE FrameInv' /\ FramesIntact'
  <2>1. CASE pc[c] = "body"
    BY <1>6, <2>1 DEF Cancel, FrameInv, FramesIntact, adapterVars
  <2>2. CASE pc[c] # "body"
    BY <1>6, <2>2 DEF Cancel, FrameInv, FramesIntact, MutexInv, adapterVars
  <2>3. QED
    BY <2>1, <2>2
<1>7. CASE UNCHANGED <<wire, writer, torn>> /\ (adapter' = adapter \/ adapter' = "down")
  BY <1>7 DEF FrameInv, FramesIntact
<1>8. QED
  <2>1. CASE \E c \in Calls : Call(c)
    BY <2>1, <1>2, <1>3, <1>5, <1>6, <1>7
       DEF Call, Begin, WaitInitialized, Resolve, pipeVars, adapterVars
  <2>2. CASE Adapter
    BY <2>2, <1>4, <1>7 DEF Adapter, AdapterAnswer, AdapterEvent, AdapterDies, pipeVars
  <2>3. CASE ReadLoop
    BY <2>3, <1>7
       DEF ReadLoop, Received, ReadResponse, ReadStopped, ReadInitialized, ReadOutput, ReadExited,
           DeliverExit, ReadTerminated, CancelStop, ReadError, RecoverDrain, RecoverFail,
           RecoverStop, RecoverFire, pipeVars, adapterVars
  <2>4. CASE (\E w \in Waits : Register(w) \/ Abandon(w)) \/ UNCHANGED vars
    BY <2>4, <1>7 DEF Register, Abandon, vars, pipeVars, adapterVars
  <2>5. QED
    BY <2>1, <2>2, <2>3, <2>4 DEF Next

\* A call in flight keeps its sender in the map until it is answered.
LEMMA SenderNotLostStep == Inv /\ [Next]_vars => SenderNotLost'
<1> SUFFICES ASSUME Inv, [Next]_vars, NEW c \in Calls,
                    pc'[c] \in InFlight, chan'[c].tag = "empty"
             PROVE  [seq |-> seqOf'[c], call |-> c] \in pending' \/ c \in drained'
  BY DEF SenderNotLost
<1> USE DEF Inv, Invariants
<1>1. CASE Begin(c)
  BY <1>1 DEF Begin, RegisterPending
<1>2. CASE ~ Begin(c)
  <2> DEFINE e == [seq |-> seqOf[c], call |-> c]
  <2>1. pc[c] \in InFlight /\ seqOf'[c] = seqOf[c]
    <3>1. ASSUME NEW d \in Calls, Call(d) PROVE pc[c] \in InFlight /\ seqOf'[c] = seqOf[c]
      BY <1>2, <3>1 DEF Call, Begin, TakeSeq, WriteHeader, WriteBody, WriteFails, WaitInitialized,
                        Resolve, Cancel, InFlight, TypeOK, ChanValues
    <3>2. QED
      BY <3>1, OnlyCalls
  <2>2. chan[c].tag = "empty"
    <3>1. CASE ReadResponse
      <4>1. chan'[c] = Ok(c) \/ chan'[c] = chan[c]
        BY <3>1, ResponseMeets
      <4>2. QED
        BY <4>1 DEF Ok
    <3>2. CASE RecoverFail
      BY <3>2, FailMeets DEF Closed
    <3>3. QED
      BY <3>1, <3>2, OnlyChan
  <2>3. e \in pending \/ c \in drained
    BY <2>1, <2>2 DEF SenderNotLost
  <2>4. CASE c \in drained
    <3>1. ~ RecoverFail
      BY <2>1, <2>4, FailMeets DEF Closed
    <3>2. ~ RecoverDrain
      BY <2>4 DEF RecoverDrain, SenderInv
    <3>3. QED
      BY <2>4, <3>1, <3>2, OnlyDrained
  <2>5. CASE e \in pending
    <3>1. CASE ReadResponse
      <4>1. e # [seq |-> Head(inbox).seq, call |-> Head(inbox).call]
        <5>1. SUFFICES ASSUME e = [seq |-> Head(inbox).seq, call |-> Head(inbox).call]
                       PROVE  FALSE
          OBVIOUS
        <5>2. c = Head(inbox).call
          BY <5>1
        <5>3. chan'[c] = Ok(c)
          BY <2>1, <2>5, <3>1, <5>1, <5>2, ResponseMeets
        <5>4. QED
          BY <5>3 DEF Ok
      <4>2. QED
        BY <2>1, <2>5, <3>1, <4>1, ResponseMeets
    <3>2. CASE RecoverDrain
      BY <2>5, <3>2 DEF RecoverDrain
    <3>3. ASSUME NEW d \in Calls, Begin(d) PROVE e \in pending'
      <4>1. seqOf[c] # seqOf'[d]
        <5>1. seqOf[c] <= seq /\ seqOf[c] \in Nat /\ seq \in Nat
          BY <2>1 DEF SeqInv, Begun, InFlight, TypeOK
        <5>2. seqOf'[d] = seq + 1
          BY <3>3 DEF Begin, TakeSeq, TypeOK
        <5>3. QED
          BY <5>1, <5>2
      <4>2. QED
        BY <2>5, <3>3, <4>1 DEF Begin, RegisterPending
    <3>4. ASSUME NEW d \in Calls, WriteFails(d) \/ Cancel(d) PROVE e \in pending'
      <4>1. d # c
        BY <3>4 DEF WriteFails, Cancel, InFlight, TypeOK
      <4>2. seqOf[c] # seqOf[d]
        BY <2>1, <3>4, <4>1 DEF SeqInv, Begun, WriteFails, Cancel, InFlight
      <4>3. QED
        BY <2>5, <3>4, <4>2 DEF WriteFails, Cancel, AbortGuardDrop, RemovePending
    <3>5. QED
      BY <2>1, <2>5, <3>1, <3>2, <3>3, <3>4, OnlyPending
  <2>6. QED
    BY <2>3, <2>4, <2>5
<1>3. QED
  BY <1>1, <1>2

\* The end of a send or of a dual await takes its entry along.
LEMMA NoLeakStep == Inv /\ [Next]_vars => NoLeakedEntry'
<1> SUFFICES ASSUME Inv, [Next]_vars, NEW p \in pending'
             PROVE  \/ pc'[p.call] \in InFlight
                    \/ pc'[p.call] = "dropped" /\ kind'[p.call] # "send"
  BY DEF NoLeakedEntry
<1> USE DEF Inv, Invariants
<1>1. Owned(p)' /\ chan'[p.call] = Empty /\ TypeOK'
  BY SenderStep, TypeStep DEF SenderInv
<1>2. CASE p \in pending
  <2>1. p.call \in Calls /\ p.seq = seqOf[p.call]
    BY <1>2 DEF SenderInv, Owned
  <2>2. \/ pc[p.call] \in InFlight
        \/ pc[p.call] = "dropped" /\ kind[p.call] # "send"
    BY <1>2 DEF NoLeakedEntry
  <2>3. ASSUME NEW c \in Calls, Call(c)
        PROVE  \/ pc'[p.call] \in InFlight
               \/ pc'[p.call] = "dropped" /\ kind'[p.call] # "send"
    <3>1. CASE c # p.call \/ Begin(c) \/ WriteHeader(c) \/ WriteBody(c) \/ WaitInitialized(c)
      BY <2>1, <2>2, <2>3, <3>1
         DEF Call, Begin, WriteHeader, WriteBody, WriteFails, WaitInitialized, Resolve, Cancel,
             InFlight, TypeOK
    <3>2. CASE c = p.call /\ WriteFails(c)
      BY <2>1, <3>2 DEF WriteFails, RemovePending
    <3>3. CASE c = p.call /\ Resolve(c)
      BY <1>2, <3>3 DEF Resolve, SenderInv, Empty
    <3>4. CASE c = p.call /\ Cancel(c)
      <4>1. ~ armed[c]
        BY <2>1, <3>4 DEF Cancel, AbortGuardDrop, RemovePending
      <4>2. kind[c] # "send"
        BY <3>4, <4>1 DEF Cancel, ArmedInv
      <4>3. QED
        BY <3>4, <4>2 DEF Cancel, TypeOK
    <3>5. QED
      BY <2>3, <3>1, <3>2, <3>3, <3>4 DEF Call
  <2>4. QED
    BY <2>2, <2>3, OnlyCalls
<1>3. CASE p \notin pending
  <2>1. PICK c \in Calls : Begin(c) /\ p.call = c
    <3>1. CASE ReadResponse
      BY <1>3, <3>1, ResponseMeets
    <3>2. QED
      BY <1>3, <3>1, OnlyPending
         DEF Begin, RegisterPending, WriteFails, Cancel, AbortGuardDrop, RemovePending, RecoverDrain
  <2>2. QED
    BY <2>1 DEF Begin, TypeOK, InFlight
<1>4. QED
  BY <1>2, <1>3

\* The last registration that still waits is the one in the slot.
LEMMA WaiterStep == Inv /\ [Next]_vars => WaiterReachable'
<1> SUFFICES ASSUME Inv, [Next]_vars PROVE WaiterReachable'
  OBVIOUS
<1> USE DEF Inv, Invariants, WaiterReachable, TypeOK
<1>1. ASSUME NEW w \in Waits, Register(w) PROVE WaiterReachable'
  BY <1>1 DEF Register
<1>2. ASSUME NEW w \in Waits, Abandon(w) PROVE WaiterReachable'
  BY <1>2 DEF Abandon
<1>3. ASSUME NEW outcome \in Outcomes, SendStop(outcome) PROVE WaiterReachable'
  BY <1>3 DEF SendStop, Outcomes
<1>4. CASE UNCHANGED stopVars
  BY <1>4 DEF stopVars
<1>5. QED
  BY <1>1, <1>2, <1>3, <1>4, OnlyStop

\* The read loop does not end without the lifecycle signal, which is sent once.
LEMMA SignalStep == Inv /\ [Next]_vars => TerminatedSignalled'
<1> SUFFICES ASSUME Inv, [Next]_vars PROVE TerminatedSignalled'
  OBVIOUS
<1>1. term # "unfired" => term' # "unfired"
  BY OnlyTerm DEF FireTerminated
<1>2. rl' = "exited" => rl = "exited" \/ FireTerminated
  BY DEF Next, vars, loopVars, Call, Begin, WriteHeader, WriteBody, WriteFails, WaitInitialized,
         Resolve, Cancel, Register, Abandon,
         ReadLoop, ReadResponse, ReadStopped, ReadInitialized, ReadOutput, ReadExited, DeliverExit,
         ReadTerminated, CancelStop, ReadError, RecoverDrain, RecoverFail, RecoverStop, RecoverFire,
         Adapter, AdapterRead, AdapterAnswer, AdapterEvent, AdapterDies
<1>3. FireTerminated => term' # "unfired"
  BY DEF FireTerminated
<1>4. QED
  BY <1>1, <1>2, <1>3 DEF Inv, Invariants, TerminatedSignalled

-----------------------------------------------------------------------------
(* The theorems *)

\* The invariant holds at first.
LEMMA InvInit == Init => Inv
<1> SUFFICES ASSUME Init PROVE Inv
  OBVIOUS
<1>1. TypeOK
  BY TypeInit
<1>2. SeqInv /\ TransitInv /\ SenderInv /\ ArmedInv
  BY DEF Init, SeqInv, TransitInv, WireInv, AskedInv, InboxInv, SenderInv, ArmedInv, Begun, InFlight
<1>3. ChanInv
  BY DEF Init, ChanInv
<1>4. MutexInv /\ FrameInv
  BY ConstAssumption DEF Init, MutexInv, FrameInv, ConstAssumption
<1>5. SenderNotLost /\ NoLeakedEntry /\ WaiterReachable /\ FramesIntact /\ TerminatedSignalled
  BY DEF Init, SenderNotLost, NoLeakedEntry, WaiterReachable, FramesIntact, TerminatedSignalled,
         InFlight
<1>6. QED
  BY <1>1, <1>2, <1>3, <1>4, <1>5 DEF Inv, Invariants

\* Every step keeps it.
LEMMA InvStep == Inv /\ [Next]_vars => Inv'
BY TypeStep, SeqStep, TransitStep, SenderStep, ChanStep, ArmedStep, MutexStep, FrameStep,
   SenderNotLostStep, NoLeakStep, WaiterStep, SignalStep
   DEF Inv, Invariants

\* So it always holds.
LEMMA InvAlways == Spec => []Inv
BY InvInit, InvStep, PTL DEF Spec

\* The client, the read loop and the adapter stay within their types.
THEOREM ClientTypes == Spec => []TypeOK
BY InvAlways, PTL DEF Inv

\* No call ever gets the answer to another call's request, however many calls
\* overlap, are cancelled or are answered late (dispatch_response).
THEOREM CallsCorrelated == Spec => []Correlated
<1>1. Inv => Correlated
  BY DEF Inv, Invariants, ChanInv, Correlated, Empty, Ok, Closed
<1>2. QED
  BY <1>1, InvAlways, PTL

\* A waiting call's sender is never dropped unused (register_pending,
\* cancel_all_pending).
THEOREM SendersKept == Spec => []SenderNotLost
BY InvAlways, PTL DEF Inv, Invariants

\* No guarded call leaves an entry in the pending map (AbortGuard).
THEOREM EntriesRemoved == Spec => []NoLeakedEntry
BY InvAlways, PTL DEF Inv, Invariants

\* The writer mutex keeps frames whole, but for a call dropped inside one (write_message).
THEOREM FramesWhole == Spec => []FramesIntact
BY InvAlways, PTL DEF Inv, Invariants

\* The next stop reaches the one that waits for it (StopWaiter).
THEOREM StopsReach == Spec => []WaiterReachable
BY InvAlways, PTL DEF Inv, Invariants

\* The read loop ends with the lifecycle signal sent (recover, fire_terminated).
THEOREM EndSignalled == Spec => []TerminatedSignalled
BY InvAlways, PTL DEF Inv, Invariants

\* A registration, a oneshot and the lifecycle signal each carry one outcome, the
\* first (StopWaiter::send, dispatch_response, fire_terminated).
THEOREM OneOutcome == Spec => DeliveredOnce
<1> DEFINE Keeps == /\ \A w \in Waits : wstate[w] \in Outcomes => wstate'[w] = wstate[w]
                    /\ \A c \in Calls : chan[c] # Empty => chan'[c] = chan[c]
                    /\ term # "unfired" => term' = term
<1>1. Inv /\ [Next]_vars => Keeps
  <2> SUFFICES ASSUME Inv, [Next]_vars PROVE Keeps
    OBVIOUS
  <2> USE DEF Inv, Invariants
  <2>1. ASSUME NEW w \in Waits, wstate[w] \in Outcomes PROVE wstate'[w] = wstate[w]
    <3>1. ASSUME NEW v \in Waits, Register(v) \/ Abandon(v) PROVE wstate'[w] = wstate[w]
      BY <2>1, <3>1 DEF Register, Abandon, Outcomes, TypeOK
    <3>2. ASSUME NEW outcome \in Outcomes, SendStop(outcome) PROVE wstate'[w] = wstate[w]
      BY <2>1, <3>2 DEF SendStop, Outcomes
    <3>3. QED
      BY <3>1, <3>2, OnlyStop DEF stopVars
  <2>2. ASSUME NEW c \in Calls, chan[c] # Empty PROVE chan'[c] = chan[c]
    <3>1. CASE ReadResponse
      BY <2>2, <3>1, ResponseMeets DEF SenderInv
    <3>2. CASE RecoverFail
      BY <2>2, <3>2, FailMeets DEF SenderInv
    <3>3. QED
      BY <3>1, <3>2, OnlyChan
  <2>3. term # "unfired" => term' = term
    BY OnlyTerm DEF FireTerminated
  <2>4. QED
    BY <2>1, <2>2, <2>3
<1>2. QED
  BY <1>1, InvAlways, PTL DEF Spec, DeliveredOnce

-----------------------------------------------------------------------------
(* The promise of Connection *)

\* A call that has handed its frame to the adapter (write_message has returned).
Sent(c) == pc[c] \notin {"idle", "lock", "body"}

\* Only the body completes a frame, only a whole frame is a request, and only a request
\* has a response.
BodySent == \A i \in 1 .. Len(wire) : wire[i].part = "body" => Sent(wire[i].call)
AskedSent == \A r \in asked : Sent(r.call)
InboxSent == \A i \in 1 .. Len(inbox) : inbox[i].type = "response" => Sent(inbox[i].call)
SentInv == BodySent /\ AskedSent /\ InboxSent

\* What the read loop has recorded before it tells the waiter.
LoopInv ==
    /\ rl = "deliver_exit" => lastExit
    /\ rl = "cancel_stop" => term # "unfired"

PromiseInv == Inv /\ SentInv /\ LoopInv

\* Once sent, sent.
LEMMA SentStays ==
    ASSUME TypeOK, [Next]_vars, NEW c \in Calls, Sent(c)
    PROVE  pc'[c] \notin {"idle", "lock", "body"}
<1>1. ASSUME NEW d \in Calls, Call(d) PROVE pc'[c] \notin {"idle", "lock", "body"}
  BY <1>1 DEF Call, Begin, WriteHeader, WriteBody, WriteFails, WaitInitialized, Resolve,
              Cancel, Sent, TypeOK, InFlight, ChanValues
<1>2. QED
  BY <1>1, OnlyCalls DEF Sent

\* A response follows the body of its request (write_message, AdapterRead).
LEMMA SentStep == PromiseInv /\ [Next]_vars => SentInv'
<1> SUFFICES ASSUME PromiseInv, [Next]_vars PROVE SentInv'
  OBVIOUS
<1> USE DEF PromiseInv, Inv
<1> DEFINE Now(c) == pc'[c] \notin {"idle", "lock", "body"}
<1>1. BodySent'
  <2>1. wire \in Seq(Chunks) /\ \A i \in 1 .. Len(wire) : wire[i].call \in Calls
    <3>1. wire \in Seq(Chunks)
      BY DEF TypeOK
    <3>2. \A i \in 1 .. Len(wire) : wire[i] \in Chunks
      BY <3>1
    <3>3. QED
      BY <3>1, <3>2 DEF Chunks
  <2>2. SUFFICES ASSUME NEW i \in 1 .. Len(wire'), wire'[i].part = "body"
                 PROVE  Now(wire'[i].call)
    BY DEF BodySent, Sent
  <2>3. ASSUME NEW j \in 1 .. Len(wire), wire'[i] = wire[j] PROVE Now(wire'[i].call)
    <3>1. Sent(wire[j].call)
      BY <2>2, <2>3 DEF SentInv, BodySent
    <3>2. QED
      BY <2>1, <2>3, <3>1, SentStays
  <2>4. ASSUME NEW c \in Calls, NEW p \in {"header", "body"}, wire' = Append(wire, Chunk(p, c)),
               p = "body" => Now(c)
        PROVE  Now(wire'[i].call)
    <3>1. Chunk(p, c) \in Chunks /\ Chunk(p, c).part = p /\ Chunk(p, c).call = c
      BY DEF TypeOK, Chunks, Chunk
    <3>2. /\ Len(wire') = Len(wire) + 1 /\ wire'[Len(wire) + 1] = Chunk(p, c)
          /\ \A j \in 1 .. Len(wire) : wire'[j] = wire[j]
      BY <2>1, <2>4, <3>1
    <3>3. i \in 1 .. Len(wire) \/ wire'[i] = Chunk(p, c)
      BY <2>1, <3>2
    <3>4. QED
      BY <2>2, <2>3, <2>4, <3>1, <3>2, <3>3
  <2>5. ASSUME NEW c \in Calls, WriteHeader(c) PROVE Now(wire'[i].call)
    BY <2>4, <2>5 DEF WriteHeader
  <2>6. ASSUME NEW c \in Calls, WriteBody(c) PROVE Now(wire'[i].call)
    BY <2>4, <2>6 DEF WriteBody, TypeOK
  <2>7. CASE AdapterRead
    <3>1. wire' = Tail(Tail(wire)) \/ wire' = <<>>
      BY <2>7, Zenon DEF AdapterRead
    <3>2. Len(wire) >= 2
      BY <2>7 DEF AdapterRead
    <3>3. wire' = Tail(Tail(wire))
      BY <2>2, <3>1
    <3>4. i + 2 \in 1 .. Len(wire) /\ wire'[i] = wire[i + 2]
      BY <2>1, <3>2, <3>3, TailTail
    <3>5. QED
      BY <2>3, <3>4
  <2>8. CASE UNCHANGED wire
    BY <2>3, <2>8
  <2>9. QED
    BY <2>5, <2>6, <2>7, <2>8, OnlyWire
<1>2. AskedSent'
  <2>1. SUFFICES ASSUME NEW r \in asked' PROVE Now(r.call)
    BY DEF AskedSent, Sent
  <2>2. CASE r \in asked
    BY <2>2, SentStays DEF SentInv, AskedSent, TypeOK
  <2>3. CASE r \notin asked
    <3>1. AdapterRead
      BY <2>3, OnlyInbox DEF Adapter, AdapterAnswer, AdapterEvent, AdapterDies
    <3>2. /\ wire[2].part = "body" /\ wire[1].call = wire[2].call
          /\ asked' = asked \cup {[seq |-> wire[1].seq, call |-> wire[1].call]}
      BY <2>3, <3>1, Zenon DEF AdapterRead
    <3>3. wire \in Seq(Chunks) /\ Len(wire) >= 2
      BY <3>1 DEF AdapterRead, TypeOK
    <3>4. wire[2].call \in Calls /\ Sent(wire[2].call)
      <4>1. wire[2] \in Chunks /\ 2 \in 1 .. Len(wire)
        BY <3>3, TailTail
      <4>2. QED
        BY <3>2, <4>1 DEF SentInv, BodySent, Chunks
    <3>5. r.call = wire[2].call
      BY <2>3, <3>2
    <3>6. QED
      BY <3>4, <3>5, SentStays
  <2>4. QED
    BY <2>2, <2>3
<1>3. InboxSent'
  <2>1. inbox \in Seq(Messages)
    BY DEF TypeOK
  <2>2. SUFFICES ASSUME NEW i \in 1 .. Len(inbox'), inbox'[i].type = "response"
                 PROVE  Now(inbox'[i].call)
    BY DEF InboxSent, Sent
  <2>3. ASSUME NEW j \in 1 .. Len(inbox), inbox'[i] = inbox[j] PROVE Now(inbox'[i].call)
    <3>1. inbox[j].call \in Calls /\ Sent(inbox[j].call)
      BY <2>2, <2>3 DEF SentInv, InboxSent, Invariants, TransitInv, InboxInv, Owned
    <3>2. QED
      BY <2>3, <3>1, SentStays
  <2>4. ASSUME NEW m \in Messages, inbox' = Append(inbox, m), m.type = "response" => Now(m.call)
        PROVE  Now(inbox'[i].call)
    <3>1. /\ Len(inbox') = Len(inbox) + 1 /\ inbox'[Len(inbox) + 1] = m
          /\ \A j \in 1 .. Len(inbox) : inbox'[j] = inbox[j]
      BY <2>1, <2>4
    <3>2. i \in 1 .. Len(inbox) \/ inbox'[i] = m
      BY <2>1, <3>1
    <3>3. QED
      BY <2>2, <2>3, <2>4, <3>1, <3>2
  <2>5. CASE AdapterAnswer
    <3>1. PICK r \in asked : inbox' = Append(inbox, Response(r.seq, r.call))
      BY <2>5 DEF AdapterAnswer
    <3>2. Response(r.seq, r.call) \in Messages /\ Response(r.seq, r.call).call = r.call
      BY DEF Response, Messages, TypeOK
    <3>3. Now(r.call)
      BY SentStays DEF SentInv, AskedSent, TypeOK
    <3>4. QED
      BY <2>4, <3>1, <3>2, <3>3
  <2>6. CASE AdapterEvent \/ AdapterDies
    <3>1. PICK e \in EventTypes \cup {"eof"} : inbox' = Append(inbox, EventMsg(e))
      BY <2>6 DEF AdapterEvent, AdapterDies
    <3>2. EventMsg(e) \in Messages /\ EventMsg(e).type # "response"
      BY DEF EventMsg, Messages, EventTypes
    <3>3. QED
      BY <2>4, <3>1, <3>2
  <2>7. CASE inbox # <<>> /\ inbox' = Tail(inbox)
    <3>1. i + 1 \in 1 .. Len(inbox) /\ inbox'[i] = inbox[i + 1]
      BY <2>1, <2>7, HeadTail
    <3>2. QED
      BY <2>3, <3>1
  <2>8. CASE UNCHANGED inbox
    BY <2>3, <2>8
  <2>9. QED
    BY <2>5, <2>6, <2>7, <2>8, OnlyInbox DEF Adapter, AdapterRead
<1>4. QED
  BY <1>1, <1>2, <1>3 DEF SentInv

\* record_exit comes before deliver_exit, fire_terminated before cancel.
LEMMA LoopStep == PromiseInv /\ [Next]_vars => LoopInv'
<1> SUFFICES ASSUME PromiseInv, [Next]_vars PROVE LoopInv'
  OBVIOUS
<1>1. CASE ReadLoop
  BY <1>1 DEF PromiseInv, LoopInv, Received, FireTerminated,
     ReadLoop, ReadResponse, ReadStopped, ReadInitialized, ReadOutput, ReadExited, DeliverExit,
     ReadTerminated, CancelStop, ReadError, RecoverDrain, RecoverFail, RecoverStop, RecoverFire,
     loopVars
<1>2. CASE ~ ReadLoop
  <2>1. UNCHANGED loopVars
    BY <1>2 DEF Next, vars, loopVars, Call, Begin, WriteHeader, WriteBody, WriteFails,
       WaitInitialized, Resolve, Cancel, Register, Abandon,
       Adapter, AdapterRead, AdapterAnswer, AdapterEvent, AdapterDies
  <2>2. QED
    BY <2>1 DEF PromiseInv, LoopInv, loopVars
<1>3. QED
  BY <1>1, <1>2

\* At first nobody has been promised anything.
LEMMA PromiseInit == Init => PromiseInv /\ Promise!Init
<1> SUFFICES ASSUME Init PROVE PromiseInv /\ Promise!Init
  OBVIOUS
<1>1. PromiseInv
  BY InvInit DEF PromiseInv, SentInv, BodySent, AskedSent, InboxSent, LoopInv, Init
<1>2. Promise!Init
  BY DEF Promise!Init, Init, Progress, Stage, Doomed
<1>3. QED
  BY <1>1, <1>2

\* What the callers see of a step that writes one program counter.
LEMMA Moves ==
    ASSUME TypeOK, NEW c \in Calls, NEW p, pc' = [pc EXCEPT ![c] = p],
           NEW q, q = (CASE p \in {"lock", "body"} -> "writing"
                         [] p = "await" -> "waiting"
                         [] p \in {"ok", "closed"} -> "returned"
                         [] p = "send_error" -> "failed"
                         [] OTHER -> p)
    PROVE  Progress' = [Progress EXCEPT ![c] = q]
BY DEF Progress, TypeOK

\* The calls recovery still owes a notice are fewer by those that are over.
LEMMA OwedLess ==
    ASSUME TypeOK, NEW c \in Calls, NEW p, pc' = [pc EXCEPT ![c] = p], drained' = drained,
           p \notin InFlight
    PROVE  Doomed' = Doomed \ {c}
BY DEF Doomed, TypeOK

\* Those that go on are still owed it.
LEMMA OwedSame ==
    ASSUME TypeOK, NEW c \in Calls, NEW p, pc' = [pc EXCEPT ![c] = p], drained' = drained,
           p \in InFlight, c \in drained => pc[c] \in InFlight
    PROVE  Doomed' = Doomed
BY DEF Doomed, TypeOK

\* Each step of a call is one the callers see, or none.
LEMMA CallRefines ==
    ASSUME Inv, NEW c \in Calls, Call(c)
    PROVE  [Promise!Next]_(Promise!vars)
<1> USE DEF Inv
<1>1. UNCHANGED <<wstate, lastExit, term, chan, rl, drained>> /\ Stage' = Stage
  BY DEF Call, Begin, WriteHeader, WriteBody, WriteFails, WaitInitialized, Resolve, Cancel,
         loopVars, stopVars, Stage
<1>2. c \in drained => pc[c] # "idle" /\ chan[c] = Empty
  BY DEF Invariants, SenderInv, Begun
<1>3. CASE Begin(c)
  <2>1. pc[c] = "idle" /\ pc' = [pc EXCEPT ![c] = "lock"]
    BY <1>3 DEF Begin
  <2>2. Progress[c] = "idle" /\ Progress' = [Progress EXCEPT ![c] = "writing"]
    BY <2>1, Moves DEF Progress
  <2>3. Doomed' = Doomed
    BY <1>1, <1>2, <2>1, OwedSame DEF InFlight
  <2>4. Promise!Begin(c)
    BY <1>1, <2>2, <2>3 DEF Promise!Begin, Promise!Go, Promise!streamVars
  <2>5. QED
    BY <2>4 DEF Promise!Next
<1>4. CASE WriteHeader(c)
  <2>1. pc[c] = "lock" /\ pc' = [pc EXCEPT ![c] = "body"]
    BY <1>4 DEF WriteHeader
  <2>2. Progress' = Progress
    BY <2>1 DEF Progress, TypeOK
  <2>3. Doomed' = Doomed
    BY <1>1, <2>1, OwedSame DEF InFlight
  <2>4. QED
    BY <1>1, <2>2, <2>3 DEF Promise!vars
<1>5. CASE WriteBody(c)
  <2>1. pc[c] = "body" /\ pc' = [pc EXCEPT ![c] = "await"]
    BY <1>5 DEF WriteBody
  <2>2. Progress[c] = "writing" /\ Progress' = [Progress EXCEPT ![c] = "waiting"]
    BY <2>1, Moves DEF Progress
  <2>3. Doomed' = Doomed
    BY <1>1, <2>1, OwedSame DEF InFlight
  <2>4. Promise!Send(c)
    BY <1>1, <2>2, <2>3 DEF Promise!Send, Promise!Go, Promise!streamVars
  <2>5. QED
    BY <2>4 DEF Promise!Next
<1>6. CASE WriteFails(c)
  <2>1. pc[c] \in {"lock", "body"} /\ pc' = [pc EXCEPT ![c] = "send_error"]
    BY <1>6 DEF WriteFails
  <2>2. Progress[c] = "writing" /\ Progress' = [Progress EXCEPT ![c] = "failed"]
    <3>1. Progress[c] = "writing"
      BY <2>1 DEF Progress
    <3>2. Progress' = [Progress EXCEPT ![c] = "failed"]
      BY <2>1, Moves
    <3>3. QED
      BY <3>1, <3>2
  <2>3. Doomed' = Doomed \ {c}
    <3>1. pc' = [pc EXCEPT ![c] = "send_error"] /\ "send_error" \notin InFlight
      BY <2>1 DEF InFlight
    <3>2. QED
      BY <1>1, <3>1, OwedLess
  <2>4. Promise!Fail(c)
    BY <1>1, <2>2, <2>3 DEF Promise!Fail, Promise!Go, Promise!streamVars
  <2>5. QED
    BY <2>4 DEF Promise!Next
<1>7. CASE WaitInitialized(c)
  BY <1>1, <1>7 DEF WaitInitialized, Progress, Doomed, Promise!vars
<1>8. CASE Resolve(c)
  <2>1. pc[c] = "await" /\ pc' = [pc EXCEPT ![c] = chan[c].tag] /\ chan[c].tag # "empty"
    BY <1>8 DEF Resolve
  <2>2. chan[c] # Empty /\ chan[c].tag \in {"ok", "closed"}
    BY <2>1 DEF Empty, TypeOK, ChanValues
  <2>3. Progress[c] = "waiting" /\ Progress' = [Progress EXCEPT ![c] = "returned"]
    BY <2>1, <2>2, Moves DEF Progress
  <2>4. Doomed' = Doomed
    <3>1. Doomed' = Doomed \ {c}
      BY <1>1, <2>1, <2>2, OwedLess DEF InFlight
    <3>2. c \notin Doomed
      BY <1>2, <2>2 DEF Doomed
    <3>3. QED
      BY <3>1, <3>2
  <2>5. Promise!Return(c)
    BY <1>1, <2>2, <2>3, <2>4 DEF Promise!Return, Promise!Go, Promise!streamVars
  <2>6. QED
    BY <2>5 DEF Promise!Next
<1>9. CASE Cancel(c)
  <2>1. pc[c] \in InFlight /\ pc' = [pc EXCEPT ![c] = "dropped"]
    BY <1>9 DEF Cancel
  <2>2. Progress[c] \in {"writing", "waiting"} /\ Progress' = [Progress EXCEPT ![c] = "dropped"]
    <3>1. Progress[c] \in {"writing", "waiting"}
      BY <2>1 DEF Progress, InFlight
    <3>2. Progress' = [Progress EXCEPT ![c] = "dropped"]
      BY <2>1, Moves
    <3>3. QED
      BY <3>1, <3>2
  <2>3. Doomed' = Doomed \ {c}
    <3>1. pc' = [pc EXCEPT ![c] = "dropped"] /\ "dropped" \notin InFlight
      BY <2>1 DEF InFlight
    <3>2. QED
      BY <1>1, <3>1, OwedLess
  <2>4. Promise!Drop(c)
    BY <1>1, <2>2, <2>3 DEF Promise!Drop, Promise!Go, Promise!streamVars
  <2>5. QED
    BY <2>4 DEF Promise!Next
<1>10. QED
  BY <1>3, <1>4, <1>5, <1>6, <1>7, <1>8, <1>9 DEF Call

\* What is sent into the slot reaches whoever waits, the one of the slot.
LEMMA TellMeets ==
    ASSUME Inv, NEW outcome, SendStop(outcome)
    PROVE  Promise!Tell(outcome)
BY DEF Inv, Invariants, WaiterReachable, SendStop, Promise!Tell

\* So do the steps of a registration.
LEMMA WaitRefines ==
    ASSUME Inv, NEW w \in Waits, Register(w) \/ Abandon(w)
    PROVE  [Promise!Next]_(Promise!vars)
<1>1. UNCHANGED <<Progress, chan, Stage, Doomed, lastExit, term>>
  BY DEF Register, Abandon, callVars, loopVars, Progress, Stage, Doomed
<1>2. CASE Register(w)
  <2>1. \A v \in Waits : v # w => (wstate[v] = "waiting" <=> v = slot /\ wstate[v] = "waiting")
    BY DEF Inv, Invariants, WaiterReachable
  <2>2. Promise!Wait(w)
    BY <1>1, <1>2, <2>1 DEF Register, Promise!Wait
  <2>3. QED
    BY <2>2 DEF Promise!Next
<1>3. CASE Abandon(w)
  <2>1. Promise!StopWaiting(w)
    BY <1>1, <1>3 DEF Abandon, Promise!StopWaiting
  <2>2. QED
    BY <2>1 DEF Promise!Next
<1>4. QED
  BY <1>2, <1>3

\* And those of the read loop.
LEMMA LoopRefines ==
    ASSUME PromiseInv, ReadLoop
    PROVE  [Promise!Next]_(Promise!vars)
<1> USE DEF PromiseInv, Inv
<1>1. Progress' = Progress /\ pc' = pc
  BY DEF Progress, ReadLoop, ReadResponse, ReadStopped, ReadInitialized, ReadOutput, ReadExited,
         DeliverExit, ReadTerminated, CancelStop, ReadError, RecoverDrain, RecoverFail,
         RecoverStop, RecoverFire, callVars
<1>2. Stage = "open" => drained = {}
  BY DEF Stage, Invariants, SenderInv
<1>3. CASE ReadResponse
  <2> DEFINE m == Head(inbox)
             e == [seq |-> m.seq, call |-> m.call]
  <2>1. /\ Owned(m)
        /\ \A c \in Calls : chan'[c] = IF c = m.call /\ e \in pending /\ pc[c] \in InFlight
                                       THEN Ok(c) ELSE chan[c]
    BY <1>3, ResponseMeets
  <2>2. rl = "run" /\ UNCHANGED <<Stage, Doomed, wstate, lastExit, term>>
    BY <1>3 DEF ReadResponse, Received, Stage, Doomed, loopVars, stopVars
  <2>3. chan = [c \in Calls |-> chan[c]] /\ chan' = [c \in Calls |-> chan'[c]]
    BY <1>3 DEF TypeOK, ReadResponse, SendTo
  <2>4. CASE e \in pending /\ pc[m.call] \in InFlight
    <3>1. m.call \in Calls /\ chan[m.call] = Empty
      BY <2>1, <2>4 DEF Invariants, SenderInv, Owned
    <3>2. Sent(m.call)
      <4>1. inbox \in Seq(Messages) /\ inbox # <<>> /\ m.type = "response"
        BY <1>3 DEF TypeOK, ReadResponse, Received
      <4>2. m = inbox[1] /\ 1 \in 1 .. Len(inbox)
        BY <4>1, HeadTail
      <4>3. QED
        BY <4>1, <4>2 DEF SentInv, InboxSent
    <3>3. Progress[m.call] = "waiting" /\ Stage = "open"
      BY <2>2, <2>4, <3>1, <3>2 DEF Sent, InFlight, Progress, Stage
    <3>4. chan' = [chan EXCEPT ![m.call] = Ok(m.call)]
      BY <2>1, <2>3, <2>4, <3>1
    <3>5. Promise!Answered(m.call)
      BY <1>1, <2>2, <3>1, <3>3, <3>4 DEF Promise!Answered, Promise!streamVars
    <3>6. QED
      BY <3>1, <3>5 DEF Promise!Next
  <2>5. CASE ~ (e \in pending /\ pc[m.call] \in InFlight)
    <3>1. chan' = chan
      BY <2>1, <2>3, <2>5
    <3>2. QED
      BY <1>1, <2>2, <3>1 DEF Promise!vars
  <2>6. QED
    BY <2>4, <2>5
<1>4. ASSUME NEW outcome \in Outcomes, SendStop(outcome), rl' = "run",
             rl \in {"run", "deliver_exit", "cancel_stop"},
             UNCHANGED <<chan, drained, lastExit, term>>,
             outcome = "exited" => lastExit, outcome = "terminated" => term # "unfired"
      PROVE  [Promise!Next]_(Promise!vars)
  <2>1. Stage = "open" /\ Stage' = Stage /\ Doomed' = Doomed
    BY <1>1, <1>4 DEF Stage, Doomed
  <2>2. Promise!Hear(outcome)
    BY <1>1, <1>4, <2>1, TellMeets DEF Promise!Hear
  <2>3. QED
    BY <2>2 DEF Promise!Next, Outcomes
<1>5. CASE ReadStopped
  BY <1>4, <1>5 DEF ReadStopped, Received, callVars, loopVars, Outcomes
<1>6. CASE DeliverExit
  BY <1>4, <1>6 DEF DeliverExit, callVars, LoopInv, Outcomes
<1>7. CASE CancelStop
  BY <1>4, <1>7 DEF CancelStop, callVars, LoopInv, Outcomes
<1>8. CASE ReadInitialized \/ ReadOutput \/ ReadError
  <2>1. /\ UNCHANGED <<chan, drained, lastExit, term, wstate>>
        /\ rl = "run" /\ rl' \in {"run", "drain"}
    BY <1>8 DEF ReadInitialized, ReadOutput, ReadError, Received, callVars, loopVars, stopVars
  <2>2. Stage' = Stage /\ Doomed' = Doomed
    BY <1>1, <2>1 DEF Stage, Doomed
  <2>3. QED
    BY <1>1, <2>1, <2>2 DEF Promise!vars
<1>9. CASE ReadExited
  <2>1. /\ UNCHANGED <<chan, drained, term, wstate>> /\ lastExit' = TRUE
        /\ rl = "run" /\ rl' = "deliver_exit"
    BY <1>9 DEF ReadExited, Received, callVars, stopVars
  <2>2. Stage = "open" /\ Stage' = Stage /\ Doomed' = Doomed
    BY <1>1, <2>1 DEF Stage, Doomed
  <2>3. Promise!Exit
    BY <1>1, <2>1, <2>2 DEF Promise!Exit
  <2>4. QED
    BY <2>3 DEF Promise!Next
<1>10. CASE ReadTerminated
  <2>1. /\ UNCHANGED <<chan, drained, lastExit, wstate>> /\ FireTerminated
        /\ rl = "run" /\ rl' = "cancel_stop"
    BY <1>10 DEF ReadTerminated, Received, callVars, stopVars
  <2>2. Stage = "open" /\ Stage' = Stage /\ Doomed' = Doomed
    BY <1>1, <2>1 DEF Stage, Doomed
  <2>3. Promise!Terminated
    BY <1>1, <2>1, <2>2 DEF Promise!Terminated, Promise!Announce, FireTerminated
  <2>4. QED
    BY <2>3 DEF Promise!Next
<1>11. CASE RecoverDrain
  <2>1. /\ UNCHANGED <<chan, wstate, lastExit, term>> /\ rl = "drain" /\ rl' = "fail"
        /\ drained' = {p.call : p \in pending}
    BY <1>11 DEF RecoverDrain, callVars, stopVars
  <2>2. Stage = "open" /\ Stage' = "broken"
    BY <2>1 DEF Stage
  <2>3. ASSUME NEW c \in Calls
        PROVE  c \in Doomed' <=> Progress[c] \in {"writing", "waiting"} /\ chan[c] = Empty
    <3>1. Progress[c] \in {"writing", "waiting"} <=> pc[c] \in InFlight
      <4>1. Progress[c] = (CASE pc[c] \in {"lock", "body"} -> "writing"
                             [] pc[c] = "await" -> "waiting"
                             [] pc[c] \in {"ok", "closed"} -> "returned"
                             [] pc[c] = "send_error" -> "failed"
                             [] OTHER -> pc[c])
        BY DEF Progress
      <4>2. pc[c] \in {"idle", "lock", "body", "await", "ok", "closed", "send_error", "dropped"}
        BY DEF InFlight, TypeOK, Finished
      <4>3. QED
        BY <4>1, <4>2 DEF InFlight
    <3>2. pc[c] \in InFlight /\ chan[c] = Empty => \E p \in pending : p.call = c
      <4>1. chan[c] = Empty => chan[c].tag = "empty"
        BY DEF Empty
      <4>2. c \notin drained
        BY <1>2, <2>2
      <4>3. QED
        BY <4>1, <4>2 DEF Invariants, SenderNotLost
    <3>3. (\E p \in pending : p.call = c) => chan[c] = Empty
      BY DEF Invariants, SenderInv
    <3>4. c \in Doomed' <=> (\E p \in pending : p.call = c) /\ pc[c] \in InFlight
      BY <1>1, <2>1 DEF Doomed
    <3>5. QED
      BY <3>1, <3>2, <3>3, <3>4
  <2>4. Doomed' \subseteq Calls
    BY <2>1 DEF Doomed, TypeOK
  <2>5. Doomed' = {c \in Calls : Progress[c] \in {"writing", "waiting"} /\ chan[c] = Empty}
    BY <2>3, <2>4
  <2>6. Promise!Break
    BY <1>1, <2>1, <2>2, <2>5 DEF Promise!Break
  <2>7. QED
    BY <2>6 DEF Promise!Next
<1>12. CASE RecoverFail
  <2>1. /\ UNCHANGED <<wstate, lastExit, term>> /\ rl = "fail" /\ rl' = "stop" /\ drained' = {}
        /\ chan' = [c \in Calls |-> IF c \in drained /\ pc[c] \in InFlight THEN Closed ELSE chan[c]]
    BY <1>12 DEF RecoverFail, SendTo, stopVars
  <2>2. Stage = "broken" /\ Stage' = "calls_told" /\ Doomed' = {}
    BY <2>1 DEF Stage, Doomed
  <2>3. chan' = [c \in Calls |-> IF c \in Doomed THEN Closed ELSE chan[c]]
    BY <2>1 DEF Doomed
  <2>4. Promise!TellCalls
    BY <1>1, <2>1, <2>2, <2>3 DEF Promise!TellCalls
  <2>5. QED
    BY <2>4 DEF Promise!Next
<1>13. CASE RecoverStop
  <2>1. /\ UNCHANGED <<chan, drained, lastExit, term>> /\ SendStop("terminated")
        /\ rl = "stop" /\ rl' = "fire"
    BY <1>13 DEF RecoverStop, callVars
  <2>2. Stage = "calls_told" /\ Stage' = "waits_told" /\ Doomed' = Doomed
    BY <1>1, <2>1 DEF Stage, Doomed
  <2>3. Promise!TellWaits
    BY <1>1, <2>1, <2>2, TellMeets DEF Promise!TellWaits
  <2>4. QED
    BY <2>3 DEF Promise!Next
<1>14. CASE RecoverFire
  <2>1. /\ UNCHANGED <<chan, drained, lastExit, wstate>> /\ FireTerminated
        /\ rl = "fire" /\ rl' = "exited"
    BY <1>14 DEF RecoverFire, callVars, stopVars
  <2>2. Stage = "waits_told" /\ Stage' = "over" /\ Doomed' = Doomed
    BY <1>1, <2>1 DEF Stage, Doomed
  <2>3. Promise!End
    BY <1>1, <2>1, <2>2 DEF Promise!End, Promise!Announce, FireTerminated
  <2>4. QED
    BY <2>3 DEF Promise!Next
<1>15. QED
  BY <1>3, <1>5, <1>6, <1>7, <1>8, <1>9, <1>10, <1>11, <1>12, <1>13, <1>14 DEF ReadLoop

\* Nobody sees a step of the adapter.
LEMMA PromiseStep == PromiseInv /\ [Next]_vars => PromiseInv' /\ [Promise!Next]_(Promise!vars)
<1> SUFFICES ASSUME PromiseInv, [Next]_vars PROVE PromiseInv' /\ [Promise!Next]_(Promise!vars)
  OBVIOUS
<1>1. PromiseInv'
  BY InvStep, SentStep, LoopStep DEF PromiseInv
<1>2. CASE Adapter \/ UNCHANGED vars
  <2>1. UNCHANGED <<pc, chan, rl, drained, wstate, lastExit, term>>
    BY <1>2 DEF Adapter, AdapterRead, AdapterAnswer, AdapterEvent, AdapterDies, vars, callVars,
       stopVars, loopVars
  <2>2. UNCHANGED <<Progress, Stage, Doomed>>
    BY <2>1 DEF Progress, Stage, Doomed
  <2>3. QED
    BY <1>1, <2>1, <2>2 DEF Promise!vars
<1>3. QED
  BY <1>1, <1>2, CallRefines, WaitRefines, LoopRefines DEF Next, PromiseInv

\* The client keeps the promise of Connection for any number of calls, registrations and
\* events: each step of calls, slot, read loop and recovery is one step of it or none
\* (Client, StopWaiter, run, recover).
THEOREM PromiseKept == Spec => KeepsPromise
<1>1. Spec => []PromiseInv
  BY PromiseInit, PromiseStep, PTL DEF Spec
<1>2. QED
  BY PromiseInit, PromiseStep, <1>1, PTL DEF Spec, KeepsPromise, Promise!Spec

=============================================================================
