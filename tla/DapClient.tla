----------------------------- MODULE DapClient -----------------------------
(***************************************************************************)
(* The DAP transport of crate dap-client: the request/response correlation *)
(* of client.rs, the single-slot stop waiter of stop_waiter.rs, the read   *)
(* loop with its EOF recovery of read_loop.rs and the framing of wire.rs,  *)
(* against an adapter (lldb-dap) that answers, emits events, sends         *)
(* something unreadable or dies whenever it likes.                         *)
(*                                                                         *)
(* The runtime is multi-threaded, so the unit of interleaving is one       *)
(* critical section (pending map, stop slot, initialized signal) or one    *)
(* write to the pipe, not one await.                                       *)
(***************************************************************************)
EXTENDS Naturals, Sequences, FiniteSets

CONSTANTS
    Calls,      \* the client calls, each made at most once
    Waits,      \* the stop-waiter registrations, each made at most once
    NoWait,     \* the empty stop slot
    NoCall,     \* no call: free writer mutex, empty initialized slot
    KindChoices, \* the method each call may be of, one function per choice
    Budget      \* bounds, per choice: the adapter's events and the registrations

ASSUME ConstAssumption ==
    /\ NoWait \notin Waits
    /\ NoCall \notin Calls
    /\ KindChoices \subseteq [Calls -> {"send", "async", "both", "none"}]
    /\ Budget \in [KindChoices -> [events : Nat, waits : SUBSET Waits]]

VARIABLES
    seq,        \* Shared::seq, the last sequence number handed out
    kind,       \* which Client method the call is: send, send_async, send_and_await_both
    pc,         \* where the call's future is
    seqOf,      \* the sequence number stamped on the call's request
    armed,      \* whether an AbortGuard will remove the call's entry on drop
    pending,    \* Shared::pending, one [seq, call] per registered oneshot sender
    chan,       \* what has been sent into the call's oneshot
    initWait,   \* the call's wait_initialized: "no", "parked" or "resolved"
    writer,     \* the holder of the writer mutex
    wire,       \* what has been written to the adapter's stdin and not read
    torn,       \* the calls dropped between two writes of their frame
    slot,       \* StopWaiter::slot
    wstate,     \* what the receiver of each registration has seen
    fired,      \* InitializedSignal::fired
    initSlot,   \* InitializedSignal::waiter
    rl,         \* where the read loop is
    drained,    \* the senders cancel_all_pending took and has not used yet
    lastExit,   \* Sinks::last_exit_code has been recorded
    term,       \* the terminated oneshot: "unfired", or what it carried
    adapter,    \* "up", "lost" (cannot parse our stream any more) or "down"
    asked,      \* the requests the adapter has read and not answered
    inbox,      \* what the adapter has written and the read loop not read
    events      \* how many events the adapter has sent

callVars == <<seq, kind, pc, seqOf, armed, chan, initWait>>
stopVars == <<slot, wstate>>
initVars == <<fired, initSlot>>
pipeVars == <<writer, wire, torn>>
loopVars == <<rl, drained, lastExit, term>>
adapterVars == <<adapter, asked, inbox, events>>
vars == <<callVars, pending, stopVars, initVars, pipeVars, loopVars, adapterVars>>

Kinds == {"send", "async", "both", "none"}    \* "none": a call not made
\* The points at which a call's future can be suspended, hence dropped.
InFlight == {"lock", "body", "await"}
Finished == {"ok", "closed", "send_error", "dropped"}
Outcomes == {"stopped", "exited", "terminated"}

\* What travels from the adapter to the read loop.
Response(s, c) == [type |-> "response", seq |-> s, call |-> c]
EventTypes == {"stopped", "initialized", "output", "exited", "terminated", "garbage"}
EventMsg(e) == [type |-> e, seq |-> 0, call |-> NoCall]
\* What makes read_message fail: end of file, a bad header, a short body, bad JSON.
Unreadable == {"garbage", "eof"}
Messages == [type : EventTypes \cup {"response", "eof"}, seq : Nat, call : Calls \cup {NoCall}]

\* One write_all of write_message: the header line or the JSON body.
Chunks == [part : {"header", "body"}, call : Calls, seq : Nat]
Chunk(p, c) == [part |-> p, call |-> c, seq |-> seqOf[c]]

\* A oneshot the call waits on: empty, or the response to one of the requests, or Err(Closed).
Empty == [tag |-> "empty", call |-> NoCall]
Ok(c) == [tag |-> "ok", call |-> c]
Closed == [tag |-> "closed", call |-> NoCall]
ChanValues == [tag : {"empty", "ok", "closed"}, call : Calls \cup {NoCall}]

TypeOK ==
    /\ seq \in Nat
    /\ kind \in [Calls -> Kinds]
    /\ pc \in [Calls -> {"idle"} \cup InFlight \cup Finished]
    /\ seqOf \in [Calls -> Nat]
    /\ armed \in [Calls -> BOOLEAN]
    /\ pending \in SUBSET [seq : Nat, call : Calls]
    /\ chan \in [Calls -> ChanValues]
    /\ initWait \in [Calls -> {"no", "parked", "resolved"}]
    /\ writer \in Calls \cup {NoCall}
    /\ wire \in Seq(Chunks)
    /\ torn \in SUBSET Calls
    /\ slot \in Waits \cup {NoWait}
    /\ wstate \in [Waits -> {"idle", "waiting", "replaced", "abandoned"} \cup Outcomes]
    /\ fired \in BOOLEAN
    /\ initSlot \in Calls \cup {NoCall}
    /\ rl \in {"run", "deliver_exit", "cancel_stop", "drain", "fail", "stop", "fire", "exited"}
    /\ drained \in SUBSET Calls
    /\ lastExit \in BOOLEAN
    /\ term \in {"unfired", "code", "no_code"}
    /\ adapter \in {"up", "lost", "down"}
    /\ asked \in SUBSET [seq : Nat, call : Calls]
    /\ inbox \in Seq(Messages)
    /\ events \in Nat

Init ==
    /\ seq = 0
    /\ kind \in KindChoices
    /\ pc = [c \in Calls |-> "idle"]
    /\ seqOf = [c \in Calls |-> 0]
    /\ armed = [c \in Calls |-> FALSE]
    /\ pending = {}
    /\ chan = [c \in Calls |-> Empty]
    /\ initWait = [c \in Calls |-> "no"]
    /\ writer = NoCall
    /\ wire = <<>>
    /\ torn = {}
    /\ slot = NoWait
    /\ wstate = [w \in Waits |-> "idle"]
    /\ fired = FALSE
    /\ initSlot = NoCall
    /\ rl = "run"
    /\ drained = {}
    /\ lastExit = FALSE
    /\ term = "unfired"
    /\ adapter = "up"
    /\ asked = {}
    /\ inbox = <<>>
    /\ events = 0

-----------------------------------------------------------------------------
(* The pending map (client.rs, impl Shared) *)

\* HashMap::insert: an entry with the same key is replaced.
RegisterPending(s, c) == {p \in pending : p.seq # s} \cup {[seq |-> s, call |-> c]}

\* HashMap::remove: idempotent, the entry may already be gone.
RemovePending(s) == {p \in pending : p.seq # s}

\* MUTANT of TakeSeq: a load and a store instead of fetch_add, an update may be lost.
TakeSeqRacy(c) ==
    /\ seq' \in {seq, seq + 1}
    /\ seqOf' = [seqOf EXCEPT ![c] = seq + 1]

\* MUTANT of TakeSeq: the counter runs downwards.
TakeSeqDown(c) ==
    /\ seq' = seq - 1
    /\ seqOf' = [seqOf EXCEPT ![c] = seq - 1]

\* next_seq: fetch_add, so no two calls read the same value.
TakeSeq(c) ==
    /\ seq' = seq + 1
    /\ seqOf' = [seqOf EXCEPT ![c] = seq + 1]

\* MUTANT of AbortGuardDrop: the guard was disarmed before the await.
AbortGuardDropNothing(c) == pending' = pending

\* MUTANT of AbortGuardDrop: the guard cleans the whole map.
AbortGuardDropAll(c) == pending' = IF armed[c] THEN {} ELSE pending

\* Dropping a future whose AbortGuard is armed removes its entry; without a
\* guard (send_async) the entry stays.
AbortGuardDrop(c) == pending' = IF armed[c] THEN RemovePending(seqOf[c]) ELSE pending

-----------------------------------------------------------------------------
(* A client call: send, send_async or send_and_await_both (client.rs) *)

\* Assign the sequence number and register the sender; send arms its guard
\* before it writes, the other two have none while they write.
Begin(c) ==
    /\ pc[c] = "idle" /\ kind[c] # "none"
    /\ TakeSeq(c)
    /\ pending' = RegisterPending(seqOf'[c], c)
    /\ armed' = [armed EXCEPT ![c] = (kind[c] = "send")]
    /\ pc' = [pc EXCEPT ![c] = "lock"]
    /\ UNCHANGED <<kind, chan, initWait, stopVars, initVars, pipeVars, loopVars, adapterVars>>

\* MUTANT of WriteHeader: the writer is not locked.
WriteHeaderUnlocked(c) ==
    /\ pc[c] = "lock"
    /\ adapter # "down"
    /\ writer' = c
    /\ wire' = Append(wire, Chunk("header", c))
    /\ pc' = [pc EXCEPT ![c] = "body"]
    /\ UNCHANGED <<seq, kind, seqOf, armed, chan, initWait, pending, stopVars, initVars,
                   torn, loopVars, adapterVars>>

\* write_request takes the writer mutex, write_message writes the header line.
WriteHeader(c) ==
    /\ pc[c] = "lock"
    /\ writer = NoCall
    /\ adapter # "down"
    /\ writer' = c
    /\ wire' = Append(wire, Chunk("header", c))
    /\ pc' = [pc EXCEPT ![c] = "body"]
    /\ UNCHANGED <<seq, kind, seqOf, armed, chan, initWait, pending, stopVars, initVars,
                   torn, loopVars, adapterVars>>

\* The second write_all and the flush; the mutex is released and the caller
\* waits for the response, send_and_await_both under a guard from here on.
WriteBody(c) ==
    /\ pc[c] = "body"
    /\ adapter # "down"
    /\ wire' = Append(wire, Chunk("body", c))
    /\ writer' = NoCall
    /\ armed' = [armed EXCEPT ![c] = @ \/ kind[c] = "both"]
    /\ pc' = [pc EXCEPT ![c] = "await"]
    /\ UNCHANGED <<seq, kind, seqOf, chan, initWait, pending, stopVars, initVars, torn,
                   loopVars, adapterVars>>

\* Writing to a dead adapter fails: the entry is rolled back, by the guard or
\* by send_async itself, and the call ends with BackendError::Send.
WriteFails(c) ==
    /\ \/ pc[c] = "lock" /\ writer = NoCall
       \/ pc[c] = "body"
    /\ adapter = "down"
    /\ pending' = RemovePending(seqOf[c])
    /\ armed' = [armed EXCEPT ![c] = FALSE]
    /\ writer' = NoCall
    /\ pc' = [pc EXCEPT ![c] = "send_error"]
    /\ UNCHANGED <<seq, kind, seqOf, chan, initWait, stopVars, initVars, wire, torn,
                   loopVars, adapterVars>>

\* wait_initialized: return at once when the latch has fired, else park.  A
\* waiter that was parked before loses its sender, which counts as resolved.
WaitInitialized(c) ==
    /\ pc[c] = "await"
    /\ kind[c] # "send"
    /\ initWait[c] = "no"
    /\ IF fired
       THEN /\ initWait' = [initWait EXCEPT ![c] = "resolved"]
            /\ UNCHANGED initSlot
       ELSE /\ initSlot' = c
            /\ initWait' = [d \in Calls |-> CASE d = c -> "parked"
                                              [] d = initSlot -> "resolved"
                                              [] OTHER -> initWait[d]]
    /\ UNCHANGED <<seq, kind, pc, seqOf, armed, chan, pending, stopVars, fired, pipeVars,
                   loopVars, adapterVars>>

\* rx.await returns.  The dual await also needs the initialized signal, and the
\* callers of send_async (run_launch, run_attach) wait for it before they look
\* at the receiver.
Resolve(c) ==
    /\ pc[c] = "await"
    /\ chan[c].tag # "empty"
    /\ kind[c] # "send" => initWait[c] = "resolved"
    /\ pc' = [pc EXCEPT ![c] = chan[c].tag]
    /\ armed' = [armed EXCEPT ![c] = FALSE]
    /\ UNCHANGED <<seq, kind, seqOf, chan, initWait, pending, stopVars, initVars, pipeVars,
                   loopVars, adapterVars>>

\* The caller's select! drops the future at any of its awaits.
Cancel(c) ==
    /\ pc[c] \in InFlight
    /\ AbortGuardDrop(c)
    /\ armed' = [armed EXCEPT ![c] = FALSE]
    /\ writer' = IF writer = c THEN NoCall ELSE writer
    /\ torn' = IF pc[c] = "body" THEN torn \cup {c} ELSE torn
    /\ pc' = [pc EXCEPT ![c] = "dropped"]
    /\ UNCHANGED <<seq, kind, seqOf, chan, initWait, stopVars, initVars, wire, loopVars,
                   adapterVars>>

-----------------------------------------------------------------------------
(* The stop waiter (stop_waiter.rs) *)

\* StopWaiter::register: the slot's previous sender is dropped, and a receiver
\* still waiting on it sees a closed channel.
Register(w) ==
    /\ wstate[w] = "idle" /\ w \in Budget[kind].waits
    /\ slot' = w
    /\ wstate' = [v \in Waits |-> CASE v = w -> "waiting"
                                    [] v = slot /\ wstate[v] = "waiting" -> "replaced"
                                    [] OTHER -> wstate[v]]
    /\ UNCHANGED <<callVars, pending, initVars, pipeVars, loopVars, adapterVars>>

\* The cont/step future that registered is dropped; its sender stays in the slot.
Abandon(w) ==
    /\ wstate[w] = "waiting"
    /\ wstate' = [wstate EXCEPT ![w] = "abandoned"]
    /\ UNCHANGED <<callVars, pending, slot, initVars, pipeVars, loopVars, adapterVars>>

\* MUTANT of SendStop: the slot is cleared and the outcome dropped.
SendStopLost(outcome) == slot' = NoWait /\ UNCHANGED wstate

\* MUTANT of SendStop: the sender stays in the slot and is used again.
SendStopAgain(outcome) ==
    /\ UNCHANGED slot
    /\ wstate' = [v \in Waits |-> IF v = slot /\ wstate[v] # "abandoned" THEN outcome
                                  ELSE wstate[v]]

\* StopWaiter::send: take the slot, deliver unless the receiver is gone.
SendStop(outcome) ==
    /\ slot' = NoWait
    /\ wstate' = [v \in Waits |-> IF v = slot /\ wstate[v] = "waiting" THEN outcome
                                  ELSE wstate[v]]

-----------------------------------------------------------------------------
(* The read loop (read_loop.rs) *)

Received(type) ==
    /\ rl = "run"
    /\ inbox # <<>>
    /\ Head(inbox).type = type
    /\ inbox' = Tail(inbox)
    /\ UNCHANGED <<adapter, asked, events>>

\* Put v into the oneshots of the calls in S that are still listening.
SendTo(S, v) == chan' = [c \in Calls |-> IF c \in S /\ pc[c] \in InFlight THEN v ELSE chan[c]]

\* fire_terminated: takes the sender, so only the first call sends.
FireTerminated ==
    term' = IF term # "unfired" THEN term ELSE IF lastExit THEN "code" ELSE "no_code"

\* dispatch_response: the entry under request_seq is removed and gets the
\* message; without one the response is discarded.
ReadResponse ==
    /\ Received("response")
    /\ LET m == Head(inbox)
           owner == {p.call : p \in {q \in pending : q.seq = m.seq}}
       IN  /\ pending' = RemovePending(m.seq)
           /\ SendTo(owner, Ok(m.call))
    /\ UNCHANGED <<seq, kind, pc, seqOf, armed, initWait, stopVars, initVars, pipeVars, loopVars>>

ReadStopped ==
    /\ Received("stopped")
    /\ SendStop("stopped")
    /\ UNCHANGED <<callVars, pending, initVars, pipeVars, loopVars>>

\* signal_initialized: set the latch and wake the parked waiter.
ReadInitialized ==
    /\ Received("initialized")
    /\ fired' = TRUE
    /\ initSlot' = NoCall
    /\ initWait' = [c \in Calls |-> IF c = initSlot THEN "resolved" ELSE initWait[c]]
    /\ UNCHANGED <<seq, kind, pc, seqOf, armed, chan, pending, stopVars, pipeVars, loopVars>>

\* Output is forwarded to an unbounded channel, informational and unknown
\* messages are logged: nothing here changes.
ReadOutput ==
    /\ Received("output")
    /\ UNCHANGED <<callVars, pending, stopVars, initVars, pipeVars, loopVars>>

\* ExitedEvent: record_exit, then (a second critical section) deliver_exit.
ReadExited ==
    /\ Received("exited")
    /\ lastExit' = TRUE
    /\ rl' = "deliver_exit"
    /\ UNCHANGED <<callVars, pending, stopVars, initVars, pipeVars, drained, term>>

DeliverExit ==
    /\ rl = "deliver_exit"
    /\ SendStop("exited")
    /\ rl' = "run"
    /\ UNCHANGED <<callVars, pending, initVars, pipeVars, drained, lastExit, term, adapterVars>>

\* TerminatedEvent: fire_terminated, then cancel the stop waiter.
ReadTerminated ==
    /\ Received("terminated")
    /\ FireTerminated
    /\ rl' = "cancel_stop"
    /\ UNCHANGED <<callVars, pending, stopVars, initVars, pipeVars, drained, lastExit>>

CancelStop ==
    /\ rl = "cancel_stop"
    /\ SendStop("terminated")
    /\ rl' = "run"
    /\ UNCHANGED <<callVars, pending, initVars, pipeVars, drained, lastExit, term, adapterVars>>

\* Any read error, EOF or an unreadable frame, starts recovery.
ReadError ==
    /\ \E e \in Unreadable : Received(e)
    /\ rl' = "drain"
    /\ UNCHANGED <<callVars, pending, stopVars, initVars, pipeVars, drained, lastExit, term>>

\* MUTANT of RecoverDrain: the map is cleared, nobody is told.
RecoverDrainSilent ==
    /\ rl = "drain"
    /\ drained' = {}
    /\ pending' = {}
    /\ rl' = "fail"
    /\ UNCHANGED <<callVars, stopVars, initVars, pipeVars, lastExit, term, adapterVars>>

\* cancel_all_pending drains the map under its lock ...
RecoverDrain ==
    /\ rl = "drain"
    /\ drained' = {p.call : p \in pending}
    /\ pending' = {}
    /\ rl' = "fail"
    /\ UNCHANGED <<callVars, stopVars, initVars, pipeVars, lastExit, term, adapterVars>>

\* ... and sends Err(Closed) outside it.
RecoverFail ==
    /\ rl = "fail"
    /\ SendTo(drained, Closed)
    /\ drained' = {}
    /\ rl' = "stop"
    /\ UNCHANGED <<seq, kind, pc, seqOf, armed, initWait, pending, stopVars, initVars, pipeVars,
                   lastExit, term, adapterVars>>

\* MUTANT of RecoverStop: recovery forgets the stop waiter.
RecoverStopSkipped ==
    /\ rl = "stop"
    /\ rl' = "fire"
    /\ UNCHANGED <<callVars, pending, stopVars, initVars, pipeVars, drained, lastExit, term,
                   adapterVars>>

\* stop_waiter.cancel() unblocks a pending continue or step ...
RecoverStop ==
    /\ rl = "stop"
    /\ SendStop("terminated")
    /\ rl' = "fire"
    /\ UNCHANGED <<callVars, pending, initVars, pipeVars, drained, lastExit, term, adapterVars>>

\* MUTANT of RecoverFire: the signal is sent only when an exit code is known.
RecoverFireWithCode ==
    /\ rl = "fire"
    /\ IF lastExit THEN FireTerminated ELSE UNCHANGED term
    /\ rl' = "exited"
    /\ UNCHANGED <<callVars, pending, stopVars, initVars, pipeVars, drained, lastExit, adapterVars>>

\* ... and the lifecycle signal ends recovery.
RecoverFire ==
    /\ rl = "fire"
    /\ FireTerminated
    /\ rl' = "exited"
    /\ UNCHANGED <<callVars, pending, stopVars, initVars, pipeVars, drained, lastExit, adapterVars>>

ReadLoop ==
    \/ ReadResponse \/ ReadStopped \/ ReadInitialized \/ ReadOutput
    \/ ReadExited \/ DeliverExit \/ ReadTerminated \/ CancelStop
    \/ ReadError \/ RecoverDrain \/ RecoverFail \/ RecoverStop \/ RecoverFire

-----------------------------------------------------------------------------
(* The adapter: external, modelled from what the client relies on *)

\* It reads one frame.  A header that its own body does not follow makes it
\* lose the framing of everything behind it.
AdapterRead ==
    /\ adapter = "up"
    /\ Len(wire) >= 2
    /\ LET h == wire[1]
           b == wire[2]
       IN  IF h.part = "header" /\ b.part = "body" /\ h.call = b.call
           THEN /\ asked' = asked \cup {[seq |-> h.seq, call |-> h.call]}
                /\ wire' = Tail(Tail(wire))
                /\ UNCHANGED adapter
           ELSE /\ adapter' = "lost"
                /\ wire' = <<>>
                /\ UNCHANGED asked
    /\ UNCHANGED <<callVars, pending, stopVars, initVars, writer, torn, loopVars, inbox, events>>

AdapterAnswer ==
    /\ adapter # "down"
    /\ \E r \in asked :
          /\ asked' = asked \ {r}
          /\ inbox' = Append(inbox, Response(r.seq, r.call))
    /\ UNCHANGED <<callVars, pending, stopVars, initVars, pipeVars, loopVars, adapter, events>>

AdapterEvent ==
    /\ adapter # "down"
    /\ events < Budget[kind].events
    /\ \E e \in EventTypes : inbox' = Append(inbox, EventMsg(e))
    /\ events' = events + 1
    /\ UNCHANGED <<callVars, pending, stopVars, initVars, pipeVars, loopVars, adapter, asked>>

AdapterDies ==
    /\ adapter # "down"
    /\ adapter' = "down"
    /\ inbox' = Append(inbox, EventMsg("eof"))
    /\ UNCHANGED <<callVars, pending, stopVars, initVars, pipeVars, loopVars, asked, events>>

Adapter == AdapterRead \/ AdapterAnswer \/ AdapterEvent \/ AdapterDies

-----------------------------------------------------------------------------
Call(c) ==
    \/ Begin(c) \/ WriteHeader(c) \/ WriteBody(c) \/ WriteFails(c)
    \/ WaitInitialized(c) \/ Resolve(c) \/ Cancel(c)

Next ==
    \/ \E c \in Calls : Call(c)
    \/ \E w \in Waits : Register(w) \/ Abandon(w)
    \/ ReadLoop
    \/ Adapter

Spec == Init /\ [][Next]_vars

\* The runtime polls a woken task and the read loop is its own task: both make
\* progress.  Nothing obliges a caller to cancel or the adapter to do anything.
FairSpec ==
    /\ Spec
    /\ WF_vars(ReadLoop)
    /\ \A c \in Calls : WF_vars(Resolve(c))

-----------------------------------------------------------------------------
(* Properties *)

\* A call never gets the answer to somebody else's request, whatever the order
\* of responses, cancellations and late answers (dispatch_response by
\* request_seq, Spec FR-17.3).
Correlated == \A c \in Calls : chan[c].tag = "ok" => chan[c].call = c

\* A call that is still waiting can still be woken: its sender is in the
\* pending map, or recovery holds it, or has used it.  Then the rx.await of
\* send never sees its sender dropped (client.rs:323, "only if the shared state
\* is being torn down").
SenderNotLost ==
    \A c \in Calls :
        (pc[c] \in InFlight /\ chan[c].tag = "empty") =>
            \/ [seq |-> seqOf[c], call |-> c] \in pending
            \/ c \in drained

\* Once a send or a dual await is over, by answer, error or cancellation, its
\* entry is gone from the pending map (AbortGuard, Spec FR-17.4).  Only a
\* request without a guard can leave its entry behind: send_async, or a dual
\* await dropped while it still writes.
NoLeakedEntry ==
    \A p \in pending :
        \/ pc[p.call] \in InFlight
        \/ pc[p.call] = "dropped" /\ kind[p.call] # "send"

\* The registration a caller waits on is the one in the slot, so that the next
\* stop, exit or termination reaches it (StopWaiter::register and ::send).
WaiterReachable == \A w \in Waits : wstate[w] = "waiting" => slot = w

\* Concurrent calls never interleave their frames (the writer mutex): the
\* adapter keeps its framing unless a call was dropped in the middle of a frame.
FramesIntact == adapter = "lost" => torn # {}

\* When the read loop is gone the lifecycle signal has been sent, whichever of
\* TerminatedEvent and recovery came first (Spec FR-17.7).
TerminatedSignalled == rl = "exited" => term # "unfired"

\* A registration, the lifecycle signal and a oneshot each carry one outcome:
\* an exit followed by a termination, or a late answer, does not replace it
\* (stop_waiter.rs, "exactly one StopOutcome is delivered per registration").
DeliveredOnce ==
    [][/\ \A w \in Waits : wstate[w] \in Outcomes => wstate'[w] = wstate[w]
       /\ \A c \in Calls : chan[c] # Empty => chan'[c] = chan[c]
       /\ term # "unfired" => term' = term]_vars

\* The client as its callers see it: a call whose frame is being written, or that
\* awaits; the read loop, whole until recovery has drained the map.
Progress ==
    [c \in Calls |-> CASE pc[c] \in {"lock", "body"} -> "writing"
                       [] pc[c] = "await" -> "waiting"
                       [] pc[c] \in {"ok", "closed"} -> "returned"
                       [] pc[c] = "send_error" -> "failed"
                       [] OTHER -> pc[c]]
Stage ==
    CASE rl = "fail" -> "broken" [] rl = "stop" -> "calls_told" [] rl = "fire" -> "waits_told"
      [] rl = "exited" -> "over" [] OTHER -> "open"

\* Recovery holds their senders, and they still listen.
Doomed == {c \in drained : pc[c] \in InFlight}

Promise == INSTANCE Connection WITH
    Nothing <- Empty, Answer <- Ok,
    at <- Progress, got <- chan, stage <- Stage, doomed <- Doomed,
    heard <- wstate, exitKnown <- lastExit, ended <- term

\* Pending map, oneshots, slot and recovery together keep the promise of Connection:
\* a call still under way when the stream breaks is told so unless it has its answer,
\* no call is told twice, and the end is announced last and once (client.rs, recover).
KeepsPromise == Promise!Spec

\* Recovery wakes every request that was waiting for its response alone when
\* the stream broke (recover, step 2); a launch still waiting for the
\* initialized event is the subject of HandshakeUnblocked.
RecoveryUnblocksCalls ==
    \A c \in Calls :
        (rl = "drain" /\ pc[c] = "await" /\ (kind[c] = "send" \/ initWait[c] = "resolved"))
            ~> pc[c] \in Finished

\* Recovery wakes the continue or step that was waiting when the stream broke
\* (recover, step 3).
RecoveryUnblocksStop ==
    \A w \in Waits : (rl = "drain" /\ wstate[w] = "waiting") ~> wstate[w] # "waiting"

\* What the documents promise of recovery: whatever was waiting when the stream
\* broke, the initialized wait of a launch included, ends (Designs/LLDBDebugMCP
\* README, "unblocks any in-flight tool call (including `launch` during handshake").
HandshakeUnblocked ==
    \A c \in Calls : (rl = "drain" /\ initWait[c] = "parked")
                         ~> (initWait[c] = "resolved" \/ pc[c] \in Finished)

=============================================================================
