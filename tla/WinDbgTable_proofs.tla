------------------------- MODULE WinDbgTable_proofs -------------------------
(***************************************************************************)
(* Proofs about WinDbgBackend's types and its breakpoint table, for any    *)
(* calls, groups, keys and numbers and a channel of any capacity: the      *)
(* table implements ReplaceAll, and between requests it is what the engine *)
(* has.                                                                    *)
(***************************************************************************)
EXTENDS WinDbgBackend_proofs, SequenceTheorems, WellFoundedInduction

-----------------------------------------------------------------------------
(* What a request asks the engine for *)

\* A set of positions that is not empty has a first one.
LEMMA LeastPosition ==
    ASSUME NEW I, I \subseteq Nat, I # {}
    PROVE  \E i \in I : \A j \in I : i <= j
<1>1. PICK i \in I : \A j \in I : ~ (<<j, i>> \in OpToRel(<, Nat))
  BY NatLessThanWellFounded, WFMin, Zenon
<1>2. ASSUME NEW j \in I
      PROVE  i <= j
  <2>1. i \in Nat /\ j \in Nat
    OBVIOUS
  <2>2. ASSUME j < i
        PROVE  FALSE
    <3>1. <<j, i>> \in {ss \in Nat \X Nat : ss[1] < ss[2]}
      BY <2>1, <2>2
    <3>2. QED
      BY <1>1, <3>1, Zenon DEF OpToRel
  <2>3. QED
    BY <2>1, <2>2
<1>3. QED
  BY <1>2

\* A function on 0 .. n that passes over what is rejected or known.
PassesOver(f, keys, known, n) ==
    f = [i \in 0 .. n |-> IF i = 0 THEN <<>> ELSE Asking(f[i - 1], keys[i], known)]

\* The recursive definition of Asked has a solution.
LEMMA AskedDefined ==
    ASSUME NEW keys \in Seq(Keys), NEW known
    PROVE  PassesOver(Asked(keys, known), keys, known, Len(keys))
<1> DEFINE P(f, n) == PassesOver(f, keys, known, n)
           I == {n \in 0 .. Len(keys) : ~ \E f : P(f, n)}
<1>0. Len(keys) \in Nat
  BY LenProperties
<1>1. I = {}
  <2>1. SUFFICES ASSUME I # {} PROVE FALSE
    OBVIOUS
  <2>2. I \subseteq Nat
    BY <1>0
  <2>3. PICK m \in I : \A j \in I : m <= j
    <3> HIDE DEF I
    <3>1. QED
      BY <2>1, <2>2, LeastPosition
  <2>4. m \in Nat /\ m <= Len(keys)
    BY <1>0
  <2>5. CASE m = 0
    <3> DEFINE f == [i \in 0 .. 0 |-> <<>>]
    <3>1. P(f, 0)
      BY DEF PassesOver
    <3>2. QED
      BY <2>5, <3>1
  <2>6. CASE m # 0
    <3>1. m - 1 \in 0 .. Len(keys) /\ m - 1 \notin I
      <4>1. m - 1 \in 0 .. Len(keys) /\ ~ (m <= m - 1)
        BY <2>4, <2>6, <1>0
      <4> HIDE DEF I
      <4>2. QED
        BY <2>3, <4>1
    <3>2. PICK f : P(f, m - 1)
      BY <3>1
    <3> DEFINE last == Asking(f[m - 1], keys[m], known)
               g == [i \in 0 .. m |-> IF i = m THEN last ELSE f[i]]
    <3>3. ASSUME NEW i \in 0 .. m
          PROVE  g[i] = IF i = 0 THEN <<>> ELSE Asking(g[i - 1], keys[i], known)
      <4>1. CASE i = m
        <5>1. g[i] = last /\ g[i - 1] = f[m - 1]
          BY <2>4, <2>6, <4>1
        <5>2. QED
          BY <2>6, <4>1, <5>1
      <4>2. CASE i # m
        <5>1. f[i] = IF i = 0 THEN <<>> ELSE Asking(f[i - 1], keys[i], known)
          BY <2>4, <3>2, <4>2 DEF PassesOver
        <5>2. g[i] = f[i] /\ (i # 0 => g[i - 1] = f[i - 1])
          BY <2>4, <4>2
        <5>3. QED
          BY <5>1, <5>2
      <4>3. QED
        BY <4>1, <4>2
    <3>4. P(g, m)
      <4> HIDE DEF I
      <4>1. g = [i \in 0 .. m |-> g[i]]
        OBVIOUS
      <4> HIDE DEF g
      <4>2. QED
        BY <3>3, <4>1 DEF PassesOver
    <3>5. QED
      BY <3>4
  <2>7. QED
    BY <2>5, <2>6
<1>2. \E f : P(f, Len(keys))
  BY <1>0, <1>1
<1>3. QED
  BY <1>2 DEF PassesOver, Asked

\* No entry of a list twice.
Distinct(s) == \A i, j \in 1 .. Len(s) : s[i] = s[j] => i = j

\* What a request asks for is of the list, each once, and nothing rejected or known.
LEMMA SettableKeys ==
    ASSUME NEW keys \in Seq(Keys), NEW known
    PROVE  /\ Settable(keys, known) \in Seq(Keys)
           /\ \A i \in 1 .. Len(Settable(keys, known)) :
                 Settable(keys, known)[i] \in ToSet(keys) \ (Rejected \cup known)
           /\ Distinct(keys) => Distinct(Settable(keys, known))
<1> DEFINE f == Asked(keys, known)
           Passed(n) == /\ f[n] \in Seq(Keys)
                        /\ \A i \in 1 .. Len(f[n]) : /\ f[n][i] \notin Rejected \cup known
                                                     /\ \E j \in 1 .. n : f[n][i] = keys[j]
                        /\ Distinct(keys) => Distinct(f[n])
           I == {n \in 0 .. Len(keys) : ~ Passed(n)}
<1>0. Len(keys) \in Nat /\ \A i \in 1 .. Len(keys) : keys[i] \in Keys
  BY LenProperties, ElementOfSeq
<1>1. f = [i \in 0 .. Len(keys) |->
              IF i = 0 THEN <<>> ELSE Asking(f[i - 1], keys[i], known)]
  BY AskedDefined DEF PassesOver
<1> HIDE DEF f
<1>2. f[0] = <<>>
  BY <1>0, <1>1
<1>3. \A n \in 1 .. Len(keys) :
         f[n] = Asking(f[n - 1], keys[n], known)
  BY <1>0, <1>1
<1>4. I = {}
  <2>1. SUFFICES ASSUME I # {} PROVE FALSE
    OBVIOUS
  <2>2. I \subseteq Nat
    BY <1>0
  <2>3. PICK m \in I : \A j \in I : m <= j
    <3> HIDE DEF I
    <3>1. QED
      BY <2>1, <2>2, LeastPosition
  <2>4. m # 0 /\ m \in 1 .. Len(keys)
    <3>1. Passed(0)
      BY <1>2 DEF Distinct
    <3>2. QED
      BY <1>0, <3>1
  <2>5. Passed(m - 1)
    <3>1. m - 1 \in 0 .. Len(keys) /\ ~ (m <= m - 1)
      BY <1>0, <2>4
    <3>2. m - 1 \notin I
      <4> HIDE DEF I
      <4>1. QED
        BY <2>3, <3>1
    <3>3. QED
      BY <3>1, <3>2
  <2>6. Passed(m)
    <3> DEFINE s == f[m - 1]
    <3>0. s \in Seq(Keys) /\ Len(s) \in Nat /\ m \in Nat /\ keys[m] \in Keys
      BY <1>0, <2>4, <2>5, LenProperties
    <3>1. \A i \in 1 .. Len(s) : /\ s[i] \notin Rejected \cup known
                                 /\ \E j \in 1 .. m - 1 : s[i] = keys[j]
      BY <2>5
    <3>2. Distinct(keys) => Distinct(s)
      BY <2>5
    <3> HIDE DEF s
    <3>3. CASE keys[m] \in Rejected \cup known
      <4>1. f[m] = s
        BY <1>3, <2>4, <3>3 DEF s, Asking
      <4>2. 1 .. m - 1 \subseteq 1 .. m
        BY <3>0
      <4>3. QED
        BY <3>0, <3>1, <3>2, <4>1, <4>2
    <3>4. CASE keys[m] \notin Rejected \cup known
      <4> DEFINE t == Append(s, keys[m])
      <4>1. f[m] = t
        BY <1>3, <2>4, <3>4 DEF s, Asking
      <4>2. /\ t \in Seq(Keys) /\ Len(t) = Len(s) + 1 /\ t[Len(s) + 1] = keys[m]
            /\ \A i \in 1 .. Len(s) : t[i] = s[i]
        BY <3>0
      <4> HIDE DEF t
      <4>3. \A i \in 1 .. Len(t) : i = Len(s) + 1 \/ i \in 1 .. Len(s)
        BY <3>0, <4>2
      <4>4. \A i \in 1 .. Len(t) : t[i] \notin Rejected \cup known
        BY <3>1, <3>4, <4>2, <4>3
      <4>5. \A i \in 1 .. Len(t) : \E j \in 1 .. m : t[i] = keys[j]
        <5>1. m \in 1 .. m /\ 1 .. m - 1 \subseteq 1 .. m
          BY <2>4, <3>0
        <5>2. QED
          BY <3>1, <4>2, <4>3, <5>1
      <4>6. ASSUME Distinct(keys) PROVE Distinct(t)
        <5>1. \A i \in 1 .. Len(s) : s[i] # keys[m]
          <6>1. \A j \in 1 .. m - 1 : j \in 1 .. Len(keys) /\ j # m
            BY <1>0, <2>4, <3>0
          <6>2. QED
            BY <2>4, <3>1, <4>6, <6>1 DEF Distinct
        <5>2. QED
          BY <3>2, <4>2, <4>3, <4>6, <5>1 DEF Distinct
      <4>7. QED
        BY <4>1, <4>2, <4>4, <4>5, <4>6
    <3>5. QED
      BY <3>3, <3>4
  <2>7. QED
    BY <2>6
<1>5. Len(keys) \in 0 .. Len(keys)
  BY <1>0
<1>6. Passed(Len(keys))
  BY <1>4, <1>5
<1>7. \A j \in 1 .. Len(keys) : keys[j] \in ToSet(keys)
  BY <1>0 DEF ToSet
<1>8. /\ f[Len(keys)] \in Seq(Keys)
      /\ \A i \in 1 .. Len(f[Len(keys)]) :
            f[Len(keys)][i] \in ToSet(keys) \ (Rejected \cup known)
      /\ Distinct(keys) => Distinct(f[Len(keys)])
  BY <1>6, <1>7
<1>9. QED
  BY <1>8 DEF Settable, f

-----------------------------------------------------------------------------
(* Types *)

\* What the locals of a call and the table look like.
Locals ==
    /\ work = [c \in Calls |-> [todo |-> work[c].todo, new |-> work[c].new,
                                drop |-> work[c].drop]]
    /\ table = [g \in Groups |-> table[g]]
    /\ \A c \in Calls : DOMAIN work[c].new \subseteq Keys

\* A call that sets a breakpoint has one to set, and is told its number; one that
\* removes a breakpoint says which.
Sends(c) == pc[c] \in {"send", "await", "answered"}

SettingInv ==
    \A c \in Calls : Sends(c) =>
        /\ plan[c].kind = "set" => ask[c].verb \in {"set_breakpoint", "remove_breakpoint"}
        /\ ask[c].verb = "remove_breakpoint" => ask[c].id \in Ids
        /\ ask[c].verb = "set_breakpoint" =>
              /\ work[c].todo # <<>>
              /\ pc[c] = "answered" /\ answer[c].is = "ok" => answer[c].hit \in Ids

Typed == TypeOK /\ Locals /\ SettingInv /\ output <= lines

\* Numbers, with or without NoId.
IdOrNone == Ids \cup {NoId}

\* What the events of a wait leave.
Marks == <<target, pool, event, lastHit, exitCode>>
MarksTyped ==
    /\ target \in {"none", "break", "go"}
    /\ DOMAIN pool \subseteq Ids
    /\ pool \in [DOMAIN pool -> Locations \cup {Unreported}]
    /\ event \in Events
    /\ lastHit \in IdOrNone
    /\ exitCode \in BOOLEAN

\* The events that end a wait are events, and leave their marks.
LEMMA StopTypes ==
    ASSUME EngineTypeOK, NEW x \in SUBSET {"step", "interrupted"},
           NEW e \in Stops(x), Happens(e)
    PROVE  MarksTyped'
<1>1. e \in Events
  <2>1. CASE e \in {Hit(i) : i \in DOMAIN pool}
    <3> PICK i \in DOMAIN pool : e = Hit(i)
      BY <2>1
    <3>1. QED
      BY DEF EngineTypeOK, Hit, Events
  <2>2. CASE e \in {Event(y) : y \in x \cup {"exception", "exit"}}
    BY <2>2 DEF Event, Events
  <2>3. QED
    BY <2>1, <2>2 DEF Stops
<1>2. e.id \in IdOrNone
  BY <1>1 DEF Events, IdOrNone
<1>3. target' \in {"none", "break", "go"} /\ event' \in Events /\ exitCode' \in BOOLEAN
  BY <1>1 DEF Happens, EngineTypeOK
<1>4. lastHit' \in IdOrNone
  BY <1>2 DEF Happens, EngineTypeOK, IdOrNone
<1>5. DOMAIN pool' \subseteq Ids /\ pool' \in [DOMAIN pool' -> Locations \cup {Unreported}]
  BY DEF Happens, EngineTypeOK
<1>6. QED
  BY <1>3, <1>4, <1>5 DEF MarksTyped

\* So does a wait inside one step.
LEMMA WaitTypes ==
    ASSUME EngineTypeOK, NEW x \in SUBSET {"step", "interrupted"}, NEW r \in Replies,
           WaitInStep(x, r)
    PROVE  MarksTyped' /\ UNCHANGED waiting
<1>1. CASE \E e \in Stops(x) : Happens(e)
  BY <1>1, StopTypes DEF WaitInStep
<1>2. CASE /\ target' = "go"
           /\ \E h \in {lastHit} \cup (conditions \cap DOMAIN pool) : lastHit' = h
           /\ UNCHANGED <<pool, event, exitCode>>
  BY <1>2 DEF WaitInStep, EngineTypeOK, MarksTyped, IdOrNone
<1>3. QED
  BY <1>1, <1>2 DEF WaitInStep

\* The stop of a dump or a kernel.
LEMMA Stopped == Event("exception") \in Events
BY DEF Event, Events

\* The methods that one command calls, each answered in one step.
Answers(r) ==
    \/ launch(r) \/ attach_pid(r) \/ open_dump(r) \/ attach_kernel_refused(r) \/ go_refused(r)
    \/ break_in_refused(r) \/ step(r) \/ inspect(r) \/ detach(r)
    \/ \E i \in Ids \cup {NoId} : remove_breakpoint(i, r)
    \/ \E p \in Locations, b \in BOOLEAN : set_breakpoint(p, b, r)

\* They keep the engine's types.
LEMMA AnswersTypes ==
    ASSUME EngineTypeOK, NEW r \in Replies, Answers(r)
    PROVE  EngineTypeOK'
<1> USE DEF EngineTypeOK, callbacks, waiting, engine
<1>1. CASE launch(r) \/ attach_pid(r)
  <2>1. Begin(r)
    BY <1>1 DEF launch, attach_pid
  <2>2. \/ UNCHANGED <<target, pool, event, callbacks, waiting>>
        \/ \E s \in Replies : WaitInStep({}, s)
    BY <2>1 DEF Begin
  <2>3. MarksTyped' /\ UNCHANGED waiting
    <3>1. CASE UNCHANGED <<target, pool, event, callbacks, waiting>>
      BY <3>1 DEF MarksTyped, IdOrNone
    <3>2. CASE \E s \in Replies : WaitInStep({}, s)
      <4> HIDE DEF EngineTypeOK
      <4>1. QED
        BY <3>2, WaitTypes
    <3>3. QED
      BY <2>2, <3>1, <3>2
  <2>4. /\ conditions' = {} /\ UNCHANGED <<isDump, interrupt>>
        /\ initialBreak' \in BOOLEAN
    BY <2>1 DEF Begin, OptionRemoved
  <2>5. QED
    BY <2>3, <2>4 DEF MarksTyped, IdOrNone
<1>2. CASE open_dump(r)
  <2>1. /\ UNCHANGED <<initialBreak, pool, conditions, lastHit, exitCode, interrupt, wait, tries,
                      restarted>>
        /\ event' \in Events /\ target' \in {"none", "break", "go"} /\ isDump' \in BOOLEAN
    BY <1>2, Stopped DEF open_dump
  <2>2. QED
    BY <2>1
<1>3. CASE attach_kernel_refused(r)
  BY <1>3 DEF attach_kernel_refused
<1>4. CASE go_refused(r) \/ break_in_refused(r) \/ inspect(r)
  BY <1>4 DEF go_refused, break_in_refused, inspect
<1>5. CASE step(r)
  <2>1. MarksTyped' /\ UNCHANGED waiting
    <3>1. CASE UNCHANGED <<target, pool, event, callbacks, waiting>>
      BY <3>1 DEF MarksTyped, IdOrNone
    <3>2. CASE WaitInStep({"step"}, r)
      <4> HIDE DEF EngineTypeOK
      <4>1. QED
        BY <3>2, WaitTypes
    <3>3. QED
      BY <1>5, <3>1, <3>2 DEF step
  <2>2. UNCHANGED <<initialBreak, isDump, conditions, interrupt>>
    BY <1>5 DEF step
  <2>3. QED
    BY <2>1, <2>2 DEF MarksTyped, IdOrNone
<1>6. CASE detach(r)
  <2>1. /\ UNCHANGED <<initialBreak, event, lastHit, exitCode, interrupt, wait, tries, restarted>>
        /\ target' \in {"none", "break", "go"} /\ isDump' \in BOOLEAN
        /\ conditions' \in {conditions, {}} /\ pool' \in {pool, << >>}
    BY <1>6 DEF detach
  <2>2. DOMAIN pool' \subseteq Ids /\ pool' \in [DOMAIN pool' -> Locations \cup {Unreported}]
    <3>1. CASE pool' = pool
      BY <3>1
    <3>2. CASE pool' = << >>
      BY <3>2
    <3>3. QED
      BY <2>1, <3>1, <3>2
  <2>3. QED
    BY <2>1, <2>2
<1>7. ASSUME NEW i \in Ids \cup {NoId}, remove_breakpoint(i, r)
      PROVE  EngineTypeOK'
  BY <1>7 DEF remove_breakpoint, ForgetCondition, Restrict
<1>8. ASSUME NEW p \in Locations, NEW b \in BOOLEAN, set_breakpoint(p, b, r)
      PROVE  EngineTypeOK'
  <2>1. UNCHANGED <<target, initialBreak, event, isDump, callbacks, interrupt, waiting>>
    BY <1>8 DEF set_breakpoint
  <2>2. /\ DOMAIN pool' \subseteq Ids /\ pool' \in [DOMAIN pool' -> Locations \cup {Unreported}]
        /\ conditions' \subseteq Ids
    <3>1. CASE UNCHANGED <<pool, conditions>>
      BY <3>1
    <3>2. CASE ~ UNCHANGED <<pool, conditions>>
      <4>1. PICK i \in Ids, l \in Locations \cup {Unreported} :
               /\ pool' = [j \in DOMAIN pool \cup {i} |-> IF j = i THEN l ELSE pool[j]]
               /\ conditions' \subseteq conditions \cup {i}
        BY <1>8, <3>2 DEF set_breakpoint
      <4>2. QED
        BY <4>1
    <3>3. QED
      BY <3>1, <3>2
  <2>3. QED
    BY <2>1, <2>2
<1>9. QED
  BY <1>1, <1>2, <1>3, <1>4, <1>5, <1>6, <1>7, <1>8 DEF Answers

\* The waits of go, break_in and attach_kernel, and what begins and ends them.
Waits ==
    \/ go \/ break_in \/ attach_kernel \/ go_polls \/ wait_times_out \/ wait_skips
    \/ \E r \in Replies : waited(r) \/ go_expires(r) \/ kernel_waited(r)

\* They keep the engine's types too.
LEMMA WaitsTypes ==
    ASSUME EngineTypeOK, Waits
    PROVE  EngineTypeOK'
<1> USE DEF EngineTypeOK, callbacks, waiting, engine, still
<1>0. BreakPolls \in Nat \ {0}
  BY EngineAssumption
<1>1. CASE go \/ break_in \/ attach_kernel
  <2>1. /\ UNCHANGED <<pool, event, lastHit, exitCode, restarted>>
        /\ target' \in {target, "go"} /\ initialBreak' \in BOOLEAN /\ isDump' \in BOOLEAN
        /\ conditions' \in {conditions, {}} /\ interrupt' \in BOOLEAN
        /\ wait' \in {"poll", "break", "kernel"} /\ tries' \in {tries, 0}
    BY <1>1 DEF go, break_in, attach_kernel
  <2>2. QED
    BY <1>0, <2>1
<1>2. CASE go_polls \/ wait_times_out
  BY <1>0, <1>2 DEF go_polls, wait_times_out, PollsLeft
<1>3. CASE wait_skips
  <2> PICK i \in Ids : Skipped(i)
    BY <1>3 DEF wait_skips
  <2>1. restarted' \in BOOLEAN
    BY DEF Skipped
  <2>2. event' \in Events
    BY DEF Skipped, Hit, Events
  <2>3. QED
    BY <1>3, <2>1, <2>2 DEF wait_skips, Skipped
<1>4. ASSUME NEW r \in Replies, waited(r)
      PROVE  EngineTypeOK'
  <2>1. MarksTyped'
    <3>1. CASE UNCHANGED <<target, pool, event, callbacks>>
      BY <3>1 DEF MarksTyped, IdOrNone
    <3>2. CASE \E e \in Stops(IF wait = "break" THEN {"interrupted"} ELSE {}) : Happens(e)
      <4>1. (IF wait = "break" THEN {"interrupted"} ELSE {}) \in SUBSET {"step", "interrupted"}
        OBVIOUS
      <4> HIDE DEF EngineTypeOK
      <4>2. QED
        BY <3>2, <4>1, StopTypes
    <3>3. QED
      BY <1>4, <3>1, <3>2 DEF waited
  <2>2. /\ wait' = "idle"
        /\ UNCHANGED <<initialBreak, isDump, conditions, interrupt, tries, restarted>>
    BY <1>4 DEF waited
  <2>3. QED
    BY <2>1, <2>2 DEF MarksTyped, IdOrNone
<1>5. ASSUME NEW r \in Replies, go_expires(r) \/ kernel_waited(r)
      PROVE  EngineTypeOK'
  <2>1. /\ UNCHANGED <<pool, isDump, conditions, lastHit, exitCode, interrupt, tries, restarted>>
        /\ wait' = "idle" /\ target' \in {target, "break", "none"} /\ initialBreak' \in BOOLEAN
        /\ event' \in Events
    BY <1>5, Stopped DEF go_expires, kernel_waited, OptionRemoved
  <2>2. QED
    BY <2>1
<1>6. QED
  BY <1>1, <1>2, <1>3, <1>4, <1>5 DEF Waits

\* The rest of the types: the thread and its channel, the calls, the session, the stream.
ChannelTyped ==
    /\ thread \in {"starting", "serving", "exited"}
    /\ ready \in {"none", "ok", "error", "dropped"}
    /\ serving \in Calls \cup {NoId}
    /\ queue \in Seq(Calls) /\ Len(queue) <= CmdBuffer

CallsTyped ==
    /\ plan \in [Calls -> Ops]
    /\ pc \in [Calls -> {"start", "done", "gone"} \cup InFlight]
    /\ ask \in [Calls -> Commands]
    /\ answer \in [Calls -> Replies]
    /\ leftover \subseteq Ids

\* The locals of a setter or a launch.
Local(w) ==
    /\ w = [todo |-> w.todo, new |-> w.new, drop |-> w.drop]
    /\ w.todo \in Seq(Places)
    /\ w.drop \subseteq Ids
    /\ w.new \in [DOMAIN w.new -> Ids] /\ DOMAIN w.new \subseteq Keys

Row(f) == DOMAIN f \subseteq Keys /\ f \in [DOMAIN f -> Ids]

TableTyped ==
    /\ work = [c \in Calls |-> work[c]] /\ \A c \in Calls : Local(work[c])
    /\ table = [g \in Groups |-> table[g]] /\ \A g \in Groups : Row(table[g])

SessionTyped ==
    /\ pid \in BOOLEAN
    /\ phase \in {"connecting", "idle", "configuring", "stopped", "running", "ended"}
    /\ told \in Replies
    /\ slot \in BOOLEAN

EventsTyped ==
    /\ output \in 0 .. MaxOutput
    /\ lines \in 0 .. MaxOutput
    /\ output <= lines
    /\ ended \in BOOLEAN
    /\ stream \in {"none", "open", "terminated", "over"}

\* The types, variable by variable.
LEMMA TypedParts ==
    Typed <=> /\ EngineTypeOK /\ ChannelTyped /\ CallsTyped /\ TableTyped /\ SessionTyped
              /\ EventsTyped /\ SettingInv
<1>1. Locals /\ (\A c \in Calls : /\ work[c].todo \in Seq(Places)
                                  /\ work[c].drop \subseteq Ids
                                  /\ work[c].new \in [DOMAIN work[c].new -> Ids])
             /\ (\A g \in Groups : DOMAIN table[g] \subseteq Keys
                                      /\ table[g] \in [DOMAIN table[g] -> Ids])
      <=> TableTyped
  <2>1. ASSUME Locals PROVE work = [c \in Calls |-> work[c]] /\ table = [g \in Groups |-> table[g]]
                            /\ \A c \in Calls : /\ DOMAIN work[c].new \subseteq Keys
                                                /\ work[c] = [todo |-> work[c].todo,
                                                              new |-> work[c].new,
                                                              drop |-> work[c].drop]
    BY <2>1 DEF Locals
  <2>2. ASSUME TableTyped PROVE Locals
    BY <2>2 DEF Locals, TableTyped, Local
  <2>3. QED
    BY <2>1, <2>2 DEF TableTyped, Local, Row
<1>2. QED
  BY <1>1 DEF Typed, TypeOK, ChannelTyped, CallsTyped, SessionTyped, EventsTyped

\* The answers of the engine thread, and what it does to its channel.
LEMMA ChannelStep == Typed /\ [Next]_vars => ChannelTyped'
<1> SUFFICES ASSUME Typed, [Next]_vars PROVE ChannelTyped'
  OBVIOUS
<1>0. ChannelTyped /\ CallsTyped /\ CmdBuffer \in Nat \ {0} /\ <<>> \in Seq(Calls) /\ Len(<<>>) = 0
  BY TypedParts, BackendAssumption
<1> USE DEF ChannelTyped, channel, calls, session, events
<1>1. CASE UNCHANGED vars
  BY <1>0, <1>1 DEF vars
<1>2. CASE ThreadReady \/ ThreadFails \/ ThreadStops \/ ThreadPanics \/ EngineWaits
  <2>1. CASE ThreadReady \/ ThreadFails
    <3>1. /\ thread' \in {"serving", "exited"} /\ ready' \in {ready, "ok", "error"}
          /\ UNCHANGED <<serving, queue>>
      BY <2>1 DEF ThreadReady, ThreadFails
    <3>2. QED
      BY <1>0, <3>1
  <2>2. CASE ThreadStops
    BY <1>0, <2>2 DEF ThreadStops
  <2>3. CASE ThreadPanics
    BY <1>0, <2>3 DEF ThreadPanics
  <2>4. CASE EngineWaits
    BY <1>0, <2>4 DEF EngineWaits
  <2>5. QED
    BY <1>2, <2>1, <2>2, <2>3, <2>4
<1>3. CASE GoReplies \/ KernelReplies
  BY <1>0, <1>3 DEF GoReplies, KernelReplies, WaitReplies
<1>4. ASSUME NEW c \in Calls, Dispatch(c) \/ DispatchWaiting(c)
      PROVE  ChannelTyped'
  <2>1. queue # <<>> /\ queue' = Tail(queue)
    BY <1>4 DEF Dispatch, DispatchWaiting, Serves
  <2>2. queue' \in Seq(Calls) /\ Len(queue') = Len(queue) - 1 /\ Len(queue) \in Nat
    BY <1>0, <2>1, HeadTail
  <2>3. UNCHANGED <<thread, ready>> /\ serving' \in {serving, c}
    BY <1>4 DEF Dispatch, DispatchWaiting
  <2>4. QED
    BY <1>0, <2>2, <2>3
<1>5. CASE Connected \/ ConnectFails \/ EngineOutput \/ StreamPoll
  BY <1>0, <1>5 DEF Connected, ConnectFails, EngineOutput, StreamPoll
<1>6. ASSUME NEW c \in Calls, CallSide(c)
      PROVE  ChannelTyped'
  <2>1. CASE Enqueue(c)
    BY <1>0, <2>1 DEF Enqueue
  <2>2. CASE ~ Enqueue(c)
    <3>1. UNCHANGED <<thread, ready, serving, queue>>
      BY <1>6, <2>2
      DEF CallSide, CallStep, Starts, SendFails, Ends, Flush, SetAnswered, BeginConnecting,
          BeginResume, BeginInspect, Pause, BeginDisconnect, BeginSet, Resolved, LookupFails,
          Abandon, quiet
    <3>2. QED
      BY <1>0, <3>1
  <2>3. QED
    BY <2>1, <2>2
<1>7. QED
  BY <1>1, <1>2, <1>3, <1>4, <1>5, <1>6, Sides DEF EngineSide

\* A dispatched command is one of the methods.
LEMMA DispatchAnswers ==
    ASSUME NEW c \in Calls, Typed, Dispatch(c)
    PROVE  \E r \in Replies : Answers(r) /\ Answered(c, r)
<1> PICK r \in Replies :
        /\ \/ launch(r) \/ attach_pid(r) \/ open_dump(r) \/ attach_kernel_refused(r)
           \/ go_refused(r) \/ break_in_refused(r) \/ step(r) \/ inspect(r) \/ detach(r)
           \/ remove_breakpoint(ask[c].id, r)
           \/ set_breakpoint(ask[c].place, ask[c].place.key \in Conditional, r)
        /\ Answered(c, r)
  BY Zenon DEF Dispatch
<1>1. ask[c].place \in Locations /\ ask[c].id \in Ids \cup {NoId}
  BY TypedParts, BackendAssumption DEF CallsTyped, Commands
<1>2. (ask[c].place.key \in Conditional) \in BOOLEAN
  OBVIOUS
<1>3. Answers(r)
  BY <1>1, <1>2, Zenon DEF Answers
<1>4. QED
  BY <1>3

\* The engine keeps its types.
LEMMA EngineStep == Typed /\ [Next]_vars => EngineTypeOK'
<1> SUFFICES ASSUME Typed, [Next]_vars PROVE EngineTypeOK'
  OBVIOUS
<1>0. EngineTypeOK /\ Shape
  BY TypedParts DEF CallsTyped, ChannelTyped, SessionTyped, Shape, Commands
<1>a. ASSUME UNCHANGED engine PROVE EngineTypeOK'
  BY <1>0, <1>a DEF EngineTypeOK, engine, callbacks, waiting
<1>1. CASE UNCHANGED vars
  BY <1>1, <1>a DEF vars
<1>2. CASE ThreadReady \/ ThreadStops
  <2>1. UNCHANGED engine \/ \E r \in Replies : detach(r)
    BY <1>2 DEF ThreadReady, ThreadStops
  <2>2. QED
    BY <1>0, <1>a, <2>1, AnswersTypes DEF Answers
<1>3. CASE ThreadFails
  BY <1>3, <1>a DEF ThreadFails
<1>4. CASE ThreadPanics
  BY <1>0, <1>4 DEF ThreadPanics, EngineTypeOK, still, callbacks
<1>5. CASE EngineWaits \/ GoReplies \/ KernelReplies
  <2>1. Waits
    BY <1>5 DEF EngineWaits, GoReplies, KernelReplies, Waits
  <2>2. QED
    BY <1>0, <2>1, WaitsTypes
<1>6. ASSUME NEW c \in Calls, Dispatch(c)
      PROVE  EngineTypeOK'
  BY <1>0, <1>6, DispatchAnswers, AnswersTypes
<1>7. ASSUME NEW c \in Calls, DispatchWaiting(c)
      PROVE  EngineTypeOK'
  <2>1. Waits
    BY <1>7 DEF DispatchWaiting, Waits
  <2>2. QED
    BY <1>0, <2>1, WaitsTypes
<1>8. CASE Connected \/ ConnectFails \/ EngineOutput \/ StreamPoll
  BY <1>8, <1>a DEF Connected, ConnectFails, EngineOutput, StreamPoll, events
<1>9. ASSUME NEW c \in Calls, CallSide(c)
      PROVE  EngineTypeOK'
  <2>1. CASE Pause(c) \/ BeginDisconnect(c)
    <3>1. Interrupts
      BY <2>1 DEF Pause, BeginDisconnect
    <3>2. QED
      BY <1>0, <3>1 DEF Interrupts, EngineTypeOK, callbacks, waiting
  <2>2. CASE ~ Pause(c) /\ ~ BeginDisconnect(c)
    <3>1. UNCHANGED engine
      BY <1>9, <2>2
      DEF CallSide, CallStep, Starts, Enqueue, SendFails, Ends, Flush, SetAnswered,
          BeginConnecting, BeginResume, BeginInspect, BeginSet, Resolved, LookupFails, Abandon,
          quiet
    <3>2. QED
      BY <3>1, <1>a
  <2>3. QED
    BY <2>1, <2>2
<1>10. QED
  BY <1>1, <1>2, <1>3, <1>4, <1>5, <1>6, <1>7, <1>8, <1>9, Sides DEF EngineSide

\* The stream never takes more lines than there were.
LEMMA EventsStep == Typed /\ [Next]_vars => EventsTyped'
<1> SUFFICES ASSUME Typed, [Next]_vars PROVE EventsTyped'
  OBVIOUS
<1>0. EventsTyped /\ MaxOutput \in Nat
  BY TypedParts, BackendAssumption
<1>a. ASSUME UNCHANGED events PROVE EventsTyped'
  BY <1>0, <1>a DEF EventsTyped, events
<1>1. CASE EngineOutput \/ StreamPoll
  BY <1>0, <1>1 DEF EngineOutput, StreamPoll, EventsTyped
<1>2. CASE \/ ThreadReady \/ ThreadFails \/ ThreadStops \/ ThreadPanics
  BY <1>0, <1>2 DEF ThreadReady, ThreadFails, ThreadStops, ThreadPanics, EventsTyped
<1>3. CASE Connected
  BY <1>0, <1>3 DEF Connected, EventsTyped
<1>4. CASE UNCHANGED vars \/ ConnectFails
  BY <1>4, <1>a DEF vars, ConnectFails
<1>5. CASE EngineWaits \/ GoReplies \/ KernelReplies
  BY <1>5, <1>a DEF EngineWaits, GoReplies, KernelReplies, WaitReplies, backendRest
<1>6. ASSUME NEW c \in Calls, Dispatch(c) \/ DispatchWaiting(c)
      PROVE  EventsTyped'
  BY <1>6, <1>a DEF Dispatch, DispatchWaiting, backendRest
<1>7. ASSUME NEW c \in Calls, CallSide(c)
      PROVE  EventsTyped'
  <2>1. UNCHANGED events
    BY <1>7
    DEF CallSide, CallStep, Starts, Enqueue, SendFails, Ends, Flush, SetAnswered,
        BeginConnecting, BeginResume, BeginInspect, BeginSet, Resolved, LookupFails, Abandon,
        Pause, BeginDisconnect, quiet
  <2>2. QED
    BY <2>1, <1>a
<1>8. QED
  BY <1>1, <1>2, <1>3, <1>4, <1>5, <1>6, <1>7, Sides DEF EngineSide

\* What a call sends is a command.
LEMMA CommandTypes ==
    /\ \A v \in {"none", "launch", "attach_pid", "open_dump", "attach_kernel", "go", "break_in",
                 "step", "inspect", "detach"} : Command(v) \in Commands
    /\ \A q \in Places : SetAt(q) \in Commands
    /\ \A i \in Ids : RemoveId(i) \in Commands
<1>1. AnyPlace \in Places
  BY BackendAssumption DEF AnyPlace
<1>2. QED
  BY <1>1 DEF Command, SetAt, RemoveId, Commands

\* What a call is told is a reply.
LEMMA ReplyTypes == Closed \in Replies /\ Failed \in Replies /\ Plain \in Replies
                       /\ Reply("stopped", NoId) \in Replies
BY DEF Closed, Failed, Plain, Reply, Replies, Results

\* A row with one more number.
LEMMA RecordedRow ==
    ASSUME NEW f, Row(f), NEW k \in Keys, NEW i \in Ids
    PROVE  /\ Row(Recorded(f, k, i))
           /\ DOMAIN Recorded(f, k, i) = DOMAIN f \cup {k}
           /\ Recorded(f, k, i)[k] = i
           /\ \A l \in DOMAIN f \ {k} : Recorded(f, k, i)[l] = f[l]
BY DEF Row, Recorded

\* The command of a setter that goes on, or what it commits.
LEMMA ProceedForms ==
    ASSUME NEW c \in Calls, CallsTyped, TableTyped, NEW w, Local(w), Proceed(c, w)
    PROVE  /\ work' = [work EXCEPT ![c] = w]
           /\ \/ /\ w.todo # <<>> /\ Head(w.todo) \in Places
                 /\ pc' = [pc EXCEPT ![c] = "send"]
                 /\ ask' = [ask EXCEPT ![c] = SetAt(Head(w.todo))] /\ UNCHANGED table
              \/ /\ w.todo = <<>>
                 /\ pc' = [pc EXCEPT ![c] = "send"]
                 /\ \E i \in w.drop : ask' = [ask EXCEPT ![c] = RemoveId(i)]
                 /\ UNCHANGED table
              \/ /\ w.todo = <<>> /\ w.drop = {}
                 /\ pc' = [pc EXCEPT ![c] = "done"] /\ UNCHANGED ask
                 /\ table' = [table EXCEPT ![plan[c].group] = w.new]
<1>1. w.todo # <<>> => Head(w.todo) \in Places
  BY HeadTail DEF Local
<1>2. QED
  BY <1>1 DEF Proceed, Asks, Commit

\* A setter that goes on keeps the types.
LEMMA ProceedTypes ==
    ASSUME NEW c \in Calls, CallsTyped, TableTyped, SettingInv, NEW w, Local(w), Proceed(c, w),
           UNCHANGED <<plan, answer>>, leftover' \subseteq Ids, plan[c].kind = "set"
    PROVE  CallsTyped' /\ TableTyped' /\ SettingInv'
<1> USE DEF InFlight
<1>1. plan[c].group \in Groups
  BY DEF CallsTyped, Ops
<1>2. Row(w.new)
  BY DEF Local, Row
<1>3. work' = [work EXCEPT ![c] = w]
  BY ProceedForms
<1>4. /\ work' = [d \in Calls |-> work'[d]] /\ \A d \in Calls : Local(work'[d])
      /\ work'[c] = w
  BY <1>3 DEF TableTyped
<1>5. CASE /\ w.todo # <<>> /\ Head(w.todo) \in Places
           /\ pc' = [pc EXCEPT ![c] = "send"]
           /\ ask' = [ask EXCEPT ![c] = SetAt(Head(w.todo))] /\ UNCHANGED table
  <2>1. CallsTyped'
    BY <1>5, CommandTypes DEF CallsTyped
  <2>2. TableTyped'
    BY <1>4, <1>5 DEF TableTyped
  <2>3. SettingInv'
    <3>1. SetAt(Head(w.todo)).verb = "set_breakpoint"
      BY DEF SetAt
    <3>2. QED
      BY <1>3, <1>4, <1>5, <3>1 DEF SettingInv, Sends, CallsTyped, TableTyped
  <2>4. QED
    BY <2>1, <2>2, <2>3
<1>6. CASE /\ w.todo = <<>>
           /\ pc' = [pc EXCEPT ![c] = "send"]
           /\ \E i \in w.drop : ask' = [ask EXCEPT ![c] = RemoveId(i)]
           /\ UNCHANGED table
  <2> PICK i \in w.drop : ask' = [ask EXCEPT ![c] = RemoveId(i)]
    BY <1>6
  <2>1. i \in Ids
    BY DEF Local
  <2>2. CallsTyped'
    BY <1>6, <2>1, CommandTypes DEF CallsTyped
  <2>3. TableTyped'
    BY <1>4, <1>6 DEF TableTyped
  <2>4. RemoveId(i).verb = "remove_breakpoint" /\ RemoveId(i).id = i
    BY DEF RemoveId
  <2>5. SettingInv'
    BY <1>3, <1>6, <2>1, <2>4 DEF SettingInv, Sends, CallsTyped, TableTyped
  <2>6. QED
    BY <2>2, <2>3, <2>5
<1>7. CASE /\ pc' = [pc EXCEPT ![c] = "done"] /\ UNCHANGED ask
           /\ table' = [table EXCEPT ![plan[c].group] = w.new]
  <2>1. CallsTyped'
    BY <1>7 DEF CallsTyped
  <2>2. TableTyped'
    BY <1>1, <1>2, <1>4, <1>7 DEF TableTyped
  <2>3. SettingInv'
    BY <1>3, <1>7 DEF SettingInv, Sends, CallsTyped, TableTyped
  <2>4. QED
    BY <2>1, <2>2, <2>3
<1>8. QED
  BY <1>5, <1>6, <1>7, ProceedForms

\* The places of a list of keys.
LEMMA PlacesTyped ==
    ASSUME NEW g \in Groups, NEW keys \in Seq(Keys)
    PROVE  /\ PlacesOf(g, keys) \in Seq(Places) /\ Len(PlacesOf(g, keys)) = Len(keys)
           /\ \A i \in 1 .. Len(keys) : PlacesOf(g, keys)[i] = Place(g, keys[i])
<1>1. /\ Len(keys) \in Nat /\ DOMAIN keys = 1 .. Len(keys)
      /\ \A i \in 1 .. Len(keys) : keys[i] \in Keys
  BY LenProperties, ElementOfSeq
<1>2. PlacesOf(g, keys) = [i \in 1 .. Len(keys) |-> Place(g, keys[i])]
  BY <1>1 DEF PlacesOf
<1>3. \A k \in Keys : Place(g, k) \in Places
  BY DEF Place, Places
<1>4. PlacesOf(g, keys) \in [1 .. Len(keys) -> Places]
  BY <1>1, <1>2, <1>3
<1>5. QED
  BY <1>1, <1>2, <1>4

\* What a set request starts from.
FirstWork(c) ==
    LET prior == table[plan[c].group]
        wanted == ToSet(plan[c].keys) \ Rejected
    IN  [todo |-> PlacesOf(plan[c].group, Settable(plan[c].keys, DOMAIN prior)),
         new |-> Restrict(prior, DOMAIN prior \cap wanted),
         drop |-> Removable({prior[k] : k \in DOMAIN prior \ wanted})]

\* What the answer to one command leaves it.
NextWork(c) ==
    IF answer[c] = Closed THEN [work[c] EXCEPT !.drop = {}]
    ELSE IF ask[c].verb = "set_breakpoint"
    THEN [work[c] EXCEPT !.todo = Tail(@),
                         !.new = IF answer[c].is = "ok"
                                 THEN Recorded(@, ask[c].place.key, answer[c].hit)
                                 ELSE @]
    ELSE [work[c] EXCEPT !.drop = @ \ {ask[c].id}]

\* A set request starts with locals.
LEMMA FirstTyped ==
    ASSUME NEW c \in Calls, CallsTyped, TableTyped
    PROVE  Local(FirstWork(c))
<1> DEFINE g == plan[c].group
           w == FirstWork(c)
<1>1. g \in Groups /\ plan[c].keys \in Seq(Keys) /\ Row(table[g])
  BY DEF CallsTyped, Ops, TableTyped
<1>2. w.todo \in Seq(Places)
  BY <1>1, SettableKeys, PlacesTyped DEF FirstWork
<1>3. w.drop \subseteq Ids
  BY <1>1 DEF FirstWork, Removable, Row
<1>4. w.new \in [DOMAIN w.new -> Ids] /\ DOMAIN w.new \subseteq Keys
  BY <1>1 DEF FirstWork, Restrict, Row
<1>5. w = [todo |-> w.todo, new |-> w.new, drop |-> w.drop]
  BY DEF FirstWork
<1>6. QED
  BY <1>2, <1>3, <1>4, <1>5 DEF Local

\* And goes on with locals.
LEMMA NextTyped ==
    ASSUME NEW c \in Calls, CallsTyped, TableTyped, SettingInv, pc[c] = "answered"
    PROVE  /\ Local(NextWork(c))
           /\ answer[c] = Closed =>
                 NextWork(c) = [todo |-> work[c].todo, new |-> work[c].new, drop |-> {}]
           /\ answer[c] # Closed /\ ask[c].verb = "set_breakpoint" =>
                 NextWork(c) = [todo |-> Tail(work[c].todo), drop |-> work[c].drop,
                                new |-> IF answer[c].is = "ok"
                                        THEN Recorded(work[c].new, ask[c].place.key, answer[c].hit)
                                        ELSE work[c].new]
           /\ answer[c] # Closed /\ ask[c].verb # "set_breakpoint" =>
                 NextWork(c) = [todo |-> work[c].todo, new |-> work[c].new,
                                drop |-> work[c].drop \ {ask[c].id}]
<1> DEFINE w == work[c]
           new == Recorded(w.new, ask[c].place.key, answer[c].hit)
<1>1. /\ w = [todo |-> w.todo, new |-> w.new, drop |-> w.drop]
      /\ w.todo \in Seq(Places) /\ w.drop \subseteq Ids /\ Row(w.new)
  BY DEF TableTyped, Local, Row
<1>2. ask[c].place.key \in Keys
  BY DEF CallsTyped, Commands, Places
<1>3. CASE answer[c] = Closed
  BY <1>1, <1>3 DEF NextWork, Local, Row
<1>4. CASE answer[c] # Closed /\ ask[c].verb = "set_breakpoint"
  <2>1. w.todo # <<>> /\ Tail(w.todo) \in Seq(Places)
    <3>1. w.todo # <<>>
      BY <1>4 DEF SettingInv, Sends
    <3>2. QED
      BY <1>1, <3>1, HeadTail
  <2>2. answer[c].is = "ok" => Row(new)
    BY <1>1, <1>2, <1>4, RecordedRow DEF SettingInv, Sends
  <2> HIDE DEF new
  <2>3. NextWork(c) = [todo |-> Tail(w.todo), drop |-> w.drop,
                       new |-> IF answer[c].is = "ok" THEN new ELSE w.new]
    BY <1>1, <1>4 DEF NextWork, new
  <2>4. QED
    BY <1>1, <1>4, <2>1, <2>2, <2>3 DEF Local, Row, new
<1>5. CASE answer[c] # Closed /\ ask[c].verb # "set_breakpoint"
  BY <1>1, <1>5 DEF NextWork, Local, Row
<1>6. QED
  BY <1>3, <1>4, <1>5

\* A setter's steps are of these forms.
LEMMA SetForms ==
    ASSUME NEW c \in Calls, BeginSet(c) \/ SetAnswered(c)
    PROVE  /\ UNCHANGED <<engine, channel, plan, answer, pid, session, events>>
           /\ plan[c].kind = "set"
           /\ \/ /\ pc[c] = "start" /\ phase = "stopped"
                 /\ Proceed(c, FirstWork(c)) /\ UNCHANGED leftover
              \/ /\ pc[c] = "answered" /\ answer[c] = Closed /\ ask[c].verb = "set_breakpoint"
                 /\ pc' = [pc EXCEPT ![c] = "done"] /\ UNCHANGED <<ask, work, table, leftover>>
              \/ /\ pc[c] = "answered"
                 /\ answer[c] = Closed => ask[c].verb # "set_breakpoint"
                 /\ Proceed(c, NextWork(c))
                 /\ leftover' = IF answer[c] = Failed /\ ask[c].verb # "set_breakpoint"
                                THEN leftover \cup {ask[c].id} ELSE leftover
<1>1. CASE BeginSet(c)
  BY <1>1 DEF BeginSet, Begins, FirstWork, quiet
<1>2. CASE SetAnswered(c)
  <2>1. Closed # Failed
    BY DEF Closed, Failed, Reply
  <2>2. QED
    BY <1>2, <2>1 DEF SetAnswered, NextWork
<1>3. QED
  BY <1>1, <1>2

\* Answering a call keeps the types, and a call that set a breakpoint gets a number.
LEMMA AnsweredTypes ==
    ASSUME Typed, NEW c, NEW r \in Replies, Answered(c, r), UNCHANGED <<plan, ask, work, table,
           leftover>>, c \in Calls /\ ask[c].verb = "set_breakpoint" /\ r.is = "ok" => r.hit \in Ids
    PROVE  CallsTyped' /\ TableTyped' /\ SettingInv'
<1>1. CallsTyped /\ TableTyped /\ SettingInv
  BY TypedParts
<1>2. CallsTyped'
  BY <1>1 DEF CallsTyped, Answered, InFlight
<1>3. TableTyped'
  BY <1>1 DEF TableTyped
<1>4. SettingInv'
  BY <1>1 DEF SettingInv, Sends, Answered, CallsTyped, InFlight
<1>5. QED
  BY <1>2, <1>3, <1>4

\* set_breakpoint says ok with a number.
LEMMA SetAnswers ==
    ASSUME NEW c \in Calls, Dispatch(c), ask[c].verb = "set_breakpoint"
    PROVE  \E r \in Replies :
              /\ set_breakpoint(ask[c].place, ask[c].place.key \in Conditional, r)
              /\ Answered(c, r)
BY DEF Dispatch, Serves

\* The calls, their locals and the table keep their types.
LEMMA CallsStep == Typed /\ AskInv /\ [Next]_vars => CallsTyped' /\ TableTyped' /\ SettingInv'
<1> SUFFICES ASSUME Typed, AskInv, [Next]_vars PROVE CallsTyped' /\ TableTyped' /\ SettingInv'
  OBVIOUS
<1>0. CallsTyped /\ TableTyped /\ SettingInv /\ Shape
  BY TypedParts DEF CallsTyped, ChannelTyped, SessionTyped, Shape, Commands
<1>a. ASSUME UNCHANGED <<calls, table>> PROVE CallsTyped' /\ TableTyped' /\ SettingInv'
  BY <1>0, <1>a DEF CallsTyped, TableTyped, SettingInv, Sends, calls
<1>1. CASE UNCHANGED vars \/ Connected \/ ConnectFails \/ EngineOutput \/ StreamPoll
  BY <1>1, <1>a DEF vars, Connected, ConnectFails, EngineOutput, StreamPoll
<1>2. CASE ThreadReady \/ ThreadFails \/ ThreadStops \/ EngineWaits
  BY <1>2, <1>a DEF ThreadReady, ThreadFails, ThreadStops, EngineWaits
<1>3. CASE ThreadPanics
  <2>1. CallsTyped'
    BY <1>0, <1>3, ReplyTypes DEF ThreadPanics, CallsTyped, InFlight
  <2>2. TableTyped'
    BY <1>0, <1>3 DEF ThreadPanics, TableTyped
  <2>3. Closed.is # "ok"
    BY DEF Closed, Reply
  <2>4. SettingInv'
    BY <1>0, <1>3, <2>3 DEF ThreadPanics, SettingInv, Sends, CallsTyped
  <2>5. QED
    BY <2>1, <2>2, <2>4
<1>4. CASE GoReplies \/ KernelReplies
  <2>1. PICK r \in Replies : /\ waited(r) \/ go_expires(r) \/ kernel_waited(r)
                             /\ WaitReplies(r)
    BY <1>4 DEF GoReplies, KernelReplies
  <2>2. r.is # "ok"
    BY <2>1 DEF waited, go_expires, kernel_waited, StopOutcome, Failed, Reply
  <2>3. QED
    BY <2>1, <2>2, AnsweredTypes DEF WaitReplies, backendRest
<1>5. ASSUME NEW c \in Calls, Dispatch(c)
      PROVE  CallsTyped' /\ TableTyped' /\ SettingInv'
  <2>1. UNCHANGED <<plan, ask, work, table, leftover>>
    BY <1>5 DEF Dispatch, backendRest
  <2>2. CASE ask[c].verb = "set_breakpoint"
    <3>1. PICK r \in Replies :
             /\ set_breakpoint(ask[c].place, ask[c].place.key \in Conditional, r)
             /\ Answered(c, r)
      BY <1>5, <2>2, SetAnswers
    <3>2. r.is = "ok" => r.hit \in Ids
      <4>1. r = Failed \/ \E i \in Ids : r = Reply("ok", i)
        BY <3>1 DEF set_breakpoint
      <4>2. QED
        BY <4>1 DEF Failed, Reply
    <3>3. QED
      BY <2>1, <3>1, <3>2, AnsweredTypes
  <2>3. CASE ask[c].verb # "set_breakpoint"
    <3>1. PICK r \in Replies : Answered(c, r)
      BY <1>5, DispatchAnswers
    <3>2. QED
      BY <2>1, <2>3, <3>1, AnsweredTypes
  <2>4. QED
    BY <2>2, <2>3
<1>6. ASSUME NEW c \in Calls, DispatchWaiting(c)
      PROVE  CallsTyped' /\ TableTyped' /\ SettingInv'
  BY <1>6, <1>a DEF DispatchWaiting, backendRest, calls
<1>7. ASSUME NEW c \in Calls, CallSide(c)
      PROVE  CallsTyped' /\ TableTyped' /\ SettingInv'
  <2>1. CASE BeginSet(c) \/ SetAnswered(c)
    <3>1. UNCHANGED <<plan, answer>> /\ plan[c].kind = "set" /\ leftover' \subseteq Ids
      <4>1. /\ UNCHANGED <<plan, answer>> /\ plan[c].kind = "set"
            /\ \/ leftover' = leftover
               \/ /\ pc[c] = "answered" /\ ask[c].verb # "set_breakpoint"
                  /\ leftover' = leftover \cup {ask[c].id}
        BY <2>1, SetForms
      <4>2. leftover' # leftover => ask[c].id \in Ids
        BY <1>0, <4>1 DEF SettingInv, Sends
      <4>3. QED
        BY <1>0, <4>1, <4>2 DEF CallsTyped
    <3>2. CASE UNCHANGED <<ask, work, table, leftover>> /\ pc' = [pc EXCEPT ![c] = "done"]
      BY <1>0, <3>1, <3>2 DEF CallsTyped, TableTyped, SettingInv, Sends
    <3>3. CASE pc[c] = "start" /\ Proceed(c, FirstWork(c))
      BY <1>0, <3>1, <3>3, FirstTyped, ProceedTypes
    <3>4. CASE pc[c] = "answered" /\ Proceed(c, NextWork(c))
      BY <1>0, <3>1, <3>4, NextTyped, ProceedTypes
    <3>5. QED
      BY <2>1, <3>2, <3>3, <3>4, SetForms
  <2>2. CASE Flush(c)
    <3> DEFINE flushing == ask[c].verb = "set_breakpoint"
               p == ask[c].place
               left == IF flushing THEN Tail(work[c].todo) ELSE work[c].todo
               row == Recorded(table[p.group], p.key, answer[c].hit)
    <3>1. /\ work[c] = [todo |-> work[c].todo, new |-> work[c].new, drop |-> work[c].drop]
          /\ work[c].todo \in Seq(Places) /\ Local(work[c])
      BY <1>0 DEF TableTyped, Local
    <3>2. left \in Seq(Places)
      <4>1. CASE flushing
        <5>1. work[c].todo # <<>>
          BY <1>0, <2>2, <4>1 DEF Flush, SettingInv, Sends
        <5>2. QED
          BY <3>1, <4>1, <5>1, HeadTail
      <4>2. QED
        BY <3>1, <4>1
    <3>3. p.group \in Groups /\ p.key \in Keys
      BY <1>0 DEF CallsTyped, Commands, Places
    <3>4. UNCHANGED <<plan, answer, leftover>> /\ plan[c].kind = "launch"
      BY <2>2 DEF Flush, quiet
    <3>5. work' = [work EXCEPT ![c] = [todo |-> left, new |-> work[c].new,
                                       drop |-> work[c].drop]]
      <4>1. work' = [work EXCEPT ![c].todo = left]
        BY <2>2 DEF Flush
      <4> HIDE DEF left
      <4>2. [work[c] EXCEPT !.todo = left] = [todo |-> left, new |-> work[c].new,
                                              drop |-> work[c].drop]
        BY <3>1
      <4>3. QED
        BY <4>1, <4>2
    <3>6. TableTyped'
      <4>1. work' = [d \in Calls |-> work'[d]] /\ \A d \in Calls : Local(work'[d])
        <5>1. Local([todo |-> left, new |-> work[c].new, drop |-> work[c].drop])
          <6> HIDE DEF left
          <6>1. QED
            BY <3>1, <3>2 DEF Local
        <5> HIDE DEF left
        <5>2. QED
          BY <1>0, <3>5, <5>1 DEF TableTyped
      <4>2. table' = [g \in Groups |-> table'[g]] /\ \A g \in Groups : Row(table'[g])
        <5>1. CASE table' = table
          BY <1>0, <5>1 DEF TableTyped
        <5>2. CASE flushing /\ answer[c].is = "ok" /\ table' = [table EXCEPT ![p.group] = row]
          <6>1. answer[c].hit \in Ids
            BY <1>0, <2>2, <5>2 DEF Flush, SettingInv, Sends
          <6>2. Row(row)
            BY <1>0, <3>3, <6>1, RecordedRow DEF TableTyped
          <6> HIDE DEF row, p
          <6>3. QED
            BY <1>0, <3>3, <5>2, <6>2 DEF TableTyped
        <5>3. QED
          BY <2>2, <5>1, <5>2 DEF Flush
      <4>3. QED
        BY <4>1, <4>2 DEF TableTyped
    <3>7. CASE left # <<>> /\ Asks(c, SetAt(Head(left)))
      <4> HIDE DEF left
      <4>1. Head(left) \in Places
        BY <3>2, <3>7, HeadTail
      <4>2. CallsTyped'
        BY <1>0, <3>4, <3>7, <4>1, CommandTypes DEF CallsTyped, Asks, InFlight
      <4>3. SettingInv'
        <5>1. work'[c].todo = left
          BY <1>0, <3>5 DEF TableTyped
        <5>2. \A d \in Calls \ {c} : work'[d] = work[d]
          BY <1>0, <3>5 DEF TableTyped
        <5>3. SetAt(Head(left)).verb = "set_breakpoint"
          BY DEF SetAt
        <5>4. QED
          BY <1>0, <3>4, <3>7, <5>1, <5>2, <5>3 DEF CallsTyped, SettingInv, Sends, Asks
      <4>4. QED
        BY <3>6, <4>2, <4>3
    <3>8. CASE pc' = [pc EXCEPT ![c] = "done"] /\ UNCHANGED ask
      <4> HIDE DEF left
      <4>1. CallsTyped'
        BY <1>0, <3>4, <3>8 DEF CallsTyped, InFlight
      <4>2. SettingInv'
        <5>1. \A d \in Calls \ {c} : work'[d] = work[d]
          BY <1>0, <3>5 DEF TableTyped
        <5>2. QED
          BY <1>0, <3>4, <3>8, <5>1 DEF CallsTyped, SettingInv, Sends
      <4>3. QED
        BY <3>6, <4>1, <4>2
    <3>9. QED
      BY <2>2, <3>7, <3>8 DEF Flush, Reports
  <2>3. CASE BeginConnecting(c)
    <3>1. /\ UNCHANGED <<plan, answer, leftover, table>> /\ pc[c] = "start"
          /\ plan[c].kind # "set"
      BY <2>3 DEF BeginConnecting, Begins, quiet
    <3>2. TableTyped'
      <4>1. CASE work' = work
        BY <1>0, <3>1, <4>1 DEF TableTyped
      <4>2. CASE work' = [work EXCEPT ![c].todo =
                             PlacesOf(plan[c].group, Settable(plan[c].keys, {}))]
        <5> DEFINE todo == PlacesOf(plan[c].group, Settable(plan[c].keys, {}))
        <5>1. todo \in Seq(Places)
          <6>1. plan[c].group \in Groups /\ plan[c].keys \in Seq(Keys)
            BY <1>0 DEF CallsTyped, Ops
          <6>2. QED
            BY <6>1, SettableKeys, PlacesTyped
        <5> HIDE DEF todo
        <5>2. Local(work[c])
          BY <1>0 DEF TableTyped
        <5>3. [work[c] EXCEPT !.todo = todo] = [todo |-> todo, new |-> work[c].new,
                                                drop |-> work[c].drop]
          BY <5>2 DEF Local
        <5>4. Local([todo |-> todo, new |-> work[c].new, drop |-> work[c].drop])
          BY <5>1, <5>2 DEF Local
        <5>5. work' = [work EXCEPT ![c] = [todo |-> todo, new |-> work[c].new,
                                           drop |-> work[c].drop]]
          BY <4>2, <5>3 DEF todo
        <5>6. QED
          BY <1>0, <3>1, <5>4, <5>5 DEF TableTyped
      <4>3. QED
        BY <2>3, <4>1, <4>2 DEF BeginConnecting
    <3>3. /\ pc' \in {[pc EXCEPT ![c] = "send"], [pc EXCEPT ![c] = "lookup"]}
          /\ \/ ask' = ask /\ pc' = [pc EXCEPT ![c] = "lookup"]
             \/ \E v \in {"launch", "open_dump", "attach_kernel"} :
                   ask' = [ask EXCEPT ![c] = Command(v)]
      BY <2>3 DEF BeginConnecting, Begins, Asks
    <3>4. CallsTyped'
      BY <1>0, <3>1, <3>3, CommandTypes DEF CallsTyped, InFlight
    <3>5. SettingInv'
      <4>1. \A d \in Calls \ {c} : work'[d] = work[d]
        BY <1>0, <2>3 DEF TableTyped, BeginConnecting
      <4>2. \A v \in {"launch", "open_dump", "attach_kernel"} :
               Command(v).verb \notin {"set_breakpoint", "remove_breakpoint"}
        BY DEF Command
      <4>3. QED
        BY <1>0, <3>1, <3>3, <4>1, <4>2 DEF CallsTyped, SettingInv, Sends
    <3>6. QED
      BY <3>2, <3>4, <3>5
  <2>4. CASE Enqueue(c) \/ SendFails(c)
    <3>1. UNCHANGED <<plan, ask, work, leftover, table>>
      BY <2>4 DEF Enqueue, SendFails
    <3>2. \/ pc' = [pc EXCEPT ![c] = "await"] /\ UNCHANGED answer
          \/ pc' = [pc EXCEPT ![c] = "answered"] /\ answer' = [answer EXCEPT ![c] = Closed]
      BY <2>4 DEF Enqueue, SendFails
    <3>3. pc[c] = "send" /\ Closed.is # "ok"
      BY <2>4 DEF Enqueue, SendFails, Closed, Reply
    <3>4. CallsTyped'
      BY <1>0, <3>1, <3>2, ReplyTypes DEF CallsTyped, InFlight
    <3>5. TableTyped'
      BY <1>0, <3>1 DEF TableTyped
    <3>6. SettingInv'
      BY <1>0, <3>1, <3>2, <3>3 DEF CallsTyped, SettingInv, Sends
    <3>7. QED
      BY <3>4, <3>5, <3>6
  <2>5. CASE \/ Ends(c) \/ BeginResume(c) \/ BeginInspect(c) \/ Pause(c) \/ BeginDisconnect(c)
             \/ Resolved(c) \/ LookupFails(c) \/ Abandon(c)
    <3>1. UNCHANGED <<plan, answer, work, leftover, table>>
      BY <2>5
      DEF Ends, BeginResume, BeginInspect, Pause, BeginDisconnect, Resolved, LookupFails,
          Abandon, quiet
    <3>2. \/ pc' \in {[pc EXCEPT ![c] = "done"], [pc EXCEPT ![c] = "gone"]} /\ UNCHANGED ask
          \/ /\ pc' = [pc EXCEPT ![c] = "send"]
             /\ \E v \in {"attach_pid", "go", "break_in", "step", "inspect", "detach"} :
                   ask' = [ask EXCEPT ![c] = Command(v)]
      BY <2>5
      DEF Ends, BeginResume, BeginInspect, Pause, BeginDisconnect, Resolved, LookupFails,
          Abandon, Reports, Asks
    <3>3. CallsTyped'
      BY <1>0, <3>1, <3>2, CommandTypes DEF CallsTyped, InFlight
    <3>4. TableTyped'
      BY <1>0, <3>1 DEF TableTyped
    <3>5. \A v \in {"attach_pid", "go", "break_in", "step", "inspect", "detach"} :
             Command(v).verb \notin {"set_breakpoint", "remove_breakpoint"}
      BY DEF Command
    <3>6. SettingInv'
      <4>1. pc' = [pc EXCEPT ![c] = "send"] => plan[c].kind # "set"
        <5>1. CASE Resolved(c)
          BY <5>1 DEF Resolved, AskInv
        <5>2. CASE LookupFails(c) \/ Abandon(c)
          BY <1>0, <5>2 DEF LookupFails, Abandon, Reports, CallsTyped, InFlight
        <5>3. CASE Ends(c)
          BY <5>3 DEF Ends, Reports
        <5>4. CASE BeginResume(c) \/ BeginInspect(c) \/ Pause(c) \/ BeginDisconnect(c)
          BY <5>4 DEF BeginResume, BeginInspect, Pause, BeginDisconnect, Begins
        <5>5. QED
          BY <2>5, <5>1, <5>2, <5>3, <5>4
      <4>2. QED
        BY <1>0, <3>1, <3>2, <3>5, <4>1 DEF CallsTyped, SettingInv, Sends
    <3>7. QED
      BY <3>3, <3>4, <3>6
  <2>6. QED
    BY <1>7, <2>1, <2>2, <2>3, <2>4, <2>5 DEF CallSide, CallStep, Starts
<1>8. QED
  BY <1>1, <1>2, <1>3, <1>4, <1>5, <1>6, <1>7, Sides DEF EngineSide

\* The session keeps its types.
LEMMA SessionTypes == Typed /\ [Next]_vars => SessionTyped'
<1> SUFFICES ASSUME Typed, [Next]_vars PROVE SessionTyped'
  OBVIOUS
<1>0. SessionTyped /\ CallsTyped /\ Shape
  BY TypedParts DEF CallsTyped, ChannelTyped, SessionTyped, Shape, Commands
<1>a. ASSUME UNCHANGED <<pid, session>> PROVE SessionTyped'
  BY <1>0, <1>a DEF SessionTyped, session
<1>1. CASE EngineSide
  <2>1. UNCHANGED <<phase, told, slot>>
    BY <1>0, <1>1, EngineKeeps
  <2>2. UNCHANGED pid
    BY <1>1
    DEF EngineSide, ThreadReady, ThreadFails, ThreadStops, ThreadPanics, EngineWaits, GoReplies,
        KernelReplies, WaitReplies, Dispatch, DispatchWaiting, backendRest
  <2>3. QED
    BY <1>a, <2>1, <2>2 DEF session
<1>2. CASE UNCHANGED vars \/ EngineOutput \/ StreamPoll
  BY <1>2, <1>a DEF vars, EngineOutput, StreamPoll
<1>3. CASE Connected \/ ConnectFails
  BY <1>0, <1>3 DEF Connected, ConnectFails, SessionTyped
<1>4. ASSUME NEW c \in Calls, CallSide(c)
      PROVE  SessionTyped'
  <2>1. ASSUME NEW r \in Replies, Reports(c, r), UNCHANGED pid
        PROVE  SessionTyped'
    <3>1. slot' \in BOOLEAN /\ told' \in Replies /\ phase' \in {"ended", "stopped"}
      BY <2>1 DEF Reports
    <3>2. QED
      BY <1>0, <2>1, <3>1 DEF SessionTyped
  <2>2. \A d \in Calls : answer[d] \in Replies
    BY <1>0 DEF CallsTyped
  <2>3. CASE Ends(c)
    BY <1>a, <2>1, <2>2, <2>3 DEF Ends
  <2>4. CASE Flush(c)
    <3>1. UNCHANGED pid
      BY <2>4 DEF Flush
    <3>2. UNCHANGED session \/ \E r \in Replies : Reports(c, r)
      BY <2>2, <2>4, ReplyTypes DEF Flush
    <3>3. QED
      BY <1>a, <2>1, <3>1, <3>2
  <2>5. CASE LookupFails(c)
    BY <2>1, <2>5, ReplyTypes DEF LookupFails
  <2>6. CASE BeginSet(c) \/ SetAnswered(c)
    BY <1>a, <2>6, SetForms
  <2>7. CASE \/ Enqueue(c) \/ SendFails(c) \/ BeginInspect(c) \/ Pause(c) \/ BeginDisconnect(c)
    BY <1>a, <2>7 DEF Enqueue, SendFails, BeginInspect, Pause, BeginDisconnect
  <2>8. CASE BeginConnecting(c) \/ BeginResume(c) \/ Resolved(c) \/ Abandon(c)
    BY <1>0, <2>8
    DEF BeginConnecting, BeginResume, Resolved, Abandon, Runs, SessionTyped, session
  <2>9. QED
    BY <1>4, <2>3, <2>4, <2>5, <2>6, <2>7, <2>8 DEF CallSide, CallStep, Starts
<1>5. QED
  BY <1>1, <1>2, <1>3, <1>4, Sides

\* The types at the start.
LEMMA TypedInit == Init => Typed
<1> SUFFICES ASSUME Init PROVE Typed
  OBVIOUS
<1> USE DEF Init
<1>1. EngineTypeOK
  <2>1. Event("none") \in Events
    BY DEF Event, Events
  <2>2. pool = << >> => DOMAIN pool = {} /\ pool \in [DOMAIN pool -> Locations \cup {Unreported}]
    OBVIOUS
  <2>3. 0 \in 0 .. BreakPolls
    BY EngineAssumption
  <2>4. QED
    BY <2>1, <2>2, <2>3 DEF EngineInit, EngineTypeOK
<1>2. ChannelTyped
  BY BackendAssumption DEF ChannelTyped
<1>3. CallsTyped
  BY BackendAssumption, CommandTypes, ReplyTypes DEF CallsTyped
<1>4. TableTyped
  <2>1. Local(NoWork) /\ Row(<< >>)
    BY DEF Local, Row, NoWork
  <2>2. QED
    BY <2>1 DEF TableTyped
<1>5. SessionTyped /\ EventsTyped
  <2>1. 0 \in 0 .. MaxOutput /\ 0 <= 0
    BY BackendAssumption
  <2>2. EventsTyped
    BY <2>1 DEF EventsTyped
  <2>3. SessionTyped
    BY ReplyTypes DEF SessionTyped
  <2>4. QED
    BY <2>2, <2>3
<1>6. SettingInv
  BY DEF SettingInv, Sends
<1>7. QED
  BY <1>1, <1>2, <1>3, <1>4, <1>5, <1>6, TypedParts

\* Every step keeps the types.
LEMMA TypedStep == Typed /\ AskInv /\ [Next]_vars => Typed'
BY ChannelStep, EngineStep, EventsStep, CallsStep, SessionTypes, TypedParts, PTL

\* The types always hold; that a command is its operation's own comes from AskInv.
LEMMA TypedAlways == Spec => []Typed
<1>1. Inv => AskInv
  BY DEF Inv
<1>2. QED
  BY <1>1, TypedInit, TypedStep, InvAlways, PTL DEF Spec

\* Commands, locals, table, channel, stream and engine have their types: the numbers
\* recorded are numbers DbgEng gave out, a channel never holds more than its
\* capacity, and no wait polls past its bound.
THEOREM BackendTypes == Spec => []TypeOK
<1>1. Typed => TypeOK
  BY DEF Typed
<1>2. QED
  BY <1>1, TypedAlways, PTL

-----------------------------------------------------------------------------
(* The table *)

\* What the theorems about the table ask of the client: no location twice in a list.
NoRepeats == \A p \in PlanChoices : \A c \in Calls : Distinct(p[c].keys)

Live == target # "none"
Has(i, g, k) == i \in DOMAIN pool /\ pool[i] = Place(g, k)
Numbers(f) == {f[k] : k \in DOMAIN f}
Single(f) == \A k, l \in DOMAIN f : f[k] = f[l] => k = l

Group(c) == plan[c].group
Prior(c) == table[Group(c)]
Setter(c) == plan[c].kind = "set" /\ Sends(c)
Launcher(c) == plan[c].kind = "launch" /\ Sends(c)
Removing(c) == Setter(c) /\ ask[c].verb = "remove_breakpoint"

\* The number a call was given for the breakpoint it is setting.
Given(c) == /\ pc[c] = "answered" /\ ask[c].verb = "set_breakpoint"
            /\ answer[c].is = "ok"

\* The plan is one of those assumed; "closed" is the answer of a dead thread; a
\* connecting call that was dropped has dropped the backend, and setters are not dropped.
PlanInv ==
    /\ plan \in PlanChoices
    /\ \A c \in Calls :
          /\ pc[c] = "answered" /\ answer[c].is = "closed" => thread = "exited"
          /\ pc[c] = "gone" => plan[c].kind # "set"
                                  /\ (plan[c].kind \in Connecting => ~ slot)

\* Nothing was set before the connecting call came to its flush.
Settled(c) == plan[c].kind \in Connecting /\ Begun(c)
                 /\ (pc[c] = "done" \/ ask[c].verb = "set_breakpoint")
SomeSettled == \E c \in Calls : Settled(c)
OriginInv ==
    ~ SomeSettled => (\A g \in Groups : DOMAIN table[g] = {}) /\ DOMAIN pool = {}

\* One request of a group at a time.
MutexInv ==
    \A c, d \in Calls : Setter(c) /\ Setter(d) /\ Group(c) = Group(d) => c = d

\* The keys a call asks for.
Listed(c) == ToSet(plan[c].keys)

\* What is still to be set: places of the call's group and list, each once, none of
\* them tracked.
TodoOk(c, todo) ==
    /\ Distinct(todo)
    /\ \A i \in 1 .. Len(todo) : /\ todo[i].group = Group(c)
                                 /\ todo[i].key \in Listed(c)
                                 /\ todo[i].key \notin Rejected \cup DOMAIN Prior(c)

TodoInv ==
    \A c \in Calls : Setter(c) \/ Launcher(c) =>
        /\ TodoOk(c, work[c].todo)
        /\ ask[c].verb = "set_breakpoint" => ask[c].place = Head(work[c].todo)

\* What a request is going to commit: keys of its list, with all of those the group
\* has, numbers it keeps, and others the group did not have.
NewOk(c, new) ==
    /\ DOMAIN new \cap Rejected = {}
    /\ DOMAIN new \subseteq Listed(c)
    /\ DOMAIN Prior(c) \cap Listed(c) \subseteq DOMAIN new
    /\ Single(new)
    /\ \A k \in DOMAIN new : IF k \in DOMAIN Prior(c) THEN new[k] = Prior(c)[k]
                                                      ELSE new[k] \notin Numbers(Prior(c))

\* What a request is going to remove.
Stale(c, new) == DOMAIN Prior(c) \ DOMAIN new

WorkOk(c, w) ==
    /\ NewOk(c, w.new)
    /\ \A i \in 1 .. Len(w.todo) : w.todo[i].key \notin DOMAIN w.new
    /\ w.drop \subseteq {Prior(c)[k] : k \in Stale(c, w.new)} \ {0}

NewInv ==
    \A c \in Calls : Setter(c) =>
        /\ WorkOk(c, work[c])
        /\ Removing(c) => work[c].todo = <<>> /\ ask[c].id \in work[c].drop
        /\ ~ Removing(c) => \A k \in Stale(c, work[c].new) : Prior(c)[k] \in work[c].drop \cup {0}

\* A number that was given is not one of the group.
GivenInv ==
    \A c \in Calls : (Setter(c) \/ Launcher(c)) /\ Given(c) =>
        /\ answer[c].hit \notin Numbers(Prior(c))
        /\ Setter(c) => answer[c].hit \notin Numbers(work[c].new)

\* No group has a number twice, and no rejected key.
TableInv ==
    \A g \in Groups : Single(table[g]) /\ DOMAIN table[g] \cap Rejected = {}

\* A tracked breakpoint that a request has not asked the engine to remove.
Kept(g, k) ==
    \A c \in Calls : Removing(c) /\ Group(c) = g /\ k \notin DOMAIN work[c].new =>
        table[g][k] \in work[c].drop \ (IF pc[c] = "answered" THEN {ask[c].id} ELSE {})

\* The engine has what the table tracks and what the requests are going to track.
EngineInv ==
    Live =>
        /\ \A g \in Groups : \A k \in DOMAIN table[g] : Kept(g, k) => Has(table[g][k], g, k)
        /\ \A c \in Calls : Setter(c) =>
              \A k \in DOMAIN work[c].new : Has(work[c].new[k], Group(c), k)
        /\ \A c \in Calls : (Setter(c) \/ Launcher(c)) /\ Given(c) =>
              Has(answer[c].hit, Group(c), ask[c].place.key)

\* What is in the engine is tracked or going to be, a few left over excepted.
Spare(i) == i \in leftover \cup {0}
InTable(i) == \E g \in Groups : \E k \in DOMAIN table[g] : table[g][k] = i /\ Has(i, g, k)
InWork(c, i) ==
    \/ Setter(c) /\ \E k \in DOMAIN work[c].new : work[c].new[k] = i /\ Has(i, Group(c), k)
    \/ (Setter(c) \/ Launcher(c)) /\ Given(c) /\ answer[c].hit = i
          /\ Has(i, Group(c), ask[c].place.key)
Tracked(i) == Spare(i) \/ pool[i] = Unreported \/ InTable(i) \/ \E c \in Calls : InWork(c, i)

\* A request has no more to do for a number it had to remove.
Finished(c, i) ==
    i \notin work[c].drop \/ (pc[c] = "answered" /\ ask[c].id = i /\ answer[c] # Failed)

PoolInv ==
    Live /\ slot /\ thread = "serving" =>
        /\ \A i \in DOMAIN pool : Tracked(i)
        /\ \A c \in Calls : Removing(c) =>
              \A k \in Stale(c, work[c].new) :
                  Finished(c, Prior(c)[k]) => Spare(Prior(c)[k]) \/ ~ Has(Prior(c)[k], Group(c), k)

TableHolds ==
    /\ PlanInv /\ OriginInv /\ MutexInv /\ TodoInv /\ NewInv /\ GivenInv /\ TableInv
    /\ EngineInv /\ PoolInv

-----------------------------------------------------------------------------
(* The engine thread, as the table sees it *)

\* A setter, or a launch that flushes, comes after the connecting call's command.
LEMMA SetterAlone ==
    ASSUME Inv, NEW c \in Calls, Setter(c)
    PROVE  SomeSettled /\ \A d \in Calls : ~ Launcher(d)
<1>1. Begun(c) /\ plan[c].kind = "set"
  BY DEF Setter, Sends, Begun
<1>2. PICK e \in Calls : plan[e].kind \in Connecting /\ pc[e] = "done"
  BY <1>1 DEF Inv, ConnectInv, SomeConnected
<1>3. SomeSettled
  BY <1>2 DEF SomeSettled, Settled, Begun
<1>4. ASSUME NEW d \in Calls, Launcher(d)
      PROVE  FALSE
  BY <1>2, <1>4 DEF Inv, ConnectInv, Launcher, Sends, Begun, Connecting
<1>5. QED
  BY <1>3, <1>4

\* There is one launch.
LEMMA LauncherAlone ==
    ASSUME Inv, NEW c \in Calls, NEW d \in Calls, Launcher(c), Launcher(d)
    PROVE  c = d
BY DEF Inv, ConnectInv, Launcher, Sends, Begun, Connecting

\* Nothing was set while the connecting call's first command is under way.
LEMMA Unsettled ==
    ASSUME Inv, NEW c \in Calls, plan[c].kind \in Connecting, Begun(c), pc[c] # "done",
           ask[c].verb # "set_breakpoint"
    PROVE  ~ SomeSettled
BY DEF Inv, ConnectInv, SomeSettled, Settled

\* The methods that neither set nor remove: a target they leave alive was alive,
\* with the breakpoints it has, unless they connect.
LEMMA MethodForms ==
    ASSUME NEW r \in Replies
    PROVE  /\ \/ launch(r) \/ attach_pid(r) \/ open_dump(r) \/ attach_kernel_refused(r)
              => DOMAIN pool' \subseteq DOMAIN pool /\ r.is # "closed"
           /\ \/ go_refused(r) \/ break_in_refused(r) \/ step(r) \/ inspect(r) \/ detach(r)
              => /\ DOMAIN pool' \subseteq DOMAIN pool /\ r.is # "closed"
                 /\ Live' => Live /\ pool' = pool
<1>0. Failed.is # "closed" /\ Plain.is # "closed"
  BY DEF Failed, Plain, Reply
<1>1. ASSUME NEW x, NEW s \in Replies, WaitInStep(x, s)
      PROVE  /\ DOMAIN pool' \subseteq DOMAIN pool /\ s.is # "closed"
             /\ Live' => pool' = pool
  <2>1. CASE s = Failed /\ UNCHANGED pool
    BY <1>0, <2>1
  <2>2. CASE s.is \in {"stopped", "exited"} /\ \E e \in Stops(x) : Happens(e)
    <3>1. pool' = pool \/ (pool' = << >> /\ target' = "none")
      BY <2>2 DEF Happens
    <3>2. QED
      BY <2>2, <3>1 DEF Live
  <2>3. QED
    BY <1>1, <2>1, <2>2 DEF WaitInStep
<1>2. ASSUME launch(r) \/ attach_pid(r)
      PROVE  DOMAIN pool' \subseteq DOMAIN pool /\ r.is # "closed"
  <2>1. Begin(r)
    BY <1>2 DEF launch, attach_pid
  <2>2. CASE WaitInStep({}, r)
    BY <1>1, <2>2
  <2>3. CASE r = Failed /\ UNCHANGED pool
    BY <1>0, <2>3
  <2>4. CASE r = Failed /\ \E s \in Replies : WaitInStep({}, s)
    BY <1>0, <1>1, <2>4
  <2>5. QED
    BY <2>1, <2>2, <2>3, <2>4 DEF Begin
<1>3. ASSUME open_dump(r) \/ attach_kernel_refused(r)
      PROVE  DOMAIN pool' \subseteq DOMAIN pool /\ r.is # "closed"
  BY <1>0, <1>3 DEF open_dump, attach_kernel_refused
<1>4. ASSUME go_refused(r) \/ break_in_refused(r) \/ inspect(r)
      PROVE  /\ DOMAIN pool' \subseteq DOMAIN pool /\ r.is # "closed"
             /\ Live' => Live /\ pool' = pool
  BY <1>0, <1>4 DEF go_refused, break_in_refused, inspect, engine, Live
<1>5. ASSUME step(r)
      PROVE  /\ DOMAIN pool' \subseteq DOMAIN pool /\ r.is # "closed"
             /\ Live' => Live /\ pool' = pool
  <2>1. CASE r = Failed /\ UNCHANGED <<target, pool, event, callbacks, waiting>>
    BY <1>0, <2>1 DEF Live
  <2>2. CASE target # "none" /\ WaitInStep({"step"}, r)
    BY <1>1, <2>2 DEF Live
  <2>3. QED
    BY <1>5, <2>1, <2>2 DEF step
<1>6. ASSUME detach(r)
      PROVE  /\ DOMAIN pool' \subseteq DOMAIN pool /\ r.is # "closed"
             /\ Live' => Live /\ pool' = pool
  <2>1. \/ r = Failed /\ UNCHANGED <<target, pool>>
        \/ r = Plain /\ target' = "none" /\ pool' = << >>
    BY <1>6 DEF detach, engine
  <2>2. QED
    BY <1>0, <2>1 DEF Live
<1>7. QED
  BY <1>2, <1>3, <1>4, <1>5, <1>6

\* The thread does not answer a request about breakpoints, or only by ending.
Dying(c) == /\ pc[c] = "await" /\ pc'[c] = "answered" /\ answer'[c] = Closed
            /\ thread' = "exited"

Quietly ==
    /\ DOMAIN pool' \subseteq DOMAIN pool
    /\ Live' /\ SomeSettled => Live /\ pool' = pool
    /\ \A c \in Calls : ask[c].verb \in {"set_breakpoint", "remove_breakpoint"} =>
          (pc'[c] = pc[c] /\ answer'[c] = answer[c]) \/ Dying(c)

\* It sets a breakpoint, or removes one.
SetsOne(c) ==
    /\ thread = "serving" /\ thread' = "serving"
    /\ pc[c] \in {"await", "gone"} /\ ask[c].verb = "set_breakpoint"
    /\ \E r \in Replies :
          /\ set_breakpoint(ask[c].place, ask[c].place.key \in Conditional, r)
          /\ Answered(c, r)

RemovesOne(c) ==
    /\ thread = "serving" /\ thread' = "serving"
    /\ pc[c] \in {"await", "gone"} /\ ask[c].verb = "remove_breakpoint"
    /\ \E r \in Replies : remove_breakpoint(ask[c].id, r) /\ Answered(c, r)

\* Answering one call leaves the others as they are.
LEMMA AnswersOne ==
    ASSUME Typed, NEW c \in Calls, NEW r \in Replies, Answered(c, r), NEW d \in Calls
    PROVE  /\ \/ pc'[d] = pc[d] /\ answer'[d] = answer[d]
              \/ d = c /\ pc[d] = "await" /\ pc'[d] = "answered" /\ answer'[d] = r
           /\ pc[c] = "await" => pc'[c] = "answered" /\ answer'[c] = r
           /\ pc[c] # "await" => pc'[c] = pc[c] /\ answer'[c] = answer[c]
BY TypedParts DEF CallsTyped, Answered

\* A call whose command is dispatched awaits it or was dropped.
LEMMA DispatchedCall ==
    ASSUME Typed, Inv, NEW c \in Calls, queue # <<>>, Head(queue) = c
    PROVE  pc[c] \in {"await", "gone"}
<1>1. queue \in Seq(Calls) /\ Len(queue) \in Nat /\ Len(queue) > 0 /\ queue[1] = c
  BY HeadTail, TypedParts DEF ChannelTyped
<1>2. QED
  BY <1>1 DEF Inv, QueueInv

\* How a dispatched command touches the breakpoints.
LEMMA DispatchForms ==
    ASSUME Typed, Inv, NEW c \in Calls, Dispatch(c)
    PROVE  /\ thread = "serving" /\ thread' = "serving"
           /\ \E r \in Replies : r.is # "closed" /\ Answered(c, r)
           /\ Quietly \/ SetsOne(c) \/ RemovesOne(c)
<1>1. /\ thread = "serving" /\ thread' = "serving" /\ queue # <<>> /\ Head(queue) = c
  BY DEF Dispatch, Serves
<1>2. pc[c] \in {"await", "gone"} /\ Begun(c)
  BY <1>1, DispatchedCall DEF Begun
<1>3. CASE ask[c].verb = "set_breakpoint"
  <2>1. PICK r \in Replies :
           /\ set_breakpoint(ask[c].place, ask[c].place.key \in Conditional, r)
           /\ Answered(c, r)
    BY <1>3, SetAnswers
  <2>2. r.is # "closed"
    <3>1. r = Failed \/ \E i \in Ids : r = Reply("ok", i)
      BY <2>1 DEF set_breakpoint
    <3>2. QED
      BY <3>1 DEF Failed, Reply
  <2>3. SetsOne(c)
    BY <1>1, <1>2, <1>3, <2>1 DEF SetsOne
  <2>4. QED
    BY <1>1, <2>1, <2>2, <2>3
<1>4. CASE ask[c].verb = "remove_breakpoint"
  <2>1. PICK r \in Replies : remove_breakpoint(ask[c].id, r) /\ Answered(c, r)
    BY <1>4 DEF Dispatch, Serves
  <2>2. r.is # "closed"
    <3>1. r = Failed \/ r = Plain
      BY <2>1 DEF remove_breakpoint
    <3>2. QED
      BY <3>1 DEF Failed, Plain, Reply
  <2>3. RemovesOne(c)
    BY <1>1, <1>2, <1>4, <2>1 DEF RemovesOne
  <2>4. QED
    BY <1>1, <2>1, <2>2, <2>3
<1>5. CASE ask[c].verb \notin {"set_breakpoint", "remove_breakpoint"}
  <2>1. PICK r \in Replies :
          /\ \/ /\ ask[c].verb \in {"launch", "attach_pid", "open_dump", "attach_kernel"}
                /\ launch(r) \/ attach_pid(r) \/ open_dump(r) \/ attach_kernel_refused(r)
             \/ go_refused(r) \/ break_in_refused(r) \/ step(r) \/ inspect(r) \/ detach(r)
          /\ Answered(c, r)
    BY <1>5, Zenon DEF Dispatch, Serves
  <2>2. DOMAIN pool' \subseteq DOMAIN pool /\ r.is # "closed"
    BY <2>1, MethodForms
  <2>3. Live' /\ SomeSettled => Live /\ pool' = pool
    <3>1. CASE \/ go_refused(r) \/ break_in_refused(r) \/ step(r) \/ inspect(r) \/ detach(r)
      BY <3>1, MethodForms
    <3>2. CASE ask[c].verb \in {"launch", "attach_pid", "open_dump", "attach_kernel"}
      <4>1. plan[c].kind \in Connecting /\ pc[c] # "done"
        BY <1>2, <3>2 DEF Inv, AskInv, Connecting
      <4>2. QED
        BY <1>2, <1>5, <4>1, Unsettled
    <3>3. QED
      BY <2>1, <3>1, <3>2
  <2>4. \A d \in Calls : ask[d].verb \in {"set_breakpoint", "remove_breakpoint"} =>
           pc'[d] = pc[d] /\ answer'[d] = answer[d]
    BY <1>5, <2>1, AnswersOne
  <2>5. QED
    BY <1>1, <2>1, <2>2, <2>3, <2>4 DEF Quietly
<1>6. QED
  BY <1>3, <1>4, <1>5

\* How the engine thread moves, and what it leaves alone.
LEMMA EngineForms ==
    ASSUME Typed, Inv, EngineSide
    PROVE  /\ UNCHANGED <<plan, ask, work, table, leftover, slot>>
           /\ thread = "exited" => thread' = "exited"
           /\ \A c \in Calls :
                 \/ pc'[c] = pc[c] /\ answer'[c] = answer[c]
                 \/ /\ pc[c] = "await" /\ pc'[c] = "answered"
                    /\ answer'[c].is = "closed" => thread' = "exited"
           /\ Quietly \/ \E c \in Calls : SetsOne(c) \/ RemovesOne(c)
<1>1. UNCHANGED <<plan, ask, slot>>
  <2>1. Shape
    BY DEF Inv
  <2>2. QED
    BY <2>1, EngineKeeps
<1>2. UNCHANGED <<work, table, leftover>>
  BY DEF EngineSide, ThreadReady, ThreadFails, ThreadStops, ThreadPanics, EngineWaits, GoReplies,
         KernelReplies, WaitReplies, Dispatch, DispatchWaiting, backendRest, calls
<1>3. CASE ThreadReady \/ ThreadFails \/ ThreadStops
  <2>1. /\ thread \in {"starting", "serving"} /\ UNCHANGED <<pc, answer>>
        /\ UNCHANGED engine \/ \E r \in Replies : detach(r)
    BY <1>3 DEF ThreadReady, ThreadFails, ThreadStops, calls
  <2>2. DOMAIN pool' \subseteq DOMAIN pool /\ (Live' => Live /\ pool' = pool)
    <3>1. CASE UNCHANGED engine
      BY <3>1 DEF engine, Live
    <3>2. CASE \E r \in Replies : detach(r)
      BY <3>2, MethodForms
    <3>3. QED
      BY <2>1, <3>1, <3>2
  <2>3. QED
    BY <1>1, <1>2, <2>1, <2>2 DEF Quietly
<1>4. CASE ThreadPanics
  <2>1. /\ thread = "serving" /\ thread' = "exited" /\ UNCHANGED <<target, pool>>
        /\ pc' = [c \in Calls |-> IF pc[c] = "await" THEN "answered" ELSE pc[c]]
        /\ answer' = [c \in Calls |-> IF pc[c] = "await" THEN Closed ELSE answer[c]]
    BY <1>4 DEF ThreadPanics, still
  <2>2. Quietly
    BY <2>1 DEF Quietly, Live, Dying
  <2>3. QED
    BY <1>1, <1>2, <2>1, <2>2
<1>5. CASE EngineWaits
  <2>1. thread = "serving" /\ UNCHANGED <<thread, pc, answer, pool>>
    BY <1>5 DEF EngineWaits, go_polls, wait_times_out, wait_skips, Skipped, still, channel, calls
  <2>2. Live' => Live
    <3>1. CASE go_polls \/ wait_times_out
      BY <3>1 DEF go_polls, wait_times_out, still, Live
    <3>2. CASE wait_skips
      BY <3>2 DEF wait_skips, Inv, WaitInv, Live
    <3>3. QED
      BY <1>5, <3>1, <3>2 DEF EngineWaits
  <2>3. QED
    BY <1>1, <1>2, <2>1, <2>2 DEF Quietly
<1>6. CASE GoReplies \/ KernelReplies
  <2>1. PICK r \in Replies : /\ waited(r) \/ go_expires(r) \/ kernel_waited(r)
                             /\ WaitReplies(r)
    BY <1>6 DEF GoReplies, KernelReplies
  <2>2. /\ thread = "serving" /\ thread' = "serving" /\ Answered(serving, r)
    BY <2>1 DEF WaitReplies
  <2>3. r.is # "closed"
    BY <2>1 DEF waited, go_expires, kernel_waited, StopOutcome, Failed, Reply
  <2>4. /\ serving \in Calls /\ pc[serving] \in {"await", "gone"}
        /\ \/ wait = "kernel" /\ plan[serving].kind = "attach_kernel"
           \/ wait # "kernel" /\ plan[serving].kind = "cont" /\ Live
    <3>1. wait # "idle"
      BY <2>1 DEF waited, go_expires, kernel_waited
    <3>2. QED
      BY <3>1 DEF Inv, WaitInv, Live
  <2>5. DOMAIN pool' \subseteq DOMAIN pool
    BY <2>1 DEF waited, go_expires, kernel_waited, still, Happens
  <2>6. Live' /\ SomeSettled => Live /\ pool' = pool
    <3>1. CASE wait # "kernel"
      <4>1. Live' => pool' = pool
        BY <2>1, <3>1 DEF waited, go_expires, kernel_waited, still, Happens, Live
      <4>2. QED
        BY <2>4, <3>1, <4>1
    <3>2. CASE wait = "kernel"
      <4>1. ask[serving].verb # "set_breakpoint"
        BY <2>4, <3>2 DEF Inv, AskInv
      <4>2. plan[serving].kind \in Connecting /\ Begun(serving) /\ pc[serving] # "done"
        BY <2>4, <3>2 DEF Begun, Connecting
      <4>3. QED
        BY <2>4, <4>1, <4>2, Unsettled
    <3>3. QED
      BY <3>1, <3>2
  <2>7. ask[serving].verb \notin {"set_breakpoint", "remove_breakpoint"}
    BY <2>4 DEF Inv, AskInv
  <2>8. Quietly
    BY <2>2, <2>4, <2>5, <2>6, <2>7, AnswersOne DEF Quietly
  <2>9. QED
    BY <1>1, <1>2, <2>2, <2>3, <2>4, <2>8, AnswersOne
<1>7. CASE \E c \in Calls : Dispatch(c)
  <2> PICK c \in Calls : Dispatch(c)
    BY <1>7
  <2>1. thread = "serving"
    BY DispatchForms
  <2>2. PICK r \in Replies : r.is # "closed" /\ Answered(c, r)
    BY DispatchForms
  <2>3. Quietly \/ SetsOne(c) \/ RemovesOne(c)
    BY DispatchForms
  <2>4. QED
    BY <1>1, <1>2, <2>1, <2>2, <2>3, AnswersOne
<1>8. CASE \E c \in Calls : DispatchWaiting(c)
  <2> PICK c \in Calls : DispatchWaiting(c)
    BY <1>8
  <2>1. thread = "serving" /\ UNCHANGED <<thread, pc, answer>>
    BY DEF DispatchWaiting, Serves
  <2>2. UNCHANGED pool
    BY DEF DispatchWaiting, go, break_in, attach_kernel, still
  <2>3. Live' /\ SomeSettled => Live
    <3>1. CASE go \/ break_in
      BY <3>1 DEF go, break_in, still, Live
    <3>2. CASE attach_kernel
      BY <3>2 DEF attach_kernel, Live
    <3>3. QED
      BY <3>1, <3>2 DEF DispatchWaiting
  <2>4. QED
    BY <1>1, <1>2, <2>1, <2>2, <2>3 DEF Quietly
<1>9. QED
  BY <1>3, <1>4, <1>5, <1>6, <1>7, <1>8 DEF EngineSide

-----------------------------------------------------------------------------
(* The calls, as the table sees them *)

\* A call does something that is not about breakpoints, or is dropped.
Aside(c) ==
    /\ UNCHANGED <<table, leftover>>
    /\ ~ Setter(c) /\ ~ Setter(c)' /\ ~ Launcher(c)'
    /\ Launcher(c) => ~ slot'
    /\ pc'[c] # "answered"
    /\ pc'[c] = "gone" => plan[c].kind # "set" /\ (plan[c].kind \in Connecting => ~ slot')
    /\ ask[c].verb = "set_breakpoint" => ask'[c] = ask[c]

\* A launch begins: its flush list is made.
Launches(c) ==
    /\ UNCHANGED <<table, leftover, slot>>
    /\ plan[c].kind = "launch" /\ pc[c] = "start" /\ pc'[c] = "send"
    /\ phase = "idle"
    /\ ask'[c].verb = "launch"
    /\ work'[c].todo = PlacesOf(plan[c].group, Settable(plan[c].keys, {}))

\* A call sends its command, or finds the thread dead.
Submits(c) ==
    /\ UNCHANGED <<table, leftover, slot, ask, work>>
    /\ pc[c] = "send"
    /\ \/ pc'[c] = "await" /\ answer'[c] = answer[c]
       \/ pc'[c] = "answered" /\ answer'[c] = Closed /\ thread = "exited"

\* How a call's step is about breakpoints.
LEMMA CallForms ==
    ASSUME Typed, Inv, NEW c \in Calls, CallSide(c)
    PROVE  /\ UNCHANGED <<plan, target, pool, thread>> /\ (slot' => slot)
           /\ \A d \in Calls \ {c} : /\ pc'[d] = pc[d] /\ ask'[d] = ask[d]
                                     /\ answer'[d] = answer[d] /\ work'[d] = work[d]
           /\ pc[c] \in {"start"} \cup InFlight /\ pc'[c] # "start"
           /\ \/ Aside(c) \/ Launches(c) \/ Submits(c)
              \/ Flush(c) \/ BeginSet(c) \/ SetAnswered(c)
<1>0. CallsTyped /\ TableTyped /\ SessionTyped /\ Shape /\ AskInv
  BY TypedParts DEF Inv
<1>1. /\ UNCHANGED <<plan, target, pool, thread>>
      /\ \A d \in Calls \ {c} : /\ pc'[d] = pc[d] /\ ask'[d] = ask[d]
                                /\ answer'[d] = answer[d]
      /\ pc[c] \in {"start"} \cup InFlight /\ pc'[c] # "start"
  BY <1>0, CallKeeps DEF core
<1>2. \A d \in Calls \ {c} : work'[d] = work[d]
  BY <1>0 DEF CallSide, CallStep, Starts, Enqueue, SendFails, Ends, Flush, SetAnswered,
     BeginConnecting, BeginResume, BeginInspect, Pause, BeginDisconnect, BeginSet, Resolved,
     LookupFails, Abandon, Proceed, quiet, TableTyped
<1>3. slot' => slot
  BY <1>0 DEF CallSide, CallStep, Starts, Enqueue, SendFails, Ends, Flush, SetAnswered,
     BeginConnecting, BeginResume, BeginInspect, Pause, BeginDisconnect, BeginSet, Resolved,
     LookupFails, Abandon, Reports, session, SessionTyped
<1>4. \/ Aside(c) \/ Launches(c) \/ Submits(c)
      \/ Flush(c) \/ BeginSet(c) \/ SetAnswered(c)
  <2> USE DEF Setter, Launcher, Sends, InFlight, Connecting
  <2>1. CASE Enqueue(c) \/ SendFails(c)
    BY <1>0, <2>1 DEF Enqueue, SendFails, Submits, session, CallsTyped
  <2>2. CASE Ends(c)
    <3>1. UNCHANGED <<table, leftover>> /\ plan[c].kind \notin {"launch", "set"}
      BY <2>2 DEF Ends, quiet
    <3>2. /\ pc' = [pc EXCEPT ![c] = "done"] \/ pc' = [pc EXCEPT ![c] = "send"]
          /\ ask[c].verb # "set_breakpoint"
      BY <1>0, <2>2, <3>1 DEF Ends, Asks, Reports, AskInv
    <3>3. QED
      BY <1>0, <1>1, <3>1, <3>2 DEF Aside, CallsTyped
  <2>3. CASE BeginConnecting(c)
    <3>1. CASE plan[c].kind = "launch"
      <4>1. /\ Begins(c, {"launch"}) /\ Asks(c, Command("launch")) /\ phase = "idle"
            /\ work' = [work EXCEPT ![c].todo =
                           PlacesOf(plan[c].group, Settable(plan[c].keys, {}))]
        BY <2>3, <3>1 DEF BeginConnecting, Begins
      <4>2. UNCHANGED <<table, leftover, slot>>
        BY <2>3 DEF BeginConnecting, quiet
      <4>3. ask'[c].verb = "launch" /\ pc'[c] = "send" /\ pc[c] = "start"
        BY <1>0, <4>1 DEF Asks, Command, CallsTyped, Begins
      <4>4. work'[c].todo = PlacesOf(plan[c].group, Settable(plan[c].keys, {}))
        <5>1. work[c] = [todo |-> work[c].todo, new |-> work[c].new, drop |-> work[c].drop]
          BY <1>0 DEF TableTyped, Local
        <5> DEFINE todo == PlacesOf(plan[c].group, Settable(plan[c].keys, {}))
        <5> HIDE DEF todo
        <5>2. work' = [work EXCEPT ![c].todo = todo]
          BY <4>1 DEF todo
        <5>3. [work[c] EXCEPT !.todo = todo].todo = todo
          BY <5>1
        <5>4. QED
          BY <1>0, <5>2, <5>3 DEF TableTyped, todo
      <4>5. QED
        BY <3>1, <4>1, <4>2, <4>3, <4>4 DEF Launches
    <3>2. CASE plan[c].kind # "launch"
      <4>1. /\ UNCHANGED <<table, leftover>>
            /\ plan[c].kind \in {"open_dump", "attach_kernel", "attach"}
            /\ pc' = [pc EXCEPT ![c] = "send"] \/ pc' = [pc EXCEPT ![c] = "lookup"]
        BY <2>3, <3>2 DEF BeginConnecting, Begins, Asks, quiet
      <4>2. ask[c].verb # "set_breakpoint"
        BY <1>0, <4>1 DEF AskInv
      <4>3. QED
        BY <1>0, <1>1, <4>1, <4>2 DEF Aside, CallsTyped
    <3>3. QED
      BY <3>1, <3>2
  <2>4. CASE BeginResume(c) \/ BeginInspect(c) \/ Pause(c) \/ BeginDisconnect(c)
    <3>1. /\ UNCHANGED <<table, leftover>>
          /\ plan[c].kind \in {"cont", "step", "inspect", "pause", "disconnect"}
          /\ pc' = [pc EXCEPT ![c] = "send"] \/ pc' = [pc EXCEPT ![c] = "done"]
      BY <2>4 DEF BeginResume, BeginInspect, Pause, BeginDisconnect, Begins, Asks, quiet
    <3>2. ask[c].verb # "set_breakpoint"
      BY <1>0, <3>1 DEF AskInv
    <3>3. QED
      BY <1>0, <1>1, <3>1, <3>2 DEF Aside, CallsTyped
  <2>5. CASE Resolved(c) \/ LookupFails(c)
    <3>1. /\ UNCHANGED <<table, leftover>> /\ plan[c].kind = "attach"
          /\ pc' = [pc EXCEPT ![c] = "send"] \/ pc' = [pc EXCEPT ![c] = "done"]
      BY <1>0, <2>5 DEF Resolved, LookupFails, Reports, Asks, AskInv, quiet
    <3>2. ask[c].verb # "set_breakpoint"
      BY <1>0, <3>1 DEF AskInv
    <3>3. QED
      BY <1>0, <1>1, <3>1, <3>2 DEF Aside, CallsTyped
  <2>6. CASE Abandon(c)
    <3>1. /\ UNCHANGED <<table, leftover, ask>> /\ pc' = [pc EXCEPT ![c] = "gone"]
          /\ plan[c].kind \in Connecting \cup {"cont", "step", "disconnect"}
          /\ plan[c].kind \in Connecting => ~ slot'
      BY <2>6 DEF Abandon, quiet
    <3>2. QED
      BY <1>0, <1>1, <3>1 DEF Aside, CallsTyped
  <2>7. QED
    BY <2>1, <2>2, <2>3, <2>4, <2>5, <2>6 DEF CallSide, CallStep, Starts
<1>5. QED
  BY <1>1, <1>2, <1>3, <1>4

\* What it has left to set.
FlushLeft(c) == IF ask[c].verb = "set_breakpoint" THEN Tail(work[c].todo) ELSE work[c].todo

\* What a launch does with an answer.
LEMMA FlushForms ==
    ASSUME Typed, NEW c \in Calls, Flush(c)
    PROVE  /\ plan[c].kind = "launch" /\ pc[c] = "answered"
           /\ UNCHANGED <<answer, leftover>>
           /\ work'[c].todo = FlushLeft(c)
           /\ \/ FlushLeft(c) # <<>> /\ pc'[c] = "send" /\ ask'[c] = SetAt(Head(FlushLeft(c)))
              \/ pc'[c] = "done" /\ ask'[c] = ask[c]
           /\ table' = IF Given(c)
                     THEN [table EXCEPT ![ask[c].place.group] =
                              Recorded(@, ask[c].place.key, answer[c].hit)]
                     ELSE table
<1> DEFINE left == FlushLeft(c)
<1>0. CallsTyped /\ TableTyped
  BY TypedParts
<1>1. /\ plan[c].kind = "launch" /\ pc[c] = "answered"
      /\ UNCHANGED <<answer, leftover>>
      /\ work' = [work EXCEPT ![c].todo = left]
      /\ \/ left # <<>> /\ Asks(c, SetAt(Head(left)))
         \/ pc' = [pc EXCEPT ![c] = "done"] /\ UNCHANGED ask
      /\ table' = IF Given(c)
                  THEN [table EXCEPT ![ask[c].place.group] =
                           Recorded(@, ask[c].place.key, answer[c].hit)]
                  ELSE table
  BY DEF Flush, FlushLeft, quiet, Reports, Given
<1> HIDE DEF left
<1>2. work'[c].todo = left
  <2>1. work[c] = [todo |-> work[c].todo, new |-> work[c].new, drop |-> work[c].drop]
    BY <1>0 DEF TableTyped, Local
  <2>2. [work[c] EXCEPT !.todo = left].todo = left
    BY <2>1
  <2>3. QED
    BY <1>0, <1>1, <2>2 DEF TableTyped
<1>3. \/ left # <<>> /\ pc'[c] = "send" /\ ask'[c] = SetAt(Head(left))
      \/ pc'[c] = "done" /\ ask'[c] = ask[c]
  BY <1>0, <1>1 DEF CallsTyped, Asks
<1>4. QED
  BY <1>1, <1>2, <1>3 DEF left

\* What a setter does next, with locals w.
GoesOn(c, w) ==
    /\ Local(w) /\ work'[c] = w
    /\ \/ /\ w.todo # <<>> /\ pc'[c] = "send" /\ ask'[c] = SetAt(Head(w.todo))
          /\ UNCHANGED table
       \/ /\ w.todo = <<>> /\ pc'[c] = "send"
          /\ \E i \in w.drop : ask'[c] = RemoveId(i)
          /\ UNCHANGED table
       \/ /\ w.todo = <<>> /\ w.drop = {} /\ pc'[c] = "done" /\ ask'[c] = ask[c]
          /\ table' = [table EXCEPT ![Group(c)] = w.new]

\* The thread died while it was setting: nothing is committed.
GivesUp(c) ==
    /\ pc[c] = "answered" /\ answer[c] = Closed /\ ask[c].verb = "set_breakpoint"
    /\ pc'[c] = "done" /\ UNCHANGED <<ask, work, table, leftover>>

\* A setter starts, goes on, or gives up.
LEMMA SetterForms ==
    ASSUME Typed, NEW c \in Calls, BeginSet(c) \/ SetAnswered(c)
    PROVE  /\ plan[c].kind = "set" /\ UNCHANGED <<answer, slot>>
           /\ \/ /\ pc[c] = "start" /\ phase = "stopped" /\ BeginSet(c)
                 /\ GoesOn(c, FirstWork(c)) /\ UNCHANGED leftover
              \/ GivesUp(c)
              \/ /\ pc[c] = "answered"
                 /\ answer[c] = Closed => ask[c].verb # "set_breakpoint"
                 /\ GoesOn(c, NextWork(c))
                 /\ leftover' = IF answer[c] = Failed /\ ask[c].verb # "set_breakpoint"
                                THEN leftover \cup {ask[c].id} ELSE leftover
<1>0. CallsTyped /\ TableTyped /\ SettingInv
  BY TypedParts
<1>1. ASSUME NEW w, Local(w), Proceed(c, w) PROVE GoesOn(c, w)
  <2>1. work' = [work EXCEPT ![c] = w]
    BY <1>0, <1>1, ProceedForms
  <2>2. work'[c] = w
    BY <1>0, <2>1 DEF TableTyped
  <2>3. QED
    BY <1>0, <1>1, <2>2, ProceedForms DEF CallsTyped, GoesOn, Group
<1>2. plan[c].kind = "set" /\ UNCHANGED <<answer, slot>>
  BY SetForms DEF session
<1>3. CASE pc[c] = "start" /\ phase = "stopped" /\ Proceed(c, FirstWork(c)) /\ UNCHANGED leftover
  <2>1. BeginSet(c)
    BY <1>3 DEF SetAnswered
  <2>2. QED
    BY <1>0, <1>1, <1>2, <1>3, <2>1, FirstTyped
<1>4. CASE /\ pc[c] = "answered" /\ answer[c] = Closed /\ ask[c].verb = "set_breakpoint"
           /\ pc' = [pc EXCEPT ![c] = "done"] /\ UNCHANGED <<ask, work, table, leftover>>
  BY <1>0, <1>2, <1>4 DEF CallsTyped, GivesUp
<1>5. CASE /\ pc[c] = "answered"
           /\ answer[c] = Closed => ask[c].verb # "set_breakpoint"
           /\ Proceed(c, NextWork(c))
           /\ leftover' = IF answer[c] = Failed /\ ask[c].verb # "set_breakpoint"
                          THEN leftover \cup {ask[c].id} ELSE leftover
  BY <1>0, <1>1, <1>2, <1>5, NextTyped
<1>6. QED
  BY <1>3, <1>4, <1>5, SetForms

\* A setter that steps goes on or is done.
LEMMA SetterMoves ==
    ASSUME Typed, NEW c \in Calls, Flush(c) \/ BeginSet(c) \/ SetAnswered(c)
    PROVE  pc'[c] \in {"send", "done"}
<1>1. CASE Flush(c)
  BY <1>1, FlushForms
<1>2. CASE BeginSet(c) \/ SetAnswered(c)
  BY <1>2, SetterForms DEF GoesOn, GivesUp
<1>3. QED
  BY <1>1, <1>2

\* The connecting task and the stream leave calls, table and engine alone.
LEMMA OtherForms ==
    ASSUME UNCHANGED vars \/ Connected \/ ConnectFails \/ EngineOutput \/ StreamPoll
    PROVE  /\ UNCHANGED <<plan, pc, ask, answer, work, leftover, table, target, pool, thread>>
           /\ slot' => slot
BY DEF vars, Connected, ConnectFails, EngineOutput, StreamPoll, engine, channel, calls, session

\* A connecting call that has come to its flush, or is done, stays so.
LEMMA SettledStays ==
    ASSUME Typed, Inv, [Next]_vars, SomeSettled
    PROVE  SomeSettled'
<1> PICK e \in Calls : Settled(e)
  BY DEF SomeSettled
<1>1. CASE UNCHANGED vars \/ Connected \/ ConnectFails \/ EngineOutput \/ StreamPoll
  <2>1. UNCHANGED <<plan, pc, ask>>
    BY <1>1, OtherForms
  <2>2. QED
    BY <2>1 DEF SomeSettled, Settled, Begun
<1>2. CASE EngineSide
  BY <1>2, EngineForms DEF SomeSettled, Settled, Begun
<1>3. ASSUME NEW c \in Calls, CallSide(c)
      PROVE  SomeSettled'
  <2>1. plan' = plan
    BY <1>3, CallForms
  <2>2. CASE c # e
    BY <1>3, <2>1, <2>2, CallForms DEF SomeSettled, Settled, Begun
  <2>3. CASE c = e
    <3>1. /\ plan[e].kind \in Connecting /\ pc[e] # "start" /\ ask[e].verb = "set_breakpoint"
          /\ pc'[e] # "start"
      BY <1>3, <2>3, CallForms DEF Settled, Begun, InFlight
    <3>2. pc'[e] = "done" \/ ask'[e].verb = "set_breakpoint"
      <4>1. CASE Aside(e)
        BY <3>1, <4>1 DEF Aside
      <4>2. CASE Launches(e) \/ Submits(e)
        BY <3>1, <4>2 DEF Launches, Submits
      <4>3. CASE Flush(e)
        <5>1. pc'[e] = "done" \/ ask'[e] = SetAt(Head(FlushLeft(e)))
          BY <4>3, FlushForms
        <5>2. QED
          BY <5>1 DEF SetAt
      <4>4. CASE BeginSet(e) \/ SetAnswered(e)
        BY <3>1, <4>4, SetterForms DEF Connecting
      <4>5. QED
        BY <1>3, <2>3, <4>1, <4>2, <4>3, <4>4, CallForms
    <3>3. QED
      BY <2>1, <3>1, <3>2 DEF SomeSettled, Settled, Begun
  <2>4. QED
    BY <2>2, <2>3
<1>4. QED
  BY <1>1, <1>2, <1>3, Sides

\* The plan stays; only a dead thread answers "closed"; who is dropped drops the backend.
LEMMA PlanStep ==
    ASSUME Typed, Inv, PlanInv, [Next]_vars
    PROVE  PlanInv'
<1>1. CASE UNCHANGED vars \/ Connected \/ ConnectFails \/ EngineOutput \/ StreamPoll
  <2>1. UNCHANGED <<plan, pc, answer, thread>> /\ (slot' => slot)
    BY <1>1, OtherForms
  <2>2. QED
    BY <2>1 DEF PlanInv
<1>2. CASE EngineSide
  BY <1>2, EngineForms DEF PlanInv
<1>3. ASSUME NEW c \in Calls, CallSide(c)
      PROVE  PlanInv'
  <2>1. /\ UNCHANGED <<plan, thread>> /\ (slot' => slot)
        /\ \A d \in Calls \ {c} : pc'[d] = pc[d] /\ answer'[d] = answer[d]
    BY <1>3, CallForms
  <2>2. /\ pc'[c] = "answered" /\ answer'[c].is = "closed" => thread = "exited"
        /\ pc'[c] = "gone" => plan[c].kind # "set"
                                /\ (plan[c].kind \in Connecting => ~ slot')
    <3>1. CASE Aside(c)
      BY <3>1 DEF Aside
    <3>2. CASE Launches(c) \/ Submits(c)
      BY <3>2 DEF Launches, Submits
    <3>3. CASE Flush(c) \/ BeginSet(c) \/ SetAnswered(c)
      BY <3>3, SetterMoves
    <3>4. QED
      BY <1>3, <3>1, <3>2, <3>3, CallForms
  <2>3. QED
    BY <2>1, <2>2 DEF PlanInv
<1>4. QED
  BY <1>1, <1>2, <1>3, Sides

\* Nothing is set, in the table or the engine, before the flush.
LEMMA OriginStep ==
    ASSUME Typed, Inv, OriginInv, [Next]_vars
    PROVE  OriginInv'
<1> SUFFICES ASSUME ~ SomeSettled'
             PROVE  (\A g \in Groups : DOMAIN table'[g] = {}) /\ DOMAIN pool' = {}
  BY DEF OriginInv
<1>0. ~ SomeSettled /\ (\A g \in Groups : DOMAIN table[g] = {}) /\ DOMAIN pool = {}
  BY SettledStays DEF OriginInv
<1>a. ASSUME NEW c \in Calls, Begun(c), ask[c].verb = "set_breakpoint"
      PROVE  FALSE
  <2>1. plan[c].kind \in {"launch", "set"}
    BY <1>a DEF Inv, AskInv
  <2>2. CASE plan[c].kind = "launch"
    BY <1>0, <1>a, <2>2 DEF SomeSettled, Settled, Connecting
  <2>3. CASE plan[c].kind = "set"
    BY <1>0, <1>a, <2>3 DEF Inv, ConnectInv, SomeConnected, SomeSettled, Settled, Begun
  <2>4. QED
    BY <2>1, <2>2, <2>3
<1>1. CASE UNCHANGED vars \/ Connected \/ ConnectFails \/ EngineOutput \/ StreamPoll
  <2>1. UNCHANGED <<table, pool>>
    BY <1>1, OtherForms
  <2>2. QED
    BY <1>0, <2>1
<1>2. CASE EngineSide
  <2>1. UNCHANGED table
    BY <1>2, EngineForms
  <2>2. DOMAIN pool' \subseteq DOMAIN pool
    <3>1. CASE Quietly
      BY <3>1 DEF Quietly
    <3>2. ASSUME NEW c \in Calls, SetsOne(c)
          PROVE  FALSE
      BY <1>a, <3>2 DEF SetsOne, Begun
    <3>3. ASSUME NEW c \in Calls, RemovesOne(c)
          PROVE  DOMAIN pool' \subseteq DOMAIN pool
      BY <3>3 DEF RemovesOne, remove_breakpoint, Restrict
    <3>4. QED
      BY <1>2, <3>1, <3>2, <3>3, EngineForms
  <2>3. QED
    BY <1>0, <2>1, <2>2
<1>3. ASSUME NEW c \in Calls, CallSide(c)
      PROVE  UNCHANGED <<table, pool>>
  <2>1. UNCHANGED pool
    BY <1>3, CallForms
  <2>2. CASE Aside(c) \/ Launches(c) \/ Submits(c)
    BY <2>1, <2>2 DEF Aside, Launches, Submits
  <2>3. CASE Flush(c)
    <3>1. ~ Given(c)
      BY <1>a DEF Given, Begun
    <3>2. QED
      BY <2>1, <2>3, <3>1, FlushForms
  <2>4. CASE BeginSet(c) \/ SetAnswered(c)
    <3>1. plan[c].kind = "set" /\ (phase = "stopped" \/ pc[c] # "start")
      BY <2>4, SetterForms DEF GivesUp
    <3>2. SomeConnected
      BY <3>1 DEF Inv, ConnectInv, Begun
    <3>3. QED
      BY <1>0, <3>2 DEF SomeConnected, SomeSettled, Settled, Begun
  <2>5. QED
    BY <1>3, <2>2, <2>3, <2>4, CallForms
<1>4. QED
  BY <1>0, <1>1, <1>2, <1>3, Sides

\* One request of a group at a time, if the client is careful.
LEMMA MutexStep ==
    ASSUME Typed, Inv, MutexInv, Careful, [Next]_vars
    PROVE  MutexInv'
<1>1. CASE UNCHANGED vars \/ Connected \/ ConnectFails \/ EngineOutput \/ StreamPoll
  <2>1. UNCHANGED <<plan, pc>>
    BY <1>1, OtherForms
  <2>2. QED
    BY <2>1 DEF MutexInv, Setter, Sends, Group
<1>2. CASE EngineSide
  <2>1. UNCHANGED plan /\ \A c \in Calls : Setter(c)' => Setter(c)
    BY <1>2, EngineForms DEF Setter, Sends
  <2>2. QED
    BY <2>1 DEF MutexInv, Group
<1>3. ASSUME NEW c \in Calls, CallSide(c)
      PROVE  MutexInv'
  <2>1. /\ UNCHANGED plan
        /\ \A d \in Calls \ {c} : pc'[d] = pc[d]
    BY <1>3, CallForms
  <2>2. \A d \in Calls \ {c} : Setter(d)' => Setter(d)
    BY <2>1 DEF Setter, Sends
  <2>3. CASE Setter(c)' => Setter(c)
    BY <2>1, <2>2, <2>3 DEF MutexInv, Group
  <2>4. CASE Setter(c)' /\ ~ Setter(c)
    <3>1. BeginSet(c)
      BY <1>3, <2>1, <2>4, CallForms, FlushForms
      DEF Aside, Launches, Submits, Setter, Sends, SetAnswered
    <3>2. \A d \in Calls : Setter(d) => Group(d) # Group(c)
      BY <3>1 DEF BeginSet, Setter, Sends, InFlight, Group
    <3>3. QED
      BY <2>1, <2>2, <3>2 DEF MutexInv, Group
  <2>5. QED
    BY <2>3, <2>4
<1>4. QED
  BY <1>1, <1>2, <1>3, Sides

\* What is left to keep in each step.
Rest == TodoInv /\ NewInv /\ GivenInv /\ TableInv /\ EngineInv /\ PoolInv

\* Before the flush nobody has anything to do with breakpoints.
LEMMA Nothing ==
    ASSUME Inv, ~ SomeSettled, NEW c \in Calls
    PROVE  ~ Setter(c) /\ ~ (Launcher(c) /\ ask[c].verb = "set_breakpoint")
BY SetterAlone DEF SomeSettled, Settled, Launcher, Sends, Begun, Connecting

\* A step that neither sets nor removes, nor is a call's.
LEMMA QuietStep ==
    ASSUME Typed, Inv, TableHolds, OriginInv', Quietly,
           UNCHANGED <<plan, ask, work, table, leftover>>, slot' => slot,
           thread = "exited" => thread' = "exited",
           \A c \in Calls : \/ pc'[c] = pc[c] /\ answer'[c] = answer[c]
                            \/ pc[c] = "await" /\ pc'[c] = "answered"
    PROVE  Rest'
<1>0. /\ PlanInv /\ OriginInv /\ MutexInv /\ TodoInv /\ NewInv /\ GivenInv /\ TableInv
      /\ EngineInv /\ PoolInv /\ TypeOK
  BY DEF TableHolds, Typed
<1>1. \A c \in Calls : /\ Setter(c)' <=> Setter(c)
                       /\ Launcher(c)' <=> Launcher(c)
                       /\ Removing(c)' <=> Removing(c)
  BY DEF Setter, Launcher, Removing, Sends
<1>2. \A c \in Calls : Given(c)' => Given(c) /\ answer'[c] = answer[c]
  BY DEF Quietly, Given, Dying, Closed, Reply
<1>3. TodoInv' /\ NewInv' /\ GivenInv' /\ TableInv'
  <2>1. TodoInv'
    BY <1>0, <1>1 DEF TodoInv, TodoOk, Prior, Group, Listed
  <2>2. NewInv'
    BY <1>0, <1>1 DEF NewInv, WorkOk, NewOk, Stale, Prior, Group, Listed
  <2>3. GivenInv'
    BY <1>0, <1>1, <1>2 DEF GivenInv, Prior, Group
  <2>4. TableInv'
    BY <1>0 DEF TableInv
  <2>5. QED
    BY <2>1, <2>2, <2>3, <2>4
<1>4. CASE ~ SomeSettled
  <2>1. /\ \A g \in Groups : DOMAIN table'[g] = {}
        /\ DOMAIN pool' = {}
    BY <1>0, <1>4 DEF OriginInv, Quietly
  <2>2. \A c \in Calls : ~ Setter(c)' /\ (~ Given(c)' \/ ~ Launcher(c)')
    BY <1>1, <1>2, <1>4, Nothing DEF Given
  <2>3. EngineInv'
    BY <2>1, <2>2 DEF EngineInv
  <2>4. PoolInv'
    BY <2>1, <2>2 DEF PoolInv, Removing
  <2>5. QED
    BY <1>3, <2>3, <2>4 DEF Rest
<1>5. CASE SomeSettled
  <2>1. Live' => Live /\ pool' = pool
    BY <1>5 DEF Quietly
  <2>2. EngineInv'
    <3> SUFFICES ASSUME Live' PROVE EngineInv'
      BY DEF EngineInv
    <3>1. \A i, g, k : Has(i, g, k)' <=> Has(i, g, k)
      BY <2>1 DEF Has
    <3>2. \A g \in Groups : \A k \in DOMAIN table[g] : Kept(g, k)' => Kept(g, k)
      BY <1>1 DEF Kept, Group
    <3>3. Live
      BY <2>1
    <3>4. \A g \in Groups : \A k \in DOMAIN table'[g] : Kept(g, k)' => Has(table[g][k], g, k)'
      BY <1>0, <3>1, <3>2, <3>3 DEF EngineInv
    <3>5. \A c \in Calls : Setter(c)' =>
             \A k \in DOMAIN work'[c].new : Has(work[c].new[k], Group(c), k)'
      BY <1>0, <1>1, <3>1, <3>3 DEF EngineInv, Group
    <3>6. \A c \in Calls : (Setter(c)' \/ Launcher(c)') /\ Given(c)' =>
             Has(answer[c].hit, Group(c), ask[c].place.key)'
      BY <1>0, <1>1, <1>2, <3>1, <3>3 DEF EngineInv, Group
    <3>7. QED
      BY <3>4, <3>5, <3>6 DEF EngineInv, Group
  <2>3. PoolInv'
    <3> SUFFICES ASSUME Live', slot', thread' = "serving" PROVE PoolInv'
      BY DEF PoolInv
    <3>1. Live /\ pool' = pool /\ slot /\ thread = "serving"
      <4>1. PICK e \in Calls : Begun(e)
        BY <1>5 DEF SomeSettled, Settled
      <4>2. thread # "starting"
        BY <4>1 DEF Inv, StartInv
      <4>3. QED
        BY <1>0, <2>1, <4>2 DEF TypeOK
    <3>2. \A c \in Calls : ask[c].verb \in {"set_breakpoint", "remove_breakpoint"} =>
             pc'[c] = pc[c] /\ answer'[c] = answer[c]
      BY DEF Quietly, Dying
    <3>3. \A i, g, k : Has(i, g, k)' <=> Has(i, g, k)
      BY <3>1 DEF Has
    <3>4. \A c \in Calls : Given(c) => Given(c)' /\ answer'[c] = answer[c]
      BY <3>2 DEF Given
    <3>5. \A c \in Calls, i \in DOMAIN pool : InWork(c, i) => InWork(c, i)'
      BY <1>1, <3>3, <3>4 DEF InWork, Group
    <3>6. \A i \in DOMAIN pool : InTable(i) => InTable(i)'
      BY <3>3 DEF InTable
    <3>7. \A i \in DOMAIN pool : Tracked(i) => Tracked(i)'
      BY <3>1, <3>5, <3>6 DEF Tracked, Spare
    <3>8. \A i \in DOMAIN pool' : Tracked(i)'
      BY <1>0, <3>1, <3>7 DEF PoolInv
    <3>9. ASSUME NEW c \in Calls, Removing(c)', NEW k \in Stale(c, work[c].new),
                 Finished(c, Prior(c)[k])'
          PROVE  Spare(Prior(c)[k]) \/ ~ Has(Prior(c)[k], Group(c), k)
      BY <1>0, <1>1, <3>1, <3>2, <3>9 DEF PoolInv, Finished, Removing, Prior, Group
    <3>10. QED
      BY <3>3, <3>8, <3>9 DEF PoolInv, Stale, Prior, Group, Spare
  <2>4. QED
    BY <1>3, <2>2, <2>3 DEF Rest
<1>6. QED
  BY <1>4, <1>5

\* What a setter or a launch is asking the engine to set.
LEMMA AskedPlace ==
    ASSUME Typed, TodoInv, NEW c \in Calls, Setter(c) \/ Launcher(c),
           ask[c].verb = "set_breakpoint"
    PROVE  /\ work[c].todo # <<>> /\ work[c].todo \in Seq(Places)
           /\ ask[c].place = work[c].todo[1]
           /\ ask[c].place = Place(Group(c), ask[c].place.key)
           /\ ask[c].place.key \in Keys \ (Rejected \cup DOMAIN Prior(c))
           /\ ask[c].place.key \in Listed(c)
           /\ Group(c) \in Groups /\ ask[c].place.group = Group(c)
<1>1. CallsTyped /\ TableTyped /\ SettingInv
  BY TypedParts
<1>2. work[c].todo # <<>> /\ work[c].todo \in Seq(Places)
  BY <1>1 DEF SettingInv, Setter, Launcher, Sends, TableTyped, Local
<1>3. /\ Head(work[c].todo) = work[c].todo[1] /\ 1 \in 1 .. Len(work[c].todo)
  BY <1>2, HeadTail
<1>4. ask[c].place = work[c].todo[1] /\ TodoOk(c, work[c].todo)
  BY <1>3 DEF TodoInv
<1>5. /\ ask[c].place.group = Group(c)
      /\ ask[c].place.key \in Listed(c) \ (Rejected \cup DOMAIN Prior(c))
  BY <1>3, <1>4 DEF TodoOk
<1>6. ask[c].place \in Places
  BY <1>1 DEF CallsTyped, Commands
<1>7. Group(c) \in Groups
  BY <1>1 DEF CallsTyped, Ops, Group
<1>8. QED
  BY <1>2, <1>4, <1>5, <1>6, <1>7 DEF Place, Places

\* A setter that is not removing, or a launch, has the engine keep its group's breakpoints.
LEMMA KeptWhole ==
    ASSUME Inv, MutexInv, NEW c \in Calls, Setter(c) \/ Launcher(c), ~ Removing(c), NEW k
    PROVE  Kept(Group(c), k)
BY SetterAlone DEF Kept, MutexInv, Removing

\* The thread sets one breakpoint, or fails to.
LEMMA SetsStep ==
    ASSUME Typed, Inv, TableHolds, NEW c \in Calls, SetsOne(c),
           UNCHANGED <<plan, ask, work, table, leftover, slot>>
    PROVE  Rest'
<1>0. /\ PlanInv /\ OriginInv /\ MutexInv /\ TodoInv /\ NewInv /\ GivenInv /\ TableInv
      /\ EngineInv /\ PoolInv /\ CallsTyped /\ EngineTypeOK
  BY TypedParts DEF TableHolds
<1>1. PICK r \in Replies : /\ set_breakpoint(ask[c].place, ask[c].place.key \in Conditional, r)
                           /\ Answered(c, r)
  BY DEF SetsOne
<1>2. /\ pc[c] \in {"await", "gone"} /\ ask[c].verb = "set_breakpoint" /\ target' = target
      /\ thread = "serving" /\ thread' = "serving"
  BY <1>1 DEF SetsOne, set_breakpoint
<1>3. \/ r = Failed /\ pool' = pool
      \/ \E i \in Ids \ DOMAIN pool :
            /\ Live /\ DOMAIN pool' = DOMAIN pool \cup {i}
            /\ \A j \in DOMAIN pool : pool'[j] = pool[j]
            /\ \/ r = Reply("ok", i) /\ pool'[i] = ask[c].place
               \/ r = Failed /\ pool'[i] = Unreported
  BY <1>1 DEF set_breakpoint, Live
<1>4. \A d \in Calls \ {c} : pc'[d] = pc[d] /\ answer'[d] = answer[d]
  BY <1>1, AnswersOne
<1>5. /\ pc[c] = "await" => pc'[c] = "answered" /\ answer'[c] = r
      /\ pc[c] = "gone" => pc'[c] = "gone"
  BY <1>1, AnswersOne
<1>6. \A d \in Calls : /\ Setter(d)' <=> Setter(d)
                       /\ Launcher(d)' <=> Launcher(d)
                       /\ Removing(d)' <=> Removing(d)
  BY <1>2, <1>4, <1>5 DEF Setter, Launcher, Removing, Sends
<1>7. \A d \in Calls \ {c} : Given(d)' <=> Given(d)
  BY <1>4 DEF Given
<1>8. \A i, g, k : Has(i, g, k) => Has(i, g, k)'
  BY <1>3 DEF Has
<1>9. TodoInv' /\ NewInv' /\ TableInv'
  <2>1. TodoInv'
    BY <1>0, <1>6 DEF TodoInv, TodoOk, Prior, Group, Listed
  <2>2. NewInv'
    BY <1>0, <1>6 DEF NewInv, WorkOk, NewOk, Stale, Prior, Group, Listed
  <2>3. TableInv'
    BY <1>0 DEF TableInv
  <2>4. QED
    BY <2>1, <2>2, <2>3
<1>10. ASSUME Given(c)', Setter(c) \/ Launcher(c)
       PROVE  /\ Live /\ answer'[c] = r
              /\ r.hit \notin DOMAIN pool
              /\ pool'[r.hit] = Place(Group(c), ask[c].place.key) /\ r.hit \in DOMAIN pool'
  <2>1. answer'[c] = r /\ r.is = "ok"
    BY <1>2, <1>5, <1>10 DEF Given
  <2>2. r # Failed
    BY <2>1 DEF Failed, Reply
  <2>3. ask[c].place = Place(Group(c), ask[c].place.key)
    BY <1>0, <1>2, <1>10, AskedPlace
  <2>4. QED
    <3>1. PICK i \in Ids \ DOMAIN pool :
             /\ Live /\ DOMAIN pool' = DOMAIN pool \cup {i}
             /\ r = Reply("ok", i) /\ pool'[i] = ask[c].place
      BY <1>3, <2>2
    <3>2. r.hit = i
      BY <3>1 DEF Reply
    <3>3. QED
      BY <2>1, <2>3, <3>1, <3>2
<1>11. GivenInv'
  <2>1. ASSUME NEW d \in Calls, (Setter(d) \/ Launcher(d)), Given(d)'
        PROVE  /\ answer'[d].hit \notin Numbers(Prior(d))
               /\ Setter(d) => answer'[d].hit \notin Numbers(work[d].new)
    <3>1. CASE d # c
      BY <1>0, <1>4, <1>7, <2>1, <3>1 DEF GivenInv
    <3>2. CASE d = c
      <4>1. Live /\ answer'[c].hit \notin DOMAIN pool
        BY <1>10, <2>1, <3>2
      <4>2. ~ Removing(c)
        BY <1>2 DEF Removing
      <4>3. \A k \in DOMAIN Prior(c) : Prior(c)[k] \in DOMAIN pool
        <5>1. Group(c) \in Groups
          BY <1>0 DEF CallsTyped, Ops, Group
        <5>2. QED
          BY <1>0, <2>1, <3>2, <4>1, <4>2, <5>1, KeptWhole DEF EngineInv, Prior, Has
      <4>4. Setter(c) => \A k \in DOMAIN work[c].new : work[c].new[k] \in DOMAIN pool
        BY <1>0, <4>1 DEF EngineInv, Has
      <4>5. QED
        BY <3>2, <4>1, <4>3, <4>4 DEF Numbers
    <3>3. QED
      BY <3>1, <3>2
  <2>2. QED
    BY <1>6, <2>1 DEF GivenInv, Prior, Group
<1>12. EngineInv'
  <2> SUFFICES ASSUME Live' PROVE EngineInv'
    BY DEF EngineInv
  <2>1. Live
    BY <1>2 DEF Live
  <2>2. \A g \in Groups : \A k \in DOMAIN table[g] : Kept(g, k)' => Kept(g, k)
    BY <1>2, <1>4, <1>6 DEF Kept, Group, Removing
  <2>3. \A g \in Groups : \A k \in DOMAIN table'[g] : Kept(g, k)' => Has(table[g][k], g, k)'
    BY <1>0, <1>8, <2>1, <2>2 DEF EngineInv
  <2>4. \A d \in Calls : Setter(d)' =>
           \A k \in DOMAIN work'[d].new : Has(work[d].new[k], Group(d), k)'
    BY <1>0, <1>6, <1>8, <2>1 DEF EngineInv, Group
  <2>5. \A d \in Calls : (Setter(d)' \/ Launcher(d)') /\ Given(d)' =>
           Has(answer[d].hit, Group(d), ask[d].place.key)'
    <3>1. ASSUME NEW d \in Calls \ {c}, Setter(d)' \/ Launcher(d)', Given(d)'
          PROVE  Has(answer[d].hit, Group(d), ask[d].place.key)'
      BY <1>0, <1>4, <1>6, <1>7, <1>8, <2>1, <3>1 DEF EngineInv, Group
    <3>2. ASSUME Setter(c)' \/ Launcher(c)', Given(c)'
          PROVE  Has(answer[c].hit, Group(c), ask[c].place.key)'
      BY <1>6, <1>10, <3>2 DEF Has, Group
    <3>3. QED
      BY <3>1, <3>2
  <2>6. QED
    BY <2>3, <2>4, <2>5 DEF EngineInv, Group
<1>13. PoolInv'
  <2> SUFFICES ASSUME Live', slot' PROVE PoolInv'
    BY DEF PoolInv
  <2>1. Live /\ slot
    BY <1>2 DEF Live
  <2>2. pc[c] = "await" /\ (Setter(c) \/ Launcher(c))
    <3>1. plan[c].kind \in {"launch", "set"}
      BY <1>2 DEF Inv, AskInv
    <3>2. QED
      BY <1>0, <1>2, <2>1, <3>1 DEF PlanInv, Setter, Launcher, Sends, Connecting
  <2>3. \A d \in Calls : \A i : InWork(d, i) => InWork(d, i)'
    <3>1. ~ Given(c)
      BY <2>2 DEF Given
    <3>2. QED
      BY <1>4, <1>6, <1>7, <1>8, <3>1 DEF InWork, Group
  <2>4. \A i : InTable(i) => InTable(i)'
    BY <1>8 DEF InTable
  <2>5. \A i \in DOMAIN pool : Tracked(i)'
    <3>1. \A i \in DOMAIN pool : pool'[i] = pool[i]
      BY <1>3
    <3>2. QED
      BY <1>0, <1>2, <2>1, <2>3, <2>4, <3>1 DEF PoolInv, Tracked, Spare
  <2>6. ASSUME NEW i \in DOMAIN pool', i \notin DOMAIN pool
        PROVE  Tracked(i)'
    <3>1. CASE pool'[i] = Unreported
      BY <3>1 DEF Tracked
    <3>2. CASE r = Reply("ok", i) /\ pool'[i] = ask[c].place
      <4>1. answer'[c].hit = i /\ answer'[c].is = "ok"
        BY <1>5, <2>2, <3>2 DEF Reply
      <4>2. Given(c)'
        BY <1>2, <1>5, <2>2, <4>1 DEF Given
      <4>3. ask[c].place = Place(Group(c), ask[c].place.key)
        BY <1>0, <1>2, <2>2, AskedPlace
      <4>4. Has(i, Group(c), ask[c].place.key)'
        BY <2>6, <3>2, <4>3 DEF Has, Group
      <4>5. InWork(c, i)'
        BY <1>6, <2>2, <4>1, <4>2, <4>4 DEF InWork, Group
      <4>6. QED
        BY <4>5 DEF Tracked
    <3>3. QED
      BY <1>3, <2>6, <3>1, <3>2
  <2>7. ASSUME NEW d \in Calls, Removing(d), NEW k \in Stale(d, work[d].new),
               Finished(d, Prior(d)[k])'
        PROVE  Spare(Prior(d)[k]) \/ ~ Has(Prior(d)[k], Group(d), k)'
    <3>1. d # c
      BY <1>2, <2>7 DEF Removing
    <3>2. Finished(d, Prior(d)[k])
      BY <1>4, <2>7, <3>1 DEF Finished, Prior, Group
    <3>3. Spare(Prior(d)[k]) \/ ~ Has(Prior(d)[k], Group(d), k)
      BY <1>0, <1>2, <2>1, <2>7, <3>2 DEF PoolInv
    <3>4. Group(d) # Group(c)
      BY <1>0, <2>2, <2>7, <3>1, SetterAlone DEF MutexInv, Removing
    <3>5. ask[c].place.group = Group(c)
      BY <1>0, <1>2, <2>2, AskedPlace
    <3>6. \A i \in DOMAIN pool' \ DOMAIN pool : ~ Has(i, Group(d), k)'
      <4>1. ASSUME NEW i \in DOMAIN pool' \ DOMAIN pool, pool'[i] = Place(Group(d), k)
            PROVE  FALSE
        <5>1. pool'[i] \in {ask[c].place, Unreported}
          BY <1>3
        <5>2. Place(Group(d), k).group = Group(d)
          BY DEF Place
        <5>3. CASE pool'[i] = Unreported
          <6>1. Group(d) \in Groups /\ k \in Keys
            <7>1. TableTyped
              BY TypedParts
            <7>2. QED
              BY <1>0, <2>7, <7>1 DEF CallsTyped, Ops, Group, Stale, Prior, TableTyped, Row
          <6>2. Unreported \in Locations
            BY <4>1, <5>3, <6>1, BackendAssumption DEF Place, Places
          <6>3. QED
            BY <6>2, EngineAssumption
        <5>4. QED
          BY <3>4, <3>5, <4>1, <5>1, <5>2, <5>3
      <4>2. QED
        BY <4>1 DEF Has, Group
    <3>7. \A i \in DOMAIN pool : Has(i, Group(d), k)' => Has(i, Group(d), k)
      BY <1>3 DEF Has, Group
    <3>8. QED
      <4>1. Prior(d)' = Prior(d) /\ Group(d)' = Group(d)
        BY DEF Prior, Group
      <4>2. QED
        BY <3>3, <3>6, <3>7, <4>1 DEF Has
  <2>8. \A i \in DOMAIN pool' : Tracked(i)'
    BY <2>5, <2>6
  <2>9. QED
    BY <1>6, <2>7, <2>8 DEF PoolInv, Stale, Prior, Group, Spare
<1>14. QED
  BY <1>9, <1>11, <1>12, <1>13 DEF Rest

\* The thread removes one breakpoint, or fails to.
LEMMA RemovesStep ==
    ASSUME Typed, Inv, TableHolds, NEW c \in Calls, RemovesOne(c),
           UNCHANGED <<plan, ask, work, table, leftover, slot>>
    PROVE  Rest'
<1> DEFINE i == ask[c].id
           new == work[c].new
<1>0. /\ PlanInv /\ OriginInv /\ MutexInv /\ TodoInv /\ NewInv /\ GivenInv /\ TableInv
      /\ EngineInv /\ PoolInv /\ CallsTyped /\ TableTyped
  BY TypedParts DEF TableHolds
<1>1. PICK r \in Replies : remove_breakpoint(i, r) /\ Answered(c, r)
  BY DEF RemovesOne
<1>2. /\ pc[c] \in {"await", "gone"} /\ ask[c].verb = "remove_breakpoint" /\ target' = target
      /\ thread = "serving" /\ thread' = "serving"
  BY <1>1 DEF RemovesOne, remove_breakpoint
<1>3. pc[c] = "await" /\ Setter(c) /\ Removing(c)
  <2>1. plan[c].kind = "set"
    BY <1>2 DEF Inv, AskInv
  <2>2. QED
    BY <1>0, <1>2, <2>1 DEF PlanInv, Setter, Sends, Removing
<1>4. /\ \A d \in Calls \ {c} : pc'[d] = pc[d] /\ answer'[d] = answer[d]
      /\ pc'[c] = "answered" /\ answer'[c] = r
  BY <1>1, <1>3, AnswersOne
<1>5. \/ /\ i \in DOMAIN pool /\ DOMAIN pool' = DOMAIN pool \ {i}
         /\ \A j \in DOMAIN pool' : pool'[j] = pool[j]
      \/ r = Failed /\ pool' = pool
  BY <1>1 DEF remove_breakpoint, Restrict
<1>6. \A d \in Calls : /\ Setter(d)' <=> Setter(d)
                       /\ Launcher(d)' <=> Launcher(d)
                       /\ Removing(d)' <=> Removing(d)
                       /\ Given(d)' <=> Given(d)
  BY <1>2, <1>3, <1>4 DEF Setter, Launcher, Removing, Sends, Given
<1>7. \A j, g, k : /\ Has(j, g, k)' => Has(j, g, k)
                   /\ Has(j, g, k) /\ j # i => Has(j, g, k)'
  BY <1>5 DEF Has
<1>8. TodoInv' /\ NewInv' /\ TableInv'
  <2>1. TodoInv'
    BY <1>0, <1>6 DEF TodoInv, TodoOk, Prior, Group, Listed
  <2>2. NewInv'
    BY <1>0, <1>6 DEF NewInv, WorkOk, NewOk, Stale, Prior, Group, Listed
  <2>3. TableInv'
    BY <1>0 DEF TableInv
  <2>4. QED
    BY <2>1, <2>2, <2>3
<1>9. GivenInv'
  <2>1. \A d \in Calls : Given(d) => answer'[d] = answer[d]
    BY <1>3, <1>4 DEF Given
  <2>2. QED
    BY <1>0, <1>6, <2>1 DEF GivenInv, Prior, Group
<1>10. Group(c) \in Groups
  BY <1>0 DEF CallsTyped, Ops, Group
<1>11. PICK k0 \in Stale(c, new) : Prior(c)[k0] = i
  <2>1. i \in work[c].drop
    BY <1>0, <1>3 DEF NewInv
  <2>2. QED
    BY <1>0, <1>3, <2>1 DEF NewInv, WorkOk
<1>12. k0 \in DOMAIN table[Group(c)] \ DOMAIN new /\ table[Group(c)][k0] = i
  BY <1>11 DEF Stale, Prior
<1>13. Live => Has(i, Group(c), k0)
  <2>1. Kept(Group(c), k0)
    <3>1. \A d \in Calls : Removing(d) /\ Group(d) = Group(c) => d = c
      BY <1>0, <1>3 DEF MutexInv, Removing
    <3>2. i \in work[c].drop
      BY <1>0, <1>3 DEF NewInv
    <3>3. QED
      BY <1>3, <1>12, <3>1, <3>2 DEF Kept
  <2>2. QED
    BY <1>0, <1>10, <1>12, <2>1 DEF EngineInv
<1>14. EngineInv'
  <2> SUFFICES ASSUME Live' PROVE EngineInv'
    BY DEF EngineInv
  <2>1. Live
    BY <1>2 DEF Live
  <2>2. \A g, k : Has(i, g, k) => g = Group(c) /\ k = k0
    BY <1>13, <2>1 DEF Has, Place
  <2>3. \A g \in Groups : \A k \in DOMAIN table[g] : Kept(g, k)' => Kept(g, k)
    BY <1>3, <1>4, <1>6 DEF Kept, Group
  <2>4. ASSUME NEW g \in Groups, NEW k \in DOMAIN table[g], Kept(g, k)'
        PROVE  Has(table[g][k], g, k)'
    <3>1. Has(table[g][k], g, k)
      BY <1>0, <2>1, <2>3, <2>4 DEF EngineInv
    <3>2. table[g][k] # i
      <4>1. SUFFICES ASSUME table[g][k] = i PROVE FALSE
        OBVIOUS
      <4>2. g = Group(c) /\ k = k0
        BY <2>2, <3>1, <4>1
      <4>3. table[g][k] \in work[c].drop \ {i}
        BY <1>3, <1>4, <1>6, <1>12, <2>4, <4>2 DEF Kept, Group
      <4>4. QED
        BY <4>1, <4>3
    <3>3. QED
      BY <1>7, <3>1, <3>2
  <2>5. ASSUME NEW d \in Calls, Setter(d), NEW k \in DOMAIN work[d].new
        PROVE  Has(work[d].new[k], Group(d), k)'
    <3>1. Has(work[d].new[k], Group(d), k)
      BY <1>0, <2>1, <2>5 DEF EngineInv
    <3>2. work[d].new[k] # i
      <4>1. SUFFICES ASSUME work[d].new[k] = i PROVE FALSE
        OBVIOUS
      <4>2. Group(d) = Group(c) /\ k = k0
        BY <2>2, <3>1, <4>1
      <4>3. d = c
        BY <1>0, <1>3, <2>5, <4>2 DEF MutexInv
      <4>4. QED
        BY <1>12, <2>5, <4>2, <4>3
    <3>3. Group(d)' = Group(d)
      BY DEF Group
    <3>4. QED
      BY <1>7, <3>1, <3>2, <3>3
  <2>6. ASSUME NEW d \in Calls, Setter(d) \/ Launcher(d), Given(d)
        PROVE  Has(answer[d].hit, Group(d), ask[d].place.key)'
    <3>1. Has(answer[d].hit, Group(d), ask[d].place.key)
      BY <1>0, <2>1, <2>6 DEF EngineInv
    <3>2. d # c
      BY <1>3, <2>6 DEF Given
    <3>3. answer[d].hit # i
      <4>1. SUFFICES ASSUME answer[d].hit = i PROVE FALSE
        OBVIOUS
      <4>2. Group(d) = Group(c)
        BY <2>2, <3>1, <4>1
      <4>3. Setter(d)
        BY <1>3, <2>6, SetterAlone
      <4>4. QED
        BY <1>0, <1>3, <3>2, <4>2, <4>3 DEF MutexInv
    <3>4. answer'[d] = answer[d] /\ Group(d)' = Group(d)
      BY <1>4, <3>2 DEF Group
    <3>5. QED
      BY <1>7, <3>1, <3>3, <3>4
  <2>7. QED
    BY <1>6, <2>4, <2>5, <2>6 DEF EngineInv
<1>15. PoolInv'
  <2> SUFFICES ASSUME Live', slot' PROVE PoolInv'
    BY DEF PoolInv
  <2>1. Live /\ slot
    BY <1>2 DEF Live
  <2>2. \A j \in DOMAIN pool' : /\ j \in DOMAIN pool /\ pool'[j] = pool[j]
                                /\ \A g, k : Has(j, g, k)' <=> Has(j, g, k)
    BY <1>5 DEF Has
  <2>3. \A d \in Calls, j \in DOMAIN pool' : InWork(d, j) => InWork(d, j)'
    <3>1. \A d \in Calls : Given(d) => answer'[d] = answer[d]
      BY <1>3, <1>4 DEF Given
    <3>2. QED
      BY <1>6, <2>2, <3>1 DEF InWork, Group
  <2>4. \A j \in DOMAIN pool' : InTable(j) => InTable(j)'
    BY <2>2 DEF InTable
  <2>5. \A j \in DOMAIN pool' : Tracked(j)'
    BY <1>0, <1>2, <2>1, <2>2, <2>3, <2>4 DEF PoolInv, Tracked, Spare
  <2>6. ASSUME NEW d \in Calls, Removing(d), NEW k \in Stale(d, work[d].new),
               \/ Prior(d)[k] \notin work[d].drop
               \/ pc'[d] = "answered" /\ ask[d].id = Prior(d)[k] /\ answer'[d] # Failed
        PROVE  Spare(Prior(d)[k]) \/ ~ Has(Prior(d)[k], Group(d), k)'
    <3> DEFINE j == Prior(d)[k]
    <3>1. CASE Finished(d, j)
      <4>1. Spare(j) \/ ~ Has(j, Group(d), k)
        BY <1>0, <1>2, <2>1, <2>6, <3>1 DEF PoolInv
      <4>2. Prior(d)' = Prior(d) /\ Group(d)' = Group(d)
        BY DEF Prior, Group
      <4>3. QED
        BY <1>7, <4>1, <4>2
    <3>2. CASE ~ Finished(d, j)
      <4>1. d = c /\ j = i /\ r # Failed
        BY <1>3, <1>4, <2>6, <3>2 DEF Finished
      <4>2. i \notin DOMAIN pool'
        BY <1>5, <4>1
      <4>3. Prior(d)' = Prior(d) /\ Group(d)' = Group(d)
        BY DEF Prior, Group
      <4>4. QED
        BY <4>1, <4>2, <4>3 DEF Has
    <3>3. QED
      BY <3>1, <3>2
  <2>7. QED
    BY <1>6, <2>5, <2>6 DEF PoolInv, Stale, Prior, Group, Spare, Finished
<1>16. QED
  BY <1>8, <1>9, <1>14, <1>15 DEF Rest

\* A request's list of places to set.
LEMMA TodoMade ==
    ASSUME Typed, PlanInv, NoRepeats, NEW c \in Calls, NEW known, DOMAIN Prior(c) \subseteq known
    PROVE  TodoOk(c, PlacesOf(Group(c), Settable(plan[c].keys, known)))
<1> DEFINE keys == Settable(plan[c].keys, known)
           todo == PlacesOf(Group(c), keys)
<1>1. plan[c].keys \in Seq(Keys) /\ Group(c) \in Groups
  BY TypedParts DEF CallsTyped, Ops, Group
<1>2. Distinct(plan[c].keys)
  BY DEF PlanInv, NoRepeats
<1>3. /\ keys \in Seq(Keys) /\ Distinct(keys)
      /\ \A i \in 1 .. Len(keys) : keys[i] \in Listed(c) \ (Rejected \cup known)
  BY <1>1, <1>2, SettableKeys DEF Listed
<1> HIDE DEF keys
<1>4. Len(todo) = Len(keys) /\ \A i \in 1 .. Len(keys) : todo[i] = Place(Group(c), keys[i])
  BY <1>1, <1>3, PlacesTyped
<1> HIDE DEF todo
<1>5. \A i \in 1 .. Len(todo) : todo[i].group = Group(c) /\ todo[i].key = keys[i]
  <2>1. \A g, k : Place(g, k).group = g /\ Place(g, k).key = k
    BY DEF Place
  <2>2. QED
    BY <1>4, <2>1
<1>6. Distinct(todo)
  BY <1>3, <1>4, <1>5 DEF Distinct
<1>7. TodoOk(c, todo)
  BY <1>3, <1>4, <1>5, <1>6 DEF TodoOk
<1>8. QED
  BY <1>7 DEF todo, keys

\* A launch begins.
LEMMA LaunchesStep ==
    ASSUME Typed, Inv, NoRepeats, TableHolds, NEW c \in Calls, CallSide(c), Launches(c)
    PROVE  Rest'
<1>0. /\ PlanInv /\ OriginInv /\ TypeOK
  BY DEF TableHolds, Typed
<1>1. \A d \in Calls : pc[d] = "start"
  BY DEF Launches, Inv, ConnectInv, Begun
<1>2. \A g \in Groups : DOMAIN table[g] = {}
  BY <1>0, <1>1 DEF OriginInv, SomeSettled, Settled, Begun
<1>3. DOMAIN pool = {}
  BY <1>0, <1>1 DEF OriginInv, SomeSettled, Settled, Begun
<1>4. UNCHANGED <<table, pool, plan>> /\ \A d \in Calls \ {c} : pc'[d] = "start"
  <2>1. UNCHANGED table
    BY DEF Launches
  <2>2. UNCHANGED <<pool, plan>> /\ \A d \in Calls \ {c} : pc'[d] = pc[d]
    BY CallForms
  <2>3. QED
    BY <1>1, <2>1, <2>2
<1>5. plan[c].kind = "launch" /\ ask'[c].verb = "launch"
  BY DEF Launches
<1>6. \A d \in Calls : ~ Setter(d)' /\ ~ Given(d)' /\ (Launcher(d)' => d = c)
  BY <1>4, <1>5 DEF Setter, Launcher, Given, Sends
<1>7. TodoInv'
  <2>1. Group(c) \in Groups
    BY TypedParts DEF CallsTyped, Ops, Group
  <2>2. TodoOk(c, work'[c].todo)
    BY <1>0, <1>2, <2>1, TodoMade DEF Launches, Prior, Group
  <2>3. TodoOk(c, work[c].todo)'
    BY <1>4, <2>2 DEF TodoOk, Prior, Group, Listed
  <2>4. QED
    BY <1>5, <1>6, <2>3 DEF TodoInv
<1>8. NewInv' /\ GivenInv'
  BY <1>6 DEF NewInv, GivenInv
<1>9. TableInv'
  BY <1>2, <1>4 DEF TableInv, Single
<1>10. EngineInv'
  BY <1>2, <1>4, <1>6 DEF EngineInv
<1>11. PoolInv'
  BY <1>3, <1>4, <1>6 DEF PoolInv, Removing
<1>12. QED
  BY <1>7, <1>8, <1>9, <1>10, <1>11 DEF Rest

\* A call that is not about breakpoints steps, or one is dropped.
LEMMA AsideStep ==
    ASSUME Typed, Inv, TableHolds, NEW c \in Calls, CallSide(c), Aside(c)
    PROVE  Rest'
<1>0. /\ PlanInv /\ OriginInv /\ MutexInv /\ TodoInv /\ NewInv /\ GivenInv /\ TableInv
      /\ EngineInv /\ PoolInv
  BY DEF TableHolds
<1>1. /\ UNCHANGED <<plan, target, pool, thread, table, leftover>> /\ (slot' => slot)
      /\ \A d \in Calls \ {c} : /\ pc'[d] = pc[d] /\ ask'[d] = ask[d]
                                /\ answer'[d] = answer[d] /\ work'[d] = work[d]
  BY CallForms DEF Aside
<1>2. ~ Setter(c) /\ ~ Setter(c)' /\ ~ Launcher(c)' /\ (Launcher(c) => ~ slot')
  BY DEF Aside
<1>3. \A d \in Calls : Setter(d) \/ Setter(d)' \/ Launcher(d)' => d # c
  BY <1>2
<1>4. \A d \in Calls \ {c} : /\ Setter(d)' <=> Setter(d)
                             /\ Launcher(d)' <=> Launcher(d)
                             /\ Removing(d)' <=> Removing(d)
                             /\ Given(d)' <=> Given(d)
  BY <1>1 DEF Setter, Launcher, Removing, Sends, Given
<1>5. \A g, k, i : Has(i, g, k)' <=> Has(i, g, k)
  BY <1>1 DEF Has
<1>6. TodoInv'
  BY <1>0, <1>1, <1>3, <1>4 DEF TodoInv, TodoOk, Prior, Group, Listed
<1>7. NewInv'
  BY <1>0, <1>1, <1>3, <1>4 DEF NewInv, WorkOk, NewOk, Stale, Prior, Group, Listed
<1>8. GivenInv' /\ TableInv'
  BY <1>0, <1>1, <1>3, <1>4 DEF GivenInv, TableInv, Prior, Group
<1>9. EngineInv'
  <2> SUFFICES ASSUME Live' PROVE EngineInv'
    BY DEF EngineInv
  <2>1. Live
    BY <1>1 DEF Live
  <2>2. \A g \in Groups : \A k \in DOMAIN table[g] : Kept(g, k)' => Kept(g, k)
    BY <1>1, <1>3, <1>4 DEF Kept, Group, Removing
  <2>3. \A g \in Groups : \A k \in DOMAIN table[g] : Kept(g, k)' => Has(table[g][k], g, k)'
    BY <1>0, <1>1, <1>5, <2>1, <2>2 DEF EngineInv
  <2>4. \A d \in Calls \ {c} : Setter(d)' =>
           \A k \in DOMAIN work[d].new : Has(work[d].new[k], Group(d), k)'
    BY <1>0, <1>1, <1>4, <1>5, <2>1 DEF EngineInv, Group
  <2>5. \A d \in Calls \ {c} : (Setter(d)' \/ Launcher(d)') /\ Given(d)' =>
           Has(answer[d].hit, Group(d), ask[d].place.key)'
    BY <1>0, <1>1, <1>4, <1>5, <2>1 DEF EngineInv, Group
  <2>6. QED
    BY <1>1, <1>3, <2>3, <2>4, <2>5 DEF EngineInv
<1>10. PoolInv'
  <2> SUFFICES ASSUME Live', slot', thread' = "serving" PROVE PoolInv'
    BY DEF PoolInv
  <2>1. Live /\ slot /\ thread = "serving"
    BY <1>1 DEF Live
  <2>2. \A d \in Calls, i \in DOMAIN pool : InWork(d, i) => InWork(d, i)'
    <3>1. \A i : ~ InWork(c, i)
      BY <1>2 DEF InWork
    <3>2. QED
      BY <1>1, <1>4, <1>5, <3>1 DEF InWork, Group
  <2>3. \A i \in DOMAIN pool : InTable(i) => InTable(i)'
    BY <1>1, <1>5 DEF InTable
  <2>4. \A i \in DOMAIN pool' : Tracked(i)'
    BY <1>0, <1>1, <2>1, <2>2, <2>3 DEF PoolInv, Tracked, Spare
  <2>5. ASSUME NEW d \in Calls \ {c}, Removing(d), NEW k \in Stale(d, work[d].new),
               Finished(d, Prior(d)[k])
        PROVE  Spare(Prior(d)[k]) \/ ~ Has(Prior(d)[k], Group(d), k)
    BY <1>0, <2>1, <2>5 DEF PoolInv
  <2>6. \A d \in Calls : Removing(d)' => d # c /\ Removing(d)
    BY <1>3, <1>4 DEF Removing
  <2>7. QED
    BY <1>1, <1>5, <2>4, <2>5, <2>6 DEF PoolInv, Stale, Prior, Group, Spare, Finished
<1>11. QED
  BY <1>6, <1>7, <1>8, <1>9, <1>10 DEF Rest

\* A call sends its command, or finds the thread dead.
LEMMA SubmitsStep ==
    ASSUME Typed, Inv, TableHolds, NEW c \in Calls, CallSide(c), Submits(c)
    PROVE  Rest'
<1>0. /\ PlanInv /\ OriginInv /\ MutexInv /\ TodoInv /\ NewInv /\ GivenInv /\ TableInv
      /\ EngineInv /\ PoolInv
  BY DEF TableHolds
<1>1. /\ UNCHANGED <<plan, target, pool, thread, table, leftover, slot, ask, work>>
      /\ \A d \in Calls \ {c} : pc'[d] = pc[d] /\ answer'[d] = answer[d]
  BY CallForms DEF Submits
<1>2. /\ pc[c] = "send"
      /\ \/ pc'[c] = "await"
         \/ pc'[c] = "answered" /\ answer'[c].is = "closed" /\ thread' = "exited"
  BY <1>1 DEF Submits, Closed, Reply
<1>3. \A d \in Calls : /\ Setter(d)' <=> Setter(d)
                       /\ Launcher(d)' <=> Launcher(d)
                       /\ Removing(d)' <=> Removing(d)
                       /\ Given(d)' <=> Given(d)
                       /\ Given(d) => answer'[d] = answer[d]
  BY <1>1, <1>2 DEF Setter, Launcher, Removing, Sends, Given
<1>4. \A g, k, i : Has(i, g, k)' <=> Has(i, g, k)
  BY <1>1 DEF Has
<1>5. TodoInv'
  BY <1>0, <1>1, <1>3 DEF TodoInv, TodoOk, Prior, Group, Listed
<1>6. NewInv'
  BY <1>0, <1>1, <1>3 DEF NewInv, WorkOk, NewOk, Stale, Prior, Group, Listed
<1>7. GivenInv' /\ TableInv'
  BY <1>0, <1>1, <1>3 DEF GivenInv, TableInv, Prior, Group
<1>8. EngineInv'
  <2> SUFFICES ASSUME Live' PROVE EngineInv'
    BY DEF EngineInv
  <2>1. Live
    BY <1>1 DEF Live
  <2>2. \A g \in Groups : \A k \in DOMAIN table[g] : Kept(g, k)' => Kept(g, k)
    BY <1>1, <1>2, <1>3 DEF Kept, Group
  <2>3. \A g \in Groups : \A k \in DOMAIN table[g] : Kept(g, k)' => Has(table[g][k], g, k)'
    BY <1>0, <1>1, <1>4, <2>1, <2>2 DEF EngineInv
  <2>4. \A d \in Calls : Setter(d)' =>
           \A k \in DOMAIN work[d].new : Has(work[d].new[k], Group(d), k)'
    BY <1>0, <1>1, <1>3, <1>4, <2>1 DEF EngineInv, Group
  <2>5. \A d \in Calls : (Setter(d)' \/ Launcher(d)') /\ Given(d)' =>
           Has(answer[d].hit, Group(d), ask[d].place.key)'
    BY <1>0, <1>1, <1>3, <1>4, <2>1 DEF EngineInv, Group
  <2>6. QED
    BY <1>1, <2>3, <2>4, <2>5 DEF EngineInv
<1>9. PoolInv'
  <2> SUFFICES ASSUME Live', slot', thread' = "serving" PROVE PoolInv'
    BY DEF PoolInv
  <2>1. Live /\ slot /\ thread = "serving" /\ pc'[c] = "await"
    BY <1>1, <1>2 DEF Live
  <2>2. \A d \in Calls, i \in DOMAIN pool : InWork(d, i) => InWork(d, i)'
    BY <1>1, <1>3, <1>4 DEF InWork, Group
  <2>3. \A i \in DOMAIN pool : InTable(i) => InTable(i)'
    BY <1>1, <1>4 DEF InTable
  <2>4. \A i \in DOMAIN pool' : Tracked(i)'
    BY <1>0, <1>1, <2>1, <2>2, <2>3 DEF PoolInv, Tracked, Spare
  <2>5. ASSUME NEW d \in Calls, Removing(d), NEW k \in Stale(d, work[d].new),
               Finished(d, Prior(d)[k])
        PROVE  Spare(Prior(d)[k]) \/ ~ Has(Prior(d)[k], Group(d), k)
    BY <1>0, <2>1, <2>5 DEF PoolInv
  <2>6. \A d \in Calls : \A i : Finished(d, i)' => Finished(d, i)
    BY <1>1, <1>2, <2>1 DEF Finished
  <2>7. QED
    BY <1>1, <1>3, <1>4, <2>1, <2>4, <2>5 DEF PoolInv, Stale, Prior, Group, Spare, Finished
<1>10. QED
  BY <1>5, <1>6, <1>7, <1>8, <1>9 DEF Rest

\* The rest of a list of places, without the first.
LEMMA TailOk ==
    ASSUME NEW c \in Calls, NEW todo \in Seq(Places), todo # <<>>, TodoOk(c, todo)
    PROVE  /\ TodoOk(c, Tail(todo)) /\ Tail(todo) \in Seq(Places)
           /\ \A i \in 1 .. Len(Tail(todo)) : /\ Tail(todo)[i].key # todo[1].key
                                              /\ \E j \in 1 .. Len(todo) : Tail(todo)[i] = todo[j]
<1>1. /\ Len(todo) \in Nat /\ Len(todo) > 0 /\ Len(Tail(todo)) = Len(todo) - 1
      /\ \A i \in 1 .. Len(todo) - 1 : Tail(todo)[i] = todo[i + 1]
      /\ Tail(todo) \in Seq(Places)
  BY HeadTail
<1>2. \A i \in 1 .. Len(todo) : todo[i] \in Places
  BY <1>1
<1>3. \A i \in 1 .. Len(Tail(todo)) : /\ i + 1 \in 1 .. Len(todo) /\ i + 1 # 1
                                      /\ i \in 1 .. Len(todo) - 1
  BY <1>1
<1>4. ASSUME NEW i \in 1 .. Len(Tail(todo))
      PROVE  Tail(todo)[i].key # todo[1].key
  <2>1. todo[i + 1] # todo[1] /\ todo[i + 1].group = todo[1].group
    BY <1>1, <1>3 DEF TodoOk, Distinct
  <2>2. todo[i + 1] \in Places /\ todo[1] \in Places
    BY <1>1, <1>2, <1>3
  <2>3. todo[i + 1].key # todo[1].key
    BY <2>1, <2>2 DEF Places
  <2>4. QED
    BY <1>1, <1>3, <2>3
<1>5. \A i \in 1 .. Len(Tail(todo)) : Tail(todo)[i] = todo[i + 1]
  BY <1>1, <1>3
<1>6. Distinct(Tail(todo))
  <2>1. \A i, j \in 1 .. Len(Tail(todo)) : i + 1 = j + 1 => i = j
    BY <1>1
  <2>2. QED
    BY <1>3, <1>5, <2>1 DEF TodoOk, Distinct
<1>7. TodoOk(c, Tail(todo))
  BY <1>3, <1>5, <1>6 DEF TodoOk
<1>8. QED
  BY <1>1, <1>3, <1>4, <1>5, <1>7

\* What a launch records is a new number at a place that was to be set.
LEMMA FlushGiven ==
    ASSUME Typed, TableHolds, NEW c \in Calls, Flush(c), Given(c)
    PROVE  /\ ask[c].place.group = Group(c) /\ Group(c) \in Groups
           /\ ask[c].place.key \in Keys \ (Rejected \cup DOMAIN Prior(c))
           /\ ask[c].place.key \in Listed(c)
           /\ ask[c].place.key = work[c].todo[1].key
           /\ answer[c].hit \in Ids \ Numbers(Prior(c))
           /\ Live => Has(answer[c].hit, Group(c), ask[c].place.key)
<1>0. TodoInv /\ GivenInv /\ EngineInv /\ SettingInv
  BY TypedParts DEF TableHolds
<1>1. Launcher(c) /\ ask[c].verb = "set_breakpoint" /\ answer[c].is = "ok" /\ Sends(c)
  BY FlushForms DEF Launcher, Sends, Given
<1>2. answer[c].hit \in Ids
  BY <1>0, <1>1 DEF SettingInv, Given
<1>3. /\ ask[c].place = work[c].todo[1] /\ ask[c].place.group = Group(c)
      /\ ask[c].place.key \in Keys \ (Rejected \cup DOMAIN Prior(c)) /\ Group(c) \in Groups
      /\ ask[c].place.key \in Listed(c)
  BY <1>0, <1>1, AskedPlace
<1>4. answer[c].hit \notin Numbers(Prior(c))
  BY <1>0, <1>1 DEF GivenInv
<1>5. Live => Has(answer[c].hit, Group(c), ask[c].place.key)
  BY <1>0, <1>1 DEF EngineInv
<1>6. QED
  BY <1>2, <1>3, <1>4, <1>5

\* The launch takes an answer.
LEMMA FlushStep ==
    ASSUME Typed, Inv, TableHolds, NEW c \in Calls, CallSide(c), Flush(c)
    PROVE  Rest'
<1> DEFINE g0 == Group(c)
           k0 == ask[c].place.key
           hit == answer[c].hit
<1>0. /\ PlanInv /\ OriginInv /\ MutexInv /\ TodoInv /\ NewInv /\ GivenInv /\ TableInv
      /\ EngineInv /\ PoolInv /\ CallsTyped /\ TableTyped /\ SettingInv
  BY TypedParts DEF TableHolds
<1> PICK left : left = FlushLeft(c)
  OBVIOUS
<1>1. /\ UNCHANGED <<plan, target, pool, thread>> /\ (slot' => slot)
      /\ \A d \in Calls \ {c} : pc'[d] = pc[d]
  BY CallForms
<1>2. /\ plan[c].kind = "launch" /\ pc[c] = "answered" /\ UNCHANGED leftover
      /\ work'[c].todo = left /\ pc'[c] \in {"send", "done"}
      /\ pc'[c] = "send" => left # <<>> /\ ask'[c] = SetAt(Head(left))
  BY FlushForms
<1>3. Launcher(c) /\ g0 \in Groups
  BY <1>0, <1>2 DEF Launcher, Sends, CallsTyped, Ops, Group
<1>4. \A d \in Calls : ~ Setter(d) /\ (Launcher(d) => d = c)
  BY <1>3, SetterAlone, LauncherAlone
<1>5. \A d \in Calls : ~ Setter(d)' /\ (Launcher(d)' => d = c /\ pc'[c] = "send") /\ ~ Given(c)'
  BY <1>1, <1>2, <1>4 DEF Setter, Launcher, Sends, Given
<1>6. Given(c) => /\ ask[c].place.group = g0 /\ k0 \in Keys \ (Rejected \cup DOMAIN table[g0])
                  /\ hit \in Ids /\ hit \notin Numbers(table[g0])
                  /\ k0 = work[c].todo[1].key
                  /\ Live => Has(hit, g0, k0)
  BY FlushGiven DEF Prior
<1>7. /\ \A g \in Groups \ {g0} : table'[g] = table[g]
      /\ table'[g0] = IF Given(c) THEN Recorded(table[g0], k0, hit) ELSE table[g0]
  <2>1. table' = IF Given(c) THEN [table EXCEPT ![ask[c].place.group] = Recorded(@, k0, hit)]
                             ELSE table
    BY FlushForms
  <2>2. QED
    BY <1>0, <1>3, <1>6, <2>1 DEF TableTyped
<1>8. /\ DOMAIN table'[g0] = DOMAIN table[g0] \cup (IF Given(c) THEN {k0} ELSE {})
      /\ \A k \in DOMAIN table[g0] : table'[g0][k] = table[g0][k]
      /\ Given(c) => table'[g0][k0] = hit
  <2>1. Row(table[g0])
    BY <1>0, <1>3 DEF TableTyped
  <2>2. CASE Given(c)
    <3>1. k0 \in Keys \ DOMAIN table[g0] /\ hit \in Ids
      BY <1>6, <2>2
    <3>2. /\ DOMAIN Recorded(table[g0], k0, hit) = DOMAIN table[g0] \cup {k0}
          /\ Recorded(table[g0], k0, hit)[k0] = hit
          /\ \A k \in DOMAIN table[g0] : Recorded(table[g0], k0, hit)[k] = table[g0][k]
      <4> HIDE DEF g0, k0, hit
      <4>1. /\ DOMAIN Recorded(table[g0], k0, hit) = DOMAIN table[g0] \cup {k0}
            /\ Recorded(table[g0], k0, hit)[k0] = hit
            /\ \A k \in DOMAIN table[g0] \ {k0} :
                  Recorded(table[g0], k0, hit)[k] = table[g0][k]
        BY <2>1, <3>1, RecordedRow
      <4>2. QED
        BY <3>1, <4>1
    <3>3. table'[g0] = Recorded(table[g0], k0, hit)
      BY <1>7, <2>2
    <3>4. QED
      BY <2>2, <3>2, <3>3
  <2>3. CASE ~ Given(c)
    BY <1>7, <2>3
  <2>4. QED
    BY <2>2, <2>3
<1>9. TodoInv'
  <2> SUFFICES ASSUME pc'[c] = "send" PROVE TodoInv'
    BY <1>5 DEF TodoInv
  <2>1. work[c].todo \in Seq(Places) /\ TodoOk(c, work[c].todo)
    BY <1>0, <1>3 DEF TableTyped, Local, TodoInv
  <2>2. /\ TodoOk(c, left)
        /\ Given(c) => \A i \in 1 .. Len(left) : left[i].key # k0
    <3>1. CASE ask[c].verb # "set_breakpoint"
      BY <2>1, <3>1 DEF FlushLeft, Given
    <3>2. CASE ask[c].verb = "set_breakpoint"
      <4>1. work[c].todo # <<>> /\ left = Tail(work[c].todo)
        BY <1>0, <1>2, <3>2 DEF SettingInv, Sends, FlushLeft
      <4>2. QED
        BY <1>6, <2>1, <4>1, TailOk
    <3>3. QED
      BY <3>1, <3>2
  <2>3. /\ Distinct(left)
        /\ \A i \in 1 .. Len(left) : /\ left[i].group = g0
                                     /\ left[i].key \in Listed(c)
                                     /\ left[i].key \notin Rejected \cup DOMAIN table'[g0]
    BY <1>8, <2>2 DEF TodoOk, Prior
  <2>4. ask'[c].place = Head(left)
    BY <1>2 DEF SetAt
  <2>5. Group(c)' = Group(c) /\ Listed(c)' = Listed(c)
    BY <1>1 DEF Group, Listed
  <2>6. TodoOk(c, work[c].todo)'
    BY <1>2, <2>3, <2>5 DEF TodoOk, Prior
  <2>7. QED
    BY <1>2, <1>5, <2>4, <2>6 DEF TodoInv
<1>10. NewInv' /\ GivenInv'
  BY <1>5 DEF NewInv, GivenInv
<1>11. TableInv'
  <2>1. Single(table'[g0]) /\ DOMAIN table'[g0] \cap Rejected = {}
    <3>1. Single(table[g0]) /\ DOMAIN table[g0] \cap Rejected = {}
      BY <1>0, <1>3 DEF TableInv
    <3>2. CASE Given(c)
      BY <1>6, <1>8, <3>1, <3>2 DEF Single, Numbers
    <3>3. CASE ~ Given(c)
      BY <1>7, <3>1, <3>3
    <3>4. QED
      BY <3>2, <3>3
  <2>2. QED
    BY <1>0, <1>7, <2>1 DEF TableInv
<1>12. \A g, k, i : Has(i, g, k)' <=> Has(i, g, k)
  BY <1>1 DEF Has
<1>13. EngineInv'
  <2> SUFFICES ASSUME Live' PROVE EngineInv'
    BY DEF EngineInv
  <2>1. Live
    BY <1>1 DEF Live
  <2>2. \A g, k : Kept(g, k)
    BY <1>4 DEF Kept, Removing
  <2>3. \A g \in Groups : \A k \in DOMAIN table[g] : Has(table[g][k], g, k)
    BY <1>0, <2>1, <2>2 DEF EngineInv
  <2>4. \A g \in Groups : \A k \in DOMAIN table'[g] : Has(table'[g][k], g, k)
    BY <1>6, <1>7, <1>8, <2>1, <2>3
  <2>5. \A g \in Groups : \A k \in DOMAIN table'[g] : Has(table[g][k], g, k)'
    BY <1>12, <2>4
  <2>6. QED
    BY <1>5, <2>5 DEF EngineInv
<1>14. PoolInv'
  <2> SUFFICES ASSUME Live', slot', thread' = "serving" PROVE PoolInv'
    BY DEF PoolInv
  <2>1. Live /\ slot /\ thread = "serving"
    BY <1>1 DEF Live
  <2>2. \A i \in DOMAIN pool : InTable(i) => InTable(i)'
    <3>1. ASSUME NEW i \in DOMAIN pool, InTable(i)
          PROVE  InTable(i)'
      <4>1. PICK g \in Groups : \E k \in DOMAIN table[g] : table[g][k] = i /\ Has(i, g, k)
        BY <3>1 DEF InTable
      <4>2. PICK k \in DOMAIN table[g] : table[g][k] = i /\ Has(i, g, k)
        BY <4>1
      <4>3. k \in DOMAIN table'[g] /\ table'[g][k] = i
        BY <1>7, <1>8, <4>2
      <4>4. QED
        BY <1>12, <4>2, <4>3 DEF InTable
    <3>2. QED
      BY <3>1
  <2>3. \A d \in Calls, i \in DOMAIN pool : InWork(d, i) => InTable(i)'
    <3>1. ASSUME NEW d \in Calls, NEW i \in DOMAIN pool, InWork(d, i)
          PROVE  InTable(i)'
      <4>1. d = c /\ Given(c) /\ hit = i /\ Has(i, g0, k0)
        BY <1>4, <3>1 DEF InWork
      <4>2. k0 \in DOMAIN table'[g0] /\ table'[g0][k0] = i
        BY <1>8, <4>1
      <4>3. QED
        BY <1>3, <1>12, <4>1, <4>2 DEF InTable
    <3>2. QED
      BY <3>1
  <2>4. \A i \in DOMAIN pool' : Tracked(i)'
    BY <1>0, <1>1, <1>2, <2>1, <2>2, <2>3 DEF PoolInv, Tracked, Spare
  <2>5. QED
    BY <1>5, <2>4 DEF PoolInv, Removing
<1>15. QED
  BY <1>9, <1>10, <1>11, <1>13, <1>14 DEF Rest

\* No other request is about the group of c.
Lone(c) == \A d \in Calls : ~ Launcher(d) /\ (Setter(d) /\ Group(d) = Group(c) => d = c)

\* What it takes to go on with locals w.
Ready(c, w) ==
    /\ TodoOk(c, w.todo) /\ WorkOk(c, w)
    /\ w.todo # <<>> => /\ ~ Removing(c)
                        /\ \A k \in Stale(c, w.new) : Prior(c)[k] \in w.drop \cup {0}
    /\ Removing(c) => w.new = work[c].new /\ w.drop \subseteq work[c].drop \ {ask[c].id}
    /\ Live => \A k \in DOMAIN w.new : Has(w.new[k], Group(c), k)
    /\ \A i : InWork(c, i) => \E k \in DOMAIN w.new : w.new[k] = i /\ Has(i, Group(c), k)
    /\ Live /\ slot /\ thread = "serving" =>
          \A k \in Stale(c, w.new) : \/ Prior(c)[k] \in w.drop \cup leftover' \cup {0}
                                     \/ ~ Has(Prior(c)[k], Group(c), k)

\* A setter that is ready for it goes on.
LEMMA GoesOnStep ==
    ASSUME Typed, Inv, TableHolds, NEW c \in Calls, CallSide(c), plan[c].kind = "set", Lone(c),
           NEW w, GoesOn(c, w), Ready(c, w), leftover \subseteq leftover', UNCHANGED slot
    PROVE  Rest'
<1> DEFINE g0 == Group(c)
<1>0. /\ PlanInv /\ OriginInv /\ MutexInv /\ TodoInv /\ NewInv /\ GivenInv /\ TableInv
      /\ EngineInv /\ PoolInv /\ CallsTyped /\ TableTyped
  BY TypedParts DEF TableHolds
<1>1. /\ UNCHANGED <<plan, target, pool, thread>>
      /\ \A d \in Calls \ {c} : /\ pc'[d] = pc[d] /\ ask'[d] = ask[d]
                                /\ answer'[d] = answer[d] /\ work'[d] = work[d]
  BY CallForms
<1>2. \A d : Group(d)' = Group(d) /\ Listed(d)' = Listed(d)
  BY <1>1 DEF Group, Listed
<1>3. \A i, g, k : Has(i, g, k)' <=> Has(i, g, k)
  BY <1>1 DEF Has
<1>4. g0 \in Groups
  BY <1>0 DEF CallsTyped, Ops, Group
<1>5. /\ work'[c] = w /\ pc'[c] \in {"send", "done"}
      /\ pc'[c] = "send" => UNCHANGED table
      /\ pc'[c] = "done" => w.drop = {} /\ table' = [table EXCEPT ![g0] = w.new]
  BY DEF GoesOn
<1>6. pc'[c] = "send" => \/ /\ w.todo # <<>> /\ ask'[c].verb = "set_breakpoint"
                            /\ ask'[c].place = Head(w.todo)
                         \/ /\ w.todo = <<>> /\ ask'[c].verb = "remove_breakpoint"
                            /\ ask'[c].id \in w.drop
  <2>1. CASE w.todo # <<>> /\ ask'[c] = SetAt(Head(w.todo))
    BY <2>1 DEF SetAt
  <2>2. CASE w.todo = <<>> /\ \E i \in w.drop : ask'[c] = RemoveId(i)
    BY <2>2 DEF RemoveId
  <2>3. QED
    BY <2>1, <2>2 DEF GoesOn
<1>7. /\ \A g \in Groups \ {g0} : table'[g] = table[g]
      /\ pc'[c] = "done" => table'[g0] = w.new
  <2>1. table = [g \in Groups |-> table[g]]
    BY <1>0 DEF TableTyped
  <2>2. QED
    BY <1>4, <1>5, <2>1
<1>8. \A d \in Calls \ {c} : /\ Setter(d)' <=> Setter(d)
                             /\ Removing(d)' <=> Removing(d)
                             /\ Given(d)' <=> Given(d)
  BY <1>1 DEF Setter, Removing, Sends, Given
<1>9. /\ \A d \in Calls : ~ Launcher(d)'
      /\ ~ Given(c)' /\ (Setter(c)' <=> pc'[c] = "send")
  BY <1>1, <1>5 DEF Lone, Launcher, Setter, Sends, Given
<1>10. \A d \in Calls \ {c} : Setter(d) => /\ Group(d) \in Groups \ {g0}
                                           /\ Prior(d)' = Prior(d)
  <2>1. ASSUME NEW d \in Calls \ {c}, Setter(d)
        PROVE  Group(d) \in Groups \ {g0}
    BY <1>0, <2>1 DEF Lone, CallsTyped, Ops, Group
  <2>2. QED
    BY <1>1, <1>7, <2>1 DEF Prior, Group
<1>11. pc'[c] = "send" => Prior(c)' = Prior(c)
  BY <1>1, <1>5 DEF Prior, Group
<1>12. TodoInv'
  <2>1. ASSUME NEW d \in Calls \ {c}, Setter(d)
        PROVE  /\ TodoOk(d, work[d].todo)'
               /\ ask'[d].verb = "set_breakpoint" => ask'[d].place = Head(work'[d].todo)
    BY <1>0, <1>1, <1>2, <1>10, <2>1 DEF TodoInv, TodoOk
  <2>2. ASSUME Setter(c)'
        PROVE  /\ TodoOk(c, work[c].todo)'
               /\ ask'[c].verb = "set_breakpoint" => ask'[c].place = Head(work'[c].todo)
    BY <1>2, <1>5, <1>6, <1>9, <1>11, <2>2 DEF Ready, TodoOk
  <2>3. QED
    BY <1>8, <1>9, <2>1, <2>2 DEF TodoInv
<1>13. NewInv'
  <2>1. ASSUME NEW d \in Calls \ {c}, Setter(d)
        PROVE  (/\ WorkOk(d, work[d])
                /\ Removing(d) => work[d].todo = <<>> /\ ask[d].id \in work[d].drop
                /\ ~ Removing(d) =>
                      \A k \in Stale(d, work[d].new) : Prior(d)[k] \in work[d].drop \cup {0})'
    BY <1>0, <1>1, <1>2, <1>8, <1>10, <2>1 DEF NewInv, WorkOk, NewOk, Stale
  <2>2. ASSUME Setter(c)'
        PROVE  (/\ WorkOk(c, work[c])
                /\ Removing(c) => work[c].todo = <<>> /\ ask[c].id \in work[c].drop
                /\ ~ Removing(c) =>
                      \A k \in Stale(c, work[c].new) : Prior(c)[k] \in work[c].drop \cup {0})'
    <3>1. WorkOk(c, work[c])'
      BY <1>2, <1>5, <1>9, <1>11, <2>2 DEF Ready, WorkOk, NewOk, Stale
    <3>2. Removing(c)' => work'[c].todo = <<>> /\ ask'[c].id \in work'[c].drop
      BY <1>5, <1>6, <1>9, <2>2 DEF Removing
    <3>3. ASSUME ~ Removing(c)', NEW k \in Stale(c, work[c].new)'
          PROVE  Prior(c)'[k] \in work'[c].drop \cup {0}
      <4>1. w.todo # <<>>
        BY <1>6, <1>9, <2>2, <3>3 DEF Removing
      <4>2. k \in Stale(c, w.new)
        BY <1>5, <1>9, <1>11, <2>2, <3>3 DEF Stale
      <4>3. QED
        BY <1>5, <1>9, <1>11, <2>2, <4>1, <4>2 DEF Ready
    <3>4. QED
      BY <3>1, <3>2, <3>3
  <2>3. QED
    BY <1>8, <1>9, <2>1, <2>2 DEF NewInv
<1>14. GivenInv'
  <2>1. ASSUME NEW d \in Calls \ {c}, Setter(d), Given(d)
        PROVE  (answer[d].hit \notin Numbers(Prior(d))
                  /\ (Setter(d) => answer[d].hit \notin Numbers(work[d].new)))'
    BY <1>0, <1>1, <1>10, <2>1 DEF GivenInv
  <2>2. QED
    BY <1>8, <1>9, <2>1 DEF GivenInv
<1>15. TableInv'
  <2>1. Single(w.new) /\ DOMAIN w.new \cap Rejected = {}
    BY DEF Ready, WorkOk, NewOk
  <2>2. QED
    BY <1>0, <1>5, <1>7, <2>1 DEF TableInv
<1>16. EngineInv'
  <2> SUFFICES ASSUME Live' PROVE EngineInv'
    BY DEF EngineInv
  <2>1. Live
    BY <1>1 DEF Live
  <2>2. ASSUME NEW g \in Groups, NEW k \in DOMAIN table'[g], Kept(g, k)'
        PROVE  Has(table[g][k], g, k)'
    <3>1. CASE g = g0 /\ pc'[c] = "done"
      BY <1>3, <1>7, <2>1, <3>1 DEF Ready
    <3>2. CASE g # g0 \/ pc'[c] = "send"
      <4>1. table'[g] = table[g]
        BY <1>5, <1>7, <3>2
      <4>2. ASSUME NEW d \in Calls, Removing(d), Group(d) = g, k \notin DOMAIN work[d].new
            PROVE  table[g][k] \in
                      work[d].drop \ (IF pc[d] = "answered" THEN {ask[d].id} ELSE {})
        <5>1. CASE d # c
          BY <1>1, <1>2, <1>8, <2>2, <4>1, <4>2, <5>1 DEF Kept
        <5>2. CASE d = c
          <6>1. w.new = work[c].new /\ w.drop \subseteq work[c].drop \ {ask[c].id} /\ w.todo = <<>>
            BY <4>2, <5>2 DEF Ready
          <6>2. pc'[c] = "send"
            BY <1>5, <3>2, <4>2, <5>2
          <6>3. Removing(c)'
            BY <1>6, <1>9, <6>1, <6>2 DEF Removing
          <6>4. table'[g][k] \in work'[c].drop
            BY <1>2, <1>5, <2>2, <4>2, <5>2, <6>1, <6>3 DEF Kept
          <6>5. QED
            BY <1>5, <4>1, <5>2, <6>1, <6>4
        <5>3. QED
          BY <5>1, <5>2
      <4>3. Kept(g, k)
        BY <4>2 DEF Kept
      <4>4. Has(table[g][k], g, k)
        BY <1>0, <2>1, <4>1, <4>3 DEF EngineInv
      <4>5. QED
        BY <1>3, <4>1, <4>4
    <3>3. QED
      BY <1>5, <3>1, <3>2
  <2>3. ASSUME NEW d \in Calls, Setter(d)', NEW k \in DOMAIN work'[d].new
        PROVE  Has(work[d].new[k], Group(d), k)'
    <3>1. CASE d # c
      BY <1>0, <1>1, <1>2, <1>3, <1>8, <2>1, <2>3, <3>1 DEF EngineInv
    <3>2. CASE d = c
      BY <1>2, <1>3, <1>5, <2>1, <2>3, <3>2 DEF Ready
    <3>3. QED
      BY <3>1, <3>2
  <2>4. ASSUME NEW d \in Calls, Setter(d)' \/ Launcher(d)', Given(d)'
        PROVE  Has(answer[d].hit, Group(d), ask[d].place.key)'
    <3>1. d # c /\ Setter(d) /\ Given(d)
      BY <1>8, <1>9, <2>4
    <3>2. Has(answer[d].hit, Group(d), ask[d].place.key)
      BY <1>0, <2>1, <3>1 DEF EngineInv
    <3>3. QED
      BY <1>1, <1>2, <1>3, <3>1, <3>2
  <2>5. QED
    BY <2>2, <2>3, <2>4 DEF EngineInv
<1>17. PoolInv'
  <2> SUFFICES ASSUME Live', slot', thread' = "serving" PROVE PoolInv'
    BY DEF PoolInv
  <2>1. Live /\ slot /\ thread = "serving"
    BY <1>1 DEF Live
  <2>2. \A i : Spare(i) => Spare(i)'
    BY DEF Spare
  <2>3. ASSUME NEW i, InTable(i)
        PROVE  Tracked(i)'
    <3>1. PICK g \in Groups : \E k \in DOMAIN table[g] : table[g][k] = i /\ Has(i, g, k)
      BY <2>3 DEF InTable
    <3>2. PICK k \in DOMAIN table[g] : table[g][k] = i /\ Has(i, g, k)
      BY <3>1
    <3>3. CASE g # g0 \/ pc'[c] = "send"
      <4>1. table'[g] = table[g]
        BY <1>5, <1>7, <3>3
      <4>2. InTable(i)'
        BY <1>3, <3>2, <4>1 DEF InTable
      <4>3. QED
        BY <4>2 DEF Tracked
    <3>4. CASE g = g0 /\ pc'[c] = "done" /\ k \in DOMAIN w.new
      <4>1. w.new[k] = i
        BY <3>2, <3>4 DEF Ready, WorkOk, NewOk, Prior
      <4>2. InTable(i)'
        BY <1>3, <1>4, <1>7, <3>2, <3>4, <4>1 DEF InTable
      <4>3. QED
        BY <4>2 DEF Tracked
    <3>5. CASE g = g0 /\ pc'[c] = "done" /\ k \notin DOMAIN w.new
      <4>1. k \in Stale(c, w.new) /\ Prior(c)[k] = i /\ Has(i, Group(c), k)
        BY <3>2, <3>5 DEF Stale, Prior
      <4>2. i \in leftover' \cup {0}
        BY <1>5, <2>1, <3>5, <4>1 DEF Ready
      <4>3. Spare(i)'
        BY <4>2 DEF Spare
      <4>4. QED
        BY <4>3 DEF Tracked
    <3>6. QED
      BY <1>5, <3>3, <3>4, <3>5
  <2>4. ASSUME NEW d \in Calls, NEW i, InWork(d, i)
        PROVE  Tracked(i)'
    <3>1. CASE d # c
      <4>1. ~ Launcher(d)
        BY DEF Lone
      <4>2. InWork(d, i)'
        BY <1>1, <1>2, <1>3, <1>8, <2>4, <3>1, <4>1 DEF InWork
      <4>3. QED
        BY <4>2 DEF Tracked
    <3>2. CASE d = c
      <4>1. PICK k \in DOMAIN w.new : w.new[k] = i /\ Has(i, Group(c), k)
        BY <2>4, <3>2 DEF Ready
      <4>2. CASE pc'[c] = "send"
        <5>1. InWork(c, i)'
          BY <1>2, <1>3, <1>5, <1>9, <4>1, <4>2 DEF InWork
        <5>2. QED
          BY <5>1 DEF Tracked
      <4>3. CASE pc'[c] = "done"
        <5>1. InTable(i)'
          BY <1>3, <1>4, <1>7, <4>1, <4>3 DEF InTable
        <5>2. QED
          BY <5>1 DEF Tracked
      <4>4. QED
        BY <1>5, <4>2, <4>3
    <3>3. QED
      BY <3>1, <3>2
  <2>5. \A i \in DOMAIN pool' : Tracked(i)'
    <3>1. \A i \in DOMAIN pool : Tracked(i)
      BY <1>0, <2>1 DEF PoolInv
    <3>2. \A i \in DOMAIN pool : \/ Spare(i)' \/ pool'[i] = Unreported
                                 \/ InTable(i) \/ \E d \in Calls : InWork(d, i)
      BY <1>1, <2>2, <3>1 DEF Tracked
    <3>3. \A i \in DOMAIN pool : Spare(i)' \/ pool'[i] = Unreported => Tracked(i)'
      BY DEF Tracked
    <3>4. QED
      BY <1>1, <2>3, <2>4, <3>2, <3>3
  <2>6. ASSUME NEW d \in Calls, Removing(d)', NEW k \in Stale(d, work[d].new)',
               Finished(d, Prior(d)[k])'
        PROVE  Spare(Prior(d)[k])' \/ ~ Has(Prior(d)[k], Group(d), k)'
    <3>1. CASE d # c
      <4>1. Removing(d) /\ Setter(d)
        BY <1>8, <2>6, <3>1 DEF Removing
      <4>2. k \in Stale(d, work[d].new) /\ Finished(d, Prior(d)[k]) /\ Prior(d)' = Prior(d)
        BY <1>1, <1>10, <2>6, <3>1, <4>1 DEF Stale, Finished
      <4>3. Spare(Prior(d)[k]) \/ ~ Has(Prior(d)[k], Group(d), k)
        BY <1>0, <2>1, <4>1, <4>2 DEF PoolInv
      <4>4. QED
        BY <1>2, <1>3, <2>2, <4>2, <4>3
    <3>2. CASE d = c
      <4>1. pc'[c] = "send" /\ Prior(c)' = Prior(c)
        BY <1>9, <1>11, <2>6, <3>2 DEF Removing
      <4>2. k \in Stale(c, w.new) /\ Prior(c)[k] \notin w.drop
        BY <1>5, <2>6, <3>2, <4>1 DEF Stale, Finished
      <4>3. Prior(c)[k] \in leftover' \cup {0} \/ ~ Has(Prior(c)[k], Group(c), k)
        BY <2>1, <4>2 DEF Ready
      <4>4. QED
        BY <1>2, <1>3, <3>2, <4>1, <4>3 DEF Spare
    <3>3. QED
      BY <3>1, <3>2
  <2>7. QED
    BY <2>5, <2>6 DEF PoolInv
<1>18. QED
  BY <1>12, <1>13, <1>14, <1>15, <1>16, <1>17 DEF Rest

\* A set request can go on from what it starts with.
LEMMA FirstReady ==
    ASSUME Typed, Inv, NoRepeats, TableHolds, NEW c \in Calls, plan[c].kind = "set",
           pc[c] = "start", Lone(c)
    PROVE  Ready(c, FirstWork(c))
<1> DEFINE wanted == ToSet(plan[c].keys) \ Rejected
<1>0. /\ PlanInv /\ TableInv /\ EngineInv /\ CallsTyped /\ TableTyped
  BY TypedParts DEF TableHolds
<1>1. Group(c) \in Groups /\ Row(Prior(c))
  BY <1>0 DEF CallsTyped, Ops, TableTyped, Group, Prior
<1>2. ~ Setter(c) /\ ~ Launcher(c) /\ ~ Removing(c)
  BY DEF Setter, Launcher, Removing, Sends
<1> PICK w : w = FirstWork(c)
  OBVIOUS
<1>3. /\ w.todo = PlacesOf(Group(c), Settable(plan[c].keys, DOMAIN Prior(c)))
      /\ DOMAIN w.new = DOMAIN Prior(c) \cap wanted
      /\ \A k \in DOMAIN w.new : w.new[k] = Prior(c)[k]
      /\ w.drop = {i \in {Prior(c)[k] : k \in DOMAIN Prior(c) \ wanted} : i > 0}
  BY DEF FirstWork, Group, Prior, Restrict, Removable
<1> HIDE DEF wanted
<1>4. TodoOk(c, w.todo)
  BY <1>0, <1>3, TodoMade
<1>5. Stale(c, w.new) = DOMAIN Prior(c) \ wanted
  BY <1>3 DEF Stale
<1>6. \A k \in Stale(c, w.new) : Prior(c)[k] \in w.drop \cup {0}
  <2>1. ASSUME NEW k \in Stale(c, w.new), Prior(c)[k] # 0
        PROVE  Prior(c)[k] > 0
    BY <1>1, <1>5, <2>1, EngineAssumption DEF Row
  <2>2. QED
    BY <1>3, <1>5, <2>1
<1>7. WorkOk(c, w)
  <2>1. DOMAIN w.new \cap Rejected = {}
    BY <1>3 DEF wanted
  <2>2. Single(w.new)
    BY <1>0, <1>1, <1>3 DEF TableInv, Single, Prior
  <2>3. NewOk(c, w.new)
    <3>1. wanted \subseteq Listed(c) /\ DOMAIN Prior(c) \cap Listed(c) \subseteq wanted
      BY <1>0, <1>1 DEF wanted, Listed, TableInv, Prior
    <3>2. QED
      BY <1>3, <2>1, <2>2, <3>1 DEF NewOk
  <2>4. \A i \in 1 .. Len(w.todo) : w.todo[i].key \notin DOMAIN w.new
    BY <1>3, <1>4 DEF TodoOk
  <2>5. w.drop \subseteq {Prior(c)[k] : k \in Stale(c, w.new)} \ {0}
    BY <1>3, <1>5
  <2>6. QED
    BY <2>3, <2>4, <2>5 DEF WorkOk
<1>8. Live => \A k \in DOMAIN w.new : Has(w.new[k], Group(c), k)
  <2>1. \A k : Kept(Group(c), k)
    BY <1>2 DEF Kept, Lone, Removing
  <2>2. Live => \A k \in DOMAIN Prior(c) : Has(Prior(c)[k], Group(c), k)
    BY <1>0, <1>1, <2>1 DEF EngineInv, Prior
  <2>3. QED
    BY <1>3, <2>2
<1>9. \A i : ~ InWork(c, i)
  BY <1>2 DEF InWork
<1>10. Ready(c, w)
  BY <1>2, <1>4, <1>6, <1>7, <1>8, <1>9 DEF Ready
<1>11. QED
  BY <1>10

\* And from what an answer leaves it.
LEMMA NextReady ==
    ASSUME Typed, Inv, TableHolds, NEW c \in Calls, plan[c].kind = "set", pc[c] = "answered",
           answer[c] = Closed => ask[c].verb # "set_breakpoint",
           leftover' = IF answer[c] = Failed /\ ask[c].verb # "set_breakpoint"
                       THEN leftover \cup {ask[c].id} ELSE leftover
    PROVE  Ready(c, NextWork(c))
<1>0. /\ PlanInv /\ TodoInv /\ NewInv /\ GivenInv /\ EngineInv /\ PoolInv
      /\ CallsTyped /\ TableTyped /\ SettingInv
  BY TypedParts DEF TableHolds
<1>1. Setter(c) /\ ask[c].verb \in {"set_breakpoint", "remove_breakpoint"}
  BY <1>0 DEF Setter, Sends, SettingInv
<1>2. TodoOk(c, work[c].todo) /\ WorkOk(c, work[c])
  BY <1>0, <1>1 DEF TodoInv, NewInv
<1>3. Live => \A k \in DOMAIN work[c].new : Has(work[c].new[k], Group(c), k)
  BY <1>0, <1>1 DEF EngineInv
<1> PICK w : w = NextWork(c)
  OBVIOUS
<1>4. CASE ask[c].verb = "remove_breakpoint"
  <2>1. Removing(c) /\ work[c].todo = <<>> /\ ~ Given(c)
    BY <1>0, <1>1, <1>4 DEF Removing, NewInv, Given
  <2>2. /\ w.todo = <<>> /\ w.new = work[c].new
        /\ w.drop = IF answer[c] = Closed THEN {} ELSE work[c].drop \ {ask[c].id}
    <3>1. /\ answer[c] = Closed =>
                w = [todo |-> work[c].todo, new |-> work[c].new, drop |-> {}]
          /\ answer[c] # Closed =>
                w = [todo |-> work[c].todo, new |-> work[c].new,
                     drop |-> work[c].drop \ {ask[c].id}]
      BY <1>0, <1>4, NextTyped
    <3>2. work[c].todo = <<>>
      BY <2>1
    <3>3. CASE answer[c] = Closed
      BY <3>1, <3>2, <3>3
    <3>4. CASE answer[c] # Closed
      BY <3>1, <3>2, <3>4
    <3>5. QED
      BY <3>3, <3>4
  <2>3. TodoOk(c, w.todo) /\ WorkOk(c, w)
    BY <1>2, <2>1, <2>2 DEF WorkOk
  <2>4. \A i : InWork(c, i) => \E k \in DOMAIN w.new : w.new[k] = i /\ Has(i, Group(c), k)
    BY <2>1, <2>2 DEF InWork
  <2>5. ASSUME Live, slot, thread = "serving", NEW k \in Stale(c, w.new),
               Prior(c)[k] \notin w.drop \cup leftover' \cup {0}
        PROVE  ~ Has(Prior(c)[k], Group(c), k)
    <3>1. answer[c] # Closed
      BY <1>0, <2>5 DEF PlanInv, Closed, Reply
    <3>2. Finished(c, Prior(c)[k])
      BY <1>4, <2>2, <2>5, <3>1 DEF Finished
    <3>3. Spare(Prior(c)[k]) \/ ~ Has(Prior(c)[k], Group(c), k)
      BY <1>0, <2>1, <2>2, <2>5, <3>2 DEF PoolInv
    <3>4. QED
      BY <2>5, <3>3 DEF Spare
  <2>6. Ready(c, w)
    BY <1>3, <2>1, <2>2, <2>3, <2>4, <2>5 DEF Ready
  <2>7. QED
    BY <2>6
<1>5. CASE ask[c].verb = "set_breakpoint"
  <2> DEFINE k0 == ask[c].place.key
             hit == answer[c].hit
             old == work[c].new
  <2>1. /\ work[c].todo # <<>> /\ work[c].todo \in Seq(Places) /\ k0 = work[c].todo[1].key
        /\ k0 \in Keys \ (Rejected \cup DOMAIN Prior(c)) /\ k0 \in Listed(c)
    BY <1>0, <1>1, <1>5, AskedPlace
  <2>2. /\ w.todo = Tail(work[c].todo) /\ w.drop = work[c].drop
        /\ w.new = IF answer[c].is = "ok" THEN Recorded(old, k0, hit) ELSE old
    <3>1. w = [todo |-> Tail(work[c].todo), drop |-> work[c].drop,
               new |-> IF answer[c].is = "ok" THEN Recorded(old, k0, hit) ELSE old]
      BY <1>0, <1>5, NextTyped
    <3> HIDE DEF k0, hit, old
    <3>2. QED
      BY <3>1
  <2>3. /\ TodoOk(c, w.todo)
        /\ \A i \in 1 .. Len(w.todo) :
              /\ w.todo[i].key # k0
              /\ \E j \in 1 .. Len(work[c].todo) : w.todo[i] = work[c].todo[j]
    <3> DEFINE todo == work[c].todo
    <3>1. todo \in Seq(Places) /\ todo # <<>> /\ TodoOk(c, todo) /\ k0 = todo[1].key
      BY <1>2, <2>1
    <3>2. w.todo = Tail(todo)
      BY <2>2
    <3> HIDE DEF todo, k0
    <3>3. /\ TodoOk(c, Tail(todo))
          /\ \A i \in 1 .. Len(Tail(todo)) : /\ Tail(todo)[i].key # todo[1].key
                                             /\ \E j \in 1 .. Len(todo) : Tail(todo)[i] = todo[j]
      BY <3>1, TailOk
    <3>4. /\ TodoOk(c, w.todo)
          /\ \A i \in 1 .. Len(w.todo) : /\ w.todo[i].key # k0
                                         /\ \E j \in 1 .. Len(todo) : w.todo[i] = todo[j]
      BY <3>1, <3>2, <3>3
    <3>5. QED
      BY <3>4 DEF todo
  <2>4. k0 \notin DOMAIN old
    <3>1. 1 \in 1 .. Len(work[c].todo)
      BY <2>1, HeadTail
    <3>2. QED
      BY <1>2, <2>1, <3>1 DEF WorkOk
  <2>5. ~ Removing(c) /\ \A k \in Stale(c, old) : Prior(c)[k] \in work[c].drop \cup {0}
    BY <1>0, <1>1, <1>5 DEF NewInv, Removing
  <2>6. CASE answer[c].is = "ok"
    <3>1. Given(c) /\ hit \in Ids
      BY <1>0, <1>5, <2>6 DEF Given, SettingInv, Sends
    <3>2. Row(old)
      BY <1>0 DEF TableTyped, Local, Row
    <3>3. /\ DOMAIN w.new = DOMAIN old \cup {k0} /\ w.new[k0] = hit
          /\ \A k \in DOMAIN old : w.new[k] = old[k]
      <4> HIDE DEF k0, hit, old
      <4>1. /\ DOMAIN w.new = DOMAIN old \cup {k0} /\ w.new[k0] = hit
            /\ \A k \in DOMAIN old \ {k0} : w.new[k] = old[k]
        <5>1. w.new = Recorded(old, k0, hit)
          BY <2>2, <2>6
        <5>2. k0 \in Keys
          BY <2>1
        <5>3. QED
          BY <3>1, <3>2, <5>1, <5>2, RecordedRow
      <4>2. QED
        BY <2>4, <4>1
    <3>4. /\ hit \notin Numbers(Prior(c)) /\ hit \notin Numbers(old)
          /\ Live => Has(hit, Group(c), k0)
      BY <1>0, <1>1, <3>1 DEF GivenInv, EngineInv
    <3>5. Stale(c, w.new) = Stale(c, old)
      BY <2>1, <3>3 DEF Stale
    <3>6. NewOk(c, w.new)
      <4>1. NewOk(c, old)
        BY <1>2 DEF WorkOk
      <4>2. Single(w.new)
        BY <3>3, <3>4, <4>1 DEF NewOk, Single, Numbers
      <4>3. QED
        BY <2>1, <3>3, <3>4, <4>1, <4>2 DEF NewOk
    <3>7. WorkOk(c, w)
      BY <1>2, <2>2, <2>3, <3>3, <3>5, <3>6 DEF WorkOk
    <3>8. Live => \A k \in DOMAIN w.new : Has(w.new[k], Group(c), k)
      BY <1>3, <3>3, <3>4
    <3>9. \A i : InWork(c, i) => \E k \in DOMAIN w.new : w.new[k] = i /\ Has(i, Group(c), k)
      BY <3>3 DEF InWork
    <3>10. Ready(c, w)
      BY <2>2, <2>3, <2>5, <3>5, <3>7, <3>8, <3>9 DEF Ready
    <3>11. QED
      BY <3>10
  <2>7. CASE answer[c].is # "ok"
    <3>1. w.new = old /\ ~ Given(c)
      BY <2>2, <2>7 DEF Given
    <3>2. WorkOk(c, w)
      BY <1>2, <2>2, <2>3, <3>1 DEF WorkOk
    <3>3. \A i : InWork(c, i) => \E k \in DOMAIN w.new : w.new[k] = i /\ Has(i, Group(c), k)
      BY <3>1 DEF InWork
    <3>4. Ready(c, w)
      BY <1>3, <2>2, <2>3, <2>5, <3>1, <3>2, <3>3 DEF Ready
    <3>5. QED
      BY <3>4
  <2>8. QED
    BY <2>6, <2>7
<1>6. QED
  BY <1>1, <1>4, <1>5

\* A setter that finds the thread dead while it sets gives up.
LEMMA GivesUpStep ==
    ASSUME Typed, Inv, TableHolds, NEW c \in Calls, CallSide(c), plan[c].kind = "set",
           GivesUp(c), UNCHANGED slot
    PROVE  Rest'
<1>0. /\ PlanInv /\ MutexInv /\ TodoInv /\ NewInv /\ GivenInv /\ TableInv /\ EngineInv
  BY DEF TableHolds
<1>1. /\ UNCHANGED <<plan, target, pool, thread, table, ask, work, leftover>>
      /\ \A d \in Calls \ {c} : pc'[d] = pc[d] /\ answer'[d] = answer[d]
  BY CallForms DEF GivesUp
<1>2. thread = "exited"
  BY <1>0 DEF GivesUp, PlanInv, Closed, Reply
<1>3. ~ Setter(c)' /\ ~ Launcher(c)' /\ ~ Removing(c)
  BY <1>1 DEF GivesUp, Setter, Launcher, Removing, Sends
<1>4. \A d \in Calls \ {c} : /\ Setter(d)' <=> Setter(d)
                             /\ Launcher(d)' <=> Launcher(d)
                             /\ Removing(d)' <=> Removing(d)
                             /\ Given(d)' <=> Given(d)
  BY <1>1 DEF Setter, Launcher, Removing, Sends, Given
<1>5. \A g, k, i : Has(i, g, k)' <=> Has(i, g, k)
  BY <1>1 DEF Has
<1>6. TodoInv'
  BY <1>0, <1>1, <1>3, <1>4 DEF TodoInv, TodoOk, Prior, Group, Listed
<1>7. NewInv'
  BY <1>0, <1>1, <1>3, <1>4 DEF NewInv, WorkOk, NewOk, Stale, Prior, Group, Listed
<1>8. GivenInv' /\ TableInv'
  BY <1>0, <1>1, <1>3, <1>4 DEF GivenInv, TableInv, Prior, Group
<1>9. EngineInv'
  <2> SUFFICES ASSUME Live' PROVE EngineInv'
    BY DEF EngineInv
  <2>1. Live
    BY <1>1 DEF Live
  <2>2. \A g \in Groups : \A k \in DOMAIN table[g] : Kept(g, k)' => Kept(g, k)
    BY <1>1, <1>3, <1>4 DEF Kept, Group
  <2>3. \A g \in Groups : \A k \in DOMAIN table[g] : Kept(g, k)' => Has(table[g][k], g, k)'
    BY <1>0, <1>1, <1>5, <2>1, <2>2 DEF EngineInv
  <2>4. \A d \in Calls \ {c} : Setter(d)' =>
           \A k \in DOMAIN work[d].new : Has(work[d].new[k], Group(d), k)'
    BY <1>0, <1>1, <1>4, <1>5, <2>1 DEF EngineInv, Group
  <2>5. \A d \in Calls \ {c} : (Setter(d)' \/ Launcher(d)') /\ Given(d)' =>
           Has(answer[d].hit, Group(d), ask[d].place.key)'
    BY <1>0, <1>1, <1>4, <1>5, <2>1 DEF EngineInv, Group
  <2>6. QED
    BY <1>1, <1>3, <2>3, <2>4, <2>5 DEF EngineInv
<1>10. PoolInv'
  BY <1>1, <1>2 DEF PoolInv
<1>11. QED
  BY <1>6, <1>7, <1>8, <1>9, <1>10 DEF Rest

\* A request is the only one about its group, if the client is careful.
LEMMA SetterLone ==
    ASSUME Typed, Inv, MutexInv, Careful, NEW c \in Calls, plan[c].kind = "set",
           \/ pc[c] = "start" /\ phase = "stopped" /\ BeginSet(c)
           \/ pc[c] = "answered"
    PROVE  Lone(c)
<1>1. CASE pc[c] = "start" /\ phase = "stopped" /\ BeginSet(c)
  <2>1. PICK e \in Calls : plan[e].kind \in Connecting /\ pc[e] = "done"
    BY <1>1 DEF Inv, ConnectInv, SomeConnected
  <2>2. \A d \in Calls : ~ Launcher(d)
    BY <2>1 DEF Inv, ConnectInv, Launcher, Sends, Begun, Connecting
  <2>3. \A d \in Calls : Setter(d) => Group(d) # Group(c)
    BY <1>1 DEF BeginSet, Setter, Sends, InFlight, Group
  <2>4. QED
    BY <2>2, <2>3 DEF Lone
<1>2. CASE pc[c] = "answered"
  <2>1. Setter(c)
    BY <1>2 DEF Setter, Sends
  <2>2. QED
    BY <2>1, SetterAlone DEF Lone, MutexInv
<1>3. QED
  BY <1>1, <1>2

\* A setter steps.
LEMMA SetterStep ==
    ASSUME Typed, Inv, NoRepeats, Careful, TableHolds, NEW c \in Calls, CallSide(c),
           BeginSet(c) \/ SetAnswered(c)
    PROVE  Rest'
<1>0. MutexInv /\ plan[c].kind = "set" /\ UNCHANGED slot
  BY SetterForms DEF TableHolds
<1>1. CASE /\ pc[c] = "start" /\ phase = "stopped" /\ BeginSet(c)
           /\ GoesOn(c, FirstWork(c)) /\ UNCHANGED leftover
  <2>1. Lone(c)
    BY <1>0, <1>1, SetterLone
  <2>2. Ready(c, FirstWork(c))
    BY <1>0, <1>1, <2>1, FirstReady
  <2>3. QED
    BY <1>0, <1>1, <2>1, <2>2, GoesOnStep
<1>2. CASE GivesUp(c)
  BY <1>0, <1>2, GivesUpStep
<1>3. CASE /\ pc[c] = "answered"
           /\ answer[c] = Closed => ask[c].verb # "set_breakpoint"
           /\ GoesOn(c, NextWork(c))
           /\ leftover' = IF answer[c] = Failed /\ ask[c].verb # "set_breakpoint"
                          THEN leftover \cup {ask[c].id} ELSE leftover
  <2>1. Lone(c)
    BY <1>0, <1>3, SetterLone
  <2>2. Ready(c, NextWork(c))
    BY <1>0, <1>3, NextReady
  <2>3. leftover \subseteq leftover'
    BY <1>3
  <2>4. QED
    BY <1>0, <1>3, <2>1, <2>2, <2>3, GoesOnStep
<1>4. QED
  BY <1>1, <1>2, <1>3, SetterForms

\* The table holds at the start.
LEMMA TableInit ==
    ASSUME Init
    PROVE  TableHolds
<1>1. \A c \in Calls : pc[c] = "start"
  BY DEF Init
<1>2. \A g \in Groups : DOMAIN table[g] = {}
  BY DEF Init
<1>3. DOMAIN pool = {}
  BY DEF Init, EngineInit
<1>4. \A c \in Calls : ~ Setter(c) /\ ~ Launcher(c) /\ ~ Removing(c)
  BY <1>1 DEF Setter, Launcher, Removing, Sends
<1>5. PlanInv
  BY <1>1 DEF Init, PlanInv
<1>6. OriginInv
  BY <1>2, <1>3 DEF OriginInv
<1>7. MutexInv /\ TodoInv /\ NewInv /\ GivenInv
  BY <1>4 DEF MutexInv, TodoInv, NewInv, GivenInv
<1>8. TableInv /\ EngineInv
  BY <1>2, <1>4 DEF TableInv, Single, EngineInv
<1>9. PoolInv
  BY <1>3, <1>4 DEF PoolInv
<1>10. QED
  BY <1>5, <1>6, <1>7, <1>8, <1>9 DEF TableHolds

\* And every step keeps it so.
LEMMA TableStep ==
    ASSUME Typed, Inv, NoRepeats, Careful, TableHolds, [Next]_vars
    PROVE  TableHolds'
<1>1. PlanInv' /\ OriginInv' /\ MutexInv'
  BY PlanStep, OriginStep, MutexStep DEF TableHolds
<1>2. Rest'
  <2>1. CASE UNCHANGED vars \/ Connected \/ ConnectFails \/ EngineOutput \/ StreamPoll
    <3>1. /\ UNCHANGED <<plan, pc, ask, answer, work, leftover, table, target, pool, thread>>
          /\ slot' => slot
      BY <2>1, OtherForms
    <3>2. Quietly
      BY <3>1 DEF Quietly, Live
    <3>3. QED
      BY <1>1, <3>1, <3>2, QuietStep
  <2>2. CASE EngineSide
    <3>1. /\ UNCHANGED <<plan, ask, work, table, leftover, slot>>
          /\ thread = "exited" => thread' = "exited"
          /\ \A c \in Calls : \/ pc'[c] = pc[c] /\ answer'[c] = answer[c]
                              \/ pc[c] = "await" /\ pc'[c] = "answered"
          /\ Quietly \/ \E c \in Calls : SetsOne(c) \/ RemovesOne(c)
      BY <2>2, EngineForms
    <3>2. CASE Quietly
      BY <1>1, <3>1, <3>2, QuietStep
    <3>3. ASSUME NEW c \in Calls, SetsOne(c)
          PROVE  Rest'
      BY <3>1, <3>3, SetsStep
    <3>4. ASSUME NEW c \in Calls, RemovesOne(c)
          PROVE  Rest'
      BY <3>1, <3>4, RemovesStep
    <3>5. QED
      BY <3>1, <3>2, <3>3, <3>4
  <2>3. ASSUME NEW c \in Calls, CallSide(c)
        PROVE  Rest'
    <3>1. CASE Aside(c)
      BY <2>3, <3>1, AsideStep
    <3>2. CASE Launches(c)
      BY <2>3, <3>2, LaunchesStep
    <3>3. CASE Submits(c)
      BY <2>3, <3>3, SubmitsStep
    <3>4. CASE Flush(c)
      BY <2>3, <3>4, FlushStep
    <3>5. CASE BeginSet(c) \/ SetAnswered(c)
      BY <2>3, <3>5, SetterStep
    <3>6. QED
      BY <2>3, <3>1, <3>2, <3>3, <3>4, <3>5, CallForms
  <2>4. QED
    BY <2>1, <2>2, <2>3, Sides
<1>3. QED
  BY <1>1, <1>2 DEF TableHolds, Rest

\* A careful client that repeats no location finds the table as it should be.
LEMMA TableAlways ==
    ASSUME Careful, NoRepeats
    PROVE  Spec => []TableHolds
<1>1. Init => TableHolds
  BY TableInit
<1>2. Typed /\ Inv /\ TableHolds /\ [Next]_vars => TableHolds'
  BY TableStep
<1>3. QED
  BY <1>1, <1>2, TypedAlways, InvAlways, PTL DEF Spec

\* Between set requests, for a careful client whose lists repeat no location, what
\* set_source_breakpoints, set_function_breakpoints and launch's flush track is what
\* DbgEng has: EngineMatchesTable is an invariant.
THEOREM TableMatches ==
    ASSUME Careful, NoRepeats
    PROVE  Spec => []EngineMatchesTable
<1>1. Typed /\ TableHolds => EngineMatchesTable
  <2> SUFFICES ASSUME Typed, TableHolds, Active({"launch", "set"}) = {}, slot,
                      thread = "serving", target = "break"
               PROVE  /\ \A g \in Groups : \A k \in DOMAIN table[g] :
                            table[g][k] \in DOMAIN pool /\ pool[table[g][k]] = Place(g, k)
                      /\ \A i \in DOMAIN pool \ (leftover \cup {0}) :
                            \/ pool[i] = Unreported
                            \/ \E g \in Groups : \E k \in DOMAIN table[g] : table[g][k] = i
    BY DEF EngineMatchesTable
  <2>1. \A c \in Calls : ~ Setter(c) /\ ~ Launcher(c)
    BY DEF Active, Setter, Launcher, Sends, InFlight
  <2>2. Live /\ EngineInv /\ PoolInv
    BY DEF Live, TableHolds
  <2>3. \A g, k : Kept(g, k)
    BY <2>1 DEF Kept, Removing
  <2>4. \A g \in Groups : \A k \in DOMAIN table[g] : Has(table[g][k], g, k)
    BY <2>2, <2>3 DEF EngineInv
  <2>5. \A i \in DOMAIN pool : Spare(i) \/ pool[i] = Unreported \/ InTable(i)
    BY <2>1, <2>2 DEF PoolInv, Tracked, InWork
  <2>6. QED
    BY <2>4, <2>5 DEF Has, Spare, InTable
<1>2. QED
  BY <1>1, TypedAlways, TableAlways, PTL

\* A new row for a group is what ReplaceAll allows it to have.
LEMMA RowBecomes ==
    ASSUME Typed, NEW g \in Groups, NEW now, Row(now), Single(now),
           \A k \in DOMAIN now : IF k \in DOMAIN table[g] THEN now[k] = table[g][k]
                                                          ELSE now[k] \notin Numbers(table[g]),
           table' = [table EXCEPT ![g] = now]
    PROVE  Abstract!Becomes(g, DOMAIN now)
<1>1. now \in [DOMAIN now -> Ids]
  BY DEF Row
<1>2. \A k \in DOMAIN now : IF k \in DOMAIN table[g] THEN now[k] = table[g][k]
                                                     ELSE now[k] \notin Abstract!Had(g)
  BY DEF Numbers, Abstract!Had
<1>3. \A k, l \in DOMAIN now : now[k] = now[l] => k = l
  BY DEF Single
<1>4. QED
  BY <1>1, <1>2, <1>3 DEF Abstract!Becomes

\* What ReplaceAll sees of the calls: those that are not over, with their lists.
LEMMA RequestsOf ==
    ASSUME NEW c \in Calls, pc[c] \notin {"done", "gone"}
    PROVE  /\ c \in DOMAIN Requests
           /\ Requests[c].kind = plan[c].kind
           /\ Requests[c].group = Group(c)
           /\ Requests[c].keys = Listed(c)
           /\ pc'[c] = "done" => c \notin DOMAIN Requests'
BY DEF Requests, Group, Listed

\* A step that replaces a row of the table, or none.
LEMMA ReplacesStep ==
    ASSUME Typed, Inv, NoRepeats, Careful, TableHolds, [Next]_vars
    PROVE  [Abstract!Next]_table
<1>0. TableTyped /\ CallsTyped /\ MutexInv /\ TableInv
  BY TypedParts DEF TableHolds
<1>1. CASE UNCHANGED vars \/ Connected \/ ConnectFails \/ EngineOutput \/ StreamPoll
  BY <1>1, OtherForms
<1>2. CASE EngineSide
  BY <1>2, EngineForms
<1>3. ASSUME NEW c \in Calls, CallSide(c)
      PROVE  [Abstract!Next]_table
  <2>0. Group(c) \in Groups
    BY <1>0 DEF CallsTyped, Ops, Group
  <2>1. CASE Aside(c) \/ Launches(c) \/ Submits(c)
    BY <2>1 DEF Aside, Launches, Submits
  <2>2. CASE Flush(c)
    <3>1. CASE ~ Given(c)
      BY <2>2, <3>1, FlushForms
    <3>2. CASE Given(c)
      <4> DEFINE k0 == ask[c].place.key
                 hit == answer[c].hit
                 now == Recorded(Prior(c), k0, hit)
      <4>1. table' = [table EXCEPT ![Group(c)] = now]
        BY <2>2, <3>2, FlushForms, FlushGiven DEF Prior
      <4>2. /\ k0 \in Keys /\ k0 \notin Rejected /\ k0 \notin DOMAIN Prior(c)
            /\ hit \in Ids /\ hit \notin Numbers(Prior(c))
        BY <2>2, <3>2, FlushGiven
      <4>0. k0 \in Listed(c)
        BY <2>2, <3>2, FlushGiven
      <4>3. Row(Prior(c)) /\ Single(Prior(c))
        BY <1>0, <2>0 DEF TableTyped, TableInv, Prior
      <4> HIDE DEF k0, hit
      <4>4. /\ Row(now) /\ DOMAIN now = DOMAIN Prior(c) \cup {k0} /\ now[k0] = hit
            /\ \A k \in DOMAIN Prior(c) \ {k0} : now[k] = Prior(c)[k]
        BY <4>2, <4>3, RecordedRow
      <4> HIDE DEF now
      <4>5. Single(now)
        BY <4>2, <4>3, <4>4 DEF Single, Numbers
      <4>6. \A k \in DOMAIN now : IF k \in DOMAIN table[Group(c)]
                                  THEN now[k] = table[Group(c)][k]
                                  ELSE now[k] \notin Numbers(table[Group(c)])
        BY <4>2, <4>4 DEF Prior
      <4>7. Abstract!Becomes(Group(c), DOMAIN table[Group(c)] \cup {k0})
        <5>1. Abstract!Becomes(Group(c), DOMAIN now)
          BY <2>0, <4>1, <4>4, <4>5, <4>6, RowBecomes
        <5>2. DOMAIN now = DOMAIN table[Group(c)] \cup {k0}
          BY <4>4 DEF Prior
        <5>3. QED
          BY <5>1, <5>2
      <4>8. plan[c].kind = "launch" /\ pc[c] = "answered"
        BY <2>2, FlushForms
      <4>9. Abstract!Add(Requests[c])
        <5>1. /\ Requests[c].kind = "launch" /\ Requests[c].group = Group(c)
              /\ Requests[c].keys = Listed(c)
          BY <4>8, RequestsOf
        <5>2. k0 \in Listed(c) \ (Rejected \cup DOMAIN table[Group(c)])
          BY <4>0, <4>2 DEF Prior
        <5>3. QED
          BY <4>7, <5>1, <5>2 DEF Abstract!Add
      <4>10. QED
        BY <4>8, <4>9, RequestsOf DEF Abstract!Next
    <3>3. QED
      BY <3>1, <3>2
  <2>3. CASE BeginSet(c) \/ SetAnswered(c)
    <3>1. ASSUME NEW w, GoesOn(c, w), Ready(c, w), plan[c].kind = "set",
                 pc[c] \in {"start", "answered"}
          PROVE  [Abstract!Next]_table
      <4>1. CASE UNCHANGED table
        BY <4>1
      <4>2. CASE pc'[c] = "done" /\ table' = [table EXCEPT ![Group(c)] = w.new]
        <5>1. NewOk(c, w.new)
          BY <3>1 DEF Ready, WorkOk
        <5>2. Row(w.new)
          BY <3>1 DEF GoesOn, Local, Row
        <5>3. Abstract!Becomes(Group(c), DOMAIN w.new)
          BY <2>0, <4>2, <5>1, <5>2, RowBecomes DEF NewOk, Prior
        <5>4. /\ DOMAIN w.new \in SUBSET (Listed(c) \ Rejected)
              /\ DOMAIN table[Group(c)] \cap Listed(c) \subseteq DOMAIN w.new
          BY <5>1 DEF NewOk, Prior
        <5>5. Abstract!Replace(Requests[c])
          <6>1. /\ Requests[c].kind = "set" /\ Requests[c].group = Group(c)
                /\ Requests[c].keys = Listed(c)
            BY <3>1, RequestsOf
          <6>2. QED
            BY <5>3, <5>4, <6>1 DEF Abstract!Replace
        <5>6. QED
          BY <3>1, <4>2, <5>5, RequestsOf DEF Abstract!Next
      <4>3. QED
        BY <3>1, <4>1, <4>2 DEF GoesOn
    <3>2. CASE /\ pc[c] = "start" /\ phase = "stopped" /\ BeginSet(c)
               /\ GoesOn(c, FirstWork(c))
      <4>1. plan[c].kind = "set"
        BY <2>3, SetterForms
      <4>2. Ready(c, FirstWork(c))
        BY <1>0, <3>2, <4>1, SetterLone, FirstReady
      <4>3. QED
        BY <3>1, <3>2, <4>1, <4>2
    <3>3. CASE GivesUp(c)
      BY <3>3 DEF GivesUp
    <3>4. CASE /\ pc[c] = "answered"
               /\ answer[c] = Closed => ask[c].verb # "set_breakpoint"
               /\ GoesOn(c, NextWork(c))
               /\ leftover' = IF answer[c] = Failed /\ ask[c].verb # "set_breakpoint"
                              THEN leftover \cup {ask[c].id} ELSE leftover
      <4>1. plan[c].kind = "set"
        BY <2>3, SetterForms
      <4>2. Ready(c, NextWork(c))
        BY <3>4, <4>1, NextReady
      <4>3. QED
        BY <3>1, <3>4, <4>1, <4>2
    <3>5. QED
      BY <2>3, <3>2, <3>3, <3>4, SetterForms
  <2>4. QED
    BY <1>3, <2>1, <2>2, <2>3, CallForms
<1>4. QED
  BY <1>1, <1>2, <1>3, Sides

\* For a careful client whose lists repeat no location, the several commands of a set
\* request, and launch's flush, are to their reader one replacement of the group's
\* breakpoints: WinDbgBackend implements ReplaceAll.
THEOREM Reconciles ==
    ASSUME Careful, NoRepeats
    PROVE  Spec => ReplacesAll
<1>1. Init => Abstract!Init
  BY DEF Init, Abstract!Init
<1>2. Typed /\ Inv /\ TableHolds /\ [Next]_vars => [Abstract!Next]_table
  BY ReplacesStep
<1>3. QED
  BY <1>1, <1>2, TypedAlways, InvAlways, TableAlways, PTL DEF Spec, ReplacesAll, Abstract!Spec

=============================================================================
