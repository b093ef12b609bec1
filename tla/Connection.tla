---------------------------- MODULE Connection ----------------------------
(***************************************************************************)
(* What the connection to a debug adapter promises those who use it.  A    *)
(* call that has been sent gets its own answer or, if it is still waiting  *)
(* when the stream breaks, the closed notice, once and nothing after it.   *)
(* Of those who wait for a stop the last hears the next one.  When the     *)
(* stream breaks, whoever waited is told, calls before stops, and the      *)
(* end of the session is announced last, once, with the exit if one was    *)
(* known by then.                                                          *)
(***************************************************************************)
CONSTANTS
    Calls,      \* requests
    Waits,      \* waits for a stop
    Nothing,    \* a call has not heard anything
    Answer(_),  \* the answer to a call
    Closed      \* the notice that there will be none

VARIABLES
    at,         \* where each call is
    got,        \* what has been delivered to each call
    stage,      \* of the stream: "open", then the steps of its end
    doomed,     \* the calls to be told that the stream is broken
    heard,      \* what each wait for a stop has heard
    exitKnown,  \* the debuggee's exit has been seen
    ended       \* the announcement of the end, with an exit code or without

vars == <<at, got, stage, doomed, heard, exitKnown, ended>>
streamVars == <<stage, heard, exitKnown, ended>>

Init ==
    /\ at = [c \in Calls |-> "idle"]
    /\ got = [c \in Calls |-> Nothing]
    /\ stage = "open"
    /\ doomed = {}
    /\ heard = [w \in Waits |-> "idle"]
    /\ exitKnown = FALSE
    /\ ended = "unfired"

-----------------------------------------------------------------------------
(* Calls *)

Go(c, from, to) ==
    /\ at[c] \in from
    /\ at' = [at EXCEPT ![c] = to]
    /\ UNCHANGED <<got, streamVars>>

Begin(c) == Go(c, {"idle"}, "writing") /\ UNCHANGED doomed
Send(c) == Go(c, {"writing"}, "waiting") /\ UNCHANGED doomed
Return(c) == got[c] # Nothing /\ Go(c, {"waiting"}, "returned") /\ UNCHANGED doomed

\* A call that is over is not told any more.
Fail(c) == Go(c, {"writing"}, "failed") /\ doomed' = doomed \ {c}
Drop(c) == Go(c, {"writing", "waiting"}, "dropped") /\ doomed' = doomed \ {c}

Answered(c) ==
    /\ stage = "open" /\ at[c] = "waiting" /\ got[c] = Nothing
    /\ got' = [got EXCEPT ![c] = Answer(c)]
    /\ UNCHANGED <<at, doomed, streamVars>>

-----------------------------------------------------------------------------
(* Waits for a stop *)

Tell(outcome) == heard' = [w \in Waits |-> IF heard[w] = "waiting" THEN outcome ELSE heard[w]]

\* Whoever waited is replaced.
Wait(w) ==
    /\ heard[w] = "idle"
    /\ heard' = [v \in Waits |-> CASE v = w -> "waiting"
                                   [] v # w /\ heard[v] = "waiting" -> "replaced"
                                   [] OTHER -> heard[v]]
    /\ UNCHANGED <<at, got, stage, doomed, exitKnown, ended>>

StopWaiting(w) ==
    /\ heard[w] = "waiting"
    /\ heard' = [heard EXCEPT ![w] = "abandoned"]
    /\ UNCHANGED <<at, got, stage, doomed, exitKnown, ended>>

\* An exit is known before it is told, and the end announced before it is told.
Hear(outcome) ==
    /\ stage = "open"
    /\ outcome = "exited" => exitKnown
    /\ outcome = "terminated" => ended # "unfired"
    /\ Tell(outcome)
    /\ UNCHANGED <<at, got, stage, doomed, exitKnown, ended>>

-----------------------------------------------------------------------------
(* The stream *)

Exit ==
    /\ stage = "open"
    /\ exitKnown' = TRUE
    /\ UNCHANGED <<at, got, stage, doomed, heard, ended>>

\* The first announcement stands.
Announce == ended' = IF ended # "unfired" THEN ended ELSE IF exitKnown THEN "code" ELSE "no_code"

Terminated == stage = "open" /\ Announce /\ UNCHANGED <<at, got, stage, doomed, heard, exitKnown>>

\* Every call under way that has heard nothing is to be told.
Break ==
    /\ stage = "open" /\ stage' = "broken"
    /\ doomed' = {c \in Calls : at[c] \in {"writing", "waiting"} /\ got[c] = Nothing}
    /\ UNCHANGED <<at, got, heard, exitKnown, ended>>

TellCalls ==
    /\ stage = "broken" /\ stage' = "calls_told"
    /\ got' = [c \in Calls |-> IF c \in doomed THEN Closed ELSE got[c]]
    /\ doomed' = {}
    /\ UNCHANGED <<at, heard, exitKnown, ended>>

TellWaits ==
    /\ stage = "calls_told" /\ stage' = "waits_told"
    /\ Tell("terminated")
    /\ UNCHANGED <<at, got, doomed, exitKnown, ended>>

End ==
    /\ stage = "waits_told" /\ stage' = "over"
    /\ Announce
    /\ UNCHANGED <<at, got, doomed, heard, exitKnown>>

-----------------------------------------------------------------------------
Next ==
    \/ \E c \in Calls : Begin(c) \/ Send(c) \/ Answered(c) \/ Return(c) \/ Fail(c) \/ Drop(c)
    \/ \E w \in Waits : Wait(w) \/ StopWaiting(w)
    \/ \E outcome \in {"stopped", "exited", "terminated"} : Hear(outcome)
    \/ Exit \/ Terminated \/ Break \/ TellCalls \/ TellWaits \/ End

Spec == Init /\ [][Next]_vars

=============================================================================
