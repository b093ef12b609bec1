---------------------------- MODULE MCDapClient ----------------------------
(* Small instances of DapClient. *)
EXTENDS DapClient, TLC

CONSTANTS c1, c2, w1, w2

\* Two overlapping calls, a send and the launch or attach request, sent with
\* send_async or with send_and_await_both, with one event and one registration.
TwoCalls == {(c1 :> "send") @@ (c2 :> k) : k \in {"async", "both"}}

\* No call, but two registrations for a stop and three events.
NoCalls == [c \in {c1, c2} |-> "none"]

CallsOrStops == TwoCalls \cup {NoCalls}

\* The launch request alone.
OneLaunch == {(c1 :> "async")}

Small == [events |-> 1, waits |-> {w1}]
CallsOrStopsBudget == [k \in CallsOrStops |-> IF k = NoCalls
                                              THEN [events |-> 3, waits |-> {w1, w2}] ELSE Small]
OneLaunchBudget == [k \in OneLaunch |-> Small]

=============================================================================
