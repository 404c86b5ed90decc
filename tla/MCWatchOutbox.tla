---------------------------- MODULE MCWatchOutbox ----------------------------
(* Small instances of WatchOutbox. *)
EXTENDS WatchOutbox, TLC

CONSTANTS u1, e1, e2, e3, a1, a2, s1, s2

Doubling == [n \in 0 .. MaxAttempts |-> 2^n]

\* Two coordinators whose acknowledgements may be late or lost.
TwoCoordinators ==
    [channels |-> {"sms"}, senders |-> {s1, s2}, addresses |-> {a1, a2},
     events |-> {e1}, past |-> {}, daily |-> 1, prompt |-> FALSE, until |-> 3, maxFence |-> 5]

\* A prompt one, against limits another Watch has partly used up.
PromptCoordinator ==
    [channels |-> {"email"}, senders |-> {s1}, addresses |-> {a1},
     events |-> {e1, e2, e3}, past |-> {e1}, daily |-> 2, prompt |-> TRUE, until |-> 8,
     maxFence |-> 3]

\* The bell of the app, which needs no provider.
BellOnly ==
    [channels |-> {"in_app"}, senders |-> {s1}, addresses |-> {a1}, events |-> {e1, e2, e3},
     past |-> {}, daily |-> 1, prompt |-> TRUE, until |-> 9, maxFence |-> 1]

AllSites == {TwoCoordinators, PromptCoordinator, BellOnly}
=============================================================================
