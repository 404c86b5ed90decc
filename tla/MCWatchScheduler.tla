-------------------------- MODULE MCWatchScheduler --------------------------
(* Small instances of WatchScheduler. *)
EXTENDS WatchScheduler, TLC

CONSTANTS w1, w2, r1, r2, k1, k2, f1, f2

Policy(mode, trigger, initial, cooldown, requires) ==
    [mode |-> mode, trigger |-> trigger, initial |-> initial, recovery |-> TRUE,
     cooldown |-> cooldown, interval |-> 1, requires |-> requires]

Continuous == Policy("continuous", "changes", "notify", 2, {})
OneShot == Policy("one_shot", "becomes_true", "baseline", 0, {})
Guarded == Policy("continuous", "becomes_false", "baseline", 0, {"vpn"})

Quiet == Policy("continuous", "becomes_false", "baseline", 0, {})

Result(status, outcome, fp) == [status |-> status, outcome |-> outcome, fp |-> fp]
Pass == Result("completed", "pass", f1)
Fail == Result("completed", "fail", f1)
Changed == Result("completed", "fail", f2)
Failure == Result("error", "unknown", NoFingerprint)
Blank == Result("completed", "unknown", f1)
PassOrError == {Pass, Failure}
PassOnly == {Pass}
PassFailError == {Pass, Fail, Failure}
AnyResult == {Pass, Fail, Changed, Failure, Blank}

QuietOnly == {Quiet}
ContinuousOnly == {Continuous}
OpenAndGuarded == {OneShot, Guarded}
BothModes == {Continuous, OneShot}
AnyPolicy == BothModes \cup {Guarded}
NoGrants == [r \in Runners |-> {}]
OneGrant == [r \in Runners |-> IF r = r2 THEN {"vpn"} ELSE {}]
Doubling == [n \in 0 .. MaxAttempts |-> 2^n]

Existing == {w \in Watches : defs[w].lifecycle # "absent"}

\* Either every kind of policy and result on the first Watch, or both Watches,
\* the requirements of the first changing, and the plainest results.
EvidenceOrFleet ==
    \/ Existing \subseteq {w1} /\ \A w \in Existing : defs[w].policy \in BothModes
    \/ /\ \A w \in Existing : defs[w].policy \in OpenAndGuarded /\ defs[w].check = k1
       /\ \A i \in DOMAIN runs : runs[i].hash \in PassOnly \cup {NoCompletion}
       /\ defs[w2].version =< 1 /\ now =< 2

RunnerSymmetry == Permutations(Runners)
=============================================================================
