------------------------- MODULE MCDaemonLifecycle -------------------------
(* Small instances of DaemonLifecycle. *)
EXTENDS DaemonLifecycle, TLC

CONSTANTS c1, c2

Site(overlap, crashes, slow, reuse, ownership, foreign, pids) ==
    [overlap |-> overlap, crashes |-> crashes, slow |-> slow, reuse |-> reuse,
     ownership |-> ownership, foreign |-> foreign, pids |-> pids]

\* One command at a time on a busy default port with a slow server; two at the
\* same time where ps may fail; two that may be killed; two of the Windows build.
AllSites == {Site(FALSE, FALSE, TRUE, TRUE, "exact", {1}, {1, 2}),
             Site(TRUE, FALSE, FALSE, FALSE, "failing", {}, {1, 2}),
             Site(TRUE, TRUE, FALSE, TRUE, "failing", {}, {1}),
             Site(TRUE, FALSE, FALSE, FALSE, "probe", {}, {1})}
OverlapSites == {Site(TRUE, FALSE, FALSE, FALSE, "exact", {}, {1, 2})}

\* One command at a time with a slow server that its command line does not tell:
\* here OneServer does not hold without its premise.
UnownedSites == {Site(FALSE, FALSE, TRUE, FALSE, o, {}, {1, 2}) : o \in {"failing", "probe"}}
=============================================================================
