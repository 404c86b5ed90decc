---------------------------- MODULE MCWatchRunner ----------------------------
(* Small instances of WatchRunner. *)
EXTENDS WatchRunner, TLC

CONSTANTS r1, r2

Site(fleet, lease, execution, kills) ==
    [runners |-> fleet, lease |-> lease, execution |-> execution, crashes |-> kills]

\* Two runners and generous timers; one that may crash, and a lease it loses.
AllSites == {Site({r1, r2}, 4, 5, 0), Site({r1}, 2, 4, 1)}
=============================================================================
