------------------------- MODULE MCDetectiveJournal -------------------------
(* Small instances of DetectiveJournal. *)
EXTENDS DetectiveJournal, TLC

CONSTANTS p1, p2, archive, direct, confirm, confirm2, action, run, aiRun, incident, restore, native

KindOf == (archive :> "action") @@ (direct :> "direct") @@ (confirm :> "confirm")
          @@ (confirm2 :> "confirm") @@ (action :> "action") @@ (run :> "run")
          @@ (aiRun :> "ai-run") @@ (incident :> "incident") @@ (restore :> "restore")
          @@ (native :> "native")
Site(procs, ops, legacy) == [procs |-> procs, ops |-> ops, legacy |-> legacy]

\* Two callers, one of them with a second section.
Overlap == {Site({p1, p2}, {action, confirm}, "none")}

\* One caller, and calls that do not reconcile.
Unreconciled == {Site({p1}, {restore, confirm}, "written"), Site({p1}, {native, confirm}, "none")}

AllSites == Overlap \cup Unreconciled
            \cup {Site({p1}, {direct, action, run, aiRun, incident}, "none"),
                  Site({p1, p2}, {direct, confirm, confirm2}, "none"),
                  Site({p1, p2}, {run, confirm}, "none"), Site({p1, p2}, {incident, direct}, "none"),
                  Site({p1, p2}, {aiRun, action}, "none"),
                  Site({p1, p2}, {direct, confirm}, "written"), Site({p1}, {run, action}, "written"),
                  Site({p1}, {direct, confirm}, "prepared"),
                  Site({p1, p2}, {restore, run}, "done"), Site({p1, p2}, {native, restore}, "written")}
=============================================================================
