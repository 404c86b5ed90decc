-------------------------- MODULE DetectiveJournal --------------------------
(***************************************************************************)
(* The write-ahead journals of pkg/detective around one Case file:         *)
(* ExecuteAction and executeRunAction (action.go), ConfirmCase             *)
(* (ai_confirm.go), ConfirmRun (ai_run.go), the incident operations        *)
(* (incident.go), the direct mutations (mutations.go), and the             *)
(* reconciliation each of these starts with (journal_reconcile.go); and    *)
(* two that do not reconcile, RestoreVisibilityCase (visibility_restore.go)*)
(* and ExecuteNativePin (native_action.go).                                *)
(*                                                                         *)
(* Sections under the project lock are split into the file writes they     *)
(* make: a write may fail and a process may be killed between any two.     *)
(* What an operation does to the Case is that its name is appended; the    *)
(* Case's version is the length.  An operation and its caller's retries    *)
(* have one name, which is the operation id.                               *)
(***************************************************************************)
EXTENDS Integers, Sequences, FiniteSets

CONSTANTS
    Procs,             \* callers on one project directory: commands, or requests
                       \* a server handles at the same time
    Ops,               \* operation ids
    Kind,              \* what each operation is
    LegacyArchive,     \* the update by which an earlier version archived the Case
    NoProc, NoOp,
    Sites,             \* [procs, ops, legacy]: who runs what together, on what Case
    MaxStarts          \* bound: calls, the retries included

Kinds == {"direct", "confirm", "action", "run", "ai-run", "incident", "restore", "native"}

\* How far an earlier version came with archiving the Case: not at all, journaled,
\* written to the Case, or done.
LegacyStates == {"none", "prepared", "written", "done"}

\* ExecuteAction no longer takes such an update: nobody calls LegacyArchive.
ASSUME JournalAssumption ==
    /\ Kind \in [Ops -> Kinds] /\ LegacyArchive \in Ops /\ Kind[LegacyArchive] = "action"
    /\ \A s \in Sites : /\ s.procs \subseteq Procs /\ IsFiniteSet(s.procs)
                        /\ s.ops \subseteq Ops /\ LegacyArchive \notin s.ops
                        /\ s.legacy \in LegacyStates
    /\ NoProc \notin Procs
    /\ MaxStarts \in Nat

VARIABLES
    site,              \* never changes
    case,              \* cases/<id>.json: the operations applied to it
    journal,           \* *-operations/<id>.json
    audit,             \* the audit log, in order
    lock,              \* the project lock
    proc,              \* what each caller is doing
    acked,             \* operations some caller was told are done
    starts

vars == <<site, case, journal, audit, lock, proc, acked, starts>>

\* pc: idle; reconcile, own, write (with the lock); away (between two sections)
Idle == [pc |-> "idle", op |-> NoOp, seen |-> 0, section |-> 1]

Init ==
    /\ site \in Sites
    /\ case = IF site.legacy \in {"written", "done"} THEN <<LegacyArchive>> ELSE <<>>
    /\ audit = IF site.legacy = "done" THEN <<<<LegacyArchive, "case">>>> ELSE <<>>
    /\ journal = [o \in IF site.legacy = "none" THEN {} ELSE {LegacyArchive} |->
                    [produced |-> TRUE, done |-> site.legacy = "done", linked |-> "yes",
                     started |-> TRUE, before |-> <<>>, after |-> <<LegacyArchive>>]]
    /\ lock = NoProc
    /\ proc = [p \in Procs |-> Idle]
    /\ acked = {} /\ starts = 0
-----------------------------------------------------------------------------
Appended(log, x) == \E i \in DOMAIN log : log[i] = x

Archived == /\ Appended(case, LegacyArchive)
            /\ \A o \in Ops : Kind[o] = "restore" => ~Appended(case, o)

IsRun(o) == Kind[o] \in {"run", "ai-run", "native"}
Reconciles(o) == Kind[o] \notin {"restore", "native"}

\* accepted: only the receipt; produced: the result or the images, too.  The
\* evaluation of a native run is started by a write of its own.
Accepted(started) == [produced |-> FALSE, done |-> FALSE, linked |-> "open", started |-> started,
                      before |-> <<>>, after |-> <<>>]
Prepared(o) == [produced |-> TRUE, done |-> FALSE, linked |-> "yes", started |-> TRUE,
                before |-> case, after |-> Append(case, o)]

Put(o, r) == journal' = [x \in DOMAIN journal \cup {o} |-> IF x = o THEN r ELSE journal[x]]

Pending(o) == o \in DOMAIN journal /\ journal[o].produced /\ ~journal[o].done
-----------------------------------------------------------------------------
(* finishAction, finishAICase, finishAIRun, finishIncidentOperation: one write *)

\* A run keeps its own audit entry before it is linked to the Case.
RunAudited(o) == IsRun(o) => Appended(audit, <<o, "run">>)

\* Mutant: the image is written whatever the Case is now.
ReplaceCase(o) == case # journal[o].after /\ case' = journal[o].after

\* finishActionFile.  finishAction does not write an archive an earlier version
\* prepared: it finishes one only when the Case is that image already.
WriteCase(o) ==
    /\ case # journal[o].after /\ o # LegacyArchive
    /\ case = journal[o].before
    /\ case' = journal[o].after

\* A run's link is decided once, against the Case of that moment: it may be
\* archived, gone, or changed so that the run no longer belongs to it.
DecideLink(o) ==
    \/ /\ ~Archived
       /\ Put(o, [journal[o] EXCEPT !.linked = "yes", !.before = case, !.after = Append(case, o)])
    \/ Put(o, [journal[o] EXCEPT !.linked = "no"])

\* Mutants: the log is not looked at before it is appended to; a failure to
\* append to it is passed over.
MissingAlways(o) == TRUE
MissingNever(o) == FALSE

Missing(o) == ~Appended(audit, <<o, "case">>)

FinishStep(o) ==
    LET r == journal[o]
    IN \/ /\ ~RunAudited(o)
          /\ audit' = Append(audit, <<o, "run">>)
          /\ UNCHANGED <<case, journal>>
       \/ /\ RunAudited(o) /\ r.linked = "open"
          /\ DecideLink(o)
          /\ UNCHANGED <<case, audit>>
       \/ /\ RunAudited(o) /\ r.linked = "yes"
          /\ WriteCase(o)
          /\ UNCHANGED <<journal, audit>>
       \/ /\ RunAudited(o) /\ r.linked = "yes" /\ case = r.after /\ Missing(o)
          /\ audit' = Append(audit, <<o, "case">>)
          /\ UNCHANGED <<case, journal>>
       \/ /\ RunAudited(o)
          /\ r.linked = "no" \/ (r.linked = "yes" /\ case = r.after /\ ~Missing(o))
          /\ Put(o, [r EXCEPT !.done = TRUE])
          /\ UNCHANGED <<case, audit>>
-----------------------------------------------------------------------------
(* Calls *)

Holds(p) == lock = p
Doing(p) == proc[p].op

\* A call starts by taking the lock.  A direct mutation has no operation id:
\* calling it again is another mutation.  A native run has no section that only
\* looks: its first is like the second of the other runs.
Start(p, o) ==
    /\ proc[p].pc = "idle" /\ lock = NoProc
    /\ starts < MaxStarts
    /\ Kind[o] = "direct" => ~Appended(case, o)
    /\ lock' = p
    /\ proc' = [proc EXCEPT ![p] = [pc |-> IF Reconciles(o) THEN "reconcile" ELSE "own", op |-> o,
                                     seen |-> Len(case),
                                     section |-> IF Kind[o] = "native" THEN 2 ELSE 1]]
    /\ starts' = starts + 1
    /\ UNCHANGED <<site, case, journal, audit, acked>>

\* The section ends with an error, or the process is killed in it or away from it.
Fail(p) ==
    /\ proc[p].pc # "idle"
    /\ lock' = IF Holds(p) THEN NoProc ELSE lock
    /\ proc' = [proc EXCEPT ![p] = Idle]
    /\ UNCHANGED <<site, case, journal, audit, acked, starts>>

Return(p) ==
    /\ acked' = acked \cup {Doing(p)}
    /\ lock' = NoProc
    /\ proc' = [proc EXCEPT ![p] = Idle]

\* Mutant: an edit does not look for the operations before it.
NoOthers(p) == {}

Others(p) == {o \in DOMAIN journal : o # Doing(p) /\ Pending(o)}

\* reconcilePendingActions: pending operations of the Case, in any order.
Reconcile(p) ==
    /\ proc[p].pc = "reconcile"
    /\ \/ /\ \E o \in Others(p) : FinishStep(o)
          /\ UNCHANGED proc
       \/ /\ Others(p) = {}
          /\ proc' = [proc EXCEPT ![p].pc = "own"]
          /\ UNCHANGED <<case, journal, audit>>
    /\ UNCHANGED <<site, lock, acked, starts>>

Leave(p) ==
    /\ proc' = [proc EXCEPT ![p].pc = "away", ![p].section = @ + 1]
    /\ lock' = NoProc

\* A call finds its own operation in the journal, and finishes it.  The second
\* section of ExecuteAction goes through finishAction even when it is done.  A run
\* is left to the call that found it first, or that produced it (section 4).
\* RestoreVisibilityCase finishes its own operation by the same writes.  For a native
\* run it is ExecuteNativePin again or FinalizeNativeProduced, which takes a done one
\* as it is.
Replay(p) ==
    LET o == Doing(p)
        again == Kind[o] = "action" /\ proc[p].section = 2
    IN /\ proc[p].pc = "own" /\ o \in DOMAIN journal /\ journal[o].produced
       /\ IsRun(o) => proc[p].section \in {1, 4} \/ (Kind[o] = "native" /\ proc[p].section = 2)
       /\ Kind[o] = "incident" => proc[p].section = 2
       /\ \/ /\ ~journal[o].done /\ FinishStep(o)
             /\ UNCHANGED <<lock, proc, acked>>
          \/ /\ journal[o].done /\ (again => case = journal[o].after)
             /\ Return(p)
             /\ UNCHANGED <<case, journal, audit>>
       /\ UNCHANGED <<site, starts>>

New(p) == proc[p].pc = "own" /\ Doing(p) \notin DOMAIN journal
Current(p) == proc[p].seen = Len(case)

\* mutations.go: the Case, then the audit; there is no journal.
Mutate(p) ==
    /\ New(p) /\ Kind[Doing(p)] = "direct"
    /\ case' = Append(case, Doing(p))
    /\ proc' = [proc EXCEPT ![p].pc = "audit"]
    /\ UNCHANGED <<site, journal, audit, lock, acked, starts>>

MutateAudit(p) ==
    /\ proc[p].pc = "audit"
    /\ audit' = Append(audit, <<Doing(p), "case">>)
    /\ Return(p)
    /\ UNCHANGED <<site, case, journal, starts>>

\* The images are journaled before the Case is touched: ConfirmCase and
\* RestoreVisibilityCase (of an archived Case) at once, ExecuteAction and
\* CompleteIncidentOperation in their second section.
Prepare(p) ==
    LET o == Doing(p)
    IN /\ \/ New(p) /\ Kind[o] = "confirm" /\ Current(p)
          \/ New(p) /\ Kind[o] = "restore" /\ Current(p) /\ Archived
          \/ New(p) /\ Kind[o] = "action" /\ proc[p].section = 2
          \/ /\ proc[p].pc = "own" /\ Kind[o] = "incident" /\ proc[p].section = 2
             /\ ~journal[o].produced /\ Current(p)
       /\ Put(o, Prepared(o))
       /\ UNCHANGED <<site, case, audit, lock, proc, acked, starts>>

\* executeRunAction, ConfirmRun and BeginIncidentOperation journal the receipt
\* before they go on to what is slow or done elsewhere.
Accept(p) ==
    LET o == Doing(p)
    IN /\ New(p)
       /\ \/ Kind[o] = "incident" /\ Current(p)
          \/ Kind[o] \in {"run", "ai-run"} /\ proc[p].section = 2
       /\ Put(o, Accepted(TRUE))
       /\ Leave(p)
       /\ UNCHANGED <<site, case, audit, acked, starts>>

\* ExecuteNativePin: the receipt, then the start of the evaluation, which only one
\* call ever gets to.  Its fence may refuse anything: that is Fail.
AcceptNative(p) ==
    /\ New(p) /\ Kind[Doing(p)] = "native" /\ proc[p].section = 2
    /\ Put(Doing(p), Accepted(FALSE))
    /\ UNCHANGED <<site, case, audit, lock, proc, acked, starts>>

Dispatch(p) ==
    LET o == Doing(p)
    IN /\ proc[p].pc = "own" /\ Kind[o] = "native" /\ proc[p].section = 2
       /\ o \in DOMAIN journal /\ ~journal[o].produced /\ ~journal[o].started
       /\ Put(o, [journal[o] EXCEPT !.started = TRUE])
       /\ Leave(p)
       /\ UNCHANGED <<site, case, audit, acked, starts>>

\* The first section of an action or a run only looks; that of an incident
\* also finds the receipt of an earlier call.
GoOn(p) ==
    LET o == Doing(p)
    IN /\ proc[p].section = 1
       /\ \/ New(p) /\ Kind[o] \in {"action", "run", "ai-run"}
          \/ proc[p].pc = "own" /\ Kind[o] = "incident" /\ o \in DOMAIN journal
       /\ Leave(p)
       /\ UNCHANGED <<site, case, journal, audit, acked, starts>>

\* Only ConfirmRun reconciles in its second section.
Resume(p) ==
    LET again == Kind[Doing(p)] = "ai-run" /\ proc[p].section = 2
    IN /\ proc[p].pc = "away" /\ lock = NoProc
       /\ lock' = p
       /\ proc' = [proc EXCEPT ![p].pc = IF again THEN "reconcile" ELSE "own"]
       /\ UNCHANGED <<site, case, journal, audit, acked, starts>>

\* The evaluation of a run came back: its result is journaled, to be linked.
Produce(p) ==
    LET o == Doing(p)
    IN /\ proc[p].pc = "own" /\ IsRun(o) /\ proc[p].section = 3
       /\ ~journal[o].produced
       /\ Put(o, [journal[o] EXCEPT !.produced = TRUE])
       /\ proc' = [proc EXCEPT ![p].section = 4]
       /\ UNCHANGED <<site, case, audit, lock, acked, starts>>

Next ==
    \/ \E p \in site.procs, o \in site.ops : Start(p, o)
    \/ \E p \in site.procs :
          \/ Fail(p) \/ Reconcile(p) \/ Replay(p) \/ Mutate(p) \/ MutateAudit(p)
          \/ Prepare(p) \/ Accept(p) \/ AcceptNative(p) \/ Dispatch(p) \/ GoOn(p)
          \/ Resume(p) \/ Produce(p)

Spec == Init /\ [][Next]_vars
-----------------------------------------------------------------------------
(* Properties *)

Count(log, x) == Cardinality({i \in DOMAIN log : log[i] = x})

\* An operation changes the Case at most once and is audited at most once,
\* however often it is retried, reconciled by others or cut short.
OnceEach ==
    \A o \in Ops : /\ Count(case, o) =< 1
                   /\ Count(audit, <<o, "case">>) =< 1 /\ Count(audit, <<o, "run">>) =< 1

Finishable(o) ==
    case = journal[o].after \/ (case = journal[o].before /\ o # LegacyArchive)

\* "Otherwise a retry of the earlier operation can be stranded by the newer
\* resource image": a journaled operation can always be finished, the Case
\* being the image it starts from or the one it leads to.
NeverStranded ==
    \A o \in DOMAIN journal : Pending(o) /\ journal[o].linked = "yes" => Finishable(o)

\* Nobody writes between a call's reconciliation and its write: every call
\* reconciles, and there is one caller at a time or every call writes in the
\* section it reconciles in.  (An archive that was only prepared cannot be
\* finished from the start.)
OneSection ==
    /\ \A o \in site.ops : Reconciles(o)
    /\ Cardinality(site.procs) = 1 \/ \A o \in site.ops : Kind[o] \in {"direct", "confirm"}
    /\ site.legacy # "prepared"

\* As long as every call reconciles and writes in the same section of the lock, or
\* is on its own, no crash, failed write or retry strands an operation, an archive
\* an earlier version left included.
NeverStrandedInOneSection == OneSection => NeverStranded

\* A finished image never takes another operation's change back: every write
\* of the Case adds to the Case as it is.
NothingLost == [][Len(case') >= Len(case) /\ SubSeq(case', 1, Len(case)) = case]_vars

\* What a caller was told is done is in the Case and in the audit log (a run
\* that could not be linked: in the log), whatever failed on the way.
AckedIsThere ==
    \A o \in acked :
        \/ Appended(case, o) /\ Appended(audit, <<o, "case">>)
        \/ IsRun(o) /\ journal[o].linked = "no" /\ Appended(audit, <<o, "run">>)
=============================================================================
