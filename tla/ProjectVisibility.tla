-------------------------- MODULE ProjectVisibility --------------------------
(***************************************************************************)
(* pkg/projectvisibility: archiving and restoring one object that is       *)
(* hidden in two places, in the project's metadata (the provider) and in   *)
(* its own store (a session, a Case: `native`).  A journal of operations   *)
(* carries a change over both.                                             *)
(*                                                                         *)
(* coordinator.lock is held for the whole call, so one caller is enough:   *)
(* what interleaves with it is the native owner, deletions of other        *)
(* objects, which go past the lock, and its own death between two steps.   *)
(* Retries of an operation have its name.                                  *)
(***************************************************************************)
EXTENDS Integers, Sequences, FiniteSets

CONSTANTS
    Ops, NoOp,
    Action,            \* Action[o]: "archive" or "restore"
    MaxChanges,        \* bound: what others do to the object and the metadata
    MaxFailures        \* bound: calls that are cut short

ASSUME VisibilityAssumption ==
    /\ Action \in [Ops -> {"archive", "restore"}]
    /\ NoOp \notin Ops
    /\ {MaxChanges, MaxFailures} \subseteq Nat

VARIABLES
    native,            \* the object in its own store: [archived, rev]
    receipts,          \* that store's receipts: operation -> revision it made
    meta,              \* the project's metadata: [archived, rev]
    applied,           \* operations the provider has applied
    reviewed,          \* operation -> the revision its caller reviewed
    journal,           \* operation -> its journal file
    caller,            \* [pc, op, work, expected]
    changes, failures,
    accepted,          \* operations in the order they were accepted
    shown              \* operations since whose acceptance the object was visible

outside == <<changes, failures>>
history == <<accepted, shown>>
vars == <<native, receipts, meta, applied, reviewed, journal, caller, outside, history>>

Nil == 0               \* no revision; revisions start at 1
Idle == [pc |-> "idle", op |-> NoOp, work |-> NoOp, expected |-> Nil]

Init ==
    /\ native \in [archived : BOOLEAN, rev : {1}]
    /\ meta \in [archived : BOOLEAN, rev : {1}]
    /\ receipts = [o \in {} |-> 0] /\ applied = {}
    /\ reviewed = [o \in {} |-> 0] /\ journal = [o \in {} |-> 0]
    /\ caller = Idle
    /\ changes = 0 /\ failures = 0
    /\ accepted = <<>> /\ shown = {}
-----------------------------------------------------------------------------
Snapshot == <<meta.rev, native>>
Hidden == meta.archived \/ native.archived

With(f, o, x) == [p \in DOMAIN f \cup {o} |-> IF p = o THEN x ELSE f[p]]
At(pc) == caller.pc = pc
Goto(pc) == caller' = [caller EXCEPT !.pc = pc]

\* The part of `shown` a step that changes the object or the metadata adds.
Watched == shown' = IF meta'.archived \/ native'.archived THEN shown
                    ELSE shown \cup DOMAIN journal

\* The caller looks, and decides on an operation.
Review(o) ==
    /\ At("idle") /\ o \notin DOMAIN reviewed
    /\ reviewed' = With(reviewed, o, Snapshot)
    /\ UNCHANGED <<native, receipts, meta, applied, journal, caller, outside, history>>

Open(o) == o \in DOMAIN journal /\ journal[o].verdict = "open"

\* ChangeProjectLifecycle, up to the look at the operation's own file.
ChangeProjectLifecycle(o) ==
    /\ At("idle") /\ o \in DOMAIN reviewed
    /\ \/ /\ o \notin DOMAIN journal
          /\ caller' = [Idle EXCEPT !.pc = "recover", !.op = o]
       \/ /\ Open(o)
          /\ caller' = [Idle EXCEPT !.pc = "finish", !.op = o, !.work = o,
                                    !.expected = journal[o].expected]
    /\ UNCHANGED <<native, receipts, meta, applied, reviewed, journal, outside, history>>

\* Mutant: a new operation does not look for one that was accepted before.
NothingPending == {}

Pending == {o \in DOMAIN journal : ~journal[o].filed}

\* recoverPending: one file of it.
RecoverPending ==
    /\ At("recover")
    /\ \E o \in Pending :
          IF Open(o)
          THEN /\ caller' = [caller EXCEPT !.pc = "finish", !.work = o,
                                           !.expected = journal[o].expected]
               /\ UNCHANGED journal
          ELSE /\ journal' = [journal EXCEPT ![o].filed = TRUE]
               /\ UNCHANGED caller
    /\ UNCHANGED <<native, receipts, meta, applied, reviewed, outside, history>>

\* The rest of ChangeProjectLifecycle: the review must still be true.
Accept ==
    LET o == caller.op
        owned == Action[o] = "restore" /\ native.archived
    IN /\ At("recover") /\ Pending = {}
       /\ IF reviewed[o] = Snapshot /\ Hidden = (Action[o] = "restore")
          THEN /\ journal' = With(journal, o,
                      [native |-> IF owned THEN native.rev ELSE Nil, expected |-> Nil,
                       base |-> IF owned THEN Nil ELSE meta.rev,
                       verdict |-> "open", filed |-> FALSE])
               /\ accepted' = Append(accepted, o)
               /\ caller' = [caller EXCEPT !.pc = "finish", !.work = o]
          ELSE caller' = Idle /\ UNCHANGED <<journal, accepted>>
       /\ UNCHANGED <<native, receipts, meta, applied, reviewed, outside, shown>>
-----------------------------------------------------------------------------
(* finishOperation *)

Work == journal[caller.work]

\* Mutant: a refusal is reported to the caller, and the operation stays open.
DecideOnlyDone(verdict) ==
    IF verdict = "done"
    THEN journal' = [journal EXCEPT ![caller.work].verdict = verdict] /\ Goto("file")
    ELSE caller' = Idle /\ UNCHANGED journal

\* terminalOperation and completeOperation write the verdict, then rename.
Decide(verdict) ==
    /\ journal' = [journal EXCEPT ![caller.work].verdict = verdict]
    /\ Goto("file")

\* Restore, in the store that owns the object: once per operation, and only if
\* the object is as it was when the operation was accepted.
RestoreNative ==
    LET o == caller.work
        fits == native.archived /\ native.rev = Work.native
    IN /\ At("finish") /\ Work.native # Nil /\ caller.expected = Nil
       /\ \/ /\ o \in DOMAIN receipts
             /\ caller' = [caller EXCEPT !.expected = receipts[o]]
             /\ UNCHANGED <<native, receipts, journal, shown>>
          \/ /\ o \notin DOMAIN receipts /\ fits
             /\ native' = [archived |-> FALSE, rev |-> native.rev + 1]
             /\ receipts' = With(receipts, o, native.rev + 1)
             /\ caller' = [caller EXCEPT !.expected = native.rev + 1]
             /\ UNCHANGED <<journal, meta>> /\ Watched
          \/ /\ o \notin DOMAIN receipts /\ ~fits
             /\ Decide("conflict")
             /\ UNCHANGED <<native, receipts, shown>>
       /\ UNCHANGED <<meta, applied, reviewed, outside, accepted>>

\* Mutant: the receipt of the restore is taken for its outcome.
MatchesReceipt == TRUE

\* nativeOutcomeMatches
Matches == ~native.archived /\ native.rev = caller.expected

\* The native outcome still stands: the metadata's turn, at the revision it has
\* now unless an earlier call has fixed one.
Translate ==
    /\ At("finish") /\ Work.native # Nil /\ caller.expected # Nil
    /\ IF Matches
       THEN /\ journal' = [journal EXCEPT ![caller.work].expected = caller.expected,
                             ![caller.work].base = IF @ = Nil THEN meta.rev ELSE @]
            /\ Goto("metadata")
       ELSE Decide("superseded")
    /\ UNCHANGED <<native, receipts, meta, applied, reviewed, outside, history>>

\* The provider: once per operation, and only at the revision it was asked for.
ChangeMetadata ==
    LET o == caller.work
        archives == Action[o] = "archive"
    IN /\ At("metadata") \/ (At("finish") /\ Work.native = Nil)
       /\ \/ /\ o \in applied
             /\ Goto("check") /\ UNCHANGED <<meta, applied, journal, shown>>
          \/ /\ o \notin applied /\ Work.base = meta.rev
             /\ meta' = [archived |-> archives, rev |-> meta.rev + 1]
             /\ applied' = applied \cup {o}
             /\ Goto("check")
             /\ UNCHANGED <<journal, native>> /\ Watched
          \/ /\ o \notin applied /\ Work.base # meta.rev
             /\ Decide("conflict") /\ UNCHANGED <<meta, applied, shown>>
       /\ UNCHANGED <<native, receipts, reviewed, outside, accepted>>

Check ==
    /\ At("check")
    /\ IF Work.native # Nil /\ ~Matches THEN Decide("superseded")
       ELSE Goto("result") /\ UNCHANGED journal
    /\ UNCHANGED <<native, receipts, meta, applied, reviewed, outside, history>>

WriteResult ==
    /\ At("result")
    /\ Decide("done")
    /\ UNCHANGED <<native, receipts, meta, applied, reviewed, outside, history>>

\* The rename ends the operation, and the call with it, unless the operation was
\* an older one that is done now.
CompleteOperation ==
    /\ At("file")
    /\ journal' = [journal EXCEPT ![caller.work].filed = TRUE]
    /\ caller' = IF caller.work # caller.op /\ Work.verdict = "done"
                 THEN [Idle EXCEPT !.pc = "recover", !.op = caller.op] ELSE Idle
    /\ UNCHANGED <<native, receipts, meta, applied, reviewed, outside, history>>
-----------------------------------------------------------------------------
(* What others do *)

\* A write fails, a store cannot be reached, the process is killed.
Fail ==
    /\ ~At("idle") /\ failures < MaxFailures
    /\ caller' = Idle /\ failures' = failures + 1
    /\ UNCHANGED <<native, receipts, meta, applied, reviewed, journal, changes, history>>

\* The owner archives, restores or renames the object in its own store.
NativeChange(archived) ==
    /\ changes < MaxChanges
    /\ native' = [archived |-> archived, rev |-> native.rev + 1]
    /\ changes' = changes + 1
    /\ UNCHANGED meta /\ Watched
    /\ UNCHANGED <<receipts, applied, reviewed, journal, caller, failures, accepted>>

\* Another object is deleted: the provider's revision moves on, without the lock.
DeleteAnother ==
    /\ changes < MaxChanges
    /\ meta' = [meta EXCEPT !.rev = @ + 1]
    /\ changes' = changes + 1
    /\ UNCHANGED <<native, receipts, applied, reviewed, journal, caller, failures, history>>

Finish == \/ RestoreNative \/ Translate \/ ChangeMetadata \/ Check \/ WriteResult
          \/ CompleteOperation

Next ==
    \/ \E o \in Ops : Review(o) \/ ChangeProjectLifecycle(o)
    \/ RecoverPending \/ Accept
    \/ Finish
    \/ Fail
    \/ \E archived \in BOOLEAN : NativeChange(archived)
    \/ DeleteAnother

Spec == Init /\ [][Next]_vars

\* A call that was begun goes on, and its caller retries it, or begins another.
FairSpec ==
    /\ Spec
    /\ WF_vars(Finish \/ RecoverPending \/ Accept)
    /\ WF_vars(\E o \in Ops : Open(o) /\ ChangeProjectLifecycle(o))
-----------------------------------------------------------------------------
(* Properties *)

\* "An old retry must never remove an archive created after its native restore":
\* only the newest operation accepted ever changes the object, in either place,
\* so no retry or recovery undoes what was accepted and done after it.
NewestDecides ==
    [][(caller.pc \in {"finish", "metadata"} /\ (meta' # meta \/ native' # native)
        /\ UNCHANGED changes) => caller.work = accepted[Len(accepted)]]_vars

\* No false acknowledgement: when a restore that began with a natively archived
\* object is done, the object was visible at some moment since it was accepted,
\* whatever its owner did between the steps.
DoneWasVisible ==
    \A o \in DOMAIN journal :
        journal[o].verdict = "done" /\ journal[o].native # Nil => o \in shown

\* An accepted operation is settled in the end, done or given up: no crash and no
\* change by others leaves it open for good, to block every later operation.
AcceptedSettles == \A o \in Ops : Open(o) ~> (o \in DOMAIN journal /\ ~Open(o))
=============================================================================
