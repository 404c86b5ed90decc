----------------------- MODULE ProjectVisibilityProofs -----------------------
(* What holds of ProjectVisibility for every set of operations, whatever the *)
(* owner of the object and others do between the steps of a call.            *)
EXTENDS ProjectVisibility, SequenceTheorems, TLAPS

Thing == [archived : BOOLEAN, rev : Nat]
Verdicts == {"open", "done", "conflict", "superseded"}
Entry == [native : Nat, expected : Nat, base : Nat, verdict : Verdicts, filed : BOOLEAN]
Working == {"finish", "metadata", "check", "result", "file"}
Call == [pc : {"idle", "recover"} \cup Working, op : Ops \cup {NoOp}, work : Ops \cup {NoOp},
         expected : Nat]

TypeOK ==
    /\ native \in Thing /\ meta \in Thing /\ caller \in Call
    /\ DOMAIN receipts \subseteq Ops /\ \A o \in DOMAIN receipts : receipts[o] \in Nat
    /\ DOMAIN journal \subseteq Ops /\ \A o \in DOMAIN journal : journal[o] \in Entry
    /\ changes \in Nat /\ accepted \in Seq(Ops)

Newest(o) == Len(accepted) > 0 /\ o = accepted[Len(accepted)]

\* Only the newest operation can be unfinished, and it is what a call works on; an
\* operation is accepted by a call that finds no file of it.
OneAtATime ==
    /\ \A o \in DOMAIN journal : /\ ~journal[o].filed => Newest(o)
                                 /\ journal[o].filed => journal[o].verdict # "open"
    /\ caller.pc \in Working => caller.work \in DOMAIN journal /\ ~journal[caller.work].filed
    /\ caller.pc = "recover" \/ (caller.pc \in Working /\ caller.work # caller.op) =>
          caller.op \in Ops /\ caller.op \notin DOMAIN journal
    /\ caller.pc = "recover" => caller.expected = Nil
    /\ caller.pc = "file" => journal[caller.work].verdict # "open"

\* An operation that begins with a natively archived object restores it, and turns
\* to the metadata with the receipt of that.
Restores ==
    /\ applied \subseteq DOMAIN journal /\ DOMAIN receipts \subseteq DOMAIN journal
    /\ \A o \in DOMAIN journal :
          /\ journal[o].native # Nil => Action[o] = "restore"
          /\ journal[o].native # Nil /\ o \in applied => o \in DOMAIN receipts
          /\ journal[o].expected # Nil => o \in DOMAIN receipts /\ journal[o].expected = receipts[o]
    /\ caller.pc \in {"finish", "metadata", "check"} /\ journal[caller.work].native # Nil =>
          /\ caller.expected # Nil =>
                caller.work \in DOMAIN receipts /\ caller.expected = receipts[caller.work]
          /\ caller.pc # "finish" => caller.expected # Nil
    /\ caller.pc \in {"check", "result"} => caller.work \in applied

\* A receipt dates the object: at its revision the object is not archived.
Dated ==
    \A o \in DOMAIN receipts : /\ receipts[o] =< native.rev
                               /\ receipts[o] = native.rev => ~native.archived

\* The metadata were changed while the object was as the receipt says, if it is so
\* now: it was visible then.
Seen ==
    /\ \A o \in DOMAIN journal :
          journal[o].native # Nil /\ o \in applied /\ receipts[o] = native.rev => o \in shown
    /\ caller.pc = "result" /\ journal[caller.work].native # Nil => caller.work \in shown
    /\ DoneWasVisible

VisibilityInv == TypeOK /\ OneAtATime /\ Restores /\ Dated /\ Seen
-----------------------------------------------------------------------------
(* Steps that leave the object, its receipts and the metadata alone *)

things == <<native, receipts, applied, shown>>

\* The caller's record, field by field.
LEMMA CallFields ==
    ASSUME NEW c \in Call
    PROVE  /\ DOMAIN c = {"pc", "op", "work", "expected"}
           /\ c.pc \in {"idle", "recover"} \cup Working /\ c.op \in Ops \cup {NoOp}
           /\ c.work \in Ops \cup {NoOp} /\ c.expected \in Nat
  BY DEF Call

LEMMA IdleCall == Idle \in Call /\ Idle.pc = "idle" /\ Idle.op = NoOp /\ Idle.work = NoOp
                  /\ Idle.expected = Nil
  BY DEF Idle, Call, Nil

LEMMA GotoMoves ==
    ASSUME caller \in Call, NEW pc \in {"idle", "recover"} \cup Working, Goto(pc)
    PROVE  /\ caller' \in Call /\ caller'.pc = pc /\ caller'.op = caller.op
           /\ caller'.work = caller.work /\ caller'.expected = caller.expected
  BY DEF Goto, Call

\* Nothing of what the invariant is about changes.
LEMMA QuietStep ==
    ASSUME VisibilityInv, meta' \in Thing, changes' \in Nat,
           UNCHANGED <<things, journal, caller, accepted>>
    PROVE  VisibilityInv'
  <1>1. TypeOK'
    BY DEF VisibilityInv, TypeOK, things
  <1>2. OneAtATime' /\ Restores' /\ Dated' /\ Seen'
    BY DEF VisibilityInv, OneAtATime, Newest, Restores, Dated, Seen, DoneWasVisible, things
  <1> QED BY <1>1, <1>2 DEF VisibilityInv

\* A call ends, looks for older operations, or takes up an unfinished one.
LEMMA CallerStep ==
    ASSUME VisibilityInv, meta' = meta, changes' = changes, UNCHANGED <<things, journal, accepted>>,
           caller' \in Call, caller'.pc \in {"idle", "recover", "finish"},
           caller'.pc # "idle" => caller'.op \in Ops,
           caller'.pc = "recover" => caller'.op \notin DOMAIN journal /\ caller'.expected = Nil,
           caller'.pc = "finish" =>
               /\ caller'.work \in DOMAIN journal /\ ~journal[caller'.work].filed
               /\ caller'.expected = journal[caller'.work].expected
               /\ caller'.work # caller'.op => caller'.op \notin DOMAIN journal
    PROVE  VisibilityInv'
  <1>1. TypeOK'
    BY DEF VisibilityInv, TypeOK, things
  <1>2. /\ OneAtATime /\ Restores /\ Dated /\ Seen
        /\ journal' = journal /\ accepted' = accepted /\ native' = native
        /\ receipts' = receipts /\ applied' = applied /\ shown' = shown
    BY DEF VisibilityInv, things
  <1>3. OneAtATime'
    BY <1>2 DEF OneAtATime, Newest, Working
  <1>4. Restores'
    BY <1>2 DEF Restores
  <1>5. Dated' /\ Seen'
    BY <1>2 DEF Dated, Seen, DoneWasVisible
  <1> QED BY <1>1, <1>3, <1>4, <1>5 DEF VisibilityInv

\* One entry of the journal changes, and keeps what the operation is about.
EntryMove(o, v) ==
    /\ o \in DOMAIN journal /\ DOMAIN journal' = DOMAIN journal
    /\ \A x \in DOMAIN journal \ {o} : journal'[x] = journal[x]
    /\ journal'[o] \in Entry /\ journal'[o].native = journal[o].native
    /\ journal'[o].verdict = v

\* terminalOperation and completeOperation, up to the rename.
LEMMA DecideStep ==
    ASSUME VisibilityInv, caller.pc \in Working \ {"file"},
           NEW v \in {"done", "conflict", "superseded"}, Decide(v),
           v = "done" => caller.pc = "result",
           meta' = meta, changes' = changes, UNCHANGED <<things, accepted>>
    PROVE  VisibilityInv'
  <1> DEFINE w == caller.work
  <1>1. /\ TypeOK /\ OneAtATime /\ Restores /\ Dated /\ Seen /\ accepted' = accepted
        /\ native' = native /\ receipts' = receipts /\ applied' = applied /\ shown' = shown
    BY DEF VisibilityInv, things
  <1>2. w \in DOMAIN journal /\ ~journal[w].filed /\ journal[w] \in Entry /\ caller \in Call
    BY <1>1 DEF OneAtATime, TypeOK
  <1>3. journal' = [journal EXCEPT ![w].verdict = v] /\ Goto("file")
    BY DEF Decide
  <1>4. /\ caller' \in Call /\ caller'.pc = "file" /\ caller'.op = caller.op
        /\ caller'.work = w
    BY <1>2, <1>3, GotoMoves DEF Working
  <1>5. EntryMove(w, v) /\ ~journal'[w].filed /\ journal'[w].expected = journal[w].expected
    BY <1>2, <1>3 DEF EntryMove, Entry, Verdicts
  <1> HIDE DEF w
  <1>6. TypeOK'
    BY <1>1, <1>4, <1>5 DEF TypeOK, EntryMove, VisibilityInv, things
  <1>7. OneAtATime'
    <2>1. \A o \in DOMAIN journal' : /\ ~journal'[o].filed => Newest(o)
                                     /\ journal'[o].filed => journal'[o].verdict # "open"
      <3> TAKE o \in DOMAIN journal'
      <3>1. CASE o = w
        BY <1>1, <1>2, <1>5, <3>1 DEF OneAtATime, EntryMove
      <3>2. CASE o # w
        BY <1>1, <1>2, <1>5, <3>2 DEF OneAtATime, EntryMove
      <3> QED BY <3>1, <3>2
    <2>2. caller'.work \in DOMAIN journal' /\ ~journal'[caller'.work].filed
      BY <1>4, <1>5 DEF EntryMove
    <2>3. caller'.work # caller'.op => caller'.op \in Ops /\ caller'.op \notin DOMAIN journal'
      BY <1>1, <1>4, <1>5 DEF OneAtATime, EntryMove, w
    <2>4. journal'[caller'.work].verdict # "open"
      BY <1>4, <1>5 DEF EntryMove
    <2> QED BY <1>1, <1>4, <2>1, <2>2, <2>3, <2>4 DEF OneAtATime, Newest
  <1>8. Restores'
    <2>1. \A o \in DOMAIN journal' : journal'[o].native = journal[o].native
                                     /\ journal'[o].expected = journal[o].expected
      BY <1>5 DEF EntryMove
    <2> QED BY <1>1, <1>4, <1>5, <2>1 DEF Restores, EntryMove
  <1>9. Dated'
    BY <1>1 DEF Dated
  <1>10. Seen'
    <2>1. v = "done" /\ journal[w].native # Nil => w \in shown
      BY <1>1 DEF Seen, w
    <2>2. \A o \in DOMAIN journal' : journal'[o].native = journal[o].native
      BY <1>5 DEF EntryMove
    <2>3. DoneWasVisible'
      BY <1>1, <1>5, <2>1 DEF Seen, DoneWasVisible, EntryMove
    <2> QED BY <1>1, <1>4, <1>5, <2>2, <2>3 DEF Seen, EntryMove
  <1> QED BY <1>6, <1>7, <1>8, <1>9, <1>10 DEF VisibilityInv

\* The rename: of the operation a call works on, or of one that was decided.
LEMMA FileStep ==
    ASSUME VisibilityInv, NEW o \in DOMAIN journal, journal[o].verdict # "open",
           journal' = [journal EXCEPT ![o].filed = TRUE],
           meta' = meta, changes' = changes, UNCHANGED <<things, accepted>>,
           caller' \in Call, caller'.pc \in {"idle", "recover"},
           caller'.pc = "recover" => /\ caller'.op \in Ops /\ caller'.op \notin DOMAIN journal
                                     /\ caller'.expected = Nil
    PROVE  VisibilityInv'
  <1>1. /\ TypeOK /\ OneAtATime /\ Restores /\ Dated /\ Seen /\ accepted' = accepted
        /\ native' = native /\ receipts' = receipts /\ applied' = applied /\ shown' = shown
    BY DEF VisibilityInv, things
  <1>2. journal[o] \in Entry
    BY <1>1 DEF TypeOK
  <1>3. EntryMove(o, journal[o].verdict) /\ journal'[o].filed
        /\ journal'[o].expected = journal[o].expected
    BY <1>2 DEF EntryMove, Entry
  <1>4. TypeOK'
    BY <1>1, <1>3 DEF TypeOK, EntryMove
  <1>5. OneAtATime'
    BY <1>1, <1>3 DEF OneAtATime, EntryMove, Newest, Working
  <1>6. \A x \in DOMAIN journal' : /\ journal'[x].native = journal[x].native
                                   /\ journal'[x].expected = journal[x].expected
                                   /\ journal'[x].verdict = journal[x].verdict
    BY <1>3 DEF EntryMove
  <1>7. Restores' /\ Dated' /\ Seen'
    BY <1>1, <1>3, <1>6 DEF Restores, Dated, Seen, DoneWasVisible, EntryMove
  <1> QED BY <1>4, <1>5, <1>7 DEF VisibilityInv
-----------------------------------------------------------------------------
(* The caller's steps *)

LEMMA LifecycleStep ==
    ASSUME VisibilityInv, NEW o \in Ops, ChangeProjectLifecycle(o)
    PROVE  VisibilityInv'
  <1>1. /\ meta' = meta /\ changes' = changes /\ UNCHANGED <<things, journal, accepted>>
    BY DEF ChangeProjectLifecycle, things, outside, history
  <1>2. CASE o \notin DOMAIN journal /\ caller' = [Idle EXCEPT !.pc = "recover", !.op = o]
    <2>1. /\ caller' \in Call /\ caller'.pc = "recover" /\ caller'.op = o
          /\ caller'.expected = Nil
      BY <1>2 DEF Idle, Call, Nil
    <2> QED BY <1>1, <1>2, <2>1, CallerStep
  <1>3. CASE /\ Open(o)
             /\ caller' = [Idle EXCEPT !.pc = "finish", !.op = o, !.work = o,
                                       !.expected = journal[o].expected]
    <2>1. o \in DOMAIN journal /\ ~journal[o].filed /\ journal[o].expected \in Nat
      BY <1>3 DEF Open, VisibilityInv, OneAtATime, TypeOK, Entry
    <2>2. /\ caller' \in Call /\ caller'.pc = "finish" /\ caller'.op = o /\ caller'.work = o
          /\ caller'.expected = journal[o].expected
      BY <1>3, <2>1 DEF Idle, Call, Nil, Working
    <2> QED BY <1>1, <2>1, <2>2, CallerStep
  <1> QED BY <1>2, <1>3 DEF ChangeProjectLifecycle

LEMMA RecoverStep ==
    ASSUME VisibilityInv, RecoverPending
    PROVE  VisibilityInv'
  <1>1. /\ meta' = meta /\ changes' = changes /\ UNCHANGED <<things, accepted>>
        /\ caller.pc = "recover"
    BY DEF RecoverPending, things, outside, history, At
  <1>2. /\ caller \in Call /\ caller.op \in Ops /\ caller.op \notin DOMAIN journal
        /\ caller.expected = Nil
    BY <1>1 DEF VisibilityInv, TypeOK, OneAtATime
  <1>3. PICK o \in Pending :
          IF Open(o)
          THEN /\ caller' = [caller EXCEPT !.pc = "finish", !.work = o,
                                           !.expected = journal[o].expected]
               /\ UNCHANGED journal
          ELSE /\ journal' = [journal EXCEPT ![o].filed = TRUE]
               /\ UNCHANGED caller
    BY DEF RecoverPending
  <1>4. o \in DOMAIN journal /\ ~journal[o].filed /\ o \in Ops /\ journal[o].expected \in Nat
    BY DEF Pending, VisibilityInv, TypeOK, Entry
  <1>5. CASE Open(o)
    <2>1. caller' = [caller EXCEPT !.pc = "finish", !.work = o, !.expected = journal[o].expected]
          /\ journal' = journal
      BY <1>3, <1>5
    <2>2. caller' \in Call
      BY Zenon, <1>2, <1>4, <2>1 DEF Call, Working
    <2>3. /\ caller'.pc = "finish" /\ caller'.op = caller.op /\ caller'.work = o
          /\ caller'.expected = journal[o].expected
      BY Zenon, <1>2, <2>1, CallFields
    <2> QED BY <1>1, <1>2, <1>4, <2>1, <2>2, <2>3, CallerStep
  <1>6. CASE ~Open(o)
    <2>1. journal' = [journal EXCEPT ![o].filed = TRUE] /\ caller' = caller
      BY <1>3, <1>6
    <2>2. journal[o].verdict # "open"
      BY <1>4, <1>6 DEF Open
    <2> QED BY <1>1, <1>2, <1>4, <2>1, <2>2, FileStep
  <1> QED BY <1>5, <1>6

LEMMA AcceptStep ==
    ASSUME VisibilityInv, Accept
    PROVE  VisibilityInv'
  <1> DEFINE o == caller.op
             owned == Action[o] = "restore" /\ native.archived
             r == [native |-> IF owned THEN native.rev ELSE Nil, expected |-> Nil,
                   base |-> IF owned THEN Nil ELSE meta.rev,
                   verdict |-> "open", filed |-> FALSE]
  <1>1. /\ meta' = meta /\ changes' = changes /\ UNCHANGED things /\ Pending = {}
        /\ caller.pc = "recover"
    BY DEF Accept, things, outside, At
  <1>2. /\ TypeOK /\ OneAtATime /\ Restores /\ Dated /\ Seen
        /\ native' = native /\ receipts' = receipts /\ applied' = applied /\ shown' = shown
    BY <1>1 DEF VisibilityInv, things
  <1>3. caller \in Call /\ o \in Ops /\ o \notin DOMAIN journal
    BY <1>1, <1>2 DEF TypeOK, OneAtATime
  <1>4. CASE caller' = Idle /\ UNCHANGED <<journal, accepted>>
    BY <1>1, <1>4, IdleCall, CallerStep
  <1>5. CASE /\ journal' = With(journal, o, r) /\ accepted' = Append(accepted, o)
             /\ caller' = [caller EXCEPT !.pc = "finish", !.work = o]
    <2>1. caller' \in Call
      BY Zenon, <1>3, <1>5 DEF Call, Working
    <2>2. caller'.pc = "finish" /\ caller'.op = o /\ caller'.work = o
          /\ caller'.expected = caller.expected
      BY Zenon, <1>3, <1>5, CallFields
    <2>3. /\ r \in Entry /\ r.expected = Nil /\ r.verdict = "open" /\ ~r.filed
          /\ r.native # Nil => Action[o] = "restore"
      BY <1>2 DEF TypeOK, Thing, Entry, Nil, Verdicts
    <2>4. /\ accepted' \in Seq(Ops) /\ Len(accepted') > 0 /\ o = accepted'[Len(accepted')]
      BY <1>2, <1>3, <1>5, AppendProperties, LenProperties DEF TypeOK
    <2> HIDE DEF r, o
    <2>5. /\ DOMAIN journal' = DOMAIN journal \cup {o} /\ journal'[o] = r
          /\ \A x \in DOMAIN journal : journal'[x] = journal[x]
      BY <1>3, <1>5 DEF With
    <2>6. TypeOK'
      BY <1>1, <1>2, <1>3, <2>1, <2>3, <2>4, <2>5 DEF TypeOK
    <2>7. OneAtATime'
      <3>1. \A x \in DOMAIN journal : journal[x].filed /\ journal[x].verdict # "open"
        BY <1>1, <1>2 DEF Pending, OneAtATime
      <3>2. \A x \in DOMAIN journal' : ~journal'[x].filed => x = o
        BY <2>5, <3>1
      <3>3. \A x \in DOMAIN journal' : journal'[x].filed => journal'[x].verdict # "open"
        BY <2>3, <2>5, <3>1
      <3> QED BY <2>2, <2>3, <2>4, <2>5, <3>2, <3>3 DEF OneAtATime, Newest
    <2>8. Restores'
      <3>1. caller.expected = Nil
        BY <1>1, <1>2 DEF OneAtATime
      <3> QED BY <1>2, <1>3, <2>2, <2>3, <2>5, <3>1 DEF Restores
    <2>9. Dated' /\ Seen'
      BY <1>2, <1>3, <2>2, <2>3, <2>5 DEF Dated, Seen, DoneWasVisible, Restores
    <2> QED BY <2>6, <2>7, <2>8, <2>9 DEF VisibilityInv
  <1> QED BY <1>4, <1>5 DEF Accept

LEMMA CompleteStep ==
    ASSUME VisibilityInv, CompleteOperation
    PROVE  VisibilityInv'
  <1>1. /\ meta' = meta /\ changes' = changes /\ UNCHANGED <<things, accepted>>
        /\ caller.pc = "file" /\ journal' = [journal EXCEPT ![caller.work].filed = TRUE]
        /\ caller' = IF caller.work # caller.op /\ Work.verdict = "done"
                     THEN [Idle EXCEPT !.pc = "recover", !.op = caller.op] ELSE Idle
    BY DEF CompleteOperation, things, outside, history, At
  <1>2. caller.work \in DOMAIN journal /\ journal[caller.work].verdict # "open"
    BY <1>1 DEF VisibilityInv, OneAtATime, Working
  <1>3. CASE caller.work # caller.op /\ Work.verdict = "done"
    <2>1. caller.op \in Ops /\ caller.op \notin DOMAIN journal
      BY <1>1, <1>3 DEF VisibilityInv, OneAtATime, Working
    <2>2. caller' = [Idle EXCEPT !.pc = "recover", !.op = caller.op]
      BY <1>1, <1>3
    <2>3. caller' \in Call /\ caller'.pc = "recover" /\ caller'.op = caller.op
          /\ caller'.expected = Nil
      BY <2>1, <2>2 DEF Idle, Call, Nil
    <2> QED BY <1>1, <1>2, <2>1, <2>3, FileStep
  <1>4. CASE ~(caller.work # caller.op /\ Work.verdict = "done")
    BY <1>1, <1>2, <1>4, IdleCall, FileStep
  <1> QED BY <1>3, <1>4

\* A call goes on with its operation, without a write.
LEMMA OnwardStep ==
    ASSUME VisibilityInv, caller.pc \in {"finish", "metadata", "check"},
           meta' = meta, changes' = changes, UNCHANGED <<things, journal, accepted>>,
           caller' \in Call, caller'.pc \in {"finish", "check", "result"},
           caller'.op = caller.op, caller'.work = caller.work,
           Work.native # Nil =>
               /\ caller'.pc # "result" /\ caller'.expected # Nil =>
                     caller.work \in DOMAIN receipts /\ caller'.expected = receipts[caller.work]
               /\ caller'.pc = "check" => caller'.expected # Nil
               /\ caller'.pc = "result" => caller.work \in shown,
           caller'.pc # "finish" => caller.work \in applied
    PROVE  VisibilityInv'
  <1>1. /\ TypeOK /\ OneAtATime /\ Restores /\ Dated /\ Seen
        /\ journal' = journal /\ accepted' = accepted /\ native' = native
        /\ receipts' = receipts /\ applied' = applied /\ shown' = shown
    BY DEF VisibilityInv, things
  <1>2. TypeOK'
    BY <1>1 DEF TypeOK
  <1>3. OneAtATime'
    BY <1>1 DEF OneAtATime, Newest, Working
  <1>4. Restores'
    BY <1>1 DEF Restores, Work
  <1>5. Dated' /\ Seen'
    BY <1>1 DEF Dated, Seen, DoneWasVisible, Work
  <1> QED BY <1>2, <1>3, <1>4, <1>5 DEF VisibilityInv

\* The object changes in its own store: every receipt is then of an older revision.
LEMMA OlderReceipts ==
    ASSUME VisibilityInv, native' \in Thing, native'.rev = native.rev + 1
    PROVE  \A o \in DOMAIN receipts : receipts[o] =< native'.rev /\ receipts[o] # native'.rev
  BY DEF VisibilityInv, TypeOK, Dated, Thing

LEMMA NativeStep ==
    ASSUME VisibilityInv, NEW archived \in BOOLEAN, NativeChange(archived)
    PROVE  VisibilityInv'
  <1>1. /\ TypeOK /\ OneAtATime /\ Restores /\ Dated /\ Seen
        /\ journal' = journal /\ accepted' = accepted /\ caller' = caller
        /\ receipts' = receipts /\ applied' = applied /\ meta' = meta
        /\ native' = [archived |-> archived, rev |-> native.rev + 1]
        /\ changes' = changes + 1 /\ shown \subseteq shown'
    BY DEF VisibilityInv, NativeChange, Watched
  <1>2. native' \in Thing /\ native'.rev = native.rev + 1 /\ changes' \in Nat
    BY <1>1 DEF TypeOK, Thing
  <1>3. \A o \in DOMAIN receipts : receipts[o] =< native'.rev /\ receipts[o] # native'.rev
    BY <1>2, OlderReceipts
  <1>4. TypeOK' /\ OneAtATime' /\ Restores'
    BY <1>1, <1>2 DEF TypeOK, OneAtATime, Newest, Restores
  <1>5. Dated'
    BY <1>1, <1>3 DEF Dated
  <1>6. Seen'
    BY <1>1, <1>3 DEF Seen, DoneWasVisible, Restores
  <1> QED BY <1>4, <1>5, <1>6 DEF VisibilityInv

LEMMA RestoreStep ==
    ASSUME VisibilityInv, RestoreNative
    PROVE  VisibilityInv'
  <1> DEFINE o == caller.work
  <1>1. /\ TypeOK /\ OneAtATime /\ Restores /\ Dated /\ Seen
    BY DEF VisibilityInv
  <1>2. /\ meta' = meta /\ changes' = changes /\ applied' = applied /\ accepted' = accepted
        /\ caller.pc = "finish" /\ Work.native # Nil
    BY DEF RestoreNative, outside, At
  <1>3. caller \in Call /\ o \in DOMAIN journal /\ o \in Ops
    BY <1>1, <1>2 DEF TypeOK, OneAtATime, Working
  <1>4. CASE /\ o \in DOMAIN receipts
             /\ caller' = [caller EXCEPT !.expected = receipts[o]]
             /\ UNCHANGED <<native, receipts, journal, shown>>
    <2>1. receipts[o] \in Nat
      BY <1>1, <1>4 DEF TypeOK
    <2>2. /\ caller' \in Call /\ caller'.pc = "finish" /\ caller'.op = caller.op
          /\ caller'.work = o /\ caller'.expected = receipts[o]
      BY <1>2, <1>3, <1>4, <2>1 DEF Call
    <2> QED BY <1>2, <1>4, <2>2, OnwardStep DEF things
  <1>5. CASE /\ o \notin DOMAIN receipts /\ Decide("conflict")
             /\ UNCHANGED <<native, receipts, shown>>
    BY <1>2, <1>5, DecideStep DEF things, Working
  <1>6. CASE /\ o \notin DOMAIN receipts
             /\ native' = [archived |-> FALSE, rev |-> native.rev + 1]
             /\ receipts' = With(receipts, o, native.rev + 1)
             /\ caller' = [caller EXCEPT !.expected = native.rev + 1]
             /\ UNCHANGED journal /\ Watched
    <2>1. native' \in Thing /\ native'.rev = native.rev + 1 /\ ~native'.archived
          /\ native.rev + 1 \in Nat
      BY <1>1, <1>6 DEF TypeOK, Thing
    <2> DEFINE n == native.rev + 1
    <2>2. /\ caller' \in Call /\ caller'.pc = "finish" /\ caller'.op = caller.op
          /\ caller'.work = o /\ caller'.expected = n
      BY <1>2, <1>3, <1>6, <2>1 DEF Call
    <2>3. /\ DOMAIN receipts' = DOMAIN receipts \cup {o} /\ receipts'[o] = n
          /\ \A x \in DOMAIN receipts : receipts'[x] = receipts[x]
      BY <1>6 DEF With
    <2>4. shown \subseteq shown' /\ journal' = journal
      BY <1>6 DEF Watched
    <2>5. \A x \in DOMAIN receipts : receipts[x] =< native'.rev /\ receipts[x] # native'.rev
      BY <2>1, OlderReceipts
    <2>6. native'.rev = n /\ n \in Nat
      BY <2>1
    <2> HIDE DEF n, o
    <2>7. TypeOK'
      BY <1>1, <1>2, <1>3, <2>1, <2>2, <2>3, <2>4, <2>6 DEF TypeOK
    <2>8. OneAtATime'
      BY <1>1, <1>2, <2>2, <2>4 DEF OneAtATime, Newest, Working, o
    <2>9. Restores'
      BY <1>1, <1>2, <1>3, <2>2, <2>3, <2>4 DEF Restores, Work, o
    <2>10. Dated'
      BY <2>1, <2>3, <2>5, <2>6 DEF Dated
    <2>11. Seen'
      <3>1. o \notin applied
        BY <1>1, <1>2, <1>3, <1>6 DEF Restores, Work, o
      <3>2. \A x \in DOMAIN journal : journal[x].native # Nil /\ x \in applied =>
                receipts'[x] # native'.rev
        BY <1>1, <2>3, <2>5 DEF Restores
      <3> QED BY <1>1, <1>2, <2>2, <2>4, <3>2 DEF Seen, DoneWasVisible
    <2> QED BY <2>7, <2>8, <2>9, <2>10, <2>11 DEF VisibilityInv
  <1> QED BY <1>4, <1>5, <1>6 DEF RestoreNative

LEMMA TranslateStep ==
    ASSUME VisibilityInv, Translate
    PROVE  VisibilityInv'
  <1> DEFINE w == caller.work
             b == IF journal[w].base = Nil THEN meta.rev ELSE journal[w].base
  <1>1. /\ TypeOK /\ OneAtATime /\ Restores /\ Dated /\ Seen
    BY DEF VisibilityInv
  <1>2. /\ meta' = meta /\ changes' = changes /\ UNCHANGED <<things, accepted>>
        /\ caller.pc = "finish" /\ Work.native # Nil /\ caller.expected # Nil
    BY DEF Translate, outside, history, things, At
  <1>3. caller \in Call /\ w \in DOMAIN journal /\ journal[w] \in Entry /\ ~journal[w].filed
        /\ meta \in Thing
    BY <1>1, <1>2 DEF TypeOK, OneAtATime, Working
  <1>4. CASE Decide("superseded")
    BY <1>2, <1>4, DecideStep DEF Working
  <1>5. CASE /\ journal' = [journal EXCEPT ![w].expected = caller.expected,
                              ![w].base = IF @ = Nil THEN meta.rev ELSE @]
             /\ Goto("metadata")
    <2>1. /\ caller' \in Call /\ caller'.pc = "metadata" /\ caller'.op = caller.op
          /\ caller'.work = w /\ caller'.expected = caller.expected
      BY <1>3, <1>5, GotoMoves DEF Working
    <2> DEFINE r == [journal[w] EXCEPT !.expected = caller.expected, !.base = b]
    <2>2. journal' = [journal EXCEPT ![w] = r]
      BY <1>3, <1>5 DEF Entry
    <2>3. b \in Nat /\ caller.expected \in Nat
      BY <1>3 DEF Entry, Thing, Call
    <2> HIDE DEF b
    <2>4. r \in Entry
      BY Zenon, <1>3, <2>3 DEF Entry
    <2>5. DOMAIN journal[w] = {"native", "expected", "base", "verdict", "filed"}
      BY <1>3 DEF Entry
    <2>6. /\ r.native = journal[w].native /\ r.expected = caller.expected
          /\ r.verdict = journal[w].verdict /\ r.filed = journal[w].filed
      BY Zenon, <2>5
    <2> HIDE DEF r
    <2>7. /\ DOMAIN journal' = DOMAIN journal /\ journal'[w] = r
          /\ \A x \in DOMAIN journal \ {w} : journal'[x] = journal[x]
      BY <1>3, <2>2
    <2> HIDE DEF w
    <2>8. /\ native' = native /\ receipts' = receipts /\ applied' = applied
          /\ shown' = shown /\ accepted' = accepted
      BY <1>2 DEF things
    <2>9. TypeOK'
      BY <1>1, <1>2, <1>3, <2>1, <2>4, <2>7, <2>8 DEF TypeOK
    <2>10. \A x \in DOMAIN journal : /\ journal'[x].native = journal[x].native
                                     /\ journal'[x].filed = journal[x].filed
                                     /\ journal'[x].verdict = journal[x].verdict
      BY <2>6, <2>7
    <2>11. OneAtATime'
      BY <1>1, <1>2, <1>3, <2>1, <2>7, <2>8, <2>10 DEF OneAtATime, Newest, Working, w
    <2>12. w \in DOMAIN receipts /\ caller.expected = receipts[w]
      BY <1>1, <1>2 DEF Restores, Work, w
    <2>13. Restores'
      <3>1. \A x \in DOMAIN journal : journal'[x].expected # Nil =>
                x \in DOMAIN receipts /\ journal'[x].expected = receipts[x]
        BY <1>1, <2>6, <2>7, <2>12 DEF Restores
      <3> QED BY <1>1, <1>2, <2>1, <2>7, <2>8, <2>10, <2>12, <3>1 DEF Restores
    <2>14. Dated' /\ Seen'
      BY <1>1, <2>1, <2>7, <2>8, <2>10 DEF Dated, Seen, DoneWasVisible
    <2> QED BY <2>9, <2>11, <2>13, <2>14 DEF VisibilityInv
  <1> QED BY <1>4, <1>5 DEF Translate

LEMMA MetadataStep ==
    ASSUME VisibilityInv, ChangeMetadata
    PROVE  VisibilityInv'
  <1> DEFINE o == caller.work
  <1>1. /\ TypeOK /\ OneAtATime /\ Restores /\ Dated /\ Seen
    BY DEF VisibilityInv
  <1>2. /\ native' = native /\ receipts' = receipts /\ changes' = changes /\ accepted' = accepted
        /\ caller.pc = "metadata" \/ (caller.pc = "finish" /\ Work.native = Nil)
    BY DEF ChangeMetadata, outside, At
  <1>3. caller \in Call /\ o \in DOMAIN journal /\ o \in Ops
    BY <1>1, <1>2 DEF TypeOK, OneAtATime, Working
  <1>4. Work.native # Nil => /\ caller.expected # Nil /\ o \in DOMAIN receipts
                             /\ caller.expected = receipts[o] /\ Action[o] = "restore"
    BY <1>1, <1>2, <1>3 DEF Restores, Work
  <1>5. CASE /\ o \in applied /\ Goto("check")
             /\ UNCHANGED <<meta, applied, journal, shown>>
    <2>1. /\ caller' \in Call /\ caller'.pc = "check" /\ caller'.op = caller.op
          /\ caller'.work = o /\ caller'.expected = caller.expected
      BY <1>3, <1>5, GotoMoves DEF Working
    <2> QED BY <1>2, <1>4, <1>5, <2>1, OnwardStep DEF things
  <1>6. CASE /\ o \notin applied /\ Decide("conflict") /\ UNCHANGED <<meta, applied, shown>>
    BY <1>2, <1>6, DecideStep DEF things, Working
  <1>7. CASE /\ o \notin applied
             /\ meta' = [archived |-> Action[o] = "archive", rev |-> meta.rev + 1]
             /\ applied' = applied \cup {o} /\ Goto("check")
             /\ UNCHANGED journal /\ Watched
    <2>1. /\ caller' \in Call /\ caller'.pc = "check" /\ caller'.op = caller.op
          /\ caller'.work = o /\ caller'.expected = caller.expected
      BY <1>3, <1>7, GotoMoves DEF Working
    <2>2. meta' \in Thing /\ meta'.archived = (Action[o] = "archive")
      BY <1>1, <1>7 DEF TypeOK, Thing
    <2>3. shown \subseteq shown' /\ journal' = journal
      BY <1>7 DEF Watched
    <2> HIDE DEF o
    <2>4. TypeOK'
      BY <1>1, <1>2, <2>1, <2>2, <2>3 DEF TypeOK
    <2>5. OneAtATime'
      BY <1>1, <1>2, <2>1, <2>3 DEF OneAtATime, Newest, Working, o
    <2>6. Restores'
      BY <1>1, <1>2, <1>3, <1>4, <1>7, <2>1, <2>3 DEF Restores, Work, o
    <2>7. Dated'
      BY <1>1, <1>2 DEF Dated
    <2>8. Seen'
      <3>1. journal[o].native # Nil /\ receipts[o] = native.rev => o \in shown'
        <4> HAVE journal[o].native # Nil /\ receipts[o] = native.rev
        <4>1. ~native.archived /\ ~meta'.archived
          BY <1>1, <1>4, <2>2 DEF Dated, Work, o
        <4> QED BY <1>2, <1>3, <1>7, <4>1 DEF Watched
      <3> QED BY <1>1, <1>2, <1>7, <2>1, <2>3, <3>1 DEF Seen, DoneWasVisible
    <2> QED BY <2>4, <2>5, <2>6, <2>7, <2>8 DEF VisibilityInv
  <1> QED BY <1>5, <1>6, <1>7 DEF ChangeMetadata

LEMMA CheckStep ==
    ASSUME VisibilityInv, Check
    PROVE  VisibilityInv'
  <1>1. /\ meta' = meta /\ changes' = changes /\ UNCHANGED <<things, accepted>>
        /\ caller.pc = "check"
    BY DEF Check, outside, history, things, At
  <1>2. CASE Decide("superseded")
    BY <1>1, <1>2, DecideStep DEF Working
  <1>3. CASE (Work.native # Nil => Matches) /\ Goto("result") /\ UNCHANGED journal
    <2>1. caller \in Call /\ caller.work \in DOMAIN journal /\ caller.work \in applied
      BY <1>1 DEF VisibilityInv, TypeOK, OneAtATime, Restores, Working
    <2>2. /\ caller' \in Call /\ caller'.pc = "result" /\ caller'.op = caller.op
          /\ caller'.work = caller.work
      BY <1>3, <2>1, GotoMoves DEF Working
    <2>3. Work.native # Nil => caller.work \in shown
      BY <1>1, <1>3, <2>1 DEF VisibilityInv, Restores, Seen, Matches, Work
    <2> QED BY <1>1, <1>3, <2>1, <2>2, <2>3, OnwardStep
  <1> QED BY <1>2, <1>3 DEF Check
-----------------------------------------------------------------------------
(* The theorems *)

LEMMA VisibilityInit == Init => VisibilityInv
  <1> HAVE Init
  <1>1. /\ native \in Thing /\ meta \in Thing /\ caller = Idle /\ DOMAIN receipts = {}
        /\ applied = {} /\ DOMAIN journal = {} /\ changes = 0 /\ accepted = <<>>
    BY DEF Init, Thing
  <1>2. TypeOK
    BY <1>1, IdleCall DEF TypeOK
  <1>3. OneAtATime /\ Restores /\ Dated /\ Seen
    BY <1>1, IdleCall DEF OneAtATime, Restores, Dated, Seen, DoneWasVisible, Working
  <1> QED BY <1>2, <1>3 DEF VisibilityInv

\* The invariant is inductive.
LEMMA VisibilityStep ==
    ASSUME VisibilityInv, [Next]_vars
    PROVE  VisibilityInv'
  <1>1. meta \in Thing /\ changes \in Nat
    BY DEF VisibilityInv, TypeOK
  <1>2. CASE UNCHANGED vars
    BY <1>1, <1>2, QuietStep DEF vars, outside, history, things
  <1>3. ASSUME NEW o \in Ops, Review(o)
        PROVE  VisibilityInv'
    BY <1>1, <1>3, QuietStep DEF Review, outside, history, things
  <1>4. CASE DeleteAnother
    <2>1. meta' \in Thing /\ changes' \in Nat
      BY <1>1, <1>4 DEF DeleteAnother, Thing
    <2> QED BY <1>4, <2>1, QuietStep DEF DeleteAnother, history, things
  <1>5. CASE Fail
    <2>1. caller' = Idle /\ meta' = meta /\ changes' = changes
          /\ UNCHANGED <<things, journal, accepted>>
      BY <1>5 DEF Fail, history, things
    <2> QED BY <2>1, IdleCall, CallerStep
  <1>6. CASE WriteResult
    <2>1. /\ meta' = meta /\ changes' = changes /\ UNCHANGED <<things, accepted>>
          /\ caller.pc = "result" /\ Decide("done")
      BY <1>6 DEF WriteResult, outside, history, things, At
    <2> QED BY <2>1, DecideStep DEF Working
  <1> QED BY <1>2, <1>3, <1>4, <1>5, <1>6, LifecycleStep, RecoverStep, AcceptStep,
             RestoreStep, TranslateStep, MetadataStep, CheckStep, CompleteStep, NativeStep
          DEF Next, Finish

\* Every state, whatever failed and whoever else wrote, is one of the invariant's.
THEOREM VisibilityInvariant == Spec => []VisibilityInv
  <1>1. VisibilityInv /\ [Next]_vars => VisibilityInv'
    BY VisibilityStep
  <1> QED BY <1>1, VisibilityInit, PTL DEF Spec

\* A restore that is done was seen: at some moment since it was accepted the object
\* was visible, in its own store and in the metadata.
THEOREM DoneRestoreWasVisible == Spec => []DoneWasVisible
  <1>1. VisibilityInv => DoneWasVisible
    BY DEF VisibilityInv, Seen
  <1> QED BY <1>1, VisibilityInvariant, PTL

\* No retry or recovery of an older operation changes the object in either place.
THEOREM OnlyNewestDecides == Spec => NewestDecides
  <1>1. VisibilityInv /\ [Next]_vars =>
          [(caller.pc \in {"finish", "metadata"} /\ (meta' # meta \/ native' # native)
            /\ UNCHANGED changes) => caller.work = accepted[Len(accepted)]]_vars
    BY DEF VisibilityInv, OneAtATime, Newest, Working
  <1> QED BY <1>1, VisibilityInvariant, PTL DEF Spec, NewestDecides
=============================================================================
