----------------------- MODULE DetectiveJournalProofs -----------------------
(* What holds of DetectiveJournal for every set of callers and operations,   *)
(* whatever fails, is killed or is called again.                             *)
EXTENDS DetectiveJournal, FiniteSetTheorems, SequenceTheorems, TLAPS

Entry == [produced : BOOLEAN, done : BOOLEAN, linked : {"open", "yes", "no"},
          started : BOOLEAN, before : Seq(Ops), after : Seq(Ops)]
ProcState == [pc : {"idle", "reconcile", "own", "audit", "away"}, op : Ops \cup {NoOp},
              seen : Nat, section : Nat]

\* The Case, the journal and the audit log have the shapes the files have.
TypeOK ==
    /\ site \in Sites
    /\ case \in Seq(Ops) /\ audit \in Seq(Ops \X {"case", "run"})
    /\ DOMAIN journal \subseteq Ops /\ \A o \in DOMAIN journal : journal[o] \in Entry
    /\ proc \in [Procs -> ProcState]
    /\ \A p \in Procs : proc[p].pc # "idle" => p \in site.procs /\ proc[p].op \in site.ops

\* Whoever is in a section has the lock; only calls with several sections are
\* ever away, and a run that comes back with a result finds its receipt.
Sections ==
    \A p \in Procs :
        /\ proc[p].pc \in {"reconcile", "own", "audit"} <=> lock = p
        /\ proc[p].pc = "away" => Kind[proc[p].op] \notin {"direct", "confirm"}
        /\ proc[p].pc = "audit" => Kind[proc[p].op] = "direct"
        /\ proc[p].pc # "idle" /\ proc[p].section = 3 /\ IsRun(proc[p].op) =>
              proc[p].op \in DOMAIN journal

\* An image leads from a Case without the operation to that Case with it.
ImageOK(o, r) ==
    /\ Kind[o] # "direct"
    /\ r.linked = "yes" => /\ r.produced /\ r.after = Append(r.before, o)
                           /\ ~Appended(r.before, o)
    /\ r.done => r.produced /\ r.linked # "open"
    /\ r.produced /\ r.linked # "yes" => IsRun(o)
    /\ r.linked = "no" => r.produced

ImagesAppend == \A o \in DOMAIN journal : ImageOK(o, journal[o])

\* What is in the Case came from its image or from a direct mutation, and what
\* is in the audit log is in the Case.
Traced ==
    /\ \A o \in Ops : Appended(case, o) /\ Kind[o] # "direct" =>
          o \in DOMAIN journal /\ journal[o].linked = "yes"
    /\ \A o \in Ops : Appended(audit, <<o, "case">>) => Appended(case, o)
    /\ \A p \in Procs : proc[p].pc \in {"reconcile", "own"} /\ Kind[proc[p].op] = "direct" =>
          ~Appended(case, proc[p].op)
    /\ \A p \in Procs : proc[p].pc = "audit" =>
          Appended(case, proc[p].op) /\ ~Appended(audit, <<proc[p].op, "case">>)

\* What a caller may be told is done.
There(o) ==
    \/ Appended(case, o) /\ Appended(audit, <<o, "case">>)
    \/ IsRun(o) /\ journal[o].linked = "no" /\ Appended(audit, <<o, "run">>)

\* An operation is marked done once all of it is written, and acknowledged later.
DoneIsThere ==
    /\ \A o \in DOMAIN journal : journal[o].done => There(o)
    /\ \A o \in acked : \/ Appended(case, o) /\ Appended(audit, <<o, "case">>)
                        \/ o \in DOMAIN journal /\ journal[o].done

\* Nothing is in the Case twice, and nothing in the audit log.
Once(log, x) == \A i, j \in DOMAIN log : log[i] = x /\ log[j] = x => i = j
AllOnce ==
    /\ \A o \in Ops : Once(case, o)
    /\ \A x \in Ops \X {"case", "run"} : Once(audit, x)

\* In one section: past its reconciliation a call is the only one with an
\* operation under way, so that no image is overtaken.
OnePending ==
    OneSection =>
        /\ \A p \in Procs : proc[p].pc \in {"own", "away", "audit"} => Others(p) = {}
        /\ \A o, q \in DOMAIN journal : Pending(o) /\ Pending(q) => o = q
        /\ NeverStranded
-----------------------------------------------------------------------------
(* Sequences that are only appended to *)

\* An appended log has what it had, in its place, and the new element.
LEMMA AppendedGrows ==
    ASSUME NEW S, NEW s \in Seq(S), NEW x \in S
    PROVE  /\ Append(s, x) \in Seq(S)
           /\ \A y : Appended(Append(s, x), y) <=> Appended(s, y) \/ y = x
           /\ Len(Append(s, x)) >= Len(s) /\ SubSeq(Append(s, x), 1, Len(s)) = s
  <1>1. /\ Append(s, x) \in Seq(S) /\ Len(Append(s, x)) = Len(s) + 1
        /\ \A i \in 1 .. Len(s) : Append(s, x)[i] = s[i]
        /\ Append(s, x)[Len(s) + 1] = x /\ Len(s) \in Nat
    BY AppendProperties, LenProperties
  <1>2. DOMAIN s = 1 .. Len(s) /\ DOMAIN Append(s, x) = 1 .. Len(s) + 1
    BY <1>1, LenProperties
  <1>3. \A y : Appended(Append(s, x), y) <=> Appended(s, y) \/ y = x
    BY <1>1, <1>2 DEF Appended
  <1>4. SubSeq(Append(s, x), 1, Len(s)) = s
    <2> DEFINE t == SubSeq(Append(s, x), 1, Len(s))
    <2>1. t \in Seq(S) /\ Len(t) = Len(s) /\ \A i \in 1 .. Len(s) : t[i] = s[i]
      BY <1>1, SubSeqProperties
    <2> HIDE DEF t
    <2>2. t = s
      BY <2>1, SeqEqual
    <2> QED BY <2>2 DEF t
  <1> QED BY <1>1, <1>3, <1>4

\* Appending what is not there keeps everything there at most once.
LEMMA OnceGrows ==
    ASSUME NEW S, NEW s \in Seq(S), NEW x \in S, ~Appended(s, x), NEW y, Once(s, y)
    PROVE  Once(Append(s, x), y)
  <1>1. /\ Len(Append(s, x)) = Len(s) + 1
        /\ \A i \in 1 .. Len(s) : Append(s, x)[i] = s[i]
        /\ Append(s, x)[Len(s) + 1] = x /\ Len(s) \in Nat /\ Append(s, x) \in Seq(S)
    BY AppendProperties, LenProperties
  <1>2. DOMAIN s = 1 .. Len(s) /\ DOMAIN Append(s, x) = 1 .. Len(s) + 1
    BY <1>1, LenProperties
  <1> QED BY <1>1, <1>2 DEF Once, Appended

\* At most one place is a count of at most one.
LEMMA OnceCounts ==
    ASSUME NEW log, NEW x, Once(log, x)
    PROVE  Count(log, x) =< 1
  <1> DEFINE I == {i \in DOMAIN log : log[i] = x}
  <1>1. CASE I = {}
    BY <1>1, FS_EmptySet DEF Count
  <1>2. CASE I # {}
    <2>1. PICK i \in I : I = {i}
      BY <1>2 DEF Once
    <2>2. Cardinality({i}) = 1
      BY FS_Singleton
    <2>3. Cardinality(I) = 1
      BY <2>1, <2>2
    <2> QED BY <2>3 DEF Count
  <1> QED BY <1>1, <1>2
-----------------------------------------------------------------------------
(* What a step does to the processes *)

ProcsOK == TypeOK /\ Sections

\* Leaving a section changes the place of one process and counts the section.
LEMMA LeaveMoves ==
    ASSUME TypeOK, NEW p \in Procs, Leave(p)
    PROVE  /\ proc' \in [Procs -> ProcState]
           /\ proc'[p].pc = "away" /\ proc'[p].op = proc[p].op
           /\ proc'[p].section = proc[p].section + 1
           /\ \A q \in Procs \ {p} : proc'[q] = proc[q]
           /\ lock' = NoProc
  <1> DEFINE x == [proc[p] EXCEPT !.pc = "away", !.section = proc[p].section + 1]
  <1>1. proc[p] \in ProcState /\ proc \in [Procs -> ProcState]
    BY DEF TypeOK
  <1>2. proc[p].section + 1 \in Nat
    BY <1>1 DEF ProcState
  <1>3. /\ x \in ProcState
        /\ x.pc = "away" /\ x.op = proc[p].op /\ x.section = proc[p].section + 1
    <2> DEFINE n == proc[p].section + 1
    <2> HIDE DEF n
    <2>1. [proc[p] EXCEPT !.pc = "away", !.section = n] \in ProcState
      BY Zenon, <1>1, <1>2 DEF ProcState, n
    <2>2. LET y == [proc[p] EXCEPT !.pc = "away", !.section = n]
          IN y.pc = "away" /\ y.op = proc[p].op /\ y.section = n
      BY Zenon, <1>1 DEF ProcState
    <2> QED BY <2>1, <2>2 DEF n
  <1>4. proc' = [proc EXCEPT ![p].pc = "away", ![p].section = @ + 1] /\ lock' = NoProc
    BY DEF Leave
  <1>5. proc' = [proc EXCEPT ![p] = x]
    BY <1>1, <1>4
  <1> HIDE DEF x
  <1> QED BY <1>1, <1>3, <1>4, <1>5

\* What a step may make of one process, with the lock.
ProcMove(p) ==
    \/ proc'[p] = proc[p] /\ lock' = lock
    \/ /\ proc[p].pc = "idle" /\ lock = NoProc /\ lock' = p
       /\ proc'[p].pc = (IF Reconciles(proc'[p].op) THEN "reconcile" ELSE "own")
       /\ proc'[p].op \in site.ops /\ proc'[p].section \in {1, 2}
       /\ Kind[proc'[p].op] = "direct" => ~Appended(case, proc'[p].op)
       /\ UNCHANGED <<case, journal, audit>>
    \/ /\ proc'[p].pc = "idle"
       /\ lock' = IF Holds(p) THEN NoProc ELSE lock
    \/ /\ proc[p].pc = "reconcile" /\ Others(p) = {} /\ proc'[p].pc = "own"
       /\ UNCHANGED <<case, journal, audit>>
       /\ proc'[p].op = proc[p].op /\ proc'[p].section = proc[p].section /\ lock' = lock
    \/ /\ proc[p].pc = "own" /\ proc'[p].pc = "audit" /\ Mutate(p)
       /\ proc'[p].op = proc[p].op /\ proc'[p].section = proc[p].section /\ lock' = lock
    \/ /\ proc[p].pc = "own" /\ Produce(p) /\ proc'[p].pc = "own"
       /\ proc'[p].op = proc[p].op /\ proc'[p].section = 4 /\ lock' = lock
    \/ /\ proc[p].pc = "own" /\ proc'[p].pc = "away" /\ lock' = NoProc
       /\ proc'[p].op = proc[p].op /\ proc'[p].section = proc[p].section + 1
       /\ Kind[proc[p].op] \notin {"direct", "confirm"}
       /\ \/ Accept(p) \/ Dispatch(p)
          \/ proc[p].section = 1 /\ UNCHANGED <<case, journal, audit>>
    \/ /\ proc[p].pc = "away" /\ lock = NoProc /\ lock' = p
       /\ proc'[p].pc \in {"reconcile", "own"}
       /\ proc'[p].op = proc[p].op /\ proc'[p].section = proc[p].section
       /\ UNCHANGED <<case, journal, audit>>

\* Every step moves one process of the site, if any.
LEMMA ProcsMove ==
    ASSUME ProcsOK, [Next]_vars
    PROVE  /\ site' = site /\ proc' \in [Procs -> ProcState]
           /\ \/ proc' = proc /\ lock' = lock /\ UNCHANGED <<case, journal, audit>>
              \/ \E p \in site.procs : /\ p \in Procs /\ ProcMove(p)
                                       /\ \A q \in Procs \ {p} : proc'[q] = proc[q]
  <1> USE JournalAssumption
  <1> DEFINE Goal == /\ site' = site /\ proc' \in [Procs -> ProcState]
                     /\ \/ proc' = proc /\ lock' = lock /\ UNCHANGED <<case, journal, audit>>
                        \/ \E p \in site.procs :
                              /\ p \in Procs /\ ProcMove(p)
                              /\ \A q \in Procs \ {p} : proc'[q] = proc[q]
  <1>1. /\ site \in Sites /\ site.procs \subseteq Procs /\ site.ops \subseteq Ops
        /\ proc \in [Procs -> ProcState] /\ case \in Seq(Ops)
    BY DEF ProcsOK, TypeOK
  <1>2. Idle \in ProcState /\ Idle.pc = "idle"
    BY DEF Idle, ProcState
  <1>3. ASSUME UNCHANGED vars
        PROVE  Goal
    BY <1>1, <1>3 DEF vars
  <1>4. ASSUME NEW p \in site.procs, NEW o \in site.ops, Start(p, o)
        PROVE  Goal
    <2> DEFINE c == IF Reconciles(o) THEN "reconcile" ELSE "own"
               n == IF Kind[o] = "native" THEN 2 ELSE 1
               x == [pc |-> c, op |-> o, seen |-> Len(case), section |-> n]
    <2>0. c \in {"reconcile", "own"} /\ n \in {1, 2}
      OBVIOUS
    <2>1. x \in ProcState
      <3> HIDE DEF c, n
      <3> QED BY <1>1, <2>0, LenProperties DEF ProcState
    <2>2. proc' = [proc EXCEPT ![p] = x] /\ site' = site /\ UNCHANGED <<case, journal, audit>>
          /\ proc[p].pc = "idle" /\ lock = NoProc /\ lock' = p
          /\ (Kind[o] = "direct" => ~Appended(case, o))
      BY <1>4 DEF Start
    <2>3. x.pc = (IF Reconciles(o) THEN "reconcile" ELSE "own") /\ x.op = o /\ x.section \in {1, 2}
      BY <2>0
    <2> HIDE DEF x, c, n
    <2>4. p \in Procs /\ proc'[p] = x /\ \A q \in Procs \ {p} : proc'[q] = proc[q]
      BY <1>1, <2>2
    <2>5. ProcMove(p)
      BY <2>2, <2>3, <2>4 DEF ProcMove
    <2>6. proc' \in [Procs -> ProcState]
      BY <1>1, <2>1, <2>2
    <2> QED BY <2>2, <2>4, <2>5, <2>6
  <1>5. ASSUME NEW p \in site.procs, proc' = [proc EXCEPT ![p] = Idle], site' = site,
               lock' = IF Holds(p) THEN NoProc ELSE lock
        PROVE  Goal
    <2>1. p \in Procs /\ proc'[p] = Idle /\ (\A q \in Procs \ {p} : proc'[q] = proc[q])
          /\ proc' \in [Procs -> ProcState]
      BY <1>1, <1>2, <1>5
    <2>2. ProcMove(p)
      BY <1>2, <1>5, <2>1 DEF ProcMove
    <2> QED BY <1>5, <2>1, <2>2
  <1>6. ASSUME NEW p \in site.procs, Fail(p)
        PROVE  Goal
    BY <1>5, <1>6 DEF Fail
  <1>7. ASSUME NEW p \in site.procs, proc' = proc, lock' = lock, site' = site
        PROVE  Goal
    <2>1. p \in Procs /\ ProcMove(p)
      BY <1>1, <1>7 DEF ProcMove
    <2> QED BY <1>1, <1>7, <2>1
  <1>8. ASSUME NEW p \in site.procs, Reconcile(p)
        PROVE  Goal
    <2>1. CASE proc' = proc
      BY <1>7, <1>8, <2>1 DEF Reconcile
    <2>2. CASE proc' # proc
      <3>1. /\ proc[p].pc = "reconcile" /\ Others(p) = {} /\ lock' = lock /\ site' = site
            /\ UNCHANGED <<case, journal, audit>>
            /\ proc' = [proc EXCEPT ![p].pc = "own"]
        BY <1>8, <2>2 DEF Reconcile
      <3>2. /\ p \in Procs /\ proc' \in [Procs -> ProcState]
            /\ \A q \in Procs \ {p} : proc'[q] = proc[q]
            /\ proc'[p].pc = "own" /\ proc'[p].op = proc[p].op
            /\ proc'[p].section = proc[p].section
        BY <1>1, <3>1 DEF ProcState
      <3>3. ProcMove(p)
        BY <3>1, <3>2 DEF ProcMove
      <3> QED BY <3>1, <3>2, <3>3
    <2> QED BY <2>1, <2>2
  <1>9. ASSUME NEW p \in site.procs, Replay(p)
        PROVE  Goal
    <2>1. CASE proc' = proc /\ lock' = lock
      BY <1>7, <1>9, <2>1 DEF Replay
    <2>2. CASE Return(p)
      <3>1. lock = p
        BY <1>1, <1>9 DEF ProcsOK, Sections, Replay
      <3> QED BY <1>5, <1>9, <2>2, <3>1 DEF Replay, Return, Holds
    <2> QED BY <1>9, <2>1, <2>2 DEF Replay
  <1>10. ASSUME NEW p \in site.procs, Mutate(p)
         PROVE  Goal
    <2>1. /\ proc[p].pc = "own" /\ lock' = lock /\ site' = site
          /\ proc' = [proc EXCEPT ![p].pc = "audit"]
      BY <1>10 DEF Mutate, New
    <2>2. /\ p \in Procs /\ proc' \in [Procs -> ProcState]
          /\ \A q \in Procs \ {p} : proc'[q] = proc[q]
          /\ proc'[p].pc = "audit" /\ proc'[p].op = proc[p].op
          /\ proc'[p].section = proc[p].section
      BY <1>1, <2>1 DEF ProcState
    <2>3. ProcMove(p)
      BY <1>10, <2>1, <2>2 DEF ProcMove
    <2> QED BY <2>1, <2>2, <2>3
  <1>11. ASSUME NEW p \in site.procs, MutateAudit(p)
         PROVE  Goal
    <2>1. lock = p
      BY <1>1, <1>11 DEF ProcsOK, Sections, MutateAudit
    <2> QED BY <1>5, <1>11, <2>1 DEF MutateAudit, Return, Holds
  <1>12. ASSUME NEW p \in site.procs, Prepare(p)
         PROVE  Goal
    BY <1>7, <1>12 DEF Prepare
  <1>12a. ASSUME NEW p \in site.procs, AcceptNative(p)
          PROVE  Goal
    BY <1>7, <1>12a DEF AcceptNative
  <1>13. ASSUME NEW p \in site.procs, Accept(p) \/ Dispatch(p) \/ GoOn(p)
         PROVE  Goal
    <2>1. p \in Procs /\ Leave(p) /\ site' = site /\ proc[p].pc = "own"
      BY <1>1, <1>13 DEF Accept, Dispatch, GoOn, New
    <2>2. /\ proc' \in [Procs -> ProcState]
          /\ proc'[p].pc = "away" /\ proc'[p].op = proc[p].op
          /\ proc'[p].section = proc[p].section + 1
          /\ \A q \in Procs \ {p} : proc'[q] = proc[q]
          /\ lock' = NoProc
      BY <2>1, LeaveMoves DEF ProcsOK
    <2>3. /\ Kind[proc[p].op] \notin {"direct", "confirm"}
          /\ \/ Accept(p) \/ Dispatch(p)
             \/ proc[p].section = 1 /\ UNCHANGED <<case, journal, audit>>
      <3>1. CASE Accept(p) \/ Dispatch(p)
        BY <3>1 DEF Accept, Dispatch, Doing
      <3>2. CASE GoOn(p)
        <4>1. proc[p].section = 1 /\ UNCHANGED <<case, journal, audit>>
          BY <3>2 DEF GoOn
        <4>2. Kind[Doing(p)] \in {"action", "run", "ai-run", "incident"}
          BY <3>2 DEF GoOn, IsRun
        <4> QED BY <4>1, <4>2 DEF Doing
      <3> QED BY <1>13, <3>1, <3>2
    <2>4. ProcMove(p)
      BY <2>1, <2>2, <2>3 DEF ProcMove
    <2> QED BY <2>1, <2>2, <2>4
  <1>14. ASSUME NEW p \in site.procs, Resume(p)
         PROVE  Goal
    <2> DEFINE c == IF Kind[Doing(p)] = "ai-run" /\ proc[p].section = 2 THEN "reconcile" ELSE "own"
    <2>1. c \in {"reconcile", "own"}
      OBVIOUS
    <2>2. /\ proc[p].pc = "away" /\ lock = NoProc /\ lock' = p /\ site' = site
          /\ UNCHANGED <<case, journal, audit>>
          /\ proc' = [proc EXCEPT ![p].pc = c]
      BY <1>14 DEF Resume
    <2> HIDE DEF c
    <2>3. /\ p \in Procs /\ proc' \in [Procs -> ProcState]
          /\ \A q \in Procs \ {p} : proc'[q] = proc[q]
          /\ proc'[p].pc = c /\ proc'[p].op = proc[p].op
          /\ proc'[p].section = proc[p].section
      BY <1>1, <2>1, <2>2 DEF ProcState
    <2>4. ProcMove(p)
      BY <2>1, <2>2, <2>3 DEF ProcMove
    <2> QED BY <2>2, <2>3, <2>4
  <1>15. ASSUME NEW p \in site.procs, Produce(p)
         PROVE  Goal
    <2>1. /\ proc[p].pc = "own" /\ lock' = lock /\ site' = site
          /\ proc' = [proc EXCEPT ![p].section = 4]
      BY <1>15 DEF Produce
    <2>2. /\ p \in Procs /\ proc' \in [Procs -> ProcState]
          /\ \A q \in Procs \ {p} : proc'[q] = proc[q]
          /\ proc'[p].pc = "own" /\ proc'[p].op = proc[p].op
          /\ proc'[p].section = 4
      BY <1>1, <2>1 DEF ProcState
    <2>3. ProcMove(p)
      BY <1>15, <2>1, <2>2 DEF ProcMove
    <2> QED BY <2>1, <2>2, <2>3
  <1> HIDE DEF Goal
  <1>16. Goal
    BY <1>3, <1>4, <1>6, <1>8, <1>9, <1>10, <1>11, <1>12, <1>12a, <1>13,
       <1>14, <1>15 DEF Next
  <1> QED BY <1>16 DEF Goal
-----------------------------------------------------------------------------
(* What a step does to the journal *)

JournalInv == TypeOK /\ Sections /\ ImagesAppend /\ Traced

\* The files change when an operation under way is finished, when a new one is
\* journaled, and when a direct mutation writes; not otherwise.
LEMMA StepKinds ==
    ASSUME [Next]_vars
    PROVE  \/ UNCHANGED <<case, journal, audit>>
           \/ \E o \in DOMAIN journal : Pending(o) /\ FinishStep(o)
           \/ \E p \in site.procs :
                 \/ Mutate(p) \/ MutateAudit(p) \/ Prepare(p) \/ Accept(p)
                 \/ AcceptNative(p) \/ Dispatch(p) \/ Produce(p)
  <1>1. ASSUME NEW p, Reconcile(p)
        PROVE  \/ UNCHANGED <<case, journal, audit>>
               \/ \E o \in DOMAIN journal : Pending(o) /\ FinishStep(o)
    BY <1>1 DEF Reconcile, Others
  <1>2. ASSUME NEW p, Replay(p)
        PROVE  \/ UNCHANGED <<case, journal, audit>>
               \/ \E o \in DOMAIN journal : Pending(o) /\ FinishStep(o)
    BY <1>2 DEF Replay, Pending
  <1>3. ASSUME UNCHANGED vars
        PROVE  UNCHANGED <<case, journal, audit>>
    BY <1>3 DEF vars
  <1>4. ASSUME NEW p, NEW o, Start(p, o)
        PROVE  UNCHANGED <<case, journal, audit>>
    BY <1>4 DEF Start
  <1>5. ASSUME NEW p, Fail(p) \/ GoOn(p) \/ Resume(p)
        PROVE  UNCHANGED <<case, journal, audit>>
    BY <1>5 DEF Fail, GoOn, Resume
  <1> QED BY <1>1, <1>2, <1>3, <1>4, <1>5 DEF Next

\* Writing one entry leaves the others alone.
LEMMA PutEffect ==
    ASSUME NEW o, NEW r, Put(o, r)
    PROVE  /\ DOMAIN journal' = DOMAIN journal \cup {o} /\ journal'[o] = r
           /\ \A x \in DOMAIN journal \ {o} : journal'[x] = journal[x]
  BY DEF Put

\* What an entry never takes back: its result, its end, its images.
EntryKeeps(r, s) ==
    /\ r.produced => s.produced
    /\ r.done => s = r
    /\ r.linked # "open" => s.linked = r.linked /\ s.before = r.before /\ s.after = r.after

\* What any step does to the journal.
JournalMove ==
    /\ DOMAIN journal \subseteq DOMAIN journal' /\ DOMAIN journal' \subseteq Ops
    /\ \A o \in DOMAIN journal' : journal'[o] \in Entry /\ ImageOK(o, journal'[o])
    /\ \A o \in DOMAIN journal : EntryKeeps(journal[o], journal'[o])
    /\ \A o \in DOMAIN journal' : journal'[o].done =>
          /\ o \in DOMAIN journal /\ journal'[o].linked = journal[o].linked
          /\ journal[o].done \/ (There(o) /\ UNCHANGED <<case, audit>>)

\* One written entry is such a step.
LEMMA PutMoves ==
    ASSUME JournalInv, NEW o \in Ops, NEW r \in Entry, ImageOK(o, r), Put(o, r),
           o \in DOMAIN journal => EntryKeeps(journal[o], r),
           r.done => /\ o \in DOMAIN journal /\ r.linked = journal[o].linked
                     /\ There(o) /\ UNCHANGED <<case, audit>>
    PROVE  JournalMove
  <1>1. /\ DOMAIN journal' = DOMAIN journal \cup {o} /\ journal'[o] = r
        /\ \A x \in DOMAIN journal \ {o} : journal'[x] = journal[x]
    BY PutEffect
  <1>2. /\ DOMAIN journal \subseteq Ops
        /\ \A x \in DOMAIN journal : journal[x] \in Entry /\ ImageOK(x, journal[x])
    BY DEF JournalInv, TypeOK, ImagesAppend
  <1>3. \A x \in DOMAIN journal : EntryKeeps(journal[x], journal'[x])
    <2> TAKE x \in DOMAIN journal
    <2>1. CASE x = o
      BY <1>1, <2>1
    <2>2. CASE x # o
      BY <1>1, <2>2 DEF EntryKeeps
    <2> QED BY <2>1, <2>2
  <1>4. \A x \in DOMAIN journal' : journal'[x] \in Entry /\ ImageOK(x, journal'[x])
    <2> TAKE x \in DOMAIN journal'
    <2>1. CASE x = o
      BY <1>1, <2>1
    <2>2. CASE x # o
      BY <1>1, <1>2, <2>2
    <2> QED BY <2>1, <2>2
  <1>5. \A x \in DOMAIN journal' : journal'[x].done =>
          /\ x \in DOMAIN journal /\ journal'[x].linked = journal[x].linked
          /\ journal[x].done \/ (There(x) /\ UNCHANGED <<case, audit>>)
    <2> TAKE x \in DOMAIN journal'
    <2>1. CASE x = o
      BY <1>1, <2>1
    <2>2. CASE x # o
      BY <1>1, <1>2, <2>2
    <2> QED BY <2>1, <2>2
  <1> QED BY <1>1, <1>2, <1>3, <1>4, <1>5 DEF JournalMove

\* Finishing an operation moves the journal forward.
LEMMA FinishJournal ==
    ASSUME JournalInv, NEW o \in DOMAIN journal, Pending(o), FinishStep(o)
    PROVE  JournalMove
  <1> DEFINE r == journal[o]
  <1>1. o \in Ops /\ r \in Entry /\ ImageOK(o, r) /\ r.produced /\ ~r.done /\ case \in Seq(Ops)
        /\ audit \in Seq(Ops \X {"case", "run"})
    BY DEF JournalInv, TypeOK, ImagesAppend, Pending
  <1>2. DOMAIN r = {"produced", "done", "linked", "started", "before", "after"}
    BY <1>1 DEF Entry
  <1>3. ASSUME UNCHANGED journal
        PROVE  JournalMove
    BY <1>3 DEF JournalMove, JournalInv, TypeOK, ImagesAppend, EntryKeeps
  <1>4. ASSUME r.linked = "open", DecideLink(o)
        PROVE  JournalMove
    <2>1. IsRun(o) /\ Kind[o] # "direct" /\ ~Appended(case, o)
      BY <1>1, <1>4 DEF ImageOK, JournalInv, Traced
    <2>2. ASSUME Put(o, [r EXCEPT !.linked = "yes", !.before = case, !.after = Append(case, o)])
          PROVE  JournalMove
      <3> DEFINE y == [r EXCEPT !.linked = "yes", !.before = case, !.after = Append(case, o)]
      <3>1. Append(case, o) \in Seq(Ops)
        BY <1>1, AppendedGrows
      <3>2. y \in Entry
        BY Zenon, <1>1, <3>1 DEF Entry
      <3>3. /\ y.linked = "yes" /\ y.before = case /\ y.after = Append(case, o)
            /\ y.produced = r.produced /\ y.done = r.done
        BY Zenon, <1>2
      <3>4. Put(o, y)
        BY <2>2
      <3> HIDE DEF y
      <3>5. ImageOK(o, y)
        BY <1>1, <2>1, <3>3 DEF ImageOK
      <3>6. EntryKeeps(r, y)
        BY <1>1, <1>4, <3>3 DEF EntryKeeps
      <3> QED BY <1>1, <3>2, <3>3, <3>4, <3>5, <3>6, PutMoves
    <2>3. ASSUME Put(o, [r EXCEPT !.linked = "no"])
          PROVE  JournalMove
      <3> DEFINE y == [r EXCEPT !.linked = "no"]
      <3>1. y \in Entry
        BY Zenon, <1>1 DEF Entry
      <3>2. /\ y.linked = "no" /\ y.before = r.before /\ y.after = r.after
            /\ y.produced = r.produced /\ y.done = r.done
        BY Zenon, <1>2
      <3>3. Put(o, y)
        BY <2>3
      <3> HIDE DEF y
      <3>4. ImageOK(o, y)
        BY <1>1, <2>1, <3>2 DEF ImageOK
      <3>5. EntryKeeps(r, y)
        BY <1>1, <1>4, <3>2 DEF EntryKeeps
      <3> QED BY <1>1, <3>1, <3>2, <3>3, <3>4, <3>5, PutMoves
    <2> QED BY <1>4, <2>2, <2>3 DEF DecideLink
  <1>5. ASSUME RunAudited(o), r.linked = "no" \/ (r.linked = "yes" /\ case = r.after /\ ~Missing(o)),
               Put(o, [r EXCEPT !.done = TRUE]), UNCHANGED <<case, audit>>
        PROVE  JournalMove
    <2> DEFINE y == [r EXCEPT !.done = TRUE]
    <2>1. y \in Entry
      BY Zenon, <1>1 DEF Entry
    <2>2. /\ y.linked = r.linked /\ y.before = r.before /\ y.after = r.after
          /\ y.produced = r.produced /\ y.done = TRUE
      BY Zenon, <1>2
    <2>3. Put(o, y)
      BY <1>5
    <2> HIDE DEF y
    <2>4. ImageOK(o, y)
      BY <1>1, <1>5, <2>2 DEF ImageOK
    <2>5. EntryKeeps(r, y)
      BY <1>1, <2>2 DEF EntryKeeps
    <2>6. There(o)
      <3>1. CASE r.linked = "no"
        BY <1>1, <1>5, <3>1 DEF There, ImageOK, RunAudited
      <3>2. CASE r.linked = "yes"
        <4>1. r.before \in Seq(Ops) /\ r.after = Append(r.before, o)
          BY <1>1, <3>2 DEF Entry, ImageOK
        <4>2. Appended(case, o)
          <5>1. Appended(Append(r.before, o), o)
            BY <1>1, <4>1, AppendedGrows
          <5> QED BY <1>5, <3>2, <4>1, <5>1
        <4> QED BY <1>5, <3>2, <4>2 DEF There, Missing
      <3> QED BY <1>5, <3>1, <3>2
    <2> QED BY <1>1, <1>5, <2>1, <2>2, <2>3, <2>4, <2>5, <2>6, PutMoves
  <1> QED BY <1>3, <1>4, <1>5 DEF FinishStep

\* So does every other step.
LEMMA JournalMoves ==
    ASSUME JournalInv, [Next]_vars
    PROVE  JournalMove
  <1>1. case \in Seq(Ops) /\ site.procs \subseteq Procs /\ site.ops \subseteq Ops
    BY JournalAssumption DEF JournalInv, TypeOK
  <1>2. ASSUME UNCHANGED journal
        PROVE  JournalMove
    BY <1>2 DEF JournalMove, JournalInv, TypeOK, ImagesAppend, EntryKeeps
  <1>3. ASSUME NEW p \in site.procs, Mutate(p) \/ MutateAudit(p)
        PROVE  JournalMove
    BY <1>2, <1>3 DEF Mutate, MutateAudit
  <1>4. ASSUME NEW p \in site.procs, proc[p].pc = "own"
        PROVE  Doing(p) \in Ops
    BY <1>1, <1>4 DEF JournalInv, TypeOK, Doing
  <1>5. ASSUME NEW p \in site.procs, Prepare(p)
        PROVE  JournalMove
    <2> DEFINE o == Doing(p)
               y == Prepared(o)
    <2>1. o \in Ops
      BY <1>4, <1>5 DEF Prepare, New
    <2>2. /\ Kind[o] # "direct" /\ Put(o, y)
          /\ o \in DOMAIN journal => ~journal[o].produced
      BY <1>5 DEF Prepare, New
    <2>3. o \in DOMAIN journal => /\ ~journal[o].done /\ journal[o].linked = "open"
                                  /\ journal[o].linked # "yes"
      BY <2>2 DEF JournalInv, TypeOK, ImagesAppend, ImageOK, Entry
    <2>4. ~Appended(case, o)
      BY <2>1, <2>2, <2>3 DEF JournalInv, Traced
    <2>5. Append(case, o) \in Seq(Ops)
      BY <1>1, <2>1, AppendedGrows
    <2>6. y \in Entry
      BY <1>1, <2>5 DEF Prepared, Entry
    <2>7. /\ y.linked = "yes" /\ y.before = case /\ y.after = Append(case, o)
          /\ y.produced /\ ~y.done
      BY DEF Prepared
    <2> HIDE DEF y, o
    <2>8. ImageOK(o, y)
      BY <2>2, <2>4, <2>7 DEF ImageOK
    <2>9. o \in DOMAIN journal => EntryKeeps(journal[o], y)
      BY <2>2, <2>3 DEF EntryKeeps
    <2> QED BY <2>1, <2>2, <2>6, <2>7, <2>8, <2>9, PutMoves
  <1>6. ASSUME NEW p \in site.procs, Accept(p) \/ AcceptNative(p)
        PROVE  JournalMove
    <2> DEFINE o == Doing(p)
    <2>1. o \in Ops
      BY <1>4, <1>6 DEF Accept, AcceptNative, New
    <2>2. PICK b \in BOOLEAN : Kind[o] # "direct" /\ Put(o, Accepted(b)) /\ o \notin DOMAIN journal
      <3>1. CASE Accept(p)
        BY <3>1 DEF Accept, New
      <3>2. CASE AcceptNative(p)
        BY <3>2 DEF AcceptNative, New
      <3> QED BY <1>6, <3>1, <3>2
    <2> DEFINE y == Accepted(b)
    <2>3. y \in Entry /\ ~y.produced /\ ~y.done /\ y.linked = "open"
      BY DEF Accepted, Entry
    <2> HIDE DEF o, y
    <2>4. ImageOK(o, y)
      BY <2>2, <2>3 DEF ImageOK
    <2> QED BY <2>1, <2>2, <2>3, <2>4, PutMoves DEF y
  <1>6a. ASSUME NEW p \in site.procs, Dispatch(p)
         PROVE  JournalMove
    <2> DEFINE o == Doing(p)
               r == journal[o]
               y == [r EXCEPT !.started = TRUE]
    <2>1. o \in DOMAIN journal /\ Put(o, y) /\ ~r.produced
      BY <1>6a DEF Dispatch
    <2>2. o \in Ops /\ r \in Entry /\ ImageOK(o, r)
      BY <2>1 DEF JournalInv, TypeOK, ImagesAppend
    <2>3. y \in Entry
      BY Zenon, <2>2 DEF Entry
    <2>4. DOMAIN r = {"produced", "done", "linked", "started", "before", "after"}
      BY <2>2 DEF Entry
    <2>5. /\ y.linked = r.linked /\ y.before = r.before /\ y.after = r.after
          /\ y.produced = r.produced /\ y.done = r.done
      BY Zenon, <2>4
    <2>6. r.linked = "open" /\ ~r.done
      BY <2>1, <2>2 DEF ImageOK, Entry
    <2> HIDE DEF y, r, o
    <2>7. ImageOK(o, y)
      BY <2>2, <2>5 DEF ImageOK
    <2>8. EntryKeeps(r, y)
      BY <2>5, <2>6 DEF EntryKeeps
    <2> QED BY <2>1, <2>2, <2>3, <2>5, <2>6, <2>7, <2>8, PutMoves DEF r
  <1>7. ASSUME NEW p \in site.procs, Produce(p)
        PROVE  JournalMove
    <2> DEFINE o == Doing(p)
               r == journal[o]
               y == [r EXCEPT !.produced = TRUE]
    <2>1. /\ o \in DOMAIN journal /\ IsRun(o) /\ Put(o, y) /\ ~r.produced
      <3>1. IsRun(o) /\ Put(o, y) /\ ~r.produced /\ proc[p].pc = "own" /\ proc[p].section = 3
        BY <1>7 DEF Produce
      <3> QED BY <1>1, <3>1 DEF JournalInv, Sections, Doing
    <2>2. o \in Ops /\ r \in Entry /\ ImageOK(o, r)
      BY <2>1 DEF JournalInv, TypeOK, ImagesAppend
    <2>3. y \in Entry
      BY Zenon, <2>2 DEF Entry
    <2>4. DOMAIN r = {"produced", "done", "linked", "started", "before", "after"}
      BY <2>2 DEF Entry
    <2>5. /\ y.linked = r.linked /\ y.before = r.before /\ y.after = r.after
          /\ y.produced = TRUE /\ y.done = r.done
      BY Zenon, <2>4
    <2>6. r.linked = "open" /\ ~r.done
      BY <2>1, <2>2 DEF ImageOK, Entry
    <2> HIDE DEF y, r, o
    <2>7. ImageOK(o, y)
      BY <2>1, <2>2, <2>5, <2>6 DEF ImageOK
    <2>8. EntryKeeps(r, y)
      BY <2>5, <2>6 DEF EntryKeeps
    <2> QED BY <2>1, <2>2, <2>3, <2>5, <2>6, <2>7, <2>8, PutMoves DEF r
  <1> QED BY <1>2, <1>3, <1>5, <1>6, <1>6a, <1>7, StepKinds, FinishJournal
-----------------------------------------------------------------------------
(* What a step does to the Case and to the audit log *)

\* The Case gets what its images or a direct mutation add, and only if it is not
\* there yet.
CaseMove ==
    \/ case' = case
    \/ \E o \in Ops :
          /\ case' = Append(case, o) /\ ~Appended(case, o) /\ UNCHANGED <<journal, audit>>
          /\ \/ Pending(o) /\ journal[o].linked = "yes" /\ case = journal[o].before
             \/ \E p \in site.procs : Mutate(p) /\ o = Doing(p) /\ Kind[o] = "direct"

\* The audit log gets what was done, and only if it is not there yet.
AuditMove ==
    \/ audit' = audit
    \/ \E o \in Ops, k \in {"case", "run"} :
          /\ audit' = Append(audit, <<o, k>>) /\ ~Appended(audit, <<o, k>>)
          /\ UNCHANGED <<case, journal>>
          /\ k = "case" => Appended(case, o)
          /\ o \in DOMAIN journal \/ \E p \in site.procs : MutateAudit(p)

\* Finishing an operation writes one of the two, once.
LEMMA FinishLogs ==
    ASSUME JournalInv, NEW o \in DOMAIN journal, Pending(o), FinishStep(o)
    PROVE  CaseMove /\ AuditMove
  <1> DEFINE r == journal[o]
  <1>1. o \in Ops /\ r \in Entry /\ ImageOK(o, r)
    BY DEF JournalInv, TypeOK, ImagesAppend
  <1>2. ASSUME UNCHANGED <<case, audit>>
        PROVE  CaseMove /\ AuditMove
    BY <1>2 DEF CaseMove, AuditMove
  <1>3. ASSUME ~RunAudited(o), audit' = Append(audit, <<o, "run">>), UNCHANGED <<case, journal>>
        PROVE  CaseMove /\ AuditMove
    BY <1>1, <1>3 DEF CaseMove, AuditMove, RunAudited
  <1>4. ASSUME r.linked = "yes", WriteCase(o), UNCHANGED <<journal, audit>>
        PROVE  CaseMove /\ AuditMove
    <2>1. case = r.before /\ case' = r.after /\ r.after = Append(r.before, o)
          /\ ~Appended(r.before, o)
      BY <1>1, <1>4 DEF WriteCase, ImageOK
    <2>2. case' = Append(case, o) /\ ~Appended(case, o)
      BY <2>1
    <2>3. CaseMove
      BY <1>1, <1>4, <2>1, <2>2 DEF CaseMove
    <2> QED BY <1>4, <2>3 DEF AuditMove
  <1>5. ASSUME r.linked = "yes", case = r.after, Missing(o),
               audit' = Append(audit, <<o, "case">>), UNCHANGED <<case, journal>>
        PROVE  CaseMove /\ AuditMove
    <2>1. r.before \in Seq(Ops) /\ r.after = Append(r.before, o)
      BY <1>1, <1>5 DEF Entry, ImageOK
    <2>2. Appended(Append(r.before, o), o)
      BY <1>1, <2>1, AppendedGrows
    <2>3. Appended(case, o)
      BY <1>5, <2>1, <2>2
    <2> QED BY <1>1, <1>5, <2>3 DEF CaseMove, AuditMove, Missing
  <1> QED BY <1>2, <1>3, <1>4, <1>5 DEF FinishStep

\* So does every other step.
LEMMA LogsMove ==
    ASSUME JournalInv, [Next]_vars
    PROVE  CaseMove /\ AuditMove
  <1>1. site.procs \subseteq Procs /\ site.ops \subseteq Ops
    BY JournalAssumption DEF JournalInv, TypeOK
  <1>2. ASSUME UNCHANGED <<case, audit>>
        PROVE  CaseMove /\ AuditMove
    BY <1>2 DEF CaseMove, AuditMove
  <1>3. ASSUME NEW p \in site.procs, Mutate(p)
        PROVE  CaseMove /\ AuditMove
    <2>1. /\ proc[p].pc = "own" /\ Kind[Doing(p)] = "direct"
          /\ case' = Append(case, Doing(p)) /\ UNCHANGED <<journal, audit>>
      BY <1>3 DEF Mutate, New
    <2>2. Doing(p) \in Ops /\ ~Appended(case, Doing(p))
      BY <1>1, <2>1 DEF JournalInv, TypeOK, Traced, Doing
    <2> QED BY <1>3, <2>1, <2>2 DEF CaseMove, AuditMove
  <1>4. ASSUME NEW p \in site.procs, MutateAudit(p)
        PROVE  CaseMove /\ AuditMove
    <2>1. /\ proc[p].pc = "audit"
          /\ audit' = Append(audit, <<Doing(p), "case">>) /\ UNCHANGED <<case, journal>>
      BY <1>4 DEF MutateAudit
    <2>2. Doing(p) \in Ops /\ ~Appended(audit, <<Doing(p), "case">>) /\ Appended(case, Doing(p))
      BY <1>1, <2>1 DEF JournalInv, TypeOK, Traced, Doing
    <2> QED BY <1>4, <2>1, <2>2 DEF CaseMove, AuditMove
  <1>5. ASSUME NEW p \in site.procs, Prepare(p) \/ Accept(p) \/ AcceptNative(p)
                                            \/ Dispatch(p) \/ Produce(p)
        PROVE  CaseMove /\ AuditMove
    BY <1>2, <1>5 DEF Prepare, Accept, AcceptNative, Dispatch, Produce
  <1>6. ASSUME UNCHANGED <<case, journal, audit>>
        PROVE  CaseMove /\ AuditMove
    BY <1>2, <1>6
  <1> QED BY <1>3, <1>4, <1>5, <1>6, StepKinds, FinishLogs

\* So both logs only grow, and one of them at a time.
LEMMA LogsGrow ==
    ASSUME JournalInv, [Next]_vars
    PROVE  /\ case' \in Seq(Ops) /\ audit' \in Seq(Ops \X {"case", "run"})
           /\ \A o : Appended(case, o) => Appended(case, o)'
           /\ \A x : Appended(audit, x) => Appended(audit, x)'
           /\ Len(case') >= Len(case) /\ SubSeq(case', 1, Len(case)) = case
  <1>1. case \in Seq(Ops) /\ audit \in Seq(Ops \X {"case", "run"})
    BY DEF JournalInv, TypeOK
  <1>2. CaseMove /\ AuditMove
    BY LogsMove
  <1>3. /\ case' \in Seq(Ops) /\ (\A o : Appended(case, o) => Appended(case', o))
        /\ Len(case') >= Len(case) /\ SubSeq(case', 1, Len(case)) = case
    <2>1. CASE case' = case
      <3>1. SubSeq(case, 1, Len(case)) = case /\ Len(case) \in Nat
        BY <1>1, SubSeqFull, LenProperties
      <3> QED BY <1>1, <2>1, <3>1
    <2>2. CASE \E o \in Ops : case' = Append(case, o)
      BY <1>1, <2>2, AppendedGrows
    <2> QED BY <1>2, <2>1, <2>2 DEF CaseMove
  <1>4. audit' \in Seq(Ops \X {"case", "run"}) /\ \A x : Appended(audit, x) => Appended(audit', x)
    <2>1. CASE audit' = audit
      BY <1>1, <2>1
    <2>2. CASE \E o \in Ops, k \in {"case", "run"} : audit' = Append(audit, <<o, k>>)
      <3>1. PICK x \in Ops \X {"case", "run"} : audit' = Append(audit, x)
        BY <2>2
      <3> QED BY <1>1, <3>1, AppendedGrows
    <2> QED BY <1>2, <2>1, <2>2 DEF AuditMove
  <1> QED BY <1>3, <1>4 DEF Appended
-----------------------------------------------------------------------------
(* The invariant, part by part *)

LEMMA JournalInit ==
    ASSUME Init
    PROVE  JournalInv /\ DoneIsThere /\ AllOnce /\ OnePending
  <1> USE JournalAssumption
  <1> DEFINE l == site.legacy
             a == LegacyArchive
             r == [produced |-> TRUE, done |-> l = "done", linked |-> "yes", started |-> TRUE,
                   before |-> <<>>, after |-> <<a>>]
  <1>1. /\ site \in Sites /\ l \in LegacyStates /\ a \in Ops /\ Kind[a] = "action"
        /\ case = (IF l \in {"written", "done"} THEN <<a>> ELSE <<>>)
        /\ audit = (IF l = "done" THEN <<<<a, "case">>>> ELSE <<>>)
        /\ DOMAIN journal = (IF l = "none" THEN {} ELSE {a})
        /\ \A o \in DOMAIN journal : o = a /\ journal[o] = r
        /\ lock = NoProc /\ proc = [p \in Procs |-> Idle] /\ acked = {}
    BY DEF Init
  <1>2. Idle \in ProcState /\ Idle.pc = "idle"
    BY DEF Idle, ProcState
  <1>3. /\ case \in Seq(Ops) /\ audit \in Seq(Ops \X {"case", "run"})
        /\ \A o : Appended(case, o) <=> l \in {"written", "done"} /\ o = a
        /\ \A x : Appended(audit, x) <=> l = "done" /\ x = <<a, "case">>
        /\ \A i, j \in DOMAIN case : i = j
        /\ \A i, j \in DOMAIN audit : i = j
    BY <1>1 DEF Appended
  <1>4. /\ r \in Entry /\ r.after = Append(r.before, a) /\ ~Appended(r.before, a)
        /\ r.linked = "yes" /\ r.produced /\ r.done = (l = "done") /\ r.after = <<a>>
    BY <1>1 DEF Entry, Appended
  <1> HIDE DEF r
  <1>5. TypeOK
    BY <1>1, <1>2, <1>3, <1>4 DEF TypeOK
  <1>6. Sections
    BY <1>1, <1>2 DEF Sections
  <1>7. ImagesAppend
    BY <1>1, <1>4 DEF ImagesAppend, ImageOK
  <1>8. Traced
    BY <1>1, <1>2, <1>3, <1>4 DEF Traced, LegacyStates
  <1>9. DoneIsThere
    BY <1>1, <1>3, <1>4 DEF DoneIsThere, There
  <1>10. AllOnce
    BY <1>3 DEF AllOnce, Once
  <1>11. OnePending
    <2> SUFFICES ASSUME l # "prepared"
                 PROVE  /\ \A p \in Procs : proc[p].pc \in {"own", "away", "audit"} => Others(p) = {}
                        /\ \A o, q \in DOMAIN journal : Pending(o) /\ Pending(q) => o = q
                        /\ NeverStranded
      BY DEF OnePending, OneSection
    <2>1. ASSUME NEW o \in DOMAIN journal
          PROVE  Finishable(o)
      <3>1. l \in {"written", "done"} /\ journal[o].after = <<a>>
        BY <1>1, <1>4, <2>1 DEF LegacyStates
      <3> QED BY <1>1, <3>1 DEF Finishable
    <2> QED BY <1>1, <1>2, <2>1 DEF NeverStranded
  <1> QED BY <1>5, <1>6, <1>7, <1>8, <1>9, <1>10, <1>11 DEF JournalInv

LEMMA TypeStep ==
    ASSUME JournalInv, [Next]_vars
    PROVE  TypeOK'
  <1>1. ProcsOK /\ JournalMove
    BY JournalMoves DEF JournalInv, ProcsOK
  <1>2. /\ site' = site /\ proc' \in [Procs -> ProcState]
        /\ \/ proc' = proc
           \/ \E p \in site.procs : /\ p \in Procs /\ ProcMove(p)
                                    /\ \A q \in Procs \ {p} : proc'[q] = proc[q]
    BY <1>1, ProcsMove
  <1>3. \A p \in Procs : proc[p].pc # "idle" => p \in site.procs /\ proc[p].op \in site.ops
    BY DEF JournalInv, TypeOK
  <1>4. \A p \in Procs : proc'[p].pc # "idle" => p \in site.procs /\ proc'[p].op \in site.ops
    <2>1. ASSUME NEW p \in site.procs, p \in Procs, ProcMove(p), proc'[p].pc # "idle"
          PROVE  proc'[p].op \in site.ops
      BY <1>3, <2>1 DEF ProcMove
    <2> QED BY <1>2, <1>3, <2>1
  <1> QED BY <1>1, <1>2, <1>4, LogsGrow DEF TypeOK, JournalMove, JournalInv

LEMMA SectionsStep ==
    ASSUME JournalInv, [Next]_vars
    PROVE  Sections'
  <1> USE JournalAssumption
  <1>1. ProcsOK /\ JournalMove
    BY JournalMoves DEF JournalInv, ProcsOK
  <1>2. \A p \in Procs :
          /\ proc[p].pc \in {"reconcile", "own", "audit"} <=> lock = p
          /\ proc[p].pc = "away" => Kind[proc[p].op] \notin {"direct", "confirm"}
          /\ proc[p].pc = "audit" => Kind[proc[p].op] = "direct"
          /\ proc[p].pc # "idle" /\ proc[p].section = 3 /\ IsRun(proc[p].op) =>
                proc[p].op \in DOMAIN journal
    BY DEF JournalInv, Sections
  <1>3. DOMAIN journal \subseteq DOMAIN journal' /\ proc \in [Procs -> ProcState]
    BY <1>1 DEF JournalMove, ProcsOK, TypeOK
  <1>4. CASE proc' = proc /\ lock' = lock
    <2>1. \A p \in Procs : proc[p].pc # "idle" /\ proc[p].section = 3 /\ IsRun(proc[p].op) =>
                proc[p].op \in DOMAIN journal'
      BY <1>2, <1>3
    <2> QED BY <1>2, <1>4, <2>1 DEF Sections, IsRun
  <1>5. ASSUME NEW p \in Procs, ProcMove(p), \A q \in Procs \ {p} : proc'[q] = proc[q]
        PROVE  Sections'
    <2>1. \A q \in Procs \ {p} :
            /\ proc'[q].pc \in {"reconcile", "own", "audit"} <=> lock' = q
            /\ proc'[q].pc = "away" => Kind[proc'[q].op] \notin {"direct", "confirm"}
            /\ proc'[q].pc = "audit" => Kind[proc'[q].op] = "direct"
            /\ proc'[q].pc # "idle" /\ proc'[q].section = 3 /\ IsRun(proc'[q].op) =>
                  proc'[q].op \in DOMAIN journal'
      <3> TAKE q \in Procs \ {p}
      <3>1. lock = q <=> lock' = q
        <4>1. lock = p \/ lock' = p \/ lock = lock'
          BY <1>2, <1>5 DEF ProcMove, Holds
        <4>2. lock = p => lock' \in {p, NoProc}
          BY <1>2, <1>5 DEF ProcMove, Holds
        <4>3. lock' = p => lock \in {p, NoProc}
          BY <1>2, <1>5 DEF ProcMove, Holds
        <4> QED BY <4>1, <4>2, <4>3
      <3> QED BY <1>2, <1>3, <1>5, <3>1
    <2>2. /\ proc'[p].pc \in {"reconcile", "own", "audit"} <=> lock' = p
          /\ proc'[p].pc = "away" => Kind[proc'[p].op] \notin {"direct", "confirm"}
      BY <1>2, <1>5 DEF ProcMove, Holds
    <2>3. proc'[p].pc = "audit" => Kind[proc'[p].op] = "direct"
      <3>1. Mutate(p) => Kind[proc[p].op] = "direct"
        BY DEF Mutate, Doing
      <3> QED BY <1>2, <1>5, <3>1 DEF ProcMove
    <2>4. proc'[p].pc # "idle" /\ proc'[p].section = 3 /\ IsRun(proc'[p].op) =>
                proc'[p].op \in DOMAIN journal'
      <3>1. Accept(p) \/ Dispatch(p) => proc[p].op \in DOMAIN journal'
        <4> HAVE Accept(p) \/ Dispatch(p)
        <4>1. \E r : Put(proc[p].op, r)
          BY DEF Accept, Dispatch, Doing
        <4> QED BY <4>1 DEF Put
      <3>2. proc[p].section \in Nat
        BY <1>3 DEF ProcState
      <3> QED BY <1>2, <1>3, <1>5, <3>1, <3>2 DEF ProcMove
    <2> QED BY <2>1, <2>2, <2>3, <2>4 DEF Sections, IsRun
  <1> QED BY <1>1, <1>4, <1>5, ProcsMove

LEMMA TracedStep ==
    ASSUME JournalInv, [Next]_vars
    PROVE  Traced'
  <1> USE JournalAssumption
  <1>1. ProcsOK /\ JournalMove /\ CaseMove /\ AuditMove
    BY JournalMoves, LogsMove DEF JournalInv, ProcsOK
  <1>2. /\ case \in Seq(Ops) /\ audit \in Seq(Ops \X {"case", "run"})
        /\ site.procs \subseteq Procs /\ proc \in [Procs -> ProcState]
    BY DEF JournalInv, TypeOK
  <1>3. /\ \A o : Appended(case, o) => Appended(case', o)
        /\ \A x : Appended(audit, x) => Appended(audit', x)
    BY LogsGrow DEF Appended
  <1>4. ASSUME NEW o, Appended(case', o), ~Appended(case, o)
        PROVE  /\ o \in Ops /\ UNCHANGED <<journal, audit>>
               /\ \/ Pending(o) /\ journal[o].linked = "yes"
                  \/ \E p \in site.procs : Mutate(p) /\ o = Doing(p) /\ Kind[o] = "direct"
    <2>1. PICK a \in Ops :
            /\ case' = Append(case, a) /\ UNCHANGED <<journal, audit>>
            /\ \/ Pending(a) /\ journal[a].linked = "yes"
               \/ \E p \in site.procs : Mutate(p) /\ a = Doing(p) /\ Kind[a] = "direct"
      BY <1>1, <1>4 DEF CaseMove
    <2>2. o = a
      BY <1>2, <1>4, <2>1, AppendedGrows
    <2> QED BY <2>1, <2>2
  <1>5. ASSUME NEW o, NEW k, Appended(audit', <<o, k>>), ~Appended(audit, <<o, k>>)
        PROVE  /\ o \in Ops /\ k = "case" => Appended(case, o)
               /\ o \in DOMAIN journal \/ \E p \in site.procs : MutateAudit(p)
    <2>1. PICK a \in Ops, b \in {"case", "run"} :
                  /\ audit' = Append(audit, <<a, b>>)
                  /\ b = "case" => Appended(case, a)
                  /\ a \in DOMAIN journal \/ \E p \in site.procs : MutateAudit(p)
      BY <1>1, <1>5 DEF AuditMove
    <2>2. <<o, k>> = <<a, b>>
      <3>1. <<a, b>> \in Ops \X {"case", "run"}
        OBVIOUS
      <3>2. Appended(Append(audit, <<a, b>>), <<o, k>>)
        BY <1>5, <2>1
      <3> QED BY <1>2, <1>5, <3>1, <3>2, AppendedGrows
    <2> QED BY <2>1, <2>2
  <1>6. \A o \in Ops : Appended(case', o) /\ Kind[o] # "direct" =>
          o \in DOMAIN journal' /\ journal'[o].linked = "yes"
    <2> SUFFICES ASSUME NEW o \in Ops, Appended(case', o), Kind[o] # "direct"
                 PROVE  o \in DOMAIN journal' /\ journal'[o].linked = "yes"
      OBVIOUS
    <2>1. o \in DOMAIN journal /\ journal[o].linked = "yes"
      BY <1>4 DEF JournalInv, Traced, Pending
    <2> QED BY <1>1, <2>1 DEF JournalMove, EntryKeeps
  <1>7. \A o \in Ops : Appended(audit', <<o, "case">>) => Appended(case', o)
    BY <1>3, <1>5 DEF JournalInv, Traced
  <1>8. ASSUME NEW p \in Procs, proc'[p].pc \in {"reconcile", "own"},
               Kind[proc'[p].op] = "direct"
        PROVE  ~Appended(case', proc'[p].op)
    <2>1. \/ proc[p].pc \in {"reconcile", "own"} /\ proc'[p].op = proc[p].op
          \/ UNCHANGED case /\ ~Appended(case, proc'[p].op)
      <3>1. proc[p].pc = "away" => Kind[proc[p].op] # "direct"
        BY DEF JournalInv, Sections
      <3>2. ASSUME ProcMove(p)
            PROVE  \/ proc[p].pc \in {"reconcile", "own"} /\ proc'[p].op = proc[p].op
                   \/ UNCHANGED case /\ ~Appended(case, proc'[p].op)
        BY <1>8, <3>1, <3>2 DEF ProcMove
      <3> QED BY <1>1, <1>8, <3>2, ProcsMove
    <2>2. CASE proc[p].pc \in {"reconcile", "own"} /\ proc'[p].op = proc[p].op
      <3>1. lock = p /\ ~Appended(case, proc[p].op)
        BY <1>8, <2>2 DEF JournalInv, Sections, Traced
      <3> SUFFICES ASSUME Appended(case', proc[p].op)
                   PROVE  FALSE
        BY <2>2
      <3>2. CASE Pending(proc[p].op)
        BY <1>8, <2>2, <3>2 DEF JournalInv, ImagesAppend, ImageOK, Pending
      <3>3. ASSUME NEW q \in site.procs, Mutate(q)
            PROVE  FALSE
        <4>1. q = p
          BY <1>2, <3>1, <3>3 DEF JournalInv, Sections, Mutate, New
        <4>2. proc'[p].pc = "audit"
          BY <1>2, <3>3, <4>1 DEF Mutate, ProcState
        <4> QED BY <1>8, <4>2
      <3> QED BY <1>4, <3>1, <3>2, <3>3
    <2> QED BY <2>1, <2>2
  <1>9. ASSUME NEW p \in Procs, proc'[p].pc = "audit"
        PROVE  Appended(case', proc'[p].op) /\ ~Appended(audit', <<proc'[p].op, "case">>)
    <2>1. \/ proc[p].pc = "audit" /\ proc'[p] = proc[p]
          \/ proc'[p].op = proc[p].op /\ proc[p].pc = "own" /\ Mutate(p)
      <3>1. ASSUME ProcMove(p)
            PROVE  \/ proc[p].pc = "audit" /\ proc'[p] = proc[p]
                   \/ proc'[p].op = proc[p].op /\ proc[p].pc = "own" /\ Mutate(p)
        BY <1>9, <3>1 DEF ProcMove
      <3> QED BY <1>1, <1>9, <3>1, ProcsMove
    <2>2. CASE proc[p].pc = "audit" /\ proc'[p] = proc[p]
      <3>1. /\ lock = p /\ Kind[proc[p].op] = "direct" /\ Appended(case, proc[p].op)
            /\ ~Appended(audit, <<proc[p].op, "case">>)
        BY <2>2 DEF JournalInv, Sections, Traced
      <3> SUFFICES ASSUME Appended(audit', <<proc[p].op, "case">>)
                   PROVE  FALSE
        BY <1>3, <2>2, <3>1
      <3>2. CASE proc[p].op \in DOMAIN journal
        BY <3>1, <3>2 DEF JournalInv, ImagesAppend, ImageOK
      <3>3. ASSUME NEW q \in site.procs, MutateAudit(q)
            PROVE  FALSE
        <4>1. q = p
          BY <1>2, <3>1, <3>3 DEF JournalInv, Sections, MutateAudit
        <4>2. proc'[p].pc = "idle"
          BY <1>2, <3>3, <4>1 DEF MutateAudit, Return, Idle
        <4> QED BY <1>9, <4>2
      <3> QED BY <1>5, <3>1, <3>2, <3>3
    <2>3. CASE proc'[p].op = proc[p].op /\ proc[p].pc = "own" /\ Mutate(p)
      <3>1. /\ Kind[proc[p].op] = "direct" /\ case' = Append(case, proc[p].op)
            /\ audit' = audit
        BY <2>3 DEF Mutate, Doing
      <3>2. proc[p].op \in Ops /\ ~Appended(case, proc[p].op)
        BY <2>3, <3>1 DEF JournalInv, TypeOK, Traced
      <3>3. ~Appended(audit, <<proc[p].op, "case">>)
        BY <3>2 DEF JournalInv, Traced
      <3> QED BY <1>2, <2>3, <3>1, <3>2, <3>3, AppendedGrows
    <2> QED BY <2>1, <2>2, <2>3
  <1> HIDE DEF JournalInv
  <1>10. /\ \A o \in Ops : Appended(case, o)' /\ Kind[o] # "direct" =>
              o \in DOMAIN journal' /\ journal'[o].linked = "yes"
         /\ \A o \in Ops : Appended(audit, <<o, "case">>)' => Appended(case, o)'
    BY <1>6, <1>7 DEF Appended
  <1> QED BY <1>8, <1>9, <1>10 DEF Traced, Appended

LEMMA DoneStep ==
    ASSUME JournalInv, DoneIsThere, [Next]_vars
    PROVE  DoneIsThere'
  <1>1. JournalMove
    BY JournalMoves
  <1>2. /\ \A o : Appended(case, o) => Appended(case', o)
        /\ \A x : Appended(audit, x) => Appended(audit', x)
    BY LogsGrow DEF Appended
  <1>3. ASSUME NEW o \in DOMAIN journal', journal'[o].done
        PROVE  There(o)'
    <2>1. o \in DOMAIN journal /\ There(o) /\ journal'[o].linked = journal[o].linked
      BY <1>1, <1>3 DEF JournalMove, DoneIsThere
    <2> QED BY <1>2, <2>1 DEF There, IsRun, Appended
  <1>4. ASSUME NEW o \in acked', o \notin acked
        PROVE  \/ Appended(case', o) /\ Appended(audit', <<o, "case">>)
               \/ o \in DOMAIN journal /\ journal[o].done
    <2>1. \E p \in site.procs : o = Doing(p) /\ (Replay(p) \/ MutateAudit(p))
      <3>1. ASSUME UNCHANGED acked
            PROVE  FALSE
        BY <1>4, <3>1
      <3>2. ASSUME NEW p \in site.procs, Replay(p) \/ MutateAudit(p)
            PROVE  o = Doing(p)
        BY <1>4, <3>2 DEF Replay, MutateAudit, Return
      <3>3. ASSUME NEW p, NEW a, Start(p, a)
            PROVE  UNCHANGED acked
        BY <3>3 DEF Start
      <3>4. ASSUME NEW p, Fail(p) \/ Reconcile(p) \/ Mutate(p) \/ Prepare(p) \/ Accept(p)
                          \/ AcceptNative(p) \/ Dispatch(p) \/ GoOn(p) \/ Resume(p) \/ Produce(p)
            PROVE  UNCHANGED acked
        BY <3>4 DEF Fail, Reconcile, Mutate, Prepare, Accept, AcceptNative,
               Dispatch, GoOn, Resume, Produce
      <3>5. ASSUME UNCHANGED vars
            PROVE  UNCHANGED acked
        BY <3>5 DEF vars
      <3> QED BY <3>1, <3>2, <3>3, <3>4, <3>5 DEF Next
    <2>2. PICK p \in site.procs : o = Doing(p) /\ (Replay(p) \/ MutateAudit(p))
      BY <2>1
    <2>3. CASE Replay(p)
      BY <1>4, <2>2, <2>3 DEF Replay, FinishStep
    <2>4. CASE MutateAudit(p)
      <3>1. /\ proc[p].pc = "audit" /\ case' = case
            /\ audit' = Append(audit, <<o, "case">>)
        BY <2>2, <2>4 DEF MutateAudit
      <3>2. p \in Procs /\ o \in Ops /\ Appended(case, o) /\ audit \in Seq(Ops \X {"case", "run"})
        BY <2>2, <3>1, JournalAssumption DEF JournalInv, TypeOK, Traced, Doing
      <3>3. <<o, "case">> \in Ops \X {"case", "run"}
        BY <3>2
      <3>4. Appended(Append(audit, <<o, "case">>), <<o, "case">>)
        BY <3>2, <3>3, AppendedGrows
      <3> QED BY <3>1, <3>2, <3>4
    <2> QED BY <2>2, <2>3, <2>4
  <1>5. ASSUME NEW o \in acked'
        PROVE  \/ Appended(case', o) /\ Appended(audit', <<o, "case">>)
               \/ o \in DOMAIN journal' /\ journal'[o].done
    <2>1. \/ Appended(case', o) /\ Appended(audit', <<o, "case">>)
          \/ o \in DOMAIN journal /\ journal[o].done
      BY <1>2, <1>4, <1>5 DEF DoneIsThere
    <2> QED BY <1>1, <2>1 DEF JournalMove, EntryKeeps
  <1> QED BY <1>3, <1>5 DEF DoneIsThere, Appended

LEMMA OnceStep ==
    ASSUME JournalInv, AllOnce, [Next]_vars
    PROVE  AllOnce'
  <1>1. CaseMove /\ AuditMove /\ case \in Seq(Ops) /\ audit \in Seq(Ops \X {"case", "run"})
    BY LogsMove DEF JournalInv, TypeOK
  <1>2. ASSUME NEW o \in Ops
        PROVE  Once(case', o)
    <2>1. Once(case, o)
      BY DEF AllOnce
    <2>2. ASSUME NEW a \in Ops, case' = Append(case, a), ~Appended(case, a)
          PROVE  Once(case', o)
      BY <1>1, <2>1, <2>2, OnceGrows
    <2> QED BY <1>1, <2>1, <2>2 DEF CaseMove
  <1>3. ASSUME NEW x \in Ops \X {"case", "run"}
        PROVE  Once(audit', x)
    <2>1. Once(audit, x)
      BY DEF AllOnce
    <2>2. ASSUME NEW a \in Ops \X {"case", "run"}, audit' = Append(audit, a), ~Appended(audit, a)
          PROVE  Once(audit', x)
      BY <1>1, <2>1, <2>2, OnceGrows
    <2> QED BY <1>1, <2>1, <2>2 DEF AuditMove
  <1> QED BY <1>2, <1>3 DEF AllOnce, Once

\* The part of the invariant that needs no assumption on who calls what.
FilesInv == JournalInv /\ DoneIsThere /\ AllOnce

\* The invariant is inductive.
LEMMA FilesInvStep ==
    ASSUME FilesInv, [Next]_vars
    PROVE  FilesInv'
  <1>1. JournalInv /\ DoneIsThere /\ AllOnce
    BY DEF FilesInv
  <1>2. ImagesAppend'
    BY <1>1, JournalMoves DEF JournalMove, ImagesAppend, ImageOK, IsRun, Appended
  <1>3. TypeOK' /\ Sections' /\ Traced' /\ DoneIsThere' /\ AllOnce'
    BY <1>1, TypeStep, SectionsStep, TracedStep, DoneStep, OnceStep
  <1> QED BY <1>2, <1>3 DEF FilesInv, JournalInv

\* Every state of the files, after any failures, calls and retries, is one of the
\* invariant's.
THEOREM JournalSafe == Spec => []FilesInv
  <1>1. Init => FilesInv
    BY JournalInit DEF FilesInv
  <1>2. FilesInv /\ [Next]_vars => FilesInv'
    BY FilesInvStep
  <1> QED BY <1>1, <1>2, PTL DEF Spec

\* However often an operation is retried, reconciled by others or cut short, it
\* changes the Case at most once and is audited at most once.
THEOREM AppliedAtMostOnce == Spec => []OnceEach
  <1>1. FilesInv => OnceEach
    <2> SUFFICES ASSUME FilesInv, NEW o \in Ops
                 PROVE  /\ Count(case, o) =< 1
                        /\ Count(audit, <<o, "case">>) =< 1 /\ Count(audit, <<o, "run">>) =< 1
      BY DEF OnceEach
    <2>1. Once(case, o) /\ Once(audit, <<o, "case">>) /\ Once(audit, <<o, "run">>)
      BY DEF FilesInv, AllOnce
    <2> QED BY <2>1, OnceCounts
  <1> QED BY <1>1, JournalSafe, PTL

\* No write of the Case, whoever makes it and from however old a journal, takes
\* back what another operation put there.
THEOREM CaseOnlyGrows == Spec => NothingLost
  <1>1. FilesInv /\ [Next]_vars =>
          [Len(case') >= Len(case) /\ SubSeq(case', 1, Len(case)) = case]_vars
    BY LogsGrow DEF FilesInv
  <1> QED BY <1>1, JournalSafe, PTL DEF Spec, NothingLost

\* What a caller was told is done is in the Case and in the audit log, or is a run
\* whose link was refused and which the log has.
THEOREM AcknowledgedIsWritten == Spec => []AckedIsThere
  <1>1. FilesInv => AckedIsThere
    BY DEF FilesInv, DoneIsThere, AckedIsThere, There
  <1> QED BY <1>1, JournalSafe, PTL
-----------------------------------------------------------------------------
(* One section: nobody is stranded *)

\* Where an operation under way, or its image, comes from.
Linking(o) == journal'[o].linked = "yes" => journal'[o].before = case /\ case' = case
PendingMove(o) ==
    \/ Pending(o) /\ (journal[o].linked = "yes" \/ Linking(o))
    \/ \E p \in site.procs : proc[p].pc = "own" /\ o = Doing(p) /\ Linking(o)

\* An operation under way was so before, or its own call just made it so.
LEMMA PendingMoves ==
    ASSUME JournalInv, [Next]_vars, NEW o \in DOMAIN journal', Pending(o)'
    PROVE  PendingMove(o)
  <1> HIDE DEF JournalInv
  <1>1. journal'[o].produced /\ ~journal'[o].done
    BY DEF Pending
  <1>2. \A x \in DOMAIN journal : journal[x] \in Entry /\ ImageOK(x, journal[x])
    BY DEF JournalInv, TypeOK, ImagesAppend
  <1>3. ASSUME o \in DOMAIN journal, journal'[o] = journal[o]
        PROVE  PendingMove(o)
    <2>1. Pending(o)
      BY <1>1, <1>3 DEF Pending
    <2>2. journal[o].linked = "yes" \/ Linking(o)
      BY <1>3 DEF Linking
    <2> QED BY <2>1, <2>2 DEF PendingMove
  <1>4. ASSUME UNCHANGED journal
        PROVE  PendingMove(o)
    BY <1>3, <1>4
  <1>5. ASSUME NEW a \in DOMAIN journal, Pending(a), FinishStep(a)
        PROVE  PendingMove(o)
    <2>1. ASSUME NEW r, Put(a, r), a # o
          PROVE  PendingMove(o)
      <3>1. o \in DOMAIN journal /\ journal'[o] = journal[o]
        BY <2>1 DEF Put
      <3> QED BY <1>3, <3>1
    <2>2. CASE a # o
      <3>1. \/ UNCHANGED journal
            \/ \E r : Put(a, r)
        BY <1>5 DEF FinishStep, DecideLink
      <3> QED BY <1>4, <2>1, <2>2, <3>1
    <2>3. CASE a = o
      <3>1. ASSUME DecideLink(a), UNCHANGED case
            PROVE  Linking(o)
        <4> DEFINE r == journal[o]
                   y == [r EXCEPT !.linked = "yes", !.before = case, !.after = Append(case, o)]
                   n == [r EXCEPT !.linked = "no"]
        <4>1. DOMAIN r = {"produced", "done", "linked", "started", "before", "after"}
          BY <1>2, <1>5, <2>3 DEF Entry
        <4>2. y.before = case /\ n.linked = "no"
          BY Zenon, <4>1
        <4>3. Put(o, y) \/ Put(o, n)
          BY <2>3, <3>1 DEF DecideLink
        <4> HIDE DEF y, n
        <4>4. journal'[o] = y \/ journal'[o] = n
          BY <4>3, PutEffect
        <4> QED BY <3>1, <4>2, <4>4 DEF Linking
      <3>2. ASSUME Put(a, [journal[a] EXCEPT !.done = TRUE])
            PROVE  FALSE
        <4>1. DOMAIN journal[a] = {"produced", "done", "linked", "started", "before", "after"}
          BY <1>2, <1>5 DEF Entry
        <4>2. journal'[a] = [journal[a] EXCEPT !.done = TRUE]
          BY <3>2 DEF Put
        <4>3. journal'[a].done = TRUE
          BY Zenon, <4>1, <4>2
        <4> QED BY <1>1, <2>3, <4>3
      <3>3. Linking(o) => PendingMove(o)
        BY <1>5, <2>3 DEF PendingMove
      <3> QED BY <1>4, <1>5, <3>1, <3>2, <3>3 DEF FinishStep
    <2> QED BY <2>2, <2>3
  <1>6. ASSUME NEW p \in site.procs, NEW r, proc[p].pc = "own", Put(Doing(p), r),
               r.linked = "yes" => r.before = case /\ case' = case
        PROVE  PendingMove(o)
    <2>1. /\ DOMAIN journal' = DOMAIN journal \cup {Doing(p)} /\ journal'[Doing(p)] = r
          /\ \A x \in DOMAIN journal \ {Doing(p)} : journal'[x] = journal[x]
      BY <1>6 DEF Put
    <2>2. CASE o = Doing(p)
      BY <1>6, <2>1, <2>2 DEF PendingMove, Linking
    <2>3. CASE o # Doing(p)
      BY <1>3, <2>1, <2>3
    <2> QED BY <2>2, <2>3
  <1>7. ASSUME NEW p \in site.procs, Prepare(p)
        PROVE  PendingMove(o)
    <2>1. proc[p].pc = "own" /\ Put(Doing(p), Prepared(Doing(p))) /\ case' = case
      BY <1>7 DEF Prepare, New
    <2>2. Prepared(Doing(p)).before = case
      BY DEF Prepared
    <2> QED BY <1>6, <2>1, <2>2
  <1>8. ASSUME NEW p \in site.procs, Accept(p) \/ AcceptNative(p)
        PROVE  PendingMove(o)
    <2>1. PICK b \in BOOLEAN : proc[p].pc = "own" /\ Put(Doing(p), Accepted(b))
      BY <1>8 DEF Accept, AcceptNative, New
    <2>2. Accepted(b).linked = "open"
      BY DEF Accepted
    <2> QED BY <1>6, <2>1, <2>2
  <1>8a. ASSUME NEW p \in site.procs, Dispatch(p)
         PROVE  PendingMove(o)
    <2> DEFINE a == Doing(p)
               y == [journal[a] EXCEPT !.started = TRUE]
    <2>1. proc[p].pc = "own" /\ Put(a, y) /\ ~journal[a].produced /\ a \in DOMAIN journal
      BY <1>8a DEF Dispatch
    <2>2. journal[a].linked # "yes"
      BY <1>2, <2>1 DEF ImageOK
    <2>3. DOMAIN journal[a] = {"produced", "done", "linked", "started", "before", "after"}
      BY <1>2, <2>1 DEF Entry
    <2>4. y.linked = journal[a].linked
      BY Zenon, <2>3
    <2> HIDE DEF y
    <2> QED BY <1>6, <2>1, <2>2, <2>4
  <1>9. ASSUME NEW p \in site.procs, Produce(p)
        PROVE  PendingMove(o)
    <2> DEFINE a == Doing(p)
               y == [journal[a] EXCEPT !.produced = TRUE]
    <2>1. proc[p].pc = "own" /\ Put(a, y) /\ ~journal[a].produced /\ IsRun(a)
          /\ proc[p].section = 3
      BY <1>9 DEF Produce
    <2>2. a \in DOMAIN journal
      BY <2>1, JournalAssumption DEF JournalInv, TypeOK, Sections, Doing
    <2>3. journal[a].linked # "yes"
      BY <1>2, <2>1, <2>2 DEF ImageOK
    <2>4. DOMAIN journal[a] = {"produced", "done", "linked", "started", "before", "after"}
      BY <1>2, <2>2 DEF Entry
    <2>5. y.linked = journal[a].linked
      BY Zenon, <2>4
    <2> HIDE DEF y
    <2> QED BY <1>6, <2>1, <2>3, <2>5
  <1>10. ASSUME NEW p \in site.procs, Mutate(p) \/ MutateAudit(p)
         PROVE  PendingMove(o)
    BY <1>4, <1>10 DEF Mutate, MutateAudit
  <1> QED BY <1>4, <1>5, <1>7, <1>8, <1>8a, <1>9, <1>10, StepKinds

\* A call that is away is on its own on the site.
LEMMA AwayAlone ==
    ASSUME JournalInv, OneSection, NEW p \in Procs, proc[p].pc = "away", NEW q \in site.procs
    PROVE  q = p
  <1>1. p \in site.procs /\ proc[p].op \in site.ops /\ IsFiniteSet(site.procs)
    BY JournalAssumption DEF JournalInv, TypeOK
  <1>2. Cardinality(site.procs) = 1
    BY <1>1 DEF JournalInv, Sections, OneSection
  <1>3. PICK x : site.procs = {x}
    BY <1>1, <1>2, FS_Singleton
  <1> QED BY <1>1, <1>3

LEMMA OnePendingStep ==
    ASSUME JournalInv, OnePending, [Next]_vars
    PROVE  OnePending'
  <1> SUFFICES ASSUME OneSection
               PROVE  OnePending'
    <2>1. site' = site
      BY ProcsMove DEF JournalInv, ProcsOK
    <2> QED BY <2>1 DEF OnePending, OneSection
  <1>1. /\ \A p \in Procs : proc[p].pc \in {"own", "away", "audit"} => Others(p) = {}
        /\ \A o, q \in DOMAIN journal : Pending(o) /\ Pending(q) => o = q
        /\ NeverStranded
    BY DEF OnePending
  <1>2. site.procs \subseteq Procs
    BY JournalAssumption DEF JournalInv, TypeOK
  <1>3. \A p \in Procs : proc[p].pc \in {"reconcile", "own", "audit"} <=> lock = p
    BY DEF JournalInv, Sections
  <1>4. ASSUME NEW p \in Procs, proc[p].pc \in {"own", "away", "audit"},
               NEW o \in DOMAIN journal', Pending(o)'
        PROVE  o = proc[p].op
    <2>1. CASE Pending(o)
      BY <1>1, <1>4, <2>1 DEF Others, Pending, Doing
    <2>2. CASE ~Pending(o)
      <3>1. PICK q \in site.procs : proc[q].pc = "own" /\ o = Doing(q)
        BY <1>4, <2>2, PendingMoves DEF PendingMove
      <3>2. q = p
        BY <1>2, <1>3, <1>4, <3>1, AwayAlone
      <3> QED BY <3>1, <3>2 DEF Doing
    <2> QED BY <2>1, <2>2
  <1>5. ASSUME NEW p \in Procs, proc'[p].pc \in {"own", "away", "audit"}
        PROVE  Others(p)' = {}
    <2>1. \/ proc[p].pc \in {"own", "away", "audit"} /\ proc'[p].op = proc[p].op
          \/ proc'[p].op = proc[p].op /\ Others(p) = {} /\ UNCHANGED journal
      <3>1. ASSUME ProcMove(p)
            PROVE  \/ proc[p].pc \in {"own", "away", "audit"} /\ proc'[p].op = proc[p].op
                   \/ proc'[p].op = proc[p].op /\ Others(p) = {} /\ UNCHANGED journal
        BY <1>5, <3>1 DEF ProcMove, OneSection
      <3> QED BY <1>5, <3>1, ProcsMove DEF JournalInv, ProcsOK
    <2>2. CASE proc[p].pc \in {"own", "away", "audit"} /\ proc'[p].op = proc[p].op
      BY <1>4, <2>2 DEF Others, Doing
    <2>3. CASE proc'[p].op = proc[p].op /\ Others(p) = {} /\ UNCHANGED journal
      BY <2>3 DEF Others, Doing, Pending
    <2> QED BY <2>1, <2>2, <2>3
  <1>6. ASSUME NEW o \in DOMAIN journal', NEW q \in DOMAIN journal', Pending(o)', Pending(q)'
        PROVE  o = q
    <2>1. ASSUME NEW x \in {o, q}, ~Pending(x)
          PROVE  o = q
      <3>1. PICK p \in site.procs : proc[p].pc = "own" /\ x = Doing(p)
        BY <1>6, <2>1, PendingMoves DEF PendingMove
      <3> QED BY <1>2, <1>4, <1>6, <3>1
    <2> QED BY <1>1, <2>1 DEF Pending
  <1>7. ASSUME NEW o \in DOMAIN journal', Pending(o)', journal'[o].linked = "yes"
        PROVE  Finishable(o)'
    <2>1. CASE o # LegacyArchive /\ Linking(o)
      BY <1>7, <2>1 DEF Linking, Finishable
    <2>2. CASE o = LegacyArchive \/ ~Linking(o)
      <3>0. ASSUME NEW p \in site.procs, proc[p].pc = "own"
            PROVE  Doing(p) # LegacyArchive
        BY <1>2, <3>0, JournalAssumption DEF JournalInv, TypeOK, Doing
      <3>1. o \in DOMAIN journal /\ Pending(o) /\ journal[o].linked = "yes"
        <4>1. PendingMove(o)
          BY <1>7, PendingMoves
        <4>2. Pending(o)
          BY <2>2, <3>0, <4>1 DEF PendingMove
        <4>3. o \in DOMAIN journal /\ journal[o].produced /\ ImageOK(o, journal[o])
          BY <4>2 DEF Pending, JournalInv, ImagesAppend
        <4>4. CASE ~Linking(o)
          BY <3>0, <4>1, <4>3, <4>2, <4>4 DEF PendingMove
        <4>5. CASE o = LegacyArchive
          BY <4>2, <4>3, <4>5, JournalAssumption DEF ImageOK, IsRun
        <4> QED BY <2>2, <4>4, <4>5
      <3>2. journal'[o].before = journal[o].before /\ journal'[o].after = journal[o].after
        BY <3>1, JournalMoves DEF JournalMove, EntryKeeps
      <3>3. Finishable(o)
        BY <1>1, <3>1 DEF NeverStranded
      <3>4. CASE case' = case
        BY <3>2, <3>3, <3>4 DEF Finishable
      <3>5. ASSUME NEW a \in Ops, case' = Append(case, a), Pending(a), case = journal[a].before
            PROVE  case' = journal[o].after
        <4>1. a = o
          BY <1>1, <3>1, <3>5 DEF Pending
        <4>2. journal[o].after = Append(journal[o].before, o)
          BY <3>1 DEF JournalInv, ImagesAppend, ImageOK
        <4> QED BY <3>5, <4>1, <4>2
      <3>6. ASSUME NEW p \in site.procs, Mutate(p), Kind[Doing(p)] = "direct"
            PROVE  FALSE
        <4>1. p \in Procs /\ proc[p].pc = "own"
          BY <1>2, <3>6 DEF Mutate, New
        <4>2. o = Doing(p)
          BY <1>4, <1>7, <4>1 DEF Doing
        <4> QED BY <3>1, <3>6, <4>2 DEF JournalInv, ImagesAppend, ImageOK
      <3> QED BY <3>2, <3>4, <3>5, <3>6, LogsMove DEF CaseMove, Finishable
    <2> QED BY <2>1, <2>2
  <1> QED BY <1>5, <1>6, <1>7 DEF OnePending, NeverStranded

\* As long as every call reconciles, and writes in the section it reconciles in or
\* is alone, no crash, failed write or retry leaves a journaled operation that
\* cannot be finished.
THEOREM NoneStrandedInOneSection == Spec => []NeverStrandedInOneSection
  <1>1. Init => FilesInv /\ OnePending
    BY JournalInit DEF FilesInv
  <1>2. FilesInv /\ OnePending /\ [Next]_vars => FilesInv' /\ OnePending'
    BY FilesInvStep, OnePendingStep DEF FilesInv
  <1>3. OnePending => NeverStrandedInOneSection
    BY DEF OnePending, NeverStrandedInOneSection
  <1> QED BY <1>1, <1>2, <1>3, PTL DEF Spec
=============================================================================
