--------------------------- MODULE WatchEvidence ---------------------------
(***************************************************************************)
(* What the Watch store promises about evidence, with no runs, leases,     *)
(* fences, clocks or retries in sight.  For every Watch the store knows    *)
(* one accepted value, pinned to one source, and keeps an append-only      *)
(* ledger of accepted transitions.  pkg/watch/scheduler.go must implement  *)
(* this however its runners crash, stall, duplicate or reorder messages.   *)
(***************************************************************************)
CONSTANTS Watches, Sources, NoSource

VARIABLES
    known,    \* known[w]: the last accepted value, "never" before the first
    pin,      \* pin[w]: the source the accepted values of w come from
    ledger    \* accepted transitions: [watch, run, kind, previous, value, ...]

vars == <<known, pin, ledger>>

Init ==
    /\ known = [w \in Watches |-> "never"]
    /\ pin = [w \in Watches |-> NoSource]
    /\ ledger = {}

\* A known result for w from source s.  It is accepted only from the pinned
\* source, and enters at most one transition in the ledger, from the value
\* known before to a different one.
Observe(w, value, s) ==
    /\ pin[w] \in {NoSource, s}
    /\ known' = [known EXCEPT ![w] = value]
    /\ pin' = [pin EXCEPT ![w] = s]
    /\ \/ ledger' = ledger
       \/ \E e \in ledger' :
             /\ ledger' = ledger \cup {e}
             /\ \A old \in ledger : old.run # e.run
             /\ e.watch = w /\ e.source = s
             /\ e.previous = known[w] /\ e.value = value
             /\ e.previous # e.value

\* A person acknowledges a new source, or changes what the Watch checks.
Forget(w) ==
    /\ known' = [known EXCEPT ![w] = "never"]
    /\ pin' = [pin EXCEPT ![w] = NoSource]
    /\ ledger' = ledger

Next ==
    \E w \in Watches :
        \/ Forget(w)
        \/ \E value \in {"true", "false"}, s \in Sources : Observe(w, value, s)

Spec == Init /\ [][Next]_vars
=============================================================================
