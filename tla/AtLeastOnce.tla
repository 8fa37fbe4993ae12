----------------------------- MODULE AtLeastOnce -----------------------------
(***************************************************************************)
(* What each stage of the event pipeline promises the one before it: an    *)
(* item it has accepted is handed on at least once before the stage        *)
(* settles it, that is before it marks it as done and never looks at it    *)
(* again.  Items may be handed on any number of times, in any order, and   *)
(* several at once; the obligation for an item may lapse.                  *)
(*                                                                         *)
(* EthListener, Outbox, TransactionOrchestrator and NotificationPoller are *)
(* shown to implement this specification; what `accepted`, `copies` and    *)
(* `settled` stand for is said there.                                      *)
(***************************************************************************)
EXTENDS Naturals

CONSTANT Item

VARIABLES
  accepted,   \* items the stage is responsible for
  copies,     \* how often an item has been handed on
  settled     \* accepted items the stage has marked as done

vars == <<accepted, copies, settled>>

Init ==
  /\ accepted = {}
  /\ copies = [i \in Item |-> 0]
  /\ settled = {}

Accept(new) ==
  /\ accepted' = accepted \cup new
  /\ UNCHANGED <<copies, settled>>

(* Hand some accepted items on, and mark some as done: only such as have   *)
(* been handed on by then.                                                 *)
HandOn(out, done) ==
  /\ out \subseteq accepted
  /\ done \subseteq accepted
  /\ copies' = [i \in Item |-> IF i \in out THEN copies[i] + 1 ELSE copies[i]]
  /\ \A i \in done : copies'[i] >= 1
  /\ settled' = settled \cup done
  /\ UNCHANGED accepted

(* Nobody wants these items any more.                                      *)
Withdraw(gone) ==
  /\ accepted' = accepted \ gone
  /\ settled' = settled \ gone
  /\ UNCHANGED copies

Next ==
  \/ \E new \in SUBSET Item : Accept(new)
  \/ \E out, done \in SUBSET Item : HandOn(out, done)
  \/ \E gone \in SUBSET Item : Withdraw(gone)

Spec == Init /\ [][Next]_vars
=============================================================================
