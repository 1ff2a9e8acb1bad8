----------------------------- MODULE AtomicLog -----------------------------
(***************************************************************************)
(* What .redgear/events.jsonl promises: a sequence that only grows, where  *)
(* every event's seq is its position.  No lock, no torn line, no crash.    *)
(* EventLog is shown to implement this.                                    *)
(***************************************************************************)
EXTENDS Naturals, Sequences

CONSTANT Writer

VARIABLE log

Event == [seq : Nat, by : Writer]

Init == log = <<>>

(* Events become durable, one or several at a time. *)
Extend ==
    /\ log' \in Seq(Event)
    /\ Len(log') > Len(log)
    /\ \A i \in 1 .. Len(log) : log'[i] = log[i]
    /\ \A i \in 1 .. Len(log') : log'[i].seq = i - 1

Spec == Init /\ [][Extend]_log
=============================================================================
