------------------------------ MODULE MCReview ------------------------------
(* Lifetimes for TLC: none, unlimited, one with days and one without, two  *)
(* that are refused, and one whose days wrap around to a positive number.  *)
EXTENDS Review

Amount(neg, days, rest) == [kind |-> "amount", neg |-> neg, days |-> days, rest |-> rest]

MCWritten ==
  {[kind |-> k, neg |-> FALSE, days |-> 0, rest |-> 0] : k \in {"nothing", "unlimited"}}
    \cup {Amount(FALSE, 1, 2), Amount(FALSE, 0, 3), Amount(FALSE, 0, 0),
          Amount(TRUE, 1, 0), Amount(FALSE, 9, 0)}
=============================================================================
