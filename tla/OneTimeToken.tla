---------------------------- MODULE OneTimeToken ----------------------------
(***************************************************************************)
(* What the token store promises its callers, with no files, no clock and  *)
(* no processes: a bootstrap token is issued once, is claimed by at most   *)
(* one redemption, and yields at most one grant.  A claimed token may be   *)
(* lost without a grant (the claimer failed), never handed out again.      *)
(***************************************************************************)
EXTENDS Naturals

CONSTANT Ids            \* token identifiers

VARIABLES status,       \* where each token is in its life
          grants        \* successful redemptions of each token, ever

vars == <<status, grants>>

Statuses == {"unissued", "live", "claimed", "spent"}

Init == /\ status = [t \in Ids |-> "unissued"]
        /\ grants = [t \in Ids |-> 0]

Issue(t) == /\ status[t] = "unissued"
            /\ status' = [status EXCEPT ![t] = "live"]
            /\ UNCHANGED grants

Claim(t) == /\ status[t] = "live"
            /\ status' = [status EXCEPT ![t] = "claimed"]
            /\ UNCHANGED grants

Grant(t) == /\ status[t] = "claimed"
            /\ status' = [status EXCEPT ![t] = "spent"]
            /\ grants' = [grants EXCEPT ![t] = @ + 1]

(* A live token that expired, or claimed ones whose claimers failed.       *)
Drop(S) == /\ \A t \in S : status[t] \in {"live", "claimed"}
           /\ status' = [t \in Ids |-> IF t \in S THEN "spent" ELSE status[t]]
           /\ UNCHANGED grants

Next == \/ \E t \in Ids : Issue(t) \/ Claim(t) \/ Grant(t)
        \/ \E S \in SUBSET Ids : Drop(S)

Spec == Init /\ [][Next]_vars
=============================================================================
