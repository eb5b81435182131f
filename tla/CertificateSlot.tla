-------------------------- MODULE CertificateSlot ---------------------------
(***************************************************************************)
(* What the certificate store promises a fetch, with no files and no       *)
(* commands: the slot holds a whole certificate or none, and a fetch is    *)
(* answered with the certificate the slot held whole when the fetch began, *)
(* or, when there was none or its key has been replaced since, with no     *)
(* certificate.                                                            *)
(***************************************************************************)
CONSTANTS Serials,      \* certificates
          Readers,      \* fetches
          None          \* no certificate

VARIABLES slot,         \* the whole certificate stored, or None
          asking,       \* the fetches in progress
          seen,         \* what each of them will be answered with, or None
          answer        \* the last answer

vars == <<slot, asking, seen, answer>>

Init == /\ slot = None
        /\ asking = {}
        /\ seen = [r \in Readers |-> None]
        /\ answer = [verdict |-> "none", chain |-> None, key |-> None]

(* A certificate becomes whole where there was none.                       *)
Publish(s) == /\ slot = None
              /\ slot' = s
              /\ UNCHANGED <<asking, seen, answer>>

(* The certificate is no longer whole: its key is replaced, under every    *)
(* fetch in progress, or its chain, which those have already read.         *)
ReplaceKey == /\ slot' = None
              /\ seen' = [r \in Readers |-> None]
              /\ UNCHANGED <<asking, answer>>

ReplaceChain == /\ slot' = None
                /\ UNCHANGED <<asking, seen, answer>>

Begin(r) == /\ r \notin asking
            /\ asking' = asking \cup {r}
            /\ seen' = [seen EXCEPT ![r] = slot]
            /\ UNCHANGED <<slot, answer>>

NotFound(r) == /\ r \notin asking /\ slot = None
               /\ answer' = [verdict |-> "not found", chain |-> None, key |-> None]
               /\ UNCHANGED <<slot, asking, seen>>

End(r) == /\ r \in asking
          /\ asking' = asking \ {r}
          /\ seen' = [seen EXCEPT ![r] = None]
          /\ answer' = [verdict |-> IF seen[r] = None THEN "unusable" ELSE "ok",
                        chain |-> seen[r], key |-> seen[r]]
          /\ UNCHANGED slot

Next == \/ \E s \in Serials : Publish(s)
        \/ ReplaceKey \/ ReplaceChain
        \/ \E r \in Readers : Begin(r) \/ NotFound(r) \/ End(r)

Spec == Init /\ [][Next]_vars
=============================================================================
