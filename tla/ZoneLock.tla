------------------------------ MODULE ZoneLock ------------------------------
(***************************************************************************)
(* Orders that compete for DNS challenge records: internal/acme's ZoneLock *)
(* and the two operations of Issuer that use it, Obtain (the obtain and    *)
(* renew commands) and ObtainForCSR (serve, one per issue request).  Each  *)
(* process has an Issuer, and so a ZoneLock, of its own.  Solving the      *)
(* challenges is lego's part: one TXT record per base name, written before *)
(* the CA looks at it and cleaned up after.                                *)
(***************************************************************************)
EXTENDS Naturals, Sequences, FiniteSets

CONSTANTS
  Orders,       \* concurrent calls of Obtain or ObtainForCSR
  Processes,    \* processes with an Issuer
  ProcessOf,    \* the process an order runs in
  Domains,      \* the names an order asks for, each [base, wild]
  None

ASSUME ConstantsAssumption ==
  /\ ProcessOf \in [Orders -> Processes]
  /\ \A o \in Orders : Len(Domains[o]) \in Nat \ {0}
  /\ None \notin Orders

Bases == UNION {{Domains[o][i].base : i \in 1..Len(Domains[o])} : o \in Orders}

VARIABLES
  lock,         \* per process and key: the order that holds it
  txt,          \* per base name: the order whose value is in the record
  pc,           \* per order
  step,         \* per order: the name it is at
  valid         \* per order: no challenge failed so far

vars == <<lock, txt, pc, step, valid>>

(* Fault variant: the key is the name as asked for, wildcard and all.      *)
ChallengeTargetAsAsked(o) == Domains[o][1]

(* challengeTarget: the base of the first name, so that a wildcard and its *)
(* base share a key.                                                       *)
ChallengeTarget(o) == [base |-> Domains[o][1].base, wild |-> FALSE]

Keys == [base : Bases, wild : BOOLEAN]
Names(o) == 1..Len(Domains[o])
BaseAt(o, i) == Domains[o][i].base

Init ==
  /\ lock = [p \in Processes |-> [k \in Keys |-> None]]
  /\ txt = [b \in Bases |-> None]
  /\ pc = [o \in Orders |-> "idle"]
  /\ step = [o \in Orders |-> 1]
  /\ valid = [o \in Orders |-> TRUE]

Goto(o, where) == pc' = [pc EXCEPT ![o] = where]

(* The account, the client and the provider are set up; an error there     *)
(* returns before any lock is taken and leaves no trace.                   *)
Start(o) ==
  /\ pc[o] = "idle"
  /\ Goto(o, "acquire")
  /\ valid' = [valid EXCEPT ![o] = TRUE]
  /\ UNCHANGED <<lock, txt, step>>

(* Acquire blocks until nobody of this process holds the key.              *)
Acquire(o) ==
  /\ pc[o] = "acquire"
  /\ lock[ProcessOf[o]][ChallengeTarget(o)] = None
  /\ lock' = [lock EXCEPT ![ProcessOf[o]][ChallengeTarget(o)] = o]
  /\ Goto(o, "present")
  /\ UNCHANGED <<txt, step, valid>>

(* lego writes the challenge records, one name after the other...          *)
Present(o) ==
  /\ pc[o] = "present"
  /\ txt' = [txt EXCEPT ![BaseAt(o, step[o])] = o]
  /\ IF step[o] < Len(Domains[o])
       THEN step' = [step EXCEPT ![o] = @ + 1] /\ UNCHANGED pc
       ELSE step' = [step EXCEPT ![o] = 1] /\ Goto(o, "validate")
  /\ UNCHANGED <<lock, valid>>

(* ... the CA reads them: another order's value fails the challenge...     *)
Validate(o) ==
  /\ pc[o] = "validate"
  /\ valid' = [valid EXCEPT ![o] = @ /\ txt[BaseAt(o, step[o])] = o]
  /\ IF step[o] < Len(Domains[o])
       THEN step' = [step EXCEPT ![o] = @ + 1] /\ UNCHANGED pc
       ELSE step' = [step EXCEPT ![o] = 1] /\ Goto(o, "cleanup")
  /\ UNCHANGED <<lock, txt>>

(* ... and lego removes its values.                                        *)
CleanUp(o) ==
  /\ pc[o] = "cleanup"
  /\ txt' = [b \in Bases |-> IF txt[b] = o THEN None ELSE txt[b]]
  /\ Goto(o, "release")
  /\ UNCHANGED <<lock, step, valid>>

(* Fault variant: a failed order is tried again without giving the lock up. *)
ReleaseRetriesFailed(o) ==
  /\ pc[o] = "release"
  /\ IF valid[o]
       THEN /\ lock' = [lock EXCEPT ![ProcessOf[o]][ChallengeTarget(o)] = None]
            /\ Goto(o, "idle") /\ UNCHANGED valid
       ELSE /\ Goto(o, "present") /\ valid' = [valid EXCEPT ![o] = TRUE]
            /\ UNCHANGED lock
  /\ UNCHANGED <<txt, step>>

(* The deferred release, whether the order succeeded or not.               *)
Release(o) ==
  /\ pc[o] = "release"
  /\ lock' = [lock EXCEPT ![ProcessOf[o]][ChallengeTarget(o)] = None]
  /\ Goto(o, "idle")
  /\ UNCHANGED <<txt, step, valid>>

(* The CA, the network or the context ends the order early.                *)
OrderFails(o) ==
  /\ pc[o] \in {"present", "validate"}
  /\ valid' = [valid EXCEPT ![o] = FALSE]
  /\ step' = [step EXCEPT ![o] = 1]
  /\ Goto(o, "cleanup")
  /\ UNCHANGED <<lock, txt>>

Work(o) == Present(o) \/ Validate(o) \/ CleanUp(o) \/ Release(o)

Next == \E o \in Orders : Start(o) \/ Acquire(o) \/ Work(o) \/ OrderFails(o)

Spec == Init /\ [][Next]_vars

(* An order at work goes on; a sync.Mutex hands itself to a waiter that    *)
(* has waited long enough.                                                 *)
Fairness == \A o \in Orders : WF_vars(Work(o)) /\ SF_vars(Acquire(o))

FairSpec == Spec /\ Fairness

-----------------------------------------------------------------------------
(* Every variable has its shape.                                           *)
TypeOK ==
  /\ lock \in [Processes -> [Keys -> Orders \cup {None}]]
  /\ txt \in [Bases -> Orders \cup {None}]
  /\ pc \in [Orders -> {"idle", "acquire", "present", "validate", "cleanup", "release"}]
  /\ step \in [Orders -> Nat] /\ \A o \in Orders : step[o] \in Names(o)
  /\ valid \in [Orders -> BOOLEAN]

(* The lock tells o and p apart though they may write one record: they run *)
(* in two processes, or their first names differ and others do not.        *)
Unseen(o, p) == ProcessOf[o] # ProcessOf[p] \/ BaseAt(o, 1) # BaseAt(p, 1)

Writes(p, b) == \E j \in Names(p) : BaseAt(p, j) = b

(* The record of b has the value of o, or else that of an order that o's   *)
(* lock does not see, or none once such an order has cleaned up.           *)
Kept(o, b) ==
  txt[b] = o \/ \E p \in Orders : Unseen(o, p) /\ Writes(p, b) /\ txt[b] \in {p, None}

(* "A domain and its wildcard form cannot trip over each other" (Obtain):  *)
(* while an order is validated, every record it wrote still has its value, *)
(* whatever orders of the same process and first name, wildcard or not,    *)
(* begin, fail and clean up meanwhile.  That all "work competing for the   *)
(* same DNS challenge record is serialised" would be too much to say: what *)
(* spoils a record comes from an order that the lock does not see.         *)
RecordsSerialised ==
  \A o \in Orders : pc[o] = "validate" => \A i \in Names(o) : Kept(o, BaseAt(o, i))

(* Every order that waits for its turn gets it and ends.                   *)
OrdersEnd == \A o \in Orders : pc[o] = "acquire" ~> pc[o] = "idle"
=============================================================================
