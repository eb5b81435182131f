--------------------------- MODULE ZoneLockProofs ---------------------------
(***************************************************************************)
(* Whatever orders compete, in any number of processes and for any names,  *)
(* ZoneLock keeps those of one process and one first name apart, and lets  *)
(* nobody wait for nothing.                                                *)
(***************************************************************************)
EXTENDS ZoneLock, TLAPS

Working(o) == pc[o] \in {"present", "validate", "cleanup", "release"}

(* Whoever works on a challenge holds the lock of its key.                 *)
WorkersHoldLock ==
  \A o \in Orders : Working(o) => lock[ProcessOf[o]][ChallengeTarget(o)] = o

(* What an order has presented is kept while it presents the rest.         *)
PresentedStays ==
  \A o \in Orders : pc[o] = "present" =>
    \A i \in Names(o) : i < step[o] => Kept(o, BaseAt(o, i))

(* An order that presents nothing stands at its first name.                *)
StepRests ==
  \A o \in Orders : pc[o] \notin {"present", "validate"} => step[o] = 1

IInv == TypeOK /\ StepRests /\ WorkersHoldLock /\ PresentedStays /\ RecordsSerialised

-----------------------------------------------------------------------------
LEMMA Shapes ==
  ASSUME NEW o \in Orders
  PROVE  /\ ProcessOf[o] \in Processes
         /\ ChallengeTarget(o) \in Keys
         /\ Len(Domains[o]) \in Nat \ {0} /\ 1 \in Names(o)
         /\ \A i \in Names(o) : BaseAt(o, i) \in Bases
<1> USE ConstantsAssumption
<1>1. Len(Domains[o]) \in Nat \ {0} /\ 1 \in Names(o)
  BY DEF Names
<1>2. ASSUME NEW i \in Names(o) PROVE BaseAt(o, i) \in Bases
  BY DEF BaseAt, Bases, Names
<1>3. ChallengeTarget(o) \in Keys
  <2>1. Domains[o][1].base \in Bases
    BY <1>1, <1>2 DEF BaseAt
  <2> QED BY <2>1 DEF ChallengeTarget, Keys
<1> QED BY <1>1, <1>2, <1>3

(* Two orders that the lock takes for competitors do not work at once.     *)
LEMMA OneWorker ==
  ASSUME WorkersHoldLock, NEW o \in Orders, NEW p \in Orders,
         Working(o), Working(p), ~Unseen(o, p)
  PROVE  o = p
<1>1. ProcessOf[o] = ProcessOf[p] /\ ChallengeTarget(o) = ChallengeTarget(p)
  BY DEF Unseen, ChallengeTarget, BaseAt
<1>2. /\ lock[ProcessOf[o]][ChallengeTarget(o)] = o
      /\ lock[ProcessOf[p]][ChallengeTarget(p)] = p
  BY DEF WorkersHoldLock
<1> QED BY <1>1, <1>2

LEMMA InitIInv == Init => IInv
<1> SUFFICES ASSUME Init PROVE IInv
  OBVIOUS
<1>1. TypeOK
  BY Shapes, ConstantsAssumption DEF Init, TypeOK
<1> QED BY <1>1 DEF Init, IInv, StepRests, WorkersHoldLock, PresentedStays, RecordsSerialised, Working

(* A step of one order keeps every variable's shape.                       *)
LEMMA StepTypes ==
  ASSUME TypeOK, NEW o \in Orders,
         Start(o) \/ Acquire(o) \/ Work(o) \/ OrderFails(o)
  PROVE  TypeOK'
<1> USE ConstantsAssumption DEF TypeOK, Goto
<1>0. /\ step[o] \in Nat /\ step[o] \in 1..Len(Domains[o])
      /\ Len(Domains[o]) \in Nat \ {0}
  BY Shapes DEF Names
<1>7. ASSUME \/ step' = [step EXCEPT ![o] = 1]
             \/ step[o] < Len(Domains[o]) /\ step' = [step EXCEPT ![o] = @ + 1]
      PROVE  step' \in [Orders -> Nat] /\ \A p \in Orders : step'[p] \in Names(p)
  <2>1. step'[o] \in 1..Len(Domains[o])
    BY <1>0, <1>7
  <2>2. \A p \in Orders : p # o => step'[p] = step[p]
    BY <1>7
  <2>3. step' \in [Orders -> Nat]
    <3>1. PICK n \in Nat : step' = [step EXCEPT ![o] = n]
      BY <1>0, <1>7
    <3> QED BY <3>1
  <2> QED BY <2>1, <2>2, <2>3 DEF Names
<1>8. ASSUME NEW where \in {"idle", "acquire", "present", "validate", "cleanup", "release"},
             pc' = [pc EXCEPT ![o] = where]
      PROVE  pc' \in [Orders -> {"idle", "acquire", "present", "validate", "cleanup", "release"}]
  BY <1>8
<1>1. CASE Start(o)
  BY <1>1 DEF Start
<1>2. CASE Acquire(o) \/ Release(o)
  <2>1. ASSUME NEW who \in Orders \cup {None},
               lock' = [lock EXCEPT ![ProcessOf[o]][ChallengeTarget(o)] = who]
        PROVE  lock' \in [Processes -> [Keys -> Orders \cup {None}]]
    BY <2>1, Shapes
  <2> QED BY <1>2, <2>1 DEF Acquire, Release
<1>3. CASE Present(o)
  <2>1. txt' \in [Bases -> Orders \cup {None}]
    BY <1>3, Shapes DEF Present
  <2> QED BY <1>7, <1>8, <1>3, <2>1 DEF Present
<1>4. CASE Validate(o)
  <2>1. valid' \in [Orders -> BOOLEAN]
    <3>1. (valid[o] /\ txt[BaseAt(o, step[o])] = o) \in BOOLEAN
      OBVIOUS
    <3> QED BY <1>4, <3>1 DEF Validate
  <2> QED BY <1>7, <1>8, <1>4, <2>1 DEF Validate
<1>5. CASE CleanUp(o)
  BY <1>5 DEF CleanUp
<1>6. CASE OrderFails(o)
  BY <1>0, <1>6 DEF OrderFails, Names
<1> QED BY <1>1, <1>2, <1>3, <1>4, <1>5, <1>6 DEF Work

(* A step of an order, as far as the records go: it becomes or stays a     *)
(* worker only with the lock, and changes the record of no other worker    *)
(* that its lock sees.                                                     *)
LEMMA StepIInv ==
  ASSUME IInv, NEW o \in Orders,
         Start(o) \/ Acquire(o) \/ Work(o) \/ OrderFails(o)
  PROVE  IInv'
<1> USE ConstantsAssumption
<1>1. TypeOK /\ TypeOK' /\ StepRests /\ WorkersHoldLock /\ PresentedStays /\ RecordsSerialised
  BY StepTypes DEF IInv
<1>2. /\ step[o] \in Nat /\ step[o] \in 1..Len(Domains[o])
      /\ Len(Domains[o]) \in Nat \ {0}
  BY <1>1, Shapes DEF TypeOK, Names
<1>3. ASSUME NEW p \in Orders, p # o
      PROVE  pc'[p] = pc[p] /\ step'[p] = step[p]
  BY <1>1, <1>3 DEF TypeOK, Start, Acquire, Work, Present, Validate, CleanUp, Release,
     OrderFails, Goto
<1>4. WorkersHoldLock'
  <2>1. SUFFICES ASSUME NEW p \in Orders, Working(p)'
                 PROVE  lock'[ProcessOf[p]][ChallengeTarget(p)] = p
    BY DEF WorkersHoldLock, ChallengeTarget
  <2>2. ProcessOf[p] \in Processes /\ ChallengeTarget(p) \in Keys
    BY Shapes
  <2>3. CASE Acquire(o)
    <3>1. CASE p = o
      BY <1>1, <2>2, <2>3, <3>1 DEF Acquire, TypeOK
    <3>2. CASE p # o
      <4>1. Working(p)
        BY <1>3, <2>1, <3>2 DEF Working
      <4>2. lock[ProcessOf[p]][ChallengeTarget(p)] = p
        BY <1>1, <4>1 DEF WorkersHoldLock
      <4>3. ~(ProcessOf[p] = ProcessOf[o] /\ ChallengeTarget(p) = ChallengeTarget(o))
        BY <2>3, <4>2 DEF Acquire
      <4> QED BY <1>1, <2>2, <2>3, <4>2, <4>3, Shapes DEF Acquire, TypeOK
    <3> QED BY <3>1, <3>2
  <2>4. CASE Release(o)
    <3>1. p # o
      BY <1>1, <2>1, <2>4 DEF Release, Goto, Working, TypeOK
    <3>2. Working(p) /\ Working(o)
      BY <1>3, <2>1, <2>4, <3>1 DEF Working, Release
    <3>3. /\ lock[ProcessOf[p]][ChallengeTarget(p)] = p
          /\ lock[ProcessOf[o]][ChallengeTarget(o)] = o
      BY <1>1, <3>2 DEF WorkersHoldLock
    <3>4. ~(ProcessOf[p] = ProcessOf[o] /\ ChallengeTarget(p) = ChallengeTarget(o))
      BY <3>1, <3>3
    <3> QED BY <1>1, <2>2, <2>4, <3>3, <3>4, Shapes DEF Release, TypeOK
  <2>5. CASE Start(o) \/ Present(o) \/ Validate(o) \/ CleanUp(o) \/ OrderFails(o)
    <3>1. lock' = lock
      BY <2>5 DEF Start, Present, Validate, CleanUp, OrderFails
    <3>2. Working(p)
      BY <1>1, <1>3, <2>1, <2>5
         DEF Working, Start, Present, Validate, CleanUp, OrderFails, Goto, TypeOK
    <3> QED BY <1>1, <3>1, <3>2 DEF WorkersHoldLock
  <2> QED BY <2>3, <2>4, <2>5 DEF Work
<1>5. ASSUME NEW p \in Orders, p # o, Working(p), NEW i \in Names(p),
             Kept(p, BaseAt(p, i))
      PROVE  Kept(p, BaseAt(p, i))'
  <2> DEFINE b == BaseAt(p, i)
  <2>1. b \in Bases
    BY Shapes
  <2>2. CASE Present(o)
    <3>1. Working(o) /\ step[o] \in Names(o)
      BY <1>1, <2>2 DEF Present, Working, TypeOK
    <3>2. CASE b = BaseAt(o, step[o])
      <4>1. Unseen(p, o) /\ Writes(o, b)
        BY <1>1, <1>5, <3>1, <3>2, OneWorker DEF Writes
      <4>2. txt'[b] = o
        BY <1>1, <2>1, <2>2, <3>2 DEF Present, TypeOK
      <4> QED BY <4>1, <4>2 DEF Kept, Unseen, Writes, BaseAt, Names
    <3>3. CASE b # BaseAt(o, step[o])
      <4>1. txt'[b] = txt[b]
        BY <1>1, <2>1, <2>2, <3>3 DEF Present, TypeOK
      <4> QED BY <1>5, <4>1 DEF Kept, Unseen, Writes, BaseAt, Names
    <3> QED BY <3>2, <3>3
  <2>3. CASE CleanUp(o)
    <3>1. txt'[b] = IF txt[b] = o THEN None ELSE txt[b]
      BY <2>1, <2>3 DEF CleanUp
    <3> QED BY <1>5, <3>1 DEF Kept, Unseen, Writes, BaseAt, Names
  <2>4. CASE Start(o) \/ Acquire(o) \/ Validate(o) \/ Release(o) \/ OrderFails(o)
    <3>1. txt' = txt
      BY <2>4 DEF Start, Acquire, Validate, Release, OrderFails
    <3> QED BY <1>5, <3>1 DEF Kept, Unseen, Writes, BaseAt, Names
  <2> QED BY <2>2, <2>3, <2>4 DEF Work
(* An order presents: what it has just written is its own, what it wrote   *)
(* before is kept.                                                         *)
<1>9. ASSUME Present(o), NEW i \in Names(o),
             i = step[o] \/ Kept(o, BaseAt(o, i))
      PROVE  Kept(o, BaseAt(o, i))'
  <2>1. BaseAt(o, i) \in Bases
    BY Shapes
  <2>2. txt'[BaseAt(o, i)] = IF BaseAt(o, i) = BaseAt(o, step[o]) THEN o ELSE txt[BaseAt(o, i)]
    BY <1>1, <1>9, <2>1 DEF Present, TypeOK
  <2> QED BY <1>9, <2>2 DEF Kept, Unseen, Writes, BaseAt, Names
<1>6. PresentedStays'
  <2>1. SUFFICES ASSUME NEW p \in Orders, pc'[p] = "present",
                        NEW i \in Names(p), i < step'[p]
                 PROVE  Kept(p, BaseAt(p, i))'
    BY DEF PresentedStays, Names, BaseAt
  <2>2. CASE p # o
    BY <1>1, <1>3, <1>5, <2>1, <2>2 DEF PresentedStays, Working
  <2>3. CASE p = o /\ Acquire(o)
    <3>1. step'[p] = 1
      BY <1>1, <2>3 DEF Acquire, StepRests
    <3> QED BY <2>1, <2>3, <3>1, Shapes DEF Names
  <2>4. CASE p = o /\ Present(o)
    <3>1. /\ step[o] < Len(Domains[o]) /\ step'[o] = step[o] + 1
      BY <1>1, <2>1, <2>4 DEF Present, Goto, TypeOK
    <3>2. i \in Nat /\ (i < step[o] \/ i = step[o])
      <4>1. i \in Nat /\ i < step'[o]
        BY <1>2, <2>1, <2>4 DEF Names
      <4> QED BY <1>2, <3>1, <4>1
    <3>3. BaseAt(o, i) \in Bases
      BY <2>1, <2>4, Shapes
    <3>4. i < step[o] => Kept(o, BaseAt(o, i))
      BY <1>1, <2>1, <2>4 DEF PresentedStays, Present
    <3> QED BY <2>4, <3>2, <3>3, <3>4, <1>9
  <2> QED BY <1>1, <2>1, <2>2, <2>3, <2>4
          DEF Start, Work, Validate, CleanUp, Release, OrderFails, Goto, TypeOK
<1>7. RecordsSerialised'
  <2>1. SUFFICES ASSUME NEW p \in Orders, pc'[p] = "validate", NEW i \in Names(p)
                 PROVE  Kept(p, BaseAt(p, i))'
    BY DEF RecordsSerialised, Names, BaseAt
  <2>2. CASE p # o
    BY <1>1, <1>3, <1>5, <2>1, <2>2 DEF RecordsSerialised, Working
  <2>3. CASE p = o /\ Present(o)
    <3>1. step[o] = Len(Domains[o])
      BY <1>1, <1>2, <2>1, <2>3 DEF Present, TypeOK
    <3>2. i \in Nat /\ (i < step[o] \/ i = step[o])
      BY <1>2, <2>1, <2>3, <3>1 DEF Names
    <3>3. BaseAt(o, i) \in Bases
      BY <2>1, <2>3, Shapes
    <3>4. i < step[o] => Kept(o, BaseAt(o, i))
      BY <1>1, <2>1, <2>3 DEF PresentedStays, Present
    <3> QED BY <2>3, <3>2, <3>3, <3>4, <1>9
  <2>4. CASE p = o /\ Validate(o)
    BY <1>1, <2>1, <2>4 DEF Validate, RecordsSerialised, Kept, Unseen, Writes, BaseAt, Names
  <2> QED BY <1>1, <2>1, <2>2, <2>3, <2>4
          DEF Start, Acquire, Work, CleanUp, Release, OrderFails, Goto, TypeOK
<1>8. StepRests'
  <2>1. SUFFICES ASSUME NEW p \in Orders, pc'[p] \notin {"present", "validate"}
                 PROVE  step'[p] = 1
    BY DEF StepRests
  <2>2. CASE p # o
    BY <1>1, <1>3, <2>1, <2>2 DEF StepRests
  <2>3. CASE p = o
    <3>1. CASE Start(o) \/ Acquire(o) \/ CleanUp(o) \/ Release(o)
      BY <1>1, <2>1, <2>3, <3>1
         DEF Start, Acquire, CleanUp, Release, Goto, StepRests, TypeOK
    <3>2. CASE Present(o) \/ Validate(o) \/ OrderFails(o)
      BY <1>1, <2>1, <2>3, <3>2 DEF Present, Validate, OrderFails, Goto, TypeOK
    <3> QED BY <3>1, <3>2 DEF Work
  <2> QED BY <2>2, <2>3
<1> QED BY <1>1, <1>4, <1>6, <1>7, <1>8 DEF IInv

-----------------------------------------------------------------------------
(* "A domain and its wildcard form cannot trip over each other" (Obtain):  *)
(* however many orders run, in however many processes and for whatever     *)
(* names, the CA reads in every record the value of the order it           *)
(* validates, or that record was written by an order of another process or *)
(* of another first name.                                                  *)
THEOREM RecordsAreSerialised == Spec => []RecordsSerialised
<1>1. IInv /\ [Next]_vars => IInv'
  <2> SUFFICES ASSUME IInv, [Next]_vars PROVE IInv'
    OBVIOUS
  <2>1. CASE Next
    BY <2>1, StepIInv DEF Next
  <2>2. CASE UNCHANGED vars
    <3>1. lock' = lock /\ txt' = txt /\ pc' = pc /\ step' = step /\ valid' = valid
      BY <2>2 DEF vars
    <3>2. \A o \in Orders : \A i \in Names(o) :
            Kept(o, BaseAt(o, i))' <=> Kept(o, BaseAt(o, i))
      BY <3>1 DEF Kept, Unseen, Writes, BaseAt, Names
    <3>3. PresentedStays' /\ RecordsSerialised'
      BY <3>1, <3>2 DEF IInv, PresentedStays, RecordsSerialised, BaseAt, Names
    <3> QED BY <3>1, <3>3 DEF IInv, TypeOK, StepRests, WorkersHoldLock, Working, Names,
            ChallengeTarget
  <2> QED BY <2>1, <2>2
<1>2. IInv => RecordsSerialised
  BY DEF IInv
<1> QED BY InitIInv, <1>1, <1>2, PTL DEF Spec

-----------------------------------------------------------------------------
(* The safety half of OrdersEnd, whatever the orders share: nobody waits   *)
(* for an order that is gone or that waits itself.                         *)
LockOK == /\ lock \in [Processes -> [Keys -> Orders \cup {None}]]
          /\ pc \in [Orders -> {"idle", "acquire", "present", "validate", "cleanup", "release"}]

(* A lock is held by an order of its process and key that is at work.      *)
HoldersWork ==
  \A p \in Processes, k \in Keys :
    lock[p][k] # None => /\ Working(lock[p][k])
                         /\ ProcessOf[lock[p][k]] = p /\ ChallengeTarget(lock[p][k]) = k

LockInv == LockOK /\ HoldersWork /\ WorkersHoldLock

LEMMA NextLockInv ==
  ASSUME LockInv, [Next]_vars
  PROVE  LockInv'
<1> USE ConstantsAssumption DEF Goto
<1>0. LockOK /\ HoldersWork /\ WorkersHoldLock
  BY DEF LockInv
<1>1. ASSUME NEW o \in Orders, Acquire(o) PROVE LockInv'
  <2> DEFINE q == ProcessOf[o]
             t == ChallengeTarget(o)
  <2>0. q \in Processes /\ t \in Keys
    BY Shapes
  <2>1. /\ pc[o] = "acquire" /\ lock[q][t] = None
        /\ lock' = [lock EXCEPT ![q][t] = o] /\ pc' = [pc EXCEPT ![o] = "present"]
    BY <1>1 DEF Acquire
  <2> HIDE DEF q, t
  <2>2. LockOK'
    BY <1>0, <2>0, <2>1 DEF LockOK
  <2>3. ASSUME NEW p \in Processes, NEW k \in Keys
        PROVE  lock'[p][k] = IF p = q /\ k = t THEN o ELSE lock[p][k]
    BY <1>0, <2>0, <2>1 DEF LockOK
  <2>4. \A x \in Orders : Working(x)' <=> Working(x) \/ x = o
    BY <1>0, <2>1 DEF LockOK, Working
  <2>5. HoldersWork'
    <3> SUFFICES ASSUME NEW p \in Processes, NEW k \in Keys, lock'[p][k] # None
                 PROVE  /\ Working(lock[p][k])'
                        /\ ProcessOf[lock'[p][k]] = p /\ ChallengeTarget(lock'[p][k]) = k
      BY DEF HoldersWork
    <3>1. CASE p = q /\ k = t
      BY <2>3, <2>4, <3>1 DEF q, t, Working
    <3>2. CASE ~(p = q /\ k = t)
      <4>1. lock'[p][k] = lock[p][k] /\ lock[p][k] \in Orders
        BY <1>0, <2>3, <3>2 DEF LockOK
      <4>2. /\ Working(lock[p][k])
            /\ ProcessOf[lock[p][k]] = p /\ ChallengeTarget(lock[p][k]) = k
        BY <1>0, <4>1 DEF HoldersWork
      <4> QED BY <2>4, <4>1, <4>2 DEF Working
    <3> QED BY <3>1, <3>2
  <2>6. WorkersHoldLock'
    <3> SUFFICES ASSUME NEW x \in Orders, Working(x)'
                 PROVE  lock'[ProcessOf[x]][ChallengeTarget(x)] = x
      BY DEF WorkersHoldLock
    <3>1. CASE x = o
      BY <2>0, <2>3, <3>1 DEF q, t
    <3>2. CASE x # o
      <4>1. lock[ProcessOf[x]][ChallengeTarget(x)] = x
        BY <1>0, <2>4, <3>2 DEF WorkersHoldLock
      <4>2. ~(ProcessOf[x] = q /\ ChallengeTarget(x) = t)
        BY <2>1, <4>1
      <4> QED BY <2>3, <4>1, <4>2, Shapes
    <3> QED BY <3>1, <3>2
  <2> QED BY <2>2, <2>5, <2>6 DEF LockInv
<1>2. ASSUME NEW o \in Orders, Release(o) PROVE LockInv'
  <2> DEFINE q == ProcessOf[o]
             t == ChallengeTarget(o)
  <2>0. q \in Processes /\ t \in Keys
    BY Shapes
  <2>1. /\ pc[o] = "release"
        /\ lock' = [lock EXCEPT ![q][t] = None] /\ pc' = [pc EXCEPT ![o] = "idle"]
    BY <1>2 DEF Release
  <2>2. lock[q][t] = o
    BY <1>0, <2>1 DEF WorkersHoldLock, Working
  <2> HIDE DEF q, t
  <2>3. LockOK'
    BY <1>0, <2>0, <2>1 DEF LockOK
  <2>4. ASSUME NEW p \in Processes, NEW k \in Keys
        PROVE  lock'[p][k] = IF p = q /\ k = t THEN None ELSE lock[p][k]
    BY <1>0, <2>0, <2>1 DEF LockOK
  <2>5. \A x \in Orders : Working(x)' <=> Working(x) /\ x # o
    BY <1>0, <2>1 DEF LockOK, Working
  <2>6. HoldersWork'
    <3> SUFFICES ASSUME NEW p \in Processes, NEW k \in Keys, lock'[p][k] # None
                 PROVE  /\ Working(lock[p][k])'
                        /\ ProcessOf[lock'[p][k]] = p /\ ChallengeTarget(lock'[p][k]) = k
      BY DEF HoldersWork
    <3>1. ~(p = q /\ k = t) /\ lock'[p][k] = lock[p][k] /\ lock[p][k] \in Orders
      BY <1>0, <2>4 DEF LockOK
    <3>2. /\ Working(lock[p][k])
          /\ ProcessOf[lock[p][k]] = p /\ ChallengeTarget(lock[p][k]) = k
      BY <1>0, <3>1 DEF HoldersWork
    <3>3. lock[p][k] # o
      BY <3>1, <3>2 DEF q, t
    <3> QED BY <2>5, <3>1, <3>2, <3>3 DEF Working
  <2>7. WorkersHoldLock'
    <3> SUFFICES ASSUME NEW x \in Orders, Working(x)'
                 PROVE  lock'[ProcessOf[x]][ChallengeTarget(x)] = x
      BY DEF WorkersHoldLock
    <3>1. x # o /\ lock[ProcessOf[x]][ChallengeTarget(x)] = x
      BY <1>0, <2>5 DEF WorkersHoldLock
    <3>2. ~(ProcessOf[x] = q /\ ChallengeTarget(x) = t)
      BY <2>2, <3>1
    <3> QED BY <2>4, <3>1, <3>2, Shapes
  <2> QED BY <2>3, <2>6, <2>7 DEF LockInv
(* The other steps take and give no lock, and nobody begins or ends work.  *)
<1>3. ASSUME lock' = lock,
             pc' \in [Orders -> {"idle", "acquire", "present", "validate", "cleanup", "release"}],
             \A x \in Orders : Working(x)' <=> Working(x)
      PROVE  LockInv'
  <2>1. LockOK'
    BY <1>0, <1>3 DEF LockOK
  <2>2. HoldersWork'
    <3> SUFFICES ASSUME NEW p \in Processes, NEW k \in Keys, lock[p][k] # None
                 PROVE  /\ Working(lock[p][k])'
                        /\ ProcessOf[lock[p][k]] = p /\ ChallengeTarget(lock[p][k]) = k
      BY <1>3 DEF HoldersWork
    <3>1. lock[p][k] \in Orders
      BY <1>0 DEF LockOK
    <3>2. Working(lock[p][k]) /\ ProcessOf[lock[p][k]] = p /\ ChallengeTarget(lock[p][k]) = k
      BY <1>0 DEF HoldersWork
    <3> QED BY <1>3, <3>1, <3>2 DEF Working
  <2>3. WorkersHoldLock'
    BY <1>0, <1>3 DEF WorkersHoldLock
  <2> QED BY <2>1, <2>2, <2>3 DEF LockInv
<1>4. ASSUME NEW o \in Orders,
             Start(o) \/ Present(o) \/ Validate(o) \/ CleanUp(o) \/ OrderFails(o)
      PROVE  LockInv'
  <2>1. lock' = lock
    BY <1>4 DEF Start, Present, Validate, CleanUp, OrderFails
  <2>2. \/ pc' = pc
        \/ pc[o] = "idle" /\ pc' = [pc EXCEPT ![o] = "acquire"]
        \/ /\ pc[o] \in {"present", "validate", "cleanup"}
           /\ \E w \in {"validate", "cleanup", "release"} : pc' = [pc EXCEPT ![o] = w]
    BY <1>4 DEF Start, Present, Validate, CleanUp, OrderFails
  <2>3. /\ pc' \in [Orders -> {"idle", "acquire", "present", "validate", "cleanup", "release"}]
        /\ \A x \in Orders : Working(x)' <=> Working(x)
    BY <1>0, <2>2 DEF LockOK, Working
  <2> QED BY <1>3, <2>1, <2>3
<1>5. CASE UNCHANGED vars
  <2>1. lock' = lock /\ pc' = pc
    BY <1>5 DEF vars
  <2> QED BY <1>0, <2>1 DEF LockInv, LockOK, HoldersWork, WorkersHoldLock, Working
<1> QED BY <1>1, <1>2, <1>4, <1>5 DEF Next, Work

(* No order waits for nothing or in a circle: whoever waits for a key      *)
(* waits for one other order, which is at work and waits for nobody, and   *)
(* every order at work, also one that failed, holds what it will release.  *)
THEOREM WaitersWaitForWork ==
  Spec => [](/\ WorkersHoldLock
             /\ \A o \in Orders :
                  LET holder == lock[ProcessOf[o]][ChallengeTarget(o)]
                  IN  pc[o] = "acquire" /\ holder # None => holder # o /\ Working(holder))
<1> DEFINE Waiting == \A o \in Orders :
                        LET holder == lock[ProcessOf[o]][ChallengeTarget(o)]
                        IN  pc[o] = "acquire" /\ holder # None => holder # o /\ Working(holder)
<1>1. Init => LockInv
  BY ConstantsAssumption DEF Init, LockInv, LockOK, HoldersWork, WorkersHoldLock, Working
<1>2. LockInv /\ [Next]_vars => LockInv'
  BY NextLockInv
<1>3. LockInv => WorkersHoldLock /\ Waiting
  <2> SUFFICES ASSUME LockInv PROVE WorkersHoldLock /\ Waiting
    OBVIOUS
  <2>1. ASSUME NEW o \in Orders, pc[o] = "acquire",
               lock[ProcessOf[o]][ChallengeTarget(o)] # None
        PROVE  /\ lock[ProcessOf[o]][ChallengeTarget(o)] # o
               /\ Working(lock[ProcessOf[o]][ChallengeTarget(o)])
    <3>1. Working(lock[ProcessOf[o]][ChallengeTarget(o)])
      BY <2>1, Shapes DEF LockInv, HoldersWork
    <3>2. ~Working(o)
      BY <2>1 DEF Working
    <3> QED BY <3>1, <3>2
  <2> QED BY <2>1 DEF LockInv
<1> QED BY <1>1, <1>2, <1>3, PTL DEF Spec
=============================================================================
