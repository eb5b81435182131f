-------------------------- MODULE TokenStoreProofs --------------------------
(***************************************************************************)
(* For any number of tokens, handlers and faults: the store is well typed, *)
(* a token is redeemed at most once and within its validity, claim files   *)
(* do not stray, Prune removes only what is stale by then, and the store   *)
(* implements OneTimeToken.                                                *)
(***************************************************************************)
EXTENDS TokenStore, TLAPS

(* Only one handler is past the claim of a token, and a token that is      *)
(* pending or being claimed was never granted: SingleUse alone is not      *)
(* inductive, because RedeemDone increments the count.                     *)
ClaimedOnce ==
  /\ \A t \in Ids : pending[t] # None => /\ t \in issued
                                         /\ grants[t] = 0
                                         /\ \A h \in Handlers : ~Holding(h, t)
  /\ \A t \in Ids, h \in Handlers : Holding(h, t) => t \in issued /\ grants[t] = 0
  /\ \A t \in Ids : \A g, h \in Handlers :
       Holding(g, t) /\ Holding(h, t) => g = h
  /\ \A t \in Ids \ issued : grants[t] = 0

(* A handler that is at work has a request; past Verify it has a record.   *)
Equipped ==
  \A h \in Handlers :
    /\ pc[h] # "idle" => req[h] \in Requests
    /\ pc[h] \in {"claim", "write", "cleanup"} => held[h] \in Records

IInv == TypeOK /\ Equipped /\ ClaimedOnce /\ SingleUse

(* A new record is a record.                                               *)
LEMMA NewTokenType ==
  ASSUME NEW ca \in CAs, NEW l \in Lifetimes, NEW at \in Int
  PROVE  NewToken(ca, l, at) \in Records
BY ConstantsAssumption DEF NewToken, Records

(* Get returns a record or nothing, and Verify accepts only a record.      *)
LEMMA VerifiedIsRecord ==
  ASSUME TypeOK, NEW t \in Ids, NEW right, NEW now,
         Verify(Get(t), right, now) = "ok"
  PROVE  Get(t) \in Records
<1>1. Get(t) \in Records \cup {None}
  BY DEF TypeOK, Get
<1>2. Get(t) # None
  <2>1. SUFFICES ASSUME Get(t) = None PROVE FALSE
    OBVIOUS
  <2>2. Verify(Get(t), right, now) = "unknown"
    BY <2>1, Zenon DEF Verify
  <2> QED BY <2>2
<1> QED BY <1>1, <1>2

LEMMA InitIInv == Init => IInv
BY ConstantsAssumption, SMT
   DEF Init, IInv, TypeOK, Equipped, ClaimedOnce, SingleUse, Holding

(* Every step keeps the inductive invariant.                               *)
LEMMA NextIInv == IInv /\ [Next]_vars => IInv'
<1> USE ConstantsAssumption
<1> SUFFICES ASSUME IInv, [Next]_vars PROVE IInv'
  OBVIOUS
<1>1. CASE Tick
  BY <1>1 DEF Tick, IInv, TypeOK, Equipped, ClaimedOnce, SingleUse, Holding,
              files, handler, pruner
<1>2. ASSUME NEW t \in Ids, NEW ca \in CAs, NEW l \in Lifetimes, Put(t, ca, l)
      PROVE  IInv'
  <2>1. NewToken(ca, l, clock) \in Records
    BY NewTokenType DEF IInv, TypeOK
  <2> HIDE DEF NewToken
  <2>2. TypeOK' /\ Equipped'
    BY <1>2, <2>1 DEF Put, IInv, TypeOK, Equipped, handler, pruner
  <2>3. \A h \in Handlers : ~Holding(h, t)
    BY <1>2 DEF Put, IInv, ClaimedOnce
  <2>4. ClaimedOnce' /\ SingleUse'
    BY <1>2, <2>1, <2>3 DEF Put, IInv, TypeOK, ClaimedOnce, SingleUse, Holding,
                            handler, pruner
  <2> QED BY <2>2, <2>4 DEF IInv
<1>3. ASSUME NEW h \in Handlers, NEW t \in Ids, NEW right \in BOOLEAN,
             RedeemStart(h, t, right)
      PROVE  IInv'
  <2>1. [id |-> t, rightSecret |-> right, now |-> clock] \in Requests
    BY DEF IInv, TypeOK, Requests
  <2>2. TypeOK' /\ Equipped'
    BY <1>3, <2>1 DEF RedeemStart, IInv, TypeOK, Equipped, files, pruner
  <2>3. \A g \in Handlers, u \in Ids : Holding(g, u)' => Holding(g, u)
    BY <1>3 DEF RedeemStart, IInv, TypeOK, Holding
  <2>4. ClaimedOnce' /\ SingleUse'
    BY <1>3, <2>3 DEF RedeemStart, IInv, ClaimedOnce, SingleUse, files, pruner
  <2> QED BY <2>2, <2>4 DEF IInv
<1>4. ASSUME NEW h \in Handlers, RedeemVerify(h)
      PROVE  IInv'
  <2>1. req[h].id \in Ids
    BY <1>4 DEF RedeemVerify, IInv, Equipped, Requests
  <2>2. Verify(Get(req[h].id), req[h].rightSecret, req[h].now) = "ok"
          => Get(req[h].id) \in Records
    BY <2>1, VerifiedIsRecord DEF IInv
  <2>3. TypeOK' /\ Equipped'
    BY <1>4, <2>2 DEF RedeemVerify, Return, IInv, TypeOK, Equipped, files, pruner
  <2>4. \A g \in Handlers, u \in Ids : Holding(g, u)' => Holding(g, u)
    BY <1>4 DEF RedeemVerify, Return, IInv, TypeOK, Holding
  <2>5. ClaimedOnce' /\ SingleUse'
    BY <1>4, <2>4 DEF RedeemVerify, IInv, ClaimedOnce, SingleUse, files, pruner
  <2> QED BY <2>3, <2>5 DEF IInv
<1>5. ASSUME NEW h \in Handlers, RedeemClaim(h)
      PROVE  IInv'
  <2>1. req[h].id \in Ids
    BY <1>5 DEF RedeemClaim, IInv, Equipped, Requests
  <2>2. TypeOK' /\ Equipped'
    BY <1>5, <2>1 DEF RedeemClaim, Return, IInv, TypeOK, Equipped, pruner
  <2>3. \A g \in Handlers, u \in Ids :
          Holding(g, u)' => Holding(g, u) \/ (g = h /\ u = req[h].id /\ pending[u] # None)
    BY <1>5 DEF RedeemClaim, Return, IInv, TypeOK, Holding
  <2>4. \A u \in Ids : pending'[u] # None => pending[u] # None /\ (u = req[h].id => FALSE)
    BY <1>5, <2>1 DEF RedeemClaim, Return, IInv, TypeOK
  <2>5. ClaimedOnce' /\ SingleUse'
    BY <1>5, <2>3, <2>4 DEF RedeemClaim, IInv, ClaimedOnce, SingleUse, pruner
  <2> QED BY <2>2, <2>5 DEF IInv
<1>6. ASSUME NEW h \in Handlers, RedeemWrite(h)
      PROVE  IInv'
  <2>1. req[h].id \in Ids /\ [held[h] EXCEPT !.redeemedAt = req[h].now] \in Records
    BY <1>6 DEF RedeemWrite, IInv, Equipped, Requests, Records
  <2>2. TypeOK' /\ Equipped'
    BY <1>6, <2>1 DEF RedeemWrite, IInv, TypeOK, Equipped, pruner
  <2>3. \A g \in Handlers, u \in Ids : Holding(g, u)' <=> Holding(g, u)
    BY <1>6 DEF RedeemWrite, IInv, TypeOK, Holding
  <2>4. ClaimedOnce' /\ SingleUse'
    BY <1>6, <2>3 DEF RedeemWrite, IInv, ClaimedOnce, SingleUse, pruner
  <2> QED BY <2>2, <2>4 DEF IInv
<1>7. ASSUME NEW h \in Handlers, RedeemWriteFails(h)
      PROVE  IInv'
  <2>1. TypeOK' /\ Equipped'
    BY <1>7 DEF RedeemWriteFails, Return, IInv, TypeOK, Equipped, files, pruner
  <2>2. \A g \in Handlers, u \in Ids : Holding(g, u)' => Holding(g, u)
    BY <1>7 DEF RedeemWriteFails, Return, IInv, TypeOK, Holding
  <2>3. ClaimedOnce' /\ SingleUse'
    BY <1>7, <2>2 DEF RedeemWriteFails, IInv, ClaimedOnce, SingleUse, files, pruner
  <2> QED BY <2>1, <2>3 DEF IInv
<1>8. ASSUME NEW h \in Handlers, RedeemDone(h)
      PROVE  IInv'
  <2>0. PICK t \in Ids : t = req[h].id
    BY <1>8 DEF RedeemDone, IInv, Equipped, Requests
  <2>1. Holding(h, t)
    BY <1>8, <2>0 DEF RedeemDone, Holding
  <2>2. grants[t] = 0 /\ t \in issued /\ pending[t] = None
    BY <2>1 DEF IInv, ClaimedOnce
  <2>3. /\ grants' = [grants EXCEPT ![t] = @ + 1]
        /\ UNCHANGED <<clock, pending, redeemed, pruner, issued>>
    BY <1>8, <2>0 DEF RedeemDone
  <2>4. TypeOK' /\ Equipped'
    BY <1>8, <2>0, <2>3 DEF RedeemDone, Return, IInv, TypeOK, Equipped, pruner
  <2>5. \A g \in Handlers, u \in Ids : Holding(g, u)' => Holding(g, u) /\ g # h
    BY <1>8 DEF RedeemDone, Return, IInv, TypeOK, Holding
  <2>6. \A g \in Handlers : ~Holding(g, t)'
    BY <2>1, <2>5 DEF IInv, ClaimedOnce
  <2>7. \A u \in Ids : grants'[u] = IF u = t THEN 1 ELSE grants[u]
    BY <2>1, <2>2, <2>3 DEF IInv, TypeOK
  <2>8. ClaimedOnce' /\ SingleUse'
    BY <2>2, <2>3, <2>5, <2>6, <2>7 DEF IInv, ClaimedOnce, SingleUse, pruner
  <2> QED BY <2>4, <2>8 DEF IInv
<1>9. CASE Prune
  <2> DEFINE Keeps == /\ UNCHANGED <<clock, handler, issued, grants, faults, claiming>>
                      /\ \A t \in Ids : pending'[t] # None => pending[t] # None
                      /\ TypeOK'
  <2>a. ASSUME PruneStart \/ PruneNextDir \/ PruneListed \/ PruneEnd PROVE Keeps
    BY <2>a DEF PruneStart, PruneNextDir, PruneListed, PruneEnd, files, handler,
                IInv, TypeOK
  <2>b. ASSUME NEW t \in Ids, PruneRead(t) PROVE Keeps
    BY <2>b DEF PruneRead, files, handler, IInv, TypeOK
  <2>c. ASSUME NEW t \in Ids, PruneRemovePending(t) PROVE Keeps
    BY <2>c DEF PruneRemovePending, handler, IInv, TypeOK
  <2>d. ASSUME NEW t \in Ids, PruneRemoveRedeemed(t) PROVE Keeps
    BY <2>d DEF PruneRemoveRedeemed, handler, IInv, TypeOK
  <2>1. Keeps
    BY <1>9, <2>a, <2>b, <2>c, <2>d DEF Prune
  <2>3. Equipped' /\ ClaimedOnce' /\ SingleUse'
    BY <2>1 DEF IInv, Equipped, ClaimedOnce, SingleUse, Holding, handler
  <2> QED BY <2>1, <2>3 DEF IInv
<1>10. CASE Crash
  BY <1>10 DEF Crash, IInv, TypeOK, Equipped, ClaimedOnce, SingleUse, Holding, files
<1>11. CASE UNCHANGED vars
  BY <1>11 DEF vars, files, handler, pruner, IInv, TypeOK, Equipped, ClaimedOnce,
               SingleUse, Holding
<1> QED
  BY <1>1, <1>2, <1>3, <1>4, <1>5, <1>6, <1>7, <1>8, <1>9, <1>10, <1>11
     DEF Next, Redeem

(* The store's variables keep their shape in every reachable state.        *)
THEOREM TypeCorrect == Spec => []TypeOK
<1>1. IInv => TypeOK
  BY DEF IInv
<1> QED BY <1>1, InitIInv, NextIInv, PTL DEF Spec

(* However many callers race and wherever the broker dies, Redeem succeeds *)
(* at most once for a token.                                               *)
THEOREM RedeemedAtMostOnce == Spec => []SingleUse
<1>1. IInv => SingleUse
  BY DEF IInv
<1> QED BY <1>1, InitIInv, NextIInv, PTL DEF Spec

-----------------------------------------------------------------------------
(* Redemptions in time, and claims in hand.                                *)

(* What a handler past Verify holds was valid at the moment it read: the   *)
(* strengthening that makes RedeemedInTime inductive.                      *)
Judged ==
  \A h \in Handlers : pc[h] \in {"claim", "write"} =>
    /\ held[h].notBefore <= req[h].now
    /\ req[h].now <= held[h].notAfter
    /\ held[h].ca = BrokerCA

InTime == Judged /\ RedeemedInTime

(* Verify accepts a record of this CA within its validity.                 *)
LEMMA VerdictMeansInTime ==
  ASSUME NEW rec \in Records, NEW right \in BOOLEAN, NEW now \in Int,
         Verify(rec, right, now) = "ok"
  PROVE  rec.notBefore <= now /\ now <= rec.notAfter /\ rec.ca = BrokerCA
<1>1. rec.notBefore \in Int /\ rec.notAfter \in Int
  BY DEF Records
<1> QED BY <1>1, ConstantsAssumption DEF Verify

LEMMA NextInTime == IInv /\ InTime /\ [Next]_vars => InTime'
<1> SUFFICES ASSUME IInv, InTime, [Next]_vars PROVE InTime'
  OBVIOUS
<1> USE DEF files, handler, pruner
<1>1. ASSUME UNCHANGED <<redeemed, handler>> PROVE InTime'
  BY <1>1 DEF InTime, Judged, RedeemedInTime, Spent
<1>2. ASSUME NEW h \in Handlers, Return(h), redeemed' = redeemed PROVE InTime'
  BY <1>2 DEF Return, InTime, Judged, RedeemedInTime, Spent, IInv, TypeOK
<1>3. ASSUME NEW h \in Handlers, NEW t \in Ids, NEW right \in BOOLEAN,
             RedeemStart(h, t, right)
      PROVE  InTime'
  BY <1>3 DEF RedeemStart, InTime, Judged, RedeemedInTime, Spent, IInv, TypeOK
<1>4. ASSUME NEW h \in Handlers, RedeemVerify(h) PROVE InTime'
  <2> DEFINE rec == Get(req[h].id)
  <2>1. req[h] \in Requests
    BY <1>4 DEF RedeemVerify, IInv, Equipped
  <2>2. CASE Verify(rec, req[h].rightSecret, req[h].now) = "ok"
    <3>0. /\ req[h].id \in Ids /\ req[h].rightSecret \in BOOLEAN /\ req[h].now \in Int
      BY <2>1 DEF Requests
    <3>1. rec \in Records
      BY <2>2, <3>0, VerifiedIsRecord DEF IInv
    <3>2. /\ pc' = [pc EXCEPT ![h] = "claim"] /\ held' = [held EXCEPT ![h] = rec]
          /\ UNCHANGED <<req, redeemed>>
      BY <1>4, <2>2 DEF RedeemVerify
    <3> HIDE DEF rec
    <3>3. rec.notBefore <= req[h].now /\ req[h].now <= rec.notAfter /\ rec.ca = BrokerCA
      BY <2>2, <3>0, <3>1, VerdictMeansInTime
    <3> QED BY <3>2, <3>3 DEF InTime, Judged, RedeemedInTime, Spent, IInv, TypeOK
  <2>3. CASE Verify(rec, req[h].rightSecret, req[h].now) # "ok"
    BY <1>2, <1>4, <2>3 DEF RedeemVerify
  <2> QED BY <2>2, <2>3
<1>5. ASSUME NEW h \in Handlers, RedeemClaim(h) PROVE InTime'
  <2>1. CASE Return(h)
    BY <1>2, <1>5, <2>1 DEF RedeemClaim
  <2>2. CASE pc' = [pc EXCEPT ![h] = "write"] /\ UNCHANGED <<req, held>>
    BY <1>5, <2>2 DEF RedeemClaim, InTime, Judged, RedeemedInTime, Spent, IInv, TypeOK
  <2> QED BY <1>5, <2>1, <2>2 DEF RedeemClaim
<1>6. ASSUME NEW h \in Handlers, RedeemWrite(h) PROVE InTime'
  <2> DEFINE rec == [held[h] EXCEPT !.redeemedAt = req[h].now]
  <2>1. held[h] \in Records /\ req[h].now \in Int
    BY <1>6 DEF RedeemWrite, IInv, Equipped, Requests
  <2>2. /\ rec.notBefore <= rec.redeemedAt /\ rec.redeemedAt <= rec.notAfter
        /\ rec.ca = BrokerCA /\ rec.redeemedAt # None
    BY <1>6, <2>1, ConstantsAssumption DEF RedeemWrite, InTime, Judged, Records,
                                           ConstantsAssumption
  <2>3. /\ redeemed' = [redeemed EXCEPT ![req[h].id] = rec]
        /\ pc' = [pc EXCEPT ![h] = "cleanup"] /\ UNCHANGED <<req, held>>
    BY <1>6 DEF RedeemWrite
  <2> HIDE DEF rec
  <2> QED BY <2>2, <2>3 DEF InTime, Judged, RedeemedInTime, Spent, IInv, TypeOK
<1>7. ASSUME NEW h \in Handlers, RedeemDone(h) \/ RedeemWriteFails(h) PROVE InTime'
  BY <1>2, <1>7 DEF RedeemDone, RedeemWriteFails
<1>8. ASSUME NEW t \in Ids, PruneRemoveRedeemed(t) PROVE InTime'
  BY <1>8 DEF PruneRemoveRedeemed, InTime, Judged, RedeemedInTime, Spent, IInv, TypeOK
<1>9. CASE Crash
  BY <1>9 DEF Crash, InTime, Judged, RedeemedInTime, Spent
<1> QED
  BY <1>1, <1>3, <1>4, <1>5, <1>6, <1>7, <1>8, <1>9
     DEF Next, Redeem, Prune, Tick, Put, PruneStart, PruneRead, PruneNextDir, PruneListed,
         PruneRemovePending, PruneEnd, vars

(* A record under redeemed/ was valid, for this CA, at the moment it is    *)
(* stamped with.                                                           *)
THEOREM RedemptionsAreInTime == Spec => []RedeemedInTime
<1>1. Init => InTime
  BY DEF Init, InTime, Judged, RedeemedInTime
<1>2. InTime => RedeemedInTime
  BY DEF InTime
<1> QED BY <1>1, <1>2, InitIInv, NextIInv, NextInTime, PTL DEF Spec

(* No claim file is left behind except by a crash, or by a write or a      *)
(* removal that fails.                                                     *)
THEOREM ClaimFilesAreHeld == Spec => []ClaimsHeld
<1>1. Init => ClaimsHeld
  BY DEF Init, ClaimsHeld
<1>2. IInv /\ ClaimsHeld /\ [Next]_vars => ClaimsHeld'
  <2> SUFFICES ASSUME IInv, ClaimsHeld, [Next]_vars PROVE ClaimsHeld'
    OBVIOUS
  <2> USE DEF files, handler, pruner
  <2>1. ASSUME UNCHANGED <<claiming, pc, req, faults>> PROVE ClaimsHeld'
    BY <2>1 DEF ClaimsHeld, Holding
  <2>2. ASSUME NEW h \in Handlers, NEW t \in Ids, NEW right \in BOOLEAN,
               RedeemStart(h, t, right)
        PROVE  ClaimsHeld'
    BY <2>2 DEF RedeemStart, ClaimsHeld, Holding, IInv, TypeOK
  <2>3. ASSUME NEW h \in Handlers, pc[h] \in {"get", "claim"}, Return(h),
               UNCHANGED <<claiming, faults>>
        PROVE  ClaimsHeld'
    BY <2>3 DEF Return, ClaimsHeld, Holding, IInv, TypeOK
  <2>4. ASSUME NEW h \in Handlers, RedeemVerify(h) PROVE ClaimsHeld'
    <3>1. CASE Return(h)
      BY <2>3, <2>4, <3>1 DEF RedeemVerify
    <3>2. CASE pc' = [pc EXCEPT ![h] = "claim"] /\ UNCHANGED req
      BY <2>4, <3>2 DEF RedeemVerify, ClaimsHeld, Holding, IInv, TypeOK
    <3> QED BY <2>4, <3>1, <3>2 DEF RedeemVerify
  <2>5. ASSUME NEW h \in Handlers, RedeemClaim(h) PROVE ClaimsHeld'
    <3>1. CASE pending[req[h].id] = None
      BY <2>3, <2>5, <3>1 DEF RedeemClaim
    <3>2. CASE pending[req[h].id] # None
      <4>1. /\ claiming' = [claiming EXCEPT ![req[h].id] = pending[req[h].id]]
            /\ pc' = [pc EXCEPT ![h] = "write"] /\ UNCHANGED <<req, faults>>
            /\ pc[h] = "claim"
        BY <2>5, <3>2 DEF RedeemClaim
      <4>2. Holding(h, req[h].id)'
        BY <4>1 DEF Holding, IInv, TypeOK
      <4>3. \A g \in Handlers, t \in Ids : Holding(g, t) => Holding(g, t)'
        BY <4>1 DEF Holding, IInv, TypeOK
      <4>4. \A t \in Ids : t # req[h].id => claiming'[t] = claiming[t]
        BY <4>1 DEF IInv, TypeOK
      <4> QED BY <4>1, <4>2, <4>3, <4>4 DEF ClaimsHeld
    <3> QED BY <3>1, <3>2
  <2>6. ASSUME NEW h \in Handlers, RedeemWrite(h) PROVE ClaimsHeld'
    BY <2>6 DEF RedeemWrite, ClaimsHeld, Holding, IInv, TypeOK
  <2>7. ASSUME NEW h \in Handlers, RedeemWriteFails(h) PROVE ClaimsHeld'
    BY <2>7 DEF RedeemWriteFails, ClaimsHeld, IInv, TypeOK
  <2>8. ASSUME NEW h \in Handlers, RedeemDone(h) PROVE ClaimsHeld'
    <3>1. \A g \in Handlers, t \in Ids :
            t # req[h].id /\ Holding(g, t) => Holding(g, t)'
      BY <2>8 DEF RedeemDone, Return, Holding, IInv, TypeOK
    <3>2. CASE claiming' = [claiming EXCEPT ![req[h].id] = None] /\ faults' = faults
      BY <3>1, <3>2 DEF ClaimsHeld, IInv, TypeOK
    <3>3. CASE faults' = faults + 1
      BY <3>3 DEF ClaimsHeld, IInv, TypeOK
    <3> QED BY <2>8, <3>2, <3>3 DEF RedeemDone
  <2>9. CASE Crash
    BY <2>9 DEF Crash, ClaimsHeld, IInv, TypeOK
  <2> QED
    BY <2>1, <2>2, <2>4, <2>5, <2>6, <2>7, <2>8, <2>9
       DEF Next, Redeem, Prune, Tick, Put, PruneStart, PruneRead, PruneNextDir, PruneListed,
           PruneRemovePending, PruneRemoveRedeemed, PruneEnd, vars
<1> QED BY <1>1, <1>2, InitIInv, NextIInv, PTL DEF Spec

-----------------------------------------------------------------------------
(* What Prune removes.                                                     *)

(* Where a token's record is: in one directory at a time until the claim's *)
(* file is removed, and unspent while it is pending.                       *)
OnePlace ==
  \A t \in Ids :
    /\ pending[t] # None => /\ claiming[t] = None /\ redeemed[t] = None
                            /\ ~Spent(pending[t])
    /\ claiming[t] # None \/ redeemed[t] # None => t \in issued

(* The copy a handler read is the record it finds when it claims; once it  *)
(* has claimed, nobody else has written the redeemed record.               *)
CopyIsTrue ==
  \A h \in Handlers :
    /\ pc[h] = "claim" =>
         /\ req[h].id \in issued
         /\ pending[req[h].id] # None => pending[req[h].id] = held[h]
    /\ pc[h] = "write" => redeemed[req[h].id] = None

Doomed(t) == <<t, "pending">> \in doomed \/ <<t, "redeemed">> \in doomed

(* A doomed token is stale wherever its record may be by now, also in the  *)
(* hands of a handler that claimed it after Prune had read it.             *)
StaleEverywhere(t) ==
  /\ t \in issued
  /\ pending[t] # None => pending[t].notAfter < cutoff
  /\ redeemed[t] # None => redeemed[t].redeemedAt < cutoff
  /\ \A h \in Handlers :
       (pc[h] = "write" /\ req[h].id = t) => held[h].notAfter < cutoff

DoomedAreStale ==
  /\ prunePc = "idle" => doomed = {}
  /\ prunePc # "idle" => cutoff + Retention <= clock
  /\ \A t \in Ids : Doomed(t) => StaleEverywhere(t)

Known == IInv /\ InTime
PruneInv == OnePlace /\ CopyIsTrue /\ DoomedAreStale

(* Where records are, whatever step is taken.                              *)
LEMMA NextOnePlace ==
  ASSUME Known, OnePlace, CopyIsTrue, [Next]_vars
  PROVE  OnePlace'
<1> USE ConstantsAssumption DEF files, handler, pruner
<1>0. TypeOK /\ ClaimedOnce /\ Equipped
  BY DEF Known, IInv
<1> USE <1>0
<1>1. ASSUME UNCHANGED <<pending, claiming, redeemed, issued>> PROVE OnePlace'
  BY <1>1 DEF OnePlace, Spent
<1>2. ASSUME NEW t \in Ids, NEW ca \in CAs, NEW l \in Lifetimes, Put(t, ca, l)
      PROVE  OnePlace'
  <2> DEFINE rec == NewToken(ca, l, clock)
  <2>1. rec.redeemedAt = None
    BY DEF NewToken
  <2>2. /\ pending' = [pending EXCEPT ![t] = rec] /\ issued' = issued \cup {t}
        /\ t \notin issued /\ UNCHANGED <<claiming, redeemed>>
    BY <1>2 DEF Put
  <2> HIDE DEF rec
  <2> QED BY <2>1, <2>2 DEF OnePlace, Spent, TypeOK
<1>3. ASSUME NEW h \in Handlers, RedeemClaim(h) PROVE OnePlace'
  <2>1. CASE pending[req[h].id] = None
    BY <1>1, <1>3, <2>1 DEF RedeemClaim
  <2>2. CASE pending[req[h].id] # None
    <3>1. PICK t \in Ids : t = req[h].id
      BY <1>3 DEF RedeemClaim, Equipped, Requests
    <3>2. /\ pending' = [pending EXCEPT ![t] = None]
          /\ claiming' = [claiming EXCEPT ![t] = pending[t]]
          /\ UNCHANGED <<redeemed, issued>> /\ t \in issued
      BY <1>3, <2>2, <3>1 DEF RedeemClaim, CopyIsTrue
    <3> QED BY <3>2 DEF OnePlace, Spent, TypeOK
  <2> QED BY <2>1, <2>2
<1>4. ASSUME NEW h \in Handlers, RedeemWrite(h) PROVE OnePlace'
  <2>1. PICK t \in Ids : t = req[h].id
    BY <1>4 DEF RedeemWrite, Equipped, Requests
  <2>2. PICK rec : redeemed' = [redeemed EXCEPT ![t] = rec]
    BY <1>4, <2>1 DEF RedeemWrite
  <2>3. UNCHANGED <<pending, claiming, issued>> /\ pending[t] = None /\ t \in issued
    BY <1>4, <2>1 DEF RedeemWrite, ClaimedOnce, Holding
  <2> QED BY <2>2, <2>3 DEF OnePlace, Spent, TypeOK
<1>5. ASSUME NEW h \in Handlers, RedeemDone(h) PROVE OnePlace'
  BY <1>5 DEF RedeemDone, OnePlace, Spent, TypeOK
<1>6. ASSUME NEW t \in Ids, PruneRemovePending(t) \/ PruneRemoveRedeemed(t)
      PROVE  OnePlace'
  BY <1>6 DEF PruneRemovePending, PruneRemoveRedeemed, OnePlace, Spent, TypeOK
<1> QED
  BY <1>1, <1>2, <1>3, <1>4, <1>5, <1>6
     DEF Next, Redeem, Prune, Tick, RedeemStart, RedeemVerify, RedeemWriteFails, PruneStart,
         PruneRead, PruneNextDir, PruneListed, PruneEnd, Crash, vars

(* What a handler holds stays true, whoever else redeems or prunes.        *)
LEMMA NextCopyIsTrue ==
  ASSUME Known, OnePlace, CopyIsTrue, [Next]_vars
  PROVE  CopyIsTrue'
<1> USE ConstantsAssumption DEF files, handler, pruner
<1>0. TypeOK /\ ClaimedOnce /\ Equipped
  BY DEF Known, IInv
<1> USE <1>0
<1>1. ASSUME UNCHANGED <<pending, redeemed, pc, req, held, issued>> PROVE CopyIsTrue'
  BY <1>1 DEF CopyIsTrue
<1>2. ASSUME NEW h \in Handlers, Return(h), UNCHANGED <<pending, redeemed, issued>>
      PROVE  CopyIsTrue'
  BY <1>2 DEF Return, CopyIsTrue, TypeOK
<1>3. ASSUME NEW t \in Ids, NEW ca \in CAs, NEW l \in Lifetimes, Put(t, ca, l)
      PROVE  CopyIsTrue'
  <2>1. PICK rec : pending' = [pending EXCEPT ![t] = rec]
    BY <1>3 DEF Put
  <2>2. /\ issued' = issued \cup {t} /\ t \notin issued
        /\ UNCHANGED <<redeemed, pc, req, held>>
    BY <1>3 DEF Put
  <2> QED BY <2>1, <2>2 DEF CopyIsTrue, TypeOK
<1>4. ASSUME NEW h \in Handlers, NEW t \in Ids, NEW right \in BOOLEAN,
             RedeemStart(h, t, right)
      PROVE  CopyIsTrue'
  BY <1>4 DEF RedeemStart, CopyIsTrue, TypeOK
<1>5. ASSUME NEW h \in Handlers, RedeemVerify(h) PROVE CopyIsTrue'
  <2>1. PICK t \in Ids : t = req[h].id
    BY <1>5 DEF RedeemVerify, Equipped, Requests
  <2>2. CASE Verify(Get(t), req[h].rightSecret, req[h].now) = "ok"
    <3>1. Get(t) \in Records /\ ~Spent(Get(t))
      <4>1. Get(t) \in Records
        BY <2>2, VerifiedIsRecord
      <4>2. ASSUME Spent(Get(t)) PROVE FALSE
        <5>1. Verify(Get(t), req[h].rightSecret, req[h].now) = "unknown"
          BY <4>2, Zenon DEF Verify
        <5> QED BY <2>2, <5>1
      <4> QED BY <4>1, <4>2
    <3>2. pending[t] = Get(t) /\ t \in issued
      BY <3>1 DEF Get, Known, InTime, RedeemedInTime, ClaimedOnce
    <3>3. /\ pc' = [pc EXCEPT ![h] = "claim"] /\ held' = [held EXCEPT ![h] = Get(t)]
          /\ UNCHANGED <<req, pending, redeemed, issued>>
      BY <1>5, <2>1, <2>2 DEF RedeemVerify
    <3> HIDE DEF Get
    <3> QED BY <2>1, <3>2, <3>3 DEF CopyIsTrue, TypeOK
  <2>3. CASE Verify(Get(t), req[h].rightSecret, req[h].now) # "ok"
    BY <1>2, <1>5, <2>1, <2>3 DEF RedeemVerify
  <2> QED BY <2>2, <2>3
<1>6. ASSUME NEW h \in Handlers, RedeemClaim(h) PROVE CopyIsTrue'
  <2>1. PICK t \in Ids : t = req[h].id
    BY <1>6 DEF RedeemClaim, Equipped, Requests
  <2>2. CASE pending[t] = None
    BY <1>2, <1>6, <2>1, <2>2 DEF RedeemClaim
  <2>3. CASE pending[t] # None
    <3>1. /\ pending' = [pending EXCEPT ![t] = None] /\ pc' = [pc EXCEPT ![h] = "write"]
          /\ UNCHANGED <<req, held, redeemed, issued>> /\ redeemed[t] = None
      BY <1>6, <2>1, <2>3 DEF RedeemClaim, OnePlace
    <3> QED BY <2>1, <3>1 DEF CopyIsTrue, TypeOK
  <2> QED BY <2>2, <2>3
<1>7. ASSUME NEW h \in Handlers, RedeemWrite(h) PROVE CopyIsTrue'
  <2>1. PICK t \in Ids : t = req[h].id
    BY <1>7 DEF RedeemWrite, Equipped, Requests
  <2>2. PICK rec : redeemed' = [redeemed EXCEPT ![t] = rec]
    BY <1>7, <2>1 DEF RedeemWrite
  <2>3. /\ pc' = [pc EXCEPT ![h] = "cleanup"] /\ UNCHANGED <<pending, req, held, issued>>
        /\ Holding(h, t)
    BY <1>7, <2>1 DEF RedeemWrite, Holding
  <2>4. \A g \in Handlers : g # h /\ pc[g] = "write" => req[g].id # t
    BY <2>3 DEF ClaimedOnce, Holding
  <2> QED BY <2>2, <2>3, <2>4 DEF CopyIsTrue, TypeOK
<1>8. ASSUME NEW h \in Handlers, RedeemDone(h) \/ RedeemWriteFails(h) PROVE CopyIsTrue'
  BY <1>2, <1>8 DEF RedeemDone, RedeemWriteFails
<1>9. ASSUME NEW t \in Ids, PruneRemovePending(t) \/ PruneRemoveRedeemed(t)
      PROVE  CopyIsTrue'
  <2>1. /\ UNCHANGED <<pc, req, held, issued>>
        /\ \A u \in Ids : pending'[u] # None => pending'[u] = pending[u]
        /\ \A u \in Ids : redeemed[u] = None => redeemed'[u] = None
    BY <1>9 DEF PruneRemovePending, PruneRemoveRedeemed, TypeOK
  <2>2. \A h \in Handlers : pc[h] \in {"claim", "write"} => req[h].id \in Ids
    BY DEF Equipped, Requests
  <2> QED BY <2>1, <2>2 DEF CopyIsTrue
<1>10. CASE Crash
  BY <1>10 DEF Crash, CopyIsTrue
<1> QED
  BY <1>1, <1>3, <1>4, <1>5, <1>6, <1>7, <1>8, <1>9, <1>10
     DEF Next, Redeem, Prune, Tick, PruneStart, PruneRead, PruneNextDir, PruneListed,
         PruneEnd, vars

(* What is doomed stays stale, wherever it goes before it is removed.      *)
LEMMA NextDoomedAreStale ==
  ASSUME Known, PruneInv, [Next]_vars
  PROVE  DoomedAreStale'
<1> USE ConstantsAssumption DEF files, handler, pruner
<1>0. /\ TypeOK /\ ClaimedOnce /\ Equipped /\ Judged /\ RedeemedInTime
      /\ OnePlace /\ CopyIsTrue /\ DoomedAreStale
  BY DEF Known, IInv, InTime, PruneInv
<1> USE <1>0
(* Most steps leave Prune's variables alone and move one record.           *)
<1>1. ASSUME UNCHANGED <<clock, prunePc, cutoff, doomed>>,
             \A t \in Ids : StaleEverywhere(t) => StaleEverywhere(t)'
      PROVE  DoomedAreStale'
  BY <1>1 DEF DoomedAreStale, Doomed
<1>2. ASSUME UNCHANGED <<clock, prunePc, cutoff, doomed, pending, redeemed, issued>>,
             NEW h \in Handlers, Return(h)
      PROVE  DoomedAreStale'
  BY <1>1, <1>2 DEF Return, StaleEverywhere, TypeOK
<1>3. CASE Tick
  <2>1. clock' = clock + 1 /\ UNCHANGED <<prunePc, cutoff, doomed>>
    BY <1>3 DEF Tick
  <2>2. \A t \in Ids : StaleEverywhere(t) => StaleEverywhere(t)'
    BY <1>3 DEF Tick, StaleEverywhere
  <2>3. prunePc' # "idle" => cutoff' + Retention <= clock'
    BY <2>1 DEF DoomedAreStale, TypeOK
  <2> QED BY <2>1, <2>2, <2>3 DEF DoomedAreStale, Doomed
<1>4. ASSUME NEW t \in Ids, NEW ca \in CAs, NEW l \in Lifetimes, Put(t, ca, l)
      PROVE  DoomedAreStale'
  <2>1. PICK rec : pending' = [pending EXCEPT ![t] = rec]
    BY <1>4 DEF Put
  <2>2. /\ issued' = issued \cup {t} /\ t \notin issued
        /\ UNCHANGED <<clock, prunePc, cutoff, doomed, redeemed, pc, req, held>>
    BY <1>4 DEF Put
  <2> QED BY <1>1, <2>1, <2>2 DEF StaleEverywhere, TypeOK
<1>5. ASSUME NEW h \in Handlers, NEW t \in Ids, NEW right \in BOOLEAN,
             RedeemStart(h, t, right)
      PROVE  DoomedAreStale'
  BY <1>1, <1>5 DEF RedeemStart, StaleEverywhere, TypeOK
<1>6. ASSUME NEW h \in Handlers, RedeemVerify(h) PROVE DoomedAreStale'
  <2>1. CASE Return(h)
    BY <1>2, <1>6, <2>1 DEF RedeemVerify
  <2>2. CASE pc' = [pc EXCEPT ![h] = "claim"] /\ UNCHANGED req
             /\ held' = [held EXCEPT ![h] = Get(req[h].id)]
    <3> HIDE DEF Get
    <3>1. UNCHANGED <<clock, prunePc, cutoff, doomed, pending, redeemed, issued>>
      BY <1>6 DEF RedeemVerify
    <3> QED BY <1>1, <2>2, <3>1 DEF StaleEverywhere, TypeOK
  <2> QED BY <1>6, <2>1, <2>2 DEF RedeemVerify
<1>7. ASSUME NEW h \in Handlers, RedeemClaim(h) PROVE DoomedAreStale'
  <2>1. PICK t \in Ids : t = req[h].id
    BY <1>7 DEF RedeemClaim, Equipped, Requests
  <2>2. CASE pending[t] = None
    BY <1>2, <1>7, <2>1, <2>2 DEF RedeemClaim
  <2>3. CASE pending[t] # None
    <3>1. /\ pending' = [pending EXCEPT ![t] = None] /\ pc' = [pc EXCEPT ![h] = "write"]
          /\ UNCHANGED <<clock, prunePc, cutoff, doomed, req, held, redeemed, issued>>
          /\ pending[t] = held[h]
      BY <1>7, <2>1, <2>3 DEF RedeemClaim, CopyIsTrue
    <3> QED BY <1>1, <2>1, <2>3, <3>1 DEF StaleEverywhere, TypeOK
  <2> QED BY <2>2, <2>3
<1>8. ASSUME NEW h \in Handlers, RedeemWrite(h) PROVE DoomedAreStale'
  <2> DEFINE rec == [held[h] EXCEPT !.redeemedAt = req[h].now]
  <2>1. PICK t \in Ids : t = req[h].id
    BY <1>8 DEF RedeemWrite, Equipped, Requests
  <2>2. held[h] \in Records /\ req[h].now \in Int
    BY <1>8 DEF RedeemWrite, Equipped, Requests
  <2>3. rec.redeemedAt <= held[h].notAfter /\ rec.redeemedAt \in Int /\ held[h].notAfter \in Int
    BY <1>8, <2>2 DEF RedeemWrite, Judged, Records
  <2>4. /\ redeemed' = [redeemed EXCEPT ![t] = rec] /\ pc[h] = "write"
        /\ pc' = [pc EXCEPT ![h] = "cleanup"]
        /\ UNCHANGED <<clock, prunePc, cutoff, doomed, pending, req, held, issued>>
    BY <1>8, <2>1 DEF RedeemWrite
  <2> HIDE DEF rec
  <2>5. StaleEverywhere(t) => rec.redeemedAt < cutoff
    BY <2>1, <2>3, <2>4 DEF StaleEverywhere, TypeOK
  <2> QED BY <1>1, <2>4, <2>5 DEF StaleEverywhere, TypeOK
<1>9. ASSUME NEW h \in Handlers, RedeemDone(h) \/ RedeemWriteFails(h) PROVE DoomedAreStale'
  BY <1>2, <1>9 DEF RedeemDone, RedeemWriteFails
<1>10. CASE PruneStart
  <2>1. cutoff' + Retention <= clock'
    BY <1>10 DEF PruneStart, TypeOK
  <2>2. doomed' = {}
    BY <1>10 DEF PruneStart, DoomedAreStale
  <2> QED BY <2>1, <2>2 DEF DoomedAreStale, Doomed
<1>11. ASSUME NEW t \in Ids, PruneRead(t) PROVE DoomedAreStale'
  <2>1. \A u \in Ids : StaleEverywhere(u) => StaleEverywhere(u)'
    BY <1>11 DEF PruneRead, StaleEverywhere
  <2>2. UNCHANGED <<clock, prunePc, cutoff>> /\ prunePc # "idle"
    BY <1>11 DEF PruneRead
  <2>3. CASE Get(t) # None /\ Stale(Get(t), cutoff)
    <3>1. ASSUME pending[t] # None PROVE StaleEverywhere(t)
      <4>1. pending[t].notAfter < cutoff
        BY <2>3, <3>1 DEF Get, Stale, OnePlace
      <4>2. redeemed[t] = None /\ t \in issued /\ \A h \in Handlers : ~Holding(h, t)
        BY <3>1 DEF OnePlace, ClaimedOnce
      <4> QED BY <4>1, <4>2 DEF StaleEverywhere, Holding
    <3>2. ASSUME pending[t] = None PROVE StaleEverywhere(t)
      <4>1. redeemed[t].redeemedAt < cutoff /\ redeemed[t] # None
        BY <2>3, <3>2 DEF Get, Stale, RedeemedInTime
      <4>2. t \in issued /\ \A h \in Handlers : ~(pc[h] = "write" /\ req[h].id = t)
        BY <4>1 DEF OnePlace, CopyIsTrue
      <4> QED BY <3>2, <4>1, <4>2 DEF StaleEverywhere
    <3>3. StaleEverywhere(t)
      BY <3>1, <3>2
    <3>4. \A u \in Ids : Doomed(u)' => Doomed(u) \/ u = t
      BY <1>11 DEF PruneRead, Doomed
    <3> QED BY <2>1, <2>2, <3>3, <3>4 DEF DoomedAreStale
  <2>4. CASE ~(Get(t) # None /\ Stale(Get(t), cutoff))
    <3>1. doomed' = doomed
      BY <1>11, <2>4 DEF PruneRead
    <3> QED BY <2>1, <2>2, <3>1 DEF DoomedAreStale, Doomed
  <2> QED BY <2>3, <2>4
<1>12. CASE PruneNextDir \/ PruneListed
  BY <1>12 DEF PruneNextDir, PruneListed, DoomedAreStale, Doomed, StaleEverywhere
<1>13. CASE PruneEnd
  BY <1>13 DEF PruneEnd, DoomedAreStale, Doomed
<1>14. ASSUME NEW t \in Ids, PruneRemovePending(t) \/ PruneRemoveRedeemed(t)
      PROVE  DoomedAreStale'
  <2>1. \A u \in Ids : StaleEverywhere(u) => StaleEverywhere(u)'
    BY <1>14 DEF PruneRemovePending, PruneRemoveRedeemed, StaleEverywhere, TypeOK
  <2>2. UNCHANGED <<clock, prunePc, cutoff>> /\ prunePc # "idle" /\ doomed' \subseteq doomed
    BY <1>14 DEF PruneRemovePending, PruneRemoveRedeemed
  <2> QED BY <2>1, <2>2 DEF DoomedAreStale, Doomed
<1>15. CASE Crash
  BY <1>15 DEF Crash, DoomedAreStale, Doomed
<1>16. CASE UNCHANGED vars
  BY <1>1, <1>16 DEF vars, StaleEverywhere
<1> QED
  BY <1>3, <1>4, <1>5, <1>6, <1>7, <1>8, <1>9, <1>10, <1>11, <1>12, <1>13, <1>14, <1>15, <1>16
     DEF Next, Redeem, Prune

(* A step that makes a record disappear, other than by claiming it, is     *)
(* Prune removing one that is stale by now.                                *)
LEMMA RemovedIsStale ==
  ASSUME Known, PruneInv, [Next]_vars, NEW t \in Ids
  PROVE  /\ (redeemed[t] # None /\ redeemed'[t] = None)
              => redeemed[t].redeemedAt + Retention < clock
         /\ (pending[t] # None /\ pending'[t] = None /\ claiming'[t] = claiming[t])
              => pending[t].notAfter + Retention < clock
<1> USE ConstantsAssumption DEF files, handler, pruner
<1> DEFINE Goal == /\ (redeemed[t] # None /\ redeemed'[t] = None)
                         => redeemed[t].redeemedAt + Retention < clock
                   /\ (pending[t] # None /\ pending'[t] = None /\ claiming'[t] = claiming[t])
                         => pending[t].notAfter + Retention < clock
<1>0. /\ TypeOK /\ ClaimedOnce /\ Equipped /\ RedeemedInTime
      /\ OnePlace /\ DoomedAreStale
  BY DEF Known, IInv, InTime, PruneInv
<1> USE <1>0
<1>1. ASSUME UNCHANGED <<pending, redeemed>> PROVE Goal
  BY <1>1
<1>2. ASSUME NEW u \in Ids, NEW ca \in CAs, NEW l \in Lifetimes, Put(u, ca, l)
      PROVE  Goal
  <2>1. u # t => pending'[t] = pending[t]
    BY <1>2 DEF Put, TypeOK
  <2>2. u = t => pending[t] = None
    BY <1>2 DEF Put, ClaimedOnce
  <2>3. redeemed' = redeemed
    BY <1>2 DEF Put
  <2> QED BY <2>1, <2>2, <2>3
<1>3. ASSUME NEW h \in Handlers, RedeemClaim(h) PROVE Goal
  <2>1. redeemed' = redeemed
    BY <1>3 DEF RedeemClaim
  <2>2. (pending[t] # None /\ pending'[t] = None) => claiming'[t] = pending[t]
    BY <1>3 DEF RedeemClaim, TypeOK
  <2>3. pending[t] # None => claiming[t] = None
    BY DEF OnePlace
  <2> QED BY <2>1, <2>2, <2>3
<1>4. ASSUME NEW h \in Handlers, RedeemWrite(h) PROVE Goal
  <2> DEFINE rec == [held[h] EXCEPT !.redeemedAt = req[h].now]
  <2>1. rec # None
    <3>1. held[h] \in Records /\ req[h].now \in Int
      BY <1>4 DEF RedeemWrite, Equipped, Requests
    <3>2. rec \in Records
      BY <3>1 DEF Records
    <3> QED BY <3>2
  <2>2. redeemed' = [redeemed EXCEPT ![req[h].id] = rec] /\ pending' = pending
    BY <1>4 DEF RedeemWrite
  <2> HIDE DEF rec
  <2>3. redeemed'[t] = redeemed[t] \/ redeemed'[t] = rec
    BY <2>2 DEF TypeOK
  <2> QED BY <2>1, <2>2, <2>3
<1>5. ASSUME NEW u \in Ids, PruneRemovePending(u) \/ PruneRemoveRedeemed(u) PROVE Goal
  <2>1. (redeemed'[t] # redeemed[t] \/ pending'[t] # pending[t]) => Doomed(t)
    BY <1>5 DEF PruneRemovePending, PruneRemoveRedeemed, Doomed, TypeOK
  <2>2. prunePc # "idle"
    BY <1>5 DEF PruneRemovePending, PruneRemoveRedeemed
  <2>3. cutoff + Retention <= clock /\ cutoff \in Int /\ clock \in Int
    BY <2>2 DEF DoomedAreStale, TypeOK
  <2>4. Doomed(t) => /\ pending[t] # None => pending[t].notAfter < cutoff
                     /\ redeemed[t] # None => redeemed[t].redeemedAt < cutoff
    BY DEF DoomedAreStale, StaleEverywhere
  <2>5. pending[t] # None => pending[t].notAfter \in Int
    BY DEF TypeOK, Records
  <2>6. redeemed[t] # None => redeemed[t].redeemedAt \in Int
    BY DEF TypeOK, Records, RedeemedInTime, Spent
  <2> QED BY <2>1, <2>3, <2>4, <2>5, <2>6
<1> QED
  BY <1>1, <1>2, <1>3, <1>4, <1>5
     DEF Next, Redeem, Prune, Tick, RedeemStart, RedeemVerify, RedeemDone, RedeemWriteFails,
         PruneStart, PruneRead, PruneNextDir, PruneListed, PruneEnd, Crash, vars

(* Prune decides on a listing and removes later, while tokens are being    *)
(* redeemed: what it removes is old enough at the moment it goes.          *)
THEOREM PruneRemovesOnlyStale == Spec => OnlyStaleRemoved
<1>1. Init => PruneInv /\ InTime
  BY DEF Init, PruneInv, OnePlace, CopyIsTrue, DoomedAreStale, Doomed, StaleEverywhere,
         InTime, Judged, RedeemedInTime
<1>2. Known /\ PruneInv /\ [Next]_vars => PruneInv'
  BY NextOnePlace, NextCopyIsTrue, NextDoomedAreStale DEF PruneInv
<1>3. Known /\ [Next]_vars => Known'
  BY NextIInv, NextInTime DEF Known
<1>4. Init => Known
  BY <1>1, InitIInv DEF Known
<1>5. Known /\ PruneInv /\ [Next]_vars =>
        [\A t \in Ids :
           /\ (redeemed[t] # None /\ redeemed'[t] = None)
                => redeemed[t].redeemedAt + Retention < clock
           /\ (pending[t] # None /\ pending'[t] = None /\ claiming'[t] = claiming[t])
                => pending[t].notAfter + Retention < clock]_vars
  BY RemovedIsStale
<1> QED BY <1>1, <1>2, <1>3, <1>4, <1>5, PTL DEF Spec, OnlyStaleRemoved

-----------------------------------------------------------------------------
(* Refinement.                                                             *)

(* The abstract state as one function of the concrete one.                 *)
Status == [t \in Ids |-> StatusOf(t)]

(* A step that keeps what a token's status is computed from, for every     *)
(* token but those of S, keeps the status of every token but those of S.   *)
LEMMA StatusFrame ==
  ASSUME NEW S,
         \A t \in Ids \ S :
           /\ t \in issued' <=> t \in issued
           /\ pending'[t] = None <=> pending[t] = None
           /\ \A h \in Handlers : Holding(h, t)' <=> Holding(h, t)
  PROVE  \A t \in Ids \ S : Status'[t] = Status[t]
BY DEF Status, StatusOf

(* The same for all tokens: the step is invisible to the abstract token.   *)
LEMMA Invisible ==
  ASSUME UNCHANGED grants,
         \A t \in Ids :
           /\ t \in issued' <=> t \in issued
           /\ pending'[t] = None <=> pending[t] = None
           /\ \A h \in Handlers : Holding(h, t)' <=> Holding(h, t)
  PROVE  UNCHANGED Abstract!vars
<1>1. \A t \in Ids : Status'[t] = Status[t]
  BY StatusFrame, Zenon
<1>2. Status' = Status
  BY <1>1 DEF Status
<1> QED BY <1>2 DEF Status, Abstract!vars

(* Dropping a set of tokens that are live or claimed.                      *)
LEMMA Dropping ==
  ASSUME NEW S \in SUBSET Ids,
         UNCHANGED grants,
         \A t \in S : Status[t] \in {"live", "claimed"} /\ Status'[t] = "spent",
         \A t \in Ids \ S : Status'[t] = Status[t]
  PROVE  Abstract!Next
<1>1. Status' = [t \in Ids |-> IF t \in S THEN "spent" ELSE Status[t]]
  BY DEF Status
<1>2. Abstract!Drop(S)
  BY <1>1 DEF Abstract!Drop, Status
<1> QED BY <1>2 DEF Abstract!Next

(* Initially no token is issued.                                           *)
LEMMA InitRefines == Init => Abstract!Init
BY DEF Init, Abstract!Init, StatusOf

(* Every step of the store is an abstract step or invisible.               *)
LEMMA NextRefines ==
  ASSUME IInv, IInv', [Next]_vars
  PROVE  [Abstract!Next]_(Abstract!vars)
<1>1. CASE Tick
  BY <1>1, Invisible DEF Tick, files, handler, Holding
<1>2. ASSUME NEW t \in Ids, NEW ca \in CAs, NEW l \in Lifetimes, Put(t, ca, l)
      PROVE  Abstract!Next
  <2>1. Status[t] = "unissued"
    BY <1>2 DEF Put, Status, StatusOf
  <2>2. pending'[t] # None /\ t \in issued'
    <3>1. NewToken(ca, l, clock) # None
      BY NewTokenType, ConstantsAssumption DEF IInv, TypeOK
    <3> HIDE DEF NewToken
    <3> QED BY <1>2, <3>1 DEF Put, IInv, TypeOK
  <2>3. Status'[t] = "live"
    BY <2>2 DEF Status, StatusOf
  <2>4. \A u \in Ids \ {t} : Status'[u] = Status[u]
    BY <1>2, StatusFrame DEF Put, handler, Holding, IInv, TypeOK
  <2>5. Status' = [Status EXCEPT ![t] = "live"]
    BY <2>3, <2>4 DEF Status
  <2>6. Abstract!Issue(t)
    BY <1>2, <2>1, <2>5 DEF Put, Abstract!Issue, Status
  <2> QED BY <2>6 DEF Abstract!Next
<1>3. ASSUME NEW h \in Handlers, NEW t \in Ids, NEW right \in BOOLEAN,
             RedeemStart(h, t, right)
      PROVE  UNCHANGED Abstract!vars
  <2>1. \A g \in Handlers, u \in Ids : Holding(g, u)' <=> Holding(g, u)
    BY <1>3 DEF RedeemStart, IInv, TypeOK, Holding
  <2> QED BY <1>3, <2>1, Invisible DEF RedeemStart, files
<1>4. ASSUME NEW h \in Handlers, RedeemVerify(h)
      PROVE  UNCHANGED Abstract!vars
  <2>1. \A g \in Handlers, u \in Ids : Holding(g, u)' <=> Holding(g, u)
    BY <1>4 DEF RedeemVerify, Return, IInv, TypeOK, Holding
  <2> QED BY <1>4, <2>1, Invisible DEF RedeemVerify, files
<1>5. ASSUME NEW h \in Handlers, RedeemClaim(h)
      PROVE  [Abstract!Next]_(Abstract!vars)
  <2>0. PICK t \in Ids : t = req[h].id
    BY <1>5 DEF RedeemClaim, IInv, Equipped, Requests
  <2>1. CASE pending[t] = None
    <3>1. \A g \in Handlers, u \in Ids : Holding(g, u)' <=> Holding(g, u)
      BY <1>5, <2>0, <2>1 DEF RedeemClaim, Return, IInv, TypeOK, Holding
    <3> QED BY <1>5, <2>0, <2>1, <3>1, Invisible DEF RedeemClaim
  <2>2. CASE pending[t] # None
    <3>1. Status[t] = "live"
      BY <2>2 DEF Status, StatusOf, IInv, ClaimedOnce
    <3>2. Holding(h, t)' /\ pending'[t] = None /\ t \in issued'
      BY <1>5, <2>0, <2>2 DEF RedeemClaim, Holding, IInv, TypeOK, ClaimedOnce
    <3>3. Status'[t] = "claimed"
      BY <3>2 DEF Status, StatusOf
    <3>4. \A g \in Handlers, u \in Ids \ {t} : Holding(g, u)' <=> Holding(g, u)
      BY <1>5, <2>0, <2>2 DEF RedeemClaim, IInv, TypeOK, Holding
    <3>5. \A u \in Ids \ {t} : Status'[u] = Status[u]
      BY <1>5, <2>0, <3>4, StatusFrame DEF RedeemClaim, IInv, TypeOK
    <3>6. Status' = [Status EXCEPT ![t] = "claimed"]
      BY <3>3, <3>5 DEF Status
    <3>7. Abstract!Claim(t)
      BY <1>5, <3>1, <3>6 DEF RedeemClaim, Abstract!Claim, Status
    <3> QED BY <3>7 DEF Abstract!Next
  <2> QED BY <2>1, <2>2
<1>6. ASSUME NEW h \in Handlers, RedeemWrite(h)
      PROVE  UNCHANGED Abstract!vars
  <2>1. \A g \in Handlers, u \in Ids : Holding(g, u)' <=> Holding(g, u)
    BY <1>6 DEF RedeemWrite, IInv, TypeOK, Holding
  <2> QED BY <1>6, <2>1, Invisible DEF RedeemWrite
<1>7. ASSUME NEW h \in Handlers, RedeemWriteFails(h)
      PROVE  Abstract!Next
  <2>0. PICK t \in Ids : t = req[h].id
    BY <1>7 DEF RedeemWriteFails, IInv, Equipped, Requests
  <2>1. Holding(h, t)
    BY <1>7, <2>0 DEF RedeemWriteFails, Holding
  <2>2. \A g \in Handlers, u \in Ids :
          Holding(g, u)' <=> (g # h /\ Holding(g, u))
    BY <1>7 DEF RedeemWriteFails, Return, IInv, TypeOK, Holding
  <2>3. \A g \in Handlers : ~Holding(g, t)'
    BY <2>1, <2>2 DEF IInv, ClaimedOnce
  <2>4. t \in issued /\ pending[t] = None
    BY <2>1 DEF IInv, ClaimedOnce
  <2>5. UNCHANGED <<issued, pending, grants>>
    BY <1>7 DEF RedeemWriteFails, files
  <2>6. Status[t] = "claimed" /\ Status'[t] = "spent"
    BY <2>1, <2>3, <2>4, <2>5 DEF Status, StatusOf
  <2>7. \A u \in Ids \ {t}, g \in Handlers : Holding(g, u)' <=> Holding(g, u)
    BY <2>0, <2>2 DEF Holding
  <2>8. \A u \in Ids \ {t} : Status'[u] = Status[u]
    BY <2>5, <2>7, StatusFrame
  <2> QED BY <2>5, <2>6, <2>8, Dropping
<1>8. ASSUME NEW h \in Handlers, RedeemDone(h)
      PROVE  Abstract!Next
  <2>0. PICK t \in Ids : t = req[h].id
    BY <1>8 DEF RedeemDone, IInv, Equipped, Requests
  <2>1. Holding(h, t)
    BY <1>8, <2>0 DEF RedeemDone, Holding
  <2>2. \A g \in Handlers, u \in Ids :
          Holding(g, u)' <=> (g # h /\ Holding(g, u))
    BY <1>8 DEF RedeemDone, Return, IInv, TypeOK, Holding
  <2>3. \A g \in Handlers : ~Holding(g, t)'
    BY <2>1, <2>2 DEF IInv, ClaimedOnce
  <2>4. t \in issued /\ pending[t] = None
    BY <2>1 DEF IInv, ClaimedOnce
  <2>5. UNCHANGED <<issued, pending>> /\ grants' = [grants EXCEPT ![t] = @ + 1]
    BY <1>8, <2>0 DEF RedeemDone
  <2>6. Status[t] = "claimed" /\ Status'[t] = "spent"
    BY <2>1, <2>3, <2>4, <2>5 DEF Status, StatusOf
  <2>7. \A u \in Ids \ {t}, g \in Handlers : Holding(g, u)' <=> Holding(g, u)
    BY <2>0, <2>2 DEF Holding
  <2>8. \A u \in Ids \ {t} : Status'[u] = Status[u]
    BY <2>5, <2>7, StatusFrame
  <2>9. Status' = [Status EXCEPT ![t] = "spent"]
    BY <2>6, <2>8 DEF Status
  <2>10. Abstract!Grant(t)
    BY <2>5, <2>6, <2>9 DEF Abstract!Grant, Status
  <2> QED BY <2>10 DEF Abstract!Next
<1>9. CASE Prune
  <2>a. ASSUME PruneStart \/ PruneNextDir \/ PruneListed \/ PruneEnd
        PROVE  UNCHANGED Abstract!vars
    BY <2>a, Invisible DEF PruneStart, PruneNextDir, PruneListed, PruneEnd, files,
                           handler, Holding
  <2>b. ASSUME NEW t \in Ids, PruneRead(t) \/ PruneRemoveRedeemed(t)
        PROVE  UNCHANGED Abstract!vars
    BY <2>b, Invisible DEF PruneRead, PruneRemoveRedeemed, files, handler, Holding
  <2>c. ASSUME NEW t \in Ids, PruneRemovePending(t)
        PROVE  [Abstract!Next]_(Abstract!vars)
    <3>1. /\ UNCHANGED <<issued, grants>>
          /\ \A g \in Handlers, u \in Ids : Holding(g, u)' <=> Holding(g, u)
          /\ \A u \in Ids : pending'[u] = IF u = t THEN None ELSE pending[u]
      BY <2>c DEF PruneRemovePending, handler, Holding, IInv, TypeOK
    <3>2. CASE pending[t] = None
      BY <3>1, <3>2, Invisible
    <3>3. CASE pending[t] # None
      <4>1. Status[t] = "live" /\ Status'[t] = "spent"
        BY <3>1, <3>3 DEF Status, StatusOf, IInv, ClaimedOnce
      <4>2. \A u \in Ids \ {t} : Status'[u] = Status[u]
        BY <3>1, StatusFrame
      <4> QED BY <3>1, <4>1, <4>2, Dropping
    <3> QED BY <3>2, <3>3
  <2> QED BY <1>9, <2>a, <2>b, <2>c DEF Prune
<1>10. CASE Crash
  <2> DEFINE S == {t \in Ids : Status[t] = "claimed"}
  <2>1. /\ UNCHANGED <<issued, pending, grants>>
        /\ \A g \in Handlers, u \in Ids : ~Holding(g, u)'
    BY <1>10 DEF Crash, files, Holding
  <2>2. \A t \in S : Status'[t] = "spent"
    BY <2>1 DEF Status, StatusOf
  <2>3. \A t \in Ids \ S : Status'[t] = Status[t]
    BY <2>1 DEF Status, StatusOf
  <2> QED BY <2>1, <2>2, <2>3, Dropping
<1>11. CASE UNCHANGED vars
  BY <1>11, Invisible DEF vars, files, handler, Holding
<1> QED
  BY <1>1, <1>2, <1>3, <1>4, <1>5, <1>6, <1>7, <1>8, <1>9, <1>10, <1>11
     DEF Next, Redeem

(* Files, renames, racing handlers, pruner and crashes together implement  *)
(* the abstract one-time token.                                            *)
THEOREM StoreImplementsOneTimeToken == Spec => ImplementsOneTimeToken
<1>1. Spec => []IInv
  BY InitIInv, NextIInv, PTL DEF Spec
<1>2. IInv /\ IInv' /\ [Next]_vars => [Abstract!Next]_(Abstract!vars)
  BY NextRefines
<1> QED BY <1>1, <1>2, InitRefines, PTL DEF Spec, ImplementsOneTimeToken, Abstract!Spec
=============================================================================
