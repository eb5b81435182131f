----------------------------- MODULE TokenStore -----------------------------
(***************************************************************************)
(* The bootstrap token store, internal/enroll: records in two directories  *)
(* (pending, redeemed), redeemed by concurrent enrolment requests and      *)
(* pruned by the broker's hourly housekeeping, all through the file        *)
(* system.  One action is one file-system operation.                       *)
(***************************************************************************)
EXTENDS Integers, FiniteSets

CONSTANTS
  Ids,               \* token ids; 9 random bytes, so an id is minted once
  Handlers,          \* concurrent redemptions, of one broker process or more
  CAs,               \* fingerprints a record may name
  BrokerCA,          \* the fingerprint of the CA the redeeming broker holds
  Lifetimes,         \* what the token command may ask for; <= 0 is "unset"
  DefaultLifetime,   \* enroll.DefaultLifetime
  ClockSkew,         \* enroll.ClockSkew
  Retention,         \* the 24 hours cmdServe subtracts to get Prune's cutoff
  None,              \* an absent file, request or timestamp
  MaxIssueTime,      \* bound: no token is issued after this moment
  MaxTime,           \* bound: the clock stops here
  MaxFaults          \* bound: crashes, failed writes and failed removals together

Records == [notBefore : Int, notAfter : Int, ca : CAs,
            redeemedAt : Int \cup {None}]
Requests == [id : Ids, rightSecret : BOOLEAN, now : Int]

ASSUME ConstantsAssumption ==
  /\ BrokerCA \in CAs
  /\ Lifetimes \subseteq Int
  /\ DefaultLifetime \in Nat \ {0}
  /\ ClockSkew \in Nat
  /\ Retention \in Nat
  /\ MaxIssueTime \in Nat /\ MaxTime \in Nat /\ MaxFaults \in Nat
  /\ None \notin Int /\ None \notin Records /\ None \notin Requests

VARIABLES
  clock,
  pending, claiming, redeemed,    \* the files: id -> record or None
  pc, req, held,                  \* per handler: step, request, record read
  prunePc, cutoff, unseen, doomed, \* Prune: step and local variables
  issued,                         \* ids minted so far
  grants,                         \* observation: successful Redeems of each id
  faults

files   == <<pending, claiming, redeemed>>
handler == <<pc, req, held>>
pruner  == <<prunePc, cutoff, unseen, doomed>>
vars == <<clock, files, handler, pruner, issued, grants, faults>>

-----------------------------------------------------------------------------
(* Records.                                                                *)

(* NewToken: the validity starts a little early, and an unset lifetime is  *)
(* the default one.                                                        *)
NewToken(ca, lifetime, at) ==
  [notBefore |-> at - ClockSkew,
   notAfter  |-> at + (IF lifetime <= 0 THEN DefaultLifetime ELSE lifetime),
   ca        |-> ca,
   redeemedAt |-> None]

Spent(rec) == rec.redeemedAt # None

(* Fault variant: the end of the validity is not checked.                  *)
VerifyIgnoringExpiry(rec, rightSecret, now) ==
  IF rec = None THEN "unknown"
  ELSE IF Spent(rec) \/ ~rightSecret THEN "unknown"
  ELSE IF rec.ca # BrokerCA THEN "wrong-ca"
  ELSE IF now < rec.notBefore THEN "not-yet-valid" ELSE "ok"

(* Verify's verdict, in the order the code tests.                          *)
Verify(rec, rightSecret, now) ==
  IF rec = None THEN "unknown"
  ELSE IF Spent(rec) \/ ~rightSecret THEN "unknown"
  ELSE IF rec.ca # BrokerCA THEN "wrong-ca"
  ELSE IF now < rec.notBefore THEN "not-yet-valid"
  ELSE IF now > rec.notAfter THEN "expired"
  ELSE "ok"

(* Get: the pending file if there is one, else the redeemed one.  The two  *)
(* reads of the code act as one: a record never returns to pending.        *)
Get(t) == IF pending[t] # None THEN pending[t] ELSE redeemed[t]

(* Fault variant: redeemed records are never old enough.                   *)
StaleOnlyUnspent(rec, limit) == ~Spent(rec) /\ rec.notAfter < limit

(* Which records Prune removes: a spent one by its redemption, another by  *)
(* its end of validity.                                                    *)
Stale(rec, limit) ==
  IF Spent(rec) THEN rec.redeemedAt < limit ELSE rec.notAfter < limit

-----------------------------------------------------------------------------
Init ==
  /\ clock = 0
  /\ pending  = [t \in Ids |-> None]
  /\ claiming = [t \in Ids |-> None]
  /\ redeemed = [t \in Ids |-> None]
  /\ pc   = [h \in Handlers |-> "idle"]
  /\ req  = [h \in Handlers |-> None]
  /\ held = [h \in Handlers |-> None]
  /\ prunePc = "idle" /\ cutoff = 0 /\ unseen = {} /\ doomed = {}
  /\ issued = {}
  /\ grants = [t \in Ids |-> 0]
  /\ faults = 0

Tick ==
  /\ clock < MaxTime
  /\ clock' = clock + 1
  /\ UNCHANGED <<files, handler, pruner, issued, grants, faults>>

(* The token command: mint a record and Put it.  A Put that fails changes  *)
(* nothing, because the file appears by rename.                            *)
Put(t, ca, lifetime) ==
  /\ t \notin issued
  /\ clock <= MaxIssueTime
  /\ pending' = [pending EXCEPT ![t] = NewToken(ca, lifetime, clock)]
  /\ issued' = issued \cup {t}
  /\ UNCHANGED <<clock, claiming, redeemed, handler, pruner, grants, faults>>

-----------------------------------------------------------------------------
(* Redeem, step by step.                                                   *)

Return(h) ==
  /\ pc'   = [pc EXCEPT ![h] = "idle"]
  /\ req'  = [req EXCEPT ![h] = None]
  /\ held' = [held EXCEPT ![h] = None]

(* A request arrives; the moment it is judged by is read now, once.        *)
RedeemStart(h, t, rightSecret) ==
  /\ pc[h] = "idle"
  /\ pc'  = [pc EXCEPT ![h] = "get"]
  /\ req' = [req EXCEPT ![h] =
               [id |-> t, rightSecret |-> rightSecret, now |-> clock]]
  /\ UNCHANGED <<clock, files, held, pruner, issued, grants, faults>>

(* Get and Verify: refuse, or go on to claim with the record in hand.      *)
RedeemVerify(h) ==
  /\ pc[h] = "get"
  /\ LET rec == Get(req[h].id) IN
       IF Verify(rec, req[h].rightSecret, req[h].now) = "ok"
         THEN /\ pc'   = [pc EXCEPT ![h] = "claim"]
              /\ held' = [held EXCEPT ![h] = rec]
              /\ UNCHANGED req
         ELSE Return(h)
  /\ UNCHANGED <<clock, files, pruner, issued, grants, faults>>

(* Fault variant: the claim is a flag written back, so a caller that read  *)
(* an unused record goes on whoever was quicker.                           *)
RedeemClaimUnchecked(h) ==
  /\ pc[h] = "claim"
  /\ pending'  = [pending EXCEPT ![req[h].id] = None]
  /\ claiming' = [claiming EXCEPT ![req[h].id] = held[h]]
  /\ pc' = [pc EXCEPT ![h] = "write"]
  /\ UNCHANGED <<clock, redeemed, req, held, pruner, issued, grants, faults>>

(* os.Rename(pending, claiming): exactly one caller finds the file.        *)
RedeemClaim(h) ==
  /\ pc[h] = "claim"
  /\ LET t == req[h].id IN
       IF pending[t] # None
         THEN /\ pending'  = [pending EXCEPT ![t] = None]
              /\ claiming' = [claiming EXCEPT ![t] = pending[t]]
              /\ pc' = [pc EXCEPT ![h] = "write"]
              /\ UNCHANGED <<req, held>>
         ELSE Return(h) /\ UNCHANGED <<pending, claiming>>
  /\ UNCHANGED <<clock, redeemed, pruner, issued, grants, faults>>

(* Fault variant: the redemption is stamped when it is written, not when   *)
(* the request was judged.                                                 *)
RedeemWriteLateStamp(h) ==
  /\ pc[h] = "write"
  /\ redeemed' = [redeemed EXCEPT ![req[h].id] =
                    [held[h] EXCEPT !.redeemedAt = clock]]
  /\ pc' = [pc EXCEPT ![h] = "cleanup"]
  /\ UNCHANGED <<clock, pending, claiming, req, held, pruner, issued, grants, faults>>

(* The redeemed record is written from the copy read before the claim.     *)
RedeemWrite(h) ==
  /\ pc[h] = "write"
  /\ redeemed' = [redeemed EXCEPT ![req[h].id] =
                    [held[h] EXCEPT !.redeemedAt = req[h].now]]
  /\ pc' = [pc EXCEPT ![h] = "cleanup"]
  /\ UNCHANGED <<clock, pending, claiming, req, held, pruner, issued, grants, faults>>

(* Fault variant: a failed write gives the token back.                     *)
RedeemWriteFailsGivesBack(h) ==
  /\ pc[h] = "write"
  /\ faults < MaxFaults
  /\ faults' = faults + 1
  /\ pending'  = [pending EXCEPT ![req[h].id] = claiming[req[h].id]]
  /\ claiming' = [claiming EXCEPT ![req[h].id] = None]
  /\ Return(h)
  /\ UNCHANGED <<clock, redeemed, pruner, issued, grants>>

(* WriteSecret fails: the caller gets an error, the claim stays taken.     *)
RedeemWriteFails(h) ==
  /\ pc[h] = "write"
  /\ faults < MaxFaults
  /\ faults' = faults + 1
  /\ Return(h)
  /\ UNCHANGED <<clock, files, pruner, issued, grants>>

(* Fault variant: the claim file stays.                                    *)
RedeemDoneKeepsClaim(h) ==
  /\ pc[h] = "cleanup"
  /\ grants' = [grants EXCEPT ![req[h].id] = @ + 1]
  /\ Return(h)
  /\ UNCHANGED <<clock, files, pruner, issued, faults>>

(* Remove the claim file and return the record: the one successful end. An *)
(* os.Remove that fails is ignored: the file stays, the token is granted.  *)
RedeemDone(h) ==
  /\ pc[h] = "cleanup"
  /\ \/ claiming' = [claiming EXCEPT ![req[h].id] = None] /\ UNCHANGED faults
     \/ faults < MaxFaults /\ faults' = faults + 1 /\ UNCHANGED claiming
  /\ grants' = [grants EXCEPT ![req[h].id] = @ + 1]
  /\ Return(h)
  /\ UNCHANGED <<clock, pending, redeemed, pruner, issued>>

-----------------------------------------------------------------------------
(* Prune, on the broker's ticker: List both directories, then remove.      *)

PruneStart ==
  /\ prunePc = "idle"
  /\ prunePc' = "pending"
  /\ cutoff' = clock - Retention
  /\ unseen' = {t \in Ids : pending[t] # None}
  /\ UNCHANGED <<clock, files, handler, doomed, issued, grants, faults>>

(* List reads one entry of the directory it is in; a record that vanished  *)
(* meanwhile is skipped.  A stale one is doomed in both directories.       *)
PruneRead(t) ==
  /\ prunePc \in {"pending", "redeemed"}
  /\ t \in unseen
  /\ unseen' = unseen \ {t}
  /\ doomed' = IF Get(t) # None /\ Stale(Get(t), cutoff)
                 THEN doomed \cup {<<t, "pending">>, <<t, "redeemed">>}
                 ELSE doomed
  /\ UNCHANGED <<clock, files, handler, prunePc, cutoff, issued, grants, faults>>

PruneNextDir ==
  /\ prunePc = "pending" /\ unseen = {}
  /\ prunePc' = "redeemed"
  /\ unseen' = {t \in Ids : redeemed[t] # None}
  /\ UNCHANGED <<clock, files, handler, cutoff, doomed, issued, grants, faults>>

PruneListed ==
  /\ prunePc = "redeemed" /\ unseen = {}
  /\ prunePc' = "remove"
  /\ UNCHANGED <<clock, files, handler, cutoff, unseen, doomed, issued, grants, faults>>

PruneRemovePending(t) ==
  /\ prunePc = "remove" /\ <<t, "pending">> \in doomed
  /\ doomed' = doomed \ {<<t, "pending">>}
  /\ pending' = [pending EXCEPT ![t] = None]
  /\ UNCHANGED <<clock, claiming, redeemed, handler, prunePc, cutoff, unseen,
                 issued, grants, faults>>

PruneRemoveRedeemed(t) ==
  /\ prunePc = "remove" /\ <<t, "redeemed">> \in doomed
  /\ <<t, "pending">> \notin doomed
  /\ doomed' = doomed \ {<<t, "redeemed">>}
  /\ redeemed' = [redeemed EXCEPT ![t] = None]
  /\ UNCHANGED <<clock, pending, claiming, handler, prunePc, cutoff, unseen,
                 issued, grants, faults>>

PruneEnd ==
  /\ prunePc = "remove" /\ doomed = {}
  /\ prunePc' = "idle"
  /\ cutoff' = 0
  /\ UNCHANGED <<clock, files, handler, unseen, doomed, issued, grants, faults>>

-----------------------------------------------------------------------------
(* The broker process dies and is started again: every request and the     *)
(* pruner are gone, the files are as they were.                            *)
Crash ==
  /\ faults < MaxFaults
  /\ faults' = faults + 1
  /\ pc   = [h \in Handlers |-> "idle"] => prunePc # "idle"
  /\ pc'   = [h \in Handlers |-> "idle"]
  /\ req'  = [h \in Handlers |-> None]
  /\ held' = [h \in Handlers |-> None]
  /\ prunePc' = "idle" /\ cutoff' = 0 /\ unseen' = {} /\ doomed' = {}
  /\ UNCHANGED <<clock, files, issued, grants>>

Redeem(h) ==
  \/ RedeemVerify(h) \/ RedeemClaim(h) \/ RedeemWrite(h) \/ RedeemDone(h)

Prune ==
  \/ PruneStart \/ PruneNextDir \/ PruneListed \/ PruneEnd
  \/ \E t \in Ids : PruneRead(t) \/ PruneRemovePending(t) \/ PruneRemoveRedeemed(t)

Next ==
  \/ Tick
  \/ \E t \in Ids, ca \in CAs, l \in Lifetimes : Put(t, ca, l)
  \/ \E h \in Handlers, t \in Ids, right \in BOOLEAN : RedeemStart(h, t, right)
  \/ \E h \in Handlers : Redeem(h) \/ RedeemWriteFails(h)
  \/ Prune
  \/ Crash

Spec == Init /\ [][Next]_vars

(* Time passes, a request that was accepted runs on, and the ticker keeps  *)
(* firing: the goroutines of a running broker.  Nobody has to ask.         *)
Fairness == /\ WF_vars(Tick)
            /\ \A h \in Handlers : WF_vars(Redeem(h))
            /\ WF_vars(Prune)

FairSpec == Spec /\ Fairness

-----------------------------------------------------------------------------
(* Every variable has its shape.                                           *)
TypeOK ==
  /\ clock \in Int
  /\ pending  \in [Ids -> Records \cup {None}]
  /\ claiming \in [Ids -> Records \cup {None}]
  /\ redeemed \in [Ids -> Records \cup {None}]
  /\ pc \in [Handlers -> {"idle", "get", "claim", "write", "cleanup"}]
  /\ req  \in [Handlers -> Requests \cup {None}]
  /\ held \in [Handlers -> Records \cup {None}]
  /\ prunePc \in {"idle", "pending", "redeemed", "remove"}
  /\ cutoff \in Int
  /\ unseen \subseteq Ids
  /\ doomed \subseteq Ids \X {"pending", "redeemed"}
  /\ issued \subseteq Ids
  /\ grants \in [Ids -> Nat]
  /\ faults \in Nat

(* Redeem succeeds at most once for a token, however many callers race,    *)
(* whatever Prune removes meanwhile and wherever the broker dies: the      *)
(* guarantee store.go claims for os.Rename.                                *)
SingleUse == \A t \in Ids : grants[t] <= 1

(* A redeemed record carries a moment inside the token's own validity,     *)
(* even when the claim came long after the request was judged: the         *)
(* timestamp and the verdict come from the same reading of the clock.      *)
RedeemedInTime ==
  \A t \in Ids : redeemed[t] # None =>
    /\ Spent(redeemed[t])
    /\ redeemed[t].notBefore <= redeemed[t].redeemedAt
    /\ redeemed[t].redeemedAt <= redeemed[t].notAfter
    /\ redeemed[t].ca = BrokerCA

(* Prune decides on a listing and removes later; what it removes is still  *)
(* old enough when it goes: no token that could be redeemed, and no        *)
(* redeemed record younger than the retention.                             *)
OnlyStaleRemoved ==
  [][\A t \in Ids :
       /\ (redeemed[t] # None /\ redeemed'[t] = None)
            => redeemed[t].redeemedAt + Retention < clock
       /\ (pending[t] # None /\ pending'[t] = None /\ claiming'[t] = claiming[t])
            => pending[t].notAfter + Retention < clock]_vars

(* The store does not grow forever: every record file is removed in the    *)
(* end, whether its token was redeemed or not.                             *)
RecordsDrain ==
  \A t \in Ids :
    (pending[t] # None \/ redeemed[t] # None)
      ~> (pending[t] = None /\ redeemed[t] = None)

-----------------------------------------------------------------------------
(* Refinement: the store implements a one-time token.                      *)

(* Handler h has claimed token t and not returned yet.                     *)
Holding(h, t) == pc[h] \in {"write", "cleanup"} /\ req[h].id = t

(* A claim file is in some redemption's hands until it is removed: only a  *)
(* crash, or a write or a removal that fails, leaves one behind, which     *)
(* Prune, listing .json files only, would never find.                      *)
ClaimsHeld ==
  \A t \in Ids : (claiming[t] # None /\ faults = 0) => \E h \in Handlers : Holding(h, t)

StatusOf(t) ==
  IF t \notin issued THEN "unissued"
  ELSE IF pending[t] # None THEN "live"
  ELSE IF \E h \in Handlers : Holding(h, t) THEN "claimed"
  ELSE "spent"

Abstract == INSTANCE OneTimeToken WITH
              status <- [t \in Ids |-> StatusOf(t)], grants <- grants

(* Every step of the files, the handlers and the pruner is a step of the   *)
(* abstract token or invisible to it.                                      *)
ImplementsOneTimeToken == Abstract!Spec
=============================================================================
