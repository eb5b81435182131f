----------------------------- MODULE CertStore ------------------------------
(***************************************************************************)
(* One stored certificate, internal/certstore: three files (private key,   *)
(* chain, metadata) written one after the other by the obtain and renew    *)
(* commands, read by serve for the agents that fetch it.  Certificates of  *)
(* different names share nothing, so one name is modelled.  One action is  *)
(* one file read or written.  A key, a chain and a metadata file that      *)
(* belong together carry the same serial; ages stand for the clock.  The   *)
(* commands order under the ACME account (Account).                        *)
(***************************************************************************)
EXTENDS Account, FiniteSets

CONSTANTS
  Writers,      \* obtain and renew commands that may be alive at a time
  Readers,      \* requests of handleFetch
  Serials,      \* issued certificates; one is reused when nothing holds it
  Life,         \* lifetime of a certificate, in ticks
  Advice,       \* answers the CA's renewal information may give
  MaxFaults     \* bound: saves that stop half way, a certificate's or the account's

ASSUME ConstantsAssumption ==
  /\ Life \in Nat \ {0}
  /\ Advice \subseteq {"reached", "ahead", "unavailable"} /\ Advice # {}
  /\ MaxFaults \in Nat
  /\ None \notin Serials

VARIABLES
  key, chain, meta,         \* the files
  age,                      \* of each serial, stopping at Life
  wPc, wMode, wForce,       \* per command: step and arguments
  wOld, wNew,               \* per command: the chain it read, what it obtained
  rPc, rChain,              \* per request: step, the chain it read
  answer,                   \* observation: the last answer to a fetch
  faults

files   == <<key, chain, meta>>
writer  == <<wPc, wMode, wForce, wOld, wNew>>
reader  == <<rPc, rChain>>
vars == <<files, age, writer, reader, answer, account, faults>>

-----------------------------------------------------------------------------
(* certinfo: expired from the end of the lifetime on; due by our own       *)
(* arithmetic from two thirds of it.                                       *)
ExpiredAt(s) == age[s] >= Life
RenewalDue(s) == 3 * age[s] >= 2 * Life

(* Fault variant: whoever cannot reach the CA for advice does not renew.   *)
DecideRenewalOnAdviceOnly(s, advice) == advice = "reached"

(* DecideRenewal: an expired certificate is due whatever the CA says; then *)
(* the CA's window decides, and without one the fraction of the lifetime.  *)
DecideRenewal(s, advice) ==
  \/ ExpiredAt(s)
  \/ advice = "reached"
  \/ advice = "unavailable" /\ RenewalDue(s)

(* Fault variant: the pair is taken as it is.                              *)
LoadPairUnchecked(c, k) == k # None

(* LoadPair: the chain's leaf and the key belong together.                 *)
LoadPair(c, k) == k # None /\ k = c

InUse == {key, chain, meta} \cup {wOld[w] : w \in Writers} \cup
         {wNew[w] : w \in Writers} \cup {rChain[r] : r \in Readers}

Init ==
  /\ AccountInit
  /\ key = None /\ chain = None /\ meta = None
  /\ age = [s \in Serials |-> 0]
  /\ wPc = [w \in Writers |-> "idle"]
  /\ wMode = [w \in Writers |-> "renew"]
  /\ wForce = [w \in Writers |-> FALSE]
  /\ wOld = [w \in Writers |-> None]
  /\ wNew = [w \in Writers |-> None]
  /\ rPc = [r \in Readers |-> "idle"]
  /\ rChain = [r \in Readers |-> None]
  /\ answer = [verdict |-> "none", chain |-> None, key |-> None]
  /\ faults = 0

Tick ==
  /\ age' = [s \in Serials |->
              IF s \notin InUse THEN 0
              ELSE IF age[s] < Life THEN age[s] + 1 ELSE Life]
  /\ age' # age
  /\ UNCHANGED <<files, writer, reader, answer, account, faults>>

-----------------------------------------------------------------------------
(* cmdObtainOrRenew.                                                       *)

WriterGoes(w, step) ==
  /\ wPc' = [wPc EXCEPT ![w] = step]
  /\ UNCHANGED <<wMode, wForce, wOld, wNew>>

WriterEnds(w) ==
  /\ wPc' = [wPc EXCEPT ![w] = "idle"]
  /\ wMode' = [wMode EXCEPT ![w] = "renew"]
  /\ wForce' = [wForce EXCEPT ![w] = FALSE]
  /\ wOld' = [wOld EXCEPT ![w] = None]
  /\ wNew' = [wNew EXCEPT ![w] = None]

CommandStart(w, mode, force) ==
  /\ wPc[w] = "idle" /\ Exists
  /\ wPc' = [wPc EXCEPT ![w] = "loadChain"]
  /\ wMode' = [wMode EXCEPT ![w] = mode]
  /\ wForce' = [wForce EXCEPT ![w] = force]
  /\ UNCHANGED <<files, age, wOld, wNew, reader, answer, account, faults>>

(* Load reads the chain: without one the certificate is not stored, and    *)
(* only `obtain`, or force, fetches it.                                    *)
CommandLoadChain(w) ==
  /\ wPc[w] = "loadChain"
  /\ IF chain # None
       THEN /\ wPc' = [wPc EXCEPT ![w] = "loadKey"]
            /\ wOld' = [wOld EXCEPT ![w] = chain]
            /\ UNCHANGED <<wMode, wForce, wNew>>
     ELSE IF wMode[w] = "obtain" \/ wForce[w] THEN WriterGoes(w, "order")
     ELSE WriterEnds(w)
  /\ UNCHANGED <<files, age, reader, answer, account, faults>>

(* Fault variant: whatever cannot be loaded is fetched anew.               *)
CommandDecideReplacesBroken(w, advice) ==
  /\ wPc[w] = "loadKey"
  /\ IF \/ ~LoadPair(wOld[w], key)
        \/ wForce[w] \/ DecideRenewal(wOld[w], advice)
       THEN WriterGoes(w, "order")
       ELSE WriterEnds(w)
  /\ UNCHANGED <<files, age, reader, answer, account, faults>>

(* Load reads the key.  A pair that does not fit is reported and left      *)
(* alone, force or not; a good one is renewed when due or forced.  Without *)
(* an account that loads there is nobody to ask for advice.                *)
CommandDecide(w, advice) ==
  /\ wPc[w] = "loadKey"
  /\ Loads \/ advice = "unavailable"
  /\ IF /\ LoadPair(wOld[w], key)
        /\ wForce[w] \/ DecideRenewal(wOld[w], advice)
       THEN WriterGoes(w, "order")
       ELSE WriterEnds(w)
  /\ UNCHANGED <<files, age, reader, answer, account, faults>>

(* The CA issues to the account; Save finds that chain and key fit, as     *)
(* they come from one order.                                               *)
CommandObtain(w, s) ==
  /\ wPc[w] = "order" /\ Loads
  /\ s \notin InUse
  /\ wPc' = [wPc EXCEPT ![w] = "saveKey"]
  /\ wNew' = [wNew EXCEPT ![w] = s]
  /\ age' = [age EXCEPT ![s] = 0]
  /\ UNCHANGED <<files, wMode, wForce, wOld, reader, answer, account, faults>>

CommandObtainFails(w) ==
  /\ wPc[w] = "order"
  /\ WriterEnds(w)
  /\ UNCHANGED <<files, age, reader, answer, account, faults>>

(* Save, key first, each file replaced atomically.                         *)
SaveKey(w) ==
  /\ wPc[w] = "saveKey"
  /\ key' = wNew[w]
  /\ WriterGoes(w, "saveChain")
  /\ UNCHANGED <<chain, meta, age, reader, answer, account, faults>>

SaveChain(w) ==
  /\ wPc[w] = "saveChain"
  /\ chain' = wNew[w]
  /\ WriterGoes(w, "saveMeta")
  /\ UNCHANGED <<key, meta, age, reader, answer, account, faults>>

SaveMeta(w) ==
  /\ wPc[w] = "saveMeta"
  /\ meta' = wNew[w]
  /\ WriterEnds(w)
  /\ UNCHANGED <<key, chain, age, reader, answer, account, faults>>

(* One of the three writes fails, or the command dies before it.           *)
SaveStops(w) ==
  /\ wPc[w] \in {"saveKey", "saveChain", "saveMeta"}
  /\ faults < MaxFaults
  /\ faults' = faults + 1
  /\ WriterEnds(w)
  /\ UNCHANGED <<files, age, reader, answer, account>>

-----------------------------------------------------------------------------
(* handleFetch: Load reads the chain, then the key, then compares.         *)

Respond(verdict, c, k) == answer' = [verdict |-> verdict, chain |-> c, key |-> k]

FetchChain(r) ==
  /\ rPc[r] = "idle"
  /\ IF chain = None
       THEN Respond("not found", None, None) /\ UNCHANGED reader
       ELSE /\ rPc' = [rPc EXCEPT ![r] = "loadKey"]
            /\ rChain' = [rChain EXCEPT ![r] = chain]
            /\ UNCHANGED answer
  /\ UNCHANGED <<files, age, writer, account, faults>>

FetchKey(r) ==
  /\ rPc[r] = "loadKey"
  /\ IF LoadPair(rChain[r], key)
       THEN Respond("ok", rChain[r], key)
       ELSE Respond("unusable", None, None)
  /\ rPc' = [rPc EXCEPT ![r] = "idle"]
  /\ rChain' = [rChain EXCEPT ![r] = None]
  /\ UNCHANGED <<files, age, writer, account, faults>>

Command(w) ==
  \/ CommandLoadChain(w) \/ SaveKey(w) \/ SaveChain(w) \/ SaveMeta(w)
  \/ \E advice \in Advice : CommandDecide(w, advice)
  \/ \E s \in Serials : CommandObtain(w, s)

Next ==
  \/ Tick
  \/ Registering /\ UNCHANGED <<files, age, writer, reader, answer, faults>>
  \/ /\ RegisterStops
     /\ faults < MaxFaults /\ faults' = faults + 1
     /\ UNCHANGED <<files, age, writer, reader, answer>>
  \/ \E w \in Writers :
       \/ \E mode \in {"obtain", "renew"}, force \in BOOLEAN : CommandStart(w, mode, force)
       \/ Command(w) \/ CommandObtainFails(w) \/ SaveStops(w)
  \/ \E r \in Readers : FetchChain(r) \/ FetchKey(r)

Spec == Init /\ [][Next]_vars

(* Time passes, a timer keeps starting `renew`, a command that runs goes   *)
(* on, and the CA does not fail every order for ever.                      *)
Fairness ==
  /\ WF_vars(Tick)
  /\ \A w \in Writers :
       /\ SF_vars(CommandStart(w, "renew", FALSE))
       /\ WF_vars(Command(w))
       /\ SF_vars(\E s \in Serials : CommandObtain(w, s))

FairSpec == Spec /\ Fairness

-----------------------------------------------------------------------------
(* Every variable has its shape.                                           *)
TypeOK ==
  /\ {key, chain, meta} \subseteq Serials \cup {None}
  /\ age \in [Serials -> 0..Life]
  /\ wPc \in [Writers -> {"idle", "loadChain", "loadKey", "order",
                          "saveKey", "saveChain", "saveMeta"}]
  /\ wMode \in [Writers -> {"obtain", "renew"}]
  /\ wForce \in [Writers -> BOOLEAN]
  /\ wOld \in [Writers -> Serials \cup {None}]
  /\ wNew \in [Writers -> Serials \cup {None}]
  /\ rPc \in [Readers -> {"idle", "loadKey"}]
  /\ rChain \in [Readers -> Serials \cup {None}]
  /\ answer \in [verdict : {"none", "not found", "unusable", "ok"},
                 chain : Serials \cup {None}, key : Serials \cup {None}]
  /\ faults \in 0..MaxFaults
  /\ registered \in Nat
  /\ {accountKey, accountMeta, aMade} \subseteq 1..registered \cup {None}
  /\ aPc \in {"idle", "register", "saveKey", "saveMeta"}

(* The certificate stored whole, if any, and what a fetch will be answered *)
(* with: the chain it read, as long as the key beside it is its own.       *)
Whole == IF key = chain THEN chain ELSE None
Seen == [r \in Readers |-> IF key = rChain[r] THEN rChain[r] ELSE None]

Slot == INSTANCE CertificateSlot
          WITH slot <- Whole, asking <- {r \in Readers : rPc[r] = "loadKey"}, seen <- Seen

(* A fetch hands out a chain and key that belong together and that were on *)
(* disk together when it began, though it reads them at different moments  *)
(* while saves go on, collide or stop half way; and it fails only when     *)
(* they were not, or when the key has been replaced since.                 *)
ImplementsCertificateSlot == Slot!Spec

(* ADR-12: nothing is ordered over a stored certificate that is broken,    *)
(* and none is replaced before it is due unless forced.  The decision is   *)
(* taken on what was read several steps earlier.                           *)
OrderedOnlyWhenNeeded ==
  [][\A w \in Writers :
       (wPc[w] = "order" /\ wPc'[w] = "saveKey") =>
         \/ chain = None
         \/ /\ chain = key
            /\ \/ wForce[w] \/ ExpiredAt(chain)
               \/ "reached" \in Advice
               \/ RenewalDue(chain)]_vars

(* One account, kept: once a key is stored, though its metadata may never  *)
(* have been written, it is not replaced and the CA is not made to         *)
(* register another account; and orders are made with the registration     *)
(* that belongs to the key.                                                *)
OneAccount ==
  [][/\ Exists => accountKey' = accountKey /\ registered' = registered
     /\ Loads' => accountKey' = accountMeta']_vars

(* An expired certificate is replaced in the end, though the CA's advice   *)
(* is that its window lies ahead or none at all, unless a save stops half  *)
(* way.                                                                    *)
ExpiredIsReplaced ==
  \A s \in Serials :
    (chain = s /\ ExpiredAt(s) /\ faults = 0) ~> (chain # s \/ faults > 0)
=============================================================================
