-------------------------- MODULE AgentHostProofs ---------------------------
(***************************************************************************)
(* The agent: its identity (AgentHost) and what it deploys (Deploy).       *)
(*                                                                         *)
(* For any number of identities, any lifetimes and any number of faults:   *)
(* a command is minted one identity at most, and, if one command runs at a *)
(* time, the stored identity stays whole until a save is torn and one that *)
(* works and is not due is replaced by nobody but an operator.  A service  *)
(* that does not serve what was deployed has been reported.                *)
(***************************************************************************)
EXTENDS AgentHost, Deploy, TLAPS

(* A command that may still ask has been given nothing before.             *)
MayStillAsk(p) ==
  \/ pc[p] \in {"idle", "ask", "renew"}
  \/ pc[p] \in {"loadCrt", "loadKey"} /\ why[p] \in {"ensure", "token"}

Minting == \A p \in Procs : MayStillAsk(p) => minted[p] = 0

(* The identity in use was loaded, so the CA's certificate is there.       *)
UsersHaveCA == \A p \in Procs : id[p] # None => ca

(* Where a save stands: between the first two writes the key is the new    *)
(* one and the certificate is not; before the last they fit already.       *)
SavedSoFar ==
  /\ (\A p \in Procs : pc[p] # "saveCrt") => key = crt
  /\ \A p \in Procs : pc[p] = "saveCrt" => key = new[p]
  /\ (\A p \in Procs : pc[p] # "saveCA") => (crt # None => ca)

MintInv == TypeOK /\ Minting /\ MintsOneIdentity
WholeInv == TypeOK /\ UsersHaveCA /\ (~torn => SavedSoFar)

(* One command at a time, as the oneshot unit and a careful operator have  *)
(* it; the code does not enforce it.                                       *)
OneCommand == \A p, q \in Procs : p = q

-----------------------------------------------------------------------------
(* What can follow a LoadIdentity, whoever called it: the command ends,    *)
(* asks if it had not yet, loads again, or goes on with an identity.       *)
LEMMA LoadedOutcomes ==
  ASSUME TypeOK, NEW p \in Procs, NEW s \in Serials \cup {None},
         NEW verdict \in {"none", "broken", "ok"},
         verdict = "ok" => ca,
         Loaded(p, verdict, s)
  PROVE  \/ Ends(p)
         \/ Goes(p, "ask") /\ why[p] \in {"ensure", "token"}
         \/ Loads(p, "fresh") /\ why[p] = "saved"
         \/ \E t \in Serials \cup {None} : Uses(p, t, "use") /\ (ca \/ id[p] # None)
         \/ \E t \in Serials \cup {None} : Uses(p, t, "renew") /\ why[p] = "ensure" /\ ca
<1>1. CASE why[p] = "ensure"
  <2>1. EnsureIdentity(p, verdict, s)
    BY <1>1 DEF Loaded
  <2> QED BY <1>1, <2>1 DEF EnsureIdentity
<1>2. CASE why[p] = "token"
  <2>1. TokenEnrol(p, verdict)
    BY <1>2 DEF Loaded
  <2> QED BY <1>2, <2>1 DEF TokenEnrol
<1>3. CASE why[p] = "saved"
  <2>1. Saved(p, verdict)
    BY <1>3 DEF Loaded
  <2>2. id[p] \in Serials \cup {None}
    BY DEF TypeOK
  <2> QED BY <1>3, <2>1, <2>2 DEF Saved
<1>4. CASE why[p] = "fresh"
  <2>1. FreshIdentity(p, verdict, s)
    BY <1>4 DEF Loaded
  <2> QED BY <1>4, <2>1 DEF FreshIdentity
<1> QED BY <1>1, <1>2, <1>3, <1>4 DEF TypeOK

(* The two steps of LoadIdentity, reduced to those outcomes.               *)
LEMMA LoadSteps ==
  ASSUME TypeOK, NEW p \in Procs, LoadCrt(p) \/ LoadKey(p)
  PROVE  /\ pc[p] \in {"loadCrt", "loadKey"}
         /\ UNCHANGED <<deviceKey, ca, key, crt, age, torn, faults>>
         /\ \/ Ends(p)
            \/ Goes(p, "ask") /\ why[p] \in {"ensure", "token"}
            \/ Loads(p, "fresh") /\ why[p] = "saved"
            \/ \E t \in Serials \cup {None} : Uses(p, t, "use") /\ (ca \/ id[p] # None)
            \/ \E t \in Serials \cup {None} : Uses(p, t, "renew") /\ why[p] = "ensure" /\ ca
            \/ /\ pc' = [pc EXCEPT ![p] = "loadKey"]
               /\ seen' = [seen EXCEPT ![p] = crt]
               /\ crt # None
               /\ UNCHANGED <<cmd, why, id, new, minted>>
<1>1. CASE LoadCrt(p)
  <2>1. CASE crt = None
    <3>1. Loaded(p, "none", None)
      BY <1>1, <2>1 DEF LoadCrt
    <3>2. /\ pc[p] \in {"loadCrt", "loadKey"}
          /\ UNCHANGED <<deviceKey, ca, key, crt, age, torn, faults>>
      BY <1>1 DEF LoadCrt, files
    <3> QED BY <3>1, <3>2, LoadedOutcomes
  <2>2. CASE crt # None
    BY <1>1, <2>2 DEF LoadCrt, files
  <2> QED BY <2>1, <2>2
<1>2. CASE LoadKey(p)
  <2>1. PICK v \in {"none", "broken", "ok"} :
          (v = "ok" => ca) /\ Loaded(p, v, seen[p])
    BY <1>2, Zenon DEF LoadKey
  <2>2. /\ pc[p] \in {"loadCrt", "loadKey"}
        /\ UNCHANGED <<deviceKey, ca, key, crt, age, torn, faults>>
    BY <1>2 DEF LoadKey, files
  <2>3. seen[p] \in Serials \cup {None}
    BY DEF TypeOK
  <2> QED BY <2>1, <2>2, <2>3, LoadedOutcomes
<1> QED BY <1>1, <1>2

-----------------------------------------------------------------------------
LEMMA InitTypeOK == Init => TypeOK
<1> SUFFICES ASSUME Init PROVE TypeOK
  OBVIOUS
<1>1. age \in [Serials -> 0..Life] /\ faults \in 0..MaxFaults
  BY ConstantsAssumption DEF Init
<1>2. minted \in [Procs -> Nat]
  BY DEF Init
<1> QED BY <1>1, <1>2 DEF Init, TypeOK

(* Every step keeps the types.                                             *)
LEMMA NextTypeOK ==
  ASSUME TypeOK, [Next]_vars
  PROVE  TypeOK'
<1> USE ConstantsAssumption
<1>1. CASE Tick
  <2>1. age' \in [Serials -> 0..Life]
    BY <1>1 DEF Tick, TypeOK
  <2> QED BY <1>1, <2>1 DEF Tick, TypeOK, files, command
<1>2. CASE Keygen
  BY <1>2 DEF Keygen, TypeOK, command
<1>3. ASSUME NEW p \in Procs, NEW given \in BOOLEAN,
             StartRun(p) \/ StartTokenEnrol(p, given) \/ StartDeviceEnrol(p, given)
      PROVE  TypeOK'
  BY <1>3 DEF StartRun, StartTokenEnrol, StartDeviceEnrol, Loads, TypeOK, files
<1>4. ASSUME NEW p \in Procs, LoadCrt(p) \/ LoadKey(p) PROVE TypeOK'
  BY <1>4, LoadSteps DEF Ends, Goes, Loads, Uses, TypeOK
<1>5. ASSUME NEW p \in Procs, NEW s \in Serials, NEW a \in StartAges, Granted(p, s, a)
      PROVE  TypeOK'
  BY <1>5 DEF Granted, TypeOK, files
<1>6. ASSUME NEW p \in Procs, NotGranted(p) PROVE TypeOK'
  BY <1>6 DEF NotGranted, Ends, Goes, TypeOK, files
<1>7. ASSUME NEW p \in Procs, SaveKey(p) \/ SaveCrt(p) \/ SaveCA(p) PROVE TypeOK'
  <2>1. CASE SaveKey(p)
    BY <2>1 DEF SaveKey, Goes, TypeOK
  <2>2. CASE SaveCrt(p)
    BY <2>2 DEF SaveCrt, Loads, Goes, TypeOK
  <2>3. CASE SaveCA(p)
    BY <2>3 DEF SaveCA, Loads, TypeOK
  <2> QED BY <1>7, <2>1, <2>2, <2>3
<1>8. ASSUME NEW p \in Procs, UseIdentity(p) PROVE TypeOK'
  BY <1>8 DEF UseIdentity, Ends, TypeOK, files
<1>9. ASSUME NEW p \in Procs, SaveFails(p) \/ Dies(p) PROVE TypeOK'
  <2>1. /\ torn' = (torn \/ HalfSaved(p)) /\ faults < MaxFaults /\ faults' = faults + 1
        /\ UNCHANGED <<deviceKey, ca, key, crt, age>>
        /\ Ends(p) \/ Uses(p, id[p], "use")
    BY <1>9 DEF SaveFails, Dies, files
  <2>2. torn' \in BOOLEAN
    BY <2>1, Zenon DEF TypeOK
  <2>3. faults' \in 0..MaxFaults
    BY <2>1 DEF TypeOK
  <2> QED BY <2>1, <2>2, <2>3 DEF Ends, Uses, TypeOK
<1>10. CASE UNCHANGED vars
  BY <1>10 DEF vars, files, command, TypeOK
<1> QED
  BY <1>1, <1>2, <1>3, <1>4, <1>5, <1>6, <1>7, <1>8, <1>9, <1>10 DEF Next, Step, Grant

(* Every step keeps who may still ask.                                     *)
LEMMA NextMintInv ==
  ASSUME MintInv, [Next]_vars
  PROVE  MintInv'
<1>0. TypeOK /\ TypeOK'
  BY NextTypeOK DEF MintInv
<1> USE <1>0 DEF MayStillAsk
<1>1. CASE Tick \/ Keygen \/ UNCHANGED vars
  BY <1>1 DEF Tick, Keygen, vars, command, MintInv, Minting, MintsOneIdentity
<1>2. ASSUME NEW p \in Procs, NEW given \in BOOLEAN,
             StartRun(p) \/ StartTokenEnrol(p, given) \/ StartDeviceEnrol(p, given)
      PROVE  MintInv'
  BY <1>2 DEF StartRun, StartTokenEnrol, StartDeviceEnrol, Loads, TypeOK,
              MintInv, Minting, MintsOneIdentity
<1>3. ASSUME NEW p \in Procs, LoadCrt(p) \/ LoadKey(p) PROVE MintInv'
  BY <1>3, LoadSteps DEF Ends, Goes, Loads, Uses, TypeOK, MintInv, Minting, MintsOneIdentity
<1>4. ASSUME NEW p \in Procs, NEW s \in Serials, NEW a \in StartAges, Granted(p, s, a)
      PROVE  MintInv'
  BY <1>4 DEF Granted, TypeOK, MintInv, Minting, MintsOneIdentity
<1>5. ASSUME NEW p \in Procs, NotGranted(p) \/ UseIdentity(p) PROVE MintInv'
  BY <1>5 DEF NotGranted, UseIdentity, Ends, Goes, TypeOK, MintInv, Minting, MintsOneIdentity
<1>6. ASSUME NEW p \in Procs, SaveKey(p) \/ SaveCrt(p) \/ SaveCA(p) PROVE MintInv'
  BY <1>6 DEF SaveKey, SaveCrt, SaveCA, Loads, Goes, TypeOK, MintInv, Minting, MintsOneIdentity
<1>7. ASSUME NEW p \in Procs, SaveFails(p) \/ Dies(p) PROVE MintInv'
  BY <1>7 DEF SaveFails, Dies, Ends, Uses, TypeOK, MintInv, Minting, MintsOneIdentity
<1> QED
  BY <1>1, <1>2, <1>3, <1>4, <1>5, <1>6, <1>7 DEF Next, Step, Grant

(* No command makes the broker mint more than one identity, however many   *)
(* commands run, whatever they find and however late they load it.         *)
THEOREM OneIdentityPerCommand == Spec => []MintsOneIdentity
<1>1. Init => MintInv
  BY InitTypeOK DEF Init, MintInv, Minting, MintsOneIdentity
<1>2. MintInv /\ [Next]_vars => MintInv'
  BY NextMintInv
<1>3. MintInv => MintsOneIdentity
  BY DEF MintInv
<1> QED BY <1>1, <1>2, <1>3, PTL DEF Spec

-----------------------------------------------------------------------------
(* With one command at a time, every step keeps the identity whole, or is  *)
(* the fault that tears it.                                                *)
LEMMA NextWholeInv ==
  ASSUME OneCommand, WholeInv, [Next]_vars
  PROVE  WholeInv'
<1>0. TypeOK /\ TypeOK'
  BY NextTypeOK DEF WholeInv
<1> USE <1>0 DEF WholeInv, UsersHaveCA, SavedSoFar
<1>1. CASE Tick \/ Keygen \/ UNCHANGED vars
  BY <1>1 DEF Tick, Keygen, vars, files, command
<1>2. ASSUME NEW p \in Procs, NEW given \in BOOLEAN,
             StartRun(p) \/ StartTokenEnrol(p, given) \/ StartDeviceEnrol(p, given)
      PROVE  WholeInv'
  BY <1>2 DEF StartRun, StartTokenEnrol, StartDeviceEnrol, Loads, TypeOK, files
<1>3. ASSUME NEW p \in Procs, LoadCrt(p) \/ LoadKey(p) PROVE WholeInv'
  BY <1>3, LoadSteps DEF Ends, Goes, Loads, Uses, TypeOK
<1>4. ASSUME NEW p \in Procs, NEW s \in Serials, NEW a \in StartAges, Granted(p, s, a)
      PROVE  WholeInv'
  BY <1>4 DEF Granted, TypeOK, files
<1>5. ASSUME NEW p \in Procs, NotGranted(p) \/ UseIdentity(p) PROVE WholeInv'
  BY <1>5 DEF NotGranted, UseIdentity, Ends, Goes, TypeOK, files
<1>6. ASSUME NEW p \in Procs, SaveKey(p) \/ SaveCrt(p) \/ SaveCA(p) PROVE WholeInv'
  <2>0. \A q \in Procs : q = p
    BY DEF OneCommand
  <2>1. CASE SaveKey(p)
    BY <2>0, <2>1 DEF SaveKey, Goes, TypeOK
  <2>2. CASE SaveCrt(p)
    <3>1. ~torn' => key' = crt'
      BY <2>2 DEF SaveCrt, Loads, Goes
    <3>2. ca' = ca /\ id' = id
      BY <2>2 DEF SaveCrt, Loads, Goes
    <3>3. CASE id[p] # None
      BY <2>2, <3>1, <3>2, <3>3 DEF SaveCrt, Loads, TypeOK
    <3>4. CASE id[p] = None
      BY <2>2, <3>1, <3>2, <3>4 DEF SaveCrt, Goes, TypeOK
    <3> QED BY <3>3, <3>4
  <2>3. CASE SaveCA(p)
    BY <2>0, <2>3 DEF SaveCA, Loads, TypeOK
  <2> QED BY <1>6, <2>1, <2>2, <2>3
<1>7. ASSUME NEW p \in Procs, SaveFails(p) \/ Dies(p) PROVE WholeInv'
  BY <1>7 DEF SaveFails, Dies, HalfSaved, Ends, Uses, TypeOK, files
<1> QED
  BY <1>1, <1>2, <1>3, <1>4, <1>5, <1>6, <1>7 DEF Next, Step, Grant

(* If one command runs at a time, key, certificate and CA on disk fit      *)
(* whenever no save is under way, until a save is torn between its writes. *)
THEOREM StoredIdentityIsWhole ==
  ASSUME OneCommand PROVE Spec => []IdentityWhole
<1>1. Init => WholeInv
  BY InitTypeOK DEF Init, WholeInv, UsersHaveCA, SavedSoFar
<1>2. WholeInv /\ [Next]_vars => WholeInv'
  BY NextWholeInv
<1>3. WholeInv => IdentityWhole
  BY DEF WholeInv, SavedSoFar, IdentityWhole, HalfSaved
<1> QED BY <1>1, <1>2, <1>3, PTL DEF Spec

-----------------------------------------------------------------------------
(* The stored identity is missing or due for renewal.                      *)
Replaceable == crt = None \/ NeedsRenewalAt(crt)

(* What a command other than `enrol` with the device key knows of the      *)
(* stored identity: while it loads it, what it read is still stored; from  *)
(* its decision to ask until its first write, the identity may go.         *)
Knows(p) ==
  /\ (pc[p] = "loadKey" /\ why[p] = "ensure") => seen[p] = crt
  /\ (pc[p] \in {"ask", "renew", "saveKey"} /\ cmd[p] # "enrol") => Replaceable

KeptInv == TypeOK /\ \A p \in Procs : Knows(p)

(* An identity may still go later on: what is stored only grows older.     *)
LEMMA StaysReplaceable ==
  ASSUME TypeOK, Replaceable, UNCHANGED crt,
         crt # None => age'[crt] >= age[crt], crt # None => age'[crt] \in Nat
  PROVE  Replaceable'
<1>1. CASE crt = None
  BY <1>1 DEF Replaceable
<1>2. CASE crt # None
  <2>1. crt \in Serials /\ age[crt] \in Nat
    BY <1>2, ConstantsAssumption DEF TypeOK
  <2> QED BY <1>2, <2>1, ConstantsAssumption DEF Replaceable, NeedsRenewalAt
<1> QED BY <1>1, <1>2

(* LoadIdentity lets a command go on to ask or to renew only when what it  *)
(* read is missing, expired or due.                                        *)
LEMMA AsksWhenReplaceable ==
  ASSUME KeptInv, NEW p \in Procs, LoadCrt(p) \/ LoadKey(p),
         pc'[p] \in {"ask", "renew", "saveKey"}
  PROVE  Replaceable
<1>0. TypeOK
  BY DEF KeptInv
<1>1. CASE crt = None
  BY <1>1 DEF Replaceable
<1>2. CASE crt # None
  <2>1. LoadKey(p)
    <3>1. SUFFICES ASSUME LoadCrt(p) PROVE FALSE
      OBVIOUS
    <3>2. pc' = [pc EXCEPT ![p] = "loadKey"]
      BY <1>2, <3>1 DEF LoadCrt
    <3> QED BY <1>0, <3>2 DEF TypeOK
  <2>2. PICK v \in {"broken", "ok"} : Loaded(p, v, seen[p])
    BY <2>1, Zenon DEF LoadKey
  <2>3. ASSUME Ends(p) \/ Loads(p, "fresh") \/ (\E t : Uses(p, t, "use")) PROVE FALSE
    BY <1>0, <2>3 DEF Ends, Loads, Uses, TypeOK
  <2>4. CASE why[p] = "ensure"
    <3>1. seen[p] = crt
      BY <2>1, <2>4 DEF LoadKey, KeptInv, Knows
    <3>2. EnsureIdentity(p, v, seen[p])
      BY <2>2, <2>4 DEF Loaded
    <3>3. ExpiredAt(crt) \/ NeedsRenewalAt(crt)
      BY <2>3, <3>1, <3>2 DEF EnsureIdentity
    <3>4. crt \in Serials /\ age[crt] \in Nat
      BY <1>0, <1>2, ConstantsAssumption DEF TypeOK
    <3> QED BY <3>3, <3>4, ConstantsAssumption DEF ExpiredAt, NeedsRenewalAt, Replaceable
  <2>5. CASE why[p] = "token"
    BY <2>2, <2>3, <2>5 DEF Loaded, TokenEnrol
  <2>6. CASE why[p] = "saved"
    BY <2>2, <2>3, <2>6 DEF Loaded, Saved
  <2>7. CASE why[p] = "fresh"
    BY <2>2, <2>3, <2>7 DEF Loaded, FreshIdentity
  <2> QED BY <1>0, <2>4, <2>5, <2>6, <2>7 DEF TypeOK
<1> QED BY <1>1, <1>2

(* With one command at a time, every step keeps what the command knows.    *)
LEMMA NextKeptInv ==
  ASSUME OneCommand, KeptInv, [Next]_vars
  PROVE  KeptInv'
<1>0. TypeOK /\ TypeOK'
  BY NextTypeOK DEF KeptInv
<1> USE <1>0
<1>1. CASE Tick
  <2>1. UNCHANGED <<deviceKey, ca, key, crt, pc, cmd, why, seen>>
    BY <1>1 DEF Tick, files, command
  <2>2. crt # None => age'[crt] >= age[crt] /\ age'[crt] \in Nat
    BY <1>1, ConstantsAssumption DEF Tick, InUse, TypeOK
  <2>3. Replaceable => Replaceable'
    BY <2>1, <2>2, StaysReplaceable
  <2> QED BY <2>1, <2>3 DEF KeptInv, Knows
<1>2. CASE Keygen \/ UNCHANGED vars
  BY <1>2 DEF Keygen, vars, files, command, KeptInv, Knows, Replaceable, NeedsRenewalAt
<1>3. ASSUME NEW p \in Procs, NEW given \in BOOLEAN,
             StartRun(p) \/ StartTokenEnrol(p, given) \/ StartDeviceEnrol(p, given)
      PROVE  KeptInv'
  BY <1>3 DEF StartRun, StartTokenEnrol, StartDeviceEnrol, Loads, TypeOK, files,
              KeptInv, Knows, Replaceable, NeedsRenewalAt
<1>4. ASSUME NEW p \in Procs, LoadCrt(p) \/ LoadKey(p) PROVE KeptInv'
  <2>1. pc'[p] \in {"ask", "renew", "saveKey"} => Replaceable
    BY <1>4, AsksWhenReplaceable
  <2>2. UNCHANGED <<crt, age>>
    BY <1>4, LoadSteps
  <2>3. \A q \in Procs : q = p
    BY DEF OneCommand
  <2>4. pc'[p] = "loadKey" => seen'[p] = crt
    BY <1>4, LoadSteps DEF Ends, Goes, Loads, Uses, TypeOK
  <2>5. Replaceable' <=> Replaceable
    BY <2>2 DEF Replaceable, NeedsRenewalAt
  <2>6. Knows(p)'
    BY <2>1, <2>2, <2>4, <2>5 DEF Knows
  <2> QED BY <2>3, <2>6 DEF KeptInv
<1>5. ASSUME NEW p \in Procs, NEW s \in Serials, NEW a \in StartAges, Granted(p, s, a)
      PROVE  KeptInv'
  <2>1. UNCHANGED <<crt, cmd, why, seen>> /\ pc' = [pc EXCEPT ![p] = "saveKey"]
        /\ pc[p] \in {"ask", "renew"}
    BY <1>5 DEF Granted, files
  <2>2. crt # None => age'[crt] = age[crt] /\ age[crt] \in Nat
    BY <1>5, ConstantsAssumption DEF Granted, InUse, TypeOK
  <2>3. Replaceable => Replaceable'
    BY <2>1, <2>2 DEF Replaceable, NeedsRenewalAt
  <2> QED BY <2>1, <2>3 DEF KeptInv, Knows, TypeOK
<1>6. ASSUME NEW p \in Procs, NotGranted(p) \/ UseIdentity(p) PROVE KeptInv'
  BY <1>6 DEF NotGranted, UseIdentity, Ends, Goes, TypeOK, files,
              KeptInv, Knows, Replaceable, NeedsRenewalAt
<1>7. ASSUME NEW p \in Procs, SaveKey(p) \/ SaveCrt(p) \/ SaveCA(p) PROVE KeptInv'
  <2>1. pc'[p] \notin {"loadKey", "ask", "renew", "saveKey"}
    BY <1>7 DEF SaveKey, SaveCrt, SaveCA, Goes, Loads, TypeOK
  <2>2. \A q \in Procs : q = p
    BY DEF OneCommand
  <2> QED BY <2>1, <2>2 DEF KeptInv, Knows
<1>8. ASSUME NEW p \in Procs, SaveFails(p) \/ Dies(p) PROVE KeptInv'
  BY <1>8 DEF SaveFails, Dies, Ends, Uses, TypeOK, files,
              KeptInv, Knows, Replaceable, NeedsRenewalAt
<1> QED
  BY <1>1, <1>2, <1>3, <1>4, <1>5, <1>6, <1>7, <1>8 DEF Next, Step, Grant

(* If one command runs at a time, neither the timer's `run` nor a token    *)
(* replaces an identity that works and is not due, however long the broker *)
(* takes to answer and however many commands failed or died before.        *)
THEOREM WorkingIdentityIsKept ==
  ASSUME OneCommand PROVE Spec => WorkingIdentityKept
<1>1. Init => KeptInv
  BY InitTypeOK DEF Init, KeptInv, Knows
<1>2. KeptInv /\ [Next]_vars => KeptInv'
  BY NextKeptInv
<1>3. KeptInv /\ [Next]_vars =>
        [\A p \in Procs :
           (/\ pc[p] = "saveKey" /\ pc'[p] = "saveCrt"
            /\ key = crt /\ crt # None /\ ca /\ ~NeedsRenewalAt(crt))
             => cmd[p] = "enrol"]_vars
  BY DEF KeptInv, Knows, Replaceable
<1> QED BY <1>1, <1>2, <1>3, PTL DEF Spec, WorkingIdentityKept

-----------------------------------------------------------------------------
(* Deployments.                                                            *)

(* The run has begun to write and its end will tell.                       *)
StillToTell == stage \in {"writeCrt", "reload", "verify"}

(* Which of the files the run has written so far.                          *)
WrittenSoFar ==
  /\ StillToTell => targetKey = cert
  /\ stage \in {"reload", "verify"} => targetCrt = cert

(* What differs has been reported, was left by a run that died, or is the  *)
(* business of the run at work: the files among each other, and with a     *)
(* verify_address the service and the chain.                               *)
Told == reported \/ cutShort
DifferenceIsTold ==
  /\ targetKey # targetCrt => Told \/ stage = "writeCrt"
  /\ (verify /\ served # targetCrt) => Told \/ StillToTell

DeployInv == WrittenSoFar /\ DifferenceIsTold

(* Every step of a run, of the broker and of the service keeps that.       *)
LEMMA NextDeployInv ==
  ASSUME DeployInv, [DeployNext]_deployVars
  PROVE  DeployInv'
<1> USE DEF Settings, target, obs, StillToTell, WrittenSoFar, DifferenceIsTold, Told, DeployInv
<1>1. ASSUME NEW c \in Certs, BrokerRenews(c) PROVE DeployInv'
  BY <1>1 DEF BrokerRenews
<1>2. ASSUME NEW c \in Certs, Collect(c) PROVE DeployInv'
  BY <1>2 DEF Collect
<1>3. CASE Compare
  BY <1>3 DEF Compare, RunEnds
<1>4. CASE WriteKey
  BY <1>4 DEF WriteKey
<1>5. CASE WriteCrt
  BY <1>5 DEF WriteCrt
<1>6. CASE Reload \/ ReloadReadsNothing
  BY <1>6 DEF Reload, ReloadReadsNothing
<1>7. CASE CheckServed
  <2>1. reported \/ (verify /\ served # cert) => reported'
    BY <1>7, Zenon DEF CheckServed
  <2>2. UNCHANGED <<verify, targetKey, targetCrt, served, cutShort>>
        /\ stage = "verify" /\ stage' = "idle"
    BY <1>7 DEF CheckServed, RunEnds
  <2> QED BY <2>1, <2>2
<1>8. CASE StepFails
  BY <1>8 DEF StepFails, RunEnds
<1>9. CASE RunDies
  <2>1. cutShort \/ StillToTell => cutShort'
    BY <1>9, Zenon DEF RunDies
  <2>2. UNCHANGED <<verify, targetKey, targetCrt, served, reported>> /\ stage' = "idle"
    BY <1>9 DEF RunDies, RunEnds
  <2> QED BY <2>1, <2>2
<1>10. CASE ServiceRestarts
  <2>1. /\ UNCHANGED <<verify, targetKey, targetCrt, stage, cert, reported, cutShort>>
        /\ targetKey = targetCrt => served' = targetCrt
    BY <1>10 DEF ServiceRestarts
  <2> QED BY <2>1
<1>11. CASE UNCHANGED deployVars
  BY <1>11 DEF deployVars
<1> QED
  BY <1>1, <1>2, <1>3, <1>4, <1>5, <1>6, <1>7, <1>8, <1>9, <1>10, <1>11
     DEF DeployNext, DeployStep

(* With a verify_address, a service that serves something else than the    *)
(* chain on disk has been reported, for any number of failures and runs,   *)
(* unless a run died in the middle of deploying.                           *)
THEOREM StaleServicesAreReported == DeploySpec => []StaleServiceReported
<1>1. DeployInit => DeployInv
  BY DEF DeployInit, DeployInv, WrittenSoFar, DifferenceIsTold, StillToTell
<1>2. DeployInv /\ [DeployNext]_deployVars => DeployInv'
  BY NextDeployInv
<1>3. DeployInv => StaleServiceReported
  BY DEF DeployInv, DifferenceIsTold, Told, StillToTell, StaleServiceReported
<1> QED BY <1>1, <1>2, <1>3, PTL DEF DeploySpec
=============================================================================
