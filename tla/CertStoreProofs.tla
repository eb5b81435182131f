--------------------------- MODULE CertStoreProofs --------------------------
(***************************************************************************)
(* What a fetch serves, when a certificate is ordered and how many         *)
(* accounts are registered, for every number of requests and certificates  *)
(* and every lifetime.                                                     *)
(*                                                                         *)
(* That the store implements CertificateSlot rests on Fresh: the keys      *)
(* that commands have yet to write are new and of different certificates,  *)
(* so no write can make a fetch's chain, or the stored one, fit again.     *)
(***************************************************************************)
EXTENDS CertStore, TLAPS

(* A metadata file belongs to the key beside it, and a registration in     *)
(* progress has found, and so far left, the place empty.                   *)
AccountInv ==
  /\ accountMeta # None => accountKey = accountMeta
  /\ aPc \in {"register", "saveKey"} => accountKey = None
  /\ aPc = "saveKey" => aMade # None
  /\ aPc = "saveMeta" => aMade = accountKey /\ accountKey # None /\ accountMeta = None

(* What a command has obtained is its own and, until it is written, no one *)
(* else's: not on disk as a chain, nor in the hands of a fetch.            *)
Fresh ==
  /\ \A w \in Writers :
       /\ wPc[w] \in {"saveKey", "saveChain", "saveMeta"} <=> wNew[w] # None
       /\ wPc[w] = "saveKey" => wNew[w] # key
       /\ wPc[w] \in {"saveKey", "saveChain"} =>
            wNew[w] # chain /\ \A r \in Readers : wNew[w] # rChain[r]
  /\ \A v, w \in Writers : v # w /\ wNew[v] # None => wNew[v] # wNew[w]

(* A fetch holds a chain exactly while it is between its two reads.        *)
Holding == \A r \in Readers : rPc[r] = "loadKey" <=> rChain[r] # None

IInv == TypeOK /\ AccountInv

(* No two of the commands that write are alive at a time.                  *)
OneCommand == \A v, w \in Writers : v = w

Needed(w) ==
  \/ chain = None
  \/ /\ chain = key
     /\ wForce[w] \/ ExpiredAt(chain) \/ "reached" \in Advice \/ RenewalDue(chain)

(* What a command has read and decided is still true when it orders.       *)
DecisionHolds ==
  \A w \in Writers :
    /\ wPc[w] = "loadKey" => wOld[w] = chain /\ chain # None
    /\ wPc[w] = "order" => Needed(w)

-----------------------------------------------------------------------------
Steps == {"idle", "loadChain", "loadKey", "order", "saveKey", "saveChain", "saveMeta"}

(* TypeOK by components: the files with their clock, the commands, the     *)
(* requests and the account.                                               *)
StoreOK ==
  /\ key \in Serials \cup {None} /\ chain \in Serials \cup {None}
  /\ meta \in Serials \cup {None}
  /\ age \in [Serials -> 0..Life]

WriterOK ==
  /\ wPc \in [Writers -> Steps]
  /\ wMode \in [Writers -> {"obtain", "renew"}]
  /\ wForce \in [Writers -> BOOLEAN]
  /\ wOld \in [Writers -> Serials \cup {None}]
  /\ wNew \in [Writers -> Serials \cup {None}]

ReaderOK ==
  /\ rPc \in [Readers -> {"idle", "loadKey"}]
  /\ rChain \in [Readers -> Serials \cup {None}]
  /\ answer \in [verdict : {"none", "not found", "unusable", "ok"},
                 chain : Serials \cup {None}, key : Serials \cup {None}]

AccountOK ==
  /\ registered \in Nat
  /\ accountKey \in 1..registered \cup {None}
  /\ accountMeta \in 1..registered \cup {None}
  /\ aMade \in 1..registered \cup {None}
  /\ aPc \in {"idle", "register", "saveKey", "saveMeta"}

LEMMA TypeParts ==
  TypeOK <=> StoreOK /\ WriterOK /\ ReaderOK /\ AccountOK /\ faults \in 0..MaxFaults
BY DEF TypeOK, StoreOK, WriterOK, ReaderOK, AccountOK, Steps

LEMMA InitIInv == Init => IInv /\ DecisionHolds
<1> SUFFICES ASSUME Init PROVE IInv /\ DecisionHolds
  OBVIOUS
<1> USE ConstantsAssumption, AccountAssumption
<1>1. TypeOK
  BY DEF Init, AccountInit, TypeOK
<1> QED BY <1>1 DEF Init, AccountInit, IInv, AccountInv, DecisionHolds

(* The account's files change under register alone, which keeps them       *)
(* together.                                                               *)
LEMMA RegisteringKeeps ==
  ASSUME AccountOK, AccountInv, Registering \/ RegisterStops
  PROVE  /\ AccountInv' /\ AccountOK'
         /\ Exists => accountKey' = accountKey /\ registered' = registered
<1> USE AccountAssumption DEF AccountOK, Exists, AccountInv
<1>1. CASE Register
  BY <1>1 DEF Register
<1>2. CASE RegisterAtCA
  BY <1>2 DEF RegisterAtCA
<1>3. CASE RegisterRefused
  BY <1>3 DEF RegisterRefused
<1>4. CASE SaveAccountKey
  BY <1>4 DEF SaveAccountKey
<1>5. CASE SaveAccountMeta
  BY <1>5 DEF SaveAccountMeta
<1>6. CASE RegisterStops
  BY <1>6 DEF RegisterStops
<1> QED BY <1>1, <1>2, <1>3, <1>4, <1>5, <1>6 DEF Registering

LEMMA WriterMoves ==
  ASSUME WriterOK, NEW w \in Writers,
         WriterEnds(w) \/ \E step \in Steps : WriterGoes(w, step)
  PROVE  WriterOK'
<1>1. CASE WriterEnds(w)
  BY <1>1 DEF WriterOK, WriterEnds, Steps
<1>2. ASSUME NEW step \in Steps, WriterGoes(w, step) PROVE WriterOK'
  BY <1>2 DEF WriterOK, WriterGoes
<1> QED BY <1>1, <1>2

(* Whatever a command does, it keeps the shapes and leaves the account and *)
(* the requests alone.                                                     *)
LEMMA CommandKeeps ==
  ASSUME StoreOK, WriterOK, faults \in 0..MaxFaults, NEW w \in Writers,
         \/ \E mode \in {"obtain", "renew"}, force \in BOOLEAN : CommandStart(w, mode, force)
         \/ Command(w) \/ CommandObtainFails(w) \/ SaveStops(w)
  PROVE  /\ StoreOK' /\ WriterOK' /\ faults' \in 0..MaxFaults
         /\ UNCHANGED <<reader, answer, account>>
<1> USE ConstantsAssumption
<1>0. chain \in Serials \cup {None} /\ wNew[w] \in Serials \cup {None}
  BY DEF StoreOK, WriterOK
<1>1. ASSUME UNCHANGED <<files, age>> PROVE StoreOK'
  BY <1>1 DEF StoreOK, files
<1>2. ASSUME NEW mode \in {"obtain", "renew"}, NEW force \in BOOLEAN,
             CommandStart(w, mode, force)
      PROVE  StoreOK' /\ WriterOK' /\ faults' \in 0..MaxFaults
             /\ UNCHANGED <<reader, answer, account>>
  <2>1. WriterOK'
    BY <1>2 DEF CommandStart, WriterOK, Steps
  <2> QED BY <1>1, <1>2, <2>1 DEF CommandStart
<1>3. CASE CommandLoadChain(w)
  <2>1. CASE chain # None
    <3>1. WriterOK'
      BY <1>0, <1>3, <2>1 DEF CommandLoadChain, WriterOK, Steps
    <3> QED BY <1>1, <1>3, <3>1 DEF CommandLoadChain
  <2>2. CASE chain = None
    <3>1. WriterEnds(w) \/ \E step \in Steps : WriterGoes(w, step)
      BY <1>3, <2>2 DEF CommandLoadChain, Steps
    <3> QED BY <1>1, <1>3, <3>1, WriterMoves DEF CommandLoadChain
  <2> QED BY <2>1, <2>2
<1>4. ASSUME NEW advice \in Advice, CommandDecide(w, advice)
      PROVE  StoreOK' /\ WriterOK' /\ faults' \in 0..MaxFaults
             /\ UNCHANGED <<reader, answer, account>>
  <2>1. WriterEnds(w) \/ \E step \in Steps : WriterGoes(w, step)
    BY <1>4 DEF CommandDecide, Steps
  <2> QED BY <1>1, <1>4, <2>1, WriterMoves DEF CommandDecide
<1>5. ASSUME NEW s \in Serials, CommandObtain(w, s)
      PROVE  StoreOK' /\ WriterOK' /\ faults' \in 0..MaxFaults
             /\ UNCHANGED <<reader, answer, account>>
  <2>1. WriterOK'
    BY <1>5 DEF CommandObtain, WriterOK, Steps
  <2>2. age' \in [Serials -> 0..Life]
    <3>1. 0 \in 0..Life
      OBVIOUS
    <3> QED BY <1>5, <3>1 DEF CommandObtain, StoreOK
  <2> QED BY <1>5, <2>1, <2>2 DEF CommandObtain, files, StoreOK
<1>6. CASE CommandObtainFails(w)
  BY <1>1, <1>6, WriterMoves DEF CommandObtainFails
<1>7. CASE SaveKey(w) \/ SaveChain(w) \/ SaveMeta(w)
  <2>1. WriterEnds(w) \/ \E step \in Steps : WriterGoes(w, step)
    BY <1>7 DEF SaveKey, SaveChain, SaveMeta, Steps
  <2>2. StoreOK'
    BY <1>0, <1>7 DEF SaveKey, SaveChain, SaveMeta, StoreOK
  <2> QED BY <1>7, <2>1, <2>2, WriterMoves DEF SaveKey, SaveChain, SaveMeta
<1>8. CASE SaveStops(w)
  <2>1. faults' \in 0..MaxFaults
    BY <1>8 DEF SaveStops
  <2> QED BY <1>1, <1>8, <2>1, WriterMoves DEF SaveStops
<1> QED BY <1>2, <1>3, <1>4, <1>5, <1>6, <1>7, <1>8 DEF Command

(* A fetch keeps the shapes and changes nothing but itself.                *)
LEMMA FetchKeeps ==
  ASSUME StoreOK, ReaderOK, NEW r \in Readers, FetchChain(r) \/ FetchKey(r)
  PROVE  ReaderOK' /\ UNCHANGED <<files, age, writer, account, faults>>
<1>0. /\ chain \in Serials \cup {None} /\ key \in Serials \cup {None}
      /\ rChain[r] \in Serials \cup {None}
  BY DEF StoreOK, ReaderOK
<1>1. UNCHANGED <<files, age, writer, account, faults>>
  BY DEF FetchChain, FetchKey
<1>2. rPc' \in [Readers -> {"idle", "loadKey"}] /\ rChain' \in [Readers -> Serials \cup {None}]
  BY <1>0 DEF FetchChain, FetchKey, ReaderOK, reader
<1>3. answer' \in [verdict : {"none", "not found", "unusable", "ok"},
                   chain : Serials \cup {None}, key : Serials \cup {None}]
  <2>1. \/ answer' = answer
        \/ \E v \in {"not found", "unusable", "ok"}, c, k \in Serials \cup {None} :
             answer' = [verdict |-> v, chain |-> c, key |-> k]
    <3>1. CASE FetchChain(r)
      BY <3>1 DEF FetchChain, Respond
    <3>2. CASE FetchKey(r) /\ LoadPair(rChain[r], key)
      BY <1>0, <3>2 DEF FetchKey, Respond
    <3>3. CASE FetchKey(r) /\ ~LoadPair(rChain[r], key)
      BY <3>3 DEF FetchKey, Respond
    <3> QED BY <3>1, <3>2, <3>3
  <2>2. CASE answer' = answer
    BY <2>2 DEF ReaderOK
  <2>3. CASE answer' # answer
    <3>1. PICK v \in {"not found", "unusable", "ok"},
               c \in Serials \cup {None}, k \in Serials \cup {None} :
                 answer' = [verdict |-> v, chain |-> c, key |-> k]
      BY <2>1, <2>3, Zenon
    <3> QED BY <3>1
  <2> QED BY <2>2, <2>3
<1> QED BY <1>1, <1>2, <1>3 DEF ReaderOK

LEMMA NextIInv ==
  ASSUME IInv, [Next]_vars
  PROVE  /\ IInv'
         /\ Exists => accountKey' = accountKey /\ registered' = registered
<1> USE ConstantsAssumption
<1>0. /\ AccountInv
      /\ StoreOK /\ WriterOK /\ ReaderOK /\ AccountOK /\ faults \in 0..MaxFaults
  BY TypeParts DEF IInv
<1>p. TypeOK' <=> StoreOK' /\ WriterOK' /\ ReaderOK' /\ AccountOK' /\ faults' \in 0..MaxFaults
  BY DEF TypeOK, StoreOK, WriterOK, ReaderOK, AccountOK, Steps
<1>a. ASSUME UNCHANGED <<files, age>> PROVE StoreOK'
  BY <1>0, <1>a DEF StoreOK, files
<1>b. ASSUME UNCHANGED writer PROVE WriterOK'
  BY <1>0, <1>b DEF WriterOK, writer
<1>c. ASSUME UNCHANGED <<reader, answer>> PROVE ReaderOK'
  BY <1>0, <1>c DEF ReaderOK, reader
<1>d. ASSUME UNCHANGED account
      PROVE  AccountOK' /\ AccountInv' /\ accountKey' = accountKey /\ registered' = registered
  BY <1>0, <1>d DEF AccountOK, AccountInv, account
<1>1. CASE Tick
  <2>1. age' \in [Serials -> 0..Life]
    <3>1. ASSUME NEW s \in Serials
          PROVE  (IF s \notin InUse THEN 0
                  ELSE IF age[s] < Life THEN age[s] + 1 ELSE Life) \in 0..Life
      BY <1>0 DEF StoreOK
    <3> QED BY <1>1, <3>1 DEF Tick
  <2>2. StoreOK'
    BY <1>0, <1>1, <2>1 DEF Tick, StoreOK, files
  <2>3. UNCHANGED <<writer, reader, answer, account, faults>>
    BY <1>1 DEF Tick
  <2> QED BY <1>0, <1>p, <1>b, <1>c, <1>d, <2>2, <2>3 DEF IInv
<1>2. CASE \/ Registering /\ UNCHANGED <<files, age, writer, reader, answer, faults>>
           \/ RegisterStops /\ faults < MaxFaults /\ faults' = faults + 1
              /\ UNCHANGED <<files, age, writer, reader, answer>>
  <2>1. /\ AccountInv' /\ AccountOK'
        /\ Exists => accountKey' = accountKey /\ registered' = registered
    BY <1>0, <1>2, RegisteringKeeps
  <2>2. faults' \in 0..MaxFaults
    BY <1>0, <1>2
  <2> QED BY <1>2, <1>p, <1>a, <1>b, <1>c, <2>1, <2>2 DEF IInv
<1>3. ASSUME NEW w \in Writers,
             \/ \E mode \in {"obtain", "renew"}, force \in BOOLEAN : CommandStart(w, mode, force)
             \/ Command(w) \/ CommandObtainFails(w) \/ SaveStops(w)
      PROVE  IInv' /\ accountKey' = accountKey /\ registered' = registered
  <2>1. /\ StoreOK' /\ WriterOK' /\ faults' \in 0..MaxFaults
        /\ UNCHANGED <<reader, answer, account>>
    BY <1>0, <1>3, CommandKeeps
  <2> QED BY <1>p, <1>c, <1>d, <2>1 DEF IInv
<1>4. ASSUME NEW r \in Readers, FetchChain(r) \/ FetchKey(r)
      PROVE  IInv' /\ accountKey' = accountKey /\ registered' = registered
  <2>1. /\ ReaderOK'
        /\ UNCHANGED <<files, age, writer, account, faults>>
    BY <1>0, <1>4, FetchKeeps
  <2> QED BY <1>0, <1>p, <1>a, <1>b, <1>d, <2>1 DEF IInv
<1>5. CASE UNCHANGED vars
  BY <1>0, <1>p, <1>a, <1>b, <1>c, <1>d, <1>5 DEF vars, IInv
<1> QED BY <1>1, <1>2, <1>3, <1>4, <1>5 DEF Next

-----------------------------------------------------------------------------
(* A decision to order outlives the steps between it and the order: what   *)
(* is due stays due, and nobody else replaces the files.                   *)
LEMMA NextDecision ==
  ASSUME OneCommand, IInv, DecisionHolds, [Next]_vars
  PROVE  DecisionHolds'
<1> USE ConstantsAssumption
<1>0. StoreOK /\ WriterOK
  BY TypeParts DEF IInv
<1>1. ASSUME UNCHANGED <<files, writer>>,
             chain # None => age'[chain] \in Nat /\ age'[chain] >= age[chain]
      PROVE  DecisionHolds'
  <2>0. /\ chain' = chain /\ key' = key /\ wPc' = wPc /\ wForce' = wForce /\ wOld' = wOld
    BY <1>1 DEF files, writer
  <2>1. SUFFICES ASSUME NEW w \in Writers, wPc[w] = "order" PROVE Needed(w)'
    BY <2>0 DEF DecisionHolds
  <2>2. CASE chain = None
    BY <2>0, <2>2 DEF Needed
  <2>3. CASE chain # None
    <3>1. age[chain] \in Nat /\ age'[chain] \in Nat /\ age'[chain] >= age[chain]
      BY <1>0, <1>1, <2>3 DEF StoreOK
    <3>2. /\ age[chain] >= Life => age'[chain] >= Life
          /\ 3 * age[chain] >= 2 * Life => 3 * age'[chain] >= 2 * Life
      BY <3>1
    <3>3. Needed(w)
      BY <2>1 DEF DecisionHolds
    <3> QED BY <2>0, <2>3, <3>2, <3>3 DEF Needed, ExpiredAt, RenewalDue
  <2> QED BY <2>2, <2>3
<1>2. ASSUME UNCHANGED <<files, age, writer>> PROVE DecisionHolds'
  <2>1. chain # None => age'[chain] \in Nat /\ age'[chain] >= age[chain]
    BY <1>0, <1>2 DEF StoreOK
  <2> QED BY <1>1, <1>2, <2>1
<1>3. CASE Tick
  <2>1. ASSUME chain # None PROVE age'[chain] \in Nat /\ age'[chain] >= age[chain]
    <3>1. chain \in Serials /\ chain \in InUse
      BY <1>0, <2>1 DEF StoreOK, InUse
    <3>2. age[chain] \in 0..Life
      BY <1>0, <3>1 DEF StoreOK
    <3> QED BY <1>3, <3>1, <3>2 DEF Tick
  <2> QED BY <1>1, <1>3, <2>1 DEF Tick
<1>4. ASSUME NEW w \in Writers,
             \/ \E mode \in {"obtain", "renew"}, force \in BOOLEAN : CommandStart(w, mode, force)
             \/ Command(w) \/ CommandObtainFails(w) \/ SaveStops(w)
      PROVE  DecisionHolds'
  <2>0. SUFFICES /\ wPc'[w] = "loadKey" => wOld'[w] = chain' /\ chain' # None
                 /\ wPc'[w] = "order" => Needed(w)'
    BY DEF OneCommand, DecisionHolds
  <2>1. CASE \/ \E mode \in {"obtain", "renew"}, force \in BOOLEAN : CommandStart(w, mode, force)
             \/ \E s \in Serials : CommandObtain(w, s)
             \/ CommandObtainFails(w) \/ SaveStops(w)
             \/ SaveKey(w) \/ SaveChain(w) \/ SaveMeta(w)
    <3>1. wPc'[w] \notin {"loadKey", "order"}
      BY <1>0, <2>1 DEF CommandStart, CommandObtain, CommandObtainFails, SaveStops, SaveKey,
         SaveChain, SaveMeta, WriterGoes, WriterEnds, WriterOK
    <3> QED BY <3>1
  <2>2. CASE CommandLoadChain(w)
    <3>1. CASE chain # None
      BY <1>0, <2>2, <3>1 DEF CommandLoadChain, WriterOK, files
    <3>2. CASE chain = None
      BY <1>0, <2>2, <3>2
         DEF CommandLoadChain, WriterGoes, WriterEnds, WriterOK, files, Needed
    <3> QED BY <3>1, <3>2
  <2>3. ASSUME NEW advice \in Advice, CommandDecide(w, advice)
        PROVE  /\ wPc'[w] = "loadKey" => wOld'[w] = chain' /\ chain' # None
               /\ wPc'[w] = "order" => Needed(w)'
    <3>1. wOld[w] = chain /\ chain # None
      BY <2>3 DEF CommandDecide, DecisionHolds
    <3>2. chain' = chain /\ key' = key /\ age' = age
      BY <2>3 DEF CommandDecide, files
    <3>3. CASE LoadPair(wOld[w], key) /\ (wForce[w] \/ DecideRenewal(wOld[w], advice))
      <4>1. wPc'[w] = "order" /\ wForce' = wForce
        BY <1>0, <2>3, <3>3 DEF CommandDecide, WriterGoes, WriterOK
      <4>2. chain = key
        BY <3>1, <3>3 DEF LoadPair
      <4>3. wForce[w] \/ ExpiredAt(chain) \/ "reached" \in Advice \/ RenewalDue(chain)
        BY <2>3, <3>1, <3>3 DEF DecideRenewal
      <4> QED BY <3>2, <4>1, <4>2, <4>3 DEF Needed, ExpiredAt, RenewalDue
    <3>4. CASE ~(LoadPair(wOld[w], key) /\ (wForce[w] \/ DecideRenewal(wOld[w], advice)))
      BY <1>0, <2>3, <3>4 DEF CommandDecide, WriterEnds, WriterOK
    <3> QED BY <3>3, <3>4
  <2> QED BY <1>4, <2>1, <2>2, <2>3 DEF Command
<1>5. CASE \/ Registering /\ UNCHANGED <<files, age, writer, reader, answer, faults>>
           \/ RegisterStops /\ UNCHANGED <<files, age, writer, reader, answer>>
           \/ \E r \in Readers : FetchChain(r) \/ FetchKey(r)
           \/ UNCHANGED vars
  <2>1. UNCHANGED <<files, age, writer>>
    BY <1>5 DEF FetchChain, FetchKey, vars
  <2> QED BY <1>2, <2>1
<1> QED BY <1>3, <1>4, <1>5 DEF Next

-----------------------------------------------------------------------------
(* What the steps do to the files, the commands and the requests.          *)
LEMMA NextFresh ==
  ASSUME IInv, Fresh, Holding, [Next]_vars
  PROVE  Fresh' /\ Holding'
<1> USE ConstantsAssumption
<1>0. StoreOK /\ WriterOK /\ ReaderOK
  BY TypeParts DEF IInv
<1>1. ASSUME NEW r \in Readers, FetchChain(r) \/ FetchKey(r) PROVE Fresh' /\ Holding'
  <2>1. key' = key /\ chain' = chain /\ wPc' = wPc /\ wNew' = wNew
    BY <1>1 DEF FetchChain, FetchKey, files, writer
  <2>2. \/ rPc' = rPc /\ rChain' = rChain
        \/ /\ chain # None
           /\ rPc' = [rPc EXCEPT ![r] = "loadKey"] /\ rChain' = [rChain EXCEPT ![r] = chain]
        \/ rPc' = [rPc EXCEPT ![r] = "idle"] /\ rChain' = [rChain EXCEPT ![r] = None]
    BY <1>1 DEF FetchChain, FetchKey, reader
  <2>3. Holding'
    BY <1>0, <2>2 DEF Holding, ReaderOK
  <2>4. \A q \in Readers : rChain'[q] \in {rChain[q], chain, None}
    BY <1>0, <2>2 DEF ReaderOK
  <2>5. Fresh'
    BY <2>1, <2>4 DEF Fresh
  <2> QED BY <2>3, <2>5
<1>2. ASSUME NEW w \in Writers,
             \/ \E mode \in {"obtain", "renew"}, force \in BOOLEAN : CommandStart(w, mode, force)
             \/ Command(w) \/ CommandObtainFails(w) \/ SaveStops(w)
      PROVE  Fresh' /\ Holding'
  <2>1. UNCHANGED <<reader, answer, account>>
    BY <1>0, <1>2, CommandKeeps, TypeParts DEF IInv
  <2>2. rPc' = rPc /\ rChain' = rChain /\ Holding'
    BY <2>1 DEF reader, Holding
  <2>3. \A v \in Writers : v # w => wPc'[v] = wPc[v] /\ wNew'[v] = wNew[v]
    BY <1>0, <1>2 DEF CommandStart, Command, CommandObtainFails, SaveStops, CommandLoadChain,
       CommandDecide, CommandObtain, SaveKey, SaveChain, SaveMeta, WriterGoes, WriterEnds, WriterOK
  (* A command that does not write the files keeps or drops what it has.   *)
  <2>4. ASSUME key' = key, chain' = chain,
               wNew'[w] = None /\ wPc'[w] \in {"idle", "loadChain", "loadKey", "order"}
        PROVE  Fresh'
    BY <2>2, <2>3, <2>4 DEF Fresh
  <2>5. CASE \E mode \in {"obtain", "renew"}, force \in BOOLEAN : CommandStart(w, mode, force)
    BY <1>0, <2>2, <2>4, <2>5 DEF CommandStart, WriterOK, files, Fresh
  <2>6. CASE CommandLoadChain(w)
    BY <1>0, <2>2, <2>4, <2>6 DEF CommandLoadChain, WriterGoes, WriterEnds, WriterOK, files, Fresh
  <2>7. CASE \E advice \in Advice : CommandDecide(w, advice)
    BY <1>0, <2>2, <2>4, <2>7 DEF CommandDecide, WriterGoes, WriterEnds, WriterOK, files, Fresh
  <2>8. CASE CommandObtainFails(w) \/ SaveStops(w) \/ SaveMeta(w)
    BY <1>0, <2>2, <2>4, <2>8
       DEF CommandObtainFails, SaveStops, SaveMeta, WriterEnds, WriterOK, files
  <2>9. ASSUME NEW s \in Serials, CommandObtain(w, s) PROVE Fresh'
    <3>1. /\ key' = key /\ chain' = chain
          /\ wNew'[w] = s /\ wPc'[w] = "saveKey" /\ s # None
      BY <1>0, <2>9 DEF CommandObtain, files, WriterOK
    <3>2. /\ s # key /\ s # chain
          /\ \A v \in Writers : s # wNew[v]
          /\ \A r \in Readers : s # rChain[r]
      BY <2>9 DEF CommandObtain, InUse
    <3> QED BY <2>2, <2>3, <3>1, <3>2 DEF Fresh
  <2>10. CASE SaveKey(w)
    <3>1. /\ key' = wNew[w] /\ chain' = chain /\ wNew' = wNew
          /\ wPc[w] = "saveKey" /\ wPc'[w] = "saveChain"
      BY <1>0, <2>10 DEF SaveKey, WriterGoes, WriterOK
    <3> QED BY <2>2, <2>3, <3>1 DEF Fresh
  <2>11. CASE SaveChain(w)
    <3>1. /\ key' = key /\ chain' = wNew[w] /\ wNew' = wNew
          /\ wPc[w] = "saveChain" /\ wPc'[w] = "saveMeta"
      BY <1>0, <2>11 DEF SaveChain, WriterGoes, WriterOK
    <3> QED BY <2>2, <2>3, <3>1 DEF Fresh
  <2> QED BY <1>2, <2>2, <2>5, <2>6, <2>7, <2>8, <2>9, <2>10, <2>11 DEF Command
<1>3. CASE \/ Tick
           \/ Registering /\ UNCHANGED <<files, age, writer, reader, answer, faults>>
           \/ RegisterStops /\ UNCHANGED <<files, age, writer, reader, answer>>
           \/ UNCHANGED vars
  <2>1. UNCHANGED <<files, writer, reader>>
    BY <1>3 DEF Tick, vars
  <2> QED BY <2>1 DEF files, writer, reader, Fresh, Holding
<1> QED BY <1>1, <1>2, <1>3 DEF Next

(* The fetches in progress, as the abstract store sees them.               *)
Asking == {r \in Readers : rPc[r] = "loadKey"}

(* Every step of the store is one of the abstract store or invisible to    *)
(* it.  Writing the key takes the certificate from every fetch in          *)
(* progress; writing the chain makes a certificate whole or breaks one.    *)
LEMMA NextSlot ==
  ASSUME IInv, Fresh, Holding, [Next]_vars
  PROVE  [Slot!Next]_(Slot!vars)
<1> USE ConstantsAssumption
<1>0. StoreOK /\ WriterOK /\ ReaderOK
  BY TypeParts DEF IInv
<1>1. ASSUME UNCHANGED <<key, chain, rPc, rChain, answer>> PROVE UNCHANGED Slot!vars
  BY <1>1 DEF Slot!vars, Whole, Seen
<1>2. ASSUME NEW w \in Writers, SaveKey(w) PROVE Slot!ReplaceKey
  <2>1. /\ key' = wNew[w] /\ chain' = chain /\ UNCHANGED <<rPc, rChain, answer>>
        /\ wPc[w] = "saveKey"
    BY <1>2 DEF SaveKey, reader
  <2>2. wNew[w] # chain /\ \A r \in Readers : wNew[w] # rChain[r]
    BY <2>1 DEF Fresh
  <2>3. Whole' = None
    BY <2>1, <2>2 DEF Whole
  <2>4. Seen' = [r \in Readers |-> None]
    BY <2>1, <2>2 DEF Seen
  <2> QED BY <2>1, <2>3, <2>4 DEF Slot!ReplaceKey
<1>3. ASSUME NEW w \in Writers, SaveChain(w)
      PROVE  Slot!ReplaceChain \/ \E s \in Serials : Slot!Publish(s)
  <2>1. /\ chain' = wNew[w] /\ key' = key /\ UNCHANGED <<rPc, rChain, answer>>
        /\ wPc[w] = "saveChain" /\ wNew[w] \in Serials \cup {None}
    BY <1>0, <1>3 DEF SaveChain, reader, WriterOK
  <2>2. wNew[w] # chain /\ wNew[w] # None
    BY <2>1 DEF Fresh
  <2>3. Seen' = Seen
    BY <2>1 DEF Seen
  <2>4. CASE key = wNew[w]
    <3>1. Whole = None /\ Whole' = wNew[w] /\ wNew[w] \in Serials
      BY <2>1, <2>2, <2>4 DEF Whole
    <3> QED BY <2>1, <2>3, <3>1 DEF Slot!Publish
  <2>5. CASE key # wNew[w]
    <3>1. Whole' = None
      BY <2>1, <2>5 DEF Whole
    <3> QED BY <2>1, <2>3, <3>1 DEF Slot!ReplaceChain
  <2> QED BY <2>4, <2>5
<1>4. ASSUME NEW r \in Readers, FetchChain(r) PROVE Slot!Begin(r) \/ Slot!NotFound(r)
  <2>1. key' = key /\ chain' = chain /\ Whole' = Whole /\ rPc[r] = "idle"
    BY <1>4 DEF FetchChain, files, Whole
  <2>2. CASE chain = None
    <3>1. /\ answer' = [verdict |-> "not found", chain |-> None, key |-> None]
          /\ rPc' = rPc /\ rChain' = rChain
      BY <1>4, <2>2 DEF FetchChain, reader, Respond
    <3>2. Seen' = Seen
      BY <2>1, <3>1 DEF Seen
    <3>3. Whole = None
      BY <2>2 DEF Whole
    <3> QED BY <2>1, <3>1, <3>2, <3>3 DEF Slot!NotFound
  <2>3. CASE chain # None
    <3>1. /\ rPc' = [rPc EXCEPT ![r] = "loadKey"] /\ rChain' = [rChain EXCEPT ![r] = chain]
          /\ answer' = answer
      BY <1>4, <2>3 DEF FetchChain
    <3>2. Asking' = Asking \cup {r} /\ r \notin Asking
      BY <1>0, <2>1, <3>1 DEF Asking, ReaderOK
    <3>3. Seen' = [Seen EXCEPT ![r] = Whole]
      BY <1>0, <2>1, <3>1 DEF Seen, Whole, ReaderOK
    <3> QED BY <2>1, <3>1, <3>2, <3>3 DEF Slot!Begin, Asking
  <2> QED BY <2>2, <2>3
<1>5. ASSUME NEW r \in Readers, FetchKey(r) PROVE Slot!End(r)
  <2>1. /\ key' = key /\ chain' = chain /\ Whole' = Whole /\ rPc[r] = "loadKey"
        /\ rPc' = [rPc EXCEPT ![r] = "idle"] /\ rChain' = [rChain EXCEPT ![r] = None]
    BY <1>5 DEF FetchKey, files, Whole
  <2>2. Asking' = Asking \ {r} /\ r \in Asking
    BY <1>0, <2>1 DEF Asking, ReaderOK
  <2>3. Seen' = [Seen EXCEPT ![r] = None]
    BY <1>0, <2>1 DEF Seen, ReaderOK
  <2>4. rChain[r] # None
    BY <2>1 DEF Holding
  <2>5. answer' = [verdict |-> IF Seen[r] = None THEN "unusable" ELSE "ok",
                   chain |-> Seen[r], key |-> Seen[r]]
    <3>1. CASE key = rChain[r]
      <4>1. LoadPair(rChain[r], key) /\ Seen[r] = rChain[r]
        BY <2>4, <3>1 DEF LoadPair, Seen
      <4> QED BY <1>5, <2>4, <3>1, <4>1 DEF FetchKey, Respond
    <3>2. CASE key # rChain[r]
      <4>1. ~LoadPair(rChain[r], key) /\ Seen[r] = None
        BY <3>2 DEF LoadPair, Seen
      <4> QED BY <1>5, <4>1 DEF FetchKey, Respond
    <3> QED BY <3>1, <3>2
  <2> QED BY <2>1, <2>2, <2>3, <2>5 DEF Slot!End, Asking
(* The steps that touch neither key nor chain nor a request.               *)
<1>6. CASE \/ Tick
           \/ Registering /\ UNCHANGED <<files, age, writer, reader, answer, faults>>
           \/ RegisterStops /\ UNCHANGED <<files, age, writer, reader, answer>>
           \/ \E w \in Writers :
                \/ \E mode \in {"obtain", "renew"}, force \in BOOLEAN :
                     CommandStart(w, mode, force)
                \/ CommandLoadChain(w) \/ SaveMeta(w)
                \/ \E advice \in Advice : CommandDecide(w, advice)
                \/ \E s \in Serials : CommandObtain(w, s)
                \/ CommandObtainFails(w) \/ SaveStops(w)
           \/ UNCHANGED vars
  <2>1. UNCHANGED <<key, chain, rPc, rChain, answer>>
    BY <1>6 DEF Tick, CommandStart, CommandLoadChain, CommandDecide, CommandObtain,
       CommandObtainFails, SaveStops, SaveMeta, vars, files, reader
  <2> QED BY <1>1, <2>1
<1> QED BY <1>2, <1>3, <1>4, <1>5, <1>6 DEF Next, Command, Slot!Next

(* The store implements CertificateSlot, however many commands and fetches *)
(* run at once and wherever saves stop: a fetch reads two files at two     *)
(* moments, and what it hands out was stored whole at one.                 *)
THEOREM StoreImplementsCertificateSlot == Spec => ImplementsCertificateSlot
<1> DEFINE Inv == IInv /\ Fresh /\ Holding
<1>1. Init => Inv
  <2>1. Init => Fresh /\ Holding
    BY ConstantsAssumption DEF Init, Fresh, Holding
  <2> QED BY <2>1, InitIInv
<1>2. Inv /\ [Next]_vars => Inv'
  BY NextIInv, NextFresh
<1>3. Init => Slot!Init
  BY DEF Init, Slot!Init, Whole, Seen
<1>4. Inv /\ [Next]_vars => [Slot!Next]_(Slot!vars)
  BY NextSlot
<1> HIDE DEF Inv
<1> QED BY <1>1, <1>2, <1>3, <1>4, PTL DEF Spec, ImplementsCertificateSlot, Slot!Spec

(* So an agent is never handed a chain with a key that is not its own.     *)
THEOREM ServedPairsMatch ==
  Spec => [](answer.verdict = "ok" => answer.chain = answer.key /\ answer.key # None)
<1> DEFINE Match == answer.verdict = "ok" => answer.chain = answer.key /\ answer.key # None
<1>1. Slot!Init => Match
  BY DEF Slot!Init
<1>2. Match /\ [Slot!Next]_(Slot!vars) => Match'
  <2> SUFFICES ASSUME Match, [Slot!Next]_(Slot!vars) PROVE Match'
    OBVIOUS
  <2>1. ASSUME NEW r \in Readers, Slot!End(r) PROVE Match'
    <3>1. answer' = [verdict |-> IF Seen[r] = None THEN "unusable" ELSE "ok",
                     chain |-> Seen[r], key |-> Seen[r]]
      BY <2>1 DEF Slot!End
    <3> QED BY <3>1
  <2>2. ASSUME NEW r \in Readers, Slot!NotFound(r) PROVE Match'
    BY <2>2 DEF Slot!NotFound
  <2>3. CASE \/ \E s \in Serials : Slot!Publish(s)
             \/ Slot!ReplaceKey \/ Slot!ReplaceChain
             \/ \E r \in Readers : Slot!Begin(r)
             \/ UNCHANGED Slot!vars
    <3>1. answer' = answer
      BY <2>3 DEF Slot!Publish, Slot!ReplaceKey, Slot!ReplaceChain, Slot!Begin, Slot!vars
    <3> QED BY <3>1
  <2> QED BY <2>1, <2>2, <2>3 DEF Slot!Next
<1> HIDE DEF Match
<1>3. Slot!Spec => []Match
  BY <1>1, <1>2, PTL DEF Slot!Spec
<1>4. Spec => []Match
  BY <1>3, StoreImplementsCertificateSlot, PTL DEF ImplementsCertificateSlot
<1> QED BY <1>4 DEF Match

(* Once the account's key is stored it is kept and no second account is    *)
(* registered, and orders use the registration that belongs to the key,    *)
(* though register may die between its two files.                          *)
THEOREM AccountIsKept == Spec => OneAccount
<1>1. IInv /\ [Next]_vars => IInv'
  BY NextIInv
<1>2. IInv /\ [Next]_vars =>
        [/\ Exists => accountKey' = accountKey /\ registered' = registered
         /\ Loads' => accountKey' = accountMeta']_vars
  <2> SUFFICES ASSUME IInv, [Next]_vars
               PROVE  /\ Exists => accountKey' = accountKey /\ registered' = registered
                      /\ Loads' => accountKey' = accountMeta'
    OBVIOUS
  <2>1. AccountInv'
    BY NextIInv DEF IInv
  <2> QED BY <2>1, NextIInv DEF AccountInv, Loads
<1>3. Init => IInv
  BY InitIInv
<1> QED BY <1>1, <1>2, <1>3, PTL DEF Spec, OneAccount

(* ADR-12: a command orders over a stored certificate only when that       *)
(* certificate, as it is when the order is made, is sound and due, or the  *)
(* operator forced it; if one command runs at a time.                      *)
THEOREM OrdersAreNeeded ==
  ASSUME OneCommand
  PROVE  Spec => OrderedOnlyWhenNeeded
<1> DEFINE Inv == IInv /\ DecisionHolds
<1>1. Inv /\ [Next]_vars => Inv'
  BY NextIInv, NextDecision
<1>2. Inv => [\A w \in Writers :
                (wPc[w] = "order" /\ wPc'[w] = "saveKey") =>
                  \/ chain = None
                  \/ /\ chain = key
                     /\ \/ wForce[w] \/ ExpiredAt(chain)
                        \/ "reached" \in Advice
                        \/ RenewalDue(chain)]_vars
  BY DEF DecisionHolds, Needed
<1>3. Init => Inv
  BY InitIInv
<1> HIDE DEF Inv
<1> QED BY <1>1, <1>2, <1>3, PTL DEF Spec, OrderedOnlyWhenNeeded
=============================================================================
