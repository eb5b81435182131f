---------------------------- MODULE BackupProofs ----------------------------
(***************************************************************************)
(* What backup and restore promise, proved for any number of deaths,       *)
(* failed writes and lost disks.  The processes, the backup and the        *)
(* restore write the same files, so the inductive invariant follows each   *)
(* file from whoever made it, through the archive, back to the disk.       *)
(***************************************************************************)
EXTENDS Backup, TLAPS

CrtFile == "agent-ca.crt"
KeyFile == "agent-ca.key"
PairFiles == {"broker.crt", "broker.key"}
CAFiles == {CrtFile, KeyFile}
AccountFiles == {"account.json", "account.key"}

Steps == {"idle", "create.key", "create.crt", "opened", "refused", "tls.crt", "tls.key", "up"}

(* The functions and records have their domains; what is in them does not  *)
(* matter to the proofs.                                                   *)
ProcShapes ==
  /\ disk = [f \in Files |-> disk[f]]
  /\ pc \in [Procs -> Steps]
  /\ ca = [p \in Procs |-> [crt |-> ca[p].crt, key |-> ca[p].key]]
  /\ roots \in Nat /\ faults \in Nat /\ issued \in BOOLEAN

BackupShapes ==
  /\ got = [f \in Files |-> got[f]]
  /\ step \in {"idle", "read", "write"} /\ dir \in 0..5
  /\ archive.file \in {"none", "no manifest", "part", "whole"}
  /\ redact \in BOOLEAN /\ forced \in BOOLEAN /\ cut \in BOOLEAN /\ replaced \in BOOLEAN

(* A process that has opened the CA has in memory what is on the disk; one *)
(* that makes it is alone, and finds the files as it left them.            *)
OpenedCA ==
  \A p \in Procs : pc[p] \in {"opened", "refused", "tls.crt", "tls.key", "up"} =>
    /\ ca[p].crt = disk[CrtFile] /\ ca[p].key = disk[KeyFile]
    /\ disk[CrtFile] # None /\ disk[KeyFile] # None

CreatingCA ==
  \A p \in Procs : pc[p] \in {"create.key", "create.crt"} =>
    /\ disk[CrtFile] = None
    /\ disk[KeyFile] = IF pc[p] = "create.key" THEN None ELSE ca[p].key
    /\ ca[p].crt = ca[p].key /\ ca[p].crt # None
    /\ \A q \in Procs : q # p => pc[q] = "idle"

(* A restore has the disk to itself, and a backup the archive: no archive  *)
(* that was restored, were it in part, is ever replaced.                   *)
RestoreAlone ==
  left # None => step = "idle" /\ \A p \in Procs : pc[p] = "idle"

ArchiveStays ==
  /\ step # "idle" => archive.file = "no manifest"
  /\ archive.file \in {"none", "no manifest"} => archive.entries = Empty
  /\ left # None \/ cut \/ replaced \/ due # NoPromise => Restorable
  /\ left # None => due = NoPromise
  /\ due # NoPromise => archive.file = "whole" /\ due = archive.promise

(* A restore that nobody forced finds of the files that matter only what   *)
(* it would write itself.                                                  *)
Restoring ==
  left # None =>
    /\ left \subseteq {f \in Files : archive.entries[f] # None}
    /\ \A f \in Files : archive.entries[f] # None /\ f \notin left => disk[f] = archive.entries[f]
    /\ ~forced => \A f \in CAFiles \cup PairFiles \cup {"account.key"} :
                    disk[f] \in {None, archive.entries[f]}
    /\ forced /\ ~replaced => left = {f \in Files : archive.entries[f] # None}

(* Without a CA key, what lies there of the CA and the endpoint's pair     *)
(* came from the archive: a key is written before what depends on it.      *)
KeyFirst ==
  disk[KeyFile] = None =>
    \A f \in {CrtFile} \cup PairFiles : disk[f] \in {None, archive.entries[f]}

NoEntries == \A f \in Files : archive.entries[f] = None

(* No restore has mixed an archive with other state.                       *)
Clean == ~replaced /\ (cut => NoEntries)

(* The endpoint's pair is of the CA beside it.                             *)
PairOfCA ==
  Clean /\ (left = None \/ forced) =>
    \A f \in PairFiles : disk[f] # None =>
      /\ disk[f].root = disk[CrtFile]
      /\ disk[CrtFile] # None /\ disk[KeyFile] # None

NewPairOfCA ==
  pc["serve"] \in {"tls.crt", "tls.key"} => tls.root = ca["serve"].crt

(* serve knows of the revocation that is on the disk.                      *)
RevocationKnown ==
  pc["serve"] \in {"tls.crt", "tls.key", "up"} /\ disk["agents.json"] = "revoked" =>
    shut = "revoked"

(* A token file, wherever it is, is of the token that was issued.          *)
TokenIssued ==
  \A f \in {"pending", "redeemed"} :
    disk[f] # None \/ got[f] # None \/ archive.entries[f] # None => issued

(* The backup has not come to this file.                                   *)
Ahead(f) == step = "read" /\ (f \in todo \/ \E d \in 1..5 : d > dir /\ f \in Walk[d])

(* Between backups nothing is left of one.                                 *)
BackupRests == step = "idle" => dir = 0 /\ todo = {} /\ got = Empty

(* What is in place when a backup begins stays, and is read or still to be *)
(* read; a pair that was read is followed by its CA.                       *)
Collecting ==
  step # "idle" =>
    /\ IF dir = 0 THEN todo = {} ELSE todo \subseteq Walk[dir]
    /\ step = "write" => dir = 0
    /\ promise.root # None => \A f \in CAFiles : disk[f] = promise.root
    /\ promise.account # None => \A f \in AccountFiles : disk[f] = promise.account
    /\ promise.revoked => disk["agents.json"] = "revoked"
    /\ promise.spent => issued /\ disk["pending"] = None

Collected ==
  step # "idle" /\ ~redact =>
    /\ promise.root # None => \A f \in CAFiles : Ahead(f) \/ got[f] = promise.root
    /\ promise.account # None =>
         \A f \in AccountFiles : Ahead(f) \/ got[f] = promise.account
    /\ promise.revoked => Ahead("agents.json") \/ got["agents.json"] = "revoked"
    /\ promise.spent => got["pending"] = None
    /\ \A b \in PairFiles : got[b] # None =>
         /\ got[b].root = disk[CrtFile] /\ disk[CrtFile] # None /\ disk[KeyFile] # None
         /\ \A f \in CAFiles : Ahead(f) \/ got[f] = disk[f]

(* What a restorable archive holds.                                        *)
ArchiveHolds ==
  Restorable =>
    /\ archive.file = "part" => faults > 0
    /\ archive.file = "whole" =>
         /\ Holds(archive.entries, archive.promise)
         /\ archive.promise.spent => issued /\ disk["pending"] = None
         /\ \A b \in PairFiles : archive.entries[b] # None =>
              /\ archive.entries[b].root = archive.entries[CrtFile]
              /\ archive.entries[CrtFile] # None /\ archive.entries[KeyFile] # None

DueHeld == Holds(disk, due)

CAInv == OpenedCA /\ CreatingCA
ServeInv == NewPairOfCA /\ EndpointVerifies /\ RevocationKnown
RestoreInv == RestoreAlone /\ ArchiveStays /\ Restoring
FilesInv == KeyFirst /\ PairOfCA /\ TokenIssued /\ DueHeld
BackupInv == BackupRests /\ Collecting /\ Collected /\ ArchiveHolds

IInv ==
  /\ ProcShapes /\ BackupShapes
  /\ CAInv /\ ServeInv /\ RestoreInv /\ FilesInv /\ BackupInv

-----------------------------------------------------------------------------
LEMMA FilesAre ==
  Files = {"account.json", "account.key", "agents.json", "broker.crt", "broker.key",
           "agent-ca.crt", "agent-ca.key", "pending", "redeemed"}
<1>1. Len(Order) = 9
  BY DEF Order
<1>2. \A i \in 1..9 : i \in {1, 2, 3, 4, 5, 6, 7, 8, 9}
  OBVIOUS
<1>3. {1, 2, 3, 4, 5, 6, 7, 8, 9} \subseteq 1..9
  OBVIOUS
<1>4. /\ Order[1] = "account.json" /\ Order[2] = "account.key" /\ Order[3] = "agents.json"
      /\ Order[4] = "broker.crt" /\ Order[5] = "broker.key" /\ Order[6] = "agent-ca.crt"
      /\ Order[7] = "agent-ca.key" /\ Order[8] = "pending" /\ Order[9] = "redeemed"
  BY DEF Order
<1> QED BY <1>1, <1>2, <1>3, <1>4 DEF Files

LEMMA Counts == 0 \in 0..5 /\ \A n \in Nat : \A m \in {n, n + 1} : m \in Nat
OBVIOUS

LEMMA Writes ==
  ASSUME disk = [g \in Files |-> disk[g]], NEW f \in Files, NEW content, Write(f, content)
  PROVE  /\ disk'[f] = content
         /\ \A g \in Files : g # f => disk'[g] = disk[g]
         /\ disk' = [g \in Files |-> disk'[g]]
<1>1. disk' = [disk EXCEPT ![f] = content]
  BY DEF Write
<1>2. DOMAIN disk = Files
  OBVIOUS
<1>3. disk' = [g \in Files |-> IF g = f THEN content ELSE disk[g]]
  BY <1>1, <1>2
<1> QED BY <1>3

LEMMA Goes ==
  ASSUME ProcShapes, NEW p \in Procs, NEW where \in Steps, Goto(p, where)
  PROVE  /\ pc'[p] = where
         /\ \A q \in Procs : q # p => pc'[q] = pc[q]
         /\ pc' \in [Procs -> Steps]
BY DEF ProcShapes, Goto

LEMMA Ended ==
  ASSUME ProcShapes, NEW p \in Procs, Ends(p)
  PROVE  /\ pc'[p] = "idle" /\ pc' \in [Procs -> Steps]
         /\ \A q \in Procs : q # p => pc'[q] = pc[q] /\ ca'[q] = ca[q]
         /\ ca' = [q \in Procs |-> [crt |-> ca'[q].crt, key |-> ca'[q].key]]
         /\ p # "serve" => tls' = tls /\ shut' = shut
<1>1. "idle" \in Steps /\ Goto(p, "idle")
  BY DEF Steps, Ends
<1>2. ca' = [ca EXCEPT ![p] = NoCA]
  BY DEF Ends
<1>3. \A q \in Procs : ca'[q] = IF q = p THEN NoCA ELSE ca[q]
  BY <1>2 DEF ProcShapes
<1>4. \A q \in Procs : ca'[q] = [crt |-> ca'[q].crt, key |-> ca'[q].key]
  BY <1>3 DEF ProcShapes, NoCA
<1>5. DOMAIN ca = Procs
  BY DEF ProcShapes
<1>6. ca' = [q \in Procs |-> ca'[q]]
  BY <1>2, <1>5
<1>7. ca' = [q \in Procs |-> [crt |-> ca'[q].crt, key |-> ca'[q].key]]
  BY <1>4, <1>6
<1> QED BY <1>1, <1>3, <1>7, Goes DEF Ends

-----------------------------------------------------------------------------
(* What a step of serve or of a command does to the files, as far as       *)
(* backup and restore care.                                                *)
Effect ==
  /\ left = None /\ Beside
  /\ \A f \in AccountFiles : disk'[f] = disk[f]
  /\ \A f \in CAFiles : disk[f] # None => disk'[f] = disk[f]
  /\ disk["agents.json"] = "revoked" => disk'["agents.json"] = "revoked"
  /\ issued => issued' /\ (disk["pending"] = None => disk'["pending"] = None)
  /\ \A f \in {"pending", "redeemed"} : disk'[f] # None => issued'
  /\ \A f \in PairFiles :
       \/ disk'[f] = disk[f]
       \/ disk'[f].root = disk[CrtFile] /\ disk[CrtFile] # None /\ disk[KeyFile] # None
  /\ disk'[KeyFile] = None =>
       disk[KeyFile] = None /\ \A f \in {CrtFile} \cup PairFiles : disk'[f] = disk[f]
  /\ faults' >= faults

(* A step that changes no file.                                            *)
LEMMA NoEffect ==
  ASSUME ProcShapes, TokenIssued, left = None, Beside, disk' = disk, issued' = issued,
         faults' >= faults
  PROVE  Effect
<1>1. issued => issued'
  OBVIOUS
<1>2. \A f \in {"pending", "redeemed"} : disk'[f] # None => issued'
  BY <1>1 DEF TokenIssued
<1> QED BY <1>1, <1>2 DEF Effect

(* Processes that go on with the CA they opened, or end.                   *)
LEMMA CAKept ==
  ASSUME CAInv, \A f \in CAFiles : disk'[f] = disk[f],
         \A q \in Procs :
           \/ pc'[q] = "idle"
           \/ pc'[q] = pc[q] /\ ca'[q] = ca[q]
           \/ /\ {pc[q], pc'[q]} \subseteq {"opened", "refused", "tls.crt", "tls.key", "up"}
              /\ ca'[q] = ca[q]
  PROVE  CAInv'
<1>1. disk'[CrtFile] = disk[CrtFile] /\ disk'[KeyFile] = disk[KeyFile]
  BY DEF CAFiles
<1>2. OpenedCA'
  <2>1. SUFFICES ASSUME NEW q \in Procs, pc'[q] \in {"opened", "refused", "tls.crt", "tls.key", "up"}
                 PROVE  /\ ca'[q].crt = disk'[CrtFile] /\ ca'[q].key = disk'[KeyFile]
                        /\ disk'[CrtFile] # None /\ disk'[KeyFile] # None
    BY DEF OpenedCA, CrtFile, KeyFile
  <2>2. pc[q] \in {"opened", "refused", "tls.crt", "tls.key", "up"} /\ ca'[q] = ca[q]
    BY <2>1
  <2> QED BY <1>1, <2>2 DEF CAInv, OpenedCA
<1>3. CreatingCA'
  <2>1. SUFFICES ASSUME NEW q \in Procs, pc'[q] \in {"create.key", "create.crt"}
                 PROVE  /\ disk'[CrtFile] = None
                        /\ disk'[KeyFile] = IF pc'[q] = "create.key" THEN None ELSE ca'[q].key
                        /\ ca'[q].crt = ca'[q].key /\ ca'[q].crt # None
                        /\ \A o \in Procs : o # q => pc'[o] = "idle"
    BY DEF CreatingCA, CrtFile, KeyFile
  <2>2. pc'[q] = pc[q] /\ ca'[q] = ca[q]
    BY <2>1
  <2>3. \A o \in Procs : o # q => pc[o] = "idle"
    BY <2>1, <2>2 DEF CAInv, CreatingCA
  <2>4. \A o \in Procs : o # q => pc'[o] = "idle"
    BY <2>3
  <2> QED BY <1>1, <2>1, <2>2, <2>4 DEF CAInv, CreatingCA
<1> QED BY <1>2, <1>3 DEF CAInv

(* Steps that do not concern serve, or that end it.                        *)
LEMMA ServeKept ==
  ASSUME ServeInv, UNCHANGED <<cut, replaced>>,
         \/ pc'["serve"] = "idle"
         \/ /\ pc'["serve"] = pc["serve"] /\ ca'["serve"] = ca["serve"]
            /\ tls' = tls /\ shut' = shut
            /\ disk'["agents.json"] = "revoked" => disk["agents.json"] = "revoked"
  PROVE  ServeInv'
BY DEF ServeInv, NewPairOfCA, EndpointVerifies, RevocationKnown

-----------------------------------------------------------------------------
(* openBroker.                                                             *)
LEMMA OpeningInv ==
  ASSUME IInv, NEW p \in Procs, Opening(p)
  PROVE  ProcShapes' /\ CAInv' /\ ServeInv' /\ Effect
<1> USE BrokerStateAssumption
<1>0. /\ ProcShapes /\ CAInv /\ ServeInv /\ TokenIssued
      /\ pc[p] = "idle" /\ left = None /\ Beside
      /\ UNCHANGED <<disk, issued, faults>> /\ tls' = tls /\ shut' = shut
  BY DEF IInv, FilesInv, Opening, OpenOrCreate, Opened, Created
<1>1. Effect
  BY <1>0, NoEffect DEF ProcShapes
<1>2. DOMAIN ca = Procs
  BY <1>0 DEF ProcShapes
<1>3. ASSUME NEW crt, NEW key, ca' = [ca EXCEPT ![p] = [crt |-> crt, key |-> key]]
      PROVE  /\ ca' = [q \in Procs |-> [crt |-> ca'[q].crt, key |-> ca'[q].key]]
             /\ ca'[p].crt = crt /\ ca'[p].key = key
             /\ \A q \in Procs : q # p => ca'[q] = ca[q]
  <2>1. ca' = [q \in Procs |-> IF q = p THEN [crt |-> crt, key |-> key] ELSE ca[q]]
    BY <1>2, <1>3
  <2>2. \A q \in Procs : ca[q] = [crt |-> ca[q].crt, key |-> ca[q].key]
    BY <1>0 DEF ProcShapes
  <2>3. \A q \in Procs : ca'[q] = [crt |-> ca'[q].crt, key |-> ca'[q].key]
    BY <2>1, <2>2
  <2>4. ca' = [q \in Procs |-> ca'[q]]
    BY <2>1
  <2> QED BY <2>1, <2>3, <2>4
<1>4. ServeInv'
  <2>1. UNCHANGED <<cut, replaced>>
    BY <1>0 DEF Beside, restoreVars
  <2>2. CASE p = "serve"
    <3>1. pc'["serve"] \in {"opened", "create.key"}
      BY <1>0, <2>2, Goes DEF Opening, OpenOrCreate, Opened, Created, Steps
    <3> QED BY <3>1 DEF ServeInv, NewPairOfCA, EndpointVerifies, RevocationKnown
  <2>3. CASE p # "serve"
    <3>1. pc'["serve"] = pc["serve"] /\ ca'["serve"] = ca["serve"]
      BY <1>0, <1>2, <2>3 DEF Opening, OpenOrCreate, Opened, Created, Goto, Procs, ProcShapes
    <3> QED BY <1>0, <2>1, <3>1, ServeKept
  <2> QED BY <2>2, <2>3
<1>5. CASE disk["agent-ca.crt"] # None /\ disk["agent-ca.key"] # None /\ Opened(p)
  <2>1. /\ pc'[p] = "opened" /\ pc' \in [Procs -> Steps]
        /\ \A q \in Procs : q # p => pc'[q] = pc[q]
    BY <1>0, <1>5, Goes DEF Opened, Steps
  <2>2. ca' = [ca EXCEPT ![p] = [crt |-> disk[CrtFile], key |-> disk[KeyFile]]] /\ roots' = roots
    BY <1>5 DEF Opened, CrtFile, KeyFile
  <2>3. disk[CrtFile] # None /\ disk[KeyFile] # None
    BY <1>5 DEF CrtFile, KeyFile
  <2>4. ProcShapes'
    BY <1>0, <1>3, <2>1, <2>2 DEF ProcShapes
  <2>5. OpenedCA'
    BY <1>0, <1>3, <2>1, <2>2, <2>3 DEF OpenedCA, CAInv, CrtFile, KeyFile
  <2>6. CreatingCA'
    <3>1. \A q \in Procs : pc[q] \notin {"create.key", "create.crt"}
      BY <1>0, <2>3 DEF CAInv, CreatingCA
    <3>2. \A q \in Procs : pc'[q] \notin {"create.key", "create.crt"}
      BY <2>1, <3>1
    <3> QED BY <3>2 DEF CreatingCA
  <2> QED BY <1>1, <1>4, <2>4, <2>5, <2>6 DEF CAInv
<1>6. CASE disk["agent-ca.crt"] = None /\ disk["agent-ca.key"] = None /\ Created(p)
  <2>1. /\ pc'[p] = "create.key" /\ pc' \in [Procs -> Steps]
        /\ \A q \in Procs : q # p => pc'[q] = pc[q]
    BY <1>0, <1>6, Goes DEF Created, Steps
  <2>2. ca' = [ca EXCEPT ![p] = [crt |-> roots', key |-> roots']] /\ roots' = roots + 1
    BY <1>6 DEF Created
  <2>3. disk[CrtFile] = None /\ disk[KeyFile] = None
    BY <1>6 DEF CrtFile, KeyFile
  <2>4. ProcShapes'
    BY <1>0, <1>3, <2>1, <2>2 DEF ProcShapes
  <2>5. \A q \in Procs : q # p => pc[q] = "idle"
    <3>1. \A q \in Procs : q # p => pc[q] \in {"idle", "up"}
      BY <1>6 DEF Opening, OpenOrCreate, MayOpen, Whole
    <3>2. \A q \in Procs : pc[q] # "up"
      BY <1>0, <2>3 DEF CAInv, OpenedCA
    <3> QED BY <3>1, <3>2
  <2>6. \A q \in Procs : q # p => pc'[q] = "idle"
    BY <2>1, <2>5
  <2>7. roots' # None
    BY <1>0, <2>2 DEF ProcShapes
  <2>8. OpenedCA' /\ CreatingCA'
    BY <1>0, <1>3, <2>1, <2>2, <2>3, <2>6, <2>7 DEF OpenedCA, CreatingCA, CrtFile, KeyFile
  <2> QED BY <1>1, <1>4, <2>4, <2>8 DEF CAInv
<1> QED BY <1>5, <1>6 DEF Opening, OpenOrCreate

(* Create writes the key, then the certificate.                            *)
LEMMA CreatingInv ==
  ASSUME IInv, NEW p \in Procs, Creating(p), Beside
  PROVE  ProcShapes' /\ CAInv' /\ ServeInv' /\ Effect
<1> USE BrokerStateAssumption
<1>0. /\ ProcShapes /\ CAInv /\ ServeInv /\ TokenIssued
      /\ pc[p] \in {"create.key", "create.crt"} /\ Beside
      /\ ca' = ca /\ tls' = tls /\ shut' = shut /\ roots' = roots
      /\ issued' = issued /\ faults' = faults
  BY DEF IInv, FilesInv, Creating, CreateKey, CreateCertificate
<1>1. left = None
  BY <1>0 DEF IInv, RestoreInv, RestoreAlone
<1>2. /\ disk[CrtFile] = None
      /\ disk[KeyFile] = IF pc[p] = "create.key" THEN None ELSE ca[p].key
      /\ ca[p].crt = ca[p].key /\ ca[p].crt # None
      /\ \A q \in Procs : q # p => pc[q] = "idle"
  BY <1>0 DEF CAInv, CreatingCA
<1>4. CASE CreateKey(p)
  <2>1. /\ disk'[KeyFile] = ca[p].key /\ disk' = [g \in Files |-> disk'[g]]
        /\ \A g \in Files : g # KeyFile => disk'[g] = disk[g]
    BY <1>0, <1>4, Writes, FilesAre DEF CreateKey, ProcShapes, KeyFile
  <2>2. /\ pc'[p] = "create.crt" /\ pc' \in [Procs -> Steps]
        /\ \A q \in Procs : q # p => pc'[q] = "idle"
    BY <1>0, <1>2, <1>4, Goes DEF CreateKey, Steps
  <2>3. ProcShapes'
    BY <1>0, <2>1, <2>2 DEF ProcShapes
  <2>4. disk[KeyFile] = None /\ disk'[CrtFile] = None
    BY <1>2, <1>4, <2>1, FilesAre DEF CreateKey, CrtFile, KeyFile
  <2>5. OpenedCA' /\ CreatingCA'
    BY <1>0, <1>2, <2>1, <2>2, <2>4 DEF OpenedCA, CreatingCA, CrtFile, KeyFile
  <2>6. Effect
    <3>1. /\ \A f \in AccountFiles : disk'[f] = disk[f]
          /\ \A f \in CAFiles : disk[f] # None => disk'[f] = disk[f]
          /\ \A f \in PairFiles : disk'[f] = disk[f]
          /\ \A f \in {"agents.json", "pending", "redeemed"} : disk'[f] = disk[f]
          /\ disk'[KeyFile] # None
      BY <1>2, <2>1, <2>4, FilesAre DEF AccountFiles, CAFiles, PairFiles, CrtFile, KeyFile
    <3>2. issued => issued'
      BY <1>0
    <3>3. \A f \in {"pending", "redeemed"} : disk'[f] # None => issued'
      BY <1>0, <3>1, <3>2 DEF TokenIssued
    <3>4. faults' >= faults
      BY <1>0 DEF ProcShapes
    <3> QED BY <1>0, <1>1, <3>1, <3>2, <3>3, <3>4 DEF Effect
  <2>7. ServeInv'
    <3>1. pc'["serve"] \in {"create.crt", "idle"}
      BY <2>2 DEF Procs
    <3> QED BY <3>1 DEF ServeInv, NewPairOfCA, EndpointVerifies, RevocationKnown
  <2> QED BY <2>3, <2>5, <2>6, <2>7 DEF CAInv
<1>5. CASE CreateCertificate(p)
  <2>1. /\ disk'[CrtFile] = ca[p].crt /\ disk' = [g \in Files |-> disk'[g]]
        /\ \A g \in Files : g # CrtFile => disk'[g] = disk[g]
    BY <1>0, <1>5, Writes, FilesAre DEF CreateCertificate, ProcShapes, CrtFile
  <2>2. /\ pc'[p] = "opened" /\ pc' \in [Procs -> Steps]
        /\ \A q \in Procs : q # p => pc'[q] = "idle"
    BY <1>0, <1>2, <1>5, Goes DEF CreateCertificate, Steps
  <2>3. ProcShapes'
    BY <1>0, <2>1, <2>2 DEF ProcShapes
  <2>4. disk[KeyFile] = ca[p].key /\ disk'[KeyFile] = disk[KeyFile]
    BY <1>2, <1>5, <2>1, FilesAre DEF CreateCertificate, CrtFile, KeyFile
  <2>5. OpenedCA' /\ CreatingCA'
    BY <1>0, <1>2, <2>1, <2>2, <2>4 DEF OpenedCA, CreatingCA, CrtFile, KeyFile
  <2>6. Effect
    <3>1. /\ \A f \in AccountFiles : disk'[f] = disk[f]
          /\ \A f \in CAFiles : disk[f] # None => disk'[f] = disk[f]
          /\ \A f \in PairFiles : disk'[f] = disk[f]
          /\ \A f \in {"agents.json", "pending", "redeemed"} : disk'[f] = disk[f]
          /\ disk'[KeyFile] # None
      BY <1>2, <2>1, <2>4, FilesAre DEF AccountFiles, CAFiles, PairFiles, CrtFile, KeyFile
    <3>2. issued => issued'
      BY <1>0
    <3>3. \A f \in {"pending", "redeemed"} : disk'[f] # None => issued'
      BY <1>0, <3>1, <3>2 DEF TokenIssued
    <3>4. faults' >= faults
      BY <1>0 DEF ProcShapes
    <3> QED BY <1>0, <1>1, <3>1, <3>2, <3>3, <3>4 DEF Effect
  <2>7. ServeInv'
    <3>1. pc'["serve"] \in {"opened", "idle"}
      BY <2>2 DEF Procs
    <3> QED BY <3>1 DEF ServeInv, NewPairOfCA, EndpointVerifies, RevocationKnown
  <2> QED BY <2>3, <2>5, <2>6, <2>7 DEF CAInv
<1> QED BY <1>4, <1>5 DEF Creating

(* brokerServerCertificate: a stored pair is of the CA beside it, a new one *)
(* is signed by the CA in memory.                                          *)
LEMMA ServingInv ==
  ASSUME IInv, Serving
  PROVE  ProcShapes' /\ CAInv' /\ ServeInv' /\ Effect
<1> USE BrokerStateAssumption
<1>0. /\ ProcShapes /\ CAInv /\ ServeInv /\ TokenIssued /\ Beside
      /\ "serve" \in Procs /\ UNCHANGED <<cut, replaced>>
  BY DEF IInv, FilesInv, Serving, Beside, restoreVars, Procs
<1>1. CASE Creating("serve")
  BY <1>0, <1>1, CreatingInv
<1>2. ASSUME pc["serve"] \in {"opened", "refused", "tls.crt", "tls.key", "up"}
      PROVE  /\ left = None
             /\ disk[CrtFile] # None /\ disk[KeyFile] # None
             /\ ca["serve"].crt = disk[CrtFile] /\ ca["serve"].key = disk[KeyFile]
  BY <1>0, <1>2 DEF IInv, RestoreInv, RestoreAlone, CAInv, OpenedCA
<1>3. ASSUME pc["serve"] \in {"opened", "refused"}, Ends("serve"),
             UNCHANGED <<disk, roots, issued, faults>>
      PROVE  ProcShapes' /\ CAInv' /\ ServeInv' /\ Effect
  <2>1. Effect
    BY <1>0, <1>2, <1>3, NoEffect DEF ProcShapes
  <2>2. /\ pc'["serve"] = "idle" /\ pc' \in [Procs -> Steps]
        /\ \A q \in Procs : q # "serve" => pc'[q] = pc[q] /\ ca'[q] = ca[q]
        /\ ca' = [q \in Procs |-> [crt |-> ca'[q].crt, key |-> ca'[q].key]]
    BY <1>0, <1>3, Ended
  <2>3. ProcShapes'
    BY <1>0, <1>3, <2>2 DEF ProcShapes
  <2>4. CAInv'
    BY <1>0, <1>3, <2>2, CAKept
  <2> QED BY <1>0, <1>3, <2>1, <2>2, <2>3, <2>4, ServeKept
<1>4. CASE ServerCertificate(Pairs)
  <2>0. /\ pc["serve"] = "opened" /\ disk' = disk /\ roots' = roots
        /\ issued' = issued /\ faults' = faults
    BY <1>4 DEF ServerCertificate
  <2>1. Effect
    BY <1>0, <1>2, <2>0, NoEffect DEF ProcShapes
  <2>2. ASSUME NEW pair, UsePair(pair),
               pair = None \/ (Whole("broker.crt", "broker.key") /\ pair = disk["broker.crt"])
        PROVE  ProcShapes' /\ CAInv' /\ ServeInv' /\ Effect
    <3>1. /\ tls' = pair /\ Goto("serve", "up") /\ ca' = ca /\ LoadAgents
      BY <2>2 DEF UsePair
    <3>2. /\ pc'["serve"] = "up" /\ pc' \in [Procs -> Steps]
          /\ \A q \in Procs : q # "serve" => pc'[q] = pc[q]
      BY <1>0, <3>1, Goes DEF Steps
    <3>3. ProcShapes'
      BY <1>0, <2>0, <3>1, <3>2 DEF ProcShapes
    <3>4. CAInv'
      BY <1>0, <2>0, <3>1, <3>2, CAKept
    <3>5. EndpointVerifies'
      <4>1. SUFFICES ASSUME ~replaced, ~cut, tls' # None PROVE tls'.root = ca'["serve"].crt
        BY <1>0 DEF EndpointVerifies
      <4>2. Clean /\ left = None
        BY <1>2, <2>0, <4>1 DEF Clean
      <4>3. disk["broker.crt"] # None /\ pair = disk["broker.crt"]
        BY <2>2, <3>1, <4>1
      <4>4. disk["broker.crt"].root = disk[CrtFile]
        BY <4>2, <4>3 DEF IInv, FilesInv, PairOfCA, PairFiles
      <4> QED BY <1>2, <2>0, <3>1, <4>3, <4>4
    <3>6. RevocationKnown'
      BY <2>0, <3>1 DEF RevocationKnown, LoadAgents
    <3>7. NewPairOfCA'
      BY <3>2 DEF NewPairOfCA
    <3> QED BY <2>1, <3>3, <3>4, <3>5, <3>6, <3>7 DEF ServeInv
  <2>3. CASE SignServer(Pairs) /\ Signs("serve")
    <3>1. /\ tls' = NewPair(Pairs) /\ Goto("serve", "tls.crt") /\ ca' = ca /\ LoadAgents
      BY <2>3 DEF SignServer
    <3>2. /\ pc'["serve"] = "tls.crt" /\ pc' \in [Procs -> Steps]
          /\ \A q \in Procs : q # "serve" => pc'[q] = pc[q]
      BY <1>0, <3>1, Goes DEF Steps
    <3>3. ProcShapes'
      BY <1>0, <2>0, <3>1, <3>2 DEF ProcShapes
    <3>4. CAInv'
      BY <1>0, <2>0, <3>1, <3>2, CAKept
    <3>5. RevocationKnown'
      BY <2>0, <3>1 DEF RevocationKnown, LoadAgents
    <3>6. tls'.root = ca["serve"].crt
      BY <3>1 DEF NewPair
    <3>7. NewPairOfCA' /\ EndpointVerifies'
      BY <3>1, <3>2, <3>6 DEF NewPairOfCA, EndpointVerifies
    <3> QED BY <2>1, <3>3, <3>4, <3>5, <3>7 DEF ServeInv
  <2>4. CASE SignServer(Pairs) /\ ~Signs("serve")
    BY <1>3, <2>0, <2>4 DEF SignServer
  <2>5. CASE Refuse
    <3>1. Goto("serve", "refused") /\ ca' = ca
      BY <2>5 DEF Refuse
    <3>2. /\ pc'["serve"] = "refused" /\ pc' \in [Procs -> Steps]
          /\ \A q \in Procs : q # "serve" => pc'[q] = pc[q]
      BY <1>0, <3>1, Goes DEF Steps
    <3>3. ProcShapes'
      BY <1>0, <2>0, <3>1, <3>2 DEF ProcShapes
    <3>4. CAInv'
      BY <1>0, <2>0, <3>1, <3>2, CAKept
    <3>5. ServeInv'
      BY <3>2 DEF ServeInv, NewPairOfCA, EndpointVerifies, RevocationKnown
    <3> QED BY <2>1, <3>3, <3>4, <3>5
  <2> QED BY <1>4, <2>2, <2>3, <2>4, <2>5 DEF ServerCertificate
<1>5. ASSUME NEW f \in PairFiles, NEW where \in {"tls.key", "up"},
             pc["serve"] \in {"tls.crt", "tls.key"},
             Write(f, tls), Goto("serve", where),
             UNCHANGED <<ca, tls, shut, roots, issued, faults>>
      PROVE  ProcShapes' /\ CAInv' /\ ServeInv' /\ Effect
  <2>0. f \in Files /\ where \in Steps /\ f \notin {"agents.json", "pending", "redeemed"}
        /\ f \notin CAFiles /\ f \notin AccountFiles
    BY <1>5, FilesAre DEF PairFiles, Steps, CAFiles, CrtFile, KeyFile, AccountFiles
  <2>1. /\ disk'[f] = tls /\ disk' = [g \in Files |-> disk'[g]]
        /\ \A g \in Files : g # f => disk'[g] = disk[g]
    BY <1>0, <1>5, <2>0, Writes DEF ProcShapes
  <2>2. /\ pc'["serve"] = where /\ pc' \in [Procs -> Steps]
        /\ \A q \in Procs : q # "serve" => pc'[q] = pc[q]
    BY <1>0, <1>5, <2>0, Goes
  <2>3. /\ \A g \in CAFiles : disk'[g] = disk[g]
        /\ \A g \in AccountFiles : disk'[g] = disk[g]
        /\ \A g \in {"agents.json", "pending", "redeemed"} : disk'[g] = disk[g]
        /\ \A g \in PairFiles : g # f => disk'[g] = disk[g]
    BY <2>0, <2>1, FilesAre DEF CAFiles, CrtFile, KeyFile, AccountFiles, PairFiles
  <2>4. ProcShapes'
    BY <1>0, <1>5, <2>1, <2>2 DEF ProcShapes
  <2>5. CAInv'
    BY <1>0, <1>5, <2>2, <2>3, CAKept
  <2>6. tls.root = ca["serve"].crt
    BY <1>0, <1>5 DEF ServeInv, NewPairOfCA
  <2>7. ServeInv'
    BY <1>0, <1>5, <2>2, <2>3, <2>6
       DEF ServeInv, NewPairOfCA, EndpointVerifies, RevocationKnown
  <2>8. Effect
    <3>1. issued => issued'
      BY <1>5
    <3>2. \A g \in {"pending", "redeemed"} : disk'[g] # None => issued'
      BY <1>0, <2>3, <3>1 DEF TokenIssued
    <3>3. /\ disk'[f].root = disk[CrtFile] /\ disk[CrtFile] # None /\ disk[KeyFile] # None
          /\ left = None
      BY <1>2, <1>5, <2>1, <2>6
    <3>4. disk'[KeyFile] # None
      BY <2>3, <3>3 DEF CAFiles
    <3>5. faults' >= faults
      BY <1>0, <1>5 DEF ProcShapes
    <3> QED BY <1>0, <2>3, <3>1, <3>2, <3>3, <3>4, <3>5 DEF Effect
  <2> QED BY <2>4, <2>5, <2>7, <2>8
<1>6. CASE ServerCertificateCrt
  BY <1>5, <1>6 DEF ServerCertificateCrt, PairFiles
<1>7. CASE ServerCertificateKey
  BY <1>5, <1>7 DEF ServerCertificateKey, PairFiles
<1>8. CASE ServeExits
  BY <1>3, <1>8 DEF ServeExits
<1> QED BY <1>1, <1>4, <1>6, <1>7, <1>8 DEF Serving, Serve

(* handleEnrol spends the token and never writes over a revocation.        *)
LEMMA EnrolInv ==
  ASSUME IInv, Enrol, Beside
  PROVE  ProcShapes' /\ CAInv' /\ ServeInv' /\ Effect
<1> USE BrokerStateAssumption
<1>0. /\ ProcShapes /\ CAInv /\ ServeInv /\ TokenIssued
      /\ "serve" \in Procs /\ UNCHANGED <<cut, replaced>>
      /\ pc["serve"] = "up" /\ disk["pending"] # None
      /\ pc' = pc /\ ca' = ca /\ tls' = tls /\ shut' = shut
      /\ roots' = roots /\ issued' = issued /\ faults' = faults
  BY DEF IInv, FilesInv, Enrol, procVars, Beside, restoreVars, Procs
<1>1. left = None /\ disk[CrtFile] # None /\ disk[KeyFile] # None
  BY <1>0 DEF IInv, RestoreInv, RestoreAlone, CAInv, OpenedCA
<1>2. DOMAIN disk = Files
  BY <1>0 DEF ProcShapes
<1>3. /\ disk' = [g \in Files |->
                   IF g = "agents.json" /\ shut = "clear" /\ Signs("serve") THEN shut
                   ELSE IF g = "pending" THEN None
                   ELSE IF g = "redeemed" THEN disk["pending"] ELSE disk[g]]
  <2> DEFINE spent == [disk EXCEPT !["pending"] = None, !["redeemed"] = disk["pending"]]
  <2>1. spent = [g \in Files |-> IF g = "pending" THEN None
                                 ELSE IF g = "redeemed" THEN disk["pending"] ELSE disk[g]]
    BY <1>2, FilesAre
  <2>2. disk' = IF shut = "clear" /\ Signs("serve")
                  THEN [spent EXCEPT !["agents.json"] = shut] ELSE spent
    BY DEF Enrol
  <2>3. CASE shut = "clear" /\ Signs("serve")
    <3>1. disk' = [spent EXCEPT !["agents.json"] = shut]
      BY <2>2, <2>3
    <3> HIDE DEF spent
    <3>2. disk' = [g \in Files |-> IF g = "agents.json" THEN shut ELSE spent[g]]
      BY <2>1, <3>1
    <3> QED BY <2>1, <2>3, <3>2
  <2>4. CASE ~(shut = "clear" /\ Signs("serve"))
    <3>1. disk' = spent
      BY <2>2, <2>4
    <3> HIDE DEF spent
    <3> QED BY <2>1, <2>4, <3>1
  <2> QED BY <2>3, <2>4
<1>4. /\ \A f \in CAFiles \cup AccountFiles \cup PairFiles : disk'[f] = disk[f]
      /\ disk' = [g \in Files |-> disk'[g]]
      /\ disk'["pending"] = None /\ disk'["redeemed"] = disk["pending"]
      /\ disk'["agents.json"] \in {disk["agents.json"], "clear"}
      /\ shut # "clear" => disk'["agents.json"] = disk["agents.json"]
  BY <1>3, FilesAre DEF CAFiles, AccountFiles, PairFiles, CrtFile, KeyFile
<1>5. ProcShapes' /\ CAInv'
  <2>1. ProcShapes'
    BY <1>0, <1>4 DEF ProcShapes
  <2>2. CAInv'
    BY <1>0, <1>4, CAKept
  <2> QED BY <2>1, <2>2
<1>6. disk["agents.json"] = "revoked" => disk'["agents.json"] = "revoked"
  BY <1>0, <1>4 DEF ServeInv, RevocationKnown
<1>7. ServeInv'
  BY <1>0, <1>4, ServeKept
<1>8. issued /\ issued'
  BY <1>0 DEF TokenIssued
<1>9. faults' >= faults
  BY <1>0 DEF ProcShapes
<1>10. disk'[KeyFile] # None
  BY <1>1, <1>4 DEF CAFiles
<1>11. Effect
  BY <1>1, <1>4, <1>6, <1>8, <1>9, <1>10 DEF Effect
<1> QED BY <1>5, <1>7, <1>11

(* A process that only ends, or dies, leaves the files.                    *)
LEMMA EndingInv ==
  ASSUME IInv, NEW p \in Procs, pc[p] # "idle", Ends(p), Beside,
         UNCHANGED <<disk, roots, issued>>, faults' \in {faults, faults + 1}
  PROVE  ProcShapes' /\ CAInv' /\ ServeInv' /\ Effect
<1>0. /\ ProcShapes /\ CAInv /\ ServeInv /\ TokenIssued /\ UNCHANGED <<cut, replaced>>
  BY DEF IInv, FilesInv, Beside, restoreVars
<1>1. left = None
  BY DEF IInv, RestoreInv, RestoreAlone
<1>2. /\ pc'[p] = "idle" /\ pc' \in [Procs -> Steps]
      /\ \A q \in Procs : q # p => pc'[q] = pc[q] /\ ca'[q] = ca[q]
      /\ ca' = [q \in Procs |-> [crt |-> ca'[q].crt, key |-> ca'[q].key]]
      /\ p # "serve" => tls' = tls /\ shut' = shut
  BY <1>0, Ended
<1>3. faults' \in Nat /\ faults' >= faults
  BY <1>0 DEF ProcShapes
<1>4. ProcShapes'
  BY <1>0, <1>2, <1>3 DEF ProcShapes
<1>5. CAInv'
  BY <1>0, <1>2, CAKept
<1>6. ServeInv'
  <2>1. "serve" \in Procs
    BY DEF Procs
  <2> QED BY <1>0, <1>2, <2>1, ServeKept
<1>7. Effect
  BY <1>0, <1>1, <1>3, NoEffect
<1> QED BY <1>4, <1>5, <1>6, <1>7

(* token and revoke.                                                       *)
LEMMA CommandingInv ==
  ASSUME IInv, Commanding
  PROVE  ProcShapes' /\ CAInv' /\ ServeInv' /\ Effect
<1> USE BrokerStateAssumption
<1>0. /\ ProcShapes /\ CAInv /\ ServeInv /\ TokenIssued /\ Beside
      /\ "command" \in Procs /\ "serve" \in Procs /\ UNCHANGED <<cut, replaced>>
  BY DEF IInv, FilesInv, Commanding, Beside, restoreVars, Procs
<1>1. CASE Creating("command")
  BY <1>0, <1>1, CreatingInv
<1>2. CASE Look
  <2>1. /\ pc["command"] # "idle" /\ Ends("command") /\ faults' = faults
        /\ UNCHANGED <<disk, roots, issued>>
    BY <1>2 DEF Look
  <2> QED BY <1>0, <2>1, EndingInv
<1>3. ASSUME NEW f \in {"pending", "agents.json"}, NEW content, Write(f, content),
             pc["command"] = "opened", Ends("command"), roots' = roots, faults' = faults,
             f = "pending" => ~issued /\ issued',
             f = "agents.json" => content = "revoked" /\ issued' = issued /\ pc["serve"] = "idle",
             issued' \in BOOLEAN
      PROVE  ProcShapes' /\ CAInv' /\ ServeInv' /\ Effect
  <2>0. left = None /\ disk[CrtFile] # None /\ disk[KeyFile] # None
    BY <1>0, <1>3 DEF IInv, RestoreInv, RestoreAlone, CAInv, OpenedCA
  <2>1. f \in Files
    BY <1>3, FilesAre
  <2>2. /\ disk'[f] = content /\ disk' = [g \in Files |-> disk'[g]]
        /\ \A g \in Files : g # f => disk'[g] = disk[g]
    BY <1>0, <1>3, <2>1, Writes DEF ProcShapes
  <2>3. /\ \A g \in CAFiles \cup AccountFiles \cup PairFiles : disk'[g] = disk[g]
        /\ disk'["redeemed"] = disk["redeemed"]
        /\ f = "pending" => disk'["agents.json"] = disk["agents.json"]
        /\ f # "pending" => disk'["pending"] = disk["pending"]
    BY <1>3, <2>2, FilesAre DEF CAFiles, AccountFiles, PairFiles, CrtFile, KeyFile
  <2>4. /\ pc'["command"] = "idle" /\ pc' \in [Procs -> Steps]
        /\ \A q \in Procs : q # "command" => pc'[q] = pc[q] /\ ca'[q] = ca[q]
        /\ ca' = [q \in Procs |-> [crt |-> ca'[q].crt, key |-> ca'[q].key]]
        /\ tls' = tls /\ shut' = shut
    BY <1>0, <1>3, Ended
  <2>5. ProcShapes'
    BY <1>0, <1>3, <2>2, <2>4 DEF ProcShapes
  <2>6. CAInv'
    BY <1>0, <2>3, <2>4, CAKept
  <2>7. ServeInv'
    BY <1>0, <1>3, <2>3, <2>4, ServeKept
  <2>8. issued => issued'
    BY <1>3
  <2>9. /\ disk["agents.json"] = "revoked" => disk'["agents.json"] = "revoked"
        /\ issued => (disk["pending"] = None => disk'["pending"] = None)
    BY <1>3, <2>2, <2>3
  <2>10. \A g \in {"pending", "redeemed"} : disk'[g] # None => issued'
    <3>1. CASE f = "pending"
      BY <1>3, <3>1
    <3>2. CASE f # "pending"
      BY <1>0, <2>3, <2>8, <3>2 DEF TokenIssued
    <3> QED BY <3>1, <3>2
  <2>11. faults' >= faults
    BY <1>0, <1>3 DEF ProcShapes
  <2>12. disk'[KeyFile] # None
    BY <2>0, <2>3 DEF CAFiles
  <2>13. Effect
    BY <1>0, <2>0, <2>3, <2>8, <2>9, <2>10, <2>11, <2>12 DEF Effect
  <2> QED BY <2>5, <2>6, <2>7, <2>13
<1>4. CASE Token
  <2>1. /\ Write("pending", ca["command"].crt) /\ ~issued /\ issued' = TRUE
        /\ pc["command"] = "opened" /\ Ends("command") /\ roots' = roots /\ faults' = faults
    BY <1>4 DEF Token
  <2> QED BY <1>3, <2>1
<1>5. CASE Revoke
  <2>1. /\ Write("agents.json", "revoked") /\ issued' = issued /\ pc["serve"] = "idle"
        /\ pc["command"] = "opened" /\ Ends("command") /\ roots' = roots /\ faults' = faults
    BY <1>5 DEF Revoke
  <2>2. issued' \in BOOLEAN
    BY <1>0, <2>1 DEF ProcShapes
  <2> QED BY <1>3, <2>1, <2>2
<1> QED BY <1>1, <1>2, <1>4, <1>5 DEF Commanding, Command

-----------------------------------------------------------------------------
(* What such a step leaves of the promises: all of them.                   *)
LEMMA EffectInv ==
  ASSUME IInv, Effect, ProcShapes', CAInv', ServeInv'
  PROVE  IInv'
<1> USE BrokerStateAssumption
<1>0. /\ left = None /\ left' = left /\ archive' = archive /\ step' = step /\ dir' = dir
      /\ todo' = todo /\ got' = got /\ redact' = redact /\ promise' = promise
      /\ forced' = forced /\ due' = due /\ cut' = cut /\ replaced' = replaced
  BY DEF Effect, Beside, backupVars, restoreVars
<1>1. BackupShapes'
  BY <1>0 DEF IInv, BackupShapes
<1>2. RestoreInv'
  BY <1>0 DEF IInv, RestoreInv, RestoreAlone, ArchiveStays, Restoring, Restorable
<1>3. KeyFirst'
  BY <1>0 DEF IInv, FilesInv, KeyFirst, Effect, CrtFile, KeyFile, PairFiles
<1>4. /\ disk[CrtFile] # None => disk'[CrtFile] = disk[CrtFile]
      /\ disk[KeyFile] # None => disk'[KeyFile] = disk[KeyFile]
  BY DEF Effect, CAFiles
<1>5. PairOfCA'
  <2>1. SUFFICES ASSUME Clean, NEW f \in PairFiles, disk'[f] # None
                 PROVE  /\ disk'[f].root = disk'[CrtFile]
                        /\ disk'[CrtFile] # None /\ disk'[KeyFile] # None
    BY <1>0 DEF PairOfCA, Clean, NoEntries, CrtFile, KeyFile, PairFiles
  <2>2. disk[f] # None =>
          disk[f].root = disk[CrtFile] /\ disk[CrtFile] # None /\ disk[KeyFile] # None
    BY <1>0, <2>1 DEF IInv, FilesInv, PairOfCA
  <2>3. \/ disk'[f] = disk[f]
        \/ disk'[f].root = disk[CrtFile] /\ disk[CrtFile] # None /\ disk[KeyFile] # None
    BY DEF Effect
  <2> QED BY <1>4, <2>1, <2>2, <2>3
<1>6. issued => issued' /\ (disk["pending"] = None => disk'["pending"] = None)
  BY DEF Effect
<1>7. TokenIssued'
  <2>1. SUFFICES ASSUME NEW f \in {"pending", "redeemed"},
                        disk'[f] # None \/ got[f] # None \/ archive.entries[f] # None
                 PROVE  issued'
    BY <1>0 DEF TokenIssued
  <2>2. disk'[f] # None => issued'
    BY DEF Effect
  <2>3. got[f] # None \/ archive.entries[f] # None => issued
    BY DEF IInv, FilesInv, TokenIssued
  <2> QED BY <1>6, <2>1, <2>2, <2>3
<1>8. ArchiveHolds'
  <2>1. SUFFICES ASSUME Restorable
                 PROVE  /\ archive.file = "part" => faults' > 0
                        /\ archive.file = "whole" =>
                             /\ Holds(archive.entries, archive.promise)
                             /\ archive.promise.spent => issued' /\ disk'["pending"] = None
                             /\ \A b \in PairFiles : archive.entries[b] # None =>
                                  /\ archive.entries[b].root = archive.entries[CrtFile]
                                  /\ archive.entries[CrtFile] # None
                                  /\ archive.entries[KeyFile] # None
    BY <1>0 DEF ArchiveHolds, Restorable, Holds, CrtFile, KeyFile, PairFiles
  <2>2. archive.file = "part" => faults' > 0
    <3>1. archive.file = "part" => faults > 0
      BY <2>1 DEF IInv, BackupInv, ArchiveHolds
    <3>2. faults \in Nat /\ faults' \in Nat /\ faults' >= faults
      BY DEF IInv, ProcShapes, Effect
    <3> QED BY <3>1, <3>2
  <2> QED BY <1>6, <2>1, <2>2 DEF IInv, BackupInv, ArchiveHolds
<1>9. DueHeld'
  <2>1. Holds(disk, due)
    BY DEF IInv, FilesInv, DueHeld
  <2>2. due.spent => issued
    <3>1. due # NoPromise => archive.file = "whole" /\ due = archive.promise /\ Restorable
      BY DEF IInv, RestoreInv, ArchiveStays
    <3>2. CASE due = NoPromise
      BY <3>2 DEF NoPromise
    <3>3. CASE due # NoPromise
      BY <3>1, <3>3 DEF IInv, BackupInv, ArchiveHolds
    <3> QED BY <3>2, <3>3
  <2>3. /\ \A f \in AccountFiles : disk'[f] = disk[f]
        /\ disk["agents.json"] = "revoked" => disk'["agents.json"] = "revoked"
    BY DEF Effect
  <2>4. Holds(disk', due)
    BY <1>4, <1>6, <2>1, <2>2, <2>3 DEF Holds, AccountFiles, CrtFile, KeyFile
  <2> QED BY <1>0, <2>4 DEF DueHeld, Holds
<1>10. Collecting'
  <2>1. SUFFICES ASSUME step # "idle"
                 PROVE  /\ IF dir = 0 THEN todo = {} ELSE todo \subseteq Walk[dir]
                        /\ step = "write" => dir = 0
                        /\ promise.root # None => \A f \in CAFiles : disk'[f] = promise.root
                        /\ promise.account # None =>
                             \A f \in AccountFiles : disk'[f] = promise.account
                        /\ promise.revoked => disk'["agents.json"] = "revoked"
                        /\ promise.spent => issued' /\ disk'["pending"] = None
    BY <1>0 DEF Collecting, CAFiles, AccountFiles, CrtFile, KeyFile
  <2>2. Collecting
    BY DEF IInv, BackupInv
  <2> QED BY <1>6, <2>1, <2>2 DEF Collecting, Effect
<1>11. Collected'
  <2>1. SUFFICES ASSUME step # "idle", ~redact, NEW b \in PairFiles, got[b] # None
                 PROVE  /\ got[b].root = disk'[CrtFile]
                        /\ disk'[CrtFile] # None /\ disk'[KeyFile] # None
                        /\ \A f \in CAFiles : Ahead(f) \/ got[f] = disk'[f]
    <3>1. Collected
      BY DEF IInv, BackupInv
    <3>2. \A f : Ahead(f)' <=> Ahead(f)
      BY <1>0 DEF Ahead
    <3> QED BY <1>0, <3>1, <3>2 DEF Collected, CAFiles, AccountFiles, CrtFile, KeyFile, PairFiles
  <2>2. /\ got[b].root = disk[CrtFile] /\ disk[CrtFile] # None /\ disk[KeyFile] # None
        /\ \A f \in CAFiles : Ahead(f) \/ got[f] = disk[f]
    BY <2>1 DEF IInv, BackupInv, Collected
  <2> QED BY <1>4, <2>2 DEF CAFiles
<1>12. BackupRests'
  BY <1>0 DEF IInv, BackupInv, BackupRests
<1> QED BY <1>1, <1>2, <1>3, <1>5, <1>7, <1>8, <1>9, <1>10, <1>11, <1>12
        DEF IInv, FilesInv, BackupInv

-----------------------------------------------------------------------------
(* Steps of a backup change no file, and find no trace of a restore.       *)
LEMMA BackupStepInv ==
  ASSUME IInv, UNCHANGED <<disk, procVars, roots, issued, restoreVars>>,
         faults' \in {faults, faults + 1}, left = None,
         archive.file \in {"none", "no manifest"},
         step' # "idle" => archive'.file = "no manifest",
         archive'.file \in {"none", "no manifest"} => archive'.entries = Empty,
         BackupShapes', TokenIssued', BackupInv'
  PROVE  IInv'
<1> USE BrokerStateAssumption
<1>0. /\ disk' = disk /\ pc' = pc /\ ca' = ca /\ tls' = tls /\ shut' = shut
      /\ left' = None /\ forced' = forced /\ due' = due /\ cut' = cut /\ replaced' = replaced
      /\ roots' = roots /\ issued' = issued
  BY DEF procVars, restoreVars
<1>1. archive.entries = Empty /\ ~cut /\ ~replaced /\ due = NoPromise
  BY DEF IInv, RestoreInv, ArchiveStays, Restorable
<1>2. ProcShapes'
  <2>1. faults' \in Nat
    <3>1. faults \in Nat
      BY DEF IInv, ProcShapes
    <3> QED BY <3>1, Counts
  <2>2. issued' \in BOOLEAN
    BY <1>0 DEF IInv, ProcShapes
  <2>3. /\ disk' = [f \in Files |-> disk'[f]] /\ pc' \in [Procs -> Steps] /\ roots' \in Nat
        /\ ca' = [p \in Procs |-> [crt |-> ca'[p].crt, key |-> ca'[p].key]]
    BY <1>0 DEF IInv, ProcShapes
  <2> QED BY <2>1, <2>2, <2>3 DEF ProcShapes
<1>3. CAInv'
  BY <1>0 DEF IInv, CAInv, OpenedCA, CreatingCA
<1>4. ServeInv'
  BY <1>0 DEF IInv, ServeInv, NewPairOfCA, EndpointVerifies, RevocationKnown
<1>5. RestoreInv'
  <2>1. ~cut' /\ ~replaced'
    BY <1>0, <1>1
  <2>2. RestoreAlone' /\ Restoring'
    BY <1>0 DEF RestoreAlone, Restoring
  <2>3. ArchiveStays'
    BY <1>0, <1>1, <2>1 DEF ArchiveStays, NoPromise
  <2> QED BY <2>2, <2>3 DEF RestoreInv
<1>6. KeyFirst'
  <2>1. \A f \in {CrtFile} \cup PairFiles : Empty[f] = None
    BY FilesAre DEF Empty, CrtFile, PairFiles
  <2>2. disk[KeyFile] = None => \A f \in {CrtFile} \cup PairFiles : disk[f] = None
    BY <1>1, <2>1 DEF IInv, FilesInv, KeyFirst
  <2> QED BY <1>0, <2>2 DEF KeyFirst, CrtFile, KeyFile, PairFiles
<1>7. PairOfCA'
  <2>1. Clean /\ left = None
    BY <1>1 DEF Clean
  <2>2. \A f \in PairFiles : disk[f] # None =>
          disk[f].root = disk[CrtFile] /\ disk[CrtFile] # None /\ disk[KeyFile] # None
    BY <2>1 DEF IInv, FilesInv, PairOfCA
  <2> QED BY <1>0, <2>2 DEF PairOfCA, CrtFile, KeyFile, PairFiles
<1>8. DueHeld'
  BY <1>0 DEF IInv, FilesInv, DueHeld, Holds
<1> QED BY <1>2, <1>3, <1>4, <1>5, <1>6, <1>7, <1>8 DEF IInv, FilesInv

LEMMA Walks ==
  /\ Len(Walk) = 5
  /\ Walk[1] = AccountFiles /\ Walk[2] = {"agents.json", "broker.crt", "broker.key"}
  /\ Walk[3] = CAFiles /\ Walk[4] = {"pending"} /\ Walk[5] = {"redeemed"}
  /\ \A d \in 1..5 : Walk[d] \subseteq Files
<1>1. /\ Len(Walk) = 5
      /\ Walk[1] = AccountFiles /\ Walk[2] = {"agents.json", "broker.crt", "broker.key"}
      /\ Walk[3] = CAFiles /\ Walk[4] = {"pending"} /\ Walk[5] = {"redeemed"}
  BY DEF Walk, AccountFiles, CAFiles, CrtFile, KeyFile
<1>2. \A d \in 1..5 : d \in {1, 2, 3, 4, 5}
  OBVIOUS
<1>3. \A d \in {1, 2, 3, 4, 5} : Walk[d] \subseteq Files
  BY <1>1, FilesAre DEF AccountFiles, CAFiles, CrtFile, KeyFile
<1> QED BY <1>1, <1>2, <1>3

LEMMA BackupStartInv ==
  ASSUME IInv, NEW r \in BOOLEAN, BackupStart(r)
  PROVE  IInv'
<1> USE BrokerStateAssumption
<1>0. /\ step = "idle" /\ archive.file = "none" /\ left = None
      /\ archive' = [NoArchive EXCEPT !.file = "no manifest"]
      /\ step' = "read" /\ redact' = r /\ promise' = InPlace
      /\ dir' = dir /\ todo' = todo /\ got' = got
      /\ UNCHANGED <<disk, procVars, roots, issued, faults, restoreVars>>
  BY DEF BackupStart, stateVars
<1>1. dir = 0 /\ todo = {} /\ got = Empty
  BY <1>0 DEF IInv, BackupInv, BackupRests
<1>2. /\ archive'.file = "no manifest" /\ archive'.entries = Empty
  BY <1>0 DEF NoArchive
<1>3. BackupShapes'
  BY <1>0, <1>2 DEF IInv, BackupShapes, restoreVars
<1>4. TokenIssued'
  <2>1. \A f \in {"pending", "redeemed"} : got[f] = None /\ Empty[f] = None
    BY <1>1, FilesAre DEF Empty
  <2>2. \A f \in {"pending", "redeemed"} : disk[f] # None => issued
    BY DEF IInv, FilesInv, TokenIssued
  <2> QED BY <1>0, <1>2, <2>1, <2>2 DEF TokenIssued
<1>5. \A f \in Files : Ahead(f)'
  <2>1. \A f \in Files : \E d \in 1..5 : d > 0 /\ f \in Walk[d]
    <3>1. \A f \in Files : \E d \in {1, 2, 3, 4, 5} : f \in Walk[d]
      BY Walks, FilesAre DEF AccountFiles, CAFiles, CrtFile, KeyFile
    <3> QED BY <3>1
  <2> QED BY <1>0, <1>1, <2>1 DEF Ahead
<1>6. Collecting'
  <2>1. InPlace.root # None => \A f \in CAFiles : disk[f] = InPlace.root
    BY DEF InPlace, Whole, CAFiles, CrtFile, KeyFile
  <2>2. InPlace.account # None => \A f \in AccountFiles : disk[f] = InPlace.account
    BY DEF InPlace, Whole, AccountFiles
  <2>3. InPlace.revoked => disk["agents.json"] = "revoked"
    BY DEF InPlace
  <2>4. InPlace.spent => issued /\ disk["pending"] = None
    BY DEF InPlace, IInv, FilesInv, TokenIssued
  <2> QED BY <1>0, <1>1, <2>1, <2>2, <2>3, <2>4
          DEF Collecting, CAFiles, AccountFiles, CrtFile, KeyFile
<1>7. Collected'
  <2>1. \A f \in CAFiles \cup AccountFiles \cup {"agents.json"} : f \in Files
    BY FilesAre DEF CAFiles, AccountFiles, CrtFile, KeyFile
  <2>2. \A f \in PairFiles \cup {"pending"} : got[f] = None
    BY <1>1, FilesAre DEF Empty, PairFiles
  <2> QED BY <1>0, <1>5, <2>1, <2>2 DEF Collected, CAFiles, AccountFiles, CrtFile, KeyFile, PairFiles
<1>8. BackupRests' /\ ArchiveHolds'
  BY <1>0, <1>2 DEF BackupRests, ArchiveHolds, Restorable
<1> QED BY <1>0, <1>2, <1>3, <1>4, <1>6, <1>7, <1>8, BackupStepInv DEF BackupInv

(* A backup that runs has found no restorable archive, so nothing was      *)
(* restored before it.                                                     *)
LEMMA DuringBackup ==
  ASSUME IInv, step # "idle"
  PROVE  /\ archive.file = "no manifest" /\ archive.entries = Empty
         /\ left = None /\ ~cut /\ ~replaced
         /\ \A f \in PairFiles : disk[f] # None =>
              disk[f].root = disk[CrtFile] /\ disk[CrtFile] # None /\ disk[KeyFile] # None
<1>1. archive.file = "no manifest" /\ archive.entries = Empty
  BY DEF IInv, RestoreInv, ArchiveStays
<1>2. left = None /\ ~cut /\ ~replaced
  BY <1>1 DEF IInv, RestoreInv, ArchiveStays, Restorable
<1> QED BY <1>1, <1>2 DEF IInv, FilesInv, PairOfCA, Clean

LEMMA BackupReadInv == ASSUME IInv, BackupRead PROVE IInv'
<1> USE BrokerStateAssumption
<1>0. PICK f \in todo :
        /\ step = "read" /\ disk[f] # None /\ todo' = todo \ {f}
        /\ got' = [got EXCEPT ![f] = IF redact /\ f \in Secrets THEN Redacted ELSE disk[f]]
  BY DEF BackupRead
<1>1. /\ UNCHANGED <<disk, procVars, roots, issued, faults, restoreVars>>
      /\ archive' = archive /\ step' = step /\ dir' = dir /\ redact' = redact
      /\ promise' = promise
  BY DEF BackupRead, stateVars
<1>2. dir \in 1..5 /\ f \in Walk[dir] /\ f \in Files
  <2>1. dir \in 0..5 /\ IF dir = 0 THEN todo = {} ELSE todo \subseteq Walk[dir]
    BY <1>0 DEF IInv, BackupShapes, BackupInv, Collecting
  <2>2. dir # 0
    BY <1>0, <2>1
  <2>3. dir \in 1..5
    BY <2>1, <2>2
  <2> QED BY <2>1, <2>2, <2>3, Walks
<1>3. /\ got' = [g \in Files |-> got'[g]]
      /\ \A g \in Files : g # f => got'[g] = got[g]
      /\ ~redact => got'[f] = disk[f]
  <2>1. got = [g \in Files |-> got[g]]
    BY DEF IInv, BackupShapes
  <2>2. got' = [g \in Files |-> IF g = f
                                  THEN IF redact /\ f \in Secrets THEN Redacted ELSE disk[f]
                                  ELSE got[g]]
    BY <1>0, <2>1
  <2>3. /\ got' = [g \in Files |-> got'[g]]
        /\ \A g \in Files : g # f => got'[g] = got[g]
    BY <2>2
  <2>4. ASSUME ~redact PROVE got'[f] = disk[f]
    BY <1>2, <2>2, <2>4
  <2> QED BY <2>3, <2>4
<1>4. BackupShapes'
  BY <1>1, <1>3 DEF IInv, BackupShapes, restoreVars
<1>5. TokenIssued'
  <2>1. f \notin Secrets \/ f \notin {"pending", "redeemed"}
    BY DEF Secrets
  <2>2. ASSUME NEW g \in {"pending", "redeemed"}, got'[g] # None PROVE issued
    <3>1. CASE g = f
      BY <1>0, <3>1 DEF IInv, FilesInv, TokenIssued
    <3>2. CASE g # f
      BY <1>3, <2>2, <3>2, FilesAre DEF IInv, FilesInv, TokenIssued
    <3> QED BY <3>1, <3>2
  <2>3. \A g \in {"pending", "redeemed"} :
          disk[g] # None \/ archive.entries[g] # None => issued
    BY DEF IInv, FilesInv, TokenIssued
  <2> QED BY <1>1, <2>2, <2>3 DEF TokenIssued
<1>6. \A g : Ahead(g) /\ g # f => Ahead(g)'
  BY <1>0, <1>1 DEF Ahead
<1>7. Collecting'
  BY <1>0, <1>1 DEF IInv, BackupInv, Collecting, CAFiles, AccountFiles, CrtFile, KeyFile
<1>8. Collected'
  <2>1. SUFFICES ASSUME ~redact
                 PROVE  /\ promise.root # None =>
                             \A g \in CAFiles : Ahead(g)' \/ got'[g] = promise.root
                        /\ promise.account # None =>
                             \A g \in AccountFiles : Ahead(g)' \/ got'[g] = promise.account
                        /\ promise.revoked =>
                             Ahead("agents.json")' \/ got'["agents.json"] = "revoked"
                        /\ promise.spent => got'["pending"] = None
                        /\ \A b \in PairFiles : got'[b] # None =>
                             /\ got'[b].root = disk[CrtFile]
                             /\ disk[CrtFile] # None /\ disk[KeyFile] # None
                             /\ \A g \in CAFiles : Ahead(g)' \/ got'[g] = disk[g]
    BY <1>1 DEF Collected, CAFiles, AccountFiles, CrtFile, KeyFile, PairFiles
  <2>2. /\ CAFiles \subseteq Files /\ AccountFiles \subseteq Files /\ PairFiles \subseteq Files
        /\ "agents.json" \in Files /\ "pending" \in Files
    BY FilesAre DEF CAFiles, AccountFiles, CrtFile, KeyFile, PairFiles
  <2>3. Collecting /\ Collected /\ got'[f] = disk[f]
    BY <1>3, <2>1 DEF IInv, BackupInv
  <2>4. ASSUME NEW g \in Files, NEW was, disk[g] = was, Ahead(g) \/ got[g] = was
        PROVE  Ahead(g)' \/ got'[g] = was
    BY <1>3, <1>6, <2>3, <2>4
  <2>5. promise.root # None => \A g \in CAFiles : Ahead(g)' \/ got'[g] = promise.root
    BY <1>0, <2>1, <2>2, <2>3, <2>4 DEF Collecting, Collected
  <2>6. promise.account # None =>
          \A g \in AccountFiles : Ahead(g)' \/ got'[g] = promise.account
    BY <1>0, <2>1, <2>2, <2>3, <2>4 DEF Collecting, Collected
  <2>7. promise.revoked => Ahead("agents.json")' \/ got'["agents.json"] = "revoked"
    BY <1>0, <2>1, <2>2, <2>3, <2>4 DEF Collecting, Collected
  <2>8. promise.spent => got'["pending"] = None
    BY <1>0, <1>3, <2>1, <2>2, <2>3 DEF Collecting, Collected
  <2>9. ASSUME NEW b \in PairFiles, got'[b] # None
        PROVE  /\ got'[b].root = disk[CrtFile]
               /\ disk[CrtFile] # None /\ disk[KeyFile] # None
               /\ \A g \in CAFiles : Ahead(g)' \/ got'[g] = disk[g]
    <3>1. CASE b = f
      <4>1. dir = 2
        <5>1. dir \in {1, 2, 3, 4, 5}
          BY <1>2
        <5> QED BY <1>2, <3>1, <5>1, Walks
                DEF PairFiles, AccountFiles, CAFiles, CrtFile, KeyFile
      <4>2. \A g \in CAFiles : Ahead(g)'
        <5>1. 3 \in 1..5 /\ 3 > dir
          BY <4>1
        <5> QED BY <1>0, <1>1, <5>1, Walks DEF Ahead
      <4>3. disk[b] # None
        BY <1>0, <3>1
      <4> QED BY <1>0, <2>3, <3>1, <4>2, <4>3, DuringBackup
    <3>2. CASE b # f
      <4>1. got'[b] = got[b]
        BY <1>3, <2>2, <3>2
      <4>2. /\ got[b].root = disk[CrtFile] /\ disk[CrtFile] # None /\ disk[KeyFile] # None
            /\ \A g \in CAFiles : Ahead(g) \/ got[g] = disk[g]
        BY <1>0, <2>1, <2>3, <2>9, <4>1 DEF Collected
      <4> QED BY <2>2, <2>4, <4>1, <4>2
    <3> QED BY <3>1, <3>2
  <2> QED BY <2>5, <2>6, <2>7, <2>8, <2>9
<1>9. BackupRests' /\ ArchiveHolds'
  BY <1>0, <1>1, DuringBackup DEF BackupRests, ArchiveHolds, Restorable
<1> QED BY <1>0, <1>1, <1>4, <1>5, <1>7, <1>8, <1>9, BackupStepInv, DuringBackup
        DEF BackupInv

LEMMA BackupNextDirInv == ASSUME IInv, BackupNextDir PROVE IInv'
<1> USE BrokerStateAssumption
<1>0. /\ step = "read" /\ todo = {}
      /\ UNCHANGED <<disk, procVars, roots, issued, faults, restoreVars>>
      /\ archive' = archive /\ got' = got /\ redact' = redact /\ promise' = promise
  BY DEF BackupNextDir, stateVars
<1>1. dir \in 0..5
  BY DEF IInv, BackupShapes
<1>2. \/ /\ dir + 1 \in 1..5 /\ dir' = dir + 1 /\ step' = step
         /\ todo' = {f \in Walk[dir + 1] : disk[f] # None}
      \/ dir = 5 /\ dir' = 0 /\ step' = "write" /\ todo' = todo
  BY <1>1, Walks DEF BackupNextDir
<1>3. BackupShapes'
  <2>1. step' \in {"idle", "read", "write"} /\ dir' \in 0..5
    BY <1>0, <1>2
  <2> QED BY <1>0, <2>1 DEF IInv, BackupShapes, restoreVars
<1>4. TokenIssued'
  BY <1>0 DEF IInv, FilesInv, TokenIssued
<1>5. \A f \in Files : Ahead(f) /\ disk[f] # None => Ahead(f)'
  <2>1. SUFFICES ASSUME NEW f \in Files, Ahead(f), disk[f] # None PROVE Ahead(f)'
    OBVIOUS
  <2>2. PICK d \in 1..5 : d > dir /\ f \in Walk[d]
    BY <1>0, <2>1 DEF Ahead
  <2>3. dir + 1 \in 1..5 /\ dir' = dir + 1 /\ step' = "read"
        /\ todo' = {g \in Walk[dir + 1] : disk[g] # None}
    BY <1>0, <1>1, <1>2, <2>2
  <2>4. CASE d = dir + 1
    BY <2>1, <2>2, <2>3, <2>4 DEF Ahead
  <2>5. CASE d # dir + 1
    <3>1. d > dir'
      BY <1>1, <2>2, <2>3, <2>5
    <3> QED BY <2>2, <2>3, <3>1 DEF Ahead
  <2> QED BY <2>4, <2>5
<1>6. Collecting'
  <2>1. /\ IF dir' = 0 THEN todo' = {} ELSE todo' \subseteq Walk[dir']
        /\ step' = "write" => dir' = 0
    BY <1>0, <1>1, <1>2
  <2>2. Collecting
    BY DEF IInv, BackupInv
  <2> QED BY <1>0, <2>1, <2>2 DEF Collecting, CAFiles, AccountFiles, CrtFile, KeyFile
<1>7. Collected'
  <2>1. Collecting /\ Collected
    BY DEF IInv, BackupInv
  <2>2. /\ CAFiles \subseteq Files /\ AccountFiles \subseteq Files /\ PairFiles \subseteq Files
        /\ "agents.json" \in Files
    BY FilesAre DEF CAFiles, AccountFiles, CrtFile, KeyFile, PairFiles
  <2>3. SUFFICES ASSUME ~redact
                 PROVE  /\ promise.root # None =>
                             \A g \in CAFiles : Ahead(g)' \/ got[g] = promise.root
                        /\ promise.account # None =>
                             \A g \in AccountFiles : Ahead(g)' \/ got[g] = promise.account
                        /\ promise.revoked =>
                             Ahead("agents.json")' \/ got["agents.json"] = "revoked"
                        /\ \A b \in PairFiles : got[b] # None =>
                             \A g \in CAFiles : Ahead(g)' \/ got[g] = disk[g]
    BY <1>0, <2>1 DEF Collected, CAFiles, AccountFiles, CrtFile, KeyFile, PairFiles
  <2>4. promise.root # None => \A g \in CAFiles : Ahead(g)' \/ got[g] = promise.root
    BY <1>0, <1>5, <2>1, <2>2, <2>3 DEF Collecting, Collected
  <2>5. promise.account # None =>
          \A g \in AccountFiles : Ahead(g)' \/ got[g] = promise.account
    BY <1>0, <1>5, <2>1, <2>2, <2>3 DEF Collecting, Collected
  <2>6. promise.revoked => Ahead("agents.json")' \/ got["agents.json"] = "revoked"
    BY <1>0, <1>5, <2>1, <2>2, <2>3 DEF Collecting, Collected
  <2>7. ASSUME NEW b \in PairFiles, got[b] # None, NEW g \in CAFiles
        PROVE  Ahead(g)' \/ got[g] = disk[g]
    <3>1. disk[g] # None /\ (Ahead(g) \/ got[g] = disk[g])
      BY <1>0, <2>1, <2>3, <2>7 DEF Collected, CAFiles
    <3> QED BY <1>5, <2>2, <3>1
  <2> QED BY <2>4, <2>5, <2>6, <2>7
<1>8. BackupRests' /\ ArchiveHolds'
  <2>1. step' # "idle"
    BY <1>0, <1>2
  <2> QED BY <1>0, <2>1, DuringBackup DEF BackupRests, ArchiveHolds, Restorable
<1> QED BY <1>0, <1>3, <1>4, <1>6, <1>7, <1>8, BackupStepInv, DuringBackup DEF BackupInv

(* The end of a backup, whatever becomes of the archive.                   *)
LEMMA EndBackupInv ==
  ASSUME IInv, step # "idle", EndBackup,
         UNCHANGED <<disk, procVars, roots, issued, restoreVars>>,
         faults' \in {faults, faults + 1},
         archive'.file \in {"none", "no manifest", "part", "whole"},
         archive'.file \in {"none", "no manifest"} => archive'.entries = Empty,
         \A f \in {"pending", "redeemed"} : archive'.entries[f] \in {None, got[f]},
         ArchiveHolds'
  PROVE  IInv'
<1> USE BrokerStateAssumption
<1>0. step' = "idle" /\ dir' = 0 /\ todo' = {} /\ got' = Empty /\ redact' = FALSE
  BY DEF EndBackup
<1>1. BackupShapes'
  <2>1. got' = [f \in Files |-> got'[f]]
    BY <1>0 DEF Empty
  <2>2. dir' \in 0..5
    BY <1>0, Counts
  <2> QED BY <1>0, <2>1, <2>2 DEF IInv, BackupShapes, restoreVars
<1>2. TokenIssued'
  <2>1. \A f \in {"pending", "redeemed"} : got'[f] = None
    BY <1>0, FilesAre DEF Empty
  <2>2. \A f \in {"pending", "redeemed"} : disk[f] # None \/ got[f] # None => issued
    BY DEF IInv, FilesInv, TokenIssued
  <2> QED BY <2>1, <2>2 DEF TokenIssued
<1>3. BackupRests' /\ Collecting' /\ Collected'
  BY <1>0 DEF BackupRests, Collecting, Collected
<1> QED BY <1>0, <1>1, <1>2, <1>3, BackupStepInv, DuringBackup DEF BackupInv

LEMMA BackupWriteInv == ASSUME IInv, BackupWrite PROVE IInv'
<1> USE BrokerStateAssumption
<1>0. /\ step = "write" /\ EndBackup
      /\ UNCHANGED <<disk, procVars, roots, issued, faults, restoreVars>>
      /\ archive' = [file |-> "whole", restorable |-> ~redact, entries |-> got,
                     promise |-> promise]
  BY DEF BackupWrite, stateVars
<1>1. /\ archive'.file = "whole" /\ archive'.entries = got /\ archive'.promise = promise
      /\ archive'.restorable = ~redact
  BY <1>0
<1>2. ArchiveHolds'
  <2>1. SUFFICES ASSUME ~redact
                 PROVE  /\ Holds(got, promise)
                        /\ promise.spent => issued /\ disk["pending"] = None
                        /\ \A b \in PairFiles : got[b] # None =>
                             /\ got[b].root = got[CrtFile]
                             /\ got[CrtFile] # None /\ got[KeyFile] # None
    BY <1>0, <1>1 DEF ArchiveHolds, Restorable, Holds, PairFiles, CrtFile, KeyFile
  <2>2. Collecting /\ Collected
    BY DEF IInv, BackupInv
  <2>3. \A f : ~Ahead(f)
    BY <1>0 DEF Ahead
  <2>4. Holds(got, promise)
    BY <1>0, <2>1, <2>2, <2>3 DEF Holds, Collected, CAFiles, CrtFile, KeyFile, AccountFiles
  <2>5. promise.spent => issued /\ disk["pending"] = None
    BY <1>0, <2>2 DEF Collecting
  <2>6. ASSUME NEW b \in PairFiles, got[b] # None
        PROVE  got[b].root = got[CrtFile] /\ got[CrtFile] # None /\ got[KeyFile] # None
    BY <1>0, <2>1, <2>2, <2>3, <2>6 DEF Collected, CAFiles
  <2> QED BY <2>4, <2>5, <2>6
<1> QED BY <1>0, <1>1, <1>2, EndBackupInv

LEMMA BackupFailsInv == ASSUME IInv, BackupFails PROVE IInv'
<1>0. /\ step # "idle" /\ EndBackup
      /\ UNCHANGED <<disk, procVars, roots, issued, faults, restoreVars>>
      /\ archive' = NoArchive
  BY DEF BackupFails, stateVars
<1>1. /\ archive'.file = "none" /\ archive'.entries = Empty
  BY <1>0 DEF NoArchive
<1>2. \A f \in {"pending", "redeemed"} : archive'.entries[f] = None
  BY <1>1, FilesAre DEF Empty
<1>3. ArchiveHolds'
  BY <1>1 DEF ArchiveHolds, Restorable
<1> QED BY <1>0, <1>1, <1>2, <1>3, EndBackupInv

(* A death leaves part of an archive, and is one of the faults.            *)
LEMMA BackupDiesInv == ASSUME IInv, BackupDies PROVE IInv'
<1>0. /\ step # "idle" /\ EndBackup /\ faults' = faults + 1
      /\ UNCHANGED <<disk, procVars, roots, issued, restoreVars>>
  BY DEF BackupDies
<1>1. CASE \E n \in 0..(Len(Order) - 1) : archive' = PartOf(n)
  <2>1. PICK n \in 0..(Len(Order) - 1) : archive' = PartOf(n)
    BY <1>1
  <2>2. /\ archive'.file = "part"
        /\ archive'.entries =
             [f \in Files |-> IF \E i \in 1..n : Order[i] = f THEN got[f] ELSE None]
    BY <2>1 DEF PartOf
  <2>3. \A f \in {"pending", "redeemed"} : archive'.entries[f] \in {None, got[f]}
    BY <2>2, FilesAre
  <2>4. faults' > 0
    <3>1. faults \in Nat
      BY DEF IInv, ProcShapes
    <3> QED BY <1>0, <3>1
  <2>5. ArchiveHolds'
    BY <2>2, <2>4 DEF ArchiveHolds
  <2> QED BY <1>0, <2>2, <2>3, <2>5, EndBackupInv
<1>2. CASE archive' = archive
  <2>2. /\ archive'.file = "no manifest" /\ archive'.entries = Empty
    BY <1>0, <1>2, DuringBackup
  <2>3. \A f \in {"pending", "redeemed"} : archive'.entries[f] = None
    BY <2>2, FilesAre DEF Empty
  <2>4. ArchiveHolds'
    BY <2>2 DEF ArchiveHolds, Restorable
  <2> QED BY <1>0, <2>2, <2>3, <2>4, EndBackupInv
<1> QED BY <1>1, <1>2 DEF BackupDies

-----------------------------------------------------------------------------
(* A step of a restore, or the loss of the disk: no process runs after it, *)
(* and the archive and the backup's variables stay.                        *)
LEMMA RestoreStepInv ==
  ASSUME IInv, step = "idle", archive' = archive, UNCHANGED backupVars,
         UNCHANGED <<roots, issued>>, faults' \in {faults, faults + 1},
         disk' = [f \in Files |-> disk'[f]],
         ca' = [p \in Procs |-> [crt |-> ca'[p].crt, key |-> ca'[p].key]],
         pc' = [p \in Procs |-> "idle"],
         forced' \in BOOLEAN, cut' \in BOOLEAN, replaced' \in BOOLEAN,
         \A f \in {"pending", "redeemed"} : disk'[f] \in {None, disk[f], archive.entries[f]},
         archive.entries["pending"] = None /\ disk["pending"] = None => disk'["pending"] = None,
         RestoreInv', KeyFirst', PairOfCA', DueHeld'
  PROVE  IInv'
<1> USE BrokerStateAssumption
<1>0. /\ step' = "idle" /\ dir' = dir /\ todo' = todo /\ got' = got /\ redact' = redact
      /\ promise' = promise
  BY DEF backupVars
<1>1. faults' \in Nat /\ (faults > 0 => faults' > 0)
  <2>1. faults \in Nat
    BY DEF IInv, ProcShapes
  <2> QED BY <2>1
<1>2. ProcShapes'
  <2>1. issued' \in BOOLEAN /\ roots' \in Nat
    BY DEF IInv, ProcShapes
  <2>2. pc' \in [Procs -> Steps]
    BY DEF Steps
  <2> QED BY <1>1, <2>1, <2>2 DEF ProcShapes
<1>3. BackupShapes'
  BY <1>0 DEF IInv, BackupShapes
<1>4. \A p \in Procs : pc'[p] = "idle"
  OBVIOUS
<1>5. CAInv' /\ ServeInv'
  <2>1. pc'["serve"] = "idle"
    BY <1>4 DEF Procs
  <2>2. CAInv'
    BY <1>4 DEF CAInv, OpenedCA, CreatingCA
  <2>3. ServeInv'
    BY <2>1 DEF ServeInv, NewPairOfCA, EndpointVerifies, RevocationKnown
  <2> QED BY <2>2, <2>3
<1>6. TokenIssued'
  <2>1. ASSUME NEW f \in {"pending", "redeemed"},
               disk'[f] # None \/ got[f] # None \/ archive.entries[f] # None
        PROVE  issued
    <3>1. disk[f] # None \/ got[f] # None \/ archive.entries[f] # None
      BY <2>1
    <3> QED BY <3>1 DEF IInv, FilesInv, TokenIssued
  <2> QED BY <1>0, <2>1 DEF TokenIssued
<1>7. BackupRests' /\ Collecting' /\ Collected'
  BY <1>0 DEF IInv, BackupInv, BackupRests, Collecting, Collected
<1>8. ArchiveHolds'
  <2>1. SUFFICES ASSUME Restorable
                 PROVE  /\ archive.file = "part" => faults' > 0
                        /\ archive.file = "whole" =>
                             /\ Holds(archive.entries, archive.promise)
                             /\ archive.promise.spent => issued /\ disk'["pending"] = None
                             /\ \A b \in PairFiles : archive.entries[b] # None =>
                                  /\ archive.entries[b].root = archive.entries[CrtFile]
                                  /\ archive.entries[CrtFile] # None
                                  /\ archive.entries[KeyFile] # None
    BY DEF ArchiveHolds, Restorable, Holds, CrtFile, KeyFile, PairFiles
  <2>2. ArchiveHolds
    BY DEF IInv, BackupInv
  <2>3. ASSUME archive.file = "whole", archive.promise.spent PROVE disk'["pending"] = None
    BY <2>1, <2>2, <2>3 DEF ArchiveHolds, Holds
  <2> QED BY <1>1, <2>1, <2>2, <2>3 DEF ArchiveHolds
<1> QED BY <1>2, <1>3, <1>5, <1>6, <1>7, <1>8 DEF IInv, FilesInv, BackupInv

LEMMA RestoreStartInv ==
  ASSUME IInv, NEW force \in BOOLEAN, RestoreStart(force)
  PROVE  IInv'
<1> USE BrokerStateAssumption
<1>0. /\ left = None /\ step = "idle" /\ (\A p \in Procs : pc[p] = "idle") /\ Restorable
      /\ StatePresent => force
      /\ left' = {f \in Files : archive.entries[f] # None}
      /\ forced' = (force /\ StatePresent) /\ due' = NoPromise
      /\ archive' = archive /\ UNCHANGED backupVars /\ cut' = cut /\ replaced' = replaced
      /\ disk' = disk /\ pc' = pc /\ ca' = ca /\ roots' = roots /\ issued' = issued
      /\ faults' = faults
  BY DEF RestoreStart, stateVars, procVars
<1>1. forced' \in BOOLEAN /\ (~forced' => ~StatePresent)
  BY <1>0
<1>2. RestoreInv'
  <2>0. left' \in SUBSET Files
    BY <1>0
  <2>1. RestoreAlone'
    BY <1>0 DEF RestoreAlone, backupVars
  <2>2. ArchiveStays'
    BY <1>0 DEF IInv, RestoreInv, ArchiveStays, Restorable, NoPromise, backupVars
  <2>3. ASSUME ~StatePresent
        PROVE  \A f \in CAFiles \cup PairFiles \cup {"account.key"} :
                 disk[f] \in {None, archive.entries[f]}
    BY <2>3 DEF StatePresent, IInv, FilesInv, KeyFirst, CAFiles, CrtFile, KeyFile
  <2>4. Restoring'
    BY <1>0, <1>1, <2>3 DEF Restoring, CAFiles, CrtFile, KeyFile, PairFiles
  <2> QED BY <2>1, <2>2, <2>4 DEF RestoreInv
<1>3. KeyFirst'
  BY <1>0 DEF IInv, FilesInv, KeyFirst
<1>4. PairOfCA'
  <2>1. SUFFICES ASSUME Clean
                 PROVE  \A f \in PairFiles : disk[f] # None =>
                          /\ disk[f].root = disk[CrtFile]
                          /\ disk[CrtFile] # None /\ disk[KeyFile] # None
    BY <1>0 DEF PairOfCA, Clean, NoEntries, CrtFile, KeyFile, PairFiles
  <2> QED BY <1>0, <2>1 DEF IInv, FilesInv, PairOfCA
<1>5. DueHeld'
  BY <1>0 DEF DueHeld, Holds, NoPromise
<1>6. /\ disk' = [f \in Files |-> disk'[f]] /\ cut' \in BOOLEAN /\ replaced' \in BOOLEAN
      /\ ca' = [p \in Procs |-> [crt |-> ca'[p].crt, key |-> ca'[p].key]]
      /\ pc' = [p \in Procs |-> "idle"]
  BY <1>0 DEF IInv, ProcShapes, BackupShapes
<1> QED BY <1>0, <1>1, <1>2, <1>3, <1>4, <1>5, <1>6, RestoreStepInv

LEMMA RestoreWriteInv == ASSUME IInv, RestoreWrite PROVE IInv'
<1> USE BrokerStateAssumption
<1>0. PICK f \in left : Write(f, archive.entries[f]) /\ left' = left \ {f}
  BY DEF RestoreWrite
<1>1. /\ left # None /\ replaced' = (replaced \/ forced) /\ archive' = archive
      /\ pc' = pc /\ ca' = ca /\ roots' = roots /\ issued' = issued /\ faults' = faults
      /\ UNCHANGED backupVars /\ forced' = forced /\ due' = due /\ cut' = cut
  BY DEF RestoreWrite, procVars
<1>2. /\ step = "idle" /\ (\A p \in Procs : pc[p] = "idle") /\ Restorable /\ due = NoPromise
  BY <1>1 DEF IInv, RestoreInv, RestoreAlone, ArchiveStays
<1>3. Restoring /\ left \subseteq {g \in Files : archive.entries[g] # None}
  BY <1>1 DEF IInv, RestoreInv, Restoring
<1>4. f \in Files /\ archive.entries[f] # None /\ left' \in SUBSET Files
  BY <1>0, <1>3
<1>5. /\ disk'[f] = archive.entries[f]
      /\ \A g \in Files : g # f => disk'[g] = disk[g]
      /\ disk' = [g \in Files |-> disk'[g]]
  BY <1>0, <1>4, Writes DEF IInv, ProcShapes
<1>6. replaced' \in BOOLEAN /\ (forced' => replaced')
  BY <1>1
<1>7. RestoreInv'
  <2>1. RestoreAlone'
    BY <1>1, <1>2 DEF RestoreAlone, backupVars
  <2>2. ArchiveStays'
    BY <1>1, <1>2 DEF IInv, RestoreInv, ArchiveStays, Restorable, NoPromise, backupVars
  <2>3. \A g \in Files : archive.entries[g] # None /\ g \notin left' =>
          disk'[g] = archive.entries[g]
    BY <1>0, <1>1, <1>3, <1>5 DEF Restoring
  <2>4. ~forced => \A g \in CAFiles \cup PairFiles \cup {"account.key"} :
                     disk'[g] \in {None, archive.entries[g]}
    <3>1. CAFiles \cup PairFiles \cup {"account.key"} \subseteq Files
      BY FilesAre DEF CAFiles, CrtFile, KeyFile, PairFiles
    <3> QED BY <1>1, <1>3, <1>5, <3>1 DEF Restoring
  <2>5. left' \subseteq {g \in Files : archive.entries[g] # None}
    BY <1>0, <1>3
  <2>6. Restoring'
    BY <1>1, <1>6, <2>3, <2>4, <2>5 DEF Restoring, CAFiles, CrtFile, KeyFile, PairFiles
  <2> QED BY <2>1, <2>2, <2>6 DEF RestoreInv
<1>8. KeyFirst'
  <2>1. {CrtFile, KeyFile} \cup PairFiles \subseteq Files
    BY FilesAre DEF CrtFile, KeyFile, PairFiles
  <2>2. disk'[KeyFile] = None => disk[KeyFile] = None
    BY <1>4, <1>5, <2>1
  <2>3. disk[KeyFile] = None =>
          \A g \in {CrtFile} \cup PairFiles : disk'[g] \in {None, archive.entries[g]}
    BY <1>5, <2>1 DEF IInv, FilesInv, KeyFirst
  <2> QED BY <1>1, <2>2, <2>3 DEF KeyFirst, CrtFile, KeyFile, PairFiles
<1>9. PairOfCA'
  BY <1>4, <1>6 DEF PairOfCA, Clean
<1>10. DueHeld'
  BY <1>1, <1>2 DEF DueHeld, Holds, NoPromise
<1>11. /\ cut' \in BOOLEAN /\ forced' \in BOOLEAN
       /\ ca' = [p \in Procs |-> [crt |-> ca'[p].crt, key |-> ca'[p].key]]
       /\ pc' = [p \in Procs |-> "idle"]
  BY <1>1, <1>2 DEF IInv, ProcShapes, BackupShapes
<1>12. /\ \A g \in {"pending", "redeemed"} : disk'[g] \in {None, disk[g], archive.entries[g]}
       /\ archive.entries["pending"] = None /\ disk["pending"] = None => disk'["pending"] = None
  BY <1>4, <1>5, FilesAre
<1> QED BY <1>1, <1>2, <1>5, <1>6, <1>7, <1>8, <1>9, <1>10, <1>11, <1>12, RestoreStepInv

(* The end of a restore, of the whole archive or not.                      *)
LEMMA RestoreStopsInv ==
  ASSUME IInv, left # None, left' = None, forced' = FALSE,
         \/ left = {} /\ archive.file = "whole" /\ due' = archive.promise /\ cut' = FALSE
         \/ due' = due /\ cut' = TRUE,
         archive' = archive, UNCHANGED backupVars, replaced' = replaced,
         UNCHANGED <<disk, pc, ca, roots, issued>>, faults' \in {faults, faults + 1}
  PROVE  IInv'
<1> USE BrokerStateAssumption
<1>1. /\ step = "idle" /\ (\A p \in Procs : pc[p] = "idle") /\ Restorable /\ due = NoPromise
  BY DEF IInv, RestoreInv, RestoreAlone, ArchiveStays
<1>2. Restoring
  BY DEF IInv, RestoreInv
<1>3. RestoreInv'
  <2>1. RestoreAlone' /\ Restoring'
    BY DEF RestoreAlone, Restoring
  <2>2. Restorable'
    BY <1>1 DEF Restorable
  <2>3. ArchiveStays'
    BY <1>1, <2>2 DEF IInv, RestoreInv, ArchiveStays, NoPromise, backupVars, Restorable
  <2> QED BY <2>1, <2>3 DEF RestoreInv
<1>4. KeyFirst'
  BY DEF IInv, FilesInv, KeyFirst
<1>5. PairOfCA'
  <2>1. SUFFICES ASSUME ~replaced, NoEntries \/ (left = {} /\ archive.file = "whole"),
                        NEW f \in PairFiles, disk[f] # None
                 PROVE  /\ disk[f].root = disk[CrtFile]
                        /\ disk[CrtFile] # None /\ disk[KeyFile] # None
    BY DEF PairOfCA, Clean, NoEntries, CrtFile, KeyFile, PairFiles
  <2>2. CASE forced
    <3>1. left = {g \in Files : archive.entries[g] # None}
      BY <1>2, <2>1, <2>2 DEF Restoring
    <3>2. NoEntries
      BY <2>1, <3>1 DEF NoEntries
    <3> QED BY <2>1, <2>2, <3>2 DEF IInv, FilesInv, PairOfCA, Clean
  <2>3. CASE ~forced
    <3>1. \A g \in CAFiles \cup PairFiles : disk[g] \in {None, archive.entries[g]}
      BY <1>2, <2>3 DEF Restoring
    <3>2. disk[f] = archive.entries[f] /\ archive.entries[f] # None
      BY <2>1, <3>1
    <3>3. {f, CrtFile, KeyFile} \subseteq Files
      BY FilesAre DEF PairFiles, CrtFile, KeyFile
    <3>4. left = {} /\ archive.file = "whole"
      BY <2>1, <3>2, <3>3 DEF NoEntries
    <3>5. /\ archive.entries[f].root = archive.entries[CrtFile]
          /\ archive.entries[CrtFile] # None /\ archive.entries[KeyFile] # None
      BY <1>1, <3>2, <3>4 DEF IInv, BackupInv, ArchiveHolds
    <3>6. disk[CrtFile] = archive.entries[CrtFile] /\ disk[KeyFile] = archive.entries[KeyFile]
      BY <1>2, <3>3, <3>4, <3>5 DEF Restoring
    <3> QED BY <3>2, <3>5, <3>6
  <2> QED BY <2>2, <2>3
<1>6. DueHeld'
  <2>1. CASE left = {} /\ archive.file = "whole" /\ due' = archive.promise
    <3>1. /\ Holds(archive.entries, archive.promise)
          /\ archive.promise.spent => disk["pending"] = None
      BY <1>1, <2>1 DEF IInv, BackupInv, ArchiveHolds
    <3>2. \A f \in Files : archive.entries[f] # None => disk[f] = archive.entries[f]
      BY <1>2, <2>1 DEF Restoring
    <3>3. Holds(disk, archive.promise)
      BY <3>1, <3>2, FilesAre DEF Holds
    <3> QED BY <2>1, <3>3 DEF DueHeld, Holds
  <2>2. CASE due' = due
    BY <1>1, <2>2 DEF DueHeld, Holds, NoPromise
  <2> QED BY <2>1, <2>2
<1>7. /\ disk' = [f \in Files |-> disk'[f]] /\ replaced' \in BOOLEAN
      /\ ca' = [p \in Procs |-> [crt |-> ca'[p].crt, key |-> ca'[p].key]]
      /\ pc' = [p \in Procs |-> "idle"] /\ cut' \in BOOLEAN /\ forced' \in BOOLEAN
  BY <1>1 DEF IInv, ProcShapes, BackupShapes
<1> QED BY <1>1, <1>3, <1>4, <1>5, <1>6, <1>7, RestoreStepInv

LEMMA RestoreEndInv == ASSUME IInv, RestoreEnd PROVE IInv'
<1>1. left # None
  BY BrokerStateAssumption DEF RestoreEnd
<1>2. /\ left' = None /\ forced' = FALSE /\ archive' = archive /\ UNCHANGED backupVars
      /\ replaced' = replaced /\ UNCHANGED <<disk, pc, ca, roots, issued>> /\ faults' = faults
      /\ \/ left = {} /\ archive.file = "whole" /\ due' = archive.promise /\ cut' = FALSE
         \/ due' = due /\ cut' = TRUE
  BY DEF RestoreEnd, stateVars, procVars
<1> QED BY <1>1, <1>2, RestoreStopsInv

LEMMA RestoreDiesInv == ASSUME IInv, RestoreDies PROVE IInv'
BY RestoreStopsInv DEF RestoreDies, procVars

(* With the disk, everything that was due is gone; the archive is not.     *)
LEMMA DisasterInv == ASSUME IInv, Disaster PROVE IInv'
<1> USE BrokerStateAssumption
<1>0. /\ step = "idle" /\ left = None /\ faults' = faults + 1 /\ disk' = Empty
      /\ pc' = [p \in Procs |-> "idle"] /\ ca' = [p \in Procs |-> NoCA]
      /\ due' = NoPromise /\ cut' = FALSE /\ archive' = archive /\ UNCHANGED backupVars
      /\ roots' = roots /\ issued' = issued /\ left' = left /\ forced' = forced
      /\ replaced' = replaced
  BY DEF Disaster
<1>1. \A f \in Files : disk'[f] = None
  BY <1>0 DEF Empty
<1>2. RestoreInv'
  <2>1. RestoreAlone' /\ Restoring'
    BY <1>0 DEF RestoreAlone, Restoring
  <2>2. ArchiveStays'
    BY <1>0 DEF IInv, RestoreInv, ArchiveStays, Restorable, NoPromise, backupVars
  <2> QED BY <2>1, <2>2 DEF RestoreInv
<1>3. {CrtFile, KeyFile} \cup PairFiles \subseteq Files
  BY FilesAre DEF CrtFile, KeyFile, PairFiles
<1>4. KeyFirst' /\ PairOfCA'
  BY <1>1, <1>3 DEF KeyFirst, PairOfCA, CrtFile, KeyFile, PairFiles
<1>5. DueHeld'
  BY <1>0 DEF DueHeld, Holds, NoPromise
<1>6. /\ disk' = [f \in Files |-> disk'[f]]
      /\ ca' = [p \in Procs |-> [crt |-> ca'[p].crt, key |-> ca'[p].key]]
      /\ forced' \in BOOLEAN /\ cut' \in BOOLEAN /\ replaced' \in BOOLEAN
  BY <1>0 DEF Empty, NoCA, IInv, BackupShapes
<1>7. \A f \in {"pending", "redeemed"} : disk'[f] = None
  BY <1>1, FilesAre
<1> QED BY <1>0, <1>2, <1>4, <1>5, <1>6, <1>7, RestoreStepInv

-----------------------------------------------------------------------------
LEMMA InitIInv == BackupInit => IInv
<1> SUFFICES ASSUME BackupInit PROVE IInv
  OBVIOUS
<1> USE BrokerStateAssumption
<1>0. /\ pc = [p \in Procs |-> "idle"] /\ ca = [p \in Procs |-> NoCA]
      /\ roots = 0 /\ issued = FALSE /\ faults = 0 /\ archive = NoArchive
      /\ step = "idle" /\ dir = 0 /\ todo = {} /\ got = Empty /\ redact = FALSE
      /\ left = None /\ forced = FALSE /\ due = NoPromise /\ cut = FALSE /\ replaced = FALSE
  BY DEF BackupInit, Init
<1>1. /\ disk = [f \in Files |-> disk[f]]
      /\ \A f \in Files \ AccountFiles : disk[f] = None
  <2>1. CASE disk = Empty
    BY <2>1 DEF Empty
  <2>2. CASE disk = [Empty EXCEPT !["account.json"] = 1, !["account.key"] = 1]
    <3>1. disk = [f \in Files |-> IF f \in AccountFiles THEN 1 ELSE None]
      BY <2>2, FilesAre DEF Empty, AccountFiles
    <3> QED BY <3>1
  <2> QED BY <2>1, <2>2 DEF BackupInit, Init
<1>2. \A p \in Procs : pc[p] = "idle"
  BY <1>0
<1>3. ProcShapes
  <2>1. /\ pc \in [Procs -> Steps]
        /\ ca = [p \in Procs |-> [crt |-> ca[p].crt, key |-> ca[p].key]]
    BY <1>0 DEF Steps, NoCA
  <2> QED BY <1>0, <1>1, <2>1 DEF ProcShapes
<1>4. archive.file = "none" /\ archive.entries = Empty
  BY <1>0 DEF NoArchive
<1>5. BackupShapes
  <2>1. got = [f \in Files |-> got[f]]
    BY <1>0 DEF Empty
  <2> QED BY <1>0, <1>4, <2>1, Counts DEF BackupShapes
<1>6. CAInv /\ ServeInv
  <2>1. pc["serve"] = "idle"
    BY <1>2 DEF Procs
  <2> QED BY <1>2, <2>1 DEF CAInv, OpenedCA, CreatingCA, ServeInv, NewPairOfCA,
          EndpointVerifies, RevocationKnown
<1>7. RestoreInv
  BY <1>0, <1>4 DEF RestoreInv, RestoreAlone, ArchiveStays, Restoring
<1>8. {CrtFile, KeyFile, "pending", "redeemed"} \cup PairFiles \subseteq Files \ AccountFiles
  BY FilesAre DEF CrtFile, KeyFile, PairFiles, AccountFiles
<1>9. KeyFirst /\ PairOfCA
  BY <1>1, <1>8 DEF KeyFirst, PairOfCA
<1>10. TokenIssued
  <2>1. \A f \in {"pending", "redeemed"} : Empty[f] = None
    BY <1>8 DEF Empty
  <2> QED BY <1>0, <1>1, <1>4, <1>8, <2>1 DEF TokenIssued
<1>11. DueHeld
  BY <1>0 DEF DueHeld, Holds, NoPromise
<1>12. BackupInv
  BY <1>0, <1>4 DEF BackupInv, BackupRests, Collecting, Collected, ArchiveHolds, Restorable
<1> QED BY <1>3, <1>5, <1>6, <1>7, <1>9, <1>10, <1>11, <1>12 DEF IInv, FilesInv

(* A step of serve or of a command, by which of them it is.                *)
LEMMA BesideInv ==
  ASSUME IInv,
         \/ (\E p \in Procs : Opening(p)) \/ Serving \/ Commanding
         \/ (Enrol \/ Stop) /\ Beside
         \/ \E p \in Procs : Fails(p) /\ Beside
  PROVE  ProcShapes' /\ CAInv' /\ ServeInv' /\ Effect
<1>1. CASE Stop /\ Beside
  <2>1. /\ "serve" \in Procs /\ pc["serve"] # "idle" /\ Ends("serve") /\ Beside
        /\ UNCHANGED <<disk, roots, issued>> /\ faults' = faults
    BY <1>1 DEF Stop, Procs
  <2> QED BY <2>1, EndingInv
<1>2. ASSUME NEW p \in Procs, Fails(p), Beside
      PROVE  ProcShapes' /\ CAInv' /\ ServeInv' /\ Effect
  <2>1. /\ pc[p] # "idle" /\ Ends(p) /\ UNCHANGED <<disk, roots, issued>>
        /\ faults' = faults + 1
    BY <1>2 DEF Fails
  <2> QED BY <1>2, <2>1, EndingInv
<1> QED BY <1>1, <1>2, OpeningInv, ServingInv, CommandingInv, EnrolInv

LEMMA NextIInv == ASSUME IInv, [Next]_vars PROVE IInv'
<1>1. CASE \/ (\E p \in Procs : Opening(p)) \/ Serving \/ Commanding
           \/ (Enrol \/ Stop) /\ Beside
           \/ \E p \in Procs : Fails(p) /\ Beside
  BY <1>1, BesideInv, EffectInv
<1>2. CASE UNCHANGED vars
  <2>1. /\ disk' = disk /\ pc' = pc /\ ca' = ca /\ tls' = tls /\ shut' = shut
        /\ roots' = roots /\ issued' = issued /\ faults' = faults /\ archive' = archive
        /\ step' = step /\ dir' = dir /\ todo' = todo /\ got' = got /\ redact' = redact
        /\ promise' = promise /\ left' = left /\ forced' = forced /\ due' = due
        /\ cut' = cut /\ replaced' = replaced
    BY <1>2 DEF vars, stateVars, procVars, backupVars, restoreVars
  <2>2. (ProcShapes /\ BackupShapes /\ CAInv /\ ServeInv)'
    BY <2>1 DEF IInv, ProcShapes, BackupShapes, CAInv, OpenedCA, CreatingCA, ServeInv,
       NewPairOfCA, EndpointVerifies, RevocationKnown
  <2>3. RestoreInv'
    BY <2>1 DEF IInv, RestoreInv, RestoreAlone, ArchiveStays, Restoring, Restorable
  <2>4. FilesInv'
    BY <2>1 DEF IInv, FilesInv, KeyFirst, PairOfCA, Clean, NoEntries, TokenIssued, DueHeld,
       Holds
  <2>5. BackupInv'
    BY <2>1 DEF IInv, BackupInv, BackupRests, Collecting, Collected, Ahead, ArchiveHolds,
       Restorable, Holds
  <2> QED BY <2>2, <2>3, <2>4, <2>5 DEF IInv
<1> QED BY <1>1, <1>2, BackupStartInv, BackupReadInv, BackupNextDirInv, BackupWriteInv,
        BackupFailsInv, BackupDiesInv, RestoreStartInv, RestoreWriteInv, RestoreEndInv,
        RestoreDiesInv, DisasterInv DEF Next

-----------------------------------------------------------------------------
(* What backup-info calls restorable is: an archive written to its end     *)
(* holds what was in place when the backup began, whatever serve and       *)
(* commands wrote between its reads.                                       *)
THEOREM ArchivesAreTrue == Spec => []ArchiveTruth
<1>1. IInv /\ [Next]_vars => IInv'
  BY NextIInv
<1>2. IInv => ArchiveTruth
  BY DEF IInv, BackupInv, ArchiveHolds, ArchiveTruth, Restorable
<1> QED BY InitIInv, <1>1, <1>2, PTL DEF Spec

(* A restore that reported success brought the broker back, and it stays   *)
(* back: the CA and the account on the disk and in serve's memory, the     *)
(* revocation known to serve, the spent token spent.                       *)
THEOREM RestoresBringBack == Spec => []RestoreBringsBack
<1>1. IInv /\ [Next]_vars => IInv'
  BY NextIInv
<1>2. IInv => RestoreBringsBack
  <2> SUFFICES ASSUME IInv PROVE RestoreBringsBack
    OBVIOUS
  <2>1. Holds(disk, due)
    BY DEF IInv, FilesInv, DueHeld
  <2>2. ASSUME pc["serve"] = "up"
        PROVE  /\ due.root # None => ca["serve"] = [crt |-> due.root, key |-> due.root]
               /\ due.revoked => shut = "revoked"
    <3>1. "serve" \in Procs
      BY DEF Procs
    <3>2. ca["serve"] = [crt |-> disk[CrtFile], key |-> disk[KeyFile]]
      <4>1. ca["serve"] = [crt |-> ca["serve"].crt, key |-> ca["serve"].key]
        BY <3>1 DEF IInv, ProcShapes
      <4>2. ca["serve"].crt = disk[CrtFile] /\ ca["serve"].key = disk[KeyFile]
        BY <2>2, <3>1 DEF IInv, CAInv, OpenedCA
      <4> QED BY <4>1, <4>2
    <3>3. due.revoked => shut = "revoked"
      BY <2>1, <2>2 DEF Holds, IInv, ServeInv, RevocationKnown
    <3> QED BY <2>1, <3>2, <3>3 DEF Holds, CrtFile, KeyFile
  <2> QED BY <2>1, <2>2 DEF RestoreBringsBack
<1> QED BY InitIInv, <1>1, <1>2, PTL DEF Spec

(* Hosts can verify the endpoint: a certificate that serve made or found   *)
(* in its state directory is from the CA it opened, though                 *)
(* brokerServerCertificate never asks who signed the pair it finds, unless *)
(* a restore broke off or went over other state.  Of a pair that the       *)
(* operator configured nothing is said.                                    *)
THEOREM EndpointsVerify == Spec => []EndpointVerifies
<1>1. IInv /\ [Next]_vars => IInv'
  BY NextIInv
<1>2. IInv => EndpointVerifies
  BY DEF IInv, ServeInv
<1> QED BY InitIInv, <1>1, <1>2, PTL DEF Spec

(* The CA's files and the account's key are never replaced but by a        *)
(* restore that was forced, whatever died before: OpenOrCreate, Create and *)
(* statePresent leave no way around it.                                    *)
THEOREM KeysAreKept == Spec => KeysKept
<1> DEFINE Kept == \A f \in {"agent-ca.crt", "agent-ca.key", "account.key"} :
                     disk[f] # None /\ disk'[f] # disk[f] => forced \/ disk' = Empty
<1>1. IInv /\ [Next]_vars => IInv'
  BY NextIInv
<1>2. IInv /\ [Next]_vars => [Kept]_vars
  <2> SUFFICES ASSUME IInv, Next PROVE Kept
    OBVIOUS
  <2>1. CASE \/ (\E p \in Procs : Opening(p)) \/ Serving \/ Commanding
             \/ (Enrol \/ Stop) /\ Beside
             \/ \E p \in Procs : Fails(p) /\ Beside
    <3>1. Effect
      BY <2>1, BesideInv
    <3> QED BY <3>1 DEF Effect, CAFiles, AccountFiles, CrtFile, KeyFile
  <2>2. CASE RestoreWrite
    <3>1. PICK f \in left : Write(f, archive.entries[f])
      BY <2>2 DEF RestoreWrite
    <3>2. left # None /\ Restoring
      BY <2>2 DEF RestoreWrite, IInv, RestoreInv
    <3>3. f \in Files
      BY <3>2 DEF Restoring
    <3>4. disk'[f] = archive.entries[f] /\ \A g \in Files : g # f => disk'[g] = disk[g]
      BY <3>1, <3>3, Writes DEF IInv, ProcShapes
    <3>5. ~forced => \A g \in {"agent-ca.crt", "agent-ca.key", "account.key"} :
                       disk[g] \in {None, archive.entries[g]}
      BY <3>2 DEF Restoring, CAFiles, CrtFile, KeyFile
    <3> QED BY <3>4, <3>5, FilesAre
  <2>3. CASE Disaster
    BY <2>3 DEF Disaster
  <2>4. CASE \/ (\E r \in BOOLEAN : BackupStart(r)) \/ BackupRead \/ BackupNextDir
             \/ BackupWrite \/ BackupFails \/ BackupDies
             \/ (\E force \in BOOLEAN : RestoreStart(force)) \/ RestoreEnd \/ RestoreDies
    <3>1. disk' = disk
      BY <2>4 DEF BackupStart, BackupRead, BackupNextDir, BackupWrite, BackupFails,
         BackupDies, RestoreStart, RestoreEnd, RestoreDies, stateVars
    <3> QED BY <3>1
  <2> QED BY <2>1, <2>2, <2>3, <2>4 DEF Next
<1> QED BY InitIInv, <1>1, <1>2, PTL DEF Spec, KeysKept
=============================================================================
