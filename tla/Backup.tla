------------------------------- MODULE Backup -------------------------------
(***************************************************************************)
(* internal/backup with the commands `backup` and `restore-backup`, over   *)
(* the files of BrokerState: an archive is collected file by file while    *)
(* serve and commands go on, and written back file by file, perhaps after  *)
(* the disk was lost.  A restore replaces what the archive holds and       *)
(* removes nothing.  Both may die at any step.  The archive is one file on *)
(* another disk.                                                           *)
(***************************************************************************)
EXTENDS BrokerState

CONSTANT Redacted   \* what a redacted archive holds in the place of a key

VARIABLES
  archive,     \* the archive file
  step,        \* backup: its step
  dir, todo,   \* backup: the directory it is in, and the files still to read
  got,         \* backup: what it has collected
  redact,      \* backup: -redact
  left,        \* restore: the entries still to write; None when none runs
  forced,      \* restore: -force
  promise,     \* observation: what was in place when the backup began
  due,         \* observation: what the last completed restore must bring back
  cut,         \* observation: a restore stopped half way, none completed since
  replaced     \* observation: -force put an archive over existing state

backupVars == <<step, dir, todo, got, redact, promise>>
restoreVars == <<left, forced, due, cut, replaced>>
vars == <<stateVars, archive, backupVars, restoreVars>>

-----------------------------------------------------------------------------
(* looksSecret: the files that hold a private key.                         *)
Secrets == {"account.key", "broker.key", "agent-ca.key"}

NoPromise == [root |-> None, account |-> None, revoked |-> FALSE, spent |-> FALSE]

(* What is in place, and so must be there again after a restore.           *)
InPlace ==
  [root    |-> IF Whole("agent-ca.crt", "agent-ca.key") THEN disk["agent-ca.crt"] ELSE None,
   account |-> IF Whole("account.key", "account.json") THEN disk["account.key"] ELSE None,
   revoked |-> disk["agents.json"] = "revoked",
   spent   |-> disk["redeemed"] # None /\ disk["pending"] = None]

(* An archive is missing, a file without a manifest, or one that begins    *)
(* with a manifest, whole or not.                                          *)
NoArchive == [file |-> "none", restorable |-> FALSE, entries |-> Empty, promise |-> NoPromise]

Pairs == {archive.entries["broker.crt"], archive.entries["broker.key"],
          got["broker.crt"], got["broker.key"]} \ {Redacted}

(* f is the first of the files fs that a walk, or an archive, comes to.    *)
First(f, fs) ==
  \E i \in 1..Len(Order) : Order[i] = f /\ \A j \in 1..(i - 1) : Order[j] \notin fs

BackupInit ==
  /\ Init
  /\ archive = NoArchive
  /\ step = "idle" /\ dir = 0 /\ todo = {} /\ got = Empty /\ redact = FALSE
  /\ left = None /\ forced = FALSE
  /\ promise = NoPromise /\ due = NoPromise
  /\ cut = FALSE /\ replaced = FALSE

-----------------------------------------------------------------------------
(* cmdBackup.                                                              *)

(* The archive is opened with O_EXCL: an existing one is never replaced.   *)
BackupStart(r) ==
  /\ step = "idle" /\ archive.file = "none"
  /\ left = None
  /\ archive' = [NoArchive EXCEPT !.file = "no manifest"]
  /\ step' = "read" /\ redact' = r
  /\ promise' = InPlace
  /\ UNCHANGED <<stateVars, dir, todo, got, restoreVars>>

(* Fault variant: private keys are left out of every archive.              *)
BackupReadNoSecrets ==
  /\ step = "read"
  /\ \E f \in todo :
       /\ First(f, todo) /\ disk[f] # None
       /\ got' = IF f \in Secrets THEN got ELSE [got EXCEPT ![f] = disk[f]]
       /\ todo' = todo \ {f}
  /\ UNCHANGED <<stateVars, archive, step, dir, redact, promise, restoreVars>>

(* add: a listed file is read, and masked when it is secret.               *)
BackupRead ==
  /\ step = "read"
  /\ \E f \in todo :
       /\ First(f, todo) /\ disk[f] # None
       /\ got' = [got EXCEPT ![f] = IF redact /\ f \in Secrets THEN Redacted ELSE disk[f]]
       /\ todo' = todo \ {f}
  /\ UNCHANGED <<stateVars, archive, step, dir, redact, promise, restoreVars>>

(* WalkDir enters the next directory and lists it.                         *)
BackupNextDir ==
  /\ step = "read" /\ todo = {}
  /\ IF dir < Len(Walk)
       THEN /\ dir' = dir + 1
            /\ todo' = {f \in Walk[dir + 1] : disk[f] # None}
            /\ UNCHANGED step
       ELSE dir' = 0 /\ step' = "write" /\ UNCHANGED todo
  /\ UNCHANGED <<stateVars, archive, got, redact, promise, restoreVars>>

EndBackup ==
  /\ step' = "idle" /\ dir' = 0 /\ todo' = {} /\ got' = Empty
  /\ redact' = FALSE /\ promise' = NoPromise

(* Manifest first, then the entries in order.                              *)
BackupWrite ==
  /\ step = "write"
  /\ archive' = [file |-> "whole", restorable |-> ~redact, entries |-> got, promise |-> promise]
  /\ EndBackup
  /\ UNCHANGED <<stateVars, restoreVars>>

(* Fault variant: what was written stays when the backup fails.            *)
BackupFailsAndStays ==
  /\ step # "idle"
  /\ step = "read" => \E f \in todo : First(f, todo) /\ disk[f] = None
  /\ archive' = IF step = "write"
                  THEN [file |-> "part", restorable |-> ~redact, entries |-> Empty,
                        promise |-> promise]
                  ELSE archive
  /\ EndBackup
  /\ UNCHANGED <<stateVars, restoreVars>>

(* A listed file is gone, or the archive cannot be written: the deferred   *)
(* function removes it.                                                    *)
BackupFails ==
  /\ step # "idle"
  /\ step = "read" => \E f \in todo : First(f, todo) /\ disk[f] = None
  /\ archive' = NoArchive
  /\ EndBackup
  /\ UNCHANGED <<stateVars, restoreVars>>

(* The archive that a backup leaves which dies after its manifest.         *)
PartOf(n) ==
  [file |-> "part", restorable |-> ~redact, promise |-> NoPromise,
   entries |-> [f \in Files |-> IF \E i \in 1..n : Order[i] = f THEN got[f] ELSE None]]

BackupDies ==
  /\ step # "idle"
  /\ faults < MaxFaults
  /\ faults' = faults + 1
  /\ IF step = "write"
       THEN \/ \E n \in 0..(Len(Order) - 1) : archive' = PartOf(n)
            \/ UNCHANGED archive
       ELSE UNCHANGED archive
  /\ EndBackup
  /\ UNCHANGED <<disk, procVars, roots, issued, restoreVars>>

-----------------------------------------------------------------------------
(* cmdRestoreBackup.                                                       *)

(* Fault variant: the ACME account alone is state worth asking about.      *)
StatePresentAccount == disk["account.key"] # None

(* statePresent: the two things that cannot be made again.                 *)
StatePresent == disk["account.key"] # None \/ disk["agent-ca.key"] # None

(* Inspect, and again Restore: the manifest is readable and says so.       *)
Restorable == archive.file \in {"part", "whole"} /\ archive.restorable

RestoreStart(force) ==
  /\ left = None /\ step = "idle"
  /\ \A p \in Procs : pc[p] = "idle"
  /\ Restorable
  /\ StatePresent => force
  /\ left' = {f \in Files : archive.entries[f] # None}
  /\ forced' = (force /\ StatePresent)
  /\ due' = NoPromise
  /\ UNCHANGED <<stateVars, archive, backupVars, cut, replaced>>

(* writeRestored for the next entry.                                       *)
RestoreWrite ==
  /\ left # None
  /\ \E f \in left :
       /\ First(f, left)
       /\ Write(f, archive.entries[f]) /\ left' = left \ {f}
  /\ replaced' = (replaced \/ forced)
  /\ UNCHANGED <<procVars, roots, issued, faults, archive, backupVars,
                 forced, due, cut>>

(* The end of the archive, which comes as an error when it is not whole.   *)
RestoreEnd ==
  /\ left = {}
  /\ left' = None /\ forced' = FALSE
  /\ IF archive.file = "whole" THEN due' = archive.promise /\ cut' = FALSE
                               ELSE cut' = TRUE /\ UNCHANGED due
  /\ UNCHANGED <<stateVars, archive, backupVars, replaced>>

RestoreDies ==
  /\ left # None
  /\ faults < MaxFaults
  /\ faults' = faults + 1
  /\ left' = None /\ forced' = FALSE /\ cut' = TRUE
  /\ UNCHANGED <<disk, procVars, roots, issued, archive, backupVars, due, replaced>>

-----------------------------------------------------------------------------
(* The disk is lost, and every process with it; the archive is elsewhere.  *)
Disaster ==
  /\ step = "idle" /\ left = None
  /\ faults < MaxFaults
  /\ faults' = faults + 1
  /\ disk' = Empty
  /\ pc' = [p \in Procs |-> "idle"]
  /\ due' = NoPromise /\ cut' = FALSE
  /\ ca' = [p \in Procs |-> NoCA] /\ tls' = None /\ shut' = "clear"
  /\ UNCHANGED <<roots, issued, archive, backupVars, left, forced, replaced>>

(* Steps of the broker and of commands.  Operating rule: none is started   *)
(* while a restore runs.                                                   *)
Beside == UNCHANGED <<archive, backupVars, restoreVars>>

Opening(p) == OpenOrCreate(p) /\ left = None /\ Beside
Serving == Serve(Pairs) /\ Beside
Commanding == Command /\ Beside

Next ==
  \/ \E p \in Procs : Opening(p)
  \/ Serving \/ Commanding
  \/ (Enrol \/ Stop) /\ Beside
  \/ \E p \in Procs : Fails(p) /\ Beside
  \/ \E r \in BOOLEAN : BackupStart(r)
  \/ BackupRead \/ BackupNextDir \/ BackupWrite \/ BackupFails \/ BackupDies
  \/ \E force \in BOOLEAN : RestoreStart(force)
  \/ RestoreWrite \/ RestoreEnd \/ RestoreDies \/ Disaster

Spec == BackupInit /\ [][Next]_vars

(* serve is a service that is started again whenever it is down, and what  *)
(* runs goes on.                                                           *)
Fairness ==
  /\ SF_vars(Opening("serve"))
  /\ WF_vars(Serving)
  /\ WF_vars(Commanding)
  /\ WF_vars(RestoreWrite \/ RestoreEnd)

FairSpec == Spec /\ Fairness

-----------------------------------------------------------------------------
PairType == [root : 1..roots, no : 0..4] \cup {None}
RootType == 1..roots \cup {None}

(* Every variable has its shape; above all, what a redacted archive holds  *)
(* never reaches the disk.                                                 *)
TypeOK ==
  /\ {disk["account.json"], disk["account.key"]} \subseteq {None, 1}
  /\ disk["agents.json"] \in {None, "clear", "revoked"}
  /\ {disk["broker.crt"], disk["broker.key"], tls} \subseteq PairType
  /\ {disk["agent-ca.crt"], disk["agent-ca.key"], disk["pending"], disk["redeemed"]}
       \subseteq RootType
  /\ ca \in [Procs -> [crt : RootType, key : RootType]]
  /\ pc \in [Procs -> {"idle", "create.key", "create.crt", "opened", "tls.crt", "tls.key",
                     "refused", "up"}]
  /\ shut \in {"clear", "revoked"}
  /\ issued \in BOOLEAN /\ faults \in 0..MaxFaults
  /\ archive.file \in {"none", "no manifest", "part", "whole"}
  /\ step \in {"idle", "read", "write"} /\ dir \in 0..Len(Walk)
  /\ left \in SUBSET Files \cup {None}
  /\ {redact, forced, cut, replaced} \subseteq BOOLEAN

(* The files hold what was in place: the CA and the account with both      *)
(* their halves, the revocation, and no second use of a spent token.       *)
Holds(files, was) ==
  /\ was.root # None => files["agent-ca.crt"] = was.root /\ files["agent-ca.key"] = was.root
  /\ was.account # None =>
       files["account.json"] = was.account /\ files["account.key"] = was.account
  /\ was.revoked => files["agents.json"] = "revoked"
  /\ was.spent => files["pending"] = None

(* What backup-info calls restorable is: an archive written to its end     *)
(* holds what was in place when the backup began, though serve and         *)
(* commands wrote files between its reads; one that breaks off is only     *)
(* left by a backup that was killed.                                       *)
ArchiveTruth ==
  Restorable => \/ archive.file = "whole" /\ Holds(archive.entries, archive.promise)
                \/ archive.file = "part" /\ faults > 0

(* A restore that reported success brought the broker back, and it stays   *)
(* back while serve and commands run: the same CA and account, revoked     *)
(* agents still turned away by serve, spent tokens still spent.            *)
RestoreBringsBack ==
  /\ Holds(disk, due)
  /\ pc["serve"] = "up" =>
       /\ due.root # None => ca["serve"] = [crt |-> due.root, key |-> due.root]
       /\ due.revoked => shut = "revoked"

(* The files that cannot be made again are replaced only by a restore that *)
(* was told to, however commands, crashes and restores that broke off came *)
(* before: a second root would leave every enrolled host unrecognised.     *)
KeysKept ==
  [][\A f \in {"agent-ca.crt", "agent-ca.key", "account.key"} :
       disk[f] # None /\ disk'[f] # disk[f] => forced \/ disk' = Empty]_vars

(* Hosts can verify the endpoint: the certificate that serve made, or      *)
(* found in its state directory, is from the CA that it opened, unless a   *)
(* restore broke off or went over other state.  brokerServerCertificate    *)
(* does not look at who signed a pair it finds.  A pair that the operator  *)
(* configured is the operator's to get right.                              *)
EndpointVerifies ==
  pc["serve"] = "up" /\ tls # None /\ ~replaced /\ ~cut => tls.root = ca["serve"].crt

(* One half of the CA is missing or belongs to another: openBroker refuses *)
(* or nothing can be signed, and an operator must restore a backup.        *)
Torn ==
  /\ disk["agent-ca.crt"] # None \/ disk["agent-ca.key"] # None
  /\ ~Whole("agent-ca.crt", "agent-ca.key")

(* Started again and again, serve comes up, whatever died before between   *)
(* two files of the endpoint's pair, unless the CA itself is torn or the   *)
(* configuration is refused again and again: it names a pair that does not *)
(* load, or no pair and no host to make one for.                           *)
ServeComesUp == []<>(pc["serve"] \in {"up", "refused"} \/ Torn)
=============================================================================
