------------------------------- MODULE Account -------------------------------
(***************************************************************************)
(* The ACME account, internal/acme/account.go with the command `register`: *)
(* a key file and a metadata file, written one after the other once the CA *)
(* has registered the account.  The number of an account stands for its    *)
(* key and its registration.  One register command runs at a time: two     *)
(* would both find no account and overwrite each other's files.            *)
(***************************************************************************)
EXTENDS Naturals

CONSTANT None     \* no file

ASSUME AccountAssumption == None \notin Nat

VARIABLES
  accountKey, accountMeta,   \* the files
  aPc, aMade,                \* register: its step, the account it made
  registered                 \* how many accounts the CA has registered

account == <<accountKey, accountMeta, aPc, aMade, registered>>

-----------------------------------------------------------------------------
(* AccountStore.Exists asks for the key alone.                             *)
Exists == accountKey # None

(* AccountStore.Load: a key without its metadata is an error.              *)
Loads == accountKey # None /\ accountMeta # None

AccountInit ==
  /\ accountKey = None /\ accountMeta = None
  /\ aPc = "idle" /\ aMade = None
  /\ registered = 0

(* Fault variant: a key without its metadata is no account.                *)
RegisterUnlessLoads ==
  /\ aPc = "idle" /\ ~Loads
  /\ aPc' = "register"
  /\ UNCHANGED <<accountKey, accountMeta, aMade, registered>>

(* cmdRegister and AccountStore.Register: nothing to do, and no second     *)
(* account, when there is a key.                                           *)
Register ==
  /\ aPc = "idle" /\ ~Exists
  /\ aPc' = "register"
  /\ UNCHANGED <<accountKey, accountMeta, aMade, registered>>

(* The CA registers the account.                                           *)
RegisterAtCA ==
  /\ aPc = "register"
  /\ registered' = registered + 1
  /\ aMade' = registered'
  /\ aPc' = "saveKey"
  /\ UNCHANGED <<accountKey, accountMeta>>

(* The CA does not: nothing happened.                                      *)
RegisterRefused ==
  /\ aPc = "register"
  /\ aPc' = "idle"
  /\ UNCHANGED <<accountKey, accountMeta, aMade, registered>>

(* AccountStore.Save, key first.                                           *)
SaveAccountKey ==
  /\ aPc = "saveKey"
  /\ accountKey' = aMade
  /\ aPc' = "saveMeta"
  /\ UNCHANGED <<accountMeta, aMade, registered>>

SaveAccountMeta ==
  /\ aPc = "saveMeta"
  /\ accountMeta' = aMade
  /\ aPc' = "idle" /\ aMade' = None
  /\ UNCHANGED <<accountKey, registered>>

(* Saving fails, or the command dies: the CA has an account nobody holds,  *)
(* or its key is stored without its metadata.                              *)
RegisterStops ==
  /\ aPc \in {"saveKey", "saveMeta"}
  /\ aPc' = "idle" /\ aMade' = None
  /\ UNCHANGED <<accountKey, accountMeta, registered>>

Registering ==
  Register \/ RegisterAtCA \/ RegisterRefused \/ SaveAccountKey \/ SaveAccountMeta
=============================================================================
