------------------------------- MODULE Deploy -------------------------------
(***************************************************************************)
(* One target of one agent: what cmdRun does with an identity, collecting  *)
(* the certificate from the broker and deploying it, internal/deploy.  A   *)
(* key file and a chain file that belong together carry one certificate.   *)
(* Runs do not overlap (the unit is oneshot) and the target has a key      *)
(* path.  The service and its reload command are external: the code knows  *)
(* that a reload may fail, hang until it is killed, or exit 0 without      *)
(* having read the files.                                                  *)
(***************************************************************************)
EXTENDS Naturals, FiniteSets

CONSTANTS
  Certs,           \* certificates; one is used again when nothing holds it
  NoCert,          \* no file, or a service that serves nothing
  MaxDeployFaults  \* bound: failed writes, reloads, checks, and deaths

ASSUME DeployAssumption == NoCert \notin Certs /\ MaxDeployFaults \in Nat

VARIABLES
  mode,        \* the target's mode: "share" or "issue"
  verify,      \* verify_address is set
  offer,       \* what the broker has stored (share)
  targetKey, targetCrt,  \* the target's files
  served,      \* what the service holds in memory
  stage, cert, \* the run: step, and the certificate collected
  reported,    \* observation: a run has failed since the last write began
  cutShort,    \* observation: a run died after it began to write the chain
  deployFaults

target == <<targetKey, targetCrt>>
obs    == <<reported, cutShort>>
deployVars == <<mode, verify, offer, target, served, stage, cert, obs, deployFaults>>

CertsInUse == {offer, targetKey, targetCrt, served, cert}

DeployInit ==
  /\ mode \in {"share", "issue"}
  /\ verify \in BOOLEAN
  /\ offer \in Certs
  /\ targetKey = NoCert /\ targetCrt = NoCert /\ served = NoCert
  /\ stage = "idle" /\ cert = NoCert
  /\ reported = FALSE /\ cutShort = FALSE
  /\ deployFaults = 0

Settings == <<mode, verify, offer>>

RunEnds == stage' = "idle" /\ cert' = NoCert

(* The broker renews what it has stored.                                   *)
BrokerRenews(c) ==
  /\ c \notin CertsInUse
  /\ offer' = c
  /\ UNCHANGED <<mode, verify, target, served, stage, cert, obs, deployFaults>>

(* The service starts again and reads the files, or cannot.                *)
ServiceRestarts ==
  /\ served' = IF targetKey = targetCrt THEN targetCrt ELSE NoCert
  /\ served' # served
  /\ UNCHANGED <<Settings, target, stage, cert, obs, deployFaults>>

-----------------------------------------------------------------------------
(* collect: fetch what the broker has, or have it issue for a key made     *)
(* here, now.  Either way key and chain fit, and Deploy's LoadPair agrees. *)
(* A collection that fails changes nothing.                                *)
Collect(c) ==
  /\ stage = "idle"
  /\ IF mode = "share" THEN c = offer ELSE c \notin CertsInUse
  /\ stage' = "compare" /\ cert' = c
  /\ UNCHANGED <<Settings, target, served, obs, deployFaults>>

(* Fault variant: files that are there are taken for current.              *)
CompareExistsOnly ==
  /\ stage = "compare"
  /\ IF targetCrt # NoCert /\ targetKey # NoCert
       THEN RunEnds ELSE stage' = "writeKey" /\ UNCHANGED cert
  /\ UNCHANGED <<Settings, target, served, obs, deployFaults>>

(* Fault variant: the files are written every time.                        *)
CompareNever ==
  /\ stage = "compare"
  /\ stage' = "writeKey"
  /\ UNCHANGED <<Settings, target, served, cert, obs, deployFaults>>

(* writeIfDifferent reads both files; the same content ends it here.       *)
Compare ==
  /\ stage = "compare"
  /\ IF targetCrt = cert /\ targetKey = cert
       THEN RunEnds ELSE stage' = "writeKey" /\ UNCHANGED cert
  /\ UNCHANGED <<Settings, target, served, obs, deployFaults>>

(* Key first, with its owner.                                              *)
WriteKey ==
  /\ stage = "writeKey"
  /\ targetKey' = cert
  /\ reported' = FALSE /\ cutShort' = FALSE
  /\ stage' = "writeCrt"
  /\ UNCHANGED <<Settings, targetCrt, served, cert, deployFaults>>

WriteCrt ==
  /\ stage = "writeCrt"
  /\ targetCrt' = cert
  /\ stage' = "reload"
  /\ UNCHANGED <<Settings, targetKey, served, cert, obs, deployFaults>>

(* The reload command exits 0, and the service has read the files.         *)
Reload ==
  /\ stage = "reload"
  /\ served' = targetCrt
  /\ stage' = "verify"
  /\ UNCHANGED <<Settings, target, cert, obs, deployFaults>>

(* It exits 0, or there is none, and the service has not.                  *)
ReloadReadsNothing ==
  /\ stage = "reload"
  /\ deployFaults < MaxDeployFaults /\ deployFaults' = deployFaults + 1
  /\ stage' = "verify"
  /\ UNCHANGED <<Settings, target, served, cert, obs>>

(* Fault variant: the exit code of the reload is believed.                 *)
CheckServedTrusts ==
  /\ stage = "verify"
  /\ RunEnds
  /\ UNCHANGED <<Settings, target, served, obs, deployFaults>>

(* servedFingerprint, compared with the chain that was deployed; skipped   *)
(* without an address.                                                     *)
CheckServed ==
  /\ stage = "verify"
  /\ reported' = (reported \/ (verify /\ served # cert))
  /\ RunEnds
  /\ UNCHANGED <<Settings, target, served, cutShort, deployFaults>>

(* A write, a change of owner, the reload or the connection of the check   *)
(* fails, and the run says so.                                             *)
StepFails ==
  /\ stage \in {"writeKey", "writeCrt", "reload"} \cup (IF verify THEN {"verify"} ELSE {})
  /\ deployFaults < MaxDeployFaults /\ deployFaults' = deployFaults + 1
  /\ reported' = TRUE
  /\ RunEnds
  /\ UNCHANGED <<Settings, target, served, cutShort>>

(* The run is killed, or the host loses power; the service goes with it or *)
(* not.                                                                    *)
RunDies ==
  /\ stage # "idle"
  /\ deployFaults < MaxDeployFaults /\ deployFaults' = deployFaults + 1
  /\ cutShort' = (cutShort \/ stage \in {"writeCrt", "reload", "verify"})
  /\ RunEnds
  /\ UNCHANGED <<Settings, target, served, reported>>

DeployStep == Compare \/ WriteKey \/ WriteCrt \/ Reload \/ CheckServed

DeployNext ==
  \/ \E c \in Certs : BrokerRenews(c) \/ Collect(c)
  \/ DeployStep
  \/ ReloadReadsNothing \/ StepFails \/ RunDies
  \/ ServiceRestarts

DeploySpec == DeployInit /\ [][DeployNext]_deployVars

(* The timer keeps starting runs, the broker answers some of them, and a   *)
(* run goes on.                                                            *)
DeployFairness == WF_deployVars(\E c \in Certs : Collect(c)) /\ WF_deployVars(DeployStep)

FairDeploySpec == DeploySpec /\ DeployFairness

-----------------------------------------------------------------------------
(* Every variable has its shape.                                           *)
DeployTypeOK ==
  /\ mode \in {"share", "issue"} /\ verify \in BOOLEAN
  /\ offer \in Certs
  /\ {targetKey, targetCrt, served, cert} \subseteq Certs \cup {NoCert}
  /\ stage \in {"idle", "compare", "writeKey", "writeCrt", "reload", "verify"}
  /\ reported \in BOOLEAN /\ cutShort \in BOOLEAN
  /\ deployFaults \in 0..MaxDeployFaults

(* What no comparable tool does, says deploy.go: with a verify_address, a  *)
(* service that does not serve what is on disk has been reported, and no   *)
(* later run takes that back, though later runs find the files current.    *)
(* Only a run that died in the middle reports nothing.                     *)
StaleServiceReported ==
  (verify /\ stage = "idle" /\ served # targetCrt /\ ~cutShort) => reported

(* Without failures, what the broker has in the end is what the service    *)
(* serves in the end, and nobody has to do anything for it.                *)
ReachesService ==
  \A c \in Certs :
    <>[](mode = "share" /\ offer = c /\ deployFaults = 0) => <>[](served = c)

(* "Nothing happens when nothing changed": once the broker's certificate   *)
(* stays the same, so does the target, and no reload is run any more.      *)
QuietWhenCurrent ==
  \A c \in Certs :
    <>[](mode = "share" /\ offer = c)
      => <>[](stage \notin {"writeKey", "writeCrt", "reload"})
=============================================================================
