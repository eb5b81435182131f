----------------------------- MODULE AgentHost ------------------------------
(***************************************************************************)
(* One host, cmd/flying-certs-agent with internal/agent/identity.go and    *)
(* internal/devicekey: the device key, the identity's three files, and the *)
(* commands that read and replace them: `keygen`, `enrol` with the device  *)
(* key or a token, and the `run` a timer starts.  One action is one file   *)
(* operation or one exchange with the broker, which is external here       *)
(* (BrokerAPI models it): it grants an identity, refuses, or its answer is *)
(* lost.  A key and a certificate that belong together carry one serial.   *)
(* What `run` does with the identity afterwards is module Deploy.          *)
(***************************************************************************)
EXTENDS Naturals, FiniteSets

CONSTANTS
  Procs,       \* agent commands that may be alive at a time
  Serials,     \* issued identities; one is reused when nothing holds it
  Life,        \* lifetime of an identity, in ticks
  StartAges,   \* how old an identity may be when issued: they are backdated
  None,        \* no file
  MaxFaults    \* bound: failed writes and deaths together

ASSUME ConstantsAssumption ==
  /\ Life \in Nat \ {0}
  /\ StartAges \subseteq 0..(Life - 1)
  /\ MaxFaults \in Nat
  /\ None \notin Serials

VARIABLES
  deviceKey, ca,        \* device.key and broker-ca.crt exist
  key, crt,             \* agent.key and agent.crt: a serial or None
  age,                  \* of each serial, stopping at Life
  pc, cmd,              \* per command: step, and which command it is
  why,                  \* per command: who called LoadIdentity
  seen, id, new,        \* per command: certificate read, identity in use,
                        \* identity just granted
  minted,               \* observation: identities this command was given
  torn,                 \* observation: a save stopped between its writes
  faults

files   == <<deviceKey, ca, key, crt>>
command == <<pc, cmd, why, seen, id, new, minted>>
vars == <<files, age, command, torn, faults>>

-----------------------------------------------------------------------------
(* certinfo on the identity.                                               *)
ExpiredAt(s) == age[s] >= Life
NeedsRenewalAt(s) == 3 * age[s] >= 2 * Life

InUse == {key, crt} \cup UNION {{seen[p], id[p], new[p]} : p \in Procs}

Init ==
  /\ deviceKey = FALSE /\ ca = FALSE /\ key = None /\ crt = None
  /\ age = [s \in Serials |-> 0]
  /\ pc = [p \in Procs |-> "idle"]
  /\ cmd = [p \in Procs |-> "run"]
  /\ why = [p \in Procs |-> "ensure"]
  /\ seen = [p \in Procs |-> None]
  /\ id = [p \in Procs |-> None]
  /\ new = [p \in Procs |-> None]
  /\ minted = [p \in Procs |-> 0]
  /\ torn = FALSE
  /\ faults = 0

(* Time passes, also while the host is off: nobody has to start a command. *)
Tick ==
  /\ age' = [s \in Serials |->
              IF s \notin InUse THEN 0
              ELSE IF age[s] < Life THEN age[s] + 1 ELSE Life]
  /\ age' # age
  /\ UNCHANGED <<files, command, torn, faults>>

-----------------------------------------------------------------------------
Goes(p, step) ==
  /\ pc' = [pc EXCEPT ![p] = step]
  /\ UNCHANGED <<cmd, why, seen, id, new, minted>>

Loads(p, caller) ==
  /\ pc' = [pc EXCEPT ![p] = "loadCrt"]
  /\ why' = [why EXCEPT ![p] = caller]
  /\ seen' = [seen EXCEPT ![p] = None]
  /\ UNCHANGED <<cmd, id, new, minted>>

Ends(p) ==
  /\ pc' = [pc EXCEPT ![p] = "idle"]
  /\ cmd' = [cmd EXCEPT ![p] = "run"]
  /\ why' = [why EXCEPT ![p] = "ensure"]
  /\ seen' = [seen EXCEPT ![p] = None]
  /\ id' = [id EXCEPT ![p] = None]
  /\ new' = [new EXCEPT ![p] = None]
  /\ minted' = [minted EXCEPT ![p] = 0]

(* Go on with identity s, to use it or to renew it first.                  *)
Uses(p, s, step) ==
  /\ pc' = [pc EXCEPT ![p] = step]
  /\ id' = [id EXCEPT ![p] = s]
  /\ seen' = [seen EXCEPT ![p] = None]
  /\ new' = [new EXCEPT ![p] = None]
  /\ UNCHANGED <<cmd, why, minted>>

(* `keygen`: LoadOrCreate.                                                 *)
Keygen ==
  /\ ~deviceKey
  /\ deviceKey' = TRUE
  /\ UNCHANGED <<ca, key, crt, age, command, torn, faults>>

(* A command starts.  Enrolling needs the broker's CA certificate, stored  *)
(* or passed with -broker-ca.  With a token the stored identity is looked  *)
(* at first; with the device key it is not.                                *)
StartRun(p) ==
  /\ pc[p] = "idle"
  /\ Loads(p, "ensure")
  /\ UNCHANGED <<files, age, torn, faults>>

StartTokenEnrol(p, caGiven) ==
  /\ pc[p] = "idle"
  /\ caGiven \/ ca
  /\ pc' = [pc EXCEPT ![p] = "loadCrt"]
  /\ why' = [why EXCEPT ![p] = "token"]
  /\ cmd' = [cmd EXCEPT ![p] = "token"]
  /\ UNCHANGED <<files, age, seen, id, new, minted, torn, faults>>

StartDeviceEnrol(p, caGiven) ==
  /\ pc[p] = "idle"
  /\ caGiven \/ ca
  /\ deviceKey
  /\ pc' = [pc EXCEPT ![p] = "ask"]
  /\ cmd' = [cmd EXCEPT ![p] = "enrol"]
  /\ UNCHANGED <<files, age, why, seen, id, new, minted, torn, faults>>

-----------------------------------------------------------------------------
(* LoadIdentity's callers, with its verdict: "none" (ErrNotEnrolled),      *)
(* "broken" (any other error) or "ok", and the certificate read.           *)

(* Fault variant: an expired identity is refused like a broken one, as     *)
(* before ADR-18.                                                          *)
EnsureIdentityNoRecovery(p, verdict, s) ==
  IF verdict = "ok" /\ ~ExpiredAt(s)
    THEN Uses(p, s, IF NeedsRenewalAt(s) THEN "renew" ELSE "use")
  ELSE IF verdict = "none" /\ deviceKey /\ ca THEN Goes(p, "ask")
  ELSE Ends(p)

(* ensureIdentity and what cmdRun does next: a valid identity is used, and *)
(* renewed when due; a broken one is reported; an expired or missing one   *)
(* is replaced with the device key, if that and the CA are there.          *)
EnsureIdentity(p, verdict, s) ==
  IF verdict = "ok" /\ ~ExpiredAt(s)
    THEN Uses(p, s, IF NeedsRenewalAt(s) THEN "renew" ELSE "use")
  ELSE IF verdict # "broken" /\ deviceKey /\ ca THEN Goes(p, "ask")
  ELSE Ends(p)

(* Fault variant: whatever is stored is replaced, the token being there.   *)
TokenEnrolRegardless(p, verdict) == Goes(p, "ask")

(* cmdEnrol with a token: only a host without any identity goes on.        *)
TokenEnrol(p, verdict) ==
  IF verdict = "none" THEN Goes(p, "ask") ELSE Ends(p)

(* SaveIdentity ends by loading what it wrote.  A renewal that fails in    *)
(* any way leaves `run` with the identity it holds; an `enrol` is over;    *)
(* the device-key path of `run` loads once more.                           *)
Saved(p, verdict) ==
  IF id[p] # None THEN Uses(p, id[p], "use")
  ELSE IF cmd[p] = "run" /\ verdict = "ok" THEN Loads(p, "fresh")
  ELSE Ends(p)

(* Fault variant: a new identity is treated like one found on disk.        *)
FreshIdentityRenewed(p, verdict, s) ==
  IF verdict = "ok" /\ ~ExpiredAt(s)
    THEN Uses(p, s, IF NeedsRenewalAt(s) THEN "renew" ELSE "use")
    ELSE Ends(p)

(* A new identity is used as it is, due or not; NewClient refuses one that *)
(* has expired meanwhile.                                                  *)
FreshIdentity(p, verdict, s) ==
  IF verdict = "ok" /\ ~ExpiredAt(s) THEN Uses(p, s, "use") ELSE Ends(p)

Loaded(p, verdict, s) ==
  \/ why[p] = "ensure" /\ EnsureIdentity(p, verdict, s)
  \/ why[p] = "token"  /\ TokenEnrol(p, verdict)
  \/ why[p] = "saved"  /\ Saved(p, verdict)
  \/ why[p] = "fresh"  /\ FreshIdentity(p, verdict, s)

(* LoadIdentity reads the certificate ...                                  *)
LoadCrt(p) ==
  /\ pc[p] = "loadCrt"
  /\ IF crt = None
       THEN Loaded(p, "none", None)
       ELSE /\ pc' = [pc EXCEPT ![p] = "loadKey"]
            /\ seen' = [seen EXCEPT ![p] = crt]
            /\ UNCHANGED <<cmd, why, id, new, minted>>
  /\ UNCHANGED <<files, age, torn, faults>>

(* ... then the key and the CA, and compares.                              *)
LoadKey(p) ==
  /\ pc[p] = "loadKey"
  /\ Loaded(p, IF key = seen[p] /\ ca THEN "ok" ELSE "broken", seen[p])
  /\ UNCHANGED <<files, age, torn, faults>>

-----------------------------------------------------------------------------
(* The broker grants an identity: for the token or the device key, or for  *)
(* the identity in use, which the handshake refuses once it has expired.   *)
Granted(p, s, startAge) ==
  /\ pc[p] \in {"ask", "renew"}
  /\ pc[p] = "renew" => ~ExpiredAt(id[p])
  /\ s \notin InUse
  /\ age' = [age EXCEPT ![s] = startAge]
  /\ new' = [new EXCEPT ![p] = s]
  /\ minted' = [minted EXCEPT ![p] = @ + 1]
  /\ pc' = [pc EXCEPT ![p] = "saveKey"]
  /\ UNCHANGED <<files, cmd, why, seen, id, torn, faults>>

(* It refuses, or its answer is lost.  Fatal, except for a renewal.        *)
NotGranted(p) ==
  /\ \/ pc[p] = "ask" /\ Ends(p)
     \/ pc[p] = "renew" /\ Goes(p, "use")
  /\ UNCHANGED <<files, age, torn, faults>>

(* SaveIdentity: key first, then certificate, then the CA if it came with  *)
(* the answer, which a renewal's does not bring.                           *)
SaveKey(p) ==
  /\ pc[p] = "saveKey"
  /\ key' = new[p]
  /\ Goes(p, "saveCrt")
  /\ UNCHANGED <<deviceKey, ca, crt, age, torn, faults>>

(* Fault variant: the certificate is only written where there is none.     *)
SaveCrtOnce(p) ==
  /\ pc[p] = "saveCrt"
  /\ crt' = IF crt = None THEN new[p] ELSE crt
  /\ IF id[p] # None THEN Loads(p, "saved") ELSE Goes(p, "saveCA")
  /\ UNCHANGED <<deviceKey, ca, key, age, torn, faults>>

SaveCrt(p) ==
  /\ pc[p] = "saveCrt"
  /\ crt' = new[p]
  /\ IF id[p] # None THEN Loads(p, "saved") ELSE Goes(p, "saveCA")
  /\ UNCHANGED <<deviceKey, ca, key, age, torn, faults>>

SaveCA(p) ==
  /\ pc[p] = "saveCA"
  /\ ca' = TRUE
  /\ Loads(p, "saved")
  /\ UNCHANGED <<deviceKey, key, crt, age, torn, faults>>

(* The certificates are collected and deployed (module Deploy).            *)
UseIdentity(p) ==
  /\ pc[p] = "use"
  /\ Ends(p)
  /\ UNCHANGED <<files, age, torn, faults>>

-----------------------------------------------------------------------------
HalfSaved(p) == pc[p] \in {"saveCrt", "saveCA"}

(* One of SaveIdentity's writes fails.                                     *)
SaveFails(p) ==
  /\ pc[p] \in {"saveKey", "saveCrt", "saveCA"}
  /\ faults < MaxFaults
  /\ faults' = faults + 1
  /\ torn' = (torn \/ HalfSaved(p))
  /\ IF id[p] # None THEN Uses(p, id[p], "use") ELSE Ends(p)
  /\ UNCHANGED <<files, age>>

(* The command is killed, or the host loses power.                         *)
Dies(p) ==
  /\ pc[p] # "idle"
  /\ faults < MaxFaults
  /\ faults' = faults + 1
  /\ torn' = (torn \/ HalfSaved(p))
  /\ Ends(p)
  /\ UNCHANGED <<files, age>>

Grant(p) == \E s \in Serials, a \in StartAges : Granted(p, s, a)

Step(p) ==
  \/ LoadCrt(p) \/ LoadKey(p) \/ Grant(p) \/ NotGranted(p)
  \/ SaveKey(p) \/ SaveCrt(p) \/ SaveCA(p) \/ UseIdentity(p)

Next ==
  \/ Tick
  \/ Keygen
  \/ \E p \in Procs :
       \/ StartRun(p) \/ Step(p) \/ SaveFails(p) \/ Dies(p)
       \/ \E given \in BOOLEAN : StartTokenEnrol(p, given) \/ StartDeviceEnrol(p, given)

Spec == Init /\ [][Next]_vars

(* The timer keeps starting `run`, a command that is alive goes on, and    *)
(* the broker does not refuse the device key of a run for ever.  Nobody    *)
(* has to run `keygen` or `enrol`, and time need not pass.                 *)
Fairness ==
  \A p \in Procs :
    /\ SF_vars(StartRun(p))
    /\ WF_vars(Step(p))
    /\ SF_vars(pc[p] = "ask" /\ cmd[p] = "run" /\ Grant(p))

FairSpec == Spec /\ Fairness

(* The same with an operator who keeps enrolling the host with tokens that *)
(* the broker accepts in the end.                                          *)
TokenSpec ==
  /\ FairSpec
  /\ \A p \in Procs :
       /\ SF_vars(StartTokenEnrol(p, TRUE))
       /\ SF_vars(pc[p] = "ask" /\ cmd[p] = "token" /\ Grant(p))

-----------------------------------------------------------------------------
(* Every variable has its shape.                                           *)
TypeOK ==
  /\ deviceKey \in BOOLEAN /\ ca \in BOOLEAN
  /\ {key, crt} \subseteq Serials \cup {None}
  /\ age \in [Serials -> 0..Life]
  /\ pc \in [Procs -> {"idle", "loadCrt", "loadKey", "ask", "renew",
                       "saveKey", "saveCrt", "saveCA", "use"}]
  /\ cmd \in [Procs -> {"run", "token", "enrol"}]
  /\ why \in [Procs -> {"ensure", "token", "saved", "fresh"}]
  /\ seen \in [Procs -> Serials \cup {None}]
  /\ id \in [Procs -> Serials \cup {None}]
  /\ new \in [Procs -> Serials \cup {None}]
  /\ minted \in [Procs -> Nat]
  /\ torn \in BOOLEAN
  /\ faults \in 0..MaxFaults

(* The stored identity is whole unless a save stopped between its writes:  *)
(* no refusal, lost answer or death at another moment, in any number of    *)
(* runs, leaves a key, a certificate and a CA that do not fit, which `run` *)
(* would report for ever instead of asking again.                          *)
IdentityWhole ==
  (~torn /\ \A p \in Procs : ~HalfSaved(p)) =>
     key = crt /\ (crt # None => ca)

(* cmdRun: "asking again in the same run would mint a second certificate   *)
(* for nothing".  The broker mints one at most for a command, though a new *)
(* one may be due for renewal, or expired, by the time it is loaded.       *)
MintsOneIdentity == \A p \in Procs : minted[p] <= 1

(* A working identity that is not due is replaced by nobody but an         *)
(* operator who enrols with the device key: neither by the timer nor by a  *)
(* token, though the decision is taken several steps before the write.     *)
WorkingIdentityKept ==
  [][\A p \in Procs :
       (/\ pc[p] = "saveKey" /\ pc'[p] = "saveCrt"
        /\ key = crt /\ crt # None /\ ca /\ ~NeedsRenewalAt(crt))
         => cmd[p] = "enrol"]_vars

(* ADR-18: a host with its device key and the broker's CA comes to collect *)
(* its certificates again and again, or at least to store a new identity   *)
(* that fits (one may expire before it is loaded), however long it was off *)
(* and whatever was refused, unless a save was torn.                       *)
ComesBack ==
  (deviceKey /\ ca /\ ~torn)
    ~> (torn \/ \E p \in Procs : pc[p] = "use" \/ why[p] = "fresh")

(* `run` and `status` say of a host whose identity expired and that has no *)
(* device key: "enrol it again with a token".  Doing so replaces the       *)
(* expired identity.                                                       *)
TokenBringsBack ==
  LET lapsed == crt # None /\ ExpiredAt(crt)
  IN  (lapsed /\ ~deviceKey /\ ~torn) ~> (~lapsed \/ deviceKey \/ torn)
=============================================================================
