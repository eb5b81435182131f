----------------------------- MODULE BrokerState -----------------------------
(***************************************************************************)
(* What the broker keeps on its disk and makes on first use: the agent CA  *)
(* (internal/agentca) and the endpoint's TLS pair (broker.go of            *)
(* cmd/flying-certs-server), each of them two files written one after the  *)
(* other; beside them agents.json and the bootstrap tokens, of which this  *)
(* module follows one agent and one token, and the ACME account, which was *)
(* registered before or not at all (Account has the registration).         *)
(* Processes are `serve` and a command; nearly every command opens the     *)
(* broker as `serve` does, and so may create the CA.  Key material is a    *)
(* number: files that belong together carry the same one.                  *)
(***************************************************************************)
EXTENDS Naturals, Sequences, FiniteSets

CONSTANTS
  None,        \* no such file
  MaxFaults    \* bound: deaths, failed writes and lost disks together

(* The directories in the order a walk meets them, each with its files,    *)
(* and the files in the order the walk reads them.  The certificates,      *)
(* whose files CertStore has, are left out.                                *)
Walk == << {"account.json", "account.key"},
           {"agents.json", "broker.crt", "broker.key"},
           {"agent-ca.crt", "agent-ca.key"},
           {"pending"}, {"redeemed"} >>

Order == << "account.json", "account.key", "agents.json", "broker.crt", "broker.key",
            "agent-ca.crt", "agent-ca.key", "pending", "redeemed" >>

Files == {Order[i] : i \in 1..Len(Order)}

ASSUME BrokerStateAssumption ==
  /\ MaxFaults \in Nat
  /\ None \notin Nat /\ None \notin {"clear", "revoked"}
  /\ \A fs \in SUBSET Files : fs # None

Procs == {"serve", "command"}

VARIABLES
  disk,         \* the content of each file, or None
  pc,           \* per process: its step
  ca,           \* per process: the CA it read or made, as its two parts
  tls,          \* serve: the endpoint's pair, None when it is the operator's
  shut,         \* serve: its copy of the agent's entry in agents.json
  roots,        \* how many CAs were made
  issued,       \* the token has been issued
  faults

procVars == <<pc, ca, tls, shut>>
stateVars == <<disk, procVars, roots, issued, faults>>

-----------------------------------------------------------------------------
Empty == [f \in Files |-> None]
NoCA == [crt |-> None, key |-> None]

Write(f, content) == disk' = [disk EXCEPT ![f] = content]
Goto(p, step) == pc' = [pc EXCEPT ![p] = step]

(* The process ends, well or not, and what it had in memory is gone.       *)
Ends(p) ==
  /\ Goto(p, "idle")
  /\ ca' = [ca EXCEPT ![p] = NoCA]
  /\ tls' = IF p = "serve" THEN None ELSE tls
  /\ shut' = IF p = "serve" THEN "clear" ELSE shut

(* Both files are there and belong together.                               *)
Whole(a, b) == disk[a] # None /\ disk[a] = disk[b]

(* Operating rule: as long as there is no CA, one process at a time.       *)
(* OpenOrCreate looks and then acts, so two first commands would each make *)
(* one.                                                                    *)
MayOpen(p) ==
  \/ Whole("agent-ca.crt", "agent-ca.key")
  \/ \A q \in Procs \ {p} : pc[q] \in {"idle", "up"}

(* A CA that can sign: x509.CreateCertificate refuses a key that is not    *)
(* the parent certificate's.                                               *)
Signs(p) == ca[p].crt = ca[p].key

Init ==
  /\ disk \in {Empty, [Empty EXCEPT !["account.json"] = 1, !["account.key"] = 1]}
  /\ pc = [p \in Procs |-> "idle"]
  /\ ca = [p \in Procs |-> NoCA]
  /\ tls = None /\ shut = "clear"
  /\ roots = 0 /\ issued = FALSE
  /\ faults = 0

-----------------------------------------------------------------------------
(* openBroker: the CA.  Nobody writes it while another process opens it,   *)
(* so what OpenOrCreate reads is one step.                                 *)

Opened(p) ==
  /\ ca' = [ca EXCEPT ![p] = [crt |-> disk["agent-ca.crt"], key |-> disk["agent-ca.key"]]]
  /\ Goto(p, "opened")
  /\ UNCHANGED <<tls, shut, roots>>

Created(p) ==
  /\ roots' = roots + 1
  /\ ca' = [ca EXCEPT ![p] = [crt |-> roots', key |-> roots']]
  /\ Goto(p, "create.key")
  /\ UNCHANGED <<tls, shut>>

(* Fault variant: a certificate without its key is no CA.                  *)
OpenOrCreateWhole(p) ==
  /\ pc[p] = "idle" /\ MayOpen(p)
  /\ IF disk["agent-ca.crt"] # None /\ disk["agent-ca.key"] # None
       THEN Opened(p) ELSE Created(p)
  /\ UNCHANGED <<disk, issued, faults>>

(* Open fails on a certificate without its key, and does not ask whether   *)
(* the two belong together.  Without a certificate Create makes a new      *)
(* root, and refuses when there is a key.                                  *)
OpenOrCreate(p) ==
  /\ pc[p] = "idle" /\ MayOpen(p)
  /\ \/ disk["agent-ca.crt"] # None /\ disk["agent-ca.key"] # None /\ Opened(p)
     \/ disk["agent-ca.crt"] = None /\ disk["agent-ca.key"] = None /\ Created(p)
  /\ UNCHANGED <<disk, issued, faults>>

CreateKey(p) ==
  /\ pc[p] = "create.key"
  /\ Write("agent-ca.key", ca[p].key)
  /\ Goto(p, "create.crt")
  /\ UNCHANGED <<ca, tls, shut, roots, issued, faults>>

CreateCertificate(p) ==
  /\ pc[p] = "create.crt"
  /\ Write("agent-ca.crt", ca[p].crt)
  /\ Goto(p, "opened")
  /\ UNCHANGED <<ca, tls, shut, roots, issued, faults>>

-----------------------------------------------------------------------------
(* cmdServe, with the rest of openBroker.                                  *)

(* A number for a new TLS pair: one that no pair in sight has.             *)
NewPair(others) ==
  LET used == {x.no : x \in ({disk["broker.crt"], disk["broker.key"]} \cup others) \ {None}}
  IN  [root |-> ca["serve"].crt, no |-> CHOOSE n \in 0..4 : n \notin used]

(* registry.New loads agents.json; a missing file is an empty one.         *)
LoadAgents == shut' = IF disk["agents.json"] = None THEN "clear" ELSE disk["agents.json"]

(* SignServer for a new endpoint pair, whose name is the host in listen,   *)
(* if the CA can sign.                                                     *)
SignServer(others) ==
  IF Signs("serve")
    THEN /\ tls' = NewPair(others)
         /\ Goto("serve", "tls.crt")
         /\ LoadAgents
         /\ UNCHANGED ca
    ELSE Ends("serve")

UsePair(pair) ==
  /\ tls' = pair
  /\ Goto("serve", "up")
  /\ LoadAgents
  /\ UNCHANGED ca

(* The configuration is refused: server_cert and server_key do not load,   *)
(* or there is no pair at all and listen names no host to make one for.    *)
Refuse ==
  /\ Goto("serve", "refused")
  /\ UNCHANGED <<ca, tls, shut>>

(* Fault variant: only a missing certificate makes it issue one.           *)
ServerCertificateIfMissing(others) ==
  /\ pc["serve"] = "opened"
  /\ \/ UsePair(None) \/ Refuse
     \/ IF disk["broker.crt"] # None
          THEN IF Whole("broker.crt", "broker.key") THEN UsePair(disk["broker.crt"])
               ELSE Ends("serve")
          ELSE SignServer(others)
  /\ UNCHANGED <<disk, roots, issued, faults>>

(* The rest of openBroker and brokerServerCertificate, which nobody else's *)
(* writes come between.  The configuration that serve was started with     *)
(* decides: the operator's pair is used, whoever signed it, if one is      *)
(* configured; else a stored pair that loads, whoever signed it and        *)
(* however old; else a new one is made.                                    *)
ServerCertificate(others) ==
  /\ pc["serve"] = "opened"
  /\ \/ UsePair(None) \/ Refuse
     \/ IF Whole("broker.crt", "broker.key") THEN UsePair(disk["broker.crt"])
        ELSE SignServer(others)
  /\ UNCHANGED <<disk, roots, issued, faults>>

(* serve reports the error and exits.                                      *)
ServeExits ==
  /\ pc["serve"] = "refused"
  /\ Ends("serve")
  /\ UNCHANGED <<disk, roots, issued, faults>>

ServerCertificateCrt ==
  /\ pc["serve"] = "tls.crt"
  /\ Write("broker.crt", tls)
  /\ Goto("serve", "tls.key")
  /\ UNCHANGED <<ca, tls, shut, roots, issued, faults>>

(* The key is written and the pair loaded: only serve writes these files.  *)
ServerCertificateKey ==
  /\ pc["serve"] = "tls.key"
  /\ Write("broker.key", tls)
  /\ Goto("serve", "up")
  /\ UNCHANGED <<ca, tls, shut, roots, issued, faults>>

(* handleEnrol: a token that names this CA is spent; then the agent gets   *)
(* an identity, and the registry is saved, unless it is revoked or nothing *)
(* can be signed.  (TokenStore has the steps of the redemption.)           *)
Enrol ==
  /\ pc["serve"] = "up"
  /\ disk["pending"] # None /\ disk["pending"] = ca["serve"].crt
  /\ LET spent == [disk EXCEPT !["pending"] = None, !["redeemed"] = disk["pending"]]
     IN  disk' = IF shut = "clear" /\ Signs("serve")
                   THEN [spent EXCEPT !["agents.json"] = shut]
                   ELSE spent
  /\ UNCHANGED <<procVars, roots, issued, faults>>

Stop ==
  /\ pc["serve"] = "up"
  /\ Ends("serve")
  /\ UNCHANGED <<disk, roots, issued, faults>>

-----------------------------------------------------------------------------
(* Commands that opened the broker: `token`, `revoke` and those that only  *)
(* look.  (`restore`, which lifts a revocation, is in Registry.)           *)
Token ==
  /\ pc["command"] = "opened" /\ ~issued
  /\ Write("pending", ca["command"].crt)
  /\ issued' = TRUE
  /\ Ends("command")
  /\ UNCHANGED <<roots, faults>>

(* Operating rule: serve is down, since it keeps its own copy and writes   *)
(* it back (Registry).                                                     *)
Revoke ==
  /\ pc["command"] = "opened" /\ pc["serve"] = "idle"
  /\ Write("agents.json", "revoked")
  /\ Ends("command")
  /\ UNCHANGED <<roots, issued, faults>>

Look ==
  /\ pc["command"] = "opened"
  /\ Ends("command")
  /\ UNCHANGED <<disk, roots, issued, faults>>

-----------------------------------------------------------------------------
(* A write fails or the process dies: what it wrote so far stays.          *)
Fails(p) ==
  /\ pc[p] \notin {"idle", "refused", "up"}
  /\ faults < MaxFaults
  /\ faults' = faults + 1
  /\ Ends(p)
  /\ UNCHANGED <<disk, roots, issued>>

Creating(p) == CreateKey(p) \/ CreateCertificate(p)

Serve(others) ==
  \/ Creating("serve") \/ ServerCertificate(others)
  \/ ServerCertificateCrt \/ ServerCertificateKey \/ ServeExits

Command ==
  \/ Creating("command") \/ Token \/ Revoke \/ Look
=============================================================================
