------------------------------ MODULE Registry ------------------------------
(***************************************************************************)
(* The agent registry, internal/registry, and the processes that use it:   *)
(* `serve` loads agents.json once and answers requests from memory; each   *)
(* run of `revoke` or `restore` is a process of its own with a registry of *)
(* its own, loaded from and saved to the same file.  A save writes the     *)
(* whole in-memory map.                                                    *)
(***************************************************************************)
EXTENDS Naturals

CONSTANTS
  Agents,        \* agent names
  Commands,      \* command-line processes that may be alive at a time
  Exclusive,     \* whether one process at a time uses agents.json
  None,          \* no state entry, no agent
  MaxFaults      \* bound: failed saves and damage to the file together

States == [revoked : BOOLEAN, seen : BOOLEAN]
StateMaps == [Agents -> States \cup {None}]

ASSUME ConstantsAssumption ==
  /\ Exclusive \in BOOLEAN
  /\ MaxFaults \in Nat
  /\ None \notin States /\ None \notin Agents

VARIABLES
  config,     \* the agents the configuration file names
  file,       \* agents.json
  damaged,    \* agents.json does not parse
  up,         \* serve is running
  known,      \* serve: the configured agents it was started with
  mem,        \* serve: its state map
  cmdPc,      \* per command: "idle", "revoke" or "restore"
  cmdAgent,   \* per command: the agent named
  cmdMem,     \* per command: its state map
  ruled,      \* observation: the last command that succeeded was revoke
  answered,   \* observation: the agent whose request this step answered
  faults

serve == <<up, known, mem>>
commands == <<cmdPc, cmdAgent, cmdMem>>
vars == <<config, file, damaged, serve, commands, ruled, answered, faults>>

-----------------------------------------------------------------------------
Empty == [a \in Agents |-> None]
ZeroState == [revoked |-> FALSE, seen |-> FALSE]

(* Fault variant: state of an agent that is not configured is dropped,     *)
(* revoked or not.                                                         *)
LoadedDropsAll(stored, configured) ==
  [a \in Agents |-> IF a \in configured THEN stored[a] ELSE None]

(* New: what a process keeps of the stored map.                            *)
Loaded(stored, configured) ==
  [a \in Agents |-> IF stored[a] = None THEN None
                    ELSE IF a \in configured \/ stored[a].revoked THEN stored[a]
                    ELSE None]

(* ensure: the agent's entry, created when there is none.                  *)
Ensure(map, a) == IF map[a] = None THEN ZeroState ELSE map[a]

(* Revoked, and the first test of Authorise.                               *)
Revoked(map, a) == IF map[a] = None THEN FALSE ELSE map[a].revoked

(* Seen, Enrolled and Delivered: the entry is stamped, nothing else of it  *)
(* changes.                                                                *)
Touch(map, a) == [map EXCEPT ![a] = [Ensure(map, a) EXCEPT !.seen = TRUE]]

(* Revoke; allowed for an agent that is not configured.                    *)
RevokeIn(map, a) == [map EXCEPT ![a] = [Ensure(map, a) EXCEPT !.revoked = TRUE]]

(* Fault variant: restore leaves the stamp alone.                          *)
RestoreInNothing(map, a) == map

(* Restore; the code returns early when there is nothing to lift.          *)
RestoreIn(map, a) ==
  IF Revoked(map, a) THEN [map EXCEPT ![a].revoked = FALSE] ELSE map

(* persist: one atomic write of the whole map, or a failure that leaves    *)
(* the old file.                                                           *)
Save(map) == file' = map /\ damaged' = FALSE /\ UNCHANGED faults
SaveFails == faults < MaxFaults /\ faults' = faults + 1 /\ UNCHANGED <<file, damaged>>

(* Nobody else has the file loaded.                                        *)
CommandsIdle == \A p \in Commands : cmdPc[p] = "idle"
FileFree == Exclusive => ~up /\ CommandsIdle

-----------------------------------------------------------------------------
Init ==
  /\ config = Agents
  /\ file = Empty
  /\ damaged = FALSE
  /\ up = FALSE /\ known = {} /\ mem = Empty
  /\ cmdPc = [p \in Commands |-> "idle"]
  /\ cmdAgent = [p \in Commands |-> None]
  /\ cmdMem = [p \in Commands |-> Empty]
  /\ ruled = [a \in Agents |-> FALSE]
  /\ answered = None
  /\ faults = 0

(* The operator adds an agent to the configuration or removes it.          *)
EditConfig(a) ==
  /\ config' = IF a \in config THEN config \ {a} ELSE config \cup {a}
  /\ answered' = None
  /\ UNCHANGED <<file, damaged, serve, commands, ruled, faults>>

(* Something outside the program damages agents.json.                      *)
Damage ==
  /\ ~damaged /\ faults < MaxFaults
  /\ damaged' = TRUE
  /\ faults' = faults + 1
  /\ answered' = None
  /\ UNCHANGED <<config, file, serve, commands, ruled>>

(* Fault variant: a file that does not parse is an empty one.              *)
ServeStartsEmpty ==
  /\ ~up /\ FileFree
  /\ up' = TRUE
  /\ known' = config
  /\ mem' = IF damaged THEN Empty ELSE Loaded(file, config)
  /\ answered' = None
  /\ UNCHANGED <<config, file, damaged, commands, ruled, faults>>

(* openBroker in serve: a damaged file is an error, not an empty one.      *)
ServeStart ==
  /\ ~up /\ FileFree /\ ~damaged
  /\ up' = TRUE
  /\ known' = config
  /\ mem' = Loaded(file, config)
  /\ answered' = None
  /\ UNCHANGED <<config, file, damaged, commands, ruled, faults>>

(* Shutdown or death of serve: memory is gone.                             *)
ServeStop ==
  /\ up
  /\ up' = FALSE /\ known' = {} /\ mem' = Empty
  /\ answered' = None
  /\ UNCHANGED <<config, file, damaged, commands, ruled, faults>>

(* fetch and issue: Authorise, then Delivered.  A failed save is logged    *)
(* and the answer goes out all the same.                                   *)
Deliver(a) ==
  /\ up /\ ~Revoked(mem, a) /\ a \in known
  /\ mem' = Touch(mem, a)
  /\ Save(mem') \/ SaveFails
  /\ answered' = a
  /\ UNCHANGED <<config, up, known, commands, ruled>>

(* Identity renewal: mTLSRoute's Revoked test, then Enrolled.  It does not *)
(* ask whether the agent is configured.                                    *)
Renew(a) ==
  /\ up /\ ~Revoked(mem, a)
  /\ mem' = Touch(mem, a)
  /\ Save(mem') \/ SaveFails
  /\ answered' = a
  /\ UNCHANGED <<config, up, known, commands, ruled>>

(* revoke and restore open the broker's state first...                     *)
CommandLoad(p, cmd, a) ==
  /\ cmdPc[p] = "idle" /\ FileFree /\ ~damaged
  /\ cmdPc' = [cmdPc EXCEPT ![p] = cmd]
  /\ cmdAgent' = [cmdAgent EXCEPT ![p] = a]
  /\ cmdMem' = [cmdMem EXCEPT ![p] = Loaded(file, config)]
  /\ answered' = None
  /\ UNCHANGED <<config, file, damaged, serve, ruled, faults>>

CommandEnds(p) ==
  /\ cmdPc' = [cmdPc EXCEPT ![p] = "idle"]
  /\ cmdAgent' = [cmdAgent EXCEPT ![p] = None]
  /\ cmdMem' = [cmdMem EXCEPT ![p] = Empty]
  /\ answered' = None
  /\ UNCHANGED <<config, serve>>

(* ... then change it and save; a save that fails is the command's error.  *)
CommandRevoke(p) ==
  /\ cmdPc[p] = "revoke"
  /\ \/ /\ Save(RevokeIn(cmdMem[p], cmdAgent[p]))
        /\ ruled' = [ruled EXCEPT ![cmdAgent[p]] = TRUE]
     \/ SaveFails /\ UNCHANGED ruled
  /\ CommandEnds(p)

(* restore prints "nothing to do", and does nothing, for an agent it finds *)
(* not revoked.                                                            *)
CommandRestore(p) ==
  /\ cmdPc[p] = "restore"
  /\ IF Revoked(cmdMem[p], cmdAgent[p])
       THEN \/ /\ Save(RestoreIn(cmdMem[p], cmdAgent[p]))
               /\ ruled' = [ruled EXCEPT ![cmdAgent[p]] = FALSE]
            \/ SaveFails /\ UNCHANGED ruled
       ELSE UNCHANGED <<file, damaged, ruled, faults>>
  /\ CommandEnds(p)

(* A command is interrupted before it saved.                               *)
CommandDies(p) ==
  /\ cmdPc[p] # "idle"
  /\ UNCHANGED <<file, damaged, ruled, faults>>
  /\ CommandEnds(p)

Next ==
  \/ \E a \in Agents : EditConfig(a) \/ Deliver(a) \/ Renew(a)
  \/ Damage
  \/ ServeStart
  \/ ServeStop
  \/ \E p \in Commands :
       \/ \E cmd \in {"revoke", "restore"}, a \in Agents : CommandLoad(p, cmd, a)
       \/ CommandRevoke(p) \/ CommandRestore(p) \/ CommandDies(p)

Spec == Init /\ [][Next]_vars

-----------------------------------------------------------------------------
(* Every variable has its shape.                                           *)
TypeOK ==
  /\ config \subseteq Agents
  /\ file \in StateMaps
  /\ damaged \in BOOLEAN
  /\ up \in BOOLEAN
  /\ known \subseteq Agents
  /\ mem \in StateMaps
  /\ cmdPc \in [Commands -> {"idle", "revoke", "restore"}]
  /\ cmdAgent \in [Commands -> Agents \cup {None}]
  /\ cmdMem \in [Commands -> StateMaps]
  /\ ruled \in [Agents -> BOOLEAN]
  /\ answered \in Agents \cup {None}
  /\ faults \in Nat

(* Once `revoke` has succeeded, no request of that agent is answered until *)
(* `restore` has: across restarts of serve, edits of the configuration     *)
(* that remove the agent and add it back, failed saves and a damaged file. *)
RevocationHonoured == answered # None => ~ruled[answered]

(* And no agent is refused as revoked that was not revoked, or was         *)
(* restored.                                                               *)
OnlyRevokedRefused == up => \A a \in Agents : Revoked(mem, a) => ruled[a]

(* A revocation survives in agents.json, whoever saves over it, until it   *)
(* is lifted: the next start of serve finds it.                            *)
RevocationStored ==
  ~damaged => \A a \in Agents : ruled[a] => Revoked(file, a)
=============================================================================
