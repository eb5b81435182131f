--------------------------- MODULE RegistryProofs ---------------------------
(***************************************************************************)
(* For any set of agents and commands, any number of failed saves: if one  *)
(* process at a time uses agents.json, a revocation is honoured.           *)
(***************************************************************************)
EXTENDS Registry, TLAPS

(* Every copy of the state that is in use agrees with the operator's last  *)
(* word: the file, serve's memory, and the copy a command has loaded.      *)
Agreement ==
  /\ \A a \in Agents : Revoked(file, a) <=> ruled[a]
  /\ up => \A a \in Agents : Revoked(mem, a) <=> ruled[a]
  /\ \A p \in Commands : cmdPc[p] # "idle" =>
       /\ cmdAgent[p] \in Agents
       /\ \A a \in Agents : Revoked(cmdMem[p], a) <=> ruled[a]

(* Under exclusive use, serve and the commands exclude each other.         *)
Exclusion ==
  /\ up => CommandsIdle
  /\ \A p, q \in Commands : cmdPc[p] # "idle" /\ cmdPc[q] # "idle" => p = q

IInv == TypeOK /\ Agreement /\ Exclusion /\ RevocationHonoured

(* Loading drops no revocation and makes none up.                          *)
LEMMA LoadedKeeps ==
  ASSUME NEW map \in StateMaps, NEW c
  PROVE  /\ Loaded(map, c) \in StateMaps
         /\ \A a \in Agents : Revoked(Loaded(map, c), a) <=> Revoked(map, a)
BY ConstantsAssumption DEF Loaded, Revoked, StateMaps, States

(* Stamping an entry changes nobody's revocation.                          *)
LEMMA TouchKeeps ==
  ASSUME NEW map \in StateMaps, NEW b \in Agents
  PROVE  /\ Touch(map, b) \in StateMaps
         /\ \A a \in Agents : Revoked(Touch(map, b), a) <=> Revoked(map, a)
BY ConstantsAssumption DEF Touch, Ensure, ZeroState, Revoked, StateMaps, States

(* Revoke and Restore change the one agent they name.                      *)
LEMMA RevokeRestoreOne ==
  ASSUME NEW map \in StateMaps, NEW b \in Agents
  PROVE  /\ RevokeIn(map, b) \in StateMaps
         /\ \A a \in Agents : Revoked(RevokeIn(map, b), a) <=> (a = b \/ Revoked(map, a))
         /\ RestoreIn(map, b) \in StateMaps
         /\ \A a \in Agents : Revoked(RestoreIn(map, b), a) <=> (a # b /\ Revoked(map, a))
<1>1. /\ RevokeIn(map, b) \in StateMaps
      /\ \A a \in Agents : Revoked(RevokeIn(map, b), a) <=> (a = b \/ Revoked(map, a))
  BY ConstantsAssumption DEF RevokeIn, Ensure, ZeroState, Revoked, StateMaps, States
<1>2. /\ RestoreIn(map, b) \in StateMaps
      /\ \A a \in Agents : Revoked(RestoreIn(map, b), a) <=> (a # b /\ Revoked(map, a))
  BY ConstantsAssumption DEF RestoreIn, Revoked, StateMaps, States
<1> QED BY <1>1, <1>2

LEMMA EmptyMap == Empty \in StateMaps /\ \A a \in Agents : ~Revoked(Empty, a)
BY DEF Empty, Revoked, StateMaps

LEMMA InitIInv == Init => IInv
<1> SUFFICES ASSUME Init PROVE IInv
  OBVIOUS
<1>1. TypeOK
  BY ConstantsAssumption, EmptyMap DEF Init, TypeOK
<1>2. \A a \in Agents : ~Revoked(file, a) /\ ~ruled[a]
  BY EmptyMap DEF Init
<1>3. Agreement /\ Exclusion /\ RevocationHonoured
  BY <1>2 DEF Init, Agreement, Exclusion, RevocationHonoured, CommandsIdle
<1> QED BY <1>1, <1>3 DEF IInv

(* Every step keeps the invariant when the file is used exclusively.       *)
LEMMA NextIInv ==
  ASSUME Exclusive, IInv, [Next]_vars
  PROVE  IInv'
<1> USE ConstantsAssumption
<1>1. ASSUME NEW a \in Agents, EditConfig(a) PROVE IInv'
  BY <1>1 DEF EditConfig, IInv, TypeOK, Agreement, Exclusion, RevocationHonoured,
              CommandsIdle, serve, commands
<1>2. CASE Damage
  BY <1>2 DEF Damage, IInv, TypeOK, Agreement, Exclusion, RevocationHonoured,
              CommandsIdle, serve, commands
<1>3. CASE ServeStart
  <2>1. /\ Loaded(file, config) \in StateMaps
        /\ \A a \in Agents : Revoked(Loaded(file, config), a) <=> Revoked(file, a)
    BY LoadedKeeps DEF IInv, TypeOK
  <2> QED
    BY <1>3, <2>1 DEF ServeStart, FileFree, IInv, TypeOK, Agreement, Exclusion,
                      RevocationHonoured, CommandsIdle, commands
<1>4. CASE ServeStop
  BY <1>4, EmptyMap DEF ServeStop, IInv, TypeOK, Agreement, Exclusion,
                        RevocationHonoured, CommandsIdle, commands
<1>5. ASSUME NEW a \in Agents, Deliver(a) \/ Renew(a) PROVE IInv'
  <2>1. /\ up /\ ~Revoked(mem, a) /\ mem' = Touch(mem, a) /\ answered' = a
        /\ Save(mem') \/ SaveFails
        /\ UNCHANGED <<config, up, known, commands, ruled>>
    BY <1>5 DEF Deliver, Renew
  <2>2. /\ mem' \in StateMaps
        /\ \A b \in Agents : Revoked(mem', b) <=> Revoked(mem, b)
    BY <2>1, TouchKeeps DEF IInv, TypeOK
  <2>3. TypeOK'
    <3>1. file' \in StateMaps /\ damaged' \in BOOLEAN /\ faults' \in Nat
      <4>1. CASE Save(mem')
        <5>1. file' = mem' /\ damaged' = FALSE /\ faults' = faults
          BY <4>1, Zenon DEF Save
        <5> QED BY <2>2, <5>1 DEF IInv, TypeOK
      <4>2. CASE SaveFails
        BY <4>2 DEF SaveFails, IInv, TypeOK
      <4> QED BY <2>1, <4>1, <4>2
    <3> QED BY <2>1, <2>2, <3>1 DEF IInv, TypeOK, commands
  <2>4. Agreement'
    BY <2>1, <2>2 DEF Save, SaveFails, IInv, Agreement, commands
  <2>5. Exclusion' /\ RevocationHonoured'
    BY <2>1 DEF IInv, Agreement, Exclusion, RevocationHonoured, CommandsIdle, commands
  <2> QED BY <2>3, <2>4, <2>5 DEF IInv
<1>6. ASSUME NEW p \in Commands, NEW cmd \in {"revoke", "restore"}, NEW a \in Agents,
             CommandLoad(p, cmd, a)
      PROVE  IInv'
  <2>1. /\ Loaded(file, config) \in StateMaps
        /\ \A b \in Agents : Revoked(Loaded(file, config), b) <=> Revoked(file, b)
    BY LoadedKeeps DEF IInv, TypeOK
  <2>2. ~up /\ CommandsIdle
    BY <1>6 DEF CommandLoad, FileFree
  <2>3. TypeOK'
    BY <1>6, <2>1 DEF CommandLoad, IInv, TypeOK, serve
  <2>4. Agreement'
    BY <1>6, <2>1, <2>2 DEF CommandLoad, IInv, TypeOK, Agreement, CommandsIdle, serve
  <2>5. Exclusion' /\ RevocationHonoured'
    BY <1>6, <2>2 DEF CommandLoad, IInv, TypeOK, Exclusion, RevocationHonoured,
                      CommandsIdle, serve
  <2> QED BY <2>3, <2>4, <2>5 DEF IInv
<1>7. ASSUME NEW p \in Commands, cmdPc[p] # "idle", CommandEnds(p),
             file' \in StateMaps, damaged' \in BOOLEAN, faults' \in Nat,
             ruled' \in [Agents -> BOOLEAN],
             \A a \in Agents : Revoked(file', a) <=> ruled'[a]
      PROVE  IInv'
  <2>1. ~up /\ \A q \in Commands : q # p => cmdPc[q] = "idle"
    BY <1>7 DEF IInv, Exclusion, CommandsIdle
  <2>2. TypeOK'
    BY <1>7, EmptyMap DEF CommandEnds, IInv, TypeOK, serve
  <2>3. \A q \in Commands : cmdPc'[q] = "idle"
    BY <1>7, <2>1 DEF CommandEnds, IInv, TypeOK
  <2>4. Agreement' /\ Exclusion' /\ RevocationHonoured'
    BY <1>7, <2>1, <2>3 DEF CommandEnds, Agreement, Exclusion, RevocationHonoured,
                            CommandsIdle, serve
  <2> QED BY <2>2, <2>4 DEF IInv
<1>8. ASSUME NEW p \in Commands, CommandRevoke(p) PROVE IInv'
  <2>1. cmdPc[p] # "idle" /\ CommandEnds(p) /\ cmdAgent[p] \in Agents
        /\ cmdMem[p] \in StateMaps
    BY <1>8 DEF CommandRevoke, IInv, TypeOK, Agreement
  <2>2. CASE Save(RevokeIn(cmdMem[p], cmdAgent[p]))
             /\ ruled' = [ruled EXCEPT ![cmdAgent[p]] = TRUE]
    <3>1. \A a \in Agents : Revoked(file', a) <=> (a = cmdAgent[p] \/ Revoked(cmdMem[p], a))
      BY <2>1, <2>2, RevokeRestoreOne DEF Save
    <3>2. file' \in StateMaps /\ damaged' \in BOOLEAN /\ faults' \in Nat
      BY <2>1, <2>2, RevokeRestoreOne DEF Save, IInv, TypeOK
    <3>3. \A a \in Agents : Revoked(file', a) <=> ruled'[a]
      BY <2>1, <2>2, <3>1 DEF IInv, TypeOK, Agreement
    <3>4. ruled' \in [Agents -> BOOLEAN]
      BY <2>2 DEF IInv, TypeOK
    <3> QED BY <1>7, <2>1, <3>2, <3>3, <3>4
  <2>3. CASE SaveFails /\ UNCHANGED ruled
    BY <1>7, <2>1, <2>3 DEF SaveFails, IInv, TypeOK, Agreement
  <2> QED BY <1>8, <2>2, <2>3 DEF CommandRevoke
<1>9. ASSUME NEW p \in Commands, CommandRestore(p) PROVE IInv'
  <2>1. cmdPc[p] # "idle" /\ CommandEnds(p) /\ cmdAgent[p] \in Agents
        /\ cmdMem[p] \in StateMaps
    BY <1>9 DEF CommandRestore, IInv, TypeOK, Agreement
  <2>2. CASE Save(RestoreIn(cmdMem[p], cmdAgent[p]))
             /\ ruled' = [ruled EXCEPT ![cmdAgent[p]] = FALSE]
    <3>1. \A a \in Agents : Revoked(file', a) <=> (a # cmdAgent[p] /\ Revoked(cmdMem[p], a))
      BY <2>1, <2>2, RevokeRestoreOne DEF Save
    <3>2. file' \in StateMaps /\ damaged' \in BOOLEAN /\ faults' \in Nat
      BY <2>1, <2>2, RevokeRestoreOne DEF Save, IInv, TypeOK
    <3>3. \A a \in Agents : Revoked(file', a) <=> ruled'[a]
      BY <2>1, <2>2, <3>1 DEF IInv, TypeOK, Agreement
    <3>4. ruled' \in [Agents -> BOOLEAN]
      BY <2>2 DEF IInv, TypeOK
    <3> QED BY <1>7, <2>1, <3>2, <3>3, <3>4
  <2>3. CASE SaveFails /\ UNCHANGED ruled
    BY <1>7, <2>1, <2>3 DEF SaveFails, IInv, TypeOK, Agreement
  <2>4. CASE UNCHANGED <<file, damaged, ruled, faults>>
    BY <1>7, <2>1, <2>4 DEF IInv, TypeOK, Agreement
  <2> QED BY <1>9, <2>2, <2>3, <2>4 DEF CommandRestore
<1>10. ASSUME NEW p \in Commands, CommandDies(p) PROVE IInv'
  BY <1>7, <1>10 DEF CommandDies, IInv, TypeOK, Agreement
<1>11. CASE UNCHANGED vars
  BY <1>11 DEF vars, serve, commands, IInv, TypeOK, Agreement, Exclusion,
               RevocationHonoured, CommandsIdle
<1> QED
  BY <1>1, <1>2, <1>3, <1>4, <1>5, <1>6, <1>8, <1>9, <1>10, <1>11 DEF Next

(* The invariant, for a file that one process at a time uses.              *)
LEMMA Invariant ==
  ASSUME Exclusive
  PROVE  Spec => []IInv
<1>1. IInv /\ [Next]_vars => IInv'
  BY NextIInv
<1> QED BY <1>1, InitIInv, PTL DEF Spec

(* When one process at a time uses agents.json, a revoked agent is never   *)
(* answered before it is restored, whatever fails and restarts.            *)
THEOREM RevocationIsHonoured ==
  ASSUME Exclusive
  PROVE  Spec => []RevocationHonoured
<1>1. IInv => RevocationHonoured
  BY DEF IInv
<1> QED BY <1>1, Invariant, PTL

(* Under the same assumption the file keeps the revocation.                *)
THEOREM RevocationIsStored ==
  ASSUME Exclusive
  PROVE  Spec => []RevocationStored
<1>1. IInv => RevocationStored
  BY DEF IInv, Agreement, RevocationStored
<1> QED BY <1>1, Invariant, PTL

(* And nobody is refused without a standing revocation.                    *)
THEOREM OnlyRevokedAreRefused ==
  ASSUME Exclusive
  PROVE  Spec => []OnlyRevokedRefused
<1>1. IInv => OnlyRevokedRefused
  BY DEF IInv, Agreement, OnlyRevokedRefused
<1> QED BY <1>1, Invariant, PTL
=============================================================================
