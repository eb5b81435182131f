------------------------------- MODULE Review -------------------------------
(***************************************************************************)
(* `check`, the command meant for a timer: Registry.Review over what the   *)
(* broker recorded about an agent, beside what its host really holds.  The *)
(* broker learns of an expiry only when it signs an identity, and the      *)
(* answer that carries the identity may be lost.  It keeps what it knows   *)
(* in memory and saves it to agents.json, which `check`, another process,  *)
(* reads; a save that fails is only logged.  Agents do not influence each  *)
(* other here, so the model follows one.  Times are kept as what is left   *)
(* or has passed, so that no clock runs; an unlimited identity ends with   *)
(* the CA, which is beyond the horizon of this module (BrokerAPI has it).  *)
(***************************************************************************)
EXTENDS Lifetime

CONSTANTS
  Written,       \* the lifetimes the operator may write, as Texts
  DefaultLife,   \* DefaultAgentLifetime
  SilentAfter,   \* defaultSilentAfter
  WarnBefore,    \* defaultWarnBefore
  CheckEvery,    \* the timer runs `check` at least this often
  None

(* The kinds of Concern that Review tells apart.                           *)
Findings == {"none", "never enrolled", "silent", "lockout soon", "locked out", "unlimited"}

ASSUME ReviewAssumption ==
  /\ Written \subseteq Texts
  /\ DefaultLife \in Nat \ {0} /\ SilentAfter \in Nat \ {0} /\ CheckEvery \in Nat \ {0}
  /\ WarnBefore \in Nat \ {0} /\ 3 * WarnBefore <= DefaultLife
  /\ None \notin Int /\ None \notin Findings /\ None # Unlimited

VARIABLES
  own, wide,      \* identity_lifetime of the agent and of the broker, as written
  deviceKey,      \* the agent is configured with a device key
  seen,           \* serve: time since LastSeen, stopping past SilentAfter, or None
  recorded,       \* serve: time until IdentityExpires, or None
  fileSeen,       \* agents.json: LastSeen, likewise
  fileExpires,    \* agents.json: IdentityExpires, likewise
  revoked,        \* agents.json, and serve: RevokedAt is set
  held,           \* host: time left of its identity, or None
  life,           \* host: the lifetime its identity was signed for
  on,             \* host: it runs
  unchecked,      \* time since the last `check`
  finding,        \* observation: what the step reported, when it was a `check`
  warned,         \* observation: a `check` reported the agent while the
                  \* identity its host holds was valid
  signed,         \* observation: time left of the identity signed last, or None
  excused         \* observation: since the host got its identity, an answer
                  \* was lost, the agent was revoked, or agents.json knew
                  \* that it was seen and not when its identity ends

configVars == <<own, wide, deviceKey>>
memoryVars == <<seen, recorded>>
fileVars   == <<fileSeen, fileExpires>>
brokerVars == <<memoryVars, fileVars, revoked>>
hostVars   == <<held, life, on>>
vars == <<configVars, brokerVars, hostVars, unchecked, finding, warned, signed, excused>>

-----------------------------------------------------------------------------
(* Fault variant: the broker's lifetime wins.                              *)
LifetimeForWide == Or(Or(Parse(wide), Parse(own)), DefaultLife)

(* lifetimeFor and agentNotAfter: the lifetime an identity is signed for.  *)
LifetimeFor == Or(Or(Parse(own), Parse(wide)), DefaultLife)

(* An identity is due at two thirds of its life, as certinfo has it.       *)
Due == held # None /\ held # Unlimited /\ 3 * (life - held) >= 2 * life

Valid == held # None /\ held # 0

(* Fault variant: the threshold is not scaled.                             *)
EffectiveWarnBeforeFixed(span) == WarnBefore

(* effectiveWarnBefore: a third of the agent's own lifetime, at most the   *)
(* configured threshold.  The broker's lifetime is not asked.              *)
EffectiveWarnBefore(span) ==
  IF span = Unset \/ span = Unlimited \/ span \div 3 >= WarnBefore
    THEN WarnBefore ELSE span \div 3

Expiring(within) == fileExpires # None /\ fileExpires # Unlimited /\ fileExpires <= within

(* Fault variant: an identity that runs out is worth a word only when the  *)
(* agent is silent as well.                                                *)
ConcernWhenSilent ==
  IF revoked THEN "none"
  ELSE IF fileSeen = None THEN "never enrolled"
  ELSE IF Expiring(0) /\ ~deviceKey THEN "locked out"
  ELSE IF fileSeen > SilentAfter
    THEN IF Expiring(EffectiveWarnBefore(Parse(own)) - 1) /\ ~deviceKey
           THEN "lockout soon" ELSE "silent"
  ELSE "none"

(* Fault variant: what has expired was retired.                            *)
ConcernUnlessExpired ==
  IF revoked \/ Expiring(0) THEN "none"
  ELSE IF fileSeen = None THEN "never enrolled"
  ELSE IF Expiring(EffectiveWarnBefore(Parse(own)) - 1) /\ ~deviceKey THEN "lockout soon"
  ELSE IF fileSeen > SilentAfter THEN "silent" ELSE "none"

(* Review, for this agent as `check` loaded it: the first of its cases     *)
(* that applies.                                                           *)
Concern ==
  IF revoked THEN "none"
  ELSE IF fileSeen = None THEN "never enrolled"
  ELSE IF Expiring(0) /\ ~deviceKey THEN "locked out"
  ELSE IF Expiring(EffectiveWarnBefore(Parse(own)) - 1) /\ ~deviceKey THEN "lockout soon"
  ELSE IF fileSeen > SilentAfter THEN "silent"
  ELSE IF Parse(own) = Unlimited THEN "unlimited"
  ELSE "none"

(* Concern.NeedsAction, which decides the exit code.                       *)
NeedsAction(c) == c \in {"never enrolled", "silent", "lockout soon", "locked out"}

(* A configuration that loads: UnmarshalYAML refused no lifetime.          *)
Init ==
  /\ own \in {t \in Written : Parse(t) # Refused}
  /\ wide \in {t \in Written : Parse(t) # Refused}
  /\ deviceKey \in BOOLEAN
  /\ seen = None /\ recorded = None /\ revoked = FALSE
  /\ fileSeen = None /\ fileExpires = None
  /\ held = None /\ life = DefaultLife /\ on = TRUE
  /\ unchecked = 0
  /\ finding = None /\ warned = FALSE /\ signed = None /\ excused = FALSE

-----------------------------------------------------------------------------
(* persist: all of serve's memory, or nothing.                             *)
Persist(saved) ==
  IF saved THEN fileSeen' = seen' /\ fileExpires' = recorded' ELSE UNCHANGED fileVars

(* New, when serve is started.                                             *)
Load == seen' = fileSeen /\ recorded' = fileExpires

(* The file says that the agent was seen and not when its identity ends.   *)
Blind == fileSeen # None /\ fileExpires = None

(* SignAgent, Enrolled, and the answer on its way back, which a failed     *)
(* save does not hold up.                                                  *)
Sign(arrives, saved) ==
  /\ seen' = 0
  /\ recorded' = LifetimeFor
  /\ Persist(saved)
  /\ signed' = LifetimeFor
  /\ IF arrives
       THEN held' = LifetimeFor /\ life' = LifetimeFor /\ warned' = FALSE /\ excused' = Blind'
       ELSE excused' = TRUE /\ UNCHANGED <<held, life, warned>>

(* A host without a working identity gets one: with a token from the       *)
(* operator, or with its device key.                                       *)
Enrol(arrives, saved) ==
  /\ on /\ ~Valid /\ ~revoked
  /\ Sign(arrives, saved)
  /\ finding' = None
  /\ UNCHANGED <<configVars, revoked, on, unchecked>>

(* handleRenewIdentity, asked by a host whose identity is due.             *)
Renew(arrives, saved) ==
  /\ on /\ Valid /\ Due /\ ~revoked
  /\ Sign(arrives, saved)
  /\ finding' = None
  /\ UNCHANGED <<configVars, revoked, on, unchecked>>

(* Delivered: the host collects a certificate.                             *)
Collect(saved) ==
  /\ on /\ Valid /\ ~revoked
  /\ seen' = 0 /\ recorded' = recorded
  /\ Persist(saved)
  /\ excused' = (excused \/ Blind')
  /\ finding' = None
  /\ UNCHANGED <<configVars, revoked, hostVars, unchecked, warned, signed>>

(* serve stops, or dies, and is started again.                             *)
Restart ==
  /\ Load
  /\ finding' = None
  /\ UNCHANGED <<configVars, fileVars, revoked, hostVars, unchecked, warned, signed, excused>>

(* The host, or its timer, stops and starts.                               *)
Switch ==
  /\ on' = ~on
  /\ finding' = None
  /\ UNCHANGED <<configVars, brokerVars, held, life, unchecked, warned, signed, excused>>

(* cmdRevoke and cmdRestore, which change the file while serve is stopped  *)
(* (module Registry says why).                                             *)
RevokeOrRestore ==
  /\ revoked' = ~revoked
  /\ Load
  /\ excused' = TRUE
  /\ finding' = None
  /\ UNCHANGED <<configVars, fileVars, hostVars, unchecked, warned, signed>>

(* cmdCheck, as far as agents go.                                          *)
Check ==
  /\ finding' = Concern
  /\ unchecked' = 0
  /\ warned' = (warned \/ (NeedsAction(Concern) /\ Valid))
  /\ UNCHANGED <<configVars, brokerVars, hostVars, signed, excused>>

Less(left) == IF left \in {None, Unlimited, 0} THEN left ELSE left - 1
More(past) == IF past = None \/ past > SilentAfter THEN past ELSE past + 1

(* Time passes; `check` is not late.                                       *)
Tick ==
  /\ unchecked < CheckEvery
  /\ unchecked' = unchecked + 1
  /\ held' = Less(held) /\ signed' = Less(signed)
  /\ recorded' = Less(recorded) /\ fileExpires' = Less(fileExpires)
  /\ seen' = More(seen) /\ fileSeen' = More(fileSeen)
  /\ finding' = None
  /\ UNCHANGED <<configVars, revoked, life, on, warned, excused>>

Next ==
  \/ \E arrives, saved \in BOOLEAN : Enrol(arrives, saved) \/ Renew(arrives, saved)
  \/ \E saved \in BOOLEAN : Collect(saved)
  \/ Restart \/ Switch \/ RevokeOrRestore \/ Check \/ Tick

Spec == Init /\ [][Next]_vars

(* Time passes and the operator's timer goes on running `check`.           *)
Fairness == WF_vars(Tick) /\ WF_vars(Check)

FairSpec == Spec /\ Fairness

-----------------------------------------------------------------------------
Left == Nat \cup {Unlimited, None}
Past == 0..(SilentAfter + 1) \cup {None}

(* Every variable has its shape.                                           *)
TypeOK ==
  /\ own \in Written /\ wide \in Written /\ deviceKey \in BOOLEAN
  /\ seen \in Past /\ fileSeen \in Past
  /\ recorded \in Left /\ fileExpires \in Left /\ signed \in Left
  /\ revoked \in BOOLEAN
  /\ held \in Left /\ life \in (Nat \ {0}) \cup {Unlimited} /\ on \in BOOLEAN
  /\ unchecked \in 0..CheckEvery
  /\ finding \in Findings \cup {None}
  /\ warned \in BOOLEAN /\ excused \in BOOLEAN

(* "The warning must therefore arrive while the identity is still valid":  *)
(* a host without a device key never finds its identity expired before     *)
(* some `check` reported it, whatever it did meanwhile.  `check` must run  *)
(* more often than the threshold is long, and than the identity lives (the *)
(* threshold is not scaled to a lifetime of the broker's), and agents.json *)
(* must know of an identity as old at least: not when an answer was lost   *)
(* or the agent was revoked in between, nor when serve forgot the expiry   *)
(* for a save that failed and then saved that the agent was seen.          *)
LockoutAnnounced ==
  /\ held = 0 /\ ~deviceKey /\ ~excused
  /\ CheckEvery < EffectiveWarnBefore(Parse(own)) /\ CheckEvery < life
  => warned

(* A lockout is announced only for a host whose identity is past its       *)
(* renewal or does not work, also when the last answer was lost: never for *)
(* one that has just enrolled.  Two cases are excluded, in which the code  *)
(* does report such a host: agents.json does not have the expiry of the    *)
(* identity signed last, because a save failed; and the agent has no       *)
(* lifetime of its own under a broker that has one, to which the threshold *)
(* is not scaled.                                                          *)
NoFalseAlarm ==
  /\ finding \in {"lockout soon", "locked out"}
  /\ fileExpires = signed
  /\ Parse(own) # Unset \/ Parse(wide) = Unset
  => Due \/ ~Valid

(* The identity a host holds was signed for the lifetime somebody wrote    *)
(* down: the agent's, else the broker's, else the default; provided that   *)
(* the number fits a time.Duration.                                        *)
SignedAsWritten ==
  LET text == IF own.kind = "nothing" THEN wide ELSE own
  IN  held # None =>
        life = IF text.kind = "nothing" THEN DefaultLife
               ELSE IF text.kind = "unlimited" THEN Unlimited
               ELSE IF Representable(text) THEN Meaning(text) ELSE life

(* A host that is locked out does not stay unnoticed, even when the broker *)
(* believes in an identity whose answer was lost: `check` fails on it      *)
(* sooner or later, unless somebody enrols it, or tries to, or revokes it. *)
LockoutNoticed ==
  (held = 0 /\ ~deviceKey /\ ~revoked)
    ~> (NeedsAction(finding) \/ held # 0 \/ revoked \/ seen = 0)
=============================================================================
