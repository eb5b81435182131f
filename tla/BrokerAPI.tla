----------------------------- MODULE BrokerAPI ------------------------------
(***************************************************************************)
(* The agent-facing endpoint, internal/brokerapi, composed with what it    *)
(* stands on: the bootstrap tokens (OneTimeToken, which TokenStore         *)
(* implements), the registry as serve loaded it, and the agent CA that     *)
(* signs identities.  Hosts hold device keys and identities; every answer  *)
(* may be lost on its way back.                                            *)
(*                                                                         *)
(* Lifetimes are kept as the time that is left, so that no clock runs.     *)
(* `revoke` and `restore` run while serve does not (module Registry says   *)
(* what happens otherwise), so the revocations in agents.json and those in *)
(* serve's memory are one variable.                                        *)
(***************************************************************************)
EXTENDS Naturals, CsrCheck

CONSTANTS
  Names,         \* agent names, as written in a configuration
  Lower,         \* NormaliseName: [Names -> Names]
  Hosts,         \* each with a device key of its own
  Tokens,        \* bootstrap tokens
  Certs,         \* certificate store names
  Configs,       \* the configurations the operator may write
  Unlimited,     \* the lifetime "unlimited"; 0 is a lifetime nobody set
  DefaultLife,   \* DefaultAgentLifetime
  CALife,        \* lifetime of the agent CA
  None

Spans == Nat \cup {Unlimited}

(* What validateAgents accepts: agents with something to collect, and no   *)
(* device key that belongs to two of them.                                 *)
ValidConfigs ==
  {c \in [agents : SUBSET Names, mode : [Names -> {"issue", "share"}],
          certs : [Names -> SUBSET Certs], key : [Names -> Hosts \cup {None}],
          life : [Names -> Spans], default : Spans,
          domains : [Certs -> SUBSET Domains]] :
     /\ \A n \in c.agents : c.certs[n] # {}
     /\ \A m, n \in c.agents : c.key[m] = c.key[n] => m = n \/ c.key[m] = None}

ASSUME ConstantsAssumption ==
  /\ Lower \in [Names -> Names] /\ \A n \in Names : Lower[Lower[n]] = Lower[n]
  /\ DefaultLife \in Nat \ {0} /\ CALife \in Nat
  /\ Unlimited \notin Nat
  /\ None \notin Names /\ None \notin Hosts /\ None \notin Certs
  /\ Configs \subseteq ValidConfigs

VARIABLES
  config,      \* the configuration file
  up,          \* serve is running
  cfg,         \* serve: the configuration it was started with
  shut,        \* the revoked names
  status,      \* OneTimeToken: where each token is in its life
  grants,      \* OneTimeToken: its redemptions
  tokenName,   \* the agent a token was issued for
  claimer,     \* the host whose enrolment holds the token's claim
  ident,       \* the identity each host holds: its name and the time left
  caLeft,      \* time left of the agent CA
  entitled,    \* observation: <<h, n>> when an operator let host h be agent n
  answer       \* observation: what this step handed out

tokenVars == <<status, grants, tokenName, claimer>>
vars == <<config, up, cfg, shut, tokenVars, ident, caLeft, entitled, answer>>

Token == INSTANCE OneTimeToken WITH Ids <- Tokens

-----------------------------------------------------------------------------
(* Or: the agent's own lifetime when it has one, else the broker's.        *)
Or(own, other) == IF own = 0 THEN other ELSE own

(* lifetimeFor: an agent that is not configured gets the broker's.         *)
LifetimeFor(n) == IF n \in cfg.agents THEN Or(cfg.life[n], cfg.default) ELSE cfg.default

(* Fault variant: nobody compares the lifetime with what the CA has left.  *)
AgentNotAfterUnchecked(span) ==
  IF caLeft = 0 THEN 0
  ELSE IF span = Unlimited THEN caLeft ELSE Or(span, DefaultLife)

(* agentNotAfter: the time an identity is given, 0 when it is refused: the *)
(* CA has expired, or the lifetime outlives it.                            *)
AgentNotAfter(span) ==
  LET d == Or(span, DefaultLife)
  IN  IF caLeft = 0 THEN 0
      ELSE IF span = Unlimited THEN caLeft
      ELSE IF d > caLeft THEN 0 ELSE d

(* SignAgent succeeds for this agent.                                      *)
Signable(n) == AgentNotAfter(LifetimeFor(n)) > 0

(* SignAgent for host h, and the answer on its way: it arrives or not.     *)
SignAgent(h, n, arrives) ==
  /\ Signable(n)
  /\ ident' = IF arrives
                THEN [ident EXCEPT ![h] = [name |-> n, left |-> AgentNotAfter(LifetimeFor(n))]]
                ELSE ident
  /\ answer' = [host |-> h, name |-> n, what |-> "identity", cert |-> None, key |-> FALSE, names |-> {}]

(* verifiedAgent: the certificate is in date, and the name is its common   *)
(* name in lower case.  Nothing else lowers a name: the configuration, the *)
(* tokens, the revocations and the identities signed keep their capitals.  *)
Valid(h) == ident[h] # None /\ ident[h].left > 0

(* Fault variant: the common name is taken as it is written.               *)
VerifiedAgentAsWritten(h) == ident[h].name
VerifiedAgent(h) == Lower[ident[h].name]

(* mTLSRoute: authenticated, and not revoked.                              *)
MTLSRoute(h) == up /\ Valid(h) /\ VerifiedAgent(h) \notin shut

(* Authorise.                                                              *)
Authorise(n, c) == n \notin shut /\ n \in cfg.agents /\ c \in cfg.certs[n]

(* The agents whose device key a configuration names.                      *)
KeyHolders(c) == {<<c.key[n], n>> : n \in {m \in c.agents : c.key[m] # None}}

Init ==
  /\ config \in Configs
  /\ up = FALSE
  /\ cfg = config
  /\ shut = {}
  /\ Token!Init
  /\ tokenName = [t \in Tokens |-> None]
  /\ claimer = [t \in Tokens |-> None]
  /\ ident = [h \in Hosts |-> None]
  /\ caLeft = CALife
  /\ entitled = {}
  /\ answer = None

-----------------------------------------------------------------------------
(* The operator.                                                           *)

EditConfig(c) ==
  /\ config' = c
  /\ answer' = None
  /\ UNCHANGED <<up, cfg, shut, tokenVars, ident, caLeft, entitled>>

Revoke(n) ==
  /\ ~up
  /\ shut' = shut \cup {n}
  /\ answer' = None
  /\ UNCHANGED <<config, up, cfg, tokenVars, ident, caLeft, entitled>>

Restore(n) ==
  /\ ~up
  /\ shut' = shut \ {n}
  /\ answer' = None
  /\ UNCHANGED <<config, up, cfg, tokenVars, ident, caLeft, entitled>>

(* cmdToken: only for an agent the file names now.                         *)
IssueToken(t, n) ==
  /\ n \in config.agents
  /\ Token!Issue(t)
  /\ tokenName' = [tokenName EXCEPT ![t] = n]
  /\ answer' = None
  /\ UNCHANGED <<config, up, cfg, shut, claimer, ident, caLeft, entitled>>

(* openBroker and New: serve takes its configuration once.                 *)
Start ==
  /\ ~up
  /\ up' = TRUE
  /\ cfg' = config
  /\ entitled' = entitled \cup KeyHolders(config)
  /\ answer' = None
  /\ UNCHANGED <<config, shut, tokenVars, ident, caLeft>>

(* serve stops or dies; an enrolment in flight takes its token with it.    *)
Stop ==
  /\ up
  /\ up' = FALSE
  /\ Token!Drop({t \in Tokens : claimer[t] # None})
  /\ claimer' = [t \in Tokens |-> None]
  /\ answer' = None
  /\ UNCHANGED <<config, cfg, shut, tokenName, ident, caLeft, entitled>>

-----------------------------------------------------------------------------
(* The routes.                                                             *)

(* handleEnrol as far as Redeem's claim, which one caller wins.            *)
EnrolRedeem(h, t) ==
  /\ up
  /\ Token!Claim(t)
  /\ claimer' = [claimer EXCEPT ![t] = h]
  /\ entitled' = entitled \cup {<<h, tokenName[t]>>}
  /\ answer' = None
  /\ UNCHANGED <<config, up, cfg, shut, tokenName, ident, caLeft>>

(* Redeem fails after its claim: the token is gone and nothing is signed.  *)
EnrolLost(t) ==
  /\ claimer[t] # None
  /\ Token!Drop({t})
  /\ claimer' = [claimer EXCEPT ![t] = None]
  /\ answer' = None
  /\ UNCHANGED <<config, up, cfg, shut, tokenName, ident, caLeft, entitled>>

(* The rest of handleEnrol: redeemed, then looked up, then signed.  Each   *)
(* refusal comes after the token was spent.                                *)
EnrolAnswer(t, arrives) ==
  /\ claimer[t] # None
  /\ Token!Grant(t)
  /\ claimer' = [claimer EXCEPT ![t] = None]
  /\ LET n == tokenName[t]
     IN  IF n \in cfg.agents /\ n \notin shut /\ Signable(n)
           THEN SignAgent(claimer[t], n, arrives)
           ELSE answer' = None /\ UNCHANGED ident
  /\ UNCHANGED <<config, up, cfg, shut, tokenName, caLeft, entitled>>

(* A token nobody redeems expires or is pruned.                            *)
TokenLapses(t) ==
  /\ status[t] = "live"
  /\ Token!Drop({t})
  /\ answer' = None
  /\ UNCHANGED <<config, up, cfg, shut, tokenName, claimer, ident, caLeft, entitled>>

(* Fault variant: the private key travels in either mode.                  *)
FetchAlwaysWithKey(h, c) ==
  LET n == VerifiedAgent(h)
  IN  /\ MTLSRoute(h) /\ Authorise(n, c)
      /\ answer' = [host |-> h, name |-> n, what |-> "certificate", cert |-> c, key |-> TRUE,
                    names |-> {}]
      /\ UNCHANGED <<config, up, cfg, shut, tokenVars, ident, caLeft, entitled>>

(* handleFetch: the private key travels in share mode only.                *)
Fetch(h, c) ==
  LET n == VerifiedAgent(h)
  IN  /\ MTLSRoute(h) /\ Authorise(n, c)
      /\ answer' = [host |-> h, name |-> n, what |-> "certificate", cert |-> c,
                    key |-> cfg.mode[n] = "share", names |-> {}]
      /\ UNCHANGED <<config, up, cfg, shut, tokenVars, ident, caLeft, entitled>>

(* handleIssue: the request asks for exactly the configured names, and the *)
(* CA is asked for what the request says.  An order the CA does not fulfil *)
(* changes nothing here.                                                   *)
Issue(h, c, csr) ==
  LET n == VerifiedAgent(h)
  IN  /\ MTLSRoute(h) /\ Authorise(n, c)
      /\ cfg.mode[n] = "issue"
      /\ OK(Check(csr, cfg.domains[c]))
      /\ answer' = [host |-> h, name |-> n, what |-> "certificate", cert |-> c, key |-> FALSE,
                    names |-> Got(csr)]
      /\ UNCHANGED <<config, up, cfg, shut, tokenVars, ident, caLeft, entitled>>

(* Fault variant: the name is taken from the request.                      *)
RenewIdentityAsAsked(h, arrives) ==
  /\ MTLSRoute(h)
  /\ \E n \in Names : SignAgent(h, n, arrives)
  /\ UNCHANGED <<config, up, cfg, shut, tokenVars, caLeft, entitled>>

(* handleRenewIdentity: under the name of the certificate presented.  It   *)
(* does not ask whether that agent is configured.                          *)
RenewIdentity(h, arrives) ==
  /\ MTLSRoute(h)
  /\ SignAgent(h, VerifiedAgent(h), arrives)
  /\ UNCHANGED <<config, up, cfg, shut, tokenVars, caLeft, entitled>>

(* Fault variant: a host that never had an identity, or has let it lapse,  *)
(* is sent back to enrol.                                                  *)
IdentityRequestWhileValid(h, n, arrives) ==
  /\ up /\ Valid(h)
  /\ n \in cfg.agents /\ cfg.key[n] = h
  /\ n \notin shut
  /\ SignAgent(h, n, arrives)
  /\ UNCHANGED <<config, up, cfg, shut, tokenVars, caLeft, entitled>>

(* handleIdentityRequest: the name follows from the device key.  A request *)
(* to sign the device key itself is refused and changes nothing.           *)
IdentityRequest(h, n, arrives) ==
  /\ up
  /\ n \in cfg.agents /\ cfg.key[n] = h
  /\ n \notin shut
  /\ SignAgent(h, n, arrives)
  /\ UNCHANGED <<config, up, cfg, shut, tokenVars, caLeft, entitled>>

(* Time passes for every certificate.                                      *)
Tick ==
  /\ caLeft > 0
  /\ caLeft' = caLeft - 1
  /\ ident' = [h \in Hosts |->
                 IF Valid(h) THEN [name |-> ident[h].name, left |-> ident[h].left - 1]
                 ELSE ident[h]]
  /\ answer' = None
  /\ UNCHANGED <<config, up, cfg, shut, tokenVars, entitled>>

Operator ==
  \/ \E c \in Configs : EditConfig(c)
  \/ \E n \in Names : Revoke(n) \/ Restore(n)
  \/ \E t \in Tokens, n \in Names : IssueToken(t, n)

Enrol ==
  \E t \in Tokens :
    \/ \E h \in Hosts : EnrolRedeem(h, t)
    \/ EnrolLost(t) \/ TokenLapses(t)
    \/ \E arrives \in BOOLEAN : EnrolAnswer(t, arrives)

Collect ==
  \E h \in Hosts, c \in Certs :
    Fetch(h, c) \/ \E csr \in CSRs : Issue(h, c, csr)

Identify ==
  \E h \in Hosts, arrives \in BOOLEAN :
    RenewIdentity(h, arrives) \/ \E n \in Names : IdentityRequest(h, n, arrives)

Next == Operator \/ Start \/ Stop \/ Enrol \/ Collect \/ Identify \/ Tick

Spec == Init /\ [][Next]_vars

(* An agent whose identity has lapsed asks again on every run, and some    *)
(* answer reaches it.                                                      *)
Fairness == \A h \in Hosts, n \in Names : WF_vars(IdentityRequest(h, n, TRUE))

FairSpec == Spec /\ Fairness

-----------------------------------------------------------------------------
(* Every variable has its shape.                                           *)
TypeOK ==
  /\ config \in Configs /\ cfg \in Configs
  /\ up \in BOOLEAN
  /\ shut \subseteq Names
  /\ status \in [Tokens -> Token!Statuses]
  /\ grants \in [Tokens -> Nat]
  /\ tokenName \in [Tokens -> Names \cup {None}]
  /\ claimer \in [Tokens -> Hosts \cup {None}]
  /\ ident \in [Hosts -> [name : Names, left : Nat] \cup {None}]
  /\ caLeft \in Nat
  /\ entitled \subseteq Hosts \X Names
  /\ answer \in [host : Hosts, name : Names, what : {"identity", "certificate"},
                 cert : Certs \cup {None}, key : BOOLEAN, names : SUBSET Domains] \cup {None}

(* An operator let host h be agent n, or an agent that reads n in lower    *)
(* case.                                                                   *)
LetBe(h, n) == \E m \in Names : <<h, m>> \in entitled /\ n \in {m, Lower[m]}

(* Whatever a host enrols, renews and recovers, in whatever spelling, and  *)
(* however the configuration changes meanwhile, the identity it holds      *)
(* names an agent some operator let it be, by a token it redeemed or by    *)
(* its device key in the configuration: that name as it was written, or,   *)
(* once renewed, the same name in lower case, and no other.                *)
Provenance == \A h \in Hosts : ident[h] # None => LetBe(h, ident[h].name)

(* Nothing is handed out in a revoked name, by whichever of the five       *)
(* routes, and no certificate to an identity that reads, in lower case, as *)
(* a revoked agent: revoking web stops the identity of Web too.  (The      *)
(* converse does not hold: the routes that present an identity never ask   *)
(* about a revocation of Web.)                                             *)
RevokedGetsNothing ==
  answer # None =>
    \A n \in shut :
      /\ answer.name # n
      /\ answer.what = "certificate" => Lower[ident[answer.host].name] # n

(* A certificate goes to a host an operator let be an agent, up to its     *)
(* capitals, that serve's configuration permits that certificate, with its *)
(* private key only when that agent is configured to share.                *)
DeliveredAsPermitted ==
  (answer # None /\ answer.what = "certificate") =>
    \E n \in cfg.agents : /\ LetBe(answer.host, n)
                          /\ answer.cert \in cfg.certs[n]
                          /\ answer.key => cfg.mode[n] = "share"

(* What the CA issues on a host's own request is for the names that        *)
(* serve's configuration gives the certificate, no more and no fewer, in   *)
(* whatever spelling and field of the request they came.                   *)
IssuedAsConfigured ==
  (answer # None /\ answer.names # {}) => answer.names = NormaliseSet(cfg.domains[answer.cert])

(* No identity outlives the CA that signed it.                             *)
OutlivedByCA == \A h \in Hosts : ident[h] # None => ident[h].left <= caLeft

(* "There is always a way back": a host without a valid identity whose     *)
(* device key serve's configuration names gets one, unless serve stops,    *)
(* or is restarted without that key, the agent is revoked, or the CA has   *)
(* too little left for the lifetime configured.                            *)
MayReturn(h, n) ==
  up /\ n \in cfg.agents /\ cfg.key[n] = h /\ n \notin shut /\ Signable(n)
AlwaysAWayBack ==
  \A h \in Hosts, n \in Names : MayReturn(h, n) ~> (Valid(h) \/ ~MayReturn(h, n))
=============================================================================
