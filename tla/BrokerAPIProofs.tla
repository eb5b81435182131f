--------------------------- MODULE BrokerAPIProofs --------------------------
(***************************************************************************)
(* Proofs about BrokerAPI for every set of names, hosts, tokens,           *)
(* certificates and configurations, with the names of agents in whatever   *)
(* spelling.                                                               *)
(*                                                                         *)
(* None of the properties is inductive by itself.  That a signed identity  *)
(* names what its host is entitled to rests on the entitlement of a host   *)
(* that is halfway through an enrolment (ClaimsEntitled, which needs       *)
(* TokensNamed) and of the device keys serve loaded (KeysEntitled).        *)
(*                                                                         *)
(* At the end, the limiter in front of the routes: its memory is bounded,  *)
(* and it lets no host through more than twice the limit in a window.      *)
(***************************************************************************)
EXTENDS BrokerAPI, RateLimiter, FiniteSetTheorems, TLAPS

TokensNamed == \A t \in Tokens : status[t] # "unissued" => tokenName[t] \in Names
ClaimsEntitled ==
  \A t \in Tokens : claimer[t] # None => /\ status[t] = "claimed"
                                         /\ <<claimer[t], tokenName[t]>> \in entitled
KeysEntitled == up => \A n \in cfg.agents : cfg.key[n] # None => <<cfg.key[n], n>> \in entitled

Base == /\ TypeOK /\ TokensNamed /\ ClaimsEntitled /\ KeysEntitled
        /\ OutlivedByCA /\ IssuedAsConfigured

IInv == Base /\ Provenance /\ RevokedGetsNothing /\ DeliveredAsPermitted

(* What the configuration serve runs with looks like.                      *)
LEMMA ConfigShape ==
  ASSUME NEW c \in Configs
  PROVE  /\ c.agents \subseteq Names
         /\ c.key \in [Names -> Hosts \cup {None}]
         /\ c.life \in [Names -> Spans] /\ c.default \in Spans
         /\ c.mode \in [Names -> {"issue", "share"}]
         /\ c.certs \in [Names -> SUBSET Certs]
         /\ c.domains \in [Certs -> SUBSET Domains]
BY ConstantsAssumption DEF ConstantsAssumption, ValidConfigs

(* A request passes the check exactly when it is about the permitted names *)
(* and nothing else.                                                       *)
LEMMA CheckIsExact ==
  ASSUME NEW csr \in CSRs, NEW permitted \in SUBSET Domains
  PROVE  OK(Check(csr, permitted)) <=> Got(csr) = NormaliseSet(permitted) /\ ~csr.other
<1> DEFINE want == NormaliseSet(permitted)
           got == Got(csr)
<1> HIDE DEF want, got
<1>1. OK(Check(csr, permitted)) <=> want \ got = {} /\ got \ want = {} /\ ~csr.other
  BY DEF OK, Check, want, got
<1>2. (want \ got = {} /\ got \ want = {}) <=> got = want
  OBVIOUS
<1> QED BY <1>1, <1>2 DEF want, got

(* Names only become names.                                                *)
LEMMA GotType == ASSUME NEW csr \in CSRs PROVE Got(csr) \subseteq Domains
<1>1. csr.dns \subseteq Domains /\ csr.cn \in Domains \cup {Blank}
  BY DEF CSRs
<1>2. ASSUME NEW names \in SUBSET (Domains \cup {Blank}) PROVE NormaliseSet(names) \subseteq Domains
  BY CsrCheckAssumption DEF NormaliseSet, CsrCheckAssumption
<1> QED BY <1>1, <1>2 DEF Got

(* agentNotAfter never gives more than the CA has left.                    *)
LEMMA SignedWithinCA ==
  ASSUME TypeOK, NEW n \in Names
  PROVE  /\ AgentNotAfter(LifetimeFor(n)) \in Nat
         /\ AgentNotAfter(LifetimeFor(n)) <= caLeft
<1>1. caLeft \in Nat /\ DefaultLife \in Nat
  BY ConstantsAssumption DEF TypeOK, ConstantsAssumption
<1>2. LifetimeFor(n) \in Spans
  BY ConfigShape DEF LifetimeFor, Or, TypeOK
<1>3. CASE LifetimeFor(n) = Unlimited
  BY <1>1, <1>3 DEF AgentNotAfter
<1>4. CASE LifetimeFor(n) \in Nat
  BY <1>1, <1>4 DEF AgentNotAfter, Or
<1> QED BY <1>2, <1>3, <1>4 DEF Spans

LEMMA InitIInv == Init => IInv
<1> SUFFICES ASSUME Init PROVE IInv
  OBVIOUS
<1> USE ConstantsAssumption DEF ConstantsAssumption, Init, Token!Init
<1>1. TypeOK BY DEF TypeOK, Token!Statuses
<1> QED BY <1>1 DEF IInv, Base, TokensNamed, ClaimsEntitled, KeysEntitled, Provenance,
                    OutlivedByCA, RevokedGetsNothing, DeliveredAsPermitted, IssuedAsConfigured

(* A step that hands nothing out satisfies what concerns answers.          *)
LEMMA Silent ==
  ASSUME answer' = None
  PROVE  RevokedGetsNothing' /\ DeliveredAsPermitted' /\ IssuedAsConfigured'
BY DEF RevokedGetsNothing, DeliveredAsPermitted, IssuedAsConfigured

LEMMA VerifiedName ==
  ASSUME Base, NEW h \in Hosts, Valid(h)
  PROVE  VerifiedAgent(h) \in Names
<1>1. ident[h].name \in Names
  BY DEF Valid, Base, TypeOK
<1> QED BY <1>1, ConstantsAssumption DEF VerifiedAgent, ConstantsAssumption

-----------------------------------------------------------------------------
(* Shapes, claims, device keys and lifetimes.                              *)

(* Signing an identity keeps the shapes and what the CA has left.          *)
LEMMA SigningKeepsBase ==
  ASSUME Base, NEW h \in Hosts, NEW n \in Names, NEW arrives \in BOOLEAN,
         SignAgent(h, n, arrives),
         UNCHANGED <<config, up, cfg, shut, caLeft, entitled>>
  PROVE  /\ ident' \in [Hosts -> [name : Names, left : Nat] \cup {None}]
         /\ answer' \in [host : Hosts, name : Names, what : {"identity", "certificate"},
                         cert : Certs \cup {None}, key : BOOLEAN, names : SUBSET Domains]
         /\ OutlivedByCA' /\ IssuedAsConfigured'
<1> DEFINE left == AgentNotAfter(LifetimeFor(n))
<1>1. left \in Nat /\ left <= caLeft
  BY SignedWithinCA DEF Base
<1>2. ident' = ident \/ ident' = [ident EXCEPT ![h] = [name |-> n, left |-> left]]
  BY DEF SignAgent
<1>3. answer' = [host |-> h, name |-> n, what |-> "identity", cert |-> None, key |-> FALSE,
                   names |-> {}]
  BY DEF SignAgent
<1> HIDE DEF left
<1>4. ident \in [Hosts -> [name : Names, left : Nat] \cup {None}]
  BY DEF Base, TypeOK
<1>5. ident' \in [Hosts -> [name : Names, left : Nat] \cup {None}]
  BY <1>1, <1>2, <1>4
<1>6. answer' \in [host : Hosts, name : Names, what : {"identity", "certificate"},
                   cert : Certs \cup {None}, key : BOOLEAN, names : SUBSET Domains]
  BY <1>3
<1>7. OutlivedByCA'
  BY <1>1, <1>2, <1>4 DEF Base, OutlivedByCA
<1>8. IssuedAsConfigured'
  BY <1>3 DEF IssuedAsConfigured
<1> QED BY <1>5, <1>6, <1>7, <1>8

(* Handing out a certificate keeps them too, if what the CA issued on a    *)
(* request is for the configured names.                                    *)
LEMMA DeliveringKeepsBase ==
  ASSUME Base, NEW h \in Hosts, NEW c \in Certs, NEW key \in BOOLEAN,
         NEW names \in SUBSET Domains, names # {} => names = NormaliseSet(cfg.domains[c]),
         MTLSRoute(h),
         answer' = [host |-> h, name |-> VerifiedAgent(h), what |-> "certificate",
                    cert |-> c, key |-> key, names |-> names],
         UNCHANGED <<config, up, cfg, shut, tokenVars, ident, caLeft, entitled>>
  PROVE  Base'
<1> DEFINE n == VerifiedAgent(h)
<1>1. n \in Names
  BY VerifiedName DEF MTLSRoute
<1> HIDE DEF n
<1>2. TypeOK'
  BY <1>1 DEF n, Base, TypeOK, tokenVars
<1>3. IssuedAsConfigured'
  BY DEF IssuedAsConfigured
<1>4. (TokensNamed /\ ClaimsEntitled /\ KeysEntitled /\ OutlivedByCA)'
  BY DEF Base, TokensNamed, ClaimsEntitled, KeysEntitled, OutlivedByCA, tokenVars
<1> QED BY <1>2, <1>3, <1>4 DEF Base

LEMMA NextBase ==
  ASSUME Base, [Next]_vars
  PROVE  Base'
<1> USE DEF tokenVars
<1>1. ASSUME NEW c \in Configs, EditConfig(c) PROVE Base'
  BY <1>1, Silent DEF EditConfig, Base, TypeOK, TokensNamed, ClaimsEntitled, KeysEntitled,
                      OutlivedByCA
<1>2. ASSUME NEW n \in Names, Revoke(n) \/ Restore(n) PROVE Base'
  BY <1>2, Silent DEF Revoke, Restore, Base, TypeOK, TokensNamed, ClaimsEntitled,
                      KeysEntitled, OutlivedByCA
<1>3. ASSUME NEW t \in Tokens, NEW n \in Names, IssueToken(t, n) PROVE Base'
  <2>1. TypeOK'
    BY <1>3 DEF IssueToken, Token!Issue, Token!Statuses, Base, TypeOK
  <2>2. TokensNamed' /\ ClaimsEntitled'
    BY <1>3 DEF IssueToken, Token!Issue, Base, TypeOK, TokensNamed, ClaimsEntitled
  <2>3. KeysEntitled' /\ OutlivedByCA' /\ answer' = None
    BY <1>3 DEF IssueToken, Base, KeysEntitled, OutlivedByCA
  <2> QED BY <2>1, <2>2, <2>3, Silent DEF Base
<1>4. ASSUME Start PROVE Base'
  <2>1. KeyHolders(config) \subseteq Hosts \X Names
    BY ConfigShape DEF KeyHolders, Base, TypeOK
  <2>2. TypeOK'
    BY <1>4, <2>1 DEF Start, Base, TypeOK
  <2>3. KeysEntitled'
    BY <1>4 DEF Start, KeysEntitled, KeyHolders
  <2>4. TokensNamed' /\ ClaimsEntitled' /\ OutlivedByCA' /\ answer' = None
    BY <1>4 DEF Start, Base, TokensNamed, ClaimsEntitled, OutlivedByCA
  <2> QED BY <2>2, <2>3, <2>4, Silent DEF Base
<1>5. ASSUME Stop PROVE Base'
  <2>1. TypeOK'
    BY <1>5 DEF Stop, Token!Drop, Token!Statuses, Base, TypeOK
  <2>2. TokensNamed' /\ ClaimsEntitled'
    BY <1>5 DEF Stop, Token!Drop, Base, TypeOK, TokensNamed, ClaimsEntitled
  <2>3. KeysEntitled' /\ OutlivedByCA' /\ answer' = None
    BY <1>5 DEF Stop, Base, KeysEntitled, OutlivedByCA
  <2> QED BY <2>1, <2>2, <2>3, Silent DEF Base
<1>6. ASSUME NEW h \in Hosts, NEW t \in Tokens, EnrolRedeem(h, t) PROVE Base'
  <2>1. tokenName[t] \in Names
    BY <1>6 DEF EnrolRedeem, Token!Claim, Base, TokensNamed
  <2>2. TypeOK'
    BY <1>6, <2>1 DEF EnrolRedeem, Token!Claim, Token!Statuses, Base, TypeOK
  <2>3. TokensNamed' /\ ClaimsEntitled'
    BY <1>6, <2>1 DEF EnrolRedeem, Token!Claim, Base, TypeOK, TokensNamed, ClaimsEntitled
  <2>4. KeysEntitled' /\ OutlivedByCA' /\ answer' = None
    BY <1>6 DEF EnrolRedeem, Base, KeysEntitled, OutlivedByCA
  <2> QED BY <2>2, <2>3, <2>4, Silent DEF Base
<1>7. ASSUME NEW t \in Tokens, EnrolLost(t) \/ TokenLapses(t) PROVE Base'
  <2>1. TypeOK'
    BY <1>7 DEF EnrolLost, TokenLapses, Token!Drop, Token!Statuses, Base, TypeOK
  <2>2. TokensNamed' /\ ClaimsEntitled'
    BY <1>7 DEF EnrolLost, TokenLapses, Token!Drop, Base, TypeOK, TokensNamed, ClaimsEntitled
  <2>3. KeysEntitled' /\ OutlivedByCA' /\ answer' = None
    BY <1>7 DEF EnrolLost, TokenLapses, Base, KeysEntitled, OutlivedByCA
  <2> QED BY <2>1, <2>2, <2>3, Silent DEF Base
<1>8. ASSUME NEW t \in Tokens, NEW arrives \in BOOLEAN, EnrolAnswer(t, arrives) PROVE Base'
  <2> DEFINE n == tokenName[t]
             h == claimer[t]
  <2>1. /\ h \in Hosts /\ n \in Names
        /\ UNCHANGED <<config, up, cfg, shut, tokenName, caLeft, entitled>>
    BY <1>8 DEF EnrolAnswer, Base, TypeOK, TokensNamed, ClaimsEntitled
  <2>2. /\ TokensNamed' /\ ClaimsEntitled'
        /\ status' \in [Tokens -> Token!Statuses] /\ grants' \in [Tokens -> Nat]
        /\ claimer' \in [Tokens -> Hosts \cup {None}]
    BY <1>8 DEF EnrolAnswer, Token!Grant, Token!Statuses, Base, TypeOK, TokensNamed,
                ClaimsEntitled
  <2>3. KeysEntitled'
    BY <2>1 DEF Base, KeysEntitled
  <2>4. CASE n \in cfg.agents /\ n \notin shut /\ Signable(n)
    <3>1. SignAgent(h, n, arrives)
      BY <1>8, <2>4 DEF EnrolAnswer
    <3> HIDE DEF n, h
    <3>2. /\ ident' \in [Hosts -> [name : Names, left : Nat] \cup {None}]
          /\ answer' \in [host : Hosts, name : Names, what : {"identity", "certificate"},
                          cert : Certs \cup {None}, key : BOOLEAN, names : SUBSET Domains]
          /\ OutlivedByCA' /\ IssuedAsConfigured'
      BY <2>1, <2>4, <3>1, SigningKeepsBase
    <3>3. TypeOK'
      BY <2>1, <2>2, <3>2 DEF Base, TypeOK
    <3> QED BY <2>2, <2>3, <3>2, <3>3 DEF Base
  <2>5. CASE ~(n \in cfg.agents /\ n \notin shut /\ Signable(n))
    <3>1. answer' = None /\ ident' = ident
      BY <1>8, <2>5 DEF EnrolAnswer
    <3>2. TypeOK' /\ OutlivedByCA'
      BY <2>1, <2>2, <3>1 DEF Base, TypeOK, OutlivedByCA
    <3> QED BY <2>2, <2>3, <3>1, <3>2, Silent DEF Base
  <2> QED BY <2>4, <2>5
<1>9. ASSUME NEW h \in Hosts, NEW c \in Certs, Fetch(h, c) PROVE Base'
  <2> DEFINE key == cfg.mode[VerifiedAgent(h)] = "share"
             names == {}
  <2>1. /\ key \in BOOLEAN /\ (key => cfg.mode[VerifiedAgent(h)] = "share")
        /\ names \in SUBSET Domains /\ (names # {} => names = NormaliseSet(cfg.domains[c]))
    OBVIOUS
  <2>2. /\ MTLSRoute(h) /\ Authorise(VerifiedAgent(h), c)
        /\ answer' = [host |-> h, name |-> VerifiedAgent(h), what |-> "certificate",
                      cert |-> c, key |-> key, names |-> names]
        /\ UNCHANGED <<config, up, cfg, shut, tokenVars, ident, caLeft, entitled>>
    BY <1>9 DEF Fetch
  <2> HIDE DEF key, names
  <2> QED BY <2>1, <2>2, DeliveringKeepsBase
<1>10. ASSUME NEW h \in Hosts, NEW c \in Certs, NEW csr \in CSRs, Issue(h, c, csr)
       PROVE Base'
  <2>1. cfg.domains[c] \in SUBSET Domains
    BY ConfigShape DEF Base, TypeOK
  <2>2. Got(csr) \in SUBSET Domains /\ Got(csr) = NormaliseSet(cfg.domains[c])
    BY <1>10, <2>1, GotType, CheckIsExact DEF Issue
  <2>3. /\ MTLSRoute(h) /\ Authorise(VerifiedAgent(h), c)
        /\ answer' = [host |-> h, name |-> VerifiedAgent(h), what |-> "certificate",
                      cert |-> c, key |-> FALSE, names |-> Got(csr)]
        /\ UNCHANGED <<config, up, cfg, shut, tokenVars, ident, caLeft, entitled>>
    BY <1>10 DEF Issue
  <2> QED BY <2>2, <2>3, DeliveringKeepsBase
<1>11. ASSUME NEW h \in Hosts, NEW n \in Names, NEW arrives \in BOOLEAN,
              SignAgent(h, n, arrives),
              UNCHANGED <<config, up, cfg, shut, tokenVars, caLeft, entitled>>
       PROVE  Base'
  <2>1. /\ ident' \in [Hosts -> [name : Names, left : Nat] \cup {None}]
        /\ answer' \in [host : Hosts, name : Names, what : {"identity", "certificate"},
                        cert : Certs \cup {None}, key : BOOLEAN, names : SUBSET Domains]
        /\ OutlivedByCA' /\ IssuedAsConfigured'
    BY <1>11, SigningKeepsBase
  <2>2. TypeOK' /\ TokensNamed' /\ ClaimsEntitled' /\ KeysEntitled'
    BY <1>11, <2>1 DEF Base, TypeOK, TokensNamed, ClaimsEntitled, KeysEntitled
  <2> QED BY <2>1, <2>2 DEF Base
<1>12. ASSUME NEW h \in Hosts, NEW arrives \in BOOLEAN, RenewIdentity(h, arrives) PROVE Base'
  <2>1. VerifiedAgent(h) \in Names
    BY <1>12, VerifiedName DEF RenewIdentity, MTLSRoute, Base
  <2> QED BY <1>11, <1>12, <2>1 DEF RenewIdentity
<1>13. ASSUME NEW h \in Hosts, NEW n \in Names, NEW arrives \in BOOLEAN,
              IdentityRequest(h, n, arrives)
       PROVE  Base'
  BY <1>11, <1>13 DEF IdentityRequest
<1>14. ASSUME Tick PROVE Base'
  <2>1. caLeft \in Nat /\ caLeft > 0 /\ caLeft' = caLeft - 1 /\ answer' = None
    BY <1>14 DEF Tick, Base, TypeOK
  <2>2. ASSUME NEW h \in Hosts
        PROVE  /\ ident'[h] \in [name : Names, left : Nat] \cup {None}
               /\ ident'[h] # None => ident'[h].left <= caLeft'
    <3>1. ident[h] = None \/ ident[h] \in [name : Names, left : Nat]
      BY DEF Base, TypeOK
    <3>2. CASE ~Valid(h)
      <4>1. ident'[h] = ident[h]
        BY <1>14, <3>2 DEF Tick
      <4>2. ident[h] # None => ident[h].left = 0
        BY <3>1, <3>2 DEF Valid
      <4> QED BY <2>1, <3>1, <4>1, <4>2
    <3>3. CASE Valid(h)
      <4> DEFINE less == ident[h].left - 1
      <4>1. ident'[h] = [name |-> ident[h].name, left |-> less]
        BY <1>14, <3>3 DEF Tick
      <4>2. ident[h] # None /\ ident[h].name \in Names
        BY <3>1, <3>3 DEF Valid
      <4>3. less \in Nat /\ less <= caLeft'
        BY <2>1, <3>1, <3>3 DEF Valid, Base, OutlivedByCA
      <4> HIDE DEF less
      <4> QED BY <4>1, <4>2, <4>3
    <3> QED BY <3>2, <3>3
  <2>3. TypeOK'
    BY <1>14, <2>1, <2>2 DEF Tick, Base, TypeOK
  <2>4. OutlivedByCA'
    BY <2>2 DEF OutlivedByCA
  <2>5. TokensNamed' /\ ClaimsEntitled' /\ KeysEntitled'
    BY <1>14 DEF Tick, Base, TokensNamed, ClaimsEntitled, KeysEntitled
  <2> QED BY <2>1, <2>3, <2>4, <2>5, Silent DEF Base
<1>15. CASE UNCHANGED vars
  BY <1>15 DEF vars, Base, TypeOK, TokensNamed, ClaimsEntitled, KeysEntitled, OutlivedByCA,
               IssuedAsConfigured
<1> QED BY <1>1, <1>2, <1>3, <1>4, <1>5, <1>6, <1>7, <1>8, <1>9, <1>10, <1>12, <1>13,
           <1>14, <1>15 DEF Next, Operator, Enrol, Collect, Identify

LEMMA BaseInvariant == Spec => []Base
<1>1. Init => Base
  BY InitIInv DEF IInv
<1>2. Base /\ [Next]_vars => Base'
  BY NextBase
<1> QED BY <1>1, <1>2, PTL DEF Spec

-----------------------------------------------------------------------------
(* Names.                                                                  *)

(* Signing an identity for an agent the host is entitled to be, and that   *)
(* is not revoked.                                                         *)
LEMMA SigningKeeps ==
  ASSUME IInv, NEW h \in Hosts, NEW n \in Names, NEW arrives \in BOOLEAN,
         SignAgent(h, n, arrives), LetBe(h, n), n \notin shut,
         UNCHANGED <<shut, entitled>>
  PROVE  Provenance' /\ RevokedGetsNothing' /\ DeliveredAsPermitted'
<1> DEFINE left == AgentNotAfter(LifetimeFor(n))
<1>1. ident' = ident \/ ident' = [ident EXCEPT ![h] = [name |-> n, left |-> left]]
  BY DEF SignAgent
<1>2. answer' = [host |-> h, name |-> n, what |-> "identity", cert |-> None, key |-> FALSE,
                   names |-> {}]
  BY DEF SignAgent
<1> HIDE DEF left
<1>3. ident \in [Hosts -> [name : Names, left : Nat] \cup {None}]
  BY DEF IInv, Base, TypeOK
<1>4. Provenance'
  <2>1. \A k, m : LetBe(k, m)' <=> LetBe(k, m)
    BY DEF LetBe
  <2>2. \A k \in Hosts : ident'[k] = ident[k] \/ (k = h /\ ident'[k].name = n)
    BY <1>1, <1>3
  <2> QED BY <2>1, <2>2 DEF IInv, Provenance
<1>5. RevokedGetsNothing'
  BY <1>2 DEF RevokedGetsNothing
<1>6. DeliveredAsPermitted'
  BY <1>2 DEF DeliveredAsPermitted
<1> QED BY <1>4, <1>5, <1>6

(* An agent the host was let be, in whatever spelling.                     *)
LEMMA EntitledIsLetBe ==
  ASSUME NEW h, NEW n \in Names, <<h, n>> \in entitled
  PROVE  LetBe(h, n)
BY DEF LetBe

(* A host with a valid identity is what the identity says: lowering a name *)
(* twice is lowering it once.                                              *)
LEMMA VerifiedEntitled ==
  ASSUME IInv, NEW h \in Hosts, Valid(h)
  PROVE  VerifiedAgent(h) \in Names /\ LetBe(h, VerifiedAgent(h))
<1>1. ident[h] # None /\ ident[h].name \in Names
  BY DEF Valid, IInv, Base, TypeOK
<1>2. PICK m \in Names : <<h, m>> \in entitled /\ ident[h].name \in {m, Lower[m]}
  BY <1>1 DEF IInv, Provenance, LetBe
<1>3. Lower[m] \in Names /\ Lower[ident[h].name] = Lower[m]
  BY <1>2, ConstantsAssumption DEF ConstantsAssumption
<1> QED BY <1>2, <1>3 DEF VerifiedAgent, LetBe

(* Handing out a certificate on an identity the host holds.                *)
LEMMA DeliveringKeeps ==
  ASSUME IInv, NEW h \in Hosts, NEW c \in Certs, NEW key, NEW names,
         MTLSRoute(h), Authorise(VerifiedAgent(h), c),
         key => cfg.mode[VerifiedAgent(h)] = "share",
         answer' = [host |-> h, name |-> VerifiedAgent(h), what |-> "certificate",
                    cert |-> c, key |-> key, names |-> names],
         UNCHANGED <<cfg, shut, ident, entitled>>
  PROVE  Provenance' /\ RevokedGetsNothing' /\ DeliveredAsPermitted'
<1> DEFINE n == VerifiedAgent(h)
<1>1. n \in Names /\ LetBe(h, n)
  BY VerifiedEntitled DEF MTLSRoute
<1>2. n \in cfg.agents /\ n \notin shut /\ c \in cfg.certs[n]
  BY DEF Authorise
<1> HIDE DEF n
<1>3. RevokedGetsNothing'
  BY <1>2 DEF n, VerifiedAgent, RevokedGetsNothing
<1>4. DeliveredAsPermitted'
  BY <1>1, <1>2 DEF n, DeliveredAsPermitted, LetBe
<1>5. Provenance'
  BY DEF IInv, Provenance, LetBe
<1> QED BY <1>3, <1>4, <1>5

LEMMA NextIInv ==
  ASSUME IInv, [Next]_vars
  PROVE  IInv'
<1> DEFINE Named == Provenance /\ RevokedGetsNothing /\ DeliveredAsPermitted
<1>0. SUFFICES Named'
  <2>1. Base'
    BY NextBase DEF IInv
  <2> QED BY <2>1 DEF IInv
(* The steps that sign nothing and hand nothing out.                       *)
<1>1. ASSUME answer' = None, entitled \subseteq entitled',
             \A h \in Hosts : ident'[h] # None => /\ ident[h] # None
                                                  /\ ident'[h].name = ident[h].name
      PROVE  Named'
  BY <1>1, Silent DEF IInv, Provenance, LetBe
<1>2. CASE \/ Operator \/ Start \/ Stop
           \/ \E t \in Tokens : \/ \E h \in Hosts : EnrolRedeem(h, t)
                                \/ EnrolLost(t) \/ TokenLapses(t)
  <2>1. answer' = None /\ ident' = ident /\ entitled \subseteq entitled'
    BY <1>2 DEF Operator, EditConfig, Revoke, Restore, IssueToken, Start, Stop, EnrolRedeem,
       EnrolLost, TokenLapses
  <2> QED BY <1>1, <2>1
<1>3. CASE Tick
  <2>1. answer' = None /\ entitled' = entitled
    BY <1>3 DEF Tick
  <2>2. ASSUME NEW h \in Hosts, ident'[h] # None
        PROVE  ident[h] # None /\ ident'[h].name = ident[h].name
    <3>1. CASE Valid(h)
      BY <1>3, <3>1 DEF Tick, Valid
    <3>2. CASE ~Valid(h)
      BY <1>3, <2>2, <3>2 DEF Tick
    <3> QED BY <3>1, <3>2
  <2> QED BY <1>1, <2>1, <2>2
<1>4. ASSUME NEW t \in Tokens, NEW arrives \in BOOLEAN, EnrolAnswer(t, arrives) PROVE Named'
  <2> DEFINE n == tokenName[t]
             h == claimer[t]
  <2>1. /\ h \in Hosts /\ n \in Names /\ LetBe(h, n)
        /\ UNCHANGED <<shut, entitled>>
    BY <1>4, EntitledIsLetBe DEF EnrolAnswer, IInv, Base, TypeOK, TokensNamed, ClaimsEntitled
  <2>2. CASE n \in cfg.agents /\ n \notin shut /\ Signable(n)
    <3>1. SignAgent(h, n, arrives)
      BY <1>4, <2>2 DEF EnrolAnswer
    <3> HIDE DEF n, h
    <3> QED BY <2>1, <2>2, <3>1, SigningKeeps
  <2>3. CASE ~(n \in cfg.agents /\ n \notin shut /\ Signable(n))
    <3>1. answer' = None /\ ident' = ident
      BY <1>4, <2>3 DEF EnrolAnswer
    <3> QED BY <1>1, <2>1, <3>1
  <2> QED BY <2>2, <2>3
<1>5. ASSUME NEW h \in Hosts, NEW c \in Certs, Fetch(h, c) PROVE Named'
  <2> DEFINE key == cfg.mode[VerifiedAgent(h)] = "share"
             names == {}
  <2>1. key => cfg.mode[VerifiedAgent(h)] = "share"
    OBVIOUS
  <2>2. /\ MTLSRoute(h) /\ Authorise(VerifiedAgent(h), c)
        /\ answer' = [host |-> h, name |-> VerifiedAgent(h), what |-> "certificate",
                      cert |-> c, key |-> key, names |-> names]
        /\ UNCHANGED <<cfg, shut, ident, entitled>>
    BY <1>5 DEF Fetch
  <2> HIDE DEF key, names
  <2> QED BY <2>1, <2>2, DeliveringKeeps
<1>6. ASSUME NEW h \in Hosts, NEW c \in Certs, NEW csr \in CSRs, Issue(h, c, csr) PROVE Named'
  <2>1. /\ MTLSRoute(h) /\ Authorise(VerifiedAgent(h), c)
        /\ answer' = [host |-> h, name |-> VerifiedAgent(h), what |-> "certificate",
                      cert |-> c, key |-> FALSE, names |-> Got(csr)]
        /\ UNCHANGED <<cfg, shut, ident, entitled>>
    BY <1>6 DEF Issue
  <2> QED BY <2>1, DeliveringKeeps
<1>7. ASSUME NEW h \in Hosts, NEW arrives \in BOOLEAN, RenewIdentity(h, arrives) PROVE Named'
  <2>1. /\ VerifiedAgent(h) \in Names /\ LetBe(h, VerifiedAgent(h))
        /\ VerifiedAgent(h) \notin shut
    BY <1>7, VerifiedEntitled DEF RenewIdentity, MTLSRoute
  <2> QED BY <1>7, <2>1, SigningKeeps DEF RenewIdentity
<1>8. ASSUME NEW h \in Hosts, NEW n \in Names, NEW arrives \in BOOLEAN,
             IdentityRequest(h, n, arrives)
      PROVE  Named'
  <2>1. LetBe(h, n) /\ n \notin shut
    BY <1>8, ConstantsAssumption, EntitledIsLetBe
       DEF IdentityRequest, IInv, Base, KeysEntitled, ConstantsAssumption
  <2> QED BY <1>8, <2>1, SigningKeeps DEF IdentityRequest
<1>9. CASE UNCHANGED vars
  BY <1>9 DEF vars, IInv, Provenance, LetBe, RevokedGetsNothing, DeliveredAsPermitted
<1> QED BY <1>2, <1>3, <1>4, <1>5, <1>6, <1>7, <1>8, <1>9 DEF Next, Enrol, Collect, Identify

LEMMA Invariant == Spec => []IInv
<1>1. ASSUME IInv, [Next]_vars PROVE IInv'
  BY <1>1, NextIInv
<1> QED BY <1>1, InitIInv, PTL DEF Spec

(* Every identity a host holds names an agent an operator let it be, as it *)
(* was written or in lower case: by a token the host redeemed, or by its   *)
(* device key in a configuration serve was started with.                   *)
THEOREM IdentitiesHaveProvenance == Spec => []Provenance
<1>1. IInv => Provenance
  BY DEF IInv
<1> QED BY <1>1, Invariant, PTL

(* No route hands anything out in a name that serve knows to be revoked,   *)
(* nor a certificate to an identity that reads so in lower case.           *)
THEOREM RevokedAgentsGetNothing == Spec => []RevokedGetsNothing
<1>1. IInv => RevokedGetsNothing
  BY DEF IInv
<1> QED BY <1>1, Invariant, PTL

(* A certificate goes only to a host that was let in as an agent permitted *)
(* it, up to the capitals of its name, and its private key only where that *)
(* agent shares.                                                           *)
THEOREM DeliveriesArePermitted == Spec => []DeliveredAsPermitted
<1>1. IInv => DeliveredAsPermitted
  BY DEF IInv
<1> QED BY <1>1, Invariant, PTL

(* What the CA issues on a host's own request is for exactly the names     *)
(* configured for that certificate.                                        *)
THEOREM IssuedForConfiguredNames == Spec => []IssuedAsConfigured
<1>1. Base => IssuedAsConfigured
  BY DEF Base
<1> QED BY <1>1, BaseInvariant, PTL

(* No identity is valid for longer than the CA that signed it.             *)
THEOREM IdentitiesEndWithTheCA == Spec => []OutlivedByCA
<1>1. Base => OutlivedByCA
  BY DEF Base
<1> QED BY <1>1, BaseInvariant, PTL

-----------------------------------------------------------------------------
(* The limiter.                                                            *)

(* The table is finite, which Cardinality needs, and within its bound.     *)
TableInv == IsFiniteSet(DOMAIN buckets) /\ MemoryBounded

(* Allow keeps a table within its bound, whatever key it is called with.   *)
LEMMA AllowBounded ==
  ASSUME NEW map, NEW k,
         IsFiniteSet(DOMAIN map), Cardinality(DOMAIN map) <= MaxBuckets
  PROVE  /\ IsFiniteSet(DOMAIN Allow(map, k).map)
         /\ Cardinality(DOMAIN Allow(map, k).map) <= MaxBuckets
<1> USE LimiterAssumption
<1> DEFINE after == DOMAIN Allow(map, k).map
           kept == DOMAIN EvictExpired(map)
<1>1. kept \subseteq DOMAIN map
  BY DEF EvictExpired, Restrict
<1>2. /\ IsFiniteSet(kept)
      /\ Cardinality(kept) \in Nat /\ Cardinality(kept) <= Cardinality(DOMAIN map)
      /\ Cardinality(DOMAIN map) \in Nat
  BY <1>1, FS_Subset, FS_CardinalityType
(* It leaves the keys as they are, evicts, or adds k where there is room.  *)
<1>3. \/ after \in {DOMAIN map, kept}
      \/ /\ k \notin DOMAIN map
         /\ \E room \in {DOMAIN map, kept} :
              after = room \cup {k} /\ ~(Cardinality(room) >= MaxBuckets)
  <2>1. \A m, b : DOMAIN With(m, k, b) = DOMAIN m \cup {k}
    BY DEF With
  <2>2. CASE Limit = 0
    BY <2>2 DEF Allow
  <2>3. CASE Limit # 0 /\ k \in DOMAIN map
    <3>1. \E b : Allow(map, k).map = With(map, k, b)
      BY <2>3 DEF Allow
    <3> QED BY <2>1, <2>3, <3>1
  <2>4. CASE Limit # 0 /\ k \notin DOMAIN map
    <3> DEFINE room == IF Cardinality(DOMAIN map) >= MaxBuckets
                         THEN EvictExpired(map) ELSE map
    <3>1. DOMAIN room \in {DOMAIN map, kept}
      OBVIOUS
    <3>2. Allow(map, k).map = IF Cardinality(DOMAIN room) >= MaxBuckets
                                THEN room ELSE With(room, k, NewBucket)
      BY <2>4 DEF Allow
    <3> HIDE DEF room
    <3>3. CASE Cardinality(DOMAIN room) >= MaxBuckets
      BY <3>1, <3>2, <3>3
    <3>4. CASE ~(Cardinality(DOMAIN room) >= MaxBuckets)
      BY <2>1, <2>4, <3>1, <3>2, <3>4
    <3> QED BY <3>3, <3>4
  <2> QED BY <2>2, <2>3, <2>4
<1> HIDE DEF after, kept
<1>4. CASE after \in {DOMAIN map, kept}
  BY <1>2, <1>4 DEF after
<1>5. ASSUME NEW room \in {DOMAIN map, kept}, k \notin DOMAIN map,
             after = room \cup {k}, ~(Cardinality(room) >= MaxBuckets)
      PROVE  IsFiniteSet(after) /\ Cardinality(after) <= MaxBuckets
  <2>1. IsFiniteSet(room) /\ Cardinality(room) \in Nat /\ k \notin room
    BY <1>1, <1>2, <1>5
  <2>2. IsFiniteSet(room \cup {k}) /\ Cardinality(room \cup {k}) = Cardinality(room) + 1
    BY <2>1, FS_AddElement
  <2> QED BY <1>5, <2>1, <2>2
<1> QED BY <1>3, <1>4, <1>5 DEF after

(* However many addresses call, and in whatever order they call, expire    *)
(* and are pruned, the table of the limiter stays within maxBuckets.       *)
THEOREM LimiterMemoryIsBounded == LimiterSpec => []MemoryBounded
<1>1. LimiterInit => TableInv
  <2> SUFFICES ASSUME LimiterInit PROVE TableInv
    OBVIOUS
  <2>1. DOMAIN buckets = {}
    BY DEF LimiterInit
  <2> QED BY <2>1, FS_EmptySet, LimiterAssumption DEF TableInv, MemoryBounded
<1>2. TableInv /\ [LimiterNext]_limiterVars => TableInv'
  <2> SUFFICES ASSUME TableInv, [LimiterNext]_limiterVars PROVE TableInv'
    OBVIOUS
  <2>1. ASSUME NEW h \in Callers, NEW p \in Ports, Attempt(h, p) PROVE TableInv'
    <3>1. buckets' = Allow(buckets, LimiterKey(h, p)).map
      BY <2>1 DEF Attempt
    <3> QED BY <3>1, AllowBounded DEF TableInv, MemoryBounded
  <2>2. CASE Prune
    <3>1. DOMAIN buckets' \subseteq DOMAIN buckets
      BY <2>2 DEF Prune, EvictExpired, Restrict
    <3>2. /\ IsFiniteSet(DOMAIN buckets') /\ Cardinality(DOMAIN buckets') \in Nat
          /\ Cardinality(DOMAIN buckets') <= Cardinality(DOMAIN buckets)
          /\ Cardinality(DOMAIN buckets) \in Nat
      BY <3>1, FS_Subset, FS_CardinalityType DEF TableInv
    <3> QED BY <3>2, LimiterAssumption DEF TableInv, MemoryBounded
  <2>3. CASE LimiterTick
    <3>1. DOMAIN buckets' = DOMAIN buckets
      BY <2>3 DEF LimiterTick
    <3> QED BY <3>1 DEF TableInv, MemoryBounded
  <2>4. CASE UNCHANGED limiterVars
    BY <2>4 DEF limiterVars, TableInv, MemoryBounded
  <2> QED BY <2>1, <2>2, <2>3, <2>4 DEF LimiterNext
<1>3. TableInv => MemoryBounded
  BY DEF TableInv
<1> QED BY <1>1, <1>2, <1>3, PTL DEF LimiterSpec

(* What keeps a host within twice the limit.  Its admissions are           *)
(* remembered in order; without a bucket it had at most Limit of them in   *)
(* the last window; with one it had the bucket's count of them since the   *)
(* bucket's first attempt, and at most Limit more in the window before.    *)
Ages == [Remembered -> 0..(Window + 1)]
Bucket == [count : 0..(Limit + 1), age : 0..(Window + 1)]

Ordered(r) == \A i, j \in Remembered : i <= j => r[i] <= r[j]

Quiet(r) == r[Limit + 1] > Window

CountOf(b) == Smaller(b.count, Limit)

Counted(r, b) == /\ CountOf(b) > 0
                 /\ r[CountOf(b) + 1] >= b.age
                 /\ r[CountOf(b) + Limit + 1] > Window

HostInv(map, r, h) == /\ r \in Ages /\ Ordered(r)
                      /\ h \in DOMAIN map => map[h] \in Bucket /\ Counted(r, map[h])
                      /\ h \notin DOMAIN map => Quiet(r)

LimiterInv == /\ DOMAIN recent = Callers
              /\ \A h \in Callers : HostInv(buckets, recent[h], h)

(* The ages after an admission, and after a tick.                          *)
Pushed(r) == [i \in Remembered |-> IF i = 1 THEN 0 ELSE r[i - 1]]
Aged(r) == [i \in Remembered |-> Older(r[i])]

(* Once the window of its bucket is over, a host is as if it had none.     *)
LEMMA QuietWhenExpired ==
  ASSUME NEW r \in Ages, Ordered(r), NEW b \in Bucket, Counted(r, b), Expired(b), Limit > 0
  PROVE  Quiet(r)
<1> USE LimiterAssumption
<1>1. CountOf(b) \in 1..Limit /\ CountOf(b) + 1 \in Remembered /\ Limit + 1 \in Remembered
  BY DEF CountOf, Smaller, Counted, Bucket, Remembered
<1>2. r[CountOf(b) + 1] > Window
  BY <1>1 DEF Counted, Expired, Bucket, Ages
<1> QED BY <1>1, <1>2 DEF Ordered, Quiet, Ages

(* An admission is the newest.                                             *)
LEMMA PushedShape ==
  ASSUME NEW r \in Ages, Ordered(r)
  PROVE  /\ Pushed(r) \in Ages /\ Ordered(Pushed(r))
         /\ \A i \in Remembered : i > 1 => Pushed(r)[i] = r[i - 1]
<1> USE LimiterAssumption
<1>1. \A i \in Remembered : i > 1 => i - 1 \in Remembered
  BY DEF Remembered
<1>2. Pushed(r) \in Ages
  BY <1>1 DEF Pushed, Ages, Remembered
<1>3. Ordered(Pushed(r))
  <2> SUFFICES ASSUME NEW i \in Remembered, NEW j \in Remembered, i <= j
               PROVE  Pushed(r)[i] <= Pushed(r)[j]
    BY DEF Ordered
  <2>1. CASE i = 1
    BY <1>2, <2>1 DEF Pushed, Ages
  <2>2. CASE i > 1
    <3>1. i - 1 \in Remembered /\ j - 1 \in Remembered /\ i - 1 <= j - 1 /\ j > 1
      BY <1>1, <2>2 DEF Remembered
    <3> QED BY <3>1, <2>2 DEF Pushed, Ordered, Remembered
  <2> QED BY <2>1, <2>2 DEF Remembered
<1> QED BY <1>1, <1>2, <1>3 DEF Pushed, Remembered

(* The first attempt of a window.                                          *)
LEMMA FirstIsCounted ==
  ASSUME NEW r \in Ages, Ordered(r), Quiet(r), Limit > 0
  PROVE  Counted(Pushed(r), NewBucket)
<1> USE LimiterAssumption
<1>1. CountOf(NewBucket) = 1 /\ NewBucket.age = 0
  BY DEF CountOf, NewBucket, Smaller
<1>2. 2 \in Remembered /\ Limit + 2 \in Remembered /\ 1 \in Remembered
  BY DEF Remembered
<1>3. Pushed(r)[2] = r[1] /\ Pushed(r)[Limit + 2] = r[Limit + 1]
  BY <1>2, PushedShape
<1>4. r[1] \in 0..(Window + 1)
  BY <1>2 DEF Ages
<1>5. Pushed(r)[2] >= 0 /\ Pushed(r)[Limit + 2] > Window
  BY <1>3, <1>4 DEF Quiet
<1>6. 1 + 1 = 2 /\ 1 + Limit + 1 = Limit + 2
  OBVIOUS
<1> QED BY <1>1, <1>5, <1>6 DEF Counted

(* A further attempt of the window.                                        *)
LEMMA NextIsCounted ==
  ASSUME NEW r \in Ages, Ordered(r), NEW b \in Bucket, Counted(r, b), Limit > 0,
         NEW n, n = Smaller(b.count + 1, Limit + 1),
         NEW c \in Bucket, c.count = n, c.age = b.age
  PROVE  Counted(IF n <= Limit THEN Pushed(r) ELSE r, c)
<1> USE LimiterAssumption
<1>1. b.count \in 1..(Limit + 1)
  BY DEF Counted, CountOf, Smaller, Bucket
<1>2. CASE b.count < Limit
  <2>1. n = b.count + 1 /\ n <= Limit /\ CountOf(c) = b.count + 1 /\ CountOf(b) = b.count
    BY <1>1, <1>2 DEF CountOf, Smaller, Bucket
  <2>2. b.count + 2 \in Remembered /\ b.count + Limit + 2 \in Remembered
    BY <1>1, <1>2 DEF Remembered
  <2>3. Pushed(r)[b.count + 2] = r[b.count + 1]
        /\ Pushed(r)[b.count + Limit + 2] = r[b.count + Limit + 1]
    BY <1>1, <2>2, PushedShape
  <2>4. r[b.count + 1] >= b.age /\ r[b.count + Limit + 1] > Window
    BY <2>1 DEF Counted
  <2>5. CountOf(c) + 1 = b.count + 2 /\ CountOf(c) + Limit + 1 = b.count + Limit + 2
        /\ CountOf(c) > 0
    BY <1>1, <2>1
  <2> QED BY <2>1, <2>3, <2>4, <2>5 DEF Counted
<1>3. CASE b.count >= Limit
  <2>1. n = Limit + 1 /\ CountOf(c) = Limit /\ CountOf(b) = Limit
    BY <1>1, <1>3 DEF CountOf, Smaller, Bucket
  <2> QED BY <2>1 DEF Counted
<1> QED BY <1>1, <1>2, <1>3

(* Time passing keeps the order and who is ahead of whom.                  *)
LEMMA AgedShape ==
  ASSUME NEW r \in Ages, Ordered(r)
  PROVE  /\ Aged(r) \in Ages /\ Ordered(Aged(r))
         /\ \A i \in Remembered : r[i] > Window => Aged(r)[i] > Window
         /\ \A i \in Remembered, a \in 0..(Window + 1) :
              r[i] >= a => Aged(r)[i] >= Older(a)
BY LimiterAssumption DEF Aged, Ages, Ordered, Older, Smaller

(* Eviction leaves every host as it was or without a bucket.               *)
LEMMA EvictedHost ==
  ASSUME NEW map, NEW h, NEW r, HostInv(map, r, h), Limit > 0
  PROVE  HostInv(EvictExpired(map), r, h)
<1>1. DOMAIN EvictExpired(map) = {k \in DOMAIN map : ~Expired(map[k])}
      /\ \A k \in DOMAIN EvictExpired(map) : EvictExpired(map)[k] = map[k]
  BY DEF EvictExpired, Restrict
<1>2. CASE h \in DOMAIN map /\ Expired(map[h])
  <2>1. Quiet(r)
    BY <1>2, QuietWhenExpired DEF HostInv
  <2> QED BY <1>1, <1>2, <2>1 DEF HostInv
<1>3. CASE ~(h \in DOMAIN map /\ Expired(map[h]))
  BY <1>1, <1>3 DEF HostInv
<1> QED BY <1>2, <1>3

(* An attempt of host k keeps what is remembered of every host h in step   *)
(* with the buckets.                                                       *)
LEMMA AllowKeepsHosts ==
  ASSUME NEW map, NEW k, NEW h, NEW r, HostInv(map, r, h), Limit > 0
  PROVE  HostInv(Allow(map, k).map, IF h = k /\ Allow(map, k).ok THEN Pushed(r) ELSE r, h)
<1> USE LimiterAssumption
<1> DEFINE res == Allow(map, k)
           after == IF h = k /\ res.ok THEN Pushed(r) ELSE r
<1>0. Limit # 0 /\ r \in Ages /\ Ordered(r) /\ Pushed(r) \in Ages /\ Ordered(Pushed(r))
  BY PushedShape DEF HostInv
<1>1. \A m, b : /\ DOMAIN With(m, k, b) = DOMAIN m \cup {k}
                /\ With(m, k, b)[k] = b
                /\ \A x \in DOMAIN m : x # k => With(m, k, b)[x] = m[x]
  BY DEF With
(* With a bucket of k replaced, only k can change.                         *)
<1>2. ASSUME NEW m, NEW b, HostInv(m, r, h), h # k PROVE HostInv(With(m, k, b), r, h)
  <2>1. CASE h \in DOMAIN m
    <3>1. h \in DOMAIN With(m, k, b) /\ With(m, k, b)[h] = m[h]
      BY <1>1, <1>2, <2>1
    <3> QED BY <1>2, <2>1, <3>1 DEF HostInv
  <2>2. CASE h \notin DOMAIN m
    <3>1. DOMAIN With(m, k, b) = DOMAIN m \cup {k}
      BY <1>1
    <3>2. h \notin DOMAIN With(m, k, b)
      BY <1>2, <2>2, <3>1
    <3> QED BY <1>2, <2>2, <3>2 DEF HostInv
  <2> QED BY <2>1, <2>2
<1>3. NewBucket \in Bucket
  BY DEF NewBucket, Bucket
<1>4. ASSUME NEW m, Quiet(r), h = k PROVE HostInv(With(m, k, NewBucket), Pushed(r), h)
  BY <1>0, <1>1, <1>3, <1>4, FirstIsCounted DEF HostInv
<1>5. CASE k \notin DOMAIN map
  <2> DEFINE room == IF Cardinality(DOMAIN map) >= MaxBuckets
                       THEN EvictExpired(map) ELSE map
  <2>1. HostInv(room, r, h)
    BY EvictedHost
  <2>2. res = IF Cardinality(DOMAIN room) >= MaxBuckets
                THEN [map |-> room, ok |-> FALSE]
                ELSE [map |-> With(room, k, NewBucket), ok |-> TRUE]
    BY <1>0, <1>5 DEF Allow
  <2>3. k \notin DOMAIN room
    BY <1>5 DEF EvictExpired, Restrict
  <2> HIDE DEF room, res
  <2>4. CASE Cardinality(DOMAIN room) >= MaxBuckets
    <3>1. res.map = room /\ res.ok = FALSE
      BY <2>2, <2>4
    <3> QED BY <2>1, <3>1 DEF res
  <2>5. CASE ~(Cardinality(DOMAIN room) >= MaxBuckets)
    <3>1. res.map = With(room, k, NewBucket) /\ res.ok = TRUE
      BY <2>2, <2>5
    <3>2. CASE h = k
      BY <1>4, <2>1, <2>3, <3>1, <3>2 DEF HostInv, res
    <3>3. CASE h # k
      BY <1>2, <2>1, <3>1, <3>3 DEF res
    <3> QED BY <3>2, <3>3
  <2> QED BY <2>4, <2>5 DEF res
<1>6. CASE k \in DOMAIN map /\ Expired(map[k])
  <2>1. res.map = With(map, k, NewBucket) /\ res.ok = TRUE
    BY <1>0, <1>6 DEF Allow
  <2> HIDE DEF res
  <2>2. CASE h = k
    <3>1. Quiet(r)
      BY <1>6, <2>2, QuietWhenExpired DEF HostInv
    <3> QED BY <1>4, <2>1, <2>2, <3>1 DEF res
  <2>3. CASE h # k
    BY <1>2, <2>1, <2>3 DEF res
  <2> QED BY <2>2, <2>3
<1>7. CASE k \in DOMAIN map /\ ~Expired(map[k])
  <2> DEFINE n == Smaller(map[k].count + 1, Limit + 1)
             c == [map[k] EXCEPT !.count = n]
  <2>1. res.map = With(map, k, c) /\ res.ok = (n <= Limit)
    BY <1>0, <1>7 DEF Allow
  <2> HIDE DEF res
  <2>2. CASE h = k
    <3>1. map[k] \in Bucket /\ Counted(r, map[k])
      BY <1>7, <2>2 DEF HostInv
    <3>2. n \in 0..(Limit + 1)
      BY <3>1 DEF Bucket, Smaller
    <3>3. c \in Bucket /\ c.count = n /\ c.age = map[k].age
      BY <3>1, <3>2 DEF Bucket
    <3> HIDE DEF c
    <3>4. Counted(IF n <= Limit THEN Pushed(r) ELSE r, c)
      BY <1>0, <3>1, <3>3, NextIsCounted
    <3>5. after = IF n <= Limit THEN Pushed(r) ELSE r
      BY <2>1, <2>2
    <3> HIDE DEF n, after
    <3>6. after \in Ages /\ Ordered(after)
      BY <1>0, <3>5
    <3>7. HostInv(With(map, k, c), after, h)
      BY <1>1, <2>2, <3>3, <3>4, <3>5, <3>6 DEF HostInv
    <3> QED BY <2>1, <3>7 DEF res, after
  <2>3. CASE h # k
    BY <1>2, <2>1, <2>3 DEF res
  <2> QED BY <2>2, <2>3
<1> QED BY <1>5, <1>6, <1>7

(* A tick keeps every host in step too.                                    *)
LEMMA TickKeepsHosts ==
  ASSUME NEW map, NEW h, NEW r, HostInv(map, r, h), Limit > 0
  PROVE  HostInv([k \in DOMAIN map |-> [map[k] EXCEPT !.age = Older(@)]], Aged(r), h)
<1> USE LimiterAssumption
<1> DEFINE later == [k \in DOMAIN map |-> [map[k] EXCEPT !.age = Older(@)]]
<1>1. r \in Ages /\ Ordered(r)
  BY DEF HostInv
<1>2. CASE h \notin DOMAIN map
  <2>1. Quiet(Aged(r))
    <3>1. Limit + 1 \in Remembered
      BY DEF Remembered
    <3> QED BY <1>1, <1>2, <3>1, AgedShape DEF HostInv, Quiet
  <2> QED BY <1>1, <1>2, <2>1, AgedShape DEF HostInv
<1>3. CASE h \in DOMAIN map
  <2>1. map[h] \in Bucket /\ Counted(r, map[h])
    BY <1>3 DEF HostInv
  <2>2. Older(map[h].age) \in 0..(Window + 1)
    BY <2>1 DEF Bucket, Older, Smaller
  <2>3. /\ later[h] \in Bucket /\ later[h].count = map[h].count
        /\ later[h].age = Older(map[h].age)
    BY <1>3, <2>1, <2>2 DEF Bucket
  <2> DEFINE n == CountOf(map[h])
  <2>4. n \in 1..Limit /\ n + 1 \in Remembered /\ n + Limit + 1 \in Remembered
    BY <2>1 DEF CountOf, Smaller, Counted, Bucket, Remembered
  <2>5. CountOf(later[h]) = n
    BY <2>3 DEF CountOf
  <2> HIDE DEF later, n
  <2>6. r[n + 1] >= map[h].age /\ r[n + Limit + 1] > Window /\ map[h].age \in 0..(Window + 1)
    BY <2>1 DEF Counted, n, Bucket
  <2>7. Aged(r)[n + 1] >= Older(map[h].age) /\ Aged(r)[n + Limit + 1] > Window
    BY <1>1, <2>4, <2>6, AgedShape
  <2>8. Counted(Aged(r), later[h])
    BY <2>3, <2>4, <2>5, <2>7 DEF Counted
  <2>9. DOMAIN later = DOMAIN map
    BY DEF later
  <2> QED BY <1>1, <1>3, <2>3, <2>8, <2>9, AgedShape DEF HostInv, later
<1> QED BY <1>2, <1>3

(* No host is let through more than twice the limit in a span as long as   *)
(* the window, whatever the ports, the evictions and the prunings: the     *)
(* fixed window of the limiter can be straddled once, never twice.         *)
THEOREM AdmittedAtMostTwiceTheLimit == LimiterSpec => []AtMostTwice
<1> USE LimiterAssumption
<1>1. LimiterInit => (Limit > 0 => LimiterInv)
  <2> SUFFICES ASSUME LimiterInit, Limit > 0 PROVE LimiterInv
    OBVIOUS
  <2>1. DOMAIN buckets = {} /\ recent = [h \in Callers |-> [i \in Remembered |-> Window + 1]]
    BY DEF LimiterInit
  <2>2. Limit + 1 \in Remembered /\ Window + 1 \in 0..(Window + 1) /\ Window + 1 > Window
    BY DEF Remembered
  <2> QED BY <2>1, <2>2 DEF LimiterInv, HostInv, Ages, Ordered, Quiet
<1>2. (Limit > 0 => LimiterInv) /\ [LimiterNext]_limiterVars => (Limit > 0 => LimiterInv)'
  <2> SUFFICES ASSUME Limit > 0, LimiterInv, [LimiterNext]_limiterVars PROVE LimiterInv'
    OBVIOUS
  <2>1. ASSUME NEW k \in Callers, NEW p \in Ports, Attempt(k, p) PROVE LimiterInv'
    <3> DEFINE res == Allow(buckets, k)
    <3>1. /\ buckets' = res.map
          /\ recent' = IF res.ok THEN [recent EXCEPT ![k] = Pushed(recent[k])] ELSE recent
      BY <2>1 DEF Attempt, LimiterKey, Pushed
    <3>2. DOMAIN recent' = Callers
      BY <3>1 DEF LimiterInv
    <3>3. ASSUME NEW h \in Callers PROVE HostInv(buckets', recent'[h], h)
      <4>1. recent'[h] = IF h = k /\ res.ok THEN Pushed(recent[h]) ELSE recent[h]
        BY <3>1 DEF LimiterInv
      <4>2. HostInv(res.map, IF h = k /\ res.ok THEN Pushed(recent[h]) ELSE recent[h], h)
        BY AllowKeepsHosts DEF LimiterInv
      <4> QED BY <3>1, <4>1, <4>2
    <3> QED BY <3>2, <3>3 DEF LimiterInv
  <2>2. CASE Prune
    BY <2>2, EvictedHost DEF Prune, LimiterInv
  <2>3. CASE LimiterTick
    <3>1. /\ buckets' = [k \in DOMAIN buckets |-> [buckets[k] EXCEPT !.age = Older(@)]]
          /\ recent' = [h \in Callers |-> Aged(recent[h])]
      BY <2>3 DEF LimiterTick, Aged
    <3> QED BY <3>1, TickKeepsHosts DEF LimiterInv
  <2>4. CASE UNCHANGED limiterVars
    BY <2>4 DEF limiterVars, LimiterInv
  <2> QED BY <2>1, <2>2, <2>3, <2>4 DEF LimiterNext
<1>3. (Limit > 0 => LimiterInv) => AtMostTwice
  <2> SUFFICES ASSUME Limit > 0, LimiterInv, NEW h \in Callers
               PROVE  recent[h][2 * Limit + 1] > Window
    BY DEF AtMostTwice
  <2> DEFINE r == recent[h]
             n == IF h \in DOMAIN buckets THEN CountOf(buckets[h]) + Limit + 1 ELSE Limit + 1
  <2>1. r \in Ages /\ Ordered(r) /\ HostInv(buckets, r, h)
    BY DEF LimiterInv, HostInv
  <2>2. n \in Remembered /\ r[n] > Window
    BY <2>1 DEF HostInv, Counted, Quiet, CountOf, Smaller, Bucket, Remembered
  <2>3. 2 * Limit + 1 \in Remembered /\ n <= 2 * Limit + 1
    BY <2>2 DEF Remembered
  <2> HIDE DEF n, r
  <2>4. r[n] <= r[2 * Limit + 1] /\ r[n] \in Nat /\ r[2 * Limit + 1] \in Nat
    BY <2>1, <2>2, <2>3 DEF Ordered, Ages
  <2> QED BY <2>2, <2>4 DEF r
<1> QED BY <1>1, <1>2, <1>3, PTL DEF LimiterSpec
=============================================================================
