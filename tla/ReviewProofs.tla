---------------------------- MODULE ReviewProofs ----------------------------
(***************************************************************************)
(* That Review warns in time, raises no false alarm, and is about          *)
(* identities signed for what somebody wrote: for every width of a         *)
(* duration, every set of lifetimes and all thresholds.                    *)
(***************************************************************************)
EXTENDS Review, TLAPS

-----------------------------------------------------------------------------
(* Arithmetic that wraps around.                                           *)

(* Wrapping changes a number by a multiple of the range, and brings it     *)
(* into the range.                                                         *)
LEMMA WrapShift ==
  ASSUME NEW n \in Int
  PROVE  /\ Wrap(n) \in (-Half)..(Half - 1)
         /\ \E k \in Int : Wrap(n) = n + k * (2 * Half)
<1> DEFINE M == 2 * Half
           q == (n + Half) \div M
           r == (n + Half) % M
<1>1. M \in Nat \ {0} /\ Half \in Nat
  BY LifetimeAssumption
<1>2. q \in Int /\ r \in 0..(M - 1) /\ n + Half = M * q + r
  <2> HIDE DEF M
  <2> QED BY <1>1
<1>3. Wrap(n) = r - Half
  BY DEF Wrap
<1>4. Wrap(n) = n + (-q) * M
  <2>1. (-q) * M = -(M * q)
    <3> HIDE DEF M, q
    <3> QED BY <1>1, <1>2
  <2> HIDE DEF M, q, r
  <2> QED BY <1>1, <1>2, <1>3, <2>1
<1>5. Wrap(n) \in (-Half)..(Half - 1)
  BY <1>1, <1>2, <1>3
<1> QED BY <1>2, <1>4, <1>5

(* Two numbers in the range that differ by a multiple of it are the same.  *)
LEMMA WrapUnique ==
  ASSUME NEW a \in (-Half)..(Half - 1), NEW b \in (-Half)..(Half - 1),
         NEW k \in Int, a = b + k * (2 * Half)
  PROVE  a = b
<1>1. Half \in Nat \ {0}
  BY LifetimeAssumption
<1>2. CASE k >= 1
  <2>1. k * (2 * Half) >= 2 * Half
    BY <1>1, <1>2
  <2> QED BY <1>1, <2>1
<1>3. CASE k <= -1
  <2>1. k * (2 * Half) <= -(2 * Half)
    BY <1>1, <1>3
  <2> QED BY <1>1, <2>1
<1>4. CASE k = 0
  BY <1>1, <1>4
<1> QED BY <1>2, <1>3, <1>4

LEMMA Distributes ==
  ASSUME NEW a \in Int, NEW b \in Int, NEW m \in Int
  PROVE  /\ (a + b) * m = a * m + b * m
         /\ a * m \in Int /\ b * m \in Int
OBVIOUS

(* What Parse computes differs from what the text means by a multiple of   *)
(* the range, though each of its operations may wrap.                      *)
LEMMA ParseShift ==
  ASSUME NEW t \in Texts
  PROVE  /\ ParseWithDays(t) \in (-Half)..(Half - 1)
         /\ Meaning(t) \in Int
         /\ \E k \in Int : ParseWithDays(t) = Meaning(t) + k * (2 * Half)
<1> DEFINE M == 2 * Half
           D == t.days * Day
           total == Wrap(Wrap(D) + t.rest)
<1>1. Half \in Nat /\ M \in Int /\ D \in Int /\ t.rest \in Int /\ t.neg \in BOOLEAN
  BY LifetimeAssumption DEF Texts
<1>2. PICK i \in Int : Wrap(D) = D + i * M
  BY <1>1, WrapShift
<1>3. Wrap(D) + t.rest \in Int
  <2>1. Wrap(D) \in Int
    BY <1>1, WrapShift
  <2> QED BY <1>1, <2>1
<1>4. PICK j \in Int : total = Wrap(D) + t.rest + j * M
  BY <1>3, WrapShift
<1>5. total \in (-Half)..(Half - 1)
  BY <1>3, WrapShift
<1>6. total = (D + t.rest) + (i + j) * M
  <2>1. (i + j) * M = i * M + j * M /\ i * M \in Int /\ j * M \in Int
    BY <1>1, Distributes
  <2> HIDE DEF M, D, total
  <2> QED BY <1>1, <1>2, <1>4, <2>1
<1>7. CASE ~t.neg
  <2>1. ParseWithDays(t) = total /\ Meaning(t) = D + t.rest
    BY <1>7 DEF ParseWithDays, Meaning
  <2>2. i + j \in Int /\ D + t.rest \in Int
    BY <1>1
  <2> HIDE DEF M, D, total
  <2>3. ParseWithDays(t) = Meaning(t) + (i + j) * M
    BY <1>6, <2>1
  <2> QED BY <1>5, <2>1, <2>2, <2>3 DEF M
<1>8. CASE t.neg
  <2>1. ParseWithDays(t) = Wrap(-total) /\ Meaning(t) = -(D + t.rest)
    BY <1>8 DEF ParseWithDays, Meaning
  <2>2. -total \in Int
    BY <1>1, <1>5
  <2>3. PICK l \in Int : Wrap(-total) = -total + l * M
    BY <2>2, WrapShift
  <2>4. Wrap(-total) \in (-Half)..(Half - 1)
    BY <2>2, WrapShift
  <2>5. /\ l * M = (l - i - j) * M + (i + j) * M
        /\ (l - i - j) * M \in Int /\ (i + j) * M \in Int
    <3>1. l - i - j \in Int /\ i + j \in Int /\ l = (l - i - j) + (i + j)
      OBVIOUS
    <3> QED BY <1>1, <3>1, Distributes
  <2>6. Wrap(-total) = -(D + t.rest) + (l - i - j) * M
    <3> HIDE DEF M, D, total
    <3> QED BY <1>1, <1>6, <2>2, <2>3, <2>5
  <2>7. l - i - j \in Int /\ -(D + t.rest) \in Int
    BY <1>1
  <2> HIDE DEF M, D, total
  <2>8. ParseWithDays(t) = Meaning(t) + (l - i - j) * M
    BY <2>1, <2>6
  <2> QED BY <2>1, <2>4, <2>7, <2>8 DEF M
<1> QED BY <1>1, <1>7, <1>8

(* Parse is exact for every written amount whose value fits a duration:    *)
(* read as meant when positive and refused otherwise, though the product,  *)
(* the sum and the negation may each wrap on the way.                      *)
THEOREM ParseIsExactInRange ==
  ASSUME NEW t \in Texts, t.kind = "amount", Meaning(t) \in (-Half)..(Half - 1)
  PROVE  Parse(t) = IF Meaning(t) <= 0 THEN Refused ELSE Meaning(t)
<1>1. PICK k \in Int : ParseWithDays(t) = Meaning(t) + k * (2 * Half)
  BY ParseShift
<1>2. ParseWithDays(t) \in (-Half)..(Half - 1)
  BY ParseShift
<1>3. ParseWithDays(t) = Meaning(t)
  BY <1>1, <1>2, WrapUnique
<1> QED BY <1>3 DEF Parse

(* What Parse accepts, and what fits, is what was written.                 *)
LEMMA ParseMeans ==
  ASSUME NEW t \in Texts, t.kind = "amount", Parse(t) # Refused, Representable(t)
  PROVE  Parse(t) = Meaning(t)
<1>1. Meaning(t) \in (-Half)..(Half - 1)
  BY LifetimeAssumption DEF Representable
<1> QED BY <1>1, ParseIsExactInRange

LEMMA ParseType ==
  ASSUME NEW t \in Texts, Parse(t) # Refused
  PROVE  /\ Parse(t) \in Nat \cup {Unlimited}
         /\ Parse(t) = Unset <=> t.kind = "nothing"
         /\ Parse(t) = Unlimited <=> t.kind = "unlimited"
<1>1. ParseWithDays(t) \in Int
  BY ParseShift, LifetimeAssumption
<1>2. t.kind \in {"nothing", "unlimited", "amount"}
  BY DEF Texts
<1> QED BY <1>1, <1>2, LifetimeAssumption DEF Parse, Unset

-----------------------------------------------------------------------------
(* The invariant.                                                          *)

(* The configuration loaded.                                               *)
Configured == Parse(own) # Refused /\ Parse(wide) # Refused

(* What a host holds was signed for the configured lifetime, and runs out  *)
(* unless that has no end.                                                 *)
LifeAsConfigured ==
  held # None =>
    /\ life = LifetimeFor
    /\ IF life = Unlimited THEN held = Unlimited ELSE held \in 0..life

(* What a record of the agent says of an expiry is not later than the      *)
(* identity that was signed last.                                          *)
Known(since, expires) ==
  expires # None =>
    /\ since # None /\ signed # None
    /\ IF LifetimeFor = Unlimited THEN expires = Unlimited
       ELSE expires \in Nat /\ expires <= signed

(* The identity signed last is at least as young as the one the host       *)
(* holds; the very same one, unless an answer was lost or the agent was    *)
(* revoked since.                                                          *)
RecordKeepsUp ==
  /\ Known(seen, recorded) /\ Known(fileSeen, fileExpires)
  /\ signed # None => IF LifetimeFor = Unlimited THEN signed = Unlimited
                    ELSE signed \in 0..LifetimeFor
  /\ held # None =>
       /\ signed # None
       /\ held # Unlimited => held <= signed
       /\ ~excused => signed = held
  /\ ~excused => ~revoked /\ ~Blind

(* As long as no `check` has reported an agent, the time its identity has  *)
(* left and the time since the last `check` do not both fall short: at     *)
(* that `check` the threshold was not reached, or it was before the        *)
(* identity was signed.                                                    *)
NoticeAhead ==
  /\ held \in Nat /\ ~deviceKey /\ ~excused /\ ~warned
  /\ CheckEvery < EffectiveWarnBefore(Parse(own)) /\ CheckEvery < life
  => \/ held + unchecked >= EffectiveWarnBefore(Parse(own))
     \/ held + unchecked >= life

IInv == /\ TypeOK /\ Configured /\ LifeAsConfigured /\ RecordKeepsUp
        /\ NoticeAhead /\ NoFalseAlarm

-----------------------------------------------------------------------------
(* What a configuration that loads amounts to.                             *)
LEMMA Lifetimes ==
  ASSUME own \in Written, wide \in Written, Configured
  PROVE  /\ Parse(own) \in Nat \cup {Unlimited}
         /\ Parse(wide) \in Nat \cup {Unlimited}
         /\ LifetimeFor \in (Nat \ {0}) \cup {Unlimited}
         /\ EffectiveWarnBefore(Parse(own)) \in Nat
<1>1. own \in Texts /\ wide \in Texts
  BY ReviewAssumption
<1>2. Parse(own) \in Nat \cup {Unlimited} /\ Parse(wide) \in Nat \cup {Unlimited}
  BY <1>1, ParseType DEF Configured
<1>3. LifetimeFor \in (Nat \ {0}) \cup {Unlimited}
  BY <1>2, ReviewAssumption, LifetimeAssumption DEF LifetimeFor, Or, Unset
<1>4. EffectiveWarnBefore(Parse(own)) \in Nat
  BY <1>2, ReviewAssumption, LifetimeAssumption DEF EffectiveWarnBefore, Unset
<1> QED BY <1>2, <1>3, <1>4

LEMMA InitIInv == Init => IInv
<1> SUFFICES ASSUME Init PROVE IInv
  OBVIOUS
<1>1. TypeOK /\ Configured
  <2>1. Configured /\ own \in Written /\ wide \in Written
    BY DEF Init, Configured
  <2>2. /\ seen \in Past /\ fileSeen \in Past /\ unchecked \in 0..CheckEvery
        /\ recorded \in Left /\ fileExpires \in Left /\ signed \in Left
        /\ held \in Left /\ life \in (Nat \ {0}) \cup {Unlimited}
    BY ReviewAssumption DEF Init, Left, Past
  <2> QED BY <2>1, <2>2 DEF Init, TypeOK
<1>2. LifeAsConfigured /\ RecordKeepsUp
  BY ReviewAssumption DEF Init, LifeAsConfigured, RecordKeepsUp, Known, Blind
<1>3. held \notin Nat
  BY ReviewAssumption DEF Init
<1>4. finding \notin {"lockout soon", "locked out"}
  BY ReviewAssumption, Zenon DEF Init, Findings
<1>5. NoticeAhead /\ NoFalseAlarm
  BY <1>3, <1>4 DEF NoticeAhead, NoFalseAlarm
<1> QED BY <1>1, <1>2, <1>5 DEF IInv

(* Nothing here changes the configuration, nor what follows from it.       *)
LEMMA ConfigurationStays ==
  ASSUME IInv, UNCHANGED configVars
  PROVE  /\ own' = own /\ wide' = wide /\ deviceKey' = deviceKey
         /\ Configured' /\ LifetimeFor' = LifetimeFor
         /\ EffectiveWarnBefore(Parse(own))' = EffectiveWarnBefore(Parse(own))
         /\ own \in Written /\ wide \in Written
         /\ Parse(own) \in Nat \cup {Unlimited} /\ Parse(wide) \in Nat \cup {Unlimited}
         /\ LifetimeFor \in (Nat \ {0}) \cup {Unlimited}
         /\ EffectiveWarnBefore(Parse(own)) \in Nat
<1>1. own' = own /\ wide' = wide /\ deviceKey' = deviceKey
  BY DEF configVars
<1>2. Configured' /\ LifetimeFor' = LifetimeFor
  BY <1>1 DEF IInv, Configured, LifetimeFor
<1>3. EffectiveWarnBefore(Parse(own))' = EffectiveWarnBefore(Parse(own))
  BY <1>1
<1>4. own \in Written /\ wide \in Written
  BY DEF IInv, TypeOK
<1> QED BY <1>1, <1>2, <1>3, <1>4, Lifetimes DEF IInv

(* A step that reports nothing raises no alarm.                            *)
LEMMA Silence ==
  ASSUME finding' = None
  PROVE  NoFalseAlarm'
<1>1. None \notin {"lockout soon", "locked out"}
  BY ReviewAssumption, Zenon DEF Findings
<1> QED BY <1>1 DEF NoFalseAlarm

LEMMA SignIInv ==
  ASSUME IInv, NEW arrives \in BOOLEAN, NEW saved \in BOOLEAN, Sign(arrives, saved),
         ~revoked, finding' = None,
         UNCHANGED <<configVars, revoked, on, unchecked>>
  PROVE  IInv'
<1> USE ReviewAssumption, LifetimeAssumption
<1>0. UNCHANGED configVars
  OBVIOUS
<1>1. NoFalseAlarm'
  BY Silence
<1>2. /\ seen' = 0 /\ recorded' = LifetimeFor /\ signed' = LifetimeFor
      /\ \/ fileSeen' = 0 /\ fileExpires' = LifetimeFor
         \/ fileSeen' = fileSeen /\ fileExpires' = fileExpires
  BY DEF Sign, Persist, fileVars
<1>3. /\ LifetimeFor' = LifetimeFor /\ LifetimeFor \in (Nat \ {0}) \cup {Unlimited}
      /\ fileExpires \in Left /\ signed \in Left
  BY <1>0, ConfigurationStays DEF IInv, TypeOK
<1>4. /\ Known(seen, recorded)' /\ Known(fileSeen, fileExpires)'
      /\ signed' # None
      /\ IF LifetimeFor' = Unlimited THEN signed' = Unlimited ELSE signed' \in 0..LifetimeFor'
  <2>1. Known(seen, recorded)'
    BY <1>2, <1>3 DEF Known
  <2>2. CASE fileSeen' = 0 /\ fileExpires' = LifetimeFor
    BY <1>2, <1>3, <2>1, <2>2 DEF Known
  <2>3. CASE fileSeen' = fileSeen /\ fileExpires' = fileExpires
    BY <1>2, <1>3, <2>1, <2>3 DEF Known, IInv, RecordKeepsUp, Left
  <2> QED BY <1>2, <1>3, <2>1, <2>2, <2>3
<1>5. /\ seen' \in Past /\ fileSeen' \in Past
      /\ recorded' \in Left /\ fileExpires' \in Left /\ signed' \in Left
  BY <1>2, <1>3 DEF IInv, TypeOK, Left, Past
<1>6. CASE arrives
  <2>1. /\ held' = LifetimeFor /\ life' = LifetimeFor
        /\ warned' = FALSE /\ excused' = Blind'
    BY <1>6 DEF Sign
  <2>2. TypeOK'
    <3>1. held' \in Left /\ life' \in (Nat \ {0}) \cup {Unlimited}
      BY <1>3, <2>1 DEF Left
    <3>2. excused' \in BOOLEAN
      BY <2>1 DEF Blind
    <3> QED BY <1>0, <1>5, <2>1, <3>1, <3>2, ConfigurationStays DEF IInv, TypeOK
  <2>3. LifeAsConfigured' /\ RecordKeepsUp'
    BY <1>2, <1>3, <1>4, <2>1 DEF LifeAsConfigured, RecordKeepsUp
  <2>4. NoticeAhead'
    <3>1. unchecked' \in Nat
      BY DEF IInv, TypeOK
    <3> QED BY <2>1, <3>1 DEF NoticeAhead
  <2> QED BY <1>0, <1>1, <2>2, <2>3, <2>4, ConfigurationStays DEF IInv
<1>7. CASE ~arrives
  <2>1. held' = held /\ life' = life /\ warned' = warned /\ excused' = TRUE
    BY <1>7 DEF Sign
  <2>2. TypeOK'
    BY <1>0, <1>5, <2>1, ConfigurationStays DEF IInv, TypeOK
  <2>3. LifeAsConfigured'
    BY <1>3, <2>1 DEF IInv, LifeAsConfigured
  <2>4. held # None /\ held # Unlimited => held <= LifetimeFor /\ LifetimeFor # Unlimited
    BY <1>3 DEF IInv, LifeAsConfigured
  <2>5. RecordKeepsUp'
    BY <1>2, <1>3, <1>4, <2>1, <2>4 DEF RecordKeepsUp
  <2>6. NoticeAhead'
    BY <2>1 DEF NoticeAhead
  <2> QED BY <1>0, <1>1, <2>2, <2>3, <2>5, <2>6, ConfigurationStays DEF IInv
<1> QED BY <1>6, <1>7

(* What a `check` that reports nothing shows, and that a report is         *)
(* deserved.                                                               *)
LEMMA CheckIInv ==
  ASSUME IInv, Check
  PROVE  IInv'
<1> USE ReviewAssumption, LifetimeAssumption
<1>0. UNCHANGED configVars
  BY DEF Check
<1>1. /\ finding' = Concern /\ unchecked' = 0
      /\ warned' = (warned \/ (NeedsAction(Concern) /\ Valid))
      /\ seen' = seen /\ recorded' = recorded /\ revoked' = revoked
      /\ fileSeen' = fileSeen /\ fileExpires' = fileExpires /\ signed' = signed
      /\ held' = held /\ life' = life /\ on' = on /\ excused' = excused
  BY DEF Check, brokerVars, memoryVars, fileVars, hostVars
<1>2. TypeOK'
  <2>1. Concern \in Findings
    BY Zenon DEF Concern, Findings
  <2>2. warned' \in BOOLEAN
    BY <1>1
  <2> QED BY <1>0, <1>1, <2>1, <2>2, ConfigurationStays DEF IInv, TypeOK
<1>3. LifeAsConfigured' /\ RecordKeepsUp'
  BY <1>0, <1>1, ConfigurationStays DEF IInv, LifeAsConfigured, RecordKeepsUp, Known, Blind
<1>4. NoticeAhead'
  <2>1. SUFFICES ASSUME held \in Nat, ~deviceKey, ~excused, ~warned',
                        CheckEvery < EffectiveWarnBefore(Parse(own)), CheckEvery < life
                 PROVE  held >= EffectiveWarnBefore(Parse(own)) \/ held >= life
    BY <1>0, <1>1, ConfigurationStays DEF NoticeAhead
  <2>a. ~warned /\ ~(NeedsAction(Concern) /\ Valid)
    BY <1>1, <2>1, Zenon
  <2>2. signed = held /\ ~revoked /\ ~warned /\ ~Blind
    BY <2>1, <2>a DEF IInv, RecordKeepsUp
  <2>3. CASE held = 0
    <3>1. unchecked \in 0..CheckEvery
      BY DEF IInv, TypeOK
    <3> QED BY <2>1, <2>2, <2>3, <3>1, <1>0, ConfigurationStays DEF IInv, NoticeAhead, TypeOK
  <2>4. CASE held # 0
    <3>1. ~NeedsAction(Concern)
      BY <2>1, <2>4, <2>a DEF Valid
    <3>2. fileSeen # None /\ ~Expiring(EffectiveWarnBefore(Parse(own)) - 1)
      BY <2>1, <2>2, <3>1 DEF NeedsAction, Concern
    <3>3. fileExpires \in Nat /\ fileExpires <= held
      <4>1. LifetimeFor # Unlimited
        BY <2>1, <2>2 DEF IInv, RecordKeepsUp
      <4> QED BY <2>1, <2>2, <3>2, <4>1 DEF Blind, IInv, RecordKeepsUp, Known
    <3>4. fileExpires >= EffectiveWarnBefore(Parse(own))
      BY <3>2, <3>3, <1>0, ConfigurationStays DEF Expiring
    <3> QED BY <2>1, <3>3, <3>4, <1>0, ConfigurationStays
  <2> QED BY <2>3, <2>4
<1>5. NoFalseAlarm'
  <2>1. SUFFICES ASSUME Concern \in {"lockout soon", "locked out"}, fileExpires = signed,
                        Parse(own) # Unset \/ Parse(wide) = Unset, Valid
                 PROVE  Due
    BY <1>0, <1>1, ConfigurationStays DEF NoFalseAlarm, Due, Valid
  <2>2. Expiring(0) \/ Expiring(EffectiveWarnBefore(Parse(own)) - 1)
    BY <2>1 DEF Concern
  <2>3. signed # None /\ signed # Unlimited
    BY <2>1, <2>2 DEF Expiring
  <2>4. life = LifetimeFor /\ life \in Nat /\ held \in 1..life /\ held <= signed
    <3>1. held # None /\ held # 0
      BY <2>1 DEF Valid
    <3>2. life = LifetimeFor
      BY <3>1 DEF IInv, LifeAsConfigured
    <3>3. life # Unlimited
      BY <2>3, <3>2 DEF IInv, RecordKeepsUp
    <3>4. held \in 0..life
      BY <3>1, <3>3 DEF IInv, LifeAsConfigured
    <3>5. life \in Nat
      BY <3>3 DEF IInv, TypeOK
    <3> QED BY <3>1, <3>2, <3>4, <3>5 DEF IInv, RecordKeepsUp
  <2>5. signed \in Nat /\ held <= EffectiveWarnBefore(Parse(own)) - 1
    <3>1. signed \in Nat
      BY <2>3, <2>4 DEF IInv, RecordKeepsUp
    <3>2. signed <= EffectiveWarnBefore(Parse(own)) - 1 \/ signed <= 0
      BY <2>1, <2>2 DEF Expiring
    <3> QED BY <2>4, <3>1, <3>2, <1>0, ConfigurationStays
  <2>6. 3 * EffectiveWarnBefore(Parse(own)) <= life
    <3>1. CASE Parse(own) = Unset
      BY <2>1, <2>4, <3>1 DEF EffectiveWarnBefore, LifetimeFor, Or, Unset
    <3>2. CASE Parse(own) # Unset
      <4>1. life = Parse(own) /\ Parse(own) # Unlimited
        BY <2>4, <3>2 DEF LifetimeFor, Or
      <4>2. 3 * (Parse(own) \div 3) <= Parse(own) /\ Parse(own) \div 3 \in Nat
        BY <2>4, <4>1
      <4>3. EffectiveWarnBefore(Parse(own)) <= Parse(own) \div 3
        BY <3>2, <4>1, <4>2 DEF EffectiveWarnBefore
      <4> QED BY <4>1, <4>2, <4>3, <1>0, ConfigurationStays
    <3> QED BY <3>1, <3>2
  <2> QED BY <2>4, <2>5, <2>6, <1>0, ConfigurationStays DEF Due
<1> QED BY <1>0, <1>2, <1>3, <1>4, <1>5, ConfigurationStays DEF IInv

(* Both clocks that run out lose a tick, and the time since the last       *)
(* `check` gains one.                                                      *)
LEMMA TickIInv ==
  ASSUME IInv, Tick
  PROVE  IInv'
<1> USE ReviewAssumption, LifetimeAssumption
<1>0. UNCHANGED configVars
  BY DEF Tick
<1>1. /\ unchecked < CheckEvery /\ unchecked' = unchecked + 1
      /\ held' = Less(held) /\ signed' = Less(signed)
      /\ recorded' = Less(recorded) /\ fileExpires' = Less(fileExpires)
      /\ seen' = More(seen) /\ fileSeen' = More(fileSeen)
      /\ revoked' = revoked /\ life' = life /\ on' = on
      /\ warned' = warned /\ excused' = excused /\ finding' = None
  BY DEF Tick
<1>2. ASSUME NEW x \in Left
      PROVE  /\ Less(x) \in Left
             /\ x \in {None, Unlimited} => Less(x) = x
             /\ x \in Nat => Less(x) \in Nat /\ Less(x) = IF x = 0 THEN 0 ELSE x - 1
  BY DEF Left, Less
<1>3. /\ held \in Left /\ recorded \in Left /\ fileExpires \in Left /\ signed \in Left
      /\ seen \in Past /\ fileSeen \in Past
  BY DEF IInv, TypeOK
<1>a. ASSUME NEW x \in Past PROVE More(x) \in Past /\ (More(x) = None <=> x = None)
  BY DEF Past, More
<1>4. TypeOK'
  <2>1. seen' \in Past /\ fileSeen' \in Past
    BY <1>1, <1>3, <1>a
  <2>2. unchecked' \in 0..CheckEvery
    BY <1>1 DEF IInv, TypeOK
  <2> QED BY <1>0, <1>1, <1>2, <1>3, <2>1, <2>2, ConfigurationStays DEF IInv, TypeOK
<1>5. LifeAsConfigured'
  BY <1>0, <1>1, <1>2, <1>3, ConfigurationStays DEF IInv, LifeAsConfigured, Left
<1>6. RecordKeepsUp'
  <2>0. LifetimeFor' = LifetimeFor /\ LifetimeFor \in (Nat \ {0}) \cup {Unlimited}
    BY <1>0, ConfigurationStays
  <2>1. \A x \in Left : Less(x) = None <=> x = None
    BY <1>2 DEF Left
  <2>2. /\ seen' = None <=> seen = None
        /\ fileSeen' = None <=> fileSeen = None
        /\ recorded' = None <=> recorded = None
        /\ fileExpires' = None <=> fileExpires = None
        /\ signed' = None <=> signed = None
        /\ held' = None <=> held = None
    BY <1>1, <1>3, <1>a, <2>1
  <2>3. ASSUME NEW x \in Left, x # None, signed # None,
               IF LifetimeFor = Unlimited THEN x = Unlimited ELSE x \in Nat /\ x <= signed
        PROVE  IF LifetimeFor = Unlimited THEN Less(x) = Unlimited
               ELSE Less(x) \in Nat /\ Less(x) <= Less(signed)
    <3>1. CASE LifetimeFor = Unlimited
      BY <1>2, <2>3, <3>1
    <3>2. CASE LifetimeFor # Unlimited
      <4>1. signed \in Nat
        BY <2>3, <3>2 DEF IInv, RecordKeepsUp
      <4> QED BY <1>2, <1>3, <2>3, <3>2, <4>1
    <3> QED BY <3>1, <3>2
  <2>4. Known(seen, recorded)' /\ Known(fileSeen, fileExpires)'
    <3>1. Known(seen, recorded)'
      BY <1>1, <1>3, <2>0, <2>2, <2>3 DEF IInv, RecordKeepsUp, Known
    <3>2. Known(fileSeen, fileExpires)'
      BY <1>1, <1>3, <2>0, <2>2, <2>3 DEF IInv, RecordKeepsUp, Known
    <3> QED BY <3>1, <3>2
  <2>5. signed' # None => IF LifetimeFor = Unlimited THEN signed' = Unlimited
                          ELSE signed' \in 0..LifetimeFor
    BY <1>1, <1>2, <1>3, <2>0, <2>2 DEF IInv, RecordKeepsUp
  <2>6. held' # None => /\ signed' # None
                        /\ held' # Unlimited => held' <= signed'
                        /\ ~excused => signed' = held'
    <3>1. SUFFICES ASSUME held # None
                   PROVE  /\ held' # Unlimited => held' <= signed'
                          /\ ~excused => signed' = held'
      BY <2>2 DEF IInv, RecordKeepsUp
    <3>2. ~excused => signed' = held'
      BY <1>1, <3>1 DEF IInv, RecordKeepsUp
    <3>3. CASE held # Unlimited
      <4>1. held \in Nat /\ held <= signed /\ signed \in Nat
        BY <1>3, <2>0, <3>1, <3>3 DEF IInv, LifeAsConfigured, RecordKeepsUp, Left
      <4> QED BY <1>1, <1>2, <1>3, <3>2, <4>1
    <3>4. CASE held = Unlimited
      BY <1>1, <1>2, <1>3, <3>2, <3>4
    <3> QED BY <3>3, <3>4
  <2>7. ~excused => ~revoked /\ ~Blind'
    BY <2>2 DEF IInv, RecordKeepsUp, Blind
  <2> QED BY <1>1, <2>0, <2>4, <2>5, <2>6, <2>7 DEF RecordKeepsUp
<1>7. NoticeAhead'
  <2>1. SUFFICES ASSUME held' \in Nat, ~deviceKey, ~excused, ~warned,
                        CheckEvery < EffectiveWarnBefore(Parse(own)), CheckEvery < life
                 PROVE  \/ held' + unchecked' >= EffectiveWarnBefore(Parse(own))
                        \/ held' + unchecked' >= life
    BY <1>0, <1>1, ConfigurationStays DEF NoticeAhead
  <2>2. held \in Nat
    BY <1>1, <1>2, <1>3, <2>1 DEF Left
  <2>3. unchecked \in Nat /\ unchecked' \in Nat /\ life \in Nat
    <3>1. life \in Nat
      BY <2>2 DEF IInv, TypeOK, LifeAsConfigured
    <3> QED BY <1>1, <3>1 DEF IInv, TypeOK
  <2>4. held' + unchecked' >= held + unchecked
    BY <1>1, <1>2, <1>3, <2>2, <2>3
  <2>5. \/ held + unchecked >= EffectiveWarnBefore(Parse(own))
        \/ held + unchecked >= life
    BY <2>1, <2>2 DEF IInv, NoticeAhead
  <2>6. EffectiveWarnBefore(Parse(own)) \in Nat
    BY <1>0, ConfigurationStays
  <2>7. PICK a \in Int, b \in Int :
          a = held + unchecked /\ b = held' + unchecked' /\ b >= a
    <3>1. held' \in Nat
      BY <2>1
    <3>2. held + unchecked \in Int
      BY <2>2, <2>3
    <3>3. held' + unchecked' \in Int
      BY <3>1, <2>3
    <3> QED BY <3>2, <3>3, <2>4
  <2>8. ASSUME NEW e \in Nat, held + unchecked >= e PROVE held' + unchecked' >= e
    <3>1. a >= e
      BY <2>7, <2>8
    <3>2. b >= e
      BY <2>7, <3>1
    <3> QED BY <2>7, <3>2
  <2> QED BY <2>3, <2>5, <2>6, <2>8
<1> QED BY <1>0, <1>1, <1>4, <1>5, <1>6, <1>7, Silence, ConfigurationStays DEF IInv

LEMMA NextIInv == IInv /\ [Next]_vars => IInv'
<1> SUFFICES ASSUME IInv, [Next]_vars PROVE IInv'
  OBVIOUS
<1> USE ReviewAssumption, LifetimeAssumption
<1>1. ASSUME NEW arrives \in BOOLEAN, NEW saved \in BOOLEAN,
             Enrol(arrives, saved) \/ Renew(arrives, saved)
      PROVE  IInv'
  BY <1>1, SignIInv DEF Enrol, Renew
(* The steps that sign nothing: serve's memory and the file copy each      *)
(* other, and the agent is seen.                                           *)
<1>2. ASSUME UNCHANGED <<configVars, held, life, unchecked, warned, signed>>, finding' = None,
             on' \in BOOLEAN, revoked' \in BOOLEAN,
             excused' \in BOOLEAN, excused => excused', ~excused' => ~revoked' /\ ~Blind',
             recorded' \in {recorded, fileExpires}, seen' \in Past,
             recorded' # None => seen' # None,
             fileExpires' \in {recorded, fileExpires}, fileSeen' \in Past,
             fileExpires' # None => fileSeen' # None
      PROVE  IInv'
  <2>0. UNCHANGED configVars
    BY <1>2
  <2>1. TypeOK'
    <3>1. recorded' \in Left /\ fileExpires' \in Left
      BY <1>2 DEF IInv, TypeOK
    <3> QED BY <1>2, <2>0, <3>1, ConfigurationStays DEF IInv, TypeOK
  <2>2. LifeAsConfigured'
    BY <1>2, <2>0, ConfigurationStays DEF IInv, LifeAsConfigured
  <2>3. RecordKeepsUp'
    <3>1. LifetimeFor' = LifetimeFor
      BY <2>0, ConfigurationStays
    <3>2. Known(seen, recorded)' /\ Known(fileSeen, fileExpires)'
      BY <1>2, <3>1 DEF IInv, RecordKeepsUp, Known
    <3> QED BY <1>2, <3>1, <3>2 DEF IInv, RecordKeepsUp
  <2>4. NoticeAhead'
    BY <1>2, <2>0, ConfigurationStays DEF IInv, NoticeAhead
  <2> QED BY <1>2, <2>0, <2>1, <2>2, <2>3, <2>4, Silence, ConfigurationStays DEF IInv
<1>3. /\ seen \in Past /\ fileSeen \in Past /\ 0 \in Past /\ 0 # None
      /\ recorded # None => seen # None
      /\ fileExpires # None => fileSeen # None
      /\ on \in BOOLEAN /\ revoked \in BOOLEAN /\ excused \in BOOLEAN
      /\ ~excused => ~revoked /\ ~Blind
  BY DEF IInv, TypeOK, RecordKeepsUp, Known, Past
<1>4. ASSUME NEW saved \in BOOLEAN, Collect(saved) PROVE IInv'
  <2>1. /\ UNCHANGED <<configVars, held, life, on, revoked, unchecked, warned, signed>>
        /\ finding' = None /\ seen' = 0 /\ recorded' = recorded
        /\ excused' = (excused \/ Blind')
        /\ \/ fileSeen' = 0 /\ fileExpires' = recorded
           \/ fileSeen' = fileSeen /\ fileExpires' = fileExpires
    BY <1>4 DEF Collect, Persist, hostVars, fileVars
  <2>2. /\ excused' \in BOOLEAN /\ (excused => excused')
        /\ (~excused' => ~revoked' /\ ~Blind')
    BY <1>3, <2>1, Zenon DEF Blind
  <2> QED BY <1>2, <1>3, <2>1, <2>2
<1>5. CASE Restart
  <2>1. /\ UNCHANGED <<configVars, held, life, on, revoked, unchecked, warned, signed, excused>>
        /\ finding' = None /\ seen' = fileSeen /\ recorded' = fileExpires
        /\ fileSeen' = fileSeen /\ fileExpires' = fileExpires
    BY <1>5 DEF Restart, Load, hostVars, fileVars
  <2>2. Blind' <=> Blind
    BY <2>1 DEF Blind
  <2> QED BY <1>2, <1>3, <2>1, <2>2
<1>6. CASE Switch
  <2>1. /\ UNCHANGED <<configVars, held, life, revoked, unchecked, warned, signed, excused>>
        /\ finding' = None /\ seen' = seen /\ recorded' = recorded
        /\ fileSeen' = fileSeen /\ fileExpires' = fileExpires /\ on' = ~on
    BY <1>6 DEF Switch, brokerVars, memoryVars, fileVars
  <2>2. Blind' <=> Blind
    BY <2>1 DEF Blind
  <2>3. on' \in BOOLEAN
    BY <2>1
  <2> QED BY <1>2, <1>3, <2>1, <2>2, <2>3
<1>7. CASE RevokeOrRestore
  <2>1. /\ UNCHANGED <<configVars, held, life, on, unchecked, warned, signed>>
        /\ finding' = None /\ seen' = fileSeen /\ recorded' = fileExpires
        /\ fileSeen' = fileSeen /\ fileExpires' = fileExpires
        /\ revoked' = ~revoked /\ excused' = TRUE
    BY <1>7 DEF RevokeOrRestore, Load, hostVars, fileVars
  <2>2. revoked' \in BOOLEAN
    BY <2>1
  <2> QED BY <1>2, <1>3, <2>1, <2>2
<1>8. CASE UNCHANGED vars
  <2>1. /\ UNCHANGED <<own, wide, deviceKey, seen, recorded, fileSeen, fileExpires, revoked>>
        /\ UNCHANGED <<held, life, on, unchecked, finding, warned, signed, excused>>
    BY <1>8 DEF vars, configVars, brokerVars, memoryVars, fileVars, hostVars
  <2>2. TypeOK' /\ Configured' /\ LifetimeFor' = LifetimeFor
    BY <2>1 DEF IInv, TypeOK, Configured, LifetimeFor
  <2>3. LifeAsConfigured' /\ RecordKeepsUp'
    BY <2>1, <2>2 DEF IInv, LifeAsConfigured, RecordKeepsUp, Known, Blind
  <2>4. NoticeAhead' /\ NoFalseAlarm'
    BY <2>1 DEF IInv, NoticeAhead, NoFalseAlarm, Due, Valid
  <2> QED BY <2>2, <2>3, <2>4 DEF IInv
<1> QED BY <1>1, <1>4, <1>5, <1>6, <1>7, <1>8, CheckIInv, TickIInv DEF Next

-----------------------------------------------------------------------------
(* A host without a device key whose identity has run out has been         *)
(* reported while there was time, if `check` runs more often than the      *)
(* threshold is long and the identity lives, no answer was lost and the    *)
(* expiry was not forgotten.                                               *)
THEOREM LockoutsAreAnnounced == Spec => []LockoutAnnounced
<1>1. IInv => LockoutAnnounced
  <2> SUFFICES ASSUME IInv, held = 0, ~deviceKey, ~excused,
                      CheckEvery < EffectiveWarnBefore(Parse(own)), CheckEvery < life
               PROVE  warned
    BY DEF LockoutAnnounced
  <2>1. unchecked \in 0..CheckEvery /\ own \in Written /\ wide \in Written
    BY DEF IInv, TypeOK
  <2>2. life \in Nat
    BY ReviewAssumption, LifetimeAssumption DEF IInv, TypeOK, LifeAsConfigured
  <2>3. EffectiveWarnBefore(Parse(own)) \in Nat
    BY <2>1, Lifetimes DEF IInv
  <2>4. CASE ~warned
    <3>1. \/ held + unchecked >= EffectiveWarnBefore(Parse(own))
          \/ held + unchecked >= life
      BY <2>4 DEF IInv, NoticeAhead
    <3> QED BY <2>1, <2>2, <2>3, <3>1, ReviewAssumption
  <2> QED BY <2>4
<1> QED BY <1>1, InitIInv, NextIInv, PTL DEF Spec

(* No `check` announces a lockout for a host whose identity works and is   *)
(* not yet due, unless agents.json lacks the identity signed last or the   *)
(* lifetime is the broker's alone.                                         *)
THEOREM AlarmsAreTrue == Spec => []NoFalseAlarm
<1>1. IInv => NoFalseAlarm
  BY DEF IInv
<1> QED BY <1>1, InitIInv, NextIInv, PTL DEF Spec

(* Through parsing, precedence, wrap-around and renewals, the identity a   *)
(* host holds was signed for the lifetime that was written, if that number *)
(* fits a duration.                                                        *)
THEOREM LifetimesAreAsWritten == Spec => []SignedAsWritten
<1>1. IInv => SignedAsWritten
  <2> SUFFICES ASSUME IInv, held # None PROVE SignedAsWritten
    BY DEF SignedAsWritten
  <2>1. own \in Texts /\ wide \in Texts /\ Parse(own) # Refused /\ Parse(wide) # Refused
    BY ReviewAssumption DEF IInv, TypeOK, Configured
  <2>2. life = LifetimeFor
    BY DEF IInv, LifeAsConfigured
  <2>3. Parse(own) = Unset <=> own.kind = "nothing"
    BY <2>1, ParseType
  <2>4. Parse(wide) = Unset <=> wide.kind = "nothing"
    BY <2>1, ParseType
  <2>5. ASSUME NEW t \in Texts, Parse(t) # Refused, t.kind # "nothing", life = Parse(t)
        PROVE  life = IF t.kind = "unlimited" THEN Unlimited
                      ELSE IF Representable(t) THEN Meaning(t) ELSE life
    BY <2>5, ParseMeans DEF Texts, Parse
  <2>6. CASE own.kind # "nothing"
    BY <2>1, <2>2, <2>3, <2>5, <2>6 DEF LifetimeFor, Or, SignedAsWritten
  <2>7. CASE own.kind = "nothing" /\ wide.kind # "nothing"
    BY <2>1, <2>2, <2>3, <2>4, <2>5, <2>7 DEF LifetimeFor, Or, SignedAsWritten
  <2>8. CASE own.kind = "nothing" /\ wide.kind = "nothing"
    BY <2>2, <2>3, <2>4, <2>8 DEF LifetimeFor, Or, SignedAsWritten
  <2> QED BY <2>6, <2>7, <2>8
<1> QED BY <1>1, InitIInv, NextIInv, PTL DEF Spec
=============================================================================
