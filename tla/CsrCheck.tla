------------------------------ MODULE CsrCheck -------------------------------
(***************************************************************************)
(* internal/csrcheck: whether a certificate request asks for exactly the   *)
(* permitted DNS names.  A name is a spelling; Normalise takes it to the   *)
(* one DNS sees (lower case, no trailing dot, no blanks around it).        *)
(***************************************************************************)
CONSTANTS
  Domains,      \* DNS names as written
  Blank,        \* the empty name
  Normalise     \* normalise, as a function

ASSUME CsrCheckAssumption ==
  /\ Blank \notin Domains
  /\ Normalise \in [Domains -> Domains \cup {Blank}]

(* A request: the names among its alternative names, its common name, and  *)
(* whether there is an address, an email or a URI in it.                   *)
CSRs == [dns : SUBSET Domains, cn : Domains \cup {Blank}, other : BOOLEAN]

NormaliseSet(names) == {Normalise[n] : n \in names \ {Blank}} \ {Blank}

(* The names a request is about: the common name is one too.               *)
Got(csr) == NormaliseSet(csr.dns) \cup NormaliseSet({csr.cn})

(* Fault variant: only the alternative names are looked at.                *)
CheckAlternativeNames(csr, permitted) ==
  LET want == NormaliseSet(permitted)
      got  == NormaliseSet(csr.dns)
  IN  [missing |-> want \ got, extra |-> got \ want, other |-> csr.other]

Check(csr, permitted) ==
  LET want == NormaliseSet(permitted)
  IN  [missing |-> want \ Got(csr), extra |-> Got(csr) \ want, other |-> csr.other]

OK(result) == result.missing = {} /\ result.extra = {} /\ ~result.other
=============================================================================
