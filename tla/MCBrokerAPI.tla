---------------------------- MODULE MCBrokerAPI -----------------------------
(* BrokerAPI for TLC: the configurations an operator moves between.        *)
EXTENDS BrokerAPI, TLC

CONSTANTS web, Web, db, \* three agents, two of them told apart by a capital
          h1, h2,       \* hosts
          x, y          \* certificates

(* Three DNS names and a second spelling of one; a dot is no name.         *)
Spellings == "x" :> "x" @@ "X" :> "x" @@ "y" :> "y" @@ "z" :> "z" @@ "." :> Blank

(* NormaliseName.                                                          *)
InLowerCase == web :> web @@ Web :> web @@ db :> db

(* web shares x and comes in with h1's device key, for 1; Web has x issued *)
(* and db has y issued, and they come in with tokens, for as long as the   *)
(* CA lasts.                                                               *)
All == [agents |-> {web, Web, db},
        mode |-> web :> "share" @@ Web :> "issue" @@ db :> "issue",
        certs |-> web :> {x} @@ Web :> {x} @@ db :> {y},
        key |-> web :> h1 @@ Web :> None @@ db :> None,
        life |-> web :> 1 @@ Web :> Unlimited @@ db :> Unlimited,
        default |-> 0,
        domains |-> x :> {"x"} @@ y :> {"X", "y"}]

(* web is taken out; db comes in with h1's device key and the default.     *)
NoWeb == [All EXCEPT !.agents = {Web, db},
                     !.key = web :> None @@ Web :> None @@ db :> h1,
                     !.life = web :> 0 @@ Web :> Unlimited @@ db :> 0]

Edits == {All, NoWeb}
=============================================================================
