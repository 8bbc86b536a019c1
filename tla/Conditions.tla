----------------------------- MODULE Conditions -----------------------------
(***************************************************************************)
(* The conditions of a query, and what a database makes of a list of them. *)
(* Every dialect writes a list as `c1 and c2 or c3 ...` without brackets;   *)
(* only a group or a negation brings brackets with it.                     *)
(***************************************************************************)
EXTENDS Naturals, Sequences

(* A condition: how it joins the one before it, its test and the value it   *)
(* compares with, the conditions inside a group, a negation or a subquery,  *)
(* and for a relation filter the relation, whether it is negated or counted *)
(* and the soft-delete mode of the callback; for the correlation of its     *)
(* subquery the qualifiers of the two columns.                             *)
Condition == [bool |-> "and", op |-> "", value |-> "", conds |-> <<>>,
              rel |-> "", not |-> FALSE, count |-> FALSE, mode |-> "default",
              source |-> "", target |-> ""]

Test(op)       == [Condition EXCEPT !.op = op]
withBool(b, c) == [c EXCEPT !.bool = b]
Group(cs)      == [Condition EXCEPT !.op = "group", !.conds = cs]
Not(c)         == [Condition EXCEPT !.op = "not", !.conds = <<withBool("and", c)>>]

(* Does a WHERE clause of these conditions select a row? AND binds closer   *)
(* than OR, so some condition that starts an alternative must hold with all *)
(* that follow it up to the next OR.                                       *)
Selects(cs, Holds(_)) ==
    \/ cs = <<>>
    \/ \E i \in DOMAIN cs :
          /\ i = 1 \/ cs[i].bool = "or"
          /\ \A j \in i .. Len(cs) : (\E k \in i + 1 .. j : cs[k].bool = "or") \/ Holds(cs[j])
=============================================================================
