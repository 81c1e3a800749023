------------------------------ MODULE HashMaps ------------------------------
(* std::collections::HashMap as a function whose domain is its keys.       *)
EXTENDS FiniteSets, Functions

Empty == [k \in {} |-> {}]
Has(m, k) == k \in DOMAIN m
Put(m, k, v) == [x \in DOMAIN m \union {k} |-> IF x = k THEN v ELSE m[x]]
DelAll(m, ks) == [x \in DOMAIN m \ ks |-> m[x]]
Del(m, k) == DelAll(m, {k})
\* retain(|k, v| test)
Retain(m, Test(_, _)) == [x \in {k \in DOMAIN m : Test(k, m[k])} |-> m[x]]
\* A struct with some of its fields set.
Update(r, fields) == [f \in DOMAIN r |-> IF f \in DOMAIN fields THEN fields[f] ELSE r[f]]
Values(m) == {m[k] : k \in DOMAIN m}
\* The order in which keys are iterated: any, but always the same.
InOrder(ks) == CHOOSE s \in Bijection(1..Cardinality(ks), ks) : TRUE
=============================================================================
