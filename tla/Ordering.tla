-------------------------------- MODULE Ordering --------------------------------
(***************************************************************************)
(* Rows in an order, as ORDER BY, LIMIT and OFFSET and the sorts and       *)
(* filters of the services return them.  An order is a relation, a set of  *)
(* pairs, that is strict and total on the set it arranges.                 *)
(***************************************************************************)
EXTENDS Integers, FiniteSets, Sequences

IsStrictOrder(before, S) ==
    /\ \A x \in S : <<x, x>> \notin before
    /\ \A x, y \in S : x # y => <<x, y>> \in before \/ <<y, x>> \in before
    /\ \A x, y, z \in S : <<x, y>> \in before /\ <<y, z>> \in before => <<x, z>> \in before

\* In its place each element has as many others before it as there are places.
Ahead(S, before, x) == {y \in S : <<y, x>> \in before}
InOrder(S, before) ==
    [k \in 1..Cardinality(S) |->
        CHOOSE x \in S : Cardinality(Ahead(S, before, x)) = k - 1]

First(s, limit) == SubSeq(s, 1, IF Len(s) < limit THEN Len(s) ELSE limit)

Ascending == {p \in Int \X Int : p[1] < p[2]}

\* What is left of a sequence when only the members of a set are kept.
Filter(s, kept) ==
    LET places == InOrder({k \in DOMAIN s : s[k] \in kept}, Ascending)
    IN  [i \in DOMAIN places |-> s[places[i]]]

=============================================================================
