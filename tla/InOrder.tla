------------------------------- MODULE InOrder -------------------------------
(***************************************************************************)
(* The elements of a finite set of naturals in their order, and the part   *)
(* of a sequence at such a set of places: what a filter over a list, or a  *)
(* sorted set, gives.  Written without recursion, by the rank of an        *)
(* element.                                                                *)
(***************************************************************************)
EXTENDS Integers, FiniteSets

UpTo(S, n) == {e \in S : e <= n}

Ascending(S) == [i \in 1..Cardinality(S) |-> CHOOSE n \in S : Cardinality(UpTo(S, n)) = i]

PartAt(s, places) == [i \in 1..Cardinality(places) |-> s[Ascending(places)[i]]]

=============================================================================
