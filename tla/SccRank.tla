------------------------------ MODULE SccRank ------------------------------
(***************************************************************************)
(* Common.scc_rank of dsolve and Fcommon.scc_rank of its fixpoint library: *)
(* the numbers ocamlgraph gives to the strongly connected components of a  *)
(* dependency graph.                                                       *)
(***************************************************************************)
EXTENDS Integers, FiniteSets

\* S is connected when every proper part of it has an edge out, within S.
StronglyConnected(S, E) ==
  \A T \in SUBSET S \ {{}, S} : \E i \in T, j \in S \ T : <<i, j>> \in E

(***************************************************************************)
(* Every numbering of the vertices S under which no edge of E climbs and   *)
(* the vertices of one number form a strongly connected component.  The    *)
(* graph decides no more than this: components that no path links come in  *)
(* either order.                                                           *)
(***************************************************************************)
SccRankings(S, E) ==
  {r \in [S -> 1..Cardinality(S)] :
     /\ \A i, j \in S : <<i, j>> \in E => r[i] >= r[j]
     /\ \A n \in 1..Cardinality(S) : StronglyConnected({i \in S : r[i] = n}, E)}
=============================================================================
