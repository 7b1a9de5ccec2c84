----------------------------- MODULE MCRelations -----------------------------
(***************************************************************************)
(* Two entities of one campaign, one of which may be marked or given to    *)
(* another campaign, a symmetric type and a directed one, and both         *)
(* directions of the symmetric relation.                                   *)
(***************************************************************************)
EXTENDS Relations, TLC

CONSTANTS a, b, here, abroad, s1, s2

Record(source, type, target) ==
  [campaign |-> here, source |-> source, type |-> type, target |-> target]

Named == {Record(a, "ally", b), Record(b, "ally", a), Record(a, "owns", b)}

\* All entities begin in one campaign, and one type is symmetric.
OneCampaign ==
  Init /\ home = [e \in Entities |-> here] /\ symmetric = {"ally"}

OneCampaignSpec == OneCampaign /\ [][Next]_vars

AnyOrder == Permutations(Sessions)
=============================================================================
