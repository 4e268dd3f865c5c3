------------------------------ MODULE MCLedger ------------------------------
(***************************************************************************)
(* Ledger on a small instance: two keys, two claim ids, a plain claimant   *)
(* and a coordinator, one numbered resource, one item.                     *)
(***************************************************************************)
EXTENDS Ledger, TLC

CONSTANTS k1, k2, id1, id2, ada, root, main, p, q, port, item, b1, b2

MCClaims ==
  [kind : {"claim"}, id : ClaimIds, key : Keys, who : Claimants, branch : Branches,
   scope : {{p}}, resource : {port}, value : {0, 2}]
  \cup
  [kind : {"claim"}, id : ClaimIds, key : {k1}, who : {ada}, branch : Branches,
   scope : {{p}}, resource : {NoResource}, value : {0}]

MCRescopes == [kind : {"rescope"}, id : ClaimIds, who : Claimants, scope : {{p, q}}]

MCReleases == [kind : {"release"}, id : ClaimIds, who : Claimants, override : BOOLEAN]

MCWrites ==
  [kind : {"write"}, item : ItemIds, expected : {NoBlob, b1}, blob : {b1},
   store : {AnyStore, [i \in ItemIds |-> NoBlob]}]

MCLandings ==
  [kind : {"landing"}, id : ClaimIds, who : {ada}, override : {FALSE}, item : ItemIds,
   expected : {b1}, blob : {b2}]

MCIntents == MCClaims \cup MCRescopes \cup MCReleases \cup MCWrites \cup MCLandings

MCSymmetry == Permutations(Operations)
=============================================================================
