----------------------------- MODULE MCAuctions -----------------------------
(* Auctions for TLC: the players are interchangeable, no definition and no *)
(* property names one of them.                                             *)
EXTENDS Auctions, TLC

Symmetric == Permutations(Players)
=============================================================================
