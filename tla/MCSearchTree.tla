---------------------------- MODULE MCSearchTree ----------------------------
(* SearchTree for TLC: five names and two declarations. *)
EXTENDS SearchTree

MCKey == 1..5
MCData == {"first", "second"}
MCOneData == {"first"}
=============================================================================
