---------------------------- MODULE MCPagedTools ----------------------------
(* PagedTools for TLC: all paths readable, or all but one entry. *)
EXTENDS PagedTools

MCRules == {0..MaxName, (0..MaxName) \ {2}}
=============================================================================
