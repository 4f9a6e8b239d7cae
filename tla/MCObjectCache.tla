--------------------------- MODULE MCObjectCache ---------------------------
(* ObjectCache for TLC: three repos, the name of one is another's, a colon and more. *)
EXTENDS ObjectCache

CONSTANTS r, rs, q

MCNamedUnder == {<<r, rs>>}
=============================================================================
