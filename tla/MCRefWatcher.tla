---------------------------- MODULE MCRefWatcher ----------------------------
(* RefWatcher for TLC: how the paths of the repos may lie to each other. *)
EXTENDS RefWatcher

Itself == {<<r, r>> : r \in Repos}

\* /w and /v
Distinct == [taken |-> Itself, covered |-> Itself]

\* s is /w, q is /w/.github: an event below /w/.github/.git begins with /w/.git
Mistaken(q, s) == [taken |-> Itself \cup {<<q, s>>}, covered |-> Itself]

\* s is /w, q is /w:old: the keys of q begin with "/w:"
Covered(s, q) == [taken |-> Itself, covered |-> Itself \cup {<<s, q>>}]

\* One pair of repos stands for any, and as every property is about one repo these two
\* namings hold the plain one: no event of s is mistaken, and nothing of q reaches s, in
\* Covered(s, q).
MCNamings ==
  IF Cardinality(Repos) = 1 THEN {Distinct}
  ELSE LET s == CHOOSE r \in Repos : TRUE
           q == CHOOSE r \in Repos : r # s
       IN  {Mistaken(q, s), Covered(s, q)}
=============================================================================
