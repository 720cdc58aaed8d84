----------------------------- MODULE MCEntityCache -----------------------------
(* EntityCache on small sets, for TLC. *)
EXTENDS EntityCache

CONSTANTS r1, r2, list, one, c1, c2

\* A list of records with another one nested, which it does not declare.
MCNested(r) == IF r = r1 THEN {r2} ELSE {}
MCTags(q) == IF q = list THEN {r1} ELSE {r2}
MCAnswers(q) == IF q = list THEN {{}, {r1}} ELSE {{r2}}
MCTarget(c) == IF c = c1 THEN r1 ELSE r2
=============================================================================
