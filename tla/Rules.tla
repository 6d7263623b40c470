------------------------------- MODULE Rules --------------------------------
(***************************************************************************)
(* A chain of checks that stops at the first failure.                      *)
(***************************************************************************)
EXTENDS Integers, Sequences

Rule(code, passes) == [code |-> code, passes |-> passes]

\* The code of the first rule in order that does not pass, "NONE" if all pass.
FirstFailing(rules) ==
    LET failing == {i \in DOMAIN rules : ~rules[i].passes}
    IN  IF failing = {} THEN "NONE"
        ELSE rules[CHOOSE i \in failing : \A j \in failing : i <= j].code
=============================================================================
