------------------------------ MODULE PathRules ------------------------------
(***************************************************************************)
(* One input and one candidate path through the engine: validate_input,    *)
(* the times read back, then the two rules on whole paths in the order of  *)
(* Explorer._terminal_checks (app/graph.py), and last the verifier.        *)
(***************************************************************************)
EXTENDS Inputs, NameConstraints, Policies

CONSTANT PathsOf(_)     \* the candidate paths the search may arrive with, for an input

\* A candidate path has a trust anchor, and a skip count is not negative.
ASSUME PathsAssumption ==
    /\ None \notin Nat
    /\ \A r \in RawInputs : \A p \in PathsOf(r) :
          /\ Len(p) \in Nat \ {0}
          /\ \A i \in 1..Len(p) : \A field \in SkipFields : p[i][field] \in Nat \cup {None}

pathvars == <<path, ivars, nvars, pvars>>

NoPath == <<>>

PathFresh ==
    /\ path = NoPath /\ initial = {}
    /\ InputsFresh /\ NamesFresh /\ PoliciesFresh

Validate ==
    /\ Normalize
    /\ initial' = IF input' = Missing THEN {} ELSE ToSet(input'.initial_policy_set)
    /\ UNCHANGED <<path, nvars, narrowed, valid, policyResult, accepted>>

StartEngine == ReadBack /\ UNCHANGED <<path, nvars, pvars>>

\* The search arrives at an anchor.
Propose ==
    /\ times # Missing /\ path = NoPath
    /\ path' \in PathsOf(raw)
    /\ StartNames(path') /\ StartPolicies(path')
    /\ UNCHANGED ivars

\* check_name_constraints comes first; its failure is that of the path.
EvaluateNames ==
    /\ path # NoPath /\ NamesStep
    /\ UNCHANGED <<path, ivars, pvars>>

EvaluatePolicies ==
    /\ nameResult = "NONE" /\ PoliciesStep
    /\ UNCHANGED <<path, ivars, nvars>>

Decided == nameResult \notin {"PENDING", "NONE"} \/ policyResult # "PENDING"

VerifyInput == Decided /\ Renormalize /\ UNCHANGED <<path, nvars, pvars>>

PathNext ==
    \/ Validate \/ StartEngine \/ Propose
    \/ EvaluateNames \/ EvaluatePolicies \/ VerifyInput

PathInit == raw \in RawInputs /\ PathFresh

PathSpec == PathInit /\ [][PathNext]_pathvars
=============================================================================
