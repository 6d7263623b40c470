------------------------------- MODULE Engine -------------------------------
(***************************************************************************)
(* One adjudication (app/adjudicate.py, class _Engine): the search runs    *)
(* over the whole set, then again over the objects it touched, until it    *)
(* touches everything it is given; the verdict is drawn from the last run. *)
(* Revocation evidence shrinks with the certificates.  That this changes   *)
(* no status is a matter of the evaluator (TouchedSuffices of Revocation), *)
(* so a status is part of world, and so is which evidence is looked at for *)
(* it: a search over some of the evidence looks at what it has of it.      *)
(***************************************************************************)
EXTENDS Explorer

CONSTANTS
    Evidence,            \* the CRLs and OCSP responses there may be
    EvidenceOf(_, _)     \* EvidenceOf(w, S): what a search of S in world w asks for

ASSUME EngineAssumption == IsFiniteSet(Evidence)

VARIABLES
    archive,     \* the evidence this search may use
    artifact,    \* _check_artifact_signature: "valid", "invalid" or "unsupported"
    verdict,     \* "NONE" until the decision
    firstProof   \* history: the branches of the first rejection proof

avars == <<evars, archive, artifact, verdict, firstProof>>

EngineFresh ==
    /\ Fresh
    /\ archive \in SUBSET Evidence
    /\ artifact \in {"valid", "invalid", "unsupported"}
    /\ verdict = "NONE" /\ firstProof = {}

EngineInit == world \in WorldType /\ EngineFresh

Explore ==
    /\ SearchStep
    /\ UNCHANGED <<archive, artifact, verdict, firstProof>>

\* The evidence the evaluator of this search touched.
Read == archive \cap EvidenceOf(world, active)

\* A new Explorer, with a budget of its own.
Restart ==
    /\ pc' = "start" /\ depth' = 1 /\ path' = <<>> /\ todo' = <<>> /\ cutoff' = FALSE
    /\ touched' = {} /\ branches' = {} /\ budget' = 0
    /\ found' = <<>> /\ exhausted' = FALSE

\* Mutant: the next round searches the whole set again.
Rerun_whole ==
    /\ Completed /\ verdict = "NONE" /\ (touched # active \/ Read # archive)
    /\ Restart
    /\ UNCHANGED <<world, active, archive, artifact, verdict, firstProof>>

\* explore_once returned with less than it was given: run again on what it touched.
Rerun ==
    /\ Completed /\ verdict = "NONE" /\ (touched # active \/ Read # archive)
    /\ active' = touched /\ archive' = Read
    /\ firstProof' = IF active = Certs THEN branches ELSE firstProof
    /\ Restart
    /\ UNCHANGED <<world, artifact, verdict>>

UnsupportedInvolved ==
    \/ artifact = "unsupported" \/ world.leaf \in world.unsupported
    \/ \E b \in branches : b[2] = "UNSUPPORTED"

\* Mutant: a path suffices for VALID.
VerdictOf_nosignature ==
    IF found # <<>> THEN "VALID"
    ELSE IF UnsupportedInvolved THEN "UNSUPPORTED" ELSE "INVALID"

VerdictOf ==
    IF artifact = "valid" /\ found # <<>> THEN "VALID"
    ELSE IF UnsupportedInvolved THEN "UNSUPPORTED" ELSE "INVALID"

\* Mutant: the first run decides.
Decide_early ==
    /\ Completed /\ verdict = "NONE"
    /\ verdict' = VerdictOf
    /\ firstProof' = IF active = Certs THEN branches ELSE firstProof
    /\ UNCHANGED <<evars, archive, artifact>>

Decide ==
    /\ Completed /\ verdict = "NONE" /\ touched = active /\ Read = archive
    /\ verdict' = VerdictOf
    /\ firstProof' = IF active = Certs THEN branches ELSE firstProof
    /\ UNCHANGED <<evars, archive, artifact>>

EngineNext == Explore \/ Rerun \/ Decide

EngineSpec == EngineInit /\ [][EngineNext]_avars /\ WF_avars(EngineNext)

-----------------------------------------------------------------------------
\* The path decided on is the best of the whole set, although only the first run
\* searched the whole set: dropping untouched objects neither loses nor changes it.
DecisionIsBestOfSet ==
    (verdict # "NONE" /\ found # <<>>) => IsBest(found, Certs)

\* VALID exactly when the artifact signature verifies and the set holds a valid path as
\* long as the search admits, whatever the rounds drop and wherever they are cut.
ValidIffPath ==
    verdict # "NONE" =>
        (verdict = "VALID" <=> /\ artifact = "valid"
                               /\ \E p \in ValidPaths(Certs) : Len(p) <= MaxPathLen + 1)

\* The proof stored, recorded over the objects touched alone, still covers every chain
\* of the whole set; where it says that issuers are missing, the set has none.
ProofCoversSet ==
    (verdict # "NONE" /\ found = <<>> /\ ~cutoff) =>
        \A p \in Chains(Certs) : \E b \in branches : Covers(b, p) /\ b[2] # "NO_ISSUER"

\* The rounds end: an adjudication is decided or runs out of its budget.
AdjudicationEnds == <>(verdict # "NONE" \/ exhausted)

\* The steps an adjudication has left at most: each round but the last loses an object.
StepsLeft ==
    (Cardinality(active) + Cardinality(archive)) * (2 * MaxBranches + MaxPathLen + 4) + SearchLeft
    + (IF verdict = "NONE" THEN 1 ELSE 0)

\* Every step of an adjudication brings its end nearer, by a count fixed when it starts:
\* the budget is shared by all passes, no pass repeats a depth, no round an object set.
StepsRunOut == [][verdict = "NONE" => StepsLeft' \in Nat /\ StepsLeft' < StepsLeft]_avars

\* README "Supported RFC 5280 profile": UNSUPPORTED is returned when no valid path
\* exists and at least one explored branch failed that way.
UnsupportedReported ==
    (verdict # "NONE" /\ ValidPaths(Certs) = {}
     /\ \E b \in firstProof : b[2] = "UNSUPPORTED") => verdict = "UNSUPPORTED"
=============================================================================
