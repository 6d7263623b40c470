------------------------------ MODULE Verifier -------------------------------
(***************************************************************************)
(* A stored adjudication and the offline verifier (app/verify.py, step 6). *)
(* The API packs the objects the engine returned as touched with the       *)
(* result; the verifier runs the same engine on the pack alone and demands *)
(* the same objects and the same result.                                   *)
(***************************************************************************)
EXTENDS Engine

VARIABLES
    pack,        \* the evidence pack, <<>> until the adjudication is stored
    verified     \* "PENDING", "OK" or "FAILED"

vvars == <<avars, pack, verified>>

VerifierFresh == EngineFresh /\ pack = <<>> /\ verified = "PENDING"

\* The adjudication, and later the replay; both give up when the budget is exhausted.
Adjudicate == EngineNext /\ UNCHANGED <<pack, verified>>

Result == [verdict |-> verdict, path |-> found,
           rejection_proof |-> IF found = <<>> THEN branches ELSE {},
           exploration_complete |-> found = <<>> /\ ~cutoff]

\* The pack is built and handed to the verifier, whose engine starts on its objects.
BuildPack ==
    /\ verdict # "NONE" /\ pack = <<>>
    /\ pack' = [objects |-> <<active, archive>>, result |-> Result]
    /\ verdict' = "NONE"
    /\ Restart
    /\ UNCHANGED <<world, active, archive, artifact, firstProof, verified>>

\* touched2 are the active objects of the last round.
Compare ==
    /\ pack # <<>> /\ verified = "PENDING" /\ (verdict # "NONE" \/ exhausted)
    /\ verified' = IF ~exhausted /\ <<active, archive>> = pack.objects /\ Result = pack.result
                   THEN "OK" ELSE "FAILED"
    /\ UNCHANGED <<avars, pack>>

VerifierNext == Adjudicate \/ BuildPack \/ Compare

VerifierInit == world \in WorldType /\ VerifierFresh

VerifierSpec == VerifierInit /\ [][VerifierNext]_vvars /\ WF_vvars(VerifierNext)

-----------------------------------------------------------------------------
\* The verifier accepts every pack the service makes: with nothing but the objects of
\* the pack the engine stays within its budget, touches all of them, and comes to the
\* same path, the same proof and the same verdict.
PackVerifies == verified # "FAILED"
=============================================================================
