------------------------------ MODULE MCService ------------------------------
(***************************************************************************)
(* Small instances of Service.                                             *)
(***************************************************************************)
EXTENDS Service, TLC

CONSTANTS c1, v1, v2, x1, e1,     \* certificate, CRL, OCSP, unparsable, raising
          t1, t2,                 \* received_at values
          i1, i2, i3,             \* adjudication inputs
          s1, r2, r3              \* a set and two request ids

MCKind == [f \in Fingerprints |->
    IF f = v1 THEN "crl" ELSE IF f = v2 THEN "ocsp" ELSE "certificate"]
MCEntries == [f \in Fingerprints |-> IF f = v1 THEN 2 ELSE IF f = v2 THEN 1 ELSE 0]
MCSize == [f \in Fingerprints |-> IF f = c1 THEN 1 ELSE 2]
MCParse == [f \in Fingerprints |->
    IF f = x1 THEN "ParseError" ELSE IF f = e1 THEN "exception" ELSE "ok"]

It(f, t) == [fp |-> f, received_at |-> t]

\* A certificate with its revocation evidence.
AdjudicationBatches == {<<It(c1, NoTime), It(v1, t1)>>}

\* Repetitions within and across batches, rejected and raising items, the limits of a
\* batch, and the limits of a set reached by several batches.
UploadBatches == {
    <<It(c1, NoTime), It(v1, t1), It(v1, t2)>>,
    <<It(c1, t1), It(c1, NoTime)>>,
    <<It(v2, NoTime), It(v2, t1), It(x1, NoTime)>>,
    <<It(v1, t2)>>,
    <<It(c1, t1), It(e1, NoTime)>>,
    <<It(c1, t1), It(c1, t1), It(c1, t1), It(c1, t1)>>,
    <<It(v2, t1), It(v1, t1), It(v1, t2)>> }

\* One CRL archived twice, in either order.
OrderBatches == {<<It(v1, t1), It(v1, t2)>>, <<It(v1, t2), It(v1, t1)>>}

MCResults == [contents : Rows, input : Inputs]

\* A result that tells every content and input apart.  Input i1 names c1 as its leaf;
\* under i2 the search runs out of budget when v1 is in the set; a time of i3 does not
\* parse again (see run inputs_early_year).
MCEngine(rows, inp) ==
    [error   |-> IF inp = i1 /\ rows[c1] = Absent THEN "LEAF_NOT_FOUND"
                 ELSE IF inp = i2 /\ rows[v1] # Absent THEN "RESOURCE_EXHAUSTED"
                 ELSE IF inp = i3 THEN "INTERNAL"
                 ELSE "NONE",
     result  |-> [contents |-> rows, input |-> inp],
     touched |-> Present(rows)]

\* Two clients, each with a request of its own that it repeats: the engine has a verdict
\* on one and raises on the other.
Retried == {Post("adjudicate", r2, s1, i2), Post("adjudicate", r3, s1, i3)}

FairSpec == Spec /\ Serving /\ \A q \in Retried : Retries(q)

\* An adjudication of a sealed set that is repeated until it is answered comes to what the
\* engine makes of it, verdict or error, whatever the other threads, instances and faults
\* do in between.
AdjudicationSettles == \A q \in Retried : Settles(q)

Symmetry == Permutations(RequestIds) \cup Permutations(Instances)

SymmetrySets == Permutations(RequestIds) \cup Permutations(SetIds)
=============================================================================
