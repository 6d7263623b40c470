------------------------------ MODULE MCEngine ------------------------------
(***************************************************************************)
(* One adjudication on small graphs, and the replay of its pack.           *)
(***************************************************************************)
EXTENDS MCWorlds, Verifier

\* The graphs that leave the greatest certificate alone.
Small == {e \in Edges : \E c \in Certs : e[1] < c /\ e[2] < c}

\* Evidence on each certificate is named by it.  It is asked for once an issuer passes the
\* checks that come before REVOCATION.
MCEvidenceOf(w, S) ==
    {c \in S \ w.anchors :
        \E p \in S : /\ <<c, p>> \in w.issued \cap w.signed
                     /\ p \in w.current \cap w.caUsage /\ p \notin w.unsupported}

\* Graphs with two issuers above an intermediate.
Forked == {{<<2, 1>>, <<1, 3>>, <<1, 4>>} \cup g : g \in SUBSET {<<2, 3>>, <<3, 1>>, <<3, 4>>}}

\* Every graph with at most one defect, every small one with up to two, or with one and any
\* artifact signature; evidence, a part of which no search asks for, in forked ones with at
\* most one.
MCEngineInit ==
    /\ \/ /\ WithDefect(SUBSET Edges, {{Cardinality(Certs)}}) /\ artifact = "valid"
          /\ archive = {}
       \/ WithDefects(SUBSET Small, AnchorSets) /\ artifact = "valid" /\ archive = {}
       \/ WithDefect(SUBSET Small, AnchorSets) /\ archive = {}
       \/ WithDefect(Forked, {{3}, {4}}) /\ artifact = "valid" /\ archive = Evidence
    /\ VerifierFresh

MCEngineSpec == MCEngineInit /\ [][VerifierNext]_vvars /\ WF_vvars(VerifierNext)
=============================================================================
