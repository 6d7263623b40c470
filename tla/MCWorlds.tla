------------------------------ MODULE MCWorlds ------------------------------
(***************************************************************************)
(* Every certificate graph over a small set of certificates, with a few    *)
(* defects.  The leaf is certificate 2, so that issuers sort on either     *)
(* side of it.                                                             *)
(***************************************************************************)
EXTENDS Explorer

CONSTANTS AnchorSets

Leaf == 2
Others == Certs \ {Leaf}
Pairs == Certs \X Certs

\* Edges towards the leaf are left out: no path can take them.
Edges == {e \in Certs \X Others : e[1] # e[2]}

Sound(issued, anchors) ==
    [leaf |-> Leaf, leafUsage |-> TRUE, anchors |-> anchors,
     issued |-> issued, signed |-> Pairs, good |-> Pairs,
     unsupported |-> {}, current |-> Certs, caUsage |-> Certs,
     pathLen |-> [c \in Certs |-> Cardinality(Certs)], intermediate |-> Others,
     excluded |-> {}]

\* The defects that decide how far a branch gets.
Unsupported(w) == {[w EXCEPT !.unsupported = @ \cup {c}] : c \in Certs}
Revoked(w)     == {[w EXCEPT !.good = @ \ {e}] : e \in w.issued}
TooLong(w)     == {[w EXCEPT !.pathLen[c] = 0] : c \in Others}
Excluded(w)    == {[w EXCEPT !.excluded = {e}] : e \in {x \in Others \X Others : x[1] <= x[2]}}

\* The remaining ones, which fail like them.
Minor(w) ==
    {[w EXCEPT !.leafUsage = FALSE]}
    \cup {[w EXCEPT !.current = @ \ {c}] : c \in Certs}
    \cup {[w EXCEPT !.caUsage = @ \ {c}] : c \in Others}
    \cup {[w EXCEPT !.signed = @ \ {e}] : e \in w.issued}

Major(w) == {w} \cup Unsupported(w) \cup Revoked(w) \cup TooLong(w) \cup Excluded(w)

\* One defect of any kind, or two of the major ones, in a graph.
WithDefects(graphs, anchors) ==
    \E g \in graphs, a \in anchors :
        \E v \in Major(Sound(g, a)) : world \in Major(v) \cup Minor(Sound(g, a))

\* At most one major defect.
WithDefect(graphs, anchors) ==
    \E g \in graphs, a \in anchors : world \in Major(Sound(g, a))
=============================================================================
