------------------------------ MODULE Explorer ------------------------------
(***************************************************************************)
(* Certification path discovery (app/graph.py, class Explorer): iterative  *)
(* deepening over the certificate graph, then one more pass that records   *)
(* the rejection proof.  The recursion of _dfs is an explicit stack: path  *)
(* is the path_fps of the innermost call and todo[i] the issuers the i-th  *)
(* call has not tried yet.  One action per call, loop iteration or return. *)
(*                                                                         *)
(* A certificate is a natural number whose order is the order of           *)
(* fingerprints.  What the checks on a certificate or on an edge find out  *)
(* is the constant input of the search, the record world.                  *)
(***************************************************************************)
EXTENDS Rules, FiniteSets

CONSTANTS
    Certs,          \* fingerprints of the certificates, as numbers
    MaxPathLen,     \* profile.MAX_PATH_LEN
    MaxBranches     \* profile.MAX_EXPLORED_BRANCHES

Codes == {"UNSUPPORTED", "VALIDITY", "LEAF_USAGE", "SIGNATURE_INVALID", "CA_USAGE",
          "PATHLEN_EXCEEDED", "REVOCATION", "NAMES_OR_POLICIES", "NO_ISSUER",
          "NO_TRUSTED_ANCHOR"}

\* issued and signed hold <<child, parent>> pairs: the names and key identifiers agree,
\* the signature verifies.  good holds the pairs whose child is GOOD under the parent's
\* key.  A path that contains both certificates of a pair of excluded fails name
\* constraints or policies.
WorldType ==
    [leaf : Certs, leafUsage : BOOLEAN, anchors : SUBSET Certs,
     issued : SUBSET (Certs \X Certs), signed : SUBSET (Certs \X Certs),
     good : SUBSET (Certs \X Certs),
     unsupported : SUBSET Certs, current : SUBSET Certs, caUsage : SUBSET Certs,
     pathLen : [Certs -> Nat], intermediate : SUBSET Certs,
     excluded : SUBSET (Certs \X Certs)]

ASSUME ExplorerAssumption ==
    /\ Certs \subseteq Nat /\ IsFiniteSet(Certs)
    /\ MaxPathLen \in Nat \ {0} /\ MaxBranches \in Nat

VARIABLES
    world,      \* the input
    active,     \* the certificates this search may use
    pc,         \* "start", "deepen", "record", "done"
    depth,      \* depth limit of the current _dfs
    path, todo, \* the call stack
    cutoff,     \* _cutoff_occurred
    touched, branches, budget,
    found,      \* the selected path, <<>> if none
    exhausted   \* ResourceExhausted was raised

search == <<pc, depth, path, todo, cutoff, touched, branches, budget, found, exhausted>>
evars == <<world, active, search>>

-----------------------------------------------------------------------------
Issuers(S, c) == {p \in S : <<c, p>> \in world.issued}

\* Mutant: only the anchors themselves are reachable.
ReachableIn_anchors(S) == world.anchors \cap S

\* _compute_anchor_reachable: the least set that holds the anchors and the children of
\* what it holds.
ReachableIn(S) ==
    LET Closed(R) == /\ world.anchors \cap S \subseteq R
                     /\ \A c \in S : Issuers(S, c) \cap R # {} => c \in R
    IN  {c \in S : \A R \in SUBSET S : Closed(R) => c \in R}

\* Certificates of the path that count against a pathLenConstraint.
Below(p) == Cardinality({i \in DOMAIN p : p[i] \in world.intermediate})

\* _leaf_prechecks
LeafFailure ==
    FirstFailing(<<Rule("UNSUPPORTED", world.leaf \notin world.unsupported),
                   Rule("VALIDITY", world.leaf \in world.current),
                   Rule("LEAF_USAGE", world.leafUsage)>>)

\* _edge_checks: extending p with parent.
EdgeFailure(p, parent) ==
    LET edge == <<p[Len(p)], parent>>
    IN  FirstFailing(<<Rule("UNSUPPORTED", parent \notin world.unsupported),
                       Rule("SIGNATURE_INVALID", edge \in world.signed),
                       Rule("VALIDITY", parent \in world.current),
                       Rule("CA_USAGE", parent \in world.caUsage),
                       Rule("PATHLEN_EXCEEDED", Below(p) <= world.pathLen[parent]),
                       Rule("REVOCATION", edge \in world.good)>>)

\* _terminal_checks: the anchor itself, then names and policies of the whole path.
TerminalFailure(p) ==
    LET anchor == p[Len(p)]
    IN  FirstFailing(<<Rule("UNSUPPORTED", anchor \notin world.unsupported),
                       Rule("VALIDITY", anchor \in world.current),
                       Rule("NAMES_OR_POLICIES",
                            \A i, j \in DOMAIN p : <<p[i], p[j]>> \notin world.excluded)>>)

\* Mutant: siblings are tried in descending order.
Greatest(S) == CHOOSE x \in S : \A y \in S : y <= x

Least(S) == CHOOSE x \in S : \A y \in S : x <= y

Current == path[Len(path)]

Fresh ==
    /\ active = Certs
    /\ pc = "start" /\ depth = 1 /\ path = <<>> /\ todo = <<>> /\ cutoff = FALSE
    /\ touched = {} /\ branches = {} /\ budget = 0
    /\ found = <<>> /\ exhausted = FALSE

SearchInit == world \in WorldType /\ Fresh

-----------------------------------------------------------------------------
\* Mutant: a rejection branch replaces the one before it.
Reject_last(p, code) ==
    branches' = IF pc = "record" THEN {<<p, code>>} ELSE branches

\* A rejection branch is recorded on the recording pass only.
Reject(p, code) ==
    branches' = IF pc = "record" THEN branches \cup {<<p, code>>} ELSE branches

\* Mutant: the budget is off by one.
CanSpend_over == budget <= MaxBranches

\* _spend: the budget is shared by all passes of one search.
CanSpend == budget < MaxBranches

\* Mutant: neither calls nor issuers cost anything.
Spend_nothing == UNCHANGED budget

Spend == budget' = budget + 1

\* The innermost call is about to be entered, or to try an issuer.
MustSpend == path # <<>> /\ (Len(todo) = Len(path) => todo[Len(todo)] # {})

Exhaust ==
    /\ MustSpend /\ ~CanSpend
    /\ pc' = "done" /\ exhausted' = TRUE
    /\ UNCHANGED <<world, active, depth, path, todo, cutoff, touched, branches, budget, found>>

\* search: the leaf is checked before any edge.
Start ==
    /\ pc = "start"
    /\ touched' = touched \cup {world.leaf}
    /\ IF LeafFailure # "NONE"
       THEN /\ pc' = "done"
            /\ branches' = {<<<<world.leaf>>, LeafFailure>>}
            /\ UNCHANGED path
       ELSE /\ pc' = "deepen"
            /\ path' = <<world.leaf>>
            /\ UNCHANGED branches
    /\ UNCHANGED <<world, active, depth, todo, cutoff, budget, found, exhausted>>

\* Entry of _dfs at a trust anchor: the path ends here, accepted or not.  What the
\* recording pass returns is thrown away.
EnterAnchor ==
    /\ path # <<>> /\ Len(todo) < Len(path) /\ CanSpend /\ Spend
    /\ Current \in world.anchors
    /\ IF TerminalFailure(path) = "NONE"
       THEN /\ found' = IF pc = "record" THEN found ELSE path
            /\ pc' = "done"
            /\ UNCHANGED <<path, branches>>
       ELSE /\ Reject(path, TerminalFailure(path))
            /\ path' = SubSeq(path, 1, Len(path) - 1)
            /\ UNCHANGED <<found, pc>>
    /\ UNCHANGED <<world, active, depth, todo, cutoff, touched, exhausted>>

Candidates == Issuers(active, Current) \ {path[i] : i \in DOMAIN path}

\* Entry of _dfs at any other certificate.
Enter ==
    /\ path # <<>> /\ Len(todo) < Len(path) /\ CanSpend /\ Spend
    /\ Current \notin world.anchors
    /\ IF Candidates = {}
       THEN /\ Reject(path, "NO_ISSUER")
            /\ path' = SubSeq(path, 1, Len(path) - 1)
            /\ UNCHANGED todo
       ELSE /\ todo' = Append(todo, Candidates)
            /\ UNCHANGED <<path, branches>>
    /\ UNCHANGED <<world, active, pc, depth, cutoff, touched, found, exhausted>>

\* One iteration of the loop over the issuers.  The innermost call has
\* depth - Len(path) + 1 levels left.
TryIssuer ==
    /\ path # <<>> /\ Len(todo) = Len(path) /\ todo[Len(todo)] # {}
    /\ CanSpend /\ Spend
    /\ LET parent == Least(todo[Len(todo)])
           failure == EdgeFailure(path, parent)
           longer == Append(path, parent)
       IN  /\ touched' = touched \cup {parent}
           /\ todo' = [todo EXCEPT ![Len(todo)] = @ \ {parent}]
           /\ \/ /\ failure # "NONE"
                 /\ Reject(longer, failure)
                 /\ UNCHANGED <<path, cutoff>>
              \/ /\ failure = "NONE" /\ parent \in world.anchors
                 /\ path' = longer
                 /\ UNCHANGED <<cutoff, branches>>
              \/ /\ failure = "NONE" /\ parent \notin world.anchors
                 /\ parent \notin ReachableIn(active)
                 /\ Reject(longer, "NO_TRUSTED_ANCHOR")
                 /\ UNCHANGED <<path, cutoff>>
              \/ /\ failure = "NONE" /\ parent \notin world.anchors
                 /\ parent \in ReachableIn(active)
                 /\ IF depth - Len(path) + 1 <= 1
                    THEN cutoff' = TRUE /\ UNCHANGED path
                    ELSE path' = longer /\ UNCHANGED cutoff
                 /\ UNCHANGED branches
    /\ UNCHANGED <<world, active, pc, depth, found, exhausted>>

\* The loop is over: _dfs returns None to the call below it.
Return ==
    /\ path # <<>> /\ Len(todo) = Len(path) /\ todo[Len(todo)] = {}
    /\ todo' = SubSeq(todo, 1, Len(todo) - 1)
    /\ path' = SubSeq(path, 1, Len(path) - 1)
    /\ UNCHANGED <<world, active, pc, depth, cutoff, touched, branches, budget, found, exhausted>>

\* A pass of search found nothing: deepen, record, or stop.
NextPass ==
    /\ pc \in {"deepen", "record"} /\ path = <<>>
    /\ \/ /\ pc = "deepen" /\ cutoff /\ depth < MaxPathLen
          /\ depth' = depth + 1 /\ cutoff' = FALSE /\ path' = <<world.leaf>>
          /\ UNCHANGED <<pc, branches>>
       \/ /\ pc = "deepen" /\ ~(cutoff /\ depth < MaxPathLen)
          /\ pc' = "record" /\ depth' = MaxPathLen /\ branches' = {}
          /\ path' = <<world.leaf>>
          /\ UNCHANGED cutoff
       \/ /\ pc = "record" /\ pc' = "done"
          /\ UNCHANGED <<depth, cutoff, path, branches>>
    /\ UNCHANGED <<world, active, todo, touched, budget, found, exhausted>>

Running == pc \in {"deepen", "record"}

SearchStep ==
    \/ Start
    \/ Running /\ (Exhaust \/ EnterAnchor \/ Enter \/ TryIssuer \/ Return \/ NextPass)

\* The search alone, over the whole set, run by one thread until it returns.
SearchSpec == SearchInit /\ [][SearchStep]_evars /\ WF_evars(SearchStep)

-----------------------------------------------------------------------------
(***************************************************************************)
(* Reference definitions: paths as sets, with no search order.             *)
(***************************************************************************)

\* Sequences of certificates from the leaf, each below the next over names and keys
\* alone, that stop at the first anchor and repeat nothing.
Walks(S) ==
    {p \in UNION {[1..n -> Certs] : n \in 1..Cardinality(Certs)} :
        /\ p[1] = world.leaf
        /\ \A i \in 1..Len(p) - 1 :
              p[i] \notin world.anchors /\ p[i + 1] \in Issuers(S, p[i])
        /\ \A i, j \in DOMAIN p : p[i] = p[j] => i = j}

\* The walks that reach a trust anchor.
Chains(S) == {p \in Walks(S) : p[Len(p)] \in world.anchors}

\* The chains that pass every check.
ValidPaths(S) ==
    {p \in Chains(S) :
        /\ LeafFailure = "NONE" /\ TerminalFailure(p) = "NONE"
        /\ \A i \in 1..Len(p) - 1 : EdgeFailure(SubSeq(p, 1, i), p[i + 1]) = "NONE"}

\* README "Path building and selection": fewest certificates, then the smallest
\* sequence of fingerprints.
Precedes(p, q) ==
    \/ Len(p) < Len(q)
    \/ /\ Len(p) = Len(q)
       /\ \E i \in 1..Len(p) : p[i] < q[i] /\ \A j \in 1..i - 1 : p[j] = q[j]

IsBest(p, S) == p \in ValidPaths(S) /\ \A q \in ValidPaths(S) : q = p \/ Precedes(p, q)

-----------------------------------------------------------------------------
(***************************************************************************)
(* Properties of one search.                                               *)
(***************************************************************************)
Completed == pc = "done" /\ ~exhausted

SearchTypeOK ==
    /\ world \in WorldType /\ active \subseteq Certs
    /\ pc \in {"start", "deepen", "record", "done"}
    /\ depth \in 1..MaxPathLen /\ budget \in 0..MaxBranches
    /\ path \in Seq(Certs) /\ todo \in Seq(SUBSET Certs)
    /\ Len(todo) <= Len(path) /\ Len(path) <= Len(todo) + 1
    /\ cutoff \in BOOLEAN /\ exhausted \in BOOLEAN
    /\ touched \subseteq Certs /\ found \in Seq(Certs)

\* search returns the one path the README promises: iterative deepening and ascending
\* siblings make the first path found the best of all valid ones.
FoundIsBest == (Completed /\ found # <<>>) => IsBest(found, active)

\* A search that ends without a path has missed none within its limit, and none at all
\* unless a branch was cut there: neither the reachability filter nor the shared path
\* prefix hides a valid path.
NothingMissed ==
    (Completed /\ found = <<>>) =>
        \A p \in ValidPaths(active) : cutoff /\ Len(p) > MaxPathLen + 1

\* The steps a search has left at most.  Every call and every issuer tried costs budget, a
\* call adds one level that Return takes away, and the passes are at most MaxPathLen + 2.
SearchLeft ==
    2 * (MaxBranches - budget) + Len(todo) +
    (IF pc = "start" THEN MaxPathLen + 3
     ELSE IF pc = "deepen" THEN MaxPathLen - depth + 2
     ELSE IF pc = "record" THEN 1 ELSE 0)

Covers(b, p) == Len(b[1]) <= Len(p) /\ b[1] = SubSeq(p, 1, Len(b[1]))

\* The rejection proof covers every chain of the graph to a trust anchor: each has a
\* prefix that was recorded with a rule it breaks, never as one that leads nowhere.
ProofCoversEveryChain ==
    (Completed /\ found = <<>> /\ ~cutoff) =>
        \A p \in Chains(active) : \E b \in branches :
            Covers(b, p) /\ b[2] \notin {"NO_ISSUER", "NO_TRUSTED_ANCHOR"}

\* profile.py: MAX_PATH_LEN is the number of certificates in one candidate path.
PathWithinLimit == Len(found) <= MaxPathLen
=============================================================================
